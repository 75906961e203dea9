------------------------------ MODULE ResvUnit ------------------------------
(***************************************************************************)
(* The global LR/SC reservation unit, hdl/common/resv_unit.vhd.  It snoops *)
(* every strobed transaction of the arbiter, remembers one reserved word   *)
(* per master, decides each store-conditional in the arbiter's order and   *)
(* suppresses the lanes of one that lost.                                  *)
(*                                                                         *)
(* ResvEdge is one clock edge; its parameters are the wires at that edge:  *)
(* the arbiter's strobe, grant, lanes and address, and lr_sc, the LR/SC    *)
(* tag each master drives, which the arbiter does not latch.               *)
(***************************************************************************)
EXTENDS WindowMap

VARIABLES
    resv,        \* the word each master has reserved, or NoAddr
    sc_fail      \* masters whose last adjudicated SC lost

resvVars == << resv, sc_fail >>

ResvTypeOK ==
    /\ resv \in [Masters -> Addrs \cup {NoAddr}]
    /\ sc_fail \subseteq Masters

ResvInit ==
    /\ resv = [m \in Masters |-> NoAddr]
    /\ sc_fail = {}

\* The grant vector as an index; 0 when nothing is granted.
Granted(gnt) ==
    IF gnt = {} THEN 0 ELSE CHOOSE m \in gnt : \A k \in gnt : k <= m

\* The lanes the slaves see: none at all for an SC without its reservation.
GatedLanes(gnt, lr_sc, we, addr) ==
    LET m == Granted(gnt)
    IN  IF lr_sc[m] = "sc" /\ resv[m] # addr THEN {} ELSE we

\* Drop the reservations that the masters of victims hold on addr.
Kill(victims, addr) ==
    [m \in Masters |-> IF m \in victims /\ resv[m] = addr THEN NoAddr ELSE resv[m]]

\* An SC consumes its reservation either way; a winner kills the others on the word.
Adjudicate(m, addr) ==
    IF resv[m] = addr
    THEN /\ sc_fail' = sc_fail \ {m}
         /\ resv' = Kill(Masters, addr)
    ELSE /\ sc_fail' = sc_fail \cup {m}
         /\ resv' = [resv EXCEPT ![m] = NoAddr]

\* Mutant: plain stores break no reservation.
ResvEdge_DeafToStores(en, gnt, lr_sc, we, addr) ==
    LET m == Granted(gnt) IN
    \/ /\ en /\ lr_sc[m] = "sc"
       /\ Adjudicate(m, addr)
    \/ /\ en /\ lr_sc[m] = "lr" /\ we = {}
       /\ resv' = [resv EXCEPT ![m] = addr]
       /\ UNCHANGED sc_fail
    \/ /\ ~ en \/ lr_sc[m] = "none"
       /\ UNCHANGED resvVars

ResvEdge(en, gnt, lr_sc, we, addr) ==
    LET m == Granted(gnt) IN
    \/ /\ ~ en
       /\ UNCHANGED resvVars
    \/ /\ en /\ lr_sc[m] = "sc"
       /\ Adjudicate(m, addr)
    \/ /\ en /\ lr_sc[m] # "sc" /\ we # {}
       /\ resv' = Kill(Masters, addr)
       /\ UNCHANGED sc_fail
    \/ /\ en /\ lr_sc[m] = "lr" /\ we = {}
       /\ resv' = [resv EXCEPT ![m] = addr]
       /\ UNCHANGED sc_fail
    \/ /\ en /\ lr_sc[m] = "none" /\ we = {}
       /\ UNCHANGED resvVars
=============================================================================
