----------------------------- MODULE MpArbiter -----------------------------
(***************************************************************************)
(* The shared-bus arbiter, hdl/common/mp_arbiter.vhd, one action per arm   *)
(* of its clocked process.  N masters raise req and present a transaction; *)
(* the arbiter serializes whole transactions onto one slave port, picking  *)
(* masters round-robin, and pins the bus to a master whose lock input is   *)
(* high when one of its reads completes.                                   *)
(*                                                                         *)
(* Every action is one rising edge of clk and takes the inputs sampled at  *)
(* that edge as parameters:                                                *)
(*   req   the masters whose request is high     lock  likewise, lock high *)
(*   tx    the transaction each master presents  stall the slave's s_stall *)
(*   rd    the slave's s_rdata                                             *)
(* SharedWindow calls ArbEdge with the wires of the hart tiles;            *)
(* ArbiterAlone drives it with arbitrary ones.                             *)
(*                                                                         *)
(* A vector of one bit per master is the set of the masters whose bit is   *)
(* high; the four lane strobes are the set of the strobed lanes, so the    *)
(* code's we = "0000" is the empty set.                                    *)
(***************************************************************************)
EXTENDS BusTypes

VARIABLES
    state,         \* the FSM state
    cur,           \* currently granted master
    rr_ptr,        \* round-robin start pointer
    need_release,  \* served masters whose req has not been observed low yet
    cur_we,        \* lane strobes of the transaction in hand
    gnt, done,     \* grant and completion outputs
    s_en,          \* the slave-side strobe
    s_master,      \* the master the slave should attribute the access to
    s_tx,          \* the slave-side s_we, s_addr and s_wdata
    rdata          \* captured read data

arbVars == << state, cur, rr_ptr, need_release, cur_we, gnt, done,
              s_en, s_master, s_tx, rdata >>

ArbTypeOK ==
    /\ state \in {"IDLE", "LATCH", "DATA", "LOCKED"}
    /\ cur \in Masters
    /\ rr_ptr \in Masters
    /\ need_release \subseteq Masters
    /\ cur_we \subseteq Lanes
    /\ gnt \subseteq Masters
    /\ done \subseteq Masters
    /\ s_en \in BOOLEAN
    /\ s_master \in Masters
    /\ s_tx \in Tx
    /\ rdata \in Words

\* The asynchronous reset.
ArbInit ==
    /\ state = "IDLE"
    /\ cur = 0
    /\ rr_ptr = 0
    /\ need_release = {}
    /\ cur_we = {}
    /\ gnt = {}
    /\ done = {}
    /\ s_en = FALSE
    /\ s_master = 0
    /\ s_tx = [we |-> {}, addr |-> Addr0, wdata |-> Word0]
    /\ rdata = Word0

----------------------------------------------------------------------------

\* Masters an IDLE pick may choose: requesting and not awaiting release.
Eligible(req) == req \ need_release

\* How far master m is from master p, going up and around.
DistanceFrom(p, m) == IF m >= p THEN m - p ELSE m - p + N

Distance(m) == DistanceFrom(rr_ptr, m)

\* Mutants of Following: the pointer does not wrap, or stays with the master served.
Following_NoWrap(m) == m + 1
Following_Stays(m) == m

\* The master after m, where the pointer moves once m has been served.
Following(m) == IF m = N - 1 THEN 0 ELSE m + 1

\* The first eligible master at or after rr_ptr.
IsWinner(m, req) ==
    /\ m \in Eligible(req)
    /\ \A k \in Eligible(req) : Distance(m) <= Distance(k)

\* Mutant: a one-shot mask, cleared by the edge after the one that set it.
Release_OneShot(req) == {}

\* The mask clears at every edge that samples the master's req low; DATA's set wins.
Release(req) == need_release \cap req

\* Mutant: s_master taken from the register cur, which a pick changes at this edge.
Launch_StaleMaster(m, tx) ==
    /\ gnt' = {m}
    /\ s_en' = TRUE
    /\ s_master' = cur
    /\ s_tx' = tx[m]
    /\ cur_we' = tx[m].we
    /\ state' = "LATCH"

\* Present master m's transaction to the slave: the strobe lasts one cycle.
Launch(m, tx) ==
    /\ gnt' = {m}
    /\ s_en' = TRUE
    /\ s_master' = m
    /\ s_tx' = tx[m]
    /\ cur_we' = tx[m].we
    /\ state' = "LATCH"

NoLaunch ==
    /\ s_en' = FALSE
    /\ UNCHANGED << s_master, s_tx, cur_we >>

\* IDLE, nobody eligible.
Rest(req) ==
    /\ state = "IDLE"
    /\ Eligible(req) = {}
    /\ gnt' = {}
    /\ NoLaunch
    /\ UNCHANGED << state, cur, rr_ptr, rdata >>
    /\ done' = {}
    /\ need_release' = Release(req)

\* IDLE, a winner exists: launch its transaction.
Pick(req, tx) ==
    /\ state = "IDLE"
    /\ \E m \in Masters :
          /\ IsWinner(m, req)
          /\ cur' = m
          /\ Launch(m, tx)
    /\ UNCHANGED << rr_ptr, rdata >>
    /\ done' = {}
    /\ need_release' = Release(req)

\* LATCH: the read-latency bubble, stretched while the slave stalls.
Latch(req, stall) ==
    /\ state = "LATCH"
    /\ gnt' = {cur}
    /\ state' = IF stall THEN "LATCH" ELSE "DATA"
    /\ NoLaunch
    /\ UNCHANGED << cur, rr_ptr, rdata >>
    /\ done' = {}
    /\ need_release' = Release(req)

\* Mutant: the completion forgets the lock.
Complete_ForgetsLock(req, lock, rd) ==
    /\ state = "DATA"
    /\ done' = {cur}
    /\ rdata' = rd
    /\ rr_ptr' = Following(cur)
    /\ gnt' = {cur}
    /\ need_release' = Release(req) \cup {cur}
    /\ state' = "IDLE"
    /\ NoLaunch
    /\ UNCHANGED cur

\* DATA: complete the transaction; a locked read keeps the bus.
Complete(req, lock, rd) ==
    /\ state = "DATA"
    /\ done' = {cur}
    /\ rdata' = rd
    /\ rr_ptr' = Following(cur)
    /\ gnt' = {cur}
    /\ need_release' = Release(req) \cup {cur}
    /\ state' = IF cur \in lock /\ cur_we = {} THEN "LOCKED" ELSE "IDLE"
    /\ NoLaunch
    /\ UNCHANGED cur

\* Mutant: no release valve, LOCKED is left by the owner's next request only.
Unlock_NoValve(req, lock) ==
    /\ state = "LOCKED"
    /\ cur \notin lock
    /\ gnt' = {}
    /\ NoLaunch
    /\ UNCHANGED << state, cur, rr_ptr, rdata >>
    /\ done' = {}
    /\ need_release' = Release(req)

\* LOCKED, the owner dropped its lock: the release valve.
Unlock(req, lock) ==
    /\ state = "LOCKED"
    /\ cur \notin lock
    /\ state' = "IDLE"
    /\ gnt' = {}
    /\ NoLaunch
    /\ UNCHANGED << cur, rr_ptr, rdata >>
    /\ done' = {}
    /\ need_release' = Release(req)

\* LOCKED, the owner's fresh request: launch it, serving no one else.
Relaunch(req, tx, lock) ==
    /\ state = "LOCKED"
    /\ cur \in lock
    /\ cur \in Eligible(req)
    /\ Launch(cur, tx)
    /\ UNCHANGED << cur, rr_ptr, rdata >>
    /\ done' = {}
    /\ need_release' = Release(req)

\* LOCKED, waiting for the owner.
Hold(req, lock) ==
    /\ state = "LOCKED"
    /\ cur \in lock
    /\ cur \notin Eligible(req)
    /\ gnt' = {}
    /\ NoLaunch
    /\ UNCHANGED << state, cur, rr_ptr, rdata >>
    /\ done' = {}
    /\ need_release' = Release(req)

ArbEdge(req, tx, lock, stall, rd) ==
    \/ Rest(req)
    \/ Pick(req, tx)
    \/ Latch(req, stall)
    \/ Complete(req, lock, rd)
    \/ Unlock(req, lock)
    \/ Relaunch(req, tx, lock)
    \/ Hold(req, lock)
=============================================================================
