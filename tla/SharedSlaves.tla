---------------------------- MODULE SharedSlaves ----------------------------
(***************************************************************************)
(* What stands behind the arbiter's single slave port: the shared RAM and  *)
(* the hardware mutex bank (hdl/common/mutex_bank.vhd, one periph_regs     *)
(* instance), chosen by address as MCU.vhd's sub-decode does.  A slave     *)
(* answers a strobe with a registered read one clock later.                *)
(***************************************************************************)
EXTENDS WindowMap

VARIABLES
    mem,        \* the word at every shared address, mutex words included
    s_rdata     \* the selected slave's registered read

slaveVars == << mem, s_rdata >>

SlaveTypeOK ==
    /\ mem \in [Addrs -> Words]
    /\ s_rdata \in Words

SlaveInit ==
    /\ mem = [a \in Addrs |-> Word0]
    /\ s_rdata = Word0

\* The strobed lanes of new over old.
Merge(old, we, new) == [l \in Lanes |-> IF l \in we THEN new[l] ELSE old[l]]

\* Mutant: the write inhibit is missing, so any value can be stored.
MutexAfter_Writable(old, we, wdata, m) ==
    IF we = {} THEN IF old = Word0 THEN OwnerWord(m) ELSE old
    ELSE wdata

\* A mutex word after an access: a read claims it if it is free, a write of
\* zero through any lane frees it, and a nonzero write is no write at all.
MutexAfter(old, we, wdata, m) ==
    IF we = {} THEN IF old = Word0 THEN OwnerWord(m) ELSE old
    ELSE IF wdata = Word0 THEN Word0 ELSE old

\* The word at an address after master m's access to it with these lanes.
AfterAccess(a, we, wdata, m) ==
    IF a \in MutexAddrs THEN MutexAfter(mem[a], we, wdata, m)
    ELSE Merge(mem[a], we, wdata)

\* One edge: a strobed access registers the word from before it lands.
SlaveEdge(en, we, a, wdata, m) ==
    \/ /\ ~ en
       /\ UNCHANGED slaveVars
    \/ /\ en
       /\ s_rdata' = mem[a]
       /\ mem' = [mem EXCEPT ![a] = AfterAccess(a, we, wdata, m)]
=============================================================================
