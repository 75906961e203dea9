---------------------------- MODULE ArbiterAlone ----------------------------
(***************************************************************************)
(* The arbiter driven by arbitrary wires: at every edge any masters may    *)
(* request, hold their lock and present any transaction, and the slave may *)
(* stall.  What holds here holds for whatever is attached to it.           *)
(*                                                                         *)
(* passed and section are history variables: they record what the bus has  *)
(* done and never influence it.                                            *)
(***************************************************************************)
EXTENDS MpArbiter

VARIABLES
    passed,    \* how often the pick went to another while m stood eligible
    section    \* the master whose read-modify-write section is open, or Nobody

vars == << arbVars, passed, section >>

Nobody == N

TypeOK ==
    /\ ArbTypeOK
    /\ passed \in [Masters -> Nat]
    /\ section \in Masters \cup {Nobody}

Init ==
    /\ ArbInit
    /\ passed = [m \in Masters |-> 0]
    /\ section = Nobody

----------------------------------------------------------------------------

\* This edge is a round-robin pick (a relaunch under the lock is not one).
Picking == state = "IDLE" /\ s_en'

CountPasses(req) ==
    passed' = [m \in Masters |->
                 IF m \notin Eligible(req) \/ (Picking /\ s_master' = m) THEN 0
                 ELSE IF Picking THEN passed[m] + 1
                 ELSE passed[m]]

\* A locked read's completion opens the section; any other completion of its
\* owner, or a lock seen low between two transactions, closes it.
TrackSection(lock) ==
    section' =
        IF done' # {} THEN IF s_master \in lock /\ s_tx.we = {} THEN s_master ELSE Nobody
        ELSE IF state \notin {"LATCH", "DATA"} /\ section \notin lock THEN Nobody
        ELSE section

Edge(req, tx, lock, stall, rd) ==
    /\ ArbEdge(req, tx, lock, stall, rd)
    /\ CountPasses(req)
    /\ TrackSection(lock)

Next == \E req, lock \in SUBSET Masters, stall \in BOOLEAN,
           tx \in [Masters -> Tx], rd \in Words :
           Edge(req, tx, lock, stall, rd)

Spec == Init /\ [][Next]_vars

----------------------------------------------------------------------------

\* A strobed access belongs to one master, and every slave agrees which: the
\* reservation unit decodes it from the one-hot grant (resv_unit.vhd:56-66),
\* the mutex bank from s_master.  A completion goes to the master strobed.
Attribution ==
    /\ s_en => state = "LATCH" /\ gnt = {s_master}
    /\ state \in {"LATCH", "DATA"} => s_master = cur /\ s_tx.we = cur_we
    /\ done # {} => done = {s_master} /\ gnt = {s_master} /\ s_master \in need_release

\* Round-robin fairness: while a master stands eligible, the pick goes to
\* others at most N - 1 times before it goes to that master.
BoundedBypass == \A m \in Masters : passed[m] <= N - 1

\* Grant locking: while a master's read-modify-write section is open, nobody
\* else's transaction reaches the slaves.
LockExcludes == [][section # Nobody /\ s_en' => s_master' = section]_vars
=============================================================================
