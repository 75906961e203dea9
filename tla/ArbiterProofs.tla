--------------------------- MODULE ArbiterProofs ---------------------------
(***************************************************************************)
(* Theorems about the arbiter driven by arbitrary wires, for every number  *)
(* of masters and every set of addresses, words and lanes.                 *)
(*                                                                         *)
(* The inductive invariant adds two facts to the checked ones.  FairInv: a *)
(* master's passes so far plus its distance from the place the next pick   *)
(* starts at never exceed N - 1, because each pass moves that place closer *)
(* to it.  SectionInv: an open section pins the state machine to its owner.*)
(***************************************************************************)
EXTENDS ArbiterAlone, TLAPS

\* Where the next round-robin scan will start.
NextStart == IF state \in {"LATCH", "DATA"} THEN Following(cur) ELSE rr_ptr

FairInv ==
    /\ \A m \in Masters : passed[m] + DistanceFrom(NextStart, m) <= N - 1
    /\ state = "LOCKED" => rr_ptr = Following(cur)

SectionInv ==
    section # Nobody => state \in {"LATCH", "DATA", "LOCKED"} /\ cur = section

IInv == TypeOK /\ Attribution /\ FairInv /\ SectionInv

\* What every action's proof may assume about the inputs of an edge.
Inputs(req, tx, lock, stall, rd) ==
    /\ req \in SUBSET Masters
    /\ lock \in SUBSET Masters
    /\ stall \in BOOLEAN
    /\ tx \in [Masters -> Tx]
    /\ rd \in Words

----------------------------------------------------------------------------

\* The distance is that of a walk around N masters, and it tells masters apart.
LEMMA DistanceRange ==
    ASSUME NEW p \in Masters, NEW m \in Masters
    PROVE  DistanceFrom(p, m) \in 0 .. N - 1
BY NAssumption DEF DistanceFrom, Masters

\* Serving w moves the scan's start past w: whoever came after w comes closer.
LEMMA PassedComesCloser ==
    ASSUME NEW p \in Masters, NEW w \in Masters, NEW m \in Masters,
           DistanceFrom(p, w) <= DistanceFrom(p, m), w # m
    PROVE  DistanceFrom(Following(w), m) + 1 <= DistanceFrom(p, m)
BY NAssumption DEF DistanceFrom, Following, Masters

LEMMA FollowingType == ASSUME NEW m \in Masters PROVE Following(m) \in Masters
BY NAssumption DEF Following, Masters

----------------------------------------------------------------------------

LEMMA InitIInv == Init => IInv
<1> SUFFICES ASSUME Init PROVE IInv
    OBVIOUS
<1> USE NAssumption, ResetAssumption DEF Init, ArbInit
<1>1. TypeOK
    <2>1. [we |-> {}, addr |-> Addr0, wdata |-> Word0] \in Tx
        BY DEF Tx
    <2>2. 0 \in Masters
        BY DEF Masters
    <2>3. ArbTypeOK
        BY <2>1, <2>2 DEF ArbTypeOK
    <2>4. passed \in [Masters -> Nat] /\ section \in Masters \cup {Nobody}
        OBVIOUS
    <2> QED BY <2>3, <2>4 DEF TypeOK
<1>2. Attribution /\ SectionInv
    BY DEF Attribution, SectionInv
<1>3. FairInv
    BY DistanceRange DEF FairInv, NextStart, Masters
<1> QED BY <1>1, <1>2, <1>3 DEF IInv

\* The arbiter's own registers stay in their types.
LEMMA ArbTypePreserved ==
    ASSUME ArbTypeOK,
           NEW req, NEW tx, NEW lock, NEW stall, NEW rd,
           Inputs(req, tx, lock, stall, rd),
           ArbEdge(req, tx, lock, stall, rd)
    PROVE  ArbTypeOK'
<1> USE NAssumption DEF ArbTypeOK, Inputs, Release, NoLaunch
<1>1. CASE Rest(req)
    BY <1>1 DEF Rest
<1>2. CASE Pick(req, tx)
    BY <1>2 DEF Pick, Launch, Tx
<1>3. CASE Latch(req, stall)
    BY <1>3 DEF Latch
<1>4. CASE Complete(req, lock, rd)
    BY <1>4, FollowingType DEF Complete
<1>5. CASE Unlock(req, lock)
    BY <1>5 DEF Unlock
<1>6. CASE Relaunch(req, tx, lock)
    BY <1>6 DEF Relaunch, Launch, Tx
<1>7. CASE Hold(req, lock)
    BY <1>7 DEF Hold
<1> QED BY <1>1, <1>2, <1>3, <1>4, <1>5, <1>6, <1>7 DEF ArbEdge

LEMMA HistoryTypePreserved ==
    ASSUME TypeOK,
           NEW req, NEW lock,
           CountPasses(req), TrackSection(lock)
    PROVE  passed' \in [Masters -> Nat] /\ section' \in Masters \cup {Nobody}
<1>1. passed' \in [Masters -> Nat]
    BY DEF CountPasses, TypeOK
<1>2. section' \in Masters \cup {Nobody}
    BY DEF TrackSection, TypeOK, ArbTypeOK
<1> QED BY <1>1, <1>2

LEMMA AttributionPreserved ==
    ASSUME ArbTypeOK, Attribution,
           NEW req, NEW tx, NEW lock, NEW stall, NEW rd,
           Inputs(req, tx, lock, stall, rd),
           ArbEdge(req, tx, lock, stall, rd)
    PROVE  Attribution'
<1> USE DEF ArbTypeOK, Attribution, NoLaunch, Release
<1>1. CASE Rest(req)
    BY <1>1 DEF Rest
<1>2. CASE Pick(req, tx)
    BY <1>2 DEF Pick, Launch
<1>3. CASE Latch(req, stall)
    BY <1>3 DEF Latch
<1>4. CASE Complete(req, lock, rd)
    BY <1>4 DEF Complete
<1>5. CASE Unlock(req, lock)
    BY <1>5 DEF Unlock
<1>6. CASE Relaunch(req, tx, lock)
    BY <1>6 DEF Relaunch, Launch
<1>7. CASE Hold(req, lock)
    BY <1>7 DEF Hold
<1> QED BY <1>1, <1>2, <1>3, <1>4, <1>5, <1>6, <1>7 DEF ArbEdge

----------------------------------------------------------------------------

\* Outside a pick nobody's passes grow and the scan's start stays put.
LEMMA FairWithoutPick ==
    ASSUME TypeOK, FairInv, TypeOK', NEW req, CountPasses(req), ~ Picking,
           NextStart' = NextStart,
           (state = "LOCKED" => rr_ptr = Following(cur))'
    PROVE  FairInv'
<1> SUFFICES ASSUME NEW m \in Masters
             PROVE  passed'[m] + DistanceFrom(NextStart, m) <= N - 1
    BY DEF FairInv, DistanceFrom
<1>1. NextStart \in Masters
    BY FollowingType DEF NextStart, TypeOK, ArbTypeOK
<1>2. DistanceFrom(NextStart, m) \in 0 .. N - 1
    BY <1>1, DistanceRange
<1>3. passed'[m] = 0 \/ passed'[m] = passed[m]
    BY DEF CountPasses
<1> QED BY <1>2, <1>3, NAssumption DEF FairInv, TypeOK

LEMMA FairPick ==
    ASSUME TypeOK, FairInv, TypeOK', NEW req, NEW tx,
           CountPasses(req), Pick(req, tx)
    PROVE  FairInv'
<1>1. PICK w \in Masters : IsWinner(w, req) /\ cur' = w /\ Launch(w, tx)
    BY DEF Pick
<1>2. Picking /\ s_master' = w /\ state = "IDLE" /\ state' = "LATCH"
    BY <1>1 DEF Pick, Launch, Picking
<1>3. NextStart = rr_ptr /\ NextStart' = Following(w)
    BY <1>1, <1>2 DEF NextStart, Following
<1> SUFFICES ASSUME NEW m \in Masters
             PROVE  passed'[m] + DistanceFrom(Following(w), m) <= N - 1
    BY <1>2, <1>3 DEF FairInv, DistanceFrom
<1>4. DistanceFrom(Following(w), m) \in 0 .. N - 1
    BY DistanceRange, FollowingType
<1>5. CASE m \notin Eligible(req) \/ m = w
    BY <1>2, <1>4, <1>5, NAssumption DEF CountPasses
<1>6. CASE m \in Eligible(req) /\ m # w
    <2>1. passed'[m] = passed[m] + 1
        BY <1>2, <1>6 DEF CountPasses
    <2>2. DistanceFrom(rr_ptr, w) <= DistanceFrom(rr_ptr, m)
        BY <1>1, <1>6 DEF IsWinner, Distance
    <2>3. DistanceFrom(Following(w), m) + 1 <= DistanceFrom(rr_ptr, m)
        BY <1>6, <2>2, PassedComesCloser DEF TypeOK, ArbTypeOK
    <2>4. passed[m] + DistanceFrom(rr_ptr, m) <= N - 1
        BY <1>3 DEF FairInv
    <2>5. passed[m] \in Nat /\ DistanceFrom(rr_ptr, m) \in 0 .. N - 1
        BY DistanceRange DEF TypeOK, ArbTypeOK
    <2> QED BY <1>4, <2>1, <2>3, <2>4, <2>5, NAssumption
<1> QED BY <1>5, <1>6

LEMMA FairPreserved ==
    ASSUME TypeOK, FairInv, TypeOK',
           NEW req, NEW tx, NEW lock, NEW stall, NEW rd,
           ArbEdge(req, tx, lock, stall, rd), CountPasses(req)
    PROVE  FairInv'
<1> USE DEF NextStart, Picking, NoLaunch, Following
<1>1. CASE Rest(req)
    BY <1>1, FairWithoutPick DEF Rest, TypeOK, ArbTypeOK
<1>2. CASE Pick(req, tx)
    BY <1>2, FairPick
<1>3. CASE Latch(req, stall)
    BY <1>3, FairWithoutPick DEF Latch, TypeOK, ArbTypeOK
<1>4. CASE Complete(req, lock, rd)
    BY <1>4, FairWithoutPick DEF Complete, TypeOK, ArbTypeOK
<1>5. CASE Unlock(req, lock)
    BY <1>5, FairWithoutPick DEF Unlock, TypeOK, ArbTypeOK
<1>6. CASE Relaunch(req, tx, lock)
    <2>1. NextStart' = NextStart
        BY <1>6 DEF Relaunch, Launch, FairInv
    <2> QED BY <1>6, <2>1, FairWithoutPick DEF Relaunch, Launch
<1>7. CASE Hold(req, lock)
    BY <1>7, FairWithoutPick DEF Hold, FairInv
<1> QED BY <1>1, <1>2, <1>3, <1>4, <1>5, <1>6, <1>7 DEF ArbEdge

----------------------------------------------------------------------------

LEMMA SectionPreserved ==
    ASSUME TypeOK, Attribution, SectionInv, TypeOK',
           NEW req, NEW tx, NEW lock, NEW stall, NEW rd,
           ArbEdge(req, tx, lock, stall, rd), TrackSection(lock)
    PROVE  SectionInv'
<1> USE DEF SectionInv, TrackSection, NoLaunch, TypeOK, ArbTypeOK
<1>1. CASE Rest(req)
    BY <1>1 DEF Rest
<1>2. CASE Pick(req, tx)
    BY <1>2 DEF Pick, Launch
<1>3. CASE Latch(req, stall)
    BY <1>3 DEF Latch
<1>4. CASE Complete(req, lock, rd)
    <2>1. s_master = cur /\ s_tx.we = cur_we /\ done' # {}
        BY <1>4 DEF Complete, Attribution
    <2> QED BY <1>4, <2>1 DEF Complete
<1>5. CASE Unlock(req, lock)
    BY <1>5 DEF Unlock
<1>6. CASE Relaunch(req, tx, lock)
    BY <1>6 DEF Relaunch, Launch
<1>7. CASE Hold(req, lock)
    BY <1>7 DEF Hold
<1> QED BY <1>1, <1>2, <1>3, <1>4, <1>5, <1>6, <1>7 DEF ArbEdge

LEMMA NextIInv == IInv /\ [Next]_vars => IInv'
<1> SUFFICES ASSUME IInv, [Next]_vars PROVE IInv'
    OBVIOUS
<1>1. CASE UNCHANGED vars
    <2> USE <1>1 DEF IInv, vars, arbVars
    <2>1. TypeOK'
        BY DEF TypeOK, ArbTypeOK
    <2>2. Attribution' /\ SectionInv'
        BY DEF Attribution, SectionInv
    <2>3. FairInv'
        BY DEF FairInv, NextStart, DistanceFrom
    <2> QED BY <2>1, <2>2, <2>3
<1>2. ASSUME NEW req \in SUBSET Masters, NEW lock \in SUBSET Masters,
             NEW stall \in BOOLEAN, NEW tx \in [Masters -> Tx], NEW rd \in Words,
             Edge(req, tx, lock, stall, rd)
      PROVE  IInv'
    <2>1. Inputs(req, tx, lock, stall, rd)
        BY <1>2 DEF Inputs
    <2>2. TypeOK'
        BY <1>2, <2>1, ArbTypePreserved, HistoryTypePreserved DEF Edge, IInv, TypeOK
    <2>3. Attribution'
        BY <1>2, <2>1, AttributionPreserved DEF Edge, IInv, TypeOK
    <2>4. FairInv'
        BY <1>2, <2>2, FairPreserved DEF Edge, IInv
    <2>5. SectionInv'
        BY <1>2, <2>2, SectionPreserved DEF Edge, IInv
    <2> QED BY <2>2, <2>3, <2>4, <2>5 DEF IInv
<1> QED BY <1>1, <1>2 DEF Next

----------------------------------------------------------------------------

\* The strengthened invariant holds in every reachable state.
THEOREM Invariance == Spec => []IInv
BY InitIInv, NextIInv, PTL DEF Spec

\* Every register of mp_arbiter stays in its VHDL range, whatever it is wired to.
THEOREM TypeCorrect == Spec => []TypeOK
<1>1. IInv => TypeOK
    BY DEF IInv
<1> QED BY <1>1, Invariance, PTL

\* The strobed access, its grant and its completion always name one master.
THEOREM AttributionHolds == Spec => []Attribution
<1>1. IInv => Attribution
    BY DEF IInv
<1> QED BY <1>1, Invariance, PTL

\* For any number of masters, an eligible one is passed over at most N - 1 times.
THEOREM BypassBounded == Spec => []BoundedBypass
<1>1. IInv => BoundedBypass
    <2> SUFFICES ASSUME IInv, NEW m \in Masters PROVE passed[m] <= N - 1
        BY DEF BoundedBypass
    <2>1. NextStart \in Masters
        BY FollowingType DEF IInv, NextStart, TypeOK, ArbTypeOK
    <2>2. DistanceFrom(NextStart, m) \in 0 .. N - 1
        BY <2>1, DistanceRange
    <2>3. passed[m] + DistanceFrom(NextStart, m) <= N - 1 /\ passed[m] \in Nat
        BY DEF IInv, FairInv, TypeOK
    <2> QED BY <2>2, <2>3, NAssumption
<1> QED BY <1>1, Invariance, PTL

\* No master's transaction reaches the slaves inside another's open section.
THEOREM SectionExclusive == Spec => LockExcludes
<1>1. IInv /\ [Next]_vars => [section # Nobody /\ s_en' => s_master' = section]_vars
    <2> SUFFICES ASSUME IInv, Next, section # Nobody, s_en'
                 PROVE  s_master' = section
        OBVIOUS
    <2>1. PICK req \in SUBSET Masters, lock \in SUBSET Masters, stall \in BOOLEAN,
               tx \in [Masters -> Tx], rd \in Words :
               ArbEdge(req, tx, lock, stall, rd)
        BY DEF Next, Edge
    <2>2. state \in {"LATCH", "DATA", "LOCKED"} /\ cur = section
        BY DEF IInv, SectionInv
    <2>3. Relaunch(req, tx, lock)
        BY <2>1, <2>2 DEF ArbEdge, Rest, Pick, Latch, Complete, Unlock, Hold, NoLaunch
    <2> QED BY <2>2, <2>3 DEF Relaunch, Launch
<1> QED BY <1>1, Invariance, PTL DEF Spec, LockExcludes
=============================================================================
