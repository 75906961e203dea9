----------------------------- MODULE IrqProofs -----------------------------
(***************************************************************************)
(* Theorems about interrupt delivery, for every number of harts and of     *)
(* sources, every set of stalls and any software that reroutes them.       *)
(*                                                                         *)
(* ExactlyOnce is about the router, but its holder is a program: a source  *)
(* claimed by an ISR that another one interrupted would be forgotten.  So  *)
(* the invariant says what keeps ISRs from nesting: while the core is in   *)
(* the text of an ISR, up to its iret, the handler is on its way to        *)
(* WAIT_EOI or waiting there, and raises no save.                          *)
(*                                                                         *)
(* ReturnsHome and VectorsKnown each fail in a run of its own.  Returning  *)
(* and Vectored are what is true without the stall, and with the care,     *)
(* that those runs turn on and off; OneLevel needs both.                   *)
(***************************************************************************)
EXTENDS IrqDelivery, TLAPS, FiniteSetTheorems, WellFoundedInduction, SequenceTheorems

\* Places a frame may hold: the interrupted program, or an iret that was cut short.
Resumable == {"main", "after"}

\* A frame is on the stack while an ISR runs, and none is ever an ISR's own text.
Frames ==
    /\ stack \in Seq(Resumable)
    /\ InIsr => stack # << >>
    /\ cst \in {"IRQ_SV", "SLEEPING", "MEMORY_WAIT"} => pc_next_reg \in Resumable

\* Where the handler is while the core saves, jumps and runs an ISR.
Paced ==
    /\ cst = "IRQ_SV" => current_state = "WAIT_SAVE_ACK"
    /\ cst = "IRQ_JUMP" => current_state \in {"WAIT_SAVE_ACK", "JUMP_TO_IVT", "WAIT_EOI"}
    /\ cst = "EXECUTE" /\ pc \in IsrPlaces \ {"iret"} =>
          current_state \in {"JUMP_TO_IVT", "WAIT_EOI"}

\* What the dispatchers hold, by where they are.
Clients ==
    /\ cid \in Sources => cst = "EXECUTE" /\ pc \in {"serve", "complete"}
    /\ cst = "EXECUTE" /\ pc \in {"serve", "complete"} => cid \in Sources
    /\ ans # None => cst = "EXECUTE" /\ pc \in {"claim", "complete"}
    /\ cst = "EXECUTE" /\ pc \in {"claim", "serve"} => OwnSources \subseteq irq_in
    /\ cleared \subseteq {h \in Others : theirs[h] # None}

IInv == TypeOK /\ Frames /\ Paced /\ Clients /\ ExactlyOnce

----------------------------------------------------------------------------
(* Sets of naturals have a least element: what the priority encoders choose *)

LEMMA Least ==
  ASSUME NEW S \in SUBSET Nat, S # {}
  PROVE  \E s \in S : \A k \in S : s <= k
<1> DEFINE Upto(s) == {k \in S : k <= s}
<1>1. ASSUME NEW s \in S PROVE Upto(s) \in FiniteSubsetsOf(Nat)
  <2>1. IsFiniteSet(0 .. s) BY FS_Interval
  <2>2. ASSUME NEW k \in Upto(s) PROVE k \in 0 .. s
    <3>1. k \in Nat /\ s \in Nat /\ k <= s OBVIOUS
    <3> QED BY <3>1
  <2> QED BY <2>1, <2>2, FS_Subset DEF FiniteSubsetsOf
<1>2. {Upto(s) : s \in S} # {} OBVIOUS
<1>3. {Upto(s) : s \in S} \subseteq FiniteSubsetsOf(Nat) BY <1>1
<1>4. PICK u \in {Upto(s) : s \in S} :
        \A v \in {Upto(s) : s \in S} : <<v, u>> \notin StrictSubsetOrdering(Nat)
  <2> HIDE DEF Upto
  <2> QED BY <1>2, <1>3, WFMin, FS_StrictSubsetOrderingWellFounded
<1>5. PICK s \in S : u = Upto(s) OBVIOUS
<1>6. ASSUME NEW k \in S PROVE s <= k
  <2>1. SUFFICES ASSUME k < s PROVE FALSE OBVIOUS
  <2>2. ASSUME NEW j \in Upto(k) PROVE j \in Upto(s)
    <3>1. j \in Nat /\ k \in Nat /\ s \in Nat /\ j <= k OBVIOUS
    <3> QED BY <3>1, <2>1
  <2>3. s \in Upto(s) /\ s \notin Upto(k) BY <2>1
  <2>4. <<Upto(k), Upto(s)>> \in StrictSubsetOrdering(Nat)
    <3>1. Upto(k) \in SUBSET Nat /\ Upto(s) \in SUBSET Nat OBVIOUS
    <3> HIDE DEF Upto
    <3> QED BY <3>1, <2>2, <2>3 DEF StrictSubsetOrdering
  <2> QED BY <2>4, <1>4, <1>5
<1> QED BY <1>6

\* A claim is answered with a source that is pending, or with the sentinel.
LEMMA ClaimIdIs ==
  ASSUME NEW h \in Harts, RouterTypeOK
  PROVE  /\ ClaimId(h) \in Pending(h) \cup {CLAIM_NONE}
         /\ Pending(h) \subseteq (irq_in \cap Sources) \ in_service
<1>1. Pending(h) \subseteq (irq_in \cap Sources) \ in_service
  BY DEF Pending, RouterTypeOK
<1>2. \E s \in Pending(h) \cup {CLAIM_NONE} : \A k \in Pending(h) : s <= k
  <2>1. CASE Pending(h) = {} BY <2>1
  <2>2. CASE Pending(h) # {}
    <3>1. Pending(h) \in SUBSET Nat BY <1>1, RouterAssumption DEF Sources
    <3> QED BY <3>1, <2>2, Least
  <2> QED BY <2>1, <2>2
<1> QED BY <1>1, <1>2 DEF ClaimId

\* The handler selects a line that is up, or nothing.
LEMMA SelectedIs ==
  ASSUME NEW irq \in SUBSET Slots
  PROVE  Selected(irq) \in Slots \cup {NoIrq}
<1>1. CASE irq = {} BY <1>1 DEF Selected
<1>2. CASE irq # {}
  <2>1. irq \in SUBSET Nat BY SlotsAssumption
  <2>2. \E i \in irq : \A k \in irq : i <= k BY <2>1, <1>2, Least
  <2> QED BY <2>2 DEF Selected
<1> QED BY <1>1, <1>2

----------------------------------------------------------------------------
(* The handler's edge *)

LEMMA HandlerKeeps ==
  ASSUME NEW irq \in SUBSET Slots, NEW ack \in BOOLEAN, NEW ret \in BOOLEAN, NEW rack \in BOOLEAN,
         HandlerTypeOK, HandlerEdge(irq, ack, ret, rack)
  PROVE  HandlerTypeOK'
<1>1. Selected(irq) \in Slots \cup {NoIrq} BY SelectedIs
<1>2. found_reg' \in Slots \cup {NoIrq} BY <1>1 DEF HandlerEdge
<1>3. CASE Idle(irq) BY <1>1, <1>2, <1>3 DEF HandlerTypeOK, Idle
<1>4. CASE AwaitSave(ack) BY <1>2, <1>4 DEF HandlerTypeOK, AwaitSave
<1>5. CASE JumpToIvt BY <1>2, <1>5 DEF HandlerTypeOK, JumpToIvt
<1>6. CASE WaitEoi(ret) BY <1>2, <1>6 DEF HandlerTypeOK, WaitEoi
<1>7. CASE BeginRestore BY <1>2, <1>7 DEF HandlerTypeOK, BeginRestore
<1>8. CASE AwaitRestore(rack) BY <1>2, <1>8 DEF HandlerTypeOK, AwaitRestore
<1>9. CASE DecideNext BY <1>2, <1>9 DEF HandlerTypeOK, DecideNext
<1> QED BY <1>3, <1>4, <1>5, <1>6, <1>7, <1>8, <1>9 DEF HandlerEdge

\* Where the handler goes from the states an interrupt is entered through.
LEMMA HandlerGoes ==
  ASSUME NEW irq, NEW ack, NEW ret, NEW rack, HandlerEdge(irq, ack, ret, rack)
  PROVE  /\ current_state \in {"ISR_TRIGGERED", "WAIT_SAVE_ACK"} =>
              current_state' = IF ack THEN "JUMP_TO_IVT" ELSE "WAIT_SAVE_ACK"
         /\ current_state = "JUMP_TO_IVT" => current_state' = "WAIT_EOI"
         /\ current_state = "WAIT_EOI" /\ ~ ret => current_state' = "WAIT_EOI"
  BY DEF HandlerEdge, Idle, AwaitSave, JumpToIvt, WaitEoi, BeginRestore, AwaitRestore, DecideNext

----------------------------------------------------------------------------
(* The core's edge *)

\* What a step of the core is, whichever instruction it retires.
LEMMA CoreDoes ==
  ASSUME Frames, Paced, CoreMoves
  PROVE  \/ /\ cst = "EXECUTE" /\ pc = "main" /\ UNCHANGED << stack, cid >>
            /\ pc_next_reg' = "main"
            /\ \/ irq_save /\ cst' = "IRQ_SV" /\ pc' = pc
               \/ cst' = "EXECUTE" /\ pc' = "main"
               \/ cst' = "SLEEPING" /\ pc' = pc
         \/ /\ cst = "EXECUTE" /\ cst' = "EXECUTE" /\ UNCHANGED stack
            /\ pc_next_reg' = pc'
            /\ \/ pc = "claim" /\ pc' = (IF ans = CLAIM_NONE THEN "iret" ELSE "serve") /\ cid' = ans
               \/ pc = "serve" /\ pc' = "complete" /\ cid' = cid
               \/ pc = "complete" /\ pc' = "iret" /\ cid' = None
               \/ pc = "ack" /\ pc' = "iret" /\ cid' = cid
         \/ /\ cst = "EXECUTE" /\ pc = "iret" /\ UNCHANGED << pc, stack, cid >>
            /\ cst' = "MEMORY_WAIT" /\ pc_next_reg' = "after"
         \/ /\ cst = "MEMORY_WAIT" /\ UNCHANGED << pc, pc_next_reg, stack, cid >>
            /\ cst' = IF irq_save THEN "IRQ_SV" ELSE "IRQ_REST"
         \/ Restore(irq_save) /\ UNCHANGED cid
         \/ Save /\ UNCHANGED cid
         \/ Jump(latched_irq) /\ UNCHANGED cid
         \/ Sleep(irq_save) /\ UNCHANGED cid
<1>1. CASE Main(irq_save)
  <2>1. CASE Extinguish BY <1>1, <2>1 DEF Main, Extinguish
  <2>2. CASE Retire("main", irq_save) /\ UNCHANGED sleep_cpu BY <1>1, <2>2 DEF Main, Retire
  <2> QED BY <1>1, <2>1, <2>2 DEF Main
<1>2. CASE Isr(irq_save)
  <2>1. cst = "EXECUTE" /\ pc \in IsrPlaces \ {"iret"}
    BY <1>2 DEF Isr, Retire, IsrPlaces
  <2>2. ~ irq_save BY <2>1 DEF Paced, irq_save
  <2>3. CASE pc = "claim"
    <3>1. Retire(IF ans = CLAIM_NONE THEN "iret" ELSE "serve", irq_save) /\ cid' = ans
      BY <1>2, <2>3 DEF Isr
    <3>2. /\ pc_next_reg' = IF ans = CLAIM_NONE THEN "iret" ELSE "serve"
          /\ pc' = pc_next_reg' /\ UNCHANGED << cst, stack >>
      BY <3>1, <2>2 DEF Retire
    <3> QED BY <2>1, <2>3, <3>1, <3>2
  <2>4. CASE pc \in {"serve", "complete", "ack"}
    BY <1>2, <2>1, <2>2, <2>4 DEF Isr, Retire
  <2> QED BY <2>1, <2>3, <2>4 DEF IsrPlaces
<1>3. CASE Dispatch(irq_save)
  BY <1>3 DEF Dispatch, Iret, Pop
<1> QED BY <1>1, <1>2, <1>3 DEF CoreMoves

\* The frame a return pops, whatever set the frames are from.
LEMMA PopFrom ==
  ASSUME NEW S, stack \in Seq(S), stack # << >>
  PROVE  Top \in S /\ Popped \in Seq(S)
<1>1. Len(stack) \in Nat \ {0} BY EmptySeq
<1>2. \A i \in 1 .. Len(stack) : stack[i] \in S BY ElementOfSeq
<1>3. Popped \in Seq(S)
  <2>1. \A i \in 1 .. Len(stack) - 1 : stack[i] \in S BY <1>1, <1>2
  <2>2. 1 \in Int /\ Len(stack) - 1 \in Int BY <1>1
  <2> QED BY <2>1, <2>2, SubSeqProperties DEF Popped
<1> QED BY <1>1, <1>2, <1>3 DEF Top

LEMMA TopIs ==
  ASSUME Frames, cst = "IRQ_REST"
  PROVE  Top \in Resumable /\ Popped \in Seq(Resumable)
  BY PopFrom DEF Frames, InIsr

LEMMA PacedKept ==
  ASSUME NEW moves \in BOOLEAN, Frames, Paced, Edge(moves)
  PROVE  Paced'
<1>1. HandlerEdge(Lines, irq_save_ack, isr_ret, irq_restore_ack) BY DEF Edge
<1>2. CASE moves = FALSE
  <2>1. UNCHANGED << cst, pc >> BY <1>2 DEF Edge, CoreStays, coreVars
  <2> QED BY <2>1, <1>1, HandlerGoes DEF Paced, irq_save_ack, isr_ret, IsrPlaces
<1>3. CASE moves = TRUE
  <2>1. CoreMoves BY <1>3 DEF Edge
  <2>2. irq_save => current_state \in {"ISR_TRIGGERED", "WAIT_SAVE_ACK"} BY DEF irq_save
  <2>3. cst = "IRQ_REST" => Top \in Resumable BY TopIs
  <2> QED BY <2>1, <2>2, <2>3, CoreDoes, <1>1, HandlerGoes
         DEF Paced, irq_save_ack, isr_ret, IsrPlaces, Restore, Save, Jump, Sleep, Resumable
<1> QED BY <1>2, <1>3

LEMMA FramesKept ==
  ASSUME NEW moves \in BOOLEAN, Frames, Paced, Edge(moves)
  PROVE  Frames'
<1>1. CASE moves = FALSE
  BY <1>1 DEF Edge, CoreStays, coreVars, Frames, InIsr
<1>2. CASE moves = TRUE
  <2>1. CoreMoves BY <1>2 DEF Edge
  <2>2. CASE Restore(irq_save) /\ UNCHANGED cid
    BY <2>2, TopIs DEF Frames, InIsr, Restore, Resumable, IsrPlaces
  <2>3. CASE Save /\ UNCHANGED cid
    <3>1. pc_next_reg \in Resumable BY <2>3 DEF Save, Frames
    <3>2. stack' \in Seq(Resumable) /\ stack' # << >>
      BY <2>3, <3>1, AppendProperties DEF Save, Frames
    <3> QED BY <2>3, <3>2 DEF Save, Frames, InIsr
  <2>4. CASE UNCHANGED stack /\ cst # "IRQ_REST" /\ cst # "IRQ_SV"
    <3>1. stack' \in Seq(Resumable) BY <2>4 DEF Frames
    <3>2. InIsr' => InIsr
      BY <2>1, <2>4, CoreDoes DEF InIsr, Restore, Save, Jump, Sleep, IsrPlaces
    <3>3. InIsr' => stack' # << >> BY <2>4, <3>2 DEF Frames
    <3>4. (cst \in {"IRQ_SV", "SLEEPING", "MEMORY_WAIT"} => pc_next_reg \in Resumable)'
      BY <2>1, <2>4, CoreDoes DEF Frames, Restore, Save, Jump, Sleep, Resumable
    <3> QED BY <3>1, <3>3, <3>4 DEF Frames
  <2> QED BY <2>1, <2>2, <2>3, <2>4, CoreDoes DEF Jump, Sleep, Restore, Save
<1> QED BY <1>1, <1>2

----------------------------------------------------------------------------
(* What the dispatchers hold *)

\* The hart's own dispatcher, when it has no router access answered at this edge.
LEMMA OwnKept ==
  ASSUME NEW moves \in BOOLEAN, TypeOK, Frames, Paced, Clients, Edge(moves), Keep(moves)
  PROVE  /\ OwnSources' = OwnSources
         /\ cid' \in Sources => cst' = "EXECUTE" /\ pc' \in {"serve", "complete"}
         /\ cst' = "EXECUTE" /\ pc' \in {"serve", "complete"} => cid' \in Sources
         /\ ans' # None => cst' = "EXECUTE" /\ pc' \in {"claim", "complete"}
         /\ cst' = "EXECUTE" /\ pc' \in {"claim", "serve"} =>
              /\ ~ Serving(moves)
              /\ OwnSources = {} \/ (cst = "EXECUTE" /\ pc \in {"claim", "serve"})
<1> USE RouterAssumption DEF Sources, None, CLAIM_NONE
<1>1. CASE moves = FALSE
  <2>1. UNCHANGED << cst, pc, cid, ans >> BY <1>1 DEF Edge, CoreStays, coreVars, Keep
  <2> QED BY <1>1, <2>1 DEF Clients, OwnSources, Serving
<1>2. CASE moves = TRUE
  <2>1. CoreMoves /\ ~ Waiting BY <1>2 DEF Edge, CoreMoves
  <2>2. ans' = None BY <1>2 DEF Keep
  <2>3. ans \in Sources \cup {CLAIM_NONE, None} BY DEF TypeOK
  <2>4. CASE cst = "EXECUTE" /\ pc \in {"claim", "serve", "complete"}
    <3>1. cst' = "EXECUTE" BY <2>1, <2>4, CoreDoes DEF Restore, Save, Jump, Sleep
    <3>2. CASE pc = "claim"
      <4>1. cid' = ans /\ ans # None /\ pc' = IF ans = CLAIM_NONE THEN "iret" ELSE "serve"
        BY <2>1, <2>4, <3>2, CoreDoes DEF Restore, Save, Jump, Sleep, Waiting
      <4>2. cid \notin Sources BY <3>2 DEF Clients
      <4>3. OwnSources = {ans} \cap Sources BY <3>2, <4>2 DEF OwnSources
      <4>4. OwnSources' = {ans} \cap Sources
        BY <4>1, <2>2 DEF OwnSources
      <4>5. ~ Serving(moves) BY <3>2 DEF Serving
      <4>6. cid' \in Sources <=> pc' = "serve" BY <4>1, <2>3
      <4>7. pc' \in {"serve", "iret"} BY <4>1
      <4> HIDE DEF Sources, None, CLAIM_NONE
      <4> QED BY <2>4, <3>1, <3>2, <4>3, <4>4, <4>5, <4>6, <4>7, <2>2
    <3>3. CASE pc = "serve"
      <4>1. cid' = cid /\ pc' = "complete"
        BY <2>1, <2>4, <3>3, CoreDoes DEF Restore, Save, Jump, Sleep
      <4>2. ans = None /\ cid \in Sources BY <2>4, <3>3 DEF Clients
      <4> QED BY <3>1, <3>3, <4>1, <4>2, <2>2 DEF OwnSources
    <3>4. CASE pc = "complete"
      <4>1. cid' = None /\ pc' = "iret" /\ ans # None
        BY <2>1, <2>4, <3>4, CoreDoes DEF Restore, Save, Jump, Sleep, Waiting
      <4> QED BY <3>1, <3>4, <4>1, <2>2 DEF OwnSources
    <3> QED BY <2>4, <3>2, <3>3, <3>4
  <2>5. CASE ~ (cst = "EXECUTE" /\ pc \in {"claim", "serve", "complete"})
    <3>1. cid \notin Sources /\ ans = None BY <2>5 DEF Clients
    <3>2. cid' = cid BY <2>1, <2>5, CoreDoes
    <3>3. ~ (cst' = "EXECUTE" /\ pc' \in {"serve", "complete"})
      BY <2>1, <2>5, CoreDoes, TopIs DEF Restore, Save, Jump, Sleep, Vector, Resumable
    <3>4. ~ Serving(moves) BY <2>5 DEF Serving
    <3> QED BY <2>2, <3>1, <3>2, <3>3, <3>4 DEF OwnSources
  <2> QED BY <2>4, <2>5
<1> QED BY <1>1, <1>2

\* The outside world: a level falls only because its holder has cleared it.
LEMMA WorldIs ==
  ASSUME NEW moves \in BOOLEAN, World(moves), TypeOK, Clients, ExactlyOnce
  PROVE  /\ cleared' \subseteq {h \in Others : theirs'[h] # None}
         /\ \A s \in irq_in \ in_service : s \in irq_in' \/ (Serving(moves) /\ cid = s)
         /\ \A h \in Others : /\ theirs[h] # None /\ theirs'[h] = theirs[h] /\ h \notin cleared'
                              => (theirs[h] \in irq_in'
                                  \/ (Serving(moves) /\ cid = theirs[h]))
         /\ ~ Serving(moves) => OwnSources \cap irq_in \subseteq irq_in'
<1>1. PICK clear \in SUBSET {h \in Others : theirs[h] # None} :
        /\ cleared' = {h \in cleared \cup clear : theirs'[h] # None}
        /\ \E up \in {{}} \cup {{s} : s \in Sources} :
             irq_in' = (irq_in \ ({theirs[h] : h \in clear \ cleared}
                                  \cup (IF Serving(moves) THEN {cid} ELSE {}))) \cup up
  BY DEF World
<1>2. \A s \in irq_in : \/ s \in irq_in'
                        \/ \E h \in clear \ cleared : s = theirs[h]
                        \/ Serving(moves) /\ cid = s
  BY <1>1
<1>3. clear \subseteq Others /\ cleared \subseteq Others BY DEF Clients
<1>4. cleared' \subseteq {h \in Others : theirs'[h] # None} BY <1>1, <1>3
<1>5. ASSUME NEW s \in irq_in \ in_service PROVE s \in irq_in' \/ (Serving(moves) /\ cid = s)
  <2>1. ASSUME NEW h \in clear \ cleared PROVE s # theirs[h]
    <3>1. h \in Others /\ theirs[h] \in Sources BY <1>1 DEF TypeOK
    <3>2. theirs[h] \in in_service BY <3>1 DEF ExactlyOnce, Holding
    <3> QED BY <3>2
  <2> QED BY <1>2, <2>1
<1>6. ASSUME NEW h \in Others, theirs[h] # None, theirs'[h] = theirs[h], h \notin cleared'
      PROVE  theirs[h] \in irq_in' \/ (Serving(moves) /\ cid = theirs[h])
  <2>1. h \notin clear /\ h \notin cleared BY <1>1, <1>6
  <2>2. theirs[h] \in irq_in BY <1>6, <2>1 DEF ExactlyOnce
  <2>3. \A g \in clear \ cleared : theirs[g] # theirs[h]
    BY <1>1, <1>3, <1>6, <2>1 DEF ExactlyOnce
  <2> QED BY <1>2, <2>2, <2>3
<1>7. ASSUME ~ Serving(moves), NEW s \in OwnSources \cap irq_in PROVE s \in irq_in'
  <2>1. \A g \in clear \ cleared : s # theirs[g]
    BY <1>1, <1>3, <1>7 DEF ExactlyOnce
  <2> QED BY <1>2, <1>7, <2>1
<1> QED BY <1>4, <1>5, <1>6, <1>7

\* What the one router access of the edge does, with the claims before and after it.
LEMMA AccessIs ==
  ASSUME NEW moves \in BOOLEAN, TypeOK, Clients, Edge(moves)
  PROVE  \/ /\ Keep(moves) /\ UNCHANGED << in_service, theirs >>
         \/ /\ Keep(moves)
            /\ \E h \in Others : /\ theirs[h] = None
                                 /\ in_service' = in_service \cup ({ClaimId(h)} \ {CLAIM_NONE})
                                 /\ theirs' = [theirs EXCEPT ![h] =
                                      IF ClaimId(h) = CLAIM_NONE THEN None ELSE ClaimId(h)]
         \/ /\ Keep(moves)
            /\ \E h \in cleared : /\ in_service' = in_service \ {theirs[h]}
                                  /\ theirs' = [theirs EXCEPT ![h] = None]
         \/ /\ Waiting /\ pc = "claim" /\ moves = FALSE /\ UNCHANGED << cst, pc, cid, theirs >>
            /\ in_service' = in_service \cup ({ClaimId(Self)} \ {CLAIM_NONE})
            /\ ans' = ClaimId(Self)
         \/ /\ Waiting /\ pc = "complete" /\ moves = FALSE /\ UNCHANGED << cst, pc, cid, theirs >>
            /\ in_service' = in_service \ {cid}
            /\ ans' = cid
<1>1. Access(moves) BY DEF Edge
<1>2. CASE NoAccess /\ Keep(moves) /\ UNCHANGED theirs BY <1>2 DEF NoAccess
<1>3. CASE Strobed(moves)
  <2>1. CASE OwnClaim \/ OwnComplete
    <3>1. moves = FALSE BY <2>1 DEF OwnClaim, OwnComplete, Edge, CoreMoves
    <3>2. UNCHANGED << cst, pc, cid >> BY <3>1 DEF Edge, CoreStays, coreVars
    <3> QED BY <2>1, <3>1, <3>2 DEF OwnClaim, OwnComplete, Claim, Complete
  <2>2. CASE Keep(moves) /\ Reroute BY <2>2 DEF Reroute, SetRow
  <2>3. CASE Keep(moves) /\ \E h \in Others : OtherClaim(h) BY <2>3 DEF OtherClaim, Claim
  <2>4. CASE Keep(moves) /\ \E h \in Others : OtherComplete(h) BY <2>4 DEF OtherComplete, Complete
  <2> QED BY <1>3, <2>1, <2>2, <2>3, <2>4 DEF Strobed
<1> QED BY <1>1, <1>2, <1>3 DEF Access

\* No claim, no level and no answer but a holder's own changes what it holds.
LEMMA DeliveryKept ==
  ASSUME NEW moves \in BOOLEAN, IInv, Edge(moves)
  PROVE  Clients' /\ ExactlyOnce'
<1> USE DEF IInv
<1>a. World(moves) BY DEF Edge
<1>b. cleared' \subseteq {h \in Others : theirs'[h] # None} BY <1>a, WorldIs
<1>c. Self \in Harts /\ Others \subseteq Harts BY RouterAssumption DEF Self, Others, Harts
<1>d. None \notin Sources /\ CLAIM_NONE \notin Sources /\ None # CLAIM_NONE
  BY RouterAssumption DEF None, CLAIM_NONE, Sources
<1>e. theirs \in [Others -> Sources \cup {None}] /\ RouterTypeOK BY DEF TypeOK
<1>f. Serving(moves) => cid \in OwnSources
  BY DEF Serving, Clients, OwnSources
<1>g. OwnSources \subseteq in_service BY DEF ExactlyOnce, Holding
<1>h. ASSUME NEW h \in Others, theirs[h] # None, theirs'[h] = theirs[h], h \notin cleared'
      PROVE  theirs[h] \in irq_in'
  BY <1>a, <1>f, <1>h, WorldIs DEF ExactlyOnce
<1>i. ASSUME NEW s \in irq_in \ in_service PROVE s \in irq_in'
  BY <1>a, <1>f, <1>g, WorldIs
<1>1. ASSUME Keep(moves)
      PROVE  /\ Clients'
             /\ OwnSources' = OwnSources
             /\ cst' = "EXECUTE" /\ pc' = "serve" => cid' \in irq_in'
  <2>1. OwnSources' = OwnSources BY <1>1, OwnKept
  <2>2. cst' = "EXECUTE" /\ pc' \in {"claim", "serve"} => OwnSources' \subseteq irq_in'
    BY <1>1, <1>a, OwnKept, WorldIs DEF Clients
  <2>3. Clients' BY <1>1, <1>b, <2>2, OwnKept DEF Clients
  <2>4. cst' = "EXECUTE" /\ pc' = "serve" => cid' \in OwnSources'
    BY <1>1, OwnKept DEF OwnSources
  <2> QED BY <2>1, <2>2, <2>3, <2>4
<1>2. CASE Keep(moves) /\ UNCHANGED << in_service, theirs >>
  BY <1>1, <1>2, <1>h DEF ExactlyOnce, Holding
<1>3. ASSUME Keep(moves), NEW h \in Others, theirs[h] = None,
             in_service' = in_service \cup ({ClaimId(h)} \ {CLAIM_NONE}),
             theirs' = [theirs EXCEPT ![h] = IF ClaimId(h) = CLAIM_NONE THEN None ELSE ClaimId(h)]
      PROVE  Clients' /\ ExactlyOnce'
  <2>1. CASE ClaimId(h) = CLAIM_NONE
    <3>1. theirs' = theirs BY <1>3, <1>e, <2>1
    <3> QED BY <1>2, <1>3, <2>1, <3>1
  <2>2. CASE ClaimId(h) # CLAIM_NONE
    <3> DEFINE id == ClaimId(h)
    <3>1. id \in (irq_in \cap Sources) \ in_service BY <1>c, <1>e, <2>2, ClaimIdIs
    <3> HIDE DEF id
    <3>2. theirs' = [theirs EXCEPT ![h] = id] BY <1>3, <2>2 DEF id
    <3>3. theirs'[h] = id /\ \A g \in Others \ {h} : theirs'[g] = theirs[g] BY <1>e, <3>2
    <3>4. in_service' = in_service \cup {id} BY <1>3, <2>2 DEF id
    <3>5. id \in irq_in' BY <1>i, <3>1
    <3>6. \A g \in Others : theirs[g] # id BY <3>1, <1>e DEF ExactlyOnce, Holding
    <3>7. in_service' = Holding'
      <4>1. {theirs'[g] : g \in Others} \cap Sources
              = ({theirs[g] : g \in Others} \cap Sources) \cup {id}
        BY <1>3, <1>d, <3>1, <3>3
      <4> QED BY <1>1, <1>3, <3>4, <4>1 DEF Holding, ExactlyOnce
    <3>8. \A k \in Others : theirs'[k] # None =>
             /\ k \notin cleared' => theirs'[k] \in irq_in'
             /\ theirs'[k] \notin OwnSources'
             /\ \A g \in Others \ {k} : theirs'[g] # theirs'[k]
      BY <1>1, <1>3, <1>g, <1>h, <3>1, <3>3, <3>5, <3>6 DEF ExactlyOnce
    <3> QED BY <1>1, <1>3, <3>7, <3>8 DEF ExactlyOnce
  <2> QED BY <2>1, <2>2
<1>4. ASSUME Keep(moves), NEW h \in cleared,
             in_service' = in_service \ {theirs[h]}, theirs' = [theirs EXCEPT ![h] = None]
      PROVE  Clients' /\ ExactlyOnce'
  <2>1. h \in Others /\ theirs[h] # None /\ theirs[h] \in Sources BY <1>e DEF Clients
  <2>2. theirs'[h] = None /\ \A g \in Others \ {h} : theirs'[g] = theirs[g] BY <1>e, <1>4, <2>1
  <2>3. in_service' = Holding'
    <3>1. {theirs'[g] : g \in Others} \cap Sources
            = ({theirs[g] : g \in Others} \cap Sources) \ {theirs[h]}
      BY <1>d, <2>1, <2>2 DEF ExactlyOnce
    <3>2. theirs[h] \notin OwnSources BY <2>1 DEF ExactlyOnce
    <3> QED BY <1>1, <1>4, <3>1, <3>2 DEF Holding, ExactlyOnce
  <2>4. \A k \in Others : theirs'[k] # None =>
           /\ k \notin cleared' => theirs'[k] \in irq_in'
           /\ theirs'[k] \notin OwnSources'
           /\ \A g \in Others \ {k} : theirs'[g] # theirs'[k]
    BY <1>1, <1>4, <1>h, <2>1, <2>2 DEF ExactlyOnce
  <2> QED BY <1>1, <1>4, <2>3, <2>4 DEF ExactlyOnce
<1>5. ASSUME Waiting, pc = "claim", moves = FALSE, UNCHANGED << cst, pc, cid, theirs >>,
             in_service' = in_service \cup ({ClaimId(Self)} \ {CLAIM_NONE}), ans' = ClaimId(Self)
      PROVE  Clients' /\ ExactlyOnce'
  <2> DEFINE id == ClaimId(Self)
  <2>1. /\ id \in Pending(Self) \cup {CLAIM_NONE}
        /\ Pending(Self) \subseteq (irq_in \cap Sources) \ in_service
    BY <1>c, <1>e, ClaimIdIs
  <2> HIDE DEF id
  <2>2. cid \notin Sources /\ ans = None /\ cst = "EXECUTE" BY <1>5 DEF Clients, Waiting
  <2>3. OwnSources = {} BY <1>d, <1>5, <2>2 DEF OwnSources
  <2>4. OwnSources' = {id} \cap Sources BY <1>5, <2>2 DEF OwnSources, id
  <2>5. OwnSources' \subseteq irq_in' BY <1>d, <1>i, <2>1, <2>4
  <2>6. in_service' = in_service \cup OwnSources' BY <1>5, <1>d, <2>1, <2>4 DEF id
  <2>7. Clients' BY <1>5, <1>b, <2>2, <2>5 DEF Clients
  <2>8. in_service' = Holding' BY <1>5, <2>3, <2>6 DEF Holding, ExactlyOnce
  <2>9. \A k \in Others : theirs'[k] # None => theirs'[k] \notin OwnSources'
    <3>1. \A k \in Others : theirs[k] # None => theirs[k] \in in_service
      BY <1>e DEF ExactlyOnce, Holding
    <3> QED BY <1>5, <1>d, <2>1, <2>4, <3>1
  <2> QED BY <1>5, <1>h, <2>7, <2>8, <2>9 DEF ExactlyOnce
<1>6. ASSUME Waiting, pc = "complete", moves = FALSE, UNCHANGED << cst, pc, cid, theirs >>,
             in_service' = in_service \ {cid}, ans' = cid
      PROVE  Clients' /\ ExactlyOnce'
  <2>1. cid \in Sources /\ ans = None /\ cst = "EXECUTE" BY <1>6 DEF Clients, Waiting
  <2>2. OwnSources = {cid} BY <1>d, <1>6, <2>1 DEF OwnSources
  <2>3. OwnSources' = {} BY <1>d, <1>6, <2>1 DEF OwnSources
  <2>4. Clients' BY <1>6, <1>b, <2>1, <2>3 DEF Clients
  <2>5. \A k \in Others : theirs[k] # cid BY <1>d, <2>1, <2>2 DEF ExactlyOnce
  <2>6. in_service' = Holding' BY <1>6, <2>2, <2>3, <2>5 DEF Holding, ExactlyOnce
  <2> QED BY <1>6, <1>h, <2>3, <2>4, <2>6 DEF ExactlyOnce
<1> QED BY <1>2, <1>3, <1>4, <1>5, <1>6, AccessIs

\* The ranges.
LEMMA TypesKept ==
  ASSUME NEW moves \in BOOLEAN, IInv, Edge(moves)
  PROVE  TypeOK'
<1> USE DEF IInv
<1>1. Self \in Harts /\ Others \subseteq Harts BY RouterAssumption DEF Self, Others, Harts
<1>2. RouterTypeOK'
  <2>1. irq_in' \subseteq Sources
    <3>1. irq_in \subseteq Sources BY DEF TypeOK, RouterTypeOK
    <3> QED BY <3>1 DEF Edge, World
  <2>2. meip_r' \subseteq Harts /\ en_words' \in [Harts -> SUBSET Sources]
    BY DEF TypeOK, RouterTypeOK, Edge, Access, Strobed, OwnClaim, OwnComplete, Reroute, OtherClaim,
           OtherComplete, NoAccess, Claim, Complete, SetRow, MeipEdge
  <2>3. in_service' \subseteq Sources
    <3>1. in_service \subseteq Sources /\ RouterTypeOK BY DEF TypeOK, RouterTypeOK
    <3>2. \A h \in Harts : {ClaimId(h)} \ {CLAIM_NONE} \subseteq Sources BY <3>1, ClaimIdIs
    <3> QED BY <1>1, <3>1, <3>2, AccessIs
  <2> QED BY <2>1, <2>2, <2>3 DEF RouterTypeOK
<1>3. HandlerTypeOK'
  <2>1. Lines \in SUBSET Slots BY DeliveryAssumption DEF Lines
  <2>2. irq_save_ack \in BOOLEAN /\ isr_ret \in BOOLEAN BY DEF irq_save_ack, isr_ret
  <2> QED BY <2>1, <2>2, HandlerKeeps DEF Edge, TypeOK, CoreTypeOK
<1>4. CoreTypeOK'
  <2>1. stack' \in Seq(Places)
    <3>1. stack' \in Seq(Resumable) BY FramesKept DEF Frames
    <3>2. Resumable \subseteq Places BY DEF Resumable, Places
    <3> QED BY <3>1, <3>2, SeqMonotonic
  <2>2. CASE moves = FALSE BY <2>1, <2>2 DEF Edge, CoreStays, coreVars, TypeOK, CoreTypeOK
  <2>3. CASE moves = TRUE
    <3>1. CoreMoves BY <2>3 DEF Edge
    <3>2. /\ cst' \in {"EXECUTE", "MEMORY_WAIT", "IRQ_SV", "IRQ_JUMP", "IRQ_REST", "SLEEPING"}
          /\ {pc', pc_next_reg'} \subseteq Places
      BY <3>1, CoreDoes, TopIs DEF TypeOK, CoreTypeOK, Places, IsrPlaces, Resumable, Restore, Save,
         Jump, Sleep, Vector
    <3>3. sleep_cpu' \in BOOLEAN
      BY <3>1 DEF TypeOK, CoreTypeOK, CoreMoves, Main, Isr, Dispatch, Retire, Extinguish, Iret, Pop,
         Restore, Save, Jump, Sleep
    <3>4. irq_restore_ack' \in BOOLEAN BY <3>1 DEF CoreMoves, irq_restore
    <3> QED BY <2>1, <3>2, <3>3, <3>4 DEF CoreTypeOK
  <2> QED BY <2>2, <2>3
<1>5. theirs' \in [Others -> Sources \cup {None}] /\ ans' \in Sources \cup {CLAIM_NONE, None}
  <2>1. RouterTypeOK BY DEF TypeOK
  <2>2. \A h \in Harts : ClaimId(h) \in Sources \cup {CLAIM_NONE} BY <2>1, ClaimIdIs
  <2>3. Keep(moves) => ans' \in Sources \cup {CLAIM_NONE, None} BY DEF Keep, TypeOK
  <2> QED BY <1>1, <2>2, <2>3, AccessIs DEF TypeOK
<1>6. cid' \in Sources \cup {CLAIM_NONE, None}
  <2>1. CASE moves = FALSE BY <2>1 DEF Edge, CoreStays, TypeOK
  <2>2. CASE moves = TRUE
    <3>1. CoreMoves BY <2>2 DEF Edge
    <3> QED BY <3>1, CoreDoes DEF TypeOK
  <2> QED BY <2>1, <2>2
<1>7. {bnd_meip', bnd_msip', msip'} \subseteq BOOLEAN
  <2>1. msip' \in BOOLEAN
    <3>1. CASE Acking(moves) BY <3>1 DEF Edge, World
    <3>2. CASE ~ Acking(moves) BY <3>2 DEF Edge, World, TypeOK
    <3> QED BY <3>1, <3>2
  <2>2. bnd_meip' \in BOOLEAN /\ bnd_msip' \in BOOLEAN BY DEF Edge, TypeOK
  <2> QED BY <2>1, <2>2
<1>8. cleared' \subseteq Others BY WorldIs DEF Edge
<1>9. gap' \in 0 .. 2
  <2>1. Access(moves) /\ gap \in 0 .. 2 BY DEF Edge, TypeOK
  <2> QED BY <2>1 DEF Access
<1> QED BY <1>2, <1>3, <1>4, <1>5, <1>6, <1>7, <1>8, <1>9 DEF TypeOK

LEMMA Initially == Init => IInv
<1> SUFFICES ASSUME Init PROVE IInv OBVIOUS
<1> USE RouterAssumption DEF Init, RouterInit, HandlerInit, CoreInit
<1>1. None \notin Sources /\ CLAIM_NONE \notin Sources BY DEF None, CLAIM_NONE, Sources
<1>2. << >> \in Seq(Places) /\ << >> \in Seq(Resumable) BY EmptySeq
<1>3. TypeOK
  <2>1. RouterTypeOK BY DEF RouterTypeOK
  <2>2. HandlerTypeOK BY DEF HandlerTypeOK
  <2>3. CoreTypeOK BY <1>2 DEF CoreTypeOK, Places
  <2>4. {bnd_meip, bnd_msip, msip} \subseteq BOOLEAN OBVIOUS
  <2>5. {ans, cid} \subseteq Sources \cup {CLAIM_NONE, None} OBVIOUS
  <2>6. theirs \in [Others -> Sources \cup {None}] OBVIOUS
  <2>7. cleared \subseteq Others /\ gap \in 0 .. 2 OBVIOUS
  <2> QED BY <2>1, <2>2, <2>3, <2>4, <2>5, <2>6, <2>7 DEF TypeOK
<1>4. Frames BY <1>2 DEF Frames, InIsr, IsrPlaces
<1>5. Paced BY DEF Paced, IsrPlaces
<1>6. Clients BY <1>1 DEF Clients
<1>7. ExactlyOnce BY <1>1 DEF ExactlyOnce, Holding, OwnSources
<1> QED BY <1>3, <1>4, <1>5, <1>6, <1>7 DEF IInv

LEMMA Inductive == IInv /\ [Next]_vars => IInv'
<1>1. ASSUME IInv, NEW moves \in BOOLEAN, Edge(moves) PROVE IInv'
  BY <1>1, FramesKept, PacedKept, DeliveryKept, TypesKept DEF IInv
<1>2. ASSUME IInv, UNCHANGED vars PROVE IInv'
  <2> USE <1>2 DEF IInv, vars, routerVars, handlerVars, coreVars
  <2>1. TypeOK' BY DEF TypeOK, RouterTypeOK, HandlerTypeOK, CoreTypeOK
  <2>2. Frames' /\ Paced' BY DEF Frames, InIsr, Paced
  <2>3. OwnSources' = OwnSources BY DEF OwnSources
  <2>4. Clients' BY <2>3 DEF Clients
  <2>5. ExactlyOnce' BY <2>3 DEF ExactlyOnce, Holding
  <2> QED BY <2>1, <2>2, <2>4, <2>5
<1> QED BY <1>1, <1>2 DEF Next

----------------------------------------------------------------------------
(* Returns, where neither the pop nor the restore can be held up *)

PromptReturn == {"MEMORY_WAIT", "IRQ_REST"} \cap Stalls = {}

\* The handler follows an iret no faster than the core executes it: until the
\* core's restore it has not come round to the next interrupt.
Following(state) ==
    \/ /\ state = "iret"
       /\ current_state \in {"WAIT_EOI", "IRQ_REST", "WAIT_RESTORE_ACK"}
       /\ ~ irq_restore_ack
       /\ current_state = "WAIT_RESTORE_ACK" => ~ context_restored
    \/ /\ state = "MEMORY_WAIT"
       /\ \/ current_state = "IRQ_REST"
          \/ current_state = "WAIT_RESTORE_ACK" /\ irq_restore_ack
    \/ /\ state = "IRQ_REST"
       /\ current_state \in {"WAIT_RESTORE_ACK", "DECIDE_NEXT"}

Returning ==
    /\ stack \in Seq({"main"})
    /\ cst \in {"IRQ_SV", "SLEEPING"} => pc_next_reg = "main"
    /\ cst = "EXECUTE" /\ pc = "iret" => Following("iret")
    /\ cst \in {"MEMORY_WAIT", "IRQ_REST"} => Following(cst)

\* The handler's half of a return.
LEMMA HandlerReturns ==
  ASSUME NEW irq, NEW ack, NEW ret, NEW rack, HandlerEdge(irq, ack, ret, rack)
  PROVE  /\ current_state = "WAIT_EOI" /\ ret => current_state' = "IRQ_REST"
         /\ current_state = "IRQ_REST" =>
              current_state' = "WAIT_RESTORE_ACK" /\ context_restored' = FALSE
         /\ current_state = "WAIT_RESTORE_ACK" =>
              /\ context_restored' = (context_restored \/ rack)
              /\ current_state' = IF rack THEN "DECIDE_NEXT" ELSE "WAIT_RESTORE_ACK"
  BY DEF HandlerEdge, Idle, AwaitSave, JumpToIvt, WaitEoi, BeginRestore, AwaitRestore, DecideNext

LEMMA ReturningKept ==
  ASSUME NEW moves \in BOOLEAN, PromptReturn, IInv, Returning, Edge(moves)
  PROVE  Returning'
<1> USE DEF IInv
<1>1. HandlerEdge(Lines, irq_save_ack, isr_ret, irq_restore_ack) BY DEF Edge
<1>2. irq_save => current_state \in {"ISR_TRIGGERED", "WAIT_SAVE_ACK"} BY DEF irq_save
<1>3. CASE moves = FALSE
  <2>1. UNCHANGED << cst, pc, pc_next_reg, stack, irq_restore_ack >>
    BY <1>3 DEF Edge, CoreStays, coreVars
  <2>2. cst \notin {"MEMORY_WAIT", "IRQ_REST"}
    BY <1>3 DEF Edge, CoreStays, Waiting, ClockEnabled, Lost, PromptReturn
  <2>3. CASE cst = "EXECUTE" /\ pc = "iret"
    <3>1. isr_ret BY <2>3 DEF isr_ret
    <3>2. Following("iret")'
      BY <1>1, <2>1, <2>3, <3>1, HandlerReturns DEF Returning, Following
    <3> QED BY <2>1, <2>3, <3>2 DEF Returning
  <2> QED BY <2>1, <2>2, <2>3 DEF Returning
<1>4. CASE moves = TRUE
  <2>1. CoreMoves /\ irq_restore_ack' = irq_restore BY <1>4 DEF Edge, CoreMoves
  <2>2. CASE cst = "EXECUTE" /\ pc = "iret"
    <3>1. isr_ret BY <2>2 DEF isr_ret
    <3>2. cst' = "MEMORY_WAIT" /\ UNCHANGED stack
      BY <2>1, <2>2, CoreDoes DEF Restore, Save, Jump, Sleep
    <3>3. Following("MEMORY_WAIT")'
      BY <1>1, <2>1, <2>2, <3>1, HandlerReturns DEF Returning, Following, irq_restore
    <3> QED BY <3>2, <3>3 DEF Returning
  <2>3. CASE cst = "MEMORY_WAIT"
    <3>1. ~ irq_save BY <1>2, <2>3 DEF Returning, Following
    <3>2. cst' = "IRQ_REST" /\ UNCHANGED stack
      BY <2>1, <2>3, <3>1, CoreDoes DEF Restore, Save, Jump, Sleep
    <3>3. Following("IRQ_REST")' BY <1>1, <2>3, HandlerReturns DEF Returning, Following
    <3> QED BY <3>2, <3>3 DEF Returning
  <2>4. CASE cst = "IRQ_REST"
    <3>1. ~ irq_save BY <1>2, <2>4 DEF Returning, Following
    <3>2. Restore(irq_save) BY <2>1, <2>4, CoreDoes DEF Save, Jump, Sleep
    <3>3. Top = "main" /\ Popped \in Seq({"main"}) BY <2>4, PopFrom DEF Returning, Frames, InIsr
    <3> QED BY <3>1, <3>2, <3>3 DEF Restore, Returning
  <2>5. CASE cst = "IRQ_SV"
    <3>1. stack' = Append(stack, "main") /\ cst' = "IRQ_JUMP"
      BY <2>1, <2>5, CoreDoes DEF Restore, Save, Jump, Sleep, Returning
    <3>2. stack' \in Seq({"main"}) BY <3>1, AppendProperties DEF Returning
    <3> QED BY <3>1, <3>2 DEF Returning
  <2>6. CASE cst = "EXECUTE" /\ pc \in IsrPlaces \ {"iret"}
    <3>1. cst' = "EXECUTE" /\ UNCHANGED stack
      BY <2>1, <2>6, CoreDoes DEF IsrPlaces, Restore, Save, Jump, Sleep
    <3>2. current_state' = "WAIT_EOI"
      BY <1>1, <2>6, HandlerGoes DEF Paced, isr_ret, IsrPlaces
    <3>3. ~ irq_restore_ack' BY <2>1, <2>6 DEF Paced, irq_restore
    <3> QED BY <3>1, <3>2, <3>3 DEF Returning, Following
  <2>7. CASE cst \in {"IRQ_JUMP", "SLEEPING"} \/ (cst = "EXECUTE" /\ pc \notin IsrPlaces)
    <3>1. /\ UNCHANGED stack
          /\ cst' \in {"IRQ_SV", "SLEEPING"} => pc_next_reg' = "main"
          /\ cst' \notin {"MEMORY_WAIT", "IRQ_REST"} /\ ~ (cst' = "EXECUTE" /\ pc' = "iret")
      BY <2>1, <2>7, CoreDoes DEF IsrPlaces, Restore, Save, Jump, Sleep, Vector, Returning
    <3> QED BY <3>1 DEF Returning
  <2> QED BY <2>2, <2>3, <2>4, <2>5, <2>6, <2>7 DEF TypeOK, CoreTypeOK
<1> QED BY <1>3, <1>4

LEMMA ReturningInit == Init => Returning
  BY EmptySeq DEF Init, CoreInit, Returning

LEMMA ReturningStep == PromptReturn /\ IInv /\ Returning /\ [Next]_vars => Returning'
<1>1. ASSUME UNCHANGED vars, Returning PROVE Returning'
  BY <1>1 DEF vars, handlerVars, coreVars, Returning, Following
<1> QED BY <1>1, ReturningKept DEF Next

----------------------------------------------------------------------------
(* Vectors, where software routes with care *)

\* The handler's own books, by its state: masked while it serves, with nothing
\* found past the start, a slot in hand, and that slot alone in service.
Masked ==
    /\ single_isr_active <=> current_state # "IDLE"
    /\ current_state \notin {"IDLE", "ISR_TRIGGERED"} => found_reg = NoIrq
    /\ current_state \in {"ISR_TRIGGERED", "WAIT_SAVE_ACK", "JUMP_TO_IVT", "WAIT_EOI"} =>
          irqs_in_service \subseteq {latched_irq}
    /\ current_state \in {"IDLE", "IRQ_REST", "WAIT_RESTORE_ACK", "DECIDE_NEXT"} =>
          irqs_in_service = {}

\* A line that is up at the handler is still up behind it, but for the edges
\* between the ISR's claim or acknowledgement and its end.
Steady ==
    /\ \A g \in Harts : \A h \in Harts \ {g} : en_words[g] \cap en_words[h] = {}
    /\ Self \in meip_r /\ Pending(Self) = {} => cst = "EXECUTE" /\ pc = "claim" /\ ans \in Sources
    /\ bnd_meip /\ Self \notin meip_r => cst = "EXECUTE" /\ pc \in {"claim", "serve"}
    /\ bnd_msip /\ ~ msip => cst = "EXECUTE" /\ pc = "iret" /\ current_state = "WAIT_EOI"

\* So what was found is still there when it is latched, and a slot is in hand
\* until the core has jumped.
Vectored ==
    /\ found_reg # NoIrq => Lines # {}
    /\ current_state # "IDLE" => latched_irq \in Slots
    /\ pc # "zero"

LEMMA MaskedKept ==
  ASSUME NEW irq, NEW ack, NEW ret, NEW rack, HandlerTypeOK, Masked,
         HandlerEdge(irq, ack, ret, rack)
  PROVE  Masked'
<1>1. current_state # "IDLE" => found_reg' = NoIrq
  BY DEF HandlerEdge, Masked, Selected
<1>2. CASE Idle(irq)
  BY <1>1, <1>2 DEF HandlerTypeOK, Masked, Idle
<1>3. CASE AwaitSave(ack) BY <1>1, <1>3 DEF HandlerTypeOK, Masked, AwaitSave
<1>4. CASE JumpToIvt BY <1>1, <1>4 DEF HandlerTypeOK, Masked, JumpToIvt
<1>5. CASE WaitEoi(ret) BY <1>1, <1>5 DEF HandlerTypeOK, Masked, WaitEoi
<1>6. CASE BeginRestore BY <1>1, <1>6 DEF HandlerTypeOK, Masked, BeginRestore
<1>7. CASE AwaitRestore(rack) BY <1>1, <1>7 DEF HandlerTypeOK, Masked, AwaitRestore
<1>8. CASE DecideNext BY <1>1, <1>8 DEF HandlerTypeOK, Masked, DecideNext
<1> QED BY <1>2, <1>3, <1>4, <1>5, <1>6, <1>7, <1>8 DEF HandlerEdge

\* Only Self's own claim takes the last source from it.
LEMMA PendingStays ==
  ASSUME NEW moves \in BOOLEAN, Careful, IInv, Steady, Edge(moves), Pending(Self) # {}
  PROVE  \/ Pending(Self)' # {}
         \/ cst' = "EXECUTE" /\ pc' = "claim" /\ ans' \in Sources
<1> USE DEF IInv
<1>1. Self \in Harts /\ Others = Harts \ {Self} BY RouterAssumption DEF Self, Others, Harts
<1>2. PICK s \in Pending(Self) : TRUE OBVIOUS
<1>3. s \in irq_in /\ s \in en_words[Self] /\ s \notin in_service BY <1>2 DEF Pending
<1>4. RouterTypeOK BY DEF TypeOK
<1>5. s \in irq_in'
  <2>1. Serving(moves) => cid \in in_service
    BY DEF Serving, Clients, ExactlyOnce, Holding, OwnSources
  <2> QED BY <1>3, <2>1, WorldIs DEF Edge
<1>6. en_words' = en_words \/ Reroute
  BY DEF Edge, Access, Strobed, NoAccess, OwnClaim, OwnComplete, OtherClaim,
         OtherComplete, Claim, Complete
<1>7. s \in en_words[Self]'
  <2>1. CASE Reroute
    <3>1. PICK h \in Harts, row \in SUBSET Sources : Routable(h, row) /\ SetRow(h, row)
      BY <2>1 DEF Reroute
    <3>2. h = Self => s \in row BY <3>1, <1>3 DEF Routable
    <3> QED BY <3>1, <3>2, <1>1, <1>3, <1>4 DEF SetRow, RouterTypeOK
  <2> QED BY <1>3, <1>6, <2>1
<1>8. CASE s \notin in_service' BY <1>5, <1>7, <1>8 DEF Pending
<1>9. CASE s \in in_service'
  <2>1. ASSUME NEW h \in Others, in_service' = in_service \cup ({ClaimId(h)} \ {CLAIM_NONE})
        PROVE  FALSE
    <3>1. s = ClaimId(h) /\ s # CLAIM_NONE BY <1>3, <1>9, <2>1
    <3>2. s \in en_words[h] BY <1>1, <1>4, <3>1, ClaimIdIs DEF Pending
    <3> QED BY <1>1, <1>3, <3>2 DEF Steady
  <2>2. /\ Waiting /\ pc = "claim" /\ UNCHANGED << cst, pc >> /\ ans' = ClaimId(Self)
        /\ in_service' = in_service \cup ({ClaimId(Self)} \ {CLAIM_NONE})
    BY <1>3, <1>9, <2>1, AccessIs
  <2>3. s = ans' BY <1>3, <1>9, <2>2
  <2>4. s \in Sources BY <1>3, <1>4 DEF RouterTypeOK
  <2> QED BY <2>2, <2>3, <2>4 DEF Waiting
<1> QED BY <1>8, <1>9

LEMMA SteadyKept ==
  ASSUME NEW moves \in BOOLEAN, Careful, IInv, Steady, Edge(moves)
  PROVE  Steady'
<1> USE DEF IInv
<1>1. Self \in Harts /\ Others = Harts \ {Self} BY RouterAssumption DEF Self, Others, Harts
<1>2. (\A g \in Harts : \A h \in Harts \ {g} : en_words[g] \cap en_words[h] = {})'
  <2>1. CASE en_words' = en_words BY <2>1 DEF Steady
  <2>2. CASE Reroute
    <3>1. PICK k \in Harts, row \in SUBSET Sources : Routable(k, row) /\ SetRow(k, row)
      BY <2>2 DEF Reroute
    <3>2. en_words \in [Harts -> SUBSET Sources] BY DEF TypeOK, RouterTypeOK
    <3>3. en_words'[k] = row /\ \A g \in Harts \ {k} : en_words'[g] = en_words[g]
      BY <3>1, <3>2 DEF SetRow
    <3> QED BY <3>1, <3>3 DEF Routable, Steady
  <2> QED BY <2>1, <2>2 DEF Edge, Access, Strobed, NoAccess, OwnClaim, OwnComplete, OtherClaim,
                            OtherComplete, Claim, Complete
<1>3. Self \in meip_r' <=> Pending(Self) # {}
  BY <1>1 DEF Edge, Access, Strobed, NoAccess, OwnClaim, OwnComplete, OtherClaim, OtherComplete,
              Reroute, Claim, Complete, SetRow, MeipEdge
<1>4. (Self \in meip_r /\ Pending(Self) = {} => cst = "EXECUTE" /\ pc = "claim" /\ ans \in Sources)'
  BY <1>3, PendingStays
<1>5. (bnd_meip /\ Self \notin meip_r => cst = "EXECUTE" /\ pc \in {"claim", "serve"})'
  <2>1. SUFFICES ASSUME Self \in meip_r, Pending(Self) = {}
                 PROVE  cst' = "EXECUTE" /\ pc' \in {"claim", "serve"}
    BY <1>3 DEF Edge
  <2>2. cst = "EXECUTE" /\ pc = "claim" /\ ans \in Sources BY <2>1 DEF Steady
  <2>3. CASE moves = FALSE BY <2>2, <2>3 DEF Edge, CoreStays, coreVars
  <2>4. CASE moves = TRUE
    <3>1. CoreMoves BY <2>4 DEF Edge
    <3>2. ans # CLAIM_NONE BY <2>2, RouterAssumption DEF Sources, CLAIM_NONE
    <3> QED BY <2>2, <3>1, <3>2, CoreDoes DEF Restore, Save, Jump, Sleep
  <2> QED BY <2>3, <2>4
<1>6. (bnd_msip /\ ~ msip => cst = "EXECUTE" /\ pc = "iret" /\ current_state = "WAIT_EOI")'
  <2>1. SUFFICES ASSUME msip, ~ msip'
                 PROVE  cst' = "EXECUTE" /\ pc' = "iret" /\ current_state' = "WAIT_EOI"
    BY DEF Edge
  <2>2. moves = TRUE /\ cst = "EXECUTE" /\ pc = "ack"
    BY <2>1 DEF Edge, World, Acking, TypeOK
  <2>3. cst' = "EXECUTE" /\ pc' = "iret"
    <3>1. CoreMoves BY <2>2 DEF Edge
    <3> QED BY <2>2, <3>1, CoreDoes DEF Restore, Save, Jump, Sleep
  <2>4. HandlerEdge(Lines, irq_save_ack, isr_ret, irq_restore_ack) BY DEF Edge
  <2>5. current_state' = "WAIT_EOI" BY <2>2, <2>4, HandlerGoes DEF Paced, isr_ret, IsrPlaces
  <2> QED BY <2>3, <2>5
<1> QED BY <1>2, <1>4, <1>5, <1>6 DEF Steady

LEMMA VectoredKept ==
  ASSUME NEW moves \in BOOLEAN, Careful, IInv, Masked, Steady, Vectored, Edge(moves)
  PROVE  Vectored'
<1> USE DEF IInv
<1>1. HandlerEdge(Lines, irq_save_ack, isr_ret, irq_restore_ack) BY DEF Edge
<1>2. Lines \in SUBSET Slots BY DeliveryAssumption DEF Lines
<1>3. ASSUME ~ single_isr_active, Lines # {} PROVE Selected(Lines) \in Slots
  <2>1. Lines \in SUBSET Nat BY <1>2, SlotsAssumption
  <2>2. \E i \in Lines : \A k \in Lines : i <= k BY <2>1, <1>3, Least
  <2>3. Selected(Lines) \in Lines BY <1>3, <2>2 DEF Selected
  <2> QED BY <1>2, <2>3
<1>4. (found_reg # NoIrq => Lines # {})'
  <2>1. SUFFICES ASSUME found_reg' # NoIrq PROVE bnd_meip' \/ bnd_msip' BY DEF Lines
  <2>2. ~ single_isr_active /\ Lines # {} BY <1>1, <2>1 DEF HandlerEdge, Selected
  <2>3. current_state = "IDLE" BY <2>2 DEF Masked
  <2>4. bnd_meip => Self \in meip_r BY <2>3 DEF Steady, Paced, IsrPlaces
  <2>5. bnd_msip => msip BY <2>3 DEF Steady
  <2> QED BY <2>2, <2>4, <2>5 DEF Lines, Edge
<1>5. (current_state # "IDLE" => latched_irq \in Slots)'
  <2>1. CASE Idle(Lines) BY <2>1, <1>3 DEF Idle, Vectored, Masked
  <2>2. CASE AwaitSave(irq_save_ack) BY <2>2 DEF AwaitSave, Vectored
  <2>3. CASE JumpToIvt BY <2>3 DEF JumpToIvt, Vectored
  <2>4. CASE WaitEoi(isr_ret) BY <2>4 DEF WaitEoi, Vectored
  <2>5. CASE BeginRestore BY <2>5 DEF BeginRestore, Vectored
  <2>6. CASE AwaitRestore(irq_restore_ack) BY <2>6 DEF AwaitRestore, Vectored
  <2>7. CASE DecideNext BY <2>7 DEF DecideNext
  <2> QED BY <1>1, <2>1, <2>2, <2>3, <2>4, <2>5, <2>6, <2>7 DEF HandlerEdge
<1>6. pc' # "zero"
  <2>1. CASE moves = FALSE BY <2>1 DEF Edge, CoreStays, coreVars, Vectored
  <2>2. CASE moves = TRUE
    <3>1. CoreMoves BY <2>2 DEF Edge
    <3>2. cst = "IRQ_JUMP" => Vector(latched_irq) # "zero"
      BY DeliveryAssumption DEF Paced, Vectored, Vector
    <3>3. cst = "IRQ_REST" => Top # "zero" BY TopIs DEF Resumable
    <3> QED BY <3>1, <3>2, <3>3, CoreDoes DEF Restore, Save, Jump, Sleep, Vectored
  <2> QED BY <2>1, <2>2
<1> QED BY <1>4, <1>5, <1>6 DEF Vectored

\* With no vector missed, an edge keeps all three.
LEMMA CareKept ==
  ASSUME Careful, IInv, Masked, Steady, Vectored, [Next]_vars
  PROVE  Masked' /\ Steady' /\ Vectored'
<1>1. ASSUME NEW moves \in BOOLEAN, Edge(moves) PROVE Masked' /\ Steady' /\ Vectored'
  <2>1. Masked' BY <1>1, MaskedKept DEF Edge, IInv, TypeOK
  <2> QED BY <1>1, <2>1, SteadyKept, VectoredKept
<1>2. ASSUME UNCHANGED vars PROVE Masked' /\ Steady' /\ Vectored'
  BY <1>2 DEF vars, routerVars, handlerVars, coreVars, Masked, Steady, Vectored, Lines, Pending
<1> QED BY <1>1, <1>2 DEF Next

LEMMA CareInit == Init => Masked /\ Steady /\ Vectored
<1> SUFFICES ASSUME Init PROVE Masked /\ Steady /\ Vectored OBVIOUS
<1> USE DEF Init, RouterInit, HandlerInit, CoreInit
<1>1. Masked BY DEF Masked
<1>2. Steady BY DEF Steady
<1>3. Vectored BY DEF Vectored
<1> QED BY <1>1, <1>2, <1>3

----------------------------------------------------------------------------
(* One level, where both hold *)

\* The stack's depth.
Level == Len(stack) = IF InIsr THEN 1 ELSE 0

LEMMA LevelKept ==
  ASSUME NEW moves \in BOOLEAN, PromptReturn, IInv, Returning, Vectored, Level, Edge(moves)
  PROVE  Level'
<1> USE DEF IInv
<1>1. CASE moves = FALSE BY <1>1 DEF Edge, CoreStays, coreVars, Level, InIsr
<1>2. CASE moves = TRUE
  <2>1. CoreMoves BY <1>2 DEF Edge
  <2>2. irq_save => current_state \in {"ISR_TRIGGERED", "WAIT_SAVE_ACK"} BY DEF irq_save
  <2>3. cst \in {"MEMORY_WAIT", "IRQ_REST"} => ~ irq_save BY <2>2 DEF Returning, Following
  <2>4. CASE Restore(irq_save)
    <3>1. cst = "IRQ_REST" BY <2>4 DEF Restore
    <3>2. Top = "main" /\ stack' = Popped
      BY <3>1, <2>3, <2>4, PopFrom DEF Restore, Returning, Frames, InIsr
    <3>3. cst' = "SLEEPING" \/ (cst' = "EXECUTE" /\ pc' = "main")
      BY <3>1, <3>2, <2>3, <2>4 DEF Restore
    <3>4. Len(stack) = 1 BY <3>1 DEF Level, InIsr
    <3>5. Len(stack') = 0
      BY <3>2, <3>4, SubSeqProperties DEF Popped, Frames
    <3> QED BY <3>3, <3>5 DEF Level, InIsr, IsrPlaces
  <2>5. CASE Save
    <3>1. Len(stack) = 0 BY <2>5 DEF Save, Level, InIsr
    <3>2. stack \in Seq(Resumable) /\ pc_next_reg \in Resumable BY <2>5 DEF Save, Frames
    <3>3. Len(stack') = 1 BY <2>5, <3>1, <3>2, AppendProperties DEF Save
    <3> QED BY <2>5, <3>3 DEF Save, Level, InIsr
  <2>6. CASE UNCHANGED stack /\ cst \notin {"IRQ_REST", "IRQ_SV"}
    <3>1. InIsr' <=> InIsr
      BY <2>1, <2>3, <2>6, CoreDoes, DeliveryAssumption
         DEF InIsr, IsrPlaces, Restore, Save, Jump, Sleep, Vector, Vectored, Paced
    <3> QED BY <2>6, <3>1 DEF Level
  <2> QED BY <2>1, <2>4, <2>5, <2>6, CoreDoes DEF Jump, Sleep
<1> QED BY <1>1, <1>2

----------------------------------------------------------------------------
(* The theorems *)

\* The registers of router, handler, core and boundary, and what the dispatchers
\* remember, keep their ranges, for every number of harts and sources.
THEOREM TypeCorrect == Spec => []TypeOK
<1>1. IInv => TypeOK BY DEF IInv
<1> QED BY <1>1, Initially, Inductive, PTL DEF Spec

\* Each source is delivered to one hart at a time, and that hart finds it
\* asserted, whatever stalls, shares and reroutes (irq_router.vhd:4).
THEOREM DeliveredOnce == Spec => []ExactlyOnce
<1>1. IInv => ExactlyOnce BY DEF IInv
<1> QED BY <1>1, Initially, Inductive, PTL DEF Spec

\* Where a return's pop and restore are not held up (the stall that breaks it is
\* irq_lost_return's), every frame is the interrupted program's, so that retirq
\* "resumes execution at the interrupted location" (TRM.template.tex:597).
THEOREM ReturnsResume == ASSUME PromptReturn PROVE Spec => []ReturnsHome
<1>1. Returning => ReturnsHome
  <2> SUFFICES ASSUME Returning PROVE ReturnsHome OBVIOUS
  <2>1. stack \in Seq({"main"}) BY DEF Returning
  <2>2. \A i \in 1 .. Len(stack) : stack[i] \in {"main"} BY <2>1, ElementOfSeq
  <2> QED BY <2>2 DEF ReturnsHome
<1>2. Init => Returning BY ReturningInit
<1>3. IInv /\ Returning /\ [Next]_vars => Returning' BY ReturningStep
<1> QED BY <1>1, <1>2, <1>3, Initially, Inductive, PTL DEF Spec

\* Where software moves a source only while its level is low and routes it to one
\* hart (the carelessness that breaks it is irq_vector_zero's), an interrupt the
\* handler has found is still there when it is latched, and the core never jumps
\* to the all-zero vector of none (irq_handler.vhd:457-458).
THEOREM VectorsAlwaysKnown == ASSUME Careful PROVE Spec => []VectorsKnown
<1>1. Vectored => VectorsKnown BY DEF Vectored, VectorsKnown
<1>2. IInv /\ (Masked /\ Steady /\ Vectored) /\ [Next]_vars => (Masked /\ Steady /\ Vectored)'
  BY CareKept
<1> QED BY <1>1, <1>2, CareInit, Initially, Inductive, PTL DEF Spec

\* With both, a frame is on the stack while an ISR runs and at no other time
\* ("stack allocation must cover one interrupt level", TRM.template.tex:603), and
\* nothing is in service or found when the handler decides what comes next.
THEOREM OneLevelAtMost == ASSUME PromptReturn, Careful PROVE Spec => []OneLevel
<1> DEFINE Care == Masked /\ Steady /\ Vectored
<1>1. Init => Care /\ Returning /\ Level
  <2>1. Init => Level BY EmptySeq DEF Init, CoreInit, Level, InIsr, IsrPlaces
  <2> QED BY <2>1, CareInit, ReturningInit
<1>2. IInv /\ Care /\ [Next]_vars => Care' BY CareKept
<1>3. IInv /\ Returning /\ [Next]_vars => Returning' BY ReturningStep
<1>4. IInv /\ Care /\ Returning /\ Level /\ [Next]_vars => Level'
  <2>1. ASSUME UNCHANGED vars, Level PROVE Level' BY <2>1 DEF vars, coreVars, Level, InIsr
  <2> QED BY <2>1, LevelKept DEF Next
<1>5. Care /\ Level => OneLevel BY DEF OneLevel, Level, Masked
<1> QED BY <1>1, <1>2, <1>3, <1>4, <1>5, Initially, Inductive, PTL DEF Spec
=============================================================================
