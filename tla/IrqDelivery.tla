---------------------------- MODULE IrqDelivery ----------------------------
(***************************************************************************)
(* Interrupt delivery: the router, one hart (Self) down to its handler and *)
(* core, and the other harts as far as the router can tell them apart:     *)
(* they claim, serve and complete sources in the documented order.         *)
(*                                                                         *)
(* A step is one edge of mclk.  The core's own edge is in it unless the    *)
(* core is waiting for its access or stalled; Stalls lists the core states *)
(* in which its fetch or its stack read may be held up, by the shared      *)
(* window or by a read of its TCM from outside (tx_busy, hart_tile.vhd).   *)
(*                                                                         *)
(* Careful restricts software: a source is routed to one hart at a time    *)
(* and only while its level is low.                                        *)
(***************************************************************************)
EXTENDS IrqRouter, IrqHandler, IrqCore

CONSTANTS Stalls, Careful, MaxFrames

ASSUME DeliveryAssumption ==
    /\ Slots = {SIP, EXT} /\ SIP # EXT
    /\ Stalls \subseteq {"EXECUTE", "MEMORY_WAIT", "IRQ_SV", "IRQ_JUMP", "IRQ_REST", "SLEEPING"}
    /\ Careful \in BOOLEAN
    /\ MaxFrames \in Nat

Self == 0
Others == Harts \ {Self}
None == NUM_SRCS + 1     \* no answer, no source: apart from CLAIM_NONE

VARIABLES
    bnd_meip,    \* the tile's boundary registers of its interrupt lines
    bnd_msip,
    msip,        \* Self's software interrupt level
    ans,         \* what Self's outstanding router access answered, or None
    cid,         \* the source Self's ISR claimed, or CLAIM_NONE
    theirs,      \* the source each other hart has claimed, or None
    cleared,     \* the other harts that have cleared theirs at the peripheral
    gap          \* edges until the arbiter can strobe the router again

vars == << irq_in, routerVars, handlerVars, coreVars, bnd_meip, bnd_msip, msip,
           ans, cid, theirs, cleared, gap >>

TypeOK ==
    /\ RouterTypeOK /\ HandlerTypeOK /\ CoreTypeOK
    /\ {bnd_meip, bnd_msip, msip} \subseteq BOOLEAN
    /\ {ans, cid} \subseteq Sources \cup {CLAIM_NONE, None}
    /\ theirs \in [Others -> Sources \cup {None}]
    /\ cleared \subseteq Others
    /\ gap \in 0 .. 2

Init ==
    /\ RouterInit /\ HandlerInit /\ CoreInit
    /\ bnd_meip = FALSE /\ bnd_msip = FALSE /\ msip = FALSE
    /\ ans = None /\ cid = None
    /\ theirs = [h \in Others |-> None] /\ cleared = {} /\ gap = 0

----------------------------------------------------------------------------
(* The core's clock edge *)

\* The core waits for the answer of its router access.
Waiting == cst = "EXECUTE" /\ pc \in {"claim", "complete"} /\ ans = None

\* A step of the interrupted program: any instruction, or an extinguish.
Main(save) ==
    /\ pc = "main"
    /\ \/ Retire("main", save) /\ UNCHANGED sleep_cpu
       \/ Extinguish
    /\ UNCHANGED cid

\* A step of an ISR.  A dispatcher answered CLAIM_NONE returns at once; one that
\* was given a source clears it at the peripheral and then completes it.  The
\* ISR of a software interrupt may wake its hart for good.
Isr(save) ==
    \/ /\ pc = "claim"
       /\ Retire(IF ans = CLAIM_NONE THEN "iret" ELSE "serve", save)
       /\ cid' = ans
       /\ UNCHANGED sleep_cpu
    \/ /\ pc = "serve"
       /\ Retire("complete", save)
       /\ UNCHANGED << cid, sleep_cpu >>
    \/ /\ pc = "complete"
       /\ Retire("iret", save)
       /\ cid' = None
       /\ UNCHANGED sleep_cpu
    \/ /\ pc = "ack"
       /\ Retire("iret", save)
       /\ sleep_cpu' \in {sleep_cpu, FALSE}
       /\ UNCHANGED cid

Dispatch(save) ==
    /\ Iret \/ Pop(save) \/ Restore(save) \/ Save \/ Jump(latched_irq) \/ Sleep(save)
    /\ UNCHANGED cid

CoreMoves ==
    /\ ~ Waiting /\ ClockEnabled(irq_active)
    /\ cst = "IRQ_SV" => Len(stack) < MaxFrames
    /\ Main(irq_save) \/ Isr(irq_save) \/ Dispatch(irq_save)
    /\ irq_restore_ack' = irq_restore

\* What runs at address 0, or past an ISR's end, is not this model's program.
Lost == cst = "EXECUTE" /\ pc \in {"zero", "after"}

CoreStays ==
    /\ Waiting \/ ~ ClockEnabled(irq_active) \/ cst \in Stalls \/ Lost
    /\ UNCHANGED << coreVars, cid >>

----------------------------------------------------------------------------
(* The one router access of the edge *)

OwnClaim ==
    /\ Waiting /\ pc = "claim"
    /\ Claim(Self)
    /\ ans' = ClaimId(Self)
    /\ UNCHANGED theirs

OwnComplete ==
    /\ Waiting /\ pc = "complete"
    /\ Complete(cid)
    /\ ans' = cid
    /\ UNCHANGED theirs

OtherClaim(h) ==
    /\ theirs[h] = None
    /\ Claim(h)
    /\ theirs' = [theirs EXCEPT ![h] = IF ClaimId(h) = CLAIM_NONE THEN None ELSE ClaimId(h)]

OtherComplete(h) ==
    /\ h \in cleared
    /\ Complete(theirs[h])
    /\ theirs' = [theirs EXCEPT ![h] = None]

\* What careful software may write to hart h's row.
Routable(h, row) ==
    /\ ((row \ en_words[h]) \cup (en_words[h] \ row)) \cap irq_in = {}
    /\ \A g \in Harts \ {h} : row \cap en_words[g] = {}

Reroute ==
    /\ \E h \in Harts, row \in SUBSET Sources :
          /\ row # en_words[h]
          /\ Careful => Routable(h, row)
          /\ SetRow(h, row)
    /\ UNCHANGED theirs

\* An answer waits for the core's next edge.
Keep(moves) == ans' = IF moves THEN None ELSE ans

Strobed(moves) ==
    \/ OwnClaim
    \/ OwnComplete
    \/ /\ Keep(moves)
       /\ Reroute \/ \E h \in Others : OtherClaim(h) \/ OtherComplete(h)

\* A transaction takes the arbiter three edges (IDLE, LATCH, DATA).
Access(moves) ==
    \/ /\ gap = 0
       /\ Strobed(moves)
       /\ gap' = 2
    \/ /\ NoAccess
       /\ gap' = IF gap = 0 THEN 0 ELSE gap - 1
       /\ Keep(moves)
       /\ UNCHANGED theirs

----------------------------------------------------------------------------
(* The world outside: levels rise at any time and fall when they are served *)

Serving(moves) == moves /\ cst = "EXECUTE" /\ pc = "serve"
Acking(moves) == moves /\ cst = "EXECUTE" /\ pc = "ack"

World(moves) ==
    /\ msip' \in IF Acking(moves) THEN {FALSE} ELSE {msip, TRUE}
    /\ \E clear \in SUBSET {h \in Others : theirs[h] # None} :
          /\ cleared' = {h \in cleared \cup clear : theirs'[h] # None}
          /\ LET down == {theirs[h] : h \in clear \ cleared}
                         \cup (IF Serving(moves) THEN {cid} ELSE {})
             IN  \E up \in {{}} \cup {{s} : s \in Sources} :
                    irq_in' = (irq_in \ down) \cup up

Lines == (IF bnd_meip THEN {EXT} ELSE {}) \cup (IF bnd_msip THEN {SIP} ELSE {})

Edge(moves) ==
    /\ IF moves THEN CoreMoves ELSE CoreStays
    /\ HandlerEdge(Lines, irq_save_ack, isr_ret, irq_restore_ack)
    /\ Access(moves)
    /\ World(moves)
    /\ bnd_meip' = (Self \in meip_r)
    /\ bnd_msip' = msip

Next == \E moves \in BOOLEAN : Edge(moves)

Spec == Init /\ [][Next]_vars

\* mclk never stops; a ready core is not stalled for ever; and the arbiter, round
\* robin, does not for ever prefer others' accesses (ArbiterAlone, BoundedBypass).
Fairness ==
    /\ WF_vars(Next)
    /\ WF_vars(Edge(TRUE))
    /\ SF_vars(Edge(FALSE) /\ (OwnClaim \/ OwnComplete))

FairSpec == Spec /\ Fairness

----------------------------------------------------------------------------

InIsr ==
    \/ cst = "EXECUTE" /\ pc \in IsrPlaces
    \/ cst \in {"IRQ_JUMP", "MEMORY_WAIT", "IRQ_REST"}

\* One level: the hardware's frame is on the stack while an ISR runs and at no
\* other time.  An iret "pops the hardware-saved program counter, increments sp
\* by 4" (TRM.template.tex:597); "stack allocation must cover one interrupt
\* level" (:603).  The handler lets nothing through while an ISR is open.
OneLevel ==
    /\ Len(stack) = IF InIsr THEN 1 ELSE 0
    /\ current_state = "DECIDE_NEXT" => irqs_in_service = {} /\ found_reg = NoIrq

\* What an ISR returns to is the interrupted program, never the ISR's own text:
\* retirq "resumes execution at the interrupted location" (TRM.template.tex:597).
ReturnsHome == \A i \in 1 .. Len(stack) : stack[i] = "main"

\* The core jumps to the vector of an interrupt, never to the absent one's
\* all-zero entry (irq_handler.vhd:457-458), the boot ROM.
VectorsKnown == cst = "EXECUTE" => pc # "zero"

\* Exactly-once delivery (irq_router.vhd:4): the sources in service are those
\* of the harts that hold a claim, no two harts hold the same one, and a hart
\* that comes to serve its source finds it asserted.
OwnSources == IF pc = "complete" /\ ans # None THEN {} ELSE {cid, ans} \cap Sources
Holding == OwnSources \cup ({theirs[h] : h \in Others} \cap Sources)

ExactlyOnce ==
    /\ cst = "EXECUTE" /\ pc = "serve" => cid \in irq_in
    /\ \A h \in Others : theirs[h] # None =>
          /\ h \notin cleared => theirs[h] \in irq_in
          /\ theirs[h] \notin OwnSources
          /\ \A g \in Others \ {h} : theirs[g] # theirs[h]
    /\ in_service = Holding

\* A software interrupt is taken, asleep or awake.
IpiTaken == msip ~> ~ msip

\* The source of lowest id routed to Self is served, asleep or awake, provided
\* software interrupts, which outrank it, do not keep coming.
Served == cid = 0 /\ pc = "serve"
SourceServed == <>[](~ msip) => (0 \in irq_in \cap en_words[Self] ~> Served)
=============================================================================
