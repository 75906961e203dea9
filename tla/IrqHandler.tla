----------------------------- MODULE IrqHandler -----------------------------
(***************************************************************************)
(* A hart's interrupt handler FSM, hdl/common/vesta/irq_handler.vhd, as    *)
(* the tiles build it: every priority bit low and recursion off, so the    *)
(* states CHECK_NESTED and DIRECT_JUMP and nesting_count play no part.  It *)
(* runs on the free clock; the core answers it from a clock that may stop. *)
(*                                                                         *)
(* One action per state.  The parameters are the wires at the edge: the    *)
(* interrupt lines, the core's save and restore acknowledgements and the   *)
(* level isr_ret.                                                          *)
(***************************************************************************)
EXTENDS Integers

CONSTANTS Slots       \* the live vector slots

ASSUME SlotsAssumption == Slots \subseteq Nat

NoIrq == -1           \* the "no IRQ" sentinel, NUM_IRQS in the code

VARIABLES
    current_state,        \* the FSM state
    found_reg,            \* last edge's selection (irq_found_reg and the index beside it)
    latched_irq,          \* the slot being serviced
    context_saved, context_restored,
    single_isr_active,    \* an ISR is open: everything is masked
    irqs_in_service

handlerVars == << current_state, found_reg, latched_irq, context_saved,
                  context_restored, single_isr_active, irqs_in_service >>

HandlerTypeOK ==
    /\ current_state \in {"IDLE", "ISR_TRIGGERED", "WAIT_SAVE_ACK", "JUMP_TO_IVT",
                          "WAIT_EOI", "IRQ_REST", "WAIT_RESTORE_ACK", "DECIDE_NEXT"}
    /\ found_reg \in Slots \cup {NoIrq}
    /\ latched_irq \in Slots \cup {NoIrq}
    /\ {context_saved, context_restored, single_isr_active} \subseteq BOOLEAN
    /\ irqs_in_service \subseteq Slots

HandlerInit ==
    /\ current_state = "IDLE"
    /\ found_reg = NoIrq
    /\ latched_irq = NoIrq
    /\ context_saved = FALSE
    /\ context_restored = FALSE
    /\ single_isr_active = FALSE
    /\ irqs_in_service = {}

----------------------------------------------------------------------------

\* The slot the priority encoder selects: the lowest of the unmasked lines.
Selected(irq) ==
    IF single_isr_active \/ irq = {} THEN NoIrq
    ELSE CHOOSE i \in irq : \A k \in irq : i <= k

irq_save == current_state \in {"ISR_TRIGGERED", "WAIT_SAVE_ACK"} /\ ~ context_saved

irq_restore ==
    \/ current_state = "IRQ_REST"
    \/ current_state = "WAIT_RESTORE_ACK" /\ ~ context_restored

irq_active == current_state # "IDLE"

\* The transition is decided by last edge's selection, what is latched is this one's.
Idle(irq) ==
    /\ current_state = "IDLE"
    /\ IF found_reg # NoIrq
       THEN /\ current_state' = "ISR_TRIGGERED"
            /\ latched_irq' = Selected(irq)
            /\ irqs_in_service' = irqs_in_service \cup ({Selected(irq)} \ {NoIrq})
            /\ context_saved' = FALSE
            /\ single_isr_active' = TRUE
       ELSE UNCHANGED << current_state, latched_irq, irqs_in_service, context_saved,
                         single_isr_active >>
    /\ UNCHANGED context_restored

AwaitSave(irq_save_ack) ==
    /\ current_state \in {"ISR_TRIGGERED", "WAIT_SAVE_ACK"}
    /\ context_saved' = (context_saved \/ irq_save_ack)
    /\ current_state' = IF irq_save_ack THEN "JUMP_TO_IVT" ELSE "WAIT_SAVE_ACK"
    /\ UNCHANGED << latched_irq, irqs_in_service, single_isr_active, context_restored >>

\* Mutant: the slot is let go as soon as the core has been told to jump.
JumpToIvt_DropsSlot ==
    /\ current_state = "JUMP_TO_IVT"
    /\ current_state' = "WAIT_EOI"
    /\ latched_irq' = NoIrq
    /\ UNCHANGED << irqs_in_service, context_saved, single_isr_active, context_restored >>

JumpToIvt ==
    /\ current_state = "JUMP_TO_IVT"
    /\ current_state' = "WAIT_EOI"
    /\ UNCHANGED << latched_irq, irqs_in_service, context_saved, single_isr_active,
                    context_restored >>

WaitEoi(isr_ret) ==
    /\ current_state = "WAIT_EOI"
    /\ IF isr_ret
       THEN /\ current_state' = "IRQ_REST"
            /\ irqs_in_service' = irqs_in_service \ {latched_irq}
       ELSE UNCHANGED << current_state, irqs_in_service >>
    /\ UNCHANGED << latched_irq, context_saved, single_isr_active, context_restored >>

BeginRestore ==
    /\ current_state = "IRQ_REST"
    /\ current_state' = "WAIT_RESTORE_ACK"
    /\ context_restored' = FALSE
    /\ UNCHANGED << latched_irq, irqs_in_service, context_saved, single_isr_active >>

AwaitRestore(irq_restore_ack) ==
    /\ current_state = "WAIT_RESTORE_ACK"
    /\ context_restored' = (context_restored \/ irq_restore_ack)
    /\ current_state' = IF irq_restore_ack THEN "DECIDE_NEXT" ELSE "WAIT_RESTORE_ACK"
    /\ UNCHANGED << latched_irq, irqs_in_service, context_saved, single_isr_active >>

\* Mutant: the mask that keeps ISRs from nesting is never lifted.
DecideNext_StillMasked ==
    /\ current_state = "DECIDE_NEXT"
    /\ current_state' = "IDLE"
    /\ latched_irq' = NoIrq
    /\ context_saved' = FALSE
    /\ irqs_in_service' = {}
    /\ UNCHANGED << single_isr_active, context_restored >>

\* With recursion off nothing is in service and nothing is selected here (part
\* of IrqDelivery's OneLevel), so the code's third branch is the only one.
DecideNext ==
    /\ current_state = "DECIDE_NEXT"
    /\ current_state' = "IDLE"
    /\ latched_irq' = NoIrq
    /\ context_saved' = FALSE
    /\ irqs_in_service' = {}
    /\ single_isr_active' = FALSE
    /\ UNCHANGED context_restored

HandlerEdge(irq, irq_save_ack, isr_ret, irq_restore_ack) ==
    /\ found_reg' = Selected(irq)
    /\ \/ Idle(irq)
       \/ AwaitSave(irq_save_ack)
       \/ JumpToIvt
       \/ WaitEoi(isr_ret)
       \/ BeginRestore
       \/ AwaitRestore(irq_restore_ack)
       \/ DecideNext
=============================================================================
