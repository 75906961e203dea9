------------------------------ MODULE IrqCore ------------------------------
(***************************************************************************)
(* A hart's core seen from its interrupt handler: the states of vesta.vhd  *)
(* that take an interrupt, return from one and sleep, with the stack the   *)
(* hardware pushes the return address on.  It runs on clk_cpu, a clock     *)
(* that stops while an access is unanswered and while the core sleeps.     *)
(*                                                                         *)
(* A program counter is a place: "main" for the interrupted program, the   *)
(* steps of an interrupt service routine, "after" for what follows the     *)
(* ISR's iret in memory and "zero" for address 0, the boot ROM.  Every     *)
(* step of a place but iret is one instruction that may be interrupted     *)
(* when it retires.                                                        *)
(***************************************************************************)
EXTENDS Integers, Sequences

CONSTANTS SIP, EXT    \* the vector slots of the software interrupt and of meip

IsrPlaces == {"claim", "serve", "complete", "ack", "iret"}
Places == {"main", "after", "zero"} \cup IsrPlaces

VARIABLES
    cst,               \* the core's FSM state
    pc,
    pc_next_reg,       \* last edge's next PC, what IRQ_SV pushes
    stack,             \* the return addresses between sp and where sp began
    sleep_cpu,         \* the sleep request an extinguish sets and an ignite clears
    irq_restore_ack

coreVars == << cst, pc, pc_next_reg, stack, sleep_cpu, irq_restore_ack >>

CoreTypeOK ==
    /\ cst \in {"EXECUTE", "MEMORY_WAIT", "IRQ_SV", "IRQ_JUMP", "IRQ_REST", "SLEEPING"}
    /\ {pc, pc_next_reg} \subseteq Places
    /\ stack \in Seq(Places)
    /\ {sleep_cpu, irq_restore_ack} \subseteq BOOLEAN

CoreInit ==
    /\ cst = "EXECUTE"
    /\ pc = "main"
    /\ pc_next_reg = "main"
    /\ stack = << >>
    /\ sleep_cpu = FALSE
    /\ irq_restore_ack = FALSE

----------------------------------------------------------------------------

\* The acknowledgement of the save, and the level that says an iret is executing.
irq_save_ack == cst = "IRQ_JUMP"
isr_ret == (cst = "EXECUTE" /\ pc = "iret") \/ cst \in {"MEMORY_WAIT", "IRQ_REST"}

\* Mutant: a sleeper is not woken by its interrupt handler.
ClockEnabled_Unwoken(active) == cst # "SLEEPING"

\* The clock gate, an access outstanding aside: only a sleeper without a
\* handler at work is stopped.
ClockEnabled(active) == cst = "SLEEPING" => active

\* The frame on top of the stack.
Top == stack[Len(stack)]
Popped == SubSeq(stack, 1, Len(stack) - 1)

\* A slot's vector, a jump to its ISR; no slot, no vector.
Vector(slot) ==
    CASE slot = EXT -> "claim"
      [] slot = SIP -> "ack"
      [] OTHER -> "zero"

\* An instruction retires and the next one is at next; an interrupt diverts
\* the core before the program counter moves on.
Retire(next, save) ==
    /\ cst = "EXECUTE" /\ pc # "iret"
    /\ pc_next_reg' = next
    /\ IF save THEN cst' = "IRQ_SV" /\ UNCHANGED pc ELSE pc' = next /\ UNCHANGED cst
    /\ UNCHANGED stack

\* extinguish: to sleep, ahead of any interrupt.
Extinguish ==
    /\ cst = "EXECUTE" /\ pc = "main"
    /\ cst' = "SLEEPING"
    /\ sleep_cpu' = TRUE
    /\ pc_next_reg' = "main"
    /\ UNCHANGED << pc, stack >>

\* iret decodes as a memory instruction: it spends a MEMORY_WAIT in which the
\* stack is read, and which an interrupt may divert like any other.
Iret ==
    /\ cst = "EXECUTE" /\ pc = "iret"
    /\ cst' = "MEMORY_WAIT"
    /\ pc_next_reg' = "after"
    /\ UNCHANGED << pc, stack, sleep_cpu >>

Pop(save) ==
    /\ cst = "MEMORY_WAIT"
    /\ cst' = IF save THEN "IRQ_SV" ELSE "IRQ_REST"
    /\ UNCHANGED << pc, pc_next_reg, stack, sleep_cpu >>

\* Mutant: the return to sleep forgets to move the stack pointer.
Restore_LeavesFrame(save) ==
    /\ cst = "IRQ_REST"
    /\ pc_next_reg' = Top
    /\ \/ save /\ cst' = "IRQ_SV" /\ UNCHANGED << pc, stack >>
       \/ ~ save /\ sleep_cpu /\ cst' = "SLEEPING" /\ UNCHANGED << pc, stack >>
       \/ ~ save /\ ~ sleep_cpu /\ cst' = "EXECUTE" /\ pc' = Top /\ stack' = Popped
    /\ UNCHANGED sleep_cpu

\* The popped address is on the bus; sp moves only if no interrupt diverts.
Restore(save) ==
    /\ cst = "IRQ_REST"
    /\ pc_next_reg' = Top
    /\ \/ save /\ cst' = "IRQ_SV" /\ UNCHANGED << pc, stack >>
       \/ ~ save /\ sleep_cpu /\ cst' = "SLEEPING" /\ stack' = Popped /\ UNCHANGED pc
       \/ ~ save /\ ~ sleep_cpu /\ cst' = "EXECUTE" /\ pc' = Top /\ stack' = Popped
    /\ UNCHANGED sleep_cpu

\* Mutant: the address pushed is the program counter, not the next one.
Save_PushesPc ==
    /\ cst = "IRQ_SV"
    /\ stack' = Append(stack, pc)
    /\ cst' = "IRQ_JUMP"
    /\ UNCHANGED << pc, pc_next_reg, sleep_cpu >>

\* The push at sp - 4.
Save ==
    /\ cst = "IRQ_SV"
    /\ stack' = Append(stack, pc_next_reg)
    /\ cst' = "IRQ_JUMP"
    /\ UNCHANGED << pc, pc_next_reg, sleep_cpu >>

Jump(slot) ==
    /\ cst = "IRQ_JUMP"
    /\ pc' = Vector(slot)
    /\ pc_next_reg' = Vector(slot)
    /\ cst' = "EXECUTE"
    /\ UNCHANGED << stack, sleep_cpu >>

Sleep(save) ==
    /\ cst = "SLEEPING"
    /\ cst' = IF save THEN "IRQ_SV" ELSE "SLEEPING"
    /\ UNCHANGED << pc, pc_next_reg, stack, sleep_cpu >>
=============================================================================
