---------------------------- MODULE CommitTrace ----------------------------
(* The hart as its commit tracer shows it (vesta_tracer.vhd): a program that loads, stores,   *)
(* polls a device, reads the shared window, tries sc.w and parks, interrupted by one-level    *)
(* handlers that may rewrite the stacked return PC. Every step leaves the records the tracer  *)
(* writes for it. A diagnostic rides on the record it binds to: "# IRQPUSH" on the T, and     *)
(* "# IRETPOP" on the iret. The program is chosen as it runs.                                 *)
EXTENDS Integers, Sequences, FiniteSets

CONSTANTS
  LAST,       \* program counters are 0 .. LAST
  MAIN,       \* bound: instructions retired outside handlers
  ISR,        \* bound: instructions retired inside handlers
  TRAPS,      \* bound: interrupts taken
  Ops,        \* kinds of instruction the program may hold
  IsrOps,     \* kinds of instruction a handler may hold
  Faults      \* what the hart may get wrong, at most once in a run

ASSUME BoundsAssumption ==
  /\ LAST \in Nat /\ MAIN \in Nat /\ ISR \in Nat /\ TRAPS \in Nat
  /\ Ops \subseteq {"load", "store", "mmio", "shared", "sc", "park"}
  /\ IsrOps \subseteq {"store", "mmio", "shared", "sc", "redirect", "ignite"}
  /\ Faults \subseteq {"value", "store", "lost", "resume"}

VARIABLES
  code,       \* pc -> the instruction there, "any" until it first runs
  pc, reg,    \* the program counter, the one register
  mem,        \* the words of the hart's own memory: LOCAL and the stacked PC
  mode,       \* "run" | "isr" | "sleep"
  sleepCpu,   \* sleep_cpu: EXTINGUISH sets it, the handler's IGNITE clears it
  wfiArmed,   \* wfi_armed: the park's own retire has not been traced yet
  due,        \* an iret has been taken and no instruction outside a handler traced since
  abut,       \* a window has opened while one was due
  fault,      \* "none", or what the hart got wrong
  mains, isrs, traps,   \* how many of each so far
  records     \* trace records the readers have not taken

hartVars == <<code, pc, reg, mem, mode, sleepCpu, wfiArmed, due, abut, fault, mains, isrs, traps, records>>

PCs == 0 .. LAST
HandlerPc == LAST + 2
Values == {0, 1}
NoPc == -1
Local == "local"    \* a word of the hart's own memory
Shared == "shared"  \* a word every hart writes: the plant window
Device == "device"  \* a register of a peripheral: the mmio window
Slot == "slot"      \* the word of the stack the return PC is pushed to

(* The instructions that write the register. *)
Writers == {"load", "mmio", "shared", "sc"}

R(p, op, v) == [k |-> "R", pc |-> p, op |-> op, rdval |-> v]
L(a, v) == [k |-> "L", addr |-> a, data |-> v]
S(a, v) == [k |-> "S", addr |-> a, data |-> v]
T(epc) == [k |-> "T", epc |-> epc, push |-> epc]
X(kind) == [k |-> "X", kind |-> kind]

HartInit ==
  /\ code = [p \in PCs |-> "any"]
  /\ pc = 0 /\ reg = 0 /\ mem = [a \in {Local, Slot} |-> 0]
  /\ mode = "run" /\ sleepCpu = FALSE /\ wfiArmed = FALSE
  /\ due = FALSE /\ abut = FALSE /\ fault = "none"
  /\ mains = 0 /\ isrs = 0 /\ traps = 0 /\ records = <<>>

(* What an instruction of kind op may leave, handler or not: the register, the LOCAL word and *)
(* its memory records. A device and the shared window answer what the register does not hold: *)
(* an answer that changes nothing shows nothing. A failed sc.w writes nothing, but its M S    *)
(* stays in the trace when the tracer cannot classify it (# SCGHOSTX, and traces before A16). *)
Outcomes(op) ==
  CASE op = "load"   -> {[reg |-> mem[Local], local |-> mem[Local], m |-> <<L(Local, mem[Local])>>]}
    [] op = "store"  -> {[reg |-> reg, local |-> reg, m |-> <<S(Local, reg)>>]}
    [] op = "mmio"   -> {[reg |-> 1 - reg, local |-> mem[Local], m |-> <<L(Device, 1 - reg)>>]}
    [] op = "shared" -> {[reg |-> 1 - reg, local |-> mem[Local], m |-> <<L(Shared, 1 - reg)>>]}
    [] op = "sc"     -> {[reg |-> 0, local |-> mem[Local], m |-> <<S(Shared, reg)>>]} \cup
                        {[reg |-> 1, local |-> mem[Local], m |-> ghost] :
                             ghost \in {<<>>, <<S(Shared, reg)>>}}
    [] OTHER         -> {[reg |-> reg, local |-> mem[Local], m |-> <<>>]}

RdVal(op, o) == IF op \in Writers THEN o.reg ELSE 0

(* The faults of an instruction: a load returns the other value, a store writes it, an sc.w   *)
(* claims success and writes nothing.                                                         *)
Broken(op) ==
  LET keep == [reg |-> reg, local |-> mem[Local], m |-> <<>>]
      wrong == [load  |-> <<"value", [keep EXCEPT !.reg = 1 - mem[Local], !.m = <<L(Local, mem[Local])>>]>>,
                store |-> <<"store", [keep EXCEPT !.local = 1 - reg, !.m = <<S(Local, 1 - reg)>>]>>,
                sc    |-> <<"lost", [keep EXCEPT !.reg = 0]>>]
  IN  IF op \in DOMAIN wrong /\ wrong[op][1] \in Faults THEN {wrong[op]} ELSE {}

(* An instruction of the program other than a park retires. *)
Retire ==
  /\ records = <<>> /\ mode = "run" /\ pc \in PCs /\ mains < MAIN
  /\ \E op \in Ops \ {"park"} :
       /\ code[pc] \in {"any", op}
       /\ code' = [code EXCEPT ![pc] = op]
       /\ \E x \in {<<fault, o>> : o \in Outcomes(op)} \cup (IF fault = "none" THEN Broken(op) ELSE {}) :
            /\ fault' = x[1]
            /\ reg' = x[2].reg /\ mem' = [mem EXCEPT ![Local] = x[2].local]
            /\ records' = <<R(pc, op, RdVal(op, x[2]))>> \o x[2].m
  /\ pc' = pc + 1 /\ mains' = mains + 1 /\ due' = FALSE
  /\ UNCHANGED <<mode, sleepCpu, wfiArmed, abut, isrs, traps>>

(* EXTINGUISH: the hart sleeps. Its retire is traced when it wakes. The first instruction of  *)
(* the compared window is not one.                                                            *)
Park ==
  /\ records = <<>> /\ mode = "run" /\ pc \in PCs /\ mains \in 1 .. MAIN - 1
  /\ "park" \in Ops /\ code[pc] \in {"any", "park"}
  /\ code' = [code EXCEPT ![pc] = "park"]
  /\ mode' = "sleep" /\ sleepCpu' = TRUE /\ wfiArmed' = TRUE
  /\ abut' = (abut \/ due)
  /\ mains' = mains + 1
  /\ records' = <<X("wfi_enter")>>
  /\ UNCHANGED <<pc, reg, mem, due, fault, isrs, traps>>

(* An interrupt is taken: between two instructions, except right after an iret, or out of     *)
(* sleep. A park traces its retire and its wake first. The return PC is pushed to the stack.  *)
Interrupt ==
  /\ records = <<>> /\ traps < TRAPS /\ mains > 0
  /\ \/ mode = "run" /\ ~due /\ pc \in PCs
     \/ mode = "sleep"
  /\ LET epc == IF wfiArmed THEN pc + 1 ELSE pc
     IN  /\ records' = (IF wfiArmed THEN <<R(pc, "park", 0), X("wfi_wake")>> ELSE <<>>) \o <<T(epc)>>
         /\ pc' = epc /\ mem' = [mem EXCEPT ![Slot] = epc]
  /\ abut' = (abut \/ due)
  /\ mode' = "isr" /\ wfiArmed' = FALSE /\ traps' = traps + 1
  /\ UNCHANGED <<code, reg, sleepCpu, due, fault, mains, isrs>>

(* One instruction of a handler. *)
Handle ==
  /\ records = <<>> /\ mode = "isr" /\ isrs < ISR
  /\ \E op \in IsrOps :
       /\ sleepCpu' = (sleepCpu /\ op # "ignite")
       /\ IF op = "redirect"
          THEN \E to \in PCs :
                 /\ mem' = [mem EXCEPT ![Slot] = to]
                 /\ records' = <<R(HandlerPc, op, 0), S(Slot, to)>>
                 /\ UNCHANGED reg
          ELSE \E o \in Outcomes(op) :
                 /\ reg' = o.reg /\ mem' = [mem EXCEPT ![Local] = o.local]
                 /\ records' = <<R(HandlerPc, op, RdVal(op, o))>> \o o.m
  /\ isrs' = isrs + 1
  /\ UNCHANGED <<code, pc, mode, wfiArmed, due, abut, fault, mains, traps>>

(* iret resumes at the PC it pops; the hart goes back to sleep if the handler left sleep_cpu  *)
(* set. The fault resumes elsewhere.                                                          *)
Iret ==
  /\ records = <<>> /\ mode = "isr"
  /\ \/ pc' = mem[Slot] /\ UNCHANGED fault
     \/ /\ fault = "none" /\ "resume" \in Faults
        /\ pc' \in PCs \ {mem[Slot]} /\ fault' = "resume"
  /\ mode' = IF sleepCpu THEN "sleep" ELSE "run"
  /\ due' = TRUE
  /\ records' = <<X("iret")>>
  /\ UNCHANGED <<code, reg, mem, sleepCpu, wfiArmed, abut, mains, isrs, traps>>

HartNext == Retire \/ Park \/ Interrupt \/ Handle \/ Iret
=============================================================================
