----------------------------- MODULE RefModel -----------------------------
(* vesta_ref.cc --bracket --inject: the reference executes the same program from the same     *)
(* entry and is never interrupted. Before each retire the realignment script of its index is  *)
(* applied, memory first, then the register, then the forced sc.w failure, then the PC; a     *)
(* device load takes the next value of the replay list. For a tile the run is bounded by      *)
(* mk_inject's ref_retires, and a trap fails it (xrun_cosim.sh).                              *)
EXTENDS MkInject

VARIABLES
  ref,    \* the reference's pc, register, memory and next replay record
  log,    \* its commit log
  retires

refVars == <<ref, log, retires>>

RefInit ==
  /\ ref = [pc |-> 0, reg |-> 0, mem |-> [a \in {Local, Shared, Slot} |-> 0], next |-> 1]
  /\ log = <<>> /\ retires = 0

(* The script is refused when two B records share an index. *)
ScriptLoads(s) == \A i \in 0 .. s.nRefRetire : Cardinality(BracketsAt(s, i)) <= 1

(* Mutant: the registers of a window are not replayed. *)
Realign_NoRegs(s, i, m) ==
  LET n == CHOOSE b \in BracketsAt(s, i) : TRUE
      has == BracketsAt(s, i) # {}
      left == IF has THEN Replay(s.brackets[n], m.mem) ELSE m.mem
  IN  [m EXCEPT !.mem = IF i \in DOMAIN s.plants THEN [left EXCEPT ![Shared] = s.plants[i]] ELSE left,
                !.pc = IF has THEN Resume(s.brackets[n]) ELSE @]

(* S and P, G, then B, at retire index i. F is read where the sc.w executes. *)
Realign(s, i, m) ==
  LET n == CHOOSE b \in BracketsAt(s, i) : TRUE
      has == BracketsAt(s, i) # {}
      left == IF has THEN Replay(s.brackets[n], m.mem) ELSE m.mem
  IN  [m EXCEPT !.mem = IF i \in DOMAIN s.plants THEN [left EXCEPT ![Shared] = s.plants[i]] ELSE left,
                !.reg = IF has /\ s.brackets[n].regs # <<>> THEN s.brackets[n].regs[1] ELSE @,
                !.pc = IF has THEN Resume(s.brackets[n]) ELSE @]

(* One instruction of the reference: its next state and its log records. Its sc.w succeeds    *)
(* unless the script cleared the reservation.                                                 *)
Execute(m, op, value, scFails) ==
  LET next == [m EXCEPT !.pc = @ + 1]
      put(v) == [next EXCEPT !.reg = v]
  IN  CASE op = "load"   -> <<put(m.mem[Local]), <<R(m.pc, op, m.mem[Local]), L(Local, 0)>>>>
        [] op = "store"  -> <<[next EXCEPT !.mem[Local] = m.reg], <<R(m.pc, op, 0), S(Local, m.reg)>>>>
        [] op = "mmio"   -> <<[put(value) EXCEPT !.next = @ + 1], <<R(m.pc, op, value), L(Device, 0)>>>>
        [] op = "shared" -> <<put(m.mem[Shared]), <<R(m.pc, op, m.mem[Shared]), L(Shared, 0)>>>>
        [] op = "sc" /\ scFails -> <<put(1), <<R(m.pc, op, 1)>>>>
        [] OTHER -> <<[put(0) EXCEPT !.mem[Shared] = m.reg], <<R(m.pc, op, 0), S(Shared, m.reg)>>>>

Realigned == Realign(inj, retires, ref)
Fetched == IF Realigned.pc \in PCs THEN code[Realigned.pc] ELSE "any"

(* Beyond the program, or at EXTINGUISH, which it cannot execute, the reference traps. *)
Trapped == Fetched \in {"any", "park"}
Exhausted == Fetched = "mmio" /\ Realigned.next > Len(inj.recs)

RefStep ==
  /\ retires < inj.nRefRetire /\ ~Trapped /\ ~Exhausted
  /\ LET v == IF Fetched = "mmio" THEN inj.recs[Realigned.next] ELSE 0
         x == Execute(Realigned, Fetched, v, retires \in inj.scFails)
     IN  ref' = x[1] /\ log' = log \o x[2]
  /\ retires' = retires + 1
=============================================================================
