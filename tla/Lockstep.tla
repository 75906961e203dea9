----------------------------- MODULE Lockstep -----------------------------
(* The co-simulation of one tile hart (xrun_cosim.sh): the hart runs and is traced, the trace *)
(* is read by mk_inject and by the comparator's partition, the reference runs on mk_inject's  *)
(* script, and the comparator judges. The two readers take the records as they come: neither  *)
(* looks ahead. The simulation may end between any two steps of the hart.                     *)
EXTENDS Comparator, RefModel

VARIABLES
  phase,    \* "sim" | "ref" | "done"
  verdict   \* compare.py's exit, or why it never ran

vars == <<hartVars, inj, part, refVars, phase, verdict>>

Init ==
  /\ HartInit /\ InjInit /\ PartInit /\ RefInit
  /\ phase = "sim" /\ verdict = "none"

Simulate == phase = "sim" /\ HartNext /\ UNCHANGED <<inj, part, refVars, phase, verdict>>

(* Both readers take the next record of the trace. *)
Read ==
  /\ phase = "sim" /\ records # <<>>
  /\ inj' = Scan(inj, Head(records))
  /\ part' = Partition(part, Head(records))
  /\ records' = Tail(records)
  /\ UNCHANGED <<code, pc, reg, mem, mode, sleepCpu, wfiArmed, due, abut, fault, mains, isrs, traps,
                 refVars, phase, verdict>>

(* The simulation ends; the verdict on an sc.w at the very end is taken; a script the         *)
(* reference refuses ends the cell.                                                           *)
Cut ==
  /\ phase = "sim" /\ records = <<>> /\ mains > 0
  /\ inj' = ResolveSc(inj)
  /\ IF ScriptLoads(inj) THEN phase' = "ref" /\ UNCHANGED verdict
     ELSE phase' = "done" /\ verdict' = "refused"
  /\ UNCHANGED <<hartVars, part, refVars>>

Reference == phase = "ref" /\ RefStep /\ UNCHANGED <<hartVars, inj, part, phase, verdict>>

Judge ==
  /\ phase = "ref"
  /\ \/ retires = inj.nRefRetire /\ verdict' = Walk(part, log)
     \/ retires < inj.nRefRetire /\ Trapped /\ verdict' = "trapped"
     \/ retires < inj.nRefRetire /\ ~Trapped /\ Exhausted /\ verdict' = "inject"
  /\ phase' = "done"
  /\ UNCHANGED <<hartVars, inj, part, refVars>>

Done == phase = "done" /\ UNCHANGED vars

Next == Simulate \/ Read \/ Cut \/ Reference \/ Judge \/ Done
Spec == Init /\ [][Next]_vars
-----------------------------------------------------------------------------
TypeOK ==
  /\ phase \in {"sim", "ref", "done"}
  /\ verdict \in Verdicts \cup {"refused", "trapped", "inject"}
  /\ mode \in {"run", "isr", "sleep"} /\ mains \in 0 .. MAIN /\ isrs \in 0 .. ISR /\ traps \in 0 .. TRAPS
  /\ pc \in 0 .. LAST + 1 /\ reg \in Values
  /\ inj.depth \in 0 .. 1 /\ inj.nRefRetire \in 0 .. MAIN /\ inj.scFails \subseteq 0 .. MAIN
  /\ Len(part.out) <= 2 * MAIN /\ part.awaiting \subseteq DOMAIN part.brackets
  /\ retires \in 0 .. MAIN /\ Len(log) <= 2 * MAIN

Retires(s) == {i \in DOMAIN s : s[i].k = "R"}

WindowsAgree ==
  /\ inj.depth = Len(part.levels)
  /\ inj.depth > 0 => /\ inj.cur.kind = part.cur.kind /\ inj.cur.epc = part.cur.epc
                      /\ inj.cur.absorbed = part.cur.adopted
BracketsAgree ==
  /\ Len(inj.brackets) = Len(part.brackets)
  /\ \A n \in DOMAIN inj.brackets : /\ inj.brackets[n].kind = part.brackets[n].kind
                                    /\ Resume(inj.brackets[n]) = Expected(part.brackets[n])
CountsAgree == inj.nRefRetire = Cardinality(Retires(part.out))

(* The two readers agree: on whether a window is open and how it opened, on every closed one's*)
(* kind and resume PC, and on how many retires the reference is to execute.                   *)
Agreement == WindowsAgree /\ BracketsAgree /\ CountsAgree

(* A hart that did nothing wrong matches, unless the simulation ended inside a trap's handler *)
(* or before a window had landed, or two windows had no instruction between them.             *)
HealthyMatches ==
  phase = "done" /\ fault = "none" /\ ~abut /\ ~due /\ part.cur.kind # "TRAP" => verdict = "match"

(* A match is given to no hart that did something wrong, but for the lost write of an sc.w    *)
(* that is the last instruction compared: the walk ends before the reference's store.         *)
FaultCaught ==
  verdict = "match" => fault = "none" \/ (fault = "lost" /\ Last(part.out).k = "R" /\ Last(part.out).op = "sc")

(* At a match outside every window the reference holds what the hart holds. *)
RefTracks ==
  verdict = "match" /\ mode = "run" /\ ~due =>
    ref.reg = reg /\ ref.pc = pc /\ \A a \in {Local, Slot} : ref.mem[a] = mem[a]

(* The script never holds two B records at one retire index. *)
ScriptWellFormed == ScriptLoads(inj)
=============================================================================
