---------------------------- MODULE Comparator ----------------------------
(* compare.py --bracket-isr: its own pass over the same trace takes the handler windows out of*)
(* the compared stream, says where each must resume and what it saw land; the walk compares   *)
(* what is left with the reference's log, record by record.                                   *)
EXTENDS MkInject, SequencesExt

VARIABLE part   \* bracket_partition: see PartInit

NoWindow == [kind |-> "none", epc |-> NoPc, adopted |-> FALSE, slot |-> NoPc, ext |-> FALSE,
             parked |-> FALSE, closed |-> FALSE, nested |-> 0, landing |-> NoPc, via |-> "none"]

PartInit ==
  part = [out |-> <<>>,         \* the compared stream
          brackets |-> <<>>,    \* windows that are over
          levels |-> <<>>,      \* the nesting stack; "S" is a sleep open to adoption
          cur |-> NoWindow,     \* the open window
          awaiting |-> {}]      \* brackets whose landing has not been seen

(* Every awaiting bracket lands at p. *)
Land(s, p, via) ==
  [s EXCEPT !.awaiting = {},
            !.brackets = [n \in DOMAIN @ |-> IF n \in s.awaiting
                                             THEN [@[n] EXCEPT !.landing = p, !.via = via] ELSE @[n]]]

(* Outside a window: wfi_enter opens one, a T lands what was awaited at its epc and opens     *)
(* one, another X is dropped, and the rest is compared, a retire landing what was awaited.    *)
Outside(s, r) ==
  CASE r.k = "X" /\ r.kind = "wfi_enter" ->
         [s EXCEPT !.cur = [NoWindow EXCEPT !.kind = "SLEEP"], !.levels = <<"S">>]
    [] r.k = "T" ->
         [Land(s, r.epc, "T-epc") EXCEPT !.cur = [NoWindow EXCEPT !.kind = "TRAP", !.epc = r.epc],
                                         !.levels = <<"T">>]
    [] r.k = "R" -> [Land(s, r.pc, "R") EXCEPT !.out = Append(@, r)]
    [] r.k \in {"S", "L"} -> [s EXCEPT !.out = Append(@, r)]
    [] OTHER -> s

(* Mutant: the sentinel T of a woken park opens a level of its own. *)
Inside_NoAdoption(s, r) ==
  CASE r.k = "T" -> [s EXCEPT !.levels = Append(@, "T"), !.cur.nested = @ + 1]
    [] r.k = "X" /\ r.kind = "wfi_enter" -> [s EXCEPT !.levels = Append(@, "S")]
    [] r.k = "X" /\ r.kind = "iret" ->
         IF Len(s.levels) > 1 THEN [s EXCEPT !.levels = Front(@)]
         ELSE [s EXCEPT !.levels = <<>>, !.cur = NoWindow,
                        !.brackets = Append(@, [s.cur EXCEPT !.closed = TRUE]),
                        !.awaiting = @ \cup {Len(s.brackets) + 1}]
    [] r.k = "S" -> [s EXCEPT !.cur.slot = IF r.addr = Slot THEN r.data ELSE @]
    [] r.k = "R" -> [s EXCEPT !.cur.ext = @ \/ r.op = "park"]
    [] OTHER -> s

(* Inside: a T is adopted by a sleep on top of the stack and nests otherwise; an iret pops,   *)
(* and the outermost one closes the window, which then awaits its landing.                    *)
Inside(s, r) ==
  CASE r.k = "T" ->
         IF Last(s.levels) = "S"
         THEN [s EXCEPT !.levels = Append(Front(@), "T"), !.cur.adopted = TRUE, !.cur.epc = r.epc]
         ELSE [s EXCEPT !.levels = Append(@, "T"), !.cur.nested = @ + 1]
    [] r.k = "X" /\ r.kind = "wfi_enter" -> [s EXCEPT !.levels = Append(@, "S")]
    [] r.k = "X" /\ r.kind = "iret" ->
         IF Len(s.levels) > 1 THEN [s EXCEPT !.levels = Front(@)]
         ELSE [s EXCEPT !.levels = <<>>, !.cur = NoWindow,
                        !.brackets = Append(@, [s.cur EXCEPT !.closed = TRUE]),
                        !.awaiting = @ \cup {Len(s.brackets) + 1}]
    [] r.k = "S" -> [s EXCEPT !.cur.slot = IF r.addr = Slot THEN r.data ELSE @]
    [] r.k = "R" -> [s EXCEPT !.cur.ext = @ \/ r.op = "park"]
    [] OTHER -> s

Partition(s, r) == IF s.levels = <<>> THEN Outside(s, r) ELSE Inside(s, r)

(* The end of the trace inside a window: a park the reference stopped at is parked, and so is *)
(* one that was never woken; anything else is reported as unterminated. The interior of a     *)
(* park that holds no EXTINGUISH, a real wfi, would go back to the stream.                    *)
AtEnd(s) ==
  IF s.levels = <<>> THEN s.brackets
  ELSE Append(s.brackets, [s.cur EXCEPT !.parked = s.cur.kind = "SLEEP" /\ (s.cur.ext \/ ~s.cur.adopted)])

(* resolve_expected: the last store to the stacked-PC slot, or the trap's epc. *)
Expected(b) == IF b.slot # NoPc THEN b.slot ELSE b.epc

(* drop_scfail_ghost_stores: the M S right after a failed sc.w was never committed. *)
Ghost(s, i) == i > 1 /\ s[i].k = "S" /\ s[i - 1].k = "R" /\ s[i - 1].op = "sc" /\ s[i - 1].rdval # 0

Committed(s) == {i \in DOMAIN s : ~Ghost(s, i)}

(* The place in the walk of the record at i: how many are committed up to it. *)
Place(s, i) == Cardinality({j \in Committed(s) : j <= i})

(* Mutant: what a retire writes is not compared. *)
Key_NoRdVal(r) == CASE r.k = "R" -> <<"R", r.pc, r.op>>
                    [] r.k = "L" -> <<"M", "L", r.addr>>
                    [] r.k = "S" -> <<"M", "S", r.addr, r.data>>

(* key(): what is compared of a record; of a load only its address. *)
Key(r) == CASE r.k = "R" -> <<"R", r.pc, r.op, r.rdval>>
            [] r.k = "L" -> <<"M", "L", r.addr>>
            [] r.k = "S" -> <<"M", "S", r.addr, r.data>>

(* The structural gate and the landing check: every window that is no park is closed, has     *)
(* landed, and landed where it was expected to.                                               *)
Verified(b) == b.parked \/ (b.closed /\ b.landing # NoPc /\ b.landing = Expected(b))

Verdicts == {"none", "match", "diverge", "spikeshort"}

(* The walk over the compared stream, bounded by its own length (--max-records is --count's   *)
(* answer): what the reference logged beyond it is not looked at.                             *)
Walk(s, log) ==
  LET agree == \A i \in Committed(s.out) :
                  Place(s.out, i) <= Len(log) => Key(s.out[i]) = Key(log[Place(s.out, i)])
  IN  IF ~agree \/ \E n \in DOMAIN AtEnd(s) : ~Verified(AtEnd(s)[n]) THEN "diverge"
      ELSE IF Len(log) < Cardinality(Committed(s.out)) THEN "spikeshort"
      ELSE "match"
=============================================================================
