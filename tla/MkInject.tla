----------------------------- MODULE MkInject -----------------------------
(* mk_inject.py: from the hart's trace to what the reference must be told. One pass over the  *)
(* records keeps the open window, counts the retires the reference will execute, and collects *)
(* the device loads to replay in order, the shared-window values to plant, the sc.w to force  *)
(* to fail, and what each handler window did to memory, register and PC. x-tainted fields and *)
(* the operator's substitutions for them are left out.                                        *)
EXTENDS CommitTrace

VARIABLE inj   \* the scan: see InjInit

NoBracket == [kind |-> "none", refIndex |-> 0, epc |-> NoPc, push |-> NoPc, absorbed |-> FALSE,
              nested |-> 0, stores |-> <<>>, regs |-> <<>>]
NoSc == [open |-> FALSE, ref |-> 0, depth |-> 0, rdval |-> 0]

InjInit ==
  inj = [depth |-> 0,          \* open windows
         cur |-> NoBracket,    \* the outermost open one
         brackets |-> <<>>,    \* those closed
         nRefRetire |-> 0,     \* retires outside windows
         recs |-> <<>>,        \* device loads outside windows
         plants |-> <<>>,      \* reference retire -> value its shared load is to see
         scFails |-> {},       \* reference retires whose sc.w is to fail
         scPend |-> NoSc]      \* an sc.w whose verdict is taken at the next record

Put(f, a, v) == [x \in DOMAIN f \cup {a} |-> IF x = a THEN v ELSE f[x]]

(* _resolve_sc: rd decides, 0 is success. An sc.w of a handler gets no F. *)
ResolveSc(s) ==
  [s EXCEPT !.scPend = NoSc,
            !.scFails = IF s.scPend.open /\ s.scPend.depth = 0 /\ s.scPend.rdval # 0
                        THEN @ \cup {s.scPend.ref} ELSE @]

(* A retire: outside a window it is one of the reference's, inside its register write is kept,*)
(* the last one winning.                                                                      *)
ScanRetire(s0, r) ==
  LET s == ResolveSc(s0)
      n == s.nRefRetire + (IF s.depth = 0 THEN 1 ELSE 0)
  IN  [s EXCEPT !.nRefRetire = n,
                !.cur.regs = IF s.depth > 0 /\ r.op \in Writers THEN <<r.rdval>> ELSE @,
                !.scPend = IF r.op = "sc"
                           THEN [open |-> TRUE, ref |-> n - 1, depth |-> s.depth, rdval |-> r.rdval]
                           ELSE NoSc]

(* Mutant: the wake trap of a park nests. *)
ScanTrap_Nests(s0, r) ==
  LET s == ResolveSc(s0)
  IN  IF s.depth = 0
      THEN [s EXCEPT !.depth = 1,
                     !.cur = [NoBracket EXCEPT !.kind = "TRAP", !.refIndex = s.nRefRetire,
                                               !.epc = r.epc, !.push = r.push]]
      ELSE [s EXCEPT !.depth = @ + 1, !.cur.nested = @ + 1]

(* A T opens a window, is absorbed by a park window that has taken none, or nests. *)
ScanTrap(s0, r) ==
  LET s == ResolveSc(s0)
  IN  IF s.depth = 0
      THEN [s EXCEPT !.depth = 1,
                     !.cur = [NoBracket EXCEPT !.kind = "TRAP", !.refIndex = s.nRefRetire,
                                               !.epc = r.epc, !.push = r.push]]
      ELSE IF s.cur.kind = "SLEEP" /\ ~s.cur.absorbed
      THEN [s EXCEPT !.cur.absorbed = TRUE, !.cur.epc = r.epc,
                     !.cur.push = IF @ = NoPc THEN r.push ELSE @]
      ELSE [s EXCEPT !.depth = @ + 1, !.cur.nested = @ + 1]

ScanEnter(s0) ==
  LET s == ResolveSc(s0)
  IN  IF s.depth = 0
      THEN [s EXCEPT !.depth = 1,
                     !.cur = [NoBracket EXCEPT !.kind = "SLEEP", !.refIndex = s.nRefRetire]]
      ELSE [s EXCEPT !.depth = @ + 1, !.cur.nested = @ + 1]

ScanIret(s0) ==
  IF s0.depth = 0 THEN s0
  ELSE LET s == ResolveSc(s0)
       IN  IF s.depth > 1 THEN [s EXCEPT !.depth = @ - 1]
           ELSE [s EXCEPT !.depth = 0, !.brackets = Append(@, s.cur), !.cur = NoBracket]

(* A store inside a window is to be replayed, unless it is the ghost of a failed sc.w. The    *)
(* replay is a list in the code; it is applied at once, so the last store to a word stands.   *)
ScanStore(s, r) ==
  IF s.depth > 0 /\ ~(s.scPend.open /\ s.scPend.depth > 0 /\ s.scPend.rdval # 0)
  THEN [s EXCEPT !.cur.stores = Put(@, r.addr, r.data)] ELSE s

(* Mutant: the loads of a handler stay in the list. *)
ScanLoad_Interior(s, r) ==
  IF r.addr = Device THEN [s EXCEPT !.recs = Append(@, r.data)]
  ELSE IF r.addr = Shared /\ s.depth = 0
  THEN [s EXCEPT !.plants = Put(@, s.nRefRetire - 1, r.data)] ELSE s

(* A load outside a window is served to the reference: a device's from the ordered list, the  *)
(* shared window's planted before the retire that reads it. One inside has no consumer.       *)
ScanLoad(s, r) ==
  IF s.depth > 0 THEN s
  ELSE IF r.addr = Shared THEN [s EXCEPT !.plants = Put(@, s.nRefRetire - 1, r.data)]
  ELSE IF r.addr = Device THEN [s EXCEPT !.recs = Append(@, r.data)]
  ELSE s

Scan(s, r) ==
  CASE r.k = "R" -> ScanRetire(s, r)
    [] r.k = "T" -> ScanTrap(s, r)
    [] r.k = "S" -> ScanStore(s, r)
    [] r.k = "L" -> ScanLoad(s, r)
    [] r.k = "X" /\ r.kind = "wfi_enter" -> ScanEnter(s)
    [] r.k = "X" /\ r.kind = "iret" -> ScanIret(s)
    [] OTHER -> s   \* wfi_wake is only counted

(* write_brackets: where a closed window resumes. The pop names the slot; the last store to   *)
(* it wins over the trap's epc.                                                               *)
Resume(b) == IF Slot \in DOMAIN b.stores THEN b.stores[Slot] ELSE b.epc

(* What a window leaves of the memory m: the push first, then the handler's stores; a device  *)
(* register's are not replayed.                                                               *)
Replay(b, m) ==
  [a \in DOMAIN m |-> IF a \in DOMAIN b.stores \ {Device} THEN b.stores[a]
                      ELSE IF a = Slot /\ b.push # NoPc THEN b.push ELSE m[a]]

(* The B records of the script at one retire index. *)
BracketsAt(s, i) == {n \in DOMAIN s.brackets : s.brackets[n].refIndex = i}
=============================================================================
