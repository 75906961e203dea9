--------------------------- MODULE LockstepProofs ---------------------------
(* The co-simulation of a one-level hart, for any program, any handlers, any number of        *)
(* windows and any fault. mk_inject and the comparator's partition agree on every trace; the  *)
(* cell keeps its types, the script's counts among them; and its verdict is right: at a match *)
(* the reference holds what the hart holds, a faulty hart is not given one, and a healthy one *)
(* is. The last three rest on the history of the hart's run, which no variable keeps: the     *)
(* invariant says that there is one.                                                          *)
EXTENDS Lockstep, TLAPS, FiniteSetTheorems, SequenceTheorems

-----------------------------------------------------------------------------
(* The two scans, and the windows they keep, are records with these fields. *)
IsBracket(b) ==
  DOMAIN b = {"kind", "refIndex", "epc", "push", "absorbed", "nested", "stores", "regs"}
IsInj(s) ==
  /\ DOMAIN s = {"depth", "cur", "brackets", "nRefRetire", "recs", "plants", "scFails", "scPend"}
  /\ IsBracket(s.cur)
IsWindow(b) ==
  DOMAIN b = {"kind", "epc", "adopted", "slot", "ext", "parked", "closed", "nested", "landing", "via"}
IsPart(s) ==
  /\ DOMAIN s = {"out", "brackets", "levels", "cur", "awaiting"}
  /\ IsWindow(s.cur)

(* What stays of a bracket when a record is not about it. *)
SameBracket(b, c) == /\ b.kind = c.kind /\ b.epc = c.epc /\ b.absorbed = c.absorbed /\ b.stores = c.stores

LEMMA ResolveScKeeps ==
  ASSUME NEW s, IsInj(s)
  PROVE  /\ IsInj(ResolveSc(s)) /\ ResolveSc(s).depth = s.depth /\ ResolveSc(s).cur = s.cur
         /\ ResolveSc(s).brackets = s.brackets /\ ResolveSc(s).nRefRetire = s.nRefRetire
         /\ ResolveSc(s).scPend = NoSc
<1> DEFINE f == IF s.scPend.open /\ s.scPend.depth = 0 /\ s.scPend.rdval # 0
                THEN s.scFails \cup {s.scPend.ref} ELSE s.scFails
           t == ResolveSc(s)
<1>1. t = [s EXCEPT !.scPend = NoSc, !.scFails = f]
  BY DEF ResolveSc
<1> HIDE DEF f, t
<1>2. t.cur = s.cur /\ t.depth = s.depth /\ t.brackets = s.brackets /\ t.nRefRetire = s.nRefRetire
  BY <1>1 DEF IsInj
<1>3. t.scPend = NoSc
  BY <1>1 DEF IsInj
<1>4. IsInj(t)
  BY <1>1 DEF IsInj, IsBracket
<1> QED  BY <1>2, <1>3, <1>4 DEF t

LEMMA ScanRetireDoes ==
  ASSUME NEW s, IsInj(s), NEW r, r.k = "R"
  PROVE  LET t == Scan(s, r)
         IN  /\ IsInj(t) /\ t.depth = s.depth /\ t.brackets = s.brackets
             /\ t.nRefRetire = s.nRefRetire + (IF s.depth = 0 THEN 1 ELSE 0)
             /\ SameBracket(t.cur, s.cur)
             /\ r.op # "sc" => ~t.scPend.open
<1>1. Scan(s, r) = ScanRetire(s, r)
  BY DEF Scan
<1> DEFINE u == ResolveSc(s)
<1>2. /\ IsInj(u) /\ u.depth = s.depth /\ u.cur = s.cur /\ u.brackets = s.brackets
      /\ u.nRefRetire = s.nRefRetire
  BY ResolveScKeeps
<1> DEFINE n == u.nRefRetire + (IF u.depth = 0 THEN 1 ELSE 0)
           g == IF u.depth > 0 /\ r.op \in Writers THEN <<r.rdval>> ELSE u.cur.regs
           p == IF r.op = "sc"
                THEN [open |-> TRUE, ref |-> n - 1, depth |-> u.depth, rdval |-> r.rdval] ELSE NoSc
           t == ScanRetire(s, r)
<1>3. t = [u EXCEPT !.nRefRetire = n, !.cur.regs = g, !.scPend = p]
  BY DEF ScanRetire
<1> HIDE DEF u, n, g, p, t
<1>4. /\ IsInj(t) /\ t.depth = u.depth /\ t.brackets = u.brackets /\ t.nRefRetire = n
      /\ SameBracket(t.cur, u.cur) /\ t.scPend = p
  BY <1>2, <1>3 DEF IsInj, IsBracket, SameBracket
<1>5. r.op # "sc" => ~p.open
  BY DEF p, NoSc
<1>6. n = s.nRefRetire + (IF s.depth = 0 THEN 1 ELSE 0)
  BY <1>2 DEF n
<1> QED  BY <1>1, <1>2, <1>4, <1>5, <1>6 DEF t

LEMMA ScanTrapDoes ==
  ASSUME NEW s, IsInj(s), NEW r, r.k = "T",
         s.depth = 0 \/ (s.depth = 1 /\ s.cur.kind = "SLEEP" /\ ~s.cur.absorbed)
  PROVE  LET t == Scan(s, r)
         IN  /\ IsInj(t) /\ t.depth = 1 /\ t.brackets = s.brackets /\ t.nRefRetire = s.nRefRetire
             /\ s.depth = 0 => /\ t.cur.kind = "TRAP" /\ t.cur.epc = r.epc /\ t.cur.absorbed = FALSE
                               /\ t.cur.stores = <<>>
             /\ s.depth = 1 => /\ t.cur.kind = "SLEEP" /\ t.cur.epc = r.epc /\ t.cur.absorbed = TRUE
                               /\ t.cur.stores = s.cur.stores
<1>1. Scan(s, r) = ScanTrap(s, r)
  BY DEF Scan
<1> DEFINE u == ResolveSc(s)
           t == ScanTrap(s, r)
<1>2. /\ IsInj(u) /\ u.depth = s.depth /\ u.cur = s.cur /\ u.brackets = s.brackets
      /\ u.nRefRetire = s.nRefRetire
  BY ResolveScKeeps
<1>3. CASE s.depth = 0
  <2>1. t = [u EXCEPT !.depth = 1,
                      !.cur = [NoBracket EXCEPT !.kind = "TRAP", !.refIndex = u.nRefRetire,
                                                !.epc = r.epc, !.push = r.push]]
    BY <1>2, <1>3 DEF ScanTrap
  <2> HIDE DEF u, t
  <2>2. t.depth = 1 /\ t.brackets = u.brackets /\ t.nRefRetire = u.nRefRetire
    BY <1>2, <2>1 DEF IsInj
  <2>3. t.cur.kind = "TRAP" /\ t.cur.epc = r.epc /\ t.cur.absorbed = FALSE /\ t.cur.stores = <<>>
    BY <1>2, <2>1 DEF IsInj, NoBracket
  <2>4. IsInj(t)
    BY <1>2, <2>1 DEF IsInj, IsBracket, NoBracket
  <2> QED  BY <1>1, <1>2, <1>3, <2>2, <2>3, <2>4 DEF t
<1>4. CASE s.depth # 0
  <2>1. t = [u EXCEPT !.cur.absorbed = TRUE, !.cur.epc = r.epc,
                      !.cur.push = IF @ = NoPc THEN r.push ELSE @]
    BY <1>2, <1>4 DEF ScanTrap
  <2> HIDE DEF u, t
  <2>2. t.depth = u.depth /\ t.brackets = u.brackets /\ t.nRefRetire = u.nRefRetire
    BY <1>2, <2>1 DEF IsInj
  <2>3. /\ t.cur.kind = u.cur.kind /\ t.cur.epc = r.epc /\ t.cur.absorbed = TRUE
        /\ t.cur.stores = u.cur.stores
    BY <1>2, <2>1 DEF IsInj, IsBracket
  <2>4. IsInj(t)
    BY <1>2, <2>1 DEF IsInj, IsBracket
  <2> QED  BY <1>1, <1>2, <1>4, <2>2, <2>3, <2>4 DEF t
<1> QED  BY <1>3, <1>4

LEMMA ScanEnterDoes ==
  ASSUME NEW s, IsInj(s), NEW r, r.k = "X", r.kind = "wfi_enter", s.depth = 0
  PROVE  LET t == Scan(s, r)
         IN  /\ IsInj(t) /\ t.depth = 1 /\ t.brackets = s.brackets /\ t.nRefRetire = s.nRefRetire
             /\ t.cur.kind = "SLEEP" /\ t.cur.epc = NoPc /\ t.cur.absorbed = FALSE /\ t.cur.stores = <<>>
<1>1. Scan(s, r) = ScanEnter(s)
  BY DEF Scan
<1> DEFINE u == ResolveSc(s)
           t == ScanEnter(s)
<1>2. /\ IsInj(u) /\ u.depth = s.depth /\ u.cur = s.cur /\ u.brackets = s.brackets
      /\ u.nRefRetire = s.nRefRetire
  BY ResolveScKeeps
<1>3. t = [u EXCEPT !.depth = 1,
                    !.cur = [NoBracket EXCEPT !.kind = "SLEEP", !.refIndex = u.nRefRetire]]
  BY <1>2 DEF ScanEnter
<1> HIDE DEF u, t
<1>4. t.depth = 1 /\ t.brackets = u.brackets /\ t.nRefRetire = u.nRefRetire
  BY <1>2, <1>3 DEF IsInj
<1>5. t.cur.kind = "SLEEP" /\ t.cur.epc = NoPc /\ t.cur.absorbed = FALSE /\ t.cur.stores = <<>>
  BY <1>2, <1>3 DEF IsInj, NoBracket
<1>6. IsInj(t)
  BY <1>2, <1>3 DEF IsInj, IsBracket, NoBracket
<1> QED  BY <1>1, <1>2, <1>4, <1>5, <1>6 DEF t

LEMMA ScanIretDoes ==
  ASSUME NEW s, IsInj(s), NEW r, r.k = "X", r.kind = "iret", s.depth = 1
  PROVE  LET t == Scan(s, r)
         IN  /\ IsInj(t) /\ t.depth = 0 /\ t.brackets = Append(s.brackets, s.cur)
             /\ t.nRefRetire = s.nRefRetire
<1>1. Scan(s, r) = ScanIret(s)
  BY DEF Scan
<1> DEFINE u == ResolveSc(s)
           t == ScanIret(s)
<1>2. /\ IsInj(u) /\ u.depth = s.depth /\ u.cur = s.cur /\ u.brackets = s.brackets
      /\ u.nRefRetire = s.nRefRetire
  BY ResolveScKeeps
<1>3. t = [u EXCEPT !.depth = 0, !.brackets = Append(@, u.cur), !.cur = NoBracket]
  BY <1>2 DEF ScanIret
<1> HIDE DEF u, t
<1>4. t.depth = 0 /\ t.brackets = Append(u.brackets, u.cur) /\ t.nRefRetire = u.nRefRetire
  BY <1>2, <1>3 DEF IsInj
<1>5. IsInj(t)
  BY <1>2, <1>3 DEF IsInj, IsBracket, NoBracket
<1> QED  BY <1>1, <1>2, <1>4, <1>5 DEF t

LEMMA ScanStoreDoes ==
  ASSUME NEW s, IsInj(s), s.depth \in {0, 1}, NEW r, r.k = "S"
  PROVE  LET t == Scan(s, r)
         IN  /\ IsInj(t) /\ t.depth = s.depth /\ t.brackets = s.brackets
             /\ t.nRefRetire = s.nRefRetire /\ t.scPend = s.scPend
             /\ t.cur.kind = s.cur.kind /\ t.cur.epc = s.cur.epc /\ t.cur.absorbed = s.cur.absorbed
             /\ s.depth = 0 => t.cur = s.cur
             /\ \/ t.cur.stores = s.cur.stores /\ (s.depth = 0 \/ s.scPend.open)
                \/ t.cur.stores = Put(s.cur.stores, r.addr, r.data)
<1>1. Scan(s, r) = ScanStore(s, r)
  BY DEF Scan
<1> DEFINE t == ScanStore(s, r)
<1>2. CASE s.depth > 0 /\ ~(s.scPend.open /\ s.scPend.depth > 0 /\ s.scPend.rdval # 0)
  <2> DEFINE w == Put(s.cur.stores, r.addr, r.data)
  <2>1. t = [s EXCEPT !.cur.stores = w]
    BY <1>2 DEF ScanStore
  <2> HIDE DEF t, w
  <2>2. /\ t.depth = s.depth /\ t.brackets = s.brackets /\ t.nRefRetire = s.nRefRetire
        /\ t.scPend = s.scPend
    BY <2>1 DEF IsInj
  <2>3. /\ t.cur.kind = s.cur.kind /\ t.cur.epc = s.cur.epc /\ t.cur.absorbed = s.cur.absorbed
        /\ t.cur.stores = w
    BY <2>1 DEF IsInj, IsBracket
  <2>4. IsInj(t)
    BY <2>1 DEF IsInj, IsBracket
  <2>5. s.depth # 0
    BY <1>2
  <2> QED  BY <1>1, <2>2, <2>3, <2>4, <2>5 DEF t, w
<1>3. CASE ~(s.depth > 0 /\ ~(s.scPend.open /\ s.scPend.depth > 0 /\ s.scPend.rdval # 0))
  <2>1. t = s
    BY <1>3 DEF ScanStore
  <2> QED  BY <1>1, <1>3, <2>1
<1> QED  BY <1>2, <1>3

LEMMA ScanLoadDoes ==
  ASSUME NEW s, IsInj(s), NEW r, r.k = "L"
  PROVE  LET t == Scan(s, r)
         IN  /\ IsInj(t) /\ t.depth = s.depth /\ t.brackets = s.brackets
             /\ t.nRefRetire = s.nRefRetire /\ t.scPend = s.scPend /\ t.cur = s.cur
<1>1. Scan(s, r) = ScanLoad(s, r)
  BY DEF Scan
<1> DEFINE t == ScanLoad(s, r)
           p == Put(s.plants, s.nRefRetire - 1, r.data)
           q == Append(s.recs, r.data)
<1>2. t = s \/ t = [s EXCEPT !.plants = p] \/ t = [s EXCEPT !.recs = q]
  BY DEF ScanLoad
<1> HIDE DEF t, p, q
<1>3. /\ t.depth = s.depth /\ t.brackets = s.brackets /\ t.nRefRetire = s.nRefRetire
      /\ t.scPend = s.scPend /\ t.cur = s.cur
  BY <1>2 DEF IsInj
<1>4. IsInj(t)
  BY <1>2 DEF IsInj, IsBracket
<1> QED  BY <1>1, <1>3, <1>4 DEF t

LEMMA ScanWakeDoes ==
  ASSUME NEW s, NEW r, r.k = "X", r.kind = "wfi_wake"
  PROVE  Scan(s, r) = s
BY DEF Scan
-----------------------------------------------------------------------------
(* What a step of the partition leaves of the brackets: the same ones, landed or not. *)
SameWindows(f, g) ==
  /\ f = [n \in DOMAIN g |-> f[n]]
  /\ \A n \in DOMAIN g : IsWindow(g[n]) =>
        IsWindow(f[n]) /\ f[n].kind = g[n].kind /\ f[n].epc = g[n].epc /\ f[n].slot = g[n].slot

Landed(b, p, via) == [b EXCEPT !.landing = p, !.via = via]

LEMMA LandWindow ==
  ASSUME NEW b, IsWindow(b), NEW p, NEW via
  PROVE  /\ IsWindow(Landed(b, p, via)) /\ Landed(b, p, via).kind = b.kind
         /\ Landed(b, p, via).epc = b.epc /\ Landed(b, p, via).slot = b.slot
BY DEF Landed, IsWindow

LEMMA LandDoes ==
  ASSUME NEW s, IsPart(s), NEW p, NEW via
  PROVE  LET t == Land(s, p, via)
         IN  /\ IsPart(t) /\ t.out = s.out /\ t.levels = s.levels /\ t.cur = s.cur
             /\ SameWindows(t.brackets, s.brackets)
<1> DEFINE t == Land(s, p, via)
           c(n) == Landed(s.brackets[n], p, via)
           f == [n \in DOMAIN s.brackets |-> IF n \in s.awaiting THEN c(n) ELSE s.brackets[n]]
<1>1. t = [s EXCEPT !.awaiting = {}, !.brackets = f]
  BY DEF Land, Landed
<1>2. SameWindows(f, s.brackets)
  <2>0. f = [n \in DOMAIN s.brackets |-> f[n]]
    OBVIOUS
  <2> SUFFICES ASSUME NEW n \in DOMAIN s.brackets, IsWindow(s.brackets[n])
               PROVE  /\ IsWindow(f[n]) /\ f[n].kind = s.brackets[n].kind
                      /\ f[n].epc = s.brackets[n].epc /\ f[n].slot = s.brackets[n].slot
    BY <2>0 DEF SameWindows
  <2>1. f[n] = s.brackets[n] \/ f[n] = c(n)
    OBVIOUS
  <2>2. /\ IsWindow(c(n)) /\ c(n).kind = s.brackets[n].kind
        /\ c(n).epc = s.brackets[n].epc /\ c(n).slot = s.brackets[n].slot
    BY LandWindow
  <2> HIDE DEF c, f
  <2> QED  BY <2>1, <2>2
<1> HIDE DEF f, t
<1>3. t.out = s.out /\ t.levels = s.levels /\ t.cur = s.cur /\ t.brackets = f
  BY <1>1 DEF IsPart
<1>4. IsPart(t)
  BY <1>1 DEF IsPart, IsWindow
<1> QED  BY <1>2, <1>3, <1>4 DEF t

SameWindow(b, c) == /\ b.kind = c.kind /\ b.epc = c.epc /\ b.adopted = c.adopted /\ b.slot = c.slot

LEMMA OutsideDoes ==
  ASSUME NEW s, IsPart(s), s.levels = <<>>, NEW r, r.k \in {"R", "L", "S"}
  PROVE  LET t == Partition(s, r)
         IN  /\ IsPart(t) /\ t.levels = <<>> /\ t.out = Append(s.out, r)
             /\ t.brackets = s.brackets \/ SameWindows(t.brackets, s.brackets)
<1> DEFINE t == Partition(s, r)
<1>1. t = Outside(s, r)
  BY DEF Partition
<1>2. CASE r.k = "R"
  <2> DEFINE u == Land(s, r.pc, "R")
             v == [u EXCEPT !.out = Append(@, r)]
  <2>1. t = v
    BY <1>1, <1>2 DEF Outside
  <2>2. /\ IsPart(u) /\ u.out = s.out /\ u.levels = s.levels
        /\ SameWindows(u.brackets, s.brackets)
    BY LandDoes
  <2> HIDE DEF u
  <2>3. v.out = Append(s.out, r) /\ v.levels = <<>> /\ v.brackets = u.brackets
    BY <2>2 DEF IsPart
  <2>4. IsPart(v)
    BY <2>2 DEF IsPart, IsWindow
  <2> HIDE DEF t, v
  <2> QED  BY <2>1, <2>2, <2>3, <2>4 DEF t
<1>3. CASE r.k \in {"L", "S"}
  <2> DEFINE v == [s EXCEPT !.out = Append(@, r)]
  <2>1. t = v
    BY <1>1, <1>3 DEF Outside
  <2>2. v.out = Append(s.out, r) /\ v.levels = <<>> /\ v.brackets = s.brackets
    BY DEF IsPart
  <2>3. IsPart(v)
    BY DEF IsPart, IsWindow
  <2> HIDE DEF t, v
  <2> QED  BY <2>1, <2>2, <2>3 DEF t
<1> QED  BY <1>2, <1>3

LEMMA InsideDoes ==
  ASSUME NEW s, IsPart(s), s.levels # <<>>, NEW r, r.k \in {"R", "L", "S"}
  PROVE  LET t == Partition(s, r)
         IN  /\ IsPart(t) /\ t.levels = s.levels /\ t.out = s.out /\ t.brackets = s.brackets
             /\ t.cur.kind = s.cur.kind /\ t.cur.epc = s.cur.epc /\ t.cur.adopted = s.cur.adopted
             /\ t.cur.slot = IF r.k = "S" /\ r.addr = Slot THEN r.data ELSE s.cur.slot
<1> DEFINE t == Partition(s, r)
           e == s.cur.ext \/ r.op = "park"
           w == IF r.addr = Slot THEN r.data ELSE s.cur.slot
<1>1. t = Inside(s, r)
  BY DEF Partition
<1>2. \/ t = s /\ r.k = "L"
      \/ t = [s EXCEPT !.cur.ext = e] /\ r.k = "R"
      \/ t = [s EXCEPT !.cur.slot = w] /\ r.k = "S"
  BY <1>1 DEF Inside
<1> HIDE DEF t, e, w
<1>3. t.levels = s.levels /\ t.out = s.out /\ t.brackets = s.brackets
  BY <1>2 DEF IsPart
<1>4. t.cur.kind = s.cur.kind /\ t.cur.epc = s.cur.epc /\ t.cur.adopted = s.cur.adopted
  BY <1>2 DEF IsPart, IsWindow
<1>5. t.cur.slot = IF r.k = "S" THEN w ELSE s.cur.slot
  BY <1>2 DEF IsPart, IsWindow
<1>6. IsPart(t)
  BY <1>2 DEF IsPart, IsWindow
<1> QED  BY <1>3, <1>4, <1>5, <1>6 DEF t, w

LEMMA PartitionTrapDoes ==
  ASSUME NEW s, IsPart(s), s.levels = <<>> \/ s.levels = <<"S">>, NEW r, r.k = "T"
  PROVE  LET t == Partition(s, r)
         IN  /\ IsPart(t) /\ t.levels = <<"T">> /\ t.out = s.out
             /\ t.brackets = s.brackets \/ SameWindows(t.brackets, s.brackets)
             /\ s.levels = <<>> => /\ t.cur.kind = "TRAP" /\ t.cur.epc = r.epc
                                   /\ t.cur.adopted = FALSE /\ t.cur.slot = NoPc
             /\ s.levels = <<"S">> => /\ t.cur.kind = s.cur.kind /\ t.cur.epc = r.epc
                                      /\ t.cur.adopted = TRUE /\ t.cur.slot = s.cur.slot
<1> DEFINE t == Partition(s, r)
<1>1. CASE s.levels = <<>>
  <2> DEFINE u == Land(s, r.epc, "T-epc")
             v == [u EXCEPT !.cur = [NoWindow EXCEPT !.kind = "TRAP", !.epc = r.epc], !.levels = <<"T">>]
  <2>1. t = v
    BY <1>1 DEF Partition, Outside
  <2>2. IsPart(u) /\ u.out = s.out /\ SameWindows(u.brackets, s.brackets)
    BY LandDoes
  <2> HIDE DEF u
  <2>3. v.out = s.out /\ v.levels = <<"T">> /\ v.brackets = u.brackets
    BY <2>2 DEF IsPart
  <2>4. v.cur.kind = "TRAP" /\ v.cur.epc = r.epc /\ v.cur.adopted = FALSE /\ v.cur.slot = NoPc
    BY <2>2 DEF IsPart, NoWindow
  <2>5. IsPart(v)
    BY <2>2 DEF IsPart, IsWindow, NoWindow
  <2> HIDE DEF t, v
  <2> QED  BY <1>1, <2>1, <2>2, <2>3, <2>4, <2>5 DEF t
<1>2. CASE s.levels = <<"S">>
  <2> DEFINE v == [s EXCEPT !.levels = <<"T">>, !.cur.adopted = TRUE, !.cur.epc = r.epc]
  <2>1. Last(s.levels) = "S" /\ Append(Front(s.levels), "T") = <<"T">> /\ s.levels # <<>>
    <3>1. SubSeq(<<"S">>, 1, 0) = <<>>
      <4>1. Len(SubSeq(<<"S">>, 1, 0)) = 0 /\ SubSeq(<<"S">>, 1, 0) \in Seq({"S"})
        OBVIOUS
      <4> QED  BY <4>1
    <3>2. Last(<<"S">>) = "S" /\ Front(<<"S">>) = SubSeq(<<"S">>, 1, 0)
      BY DEF Last, Front
    <3>3. Append(<<>>, "T") = <<"T">>
      OBVIOUS
    <3> QED  BY <1>2, <3>1, <3>2, <3>3
  <2>2. t = [s EXCEPT !.levels = Append(Front(@), "T"), !.cur.adopted = TRUE, !.cur.epc = r.epc]
    BY <2>1 DEF Partition, Inside
  <2>3. t = v
    BY <2>1, <2>2
  <2>4. v.out = s.out /\ v.levels = <<"T">> /\ v.brackets = s.brackets
    BY DEF IsPart
  <2>5. v.cur.kind = s.cur.kind /\ v.cur.epc = r.epc /\ v.cur.adopted = TRUE /\ v.cur.slot = s.cur.slot
    BY DEF IsPart, IsWindow
  <2>6. IsPart(v)
    BY DEF IsPart, IsWindow
  <2> HIDE DEF t, v
  <2> QED  BY <1>2, <2>3, <2>4, <2>5, <2>6 DEF t
<1> QED  BY <1>1, <1>2

LEMMA PartitionEnterDoes ==
  ASSUME NEW s, IsPart(s), s.levels = <<>>, NEW r, r.k = "X", r.kind = "wfi_enter"
  PROVE  LET t == Partition(s, r)
         IN  /\ IsPart(t) /\ t.levels = <<"S">> /\ t.out = s.out /\ t.brackets = s.brackets
             /\ t.cur.kind = "SLEEP" /\ t.cur.epc = NoPc /\ t.cur.adopted = FALSE /\ t.cur.slot = NoPc
<1> DEFINE t == Partition(s, r)
<1>1. t = [s EXCEPT !.cur = [NoWindow EXCEPT !.kind = "SLEEP"], !.levels = <<"S">>]
  BY DEF Partition, Outside
<1> HIDE DEF t
<1>2. t.levels = <<"S">> /\ t.out = s.out /\ t.brackets = s.brackets
  BY <1>1 DEF IsPart
<1>3. t.cur.kind = "SLEEP" /\ t.cur.epc = NoPc /\ t.cur.adopted = FALSE /\ t.cur.slot = NoPc
  BY <1>1 DEF IsPart, NoWindow
<1>4. IsPart(t)
  BY <1>1 DEF IsPart, IsWindow, NoWindow
<1> QED  BY <1>2, <1>3, <1>4 DEF t

LEMMA PartitionIretDoes ==
  ASSUME NEW s, IsPart(s), s.levels = <<"T">>, NEW r, r.k = "X", r.kind = "iret"
  PROVE  LET t == Partition(s, r)
         IN  /\ IsPart(t) /\ t.levels = <<>> /\ t.out = s.out
             /\ \E b : /\ t.brackets = Append(s.brackets, b) /\ IsWindow(b)
                       /\ b.kind = s.cur.kind /\ b.epc = s.cur.epc /\ b.slot = s.cur.slot
<1> DEFINE t == Partition(s, r)
           b == [s.cur EXCEPT !.closed = TRUE]
           a == s.awaiting \cup {Len(s.brackets) + 1}
<1>1. Len(s.levels) = 1 /\ s.levels # <<>>
  OBVIOUS
<1>2. t = [s EXCEPT !.levels = <<>>, !.cur = NoWindow, !.brackets = Append(@, b), !.awaiting = a]
  BY <1>1 DEF Partition, Inside
<1>3. IsWindow(b) /\ b.kind = s.cur.kind /\ b.epc = s.cur.epc /\ b.slot = s.cur.slot
  BY DEF IsPart, IsWindow
<1> HIDE DEF t, a, b
<1>4. t.levels = <<>> /\ t.out = s.out /\ t.brackets = Append(s.brackets, b)
  BY <1>2 DEF IsPart
<1>5. IsPart(t)
  BY <1>2 DEF IsPart, IsWindow, NoWindow
<1> QED  BY <1>3, <1>4, <1>5 DEF t

LEMMA PartitionWakeDoes ==
  ASSUME NEW s, NEW r, r.k = "X", r.kind = "wfi_wake"
  PROVE  Partition(s, r) = s
BY DEF Partition, Outside, Inside

-----------------------------------------------------------------------------
(* A sequence, of whatever. *)
IsSeq(s) == \E n \in Nat : s = [i \in 1 .. n |-> s[i]]

LEMMA SeqFacts ==
  ASSUME NEW s, IsSeq(s), NEW x
  PROVE  /\ Len(s) \in Nat /\ DOMAIN s = 1 .. Len(s)
         /\ IsSeq(Append(s, x)) /\ Len(Append(s, x)) = Len(s) + 1
         /\ \A i \in 1 .. Len(s) : Append(s, x)[i] = s[i]
         /\ Append(s, x)[Len(s) + 1] = x
<1>1. PICK n \in Nat : s = [i \in 1 .. n |-> s[i]]
  BY DEF IsSeq
<1> DEFINE E == {s[i] : i \in 1 .. n} \cup {x}
           a == Append(s, x)
<1>2. s \in Seq(E)
  BY <1>1
<1> HIDE DEF E
<1>3. Len(s) \in Nat /\ DOMAIN s = 1 .. Len(s)
  BY <1>2
<1>4. x \in E
  BY DEF E
<1>5. a \in Seq(E) /\ Len(a) = Len(s) + 1
  BY <1>2, <1>4
<1>6. (\A i \in 1 .. Len(s) : a[i] = s[i]) /\ a[Len(s) + 1] = x
  BY <1>2, <1>4
<1>7. IsSeq(a)
  <2> HIDE DEF a
  <2>1. a = [i \in 1 .. Len(a) |-> a[i]] /\ Len(a) \in Nat
    BY <1>5
  <2> QED  BY <2>1 DEF IsSeq
<1> QED  BY <1>3, <1>5, <1>6, <1>7

LEMMA SameSeq ==
  ASSUME NEW f, NEW g, IsSeq(g), SameWindows(f, g)
  PROVE  IsSeq(f) /\ Len(f) = Len(g) /\ DOMAIN f = DOMAIN g
<1>1. DOMAIN g = 1 .. Len(g) /\ Len(g) \in Nat
  BY SeqFacts
<1>2. f = [i \in 1 .. Len(g) |-> f[i]]
  BY <1>1 DEF SameWindows
<1>3. IsSeq(f)
  BY <1>1, <1>2 DEF IsSeq
<1>4. DOMAIN f = 1 .. Len(f) /\ Len(f) \in Nat
  BY <1>3, SeqFacts
<1>5. DOMAIN f = 1 .. Len(g)
  BY <1>2
<1>6. Len(f) = Len(g)
  <2>1. \A m, n \in Nat : 1 .. m = 1 .. n => m <= n
    <3> SUFFICES ASSUME NEW m \in Nat, NEW n \in Nat, 1 .. m = 1 .. n, m > n PROVE FALSE
      OBVIOUS
    <3>1. m \in 1 .. m /\ m \notin 1 .. n
      OBVIOUS
    <3> QED  BY <3>1
  <2>2. 1 .. Len(f) = 1 .. Len(g)
    BY <1>4, <1>5
  <2>3. Len(f) <= Len(g) /\ Len(g) <= Len(f)
    BY <1>1, <1>4, <2>1, <2>2
  <2>4. Len(f) \in Nat /\ Len(g) \in Nat
    BY <1>1, <1>4
  <2> QED  BY <2>3, <2>4
<1> QED  BY <1>1, <1>3, <1>5, <1>6

(* One retire more in the compared stream. *)
LEMMA RetiresAppend ==
  ASSUME NEW s, IsSeq(s), NEW r
  PROVE  Cardinality(Retires(Append(s, r))) = Cardinality(Retires(s)) + (IF r.k = "R" THEN 1 ELSE 0)
<1> DEFINE a == Append(s, r)
<1>1. /\ Len(s) \in Nat /\ DOMAIN s = 1 .. Len(s) /\ DOMAIN a = 1 .. Len(s) + 1
      /\ (\A i \in 1 .. Len(s) : a[i] = s[i]) /\ a[Len(s) + 1] = r
  <2>1. IsSeq(a) /\ Len(a) = Len(s) + 1
    BY SeqFacts
  <2>2. DOMAIN a = 1 .. Len(a)
    BY <2>1, SeqFacts
  <2> QED  BY <2>1, <2>2, SeqFacts
<1> HIDE DEF a
<1>2. IsFiniteSet(Retires(s)) /\ Len(s) + 1 \notin Retires(s)
  <2>1. Retires(s) \subseteq 1 .. Len(s)
    BY <1>1 DEF Retires
  <2>2. IsFiniteSet(1 .. Len(s))
    BY <1>1, FS_Interval
  <2> QED  BY <1>1, <2>1, <2>2, FS_Subset
<1>3. CASE r.k = "R"
  <2>1. Retires(a) = Retires(s) \cup {Len(s) + 1}
    BY <1>1, <1>3 DEF Retires
  <2> QED  BY <1>2, <1>3, <2>1, FS_AddElement DEF a
<1>4. CASE r.k # "R"
  <2>1. Retires(a) = Retires(s)
    BY <1>1, <1>4 DEF Retires
  <2>2. Cardinality(Retires(s)) \in Nat
    BY <1>2, FS_CardinalityType
  <2> QED  BY <1>4, <2>1, <2>2 DEF a
<1> QED  BY <1>3, <1>4
-----------------------------------------------------------------------------
(* What the two scans i and p have in common, whatever window is open. *)
Closed(i, p) ==
  /\ IsInj(i) /\ IsPart(p)
  /\ IsSeq(i.brackets) /\ IsSeq(p.brackets) /\ IsSeq(p.out) /\ i.nRefRetire \in Nat
  /\ Len(i.brackets) = Len(p.brackets)
  /\ \A n \in DOMAIN i.brackets :
        /\ IsWindow(p.brackets[n]) /\ i.brackets[n].kind = p.brackets[n].kind
        /\ Resume(i.brackets[n]) = Expected(p.brackets[n])
  /\ i.nRefRetire = Cardinality(Retires(p.out))

(* The window they have open: its kind, the PC pushed and the last rewrite of it. *)
Alike(i, p) ==
  /\ i.cur.kind = p.cur.kind /\ i.cur.epc = p.cur.epc /\ i.cur.absorbed = p.cur.adopted
  /\ \/ Slot \notin DOMAIN i.cur.stores /\ p.cur.slot = NoPc
     \/ /\ Slot \in DOMAIN i.cur.stores /\ i.cur.stores[Slot] \in PCs
        /\ p.cur.slot = i.cur.stores[Slot]

(* No window is open; a park's, not yet woken; a handler's. *)
Outwith(i, p) == i.depth = 0 /\ p.levels = <<>>
Asleep(i, p) ==
  i.depth = 1 /\ p.levels = <<"S">> /\ i.cur.kind = "SLEEP" /\ ~i.cur.absorbed /\ Alike(i, p)
Awake(i, p) == i.depth = 1 /\ p.levels = <<"T">> /\ Alike(i, p)

LEMMA ClosedKept ==
  ASSUME NEW i, NEW p, NEW j, NEW q, Closed(i, p), IsInj(j), IsPart(q),
         j.brackets = i.brackets, q.brackets = p.brackets \/ SameWindows(q.brackets, p.brackets),
         IsSeq(q.out), j.nRefRetire = Cardinality(Retires(q.out)), j.nRefRetire \in Nat
  PROVE  Closed(j, q)
<1>1. CASE q.brackets = p.brackets
  BY <1>1 DEF Closed
<1>2. CASE SameWindows(q.brackets, p.brackets)
  <2>1. IsSeq(q.brackets) /\ Len(q.brackets) = Len(p.brackets)
    BY <1>2, SameSeq DEF Closed
  <2>2. DOMAIN i.brackets = DOMAIN p.brackets
    <3>1. DOMAIN i.brackets = 1 .. Len(i.brackets) /\ DOMAIN p.brackets = 1 .. Len(p.brackets)
      BY SeqFacts DEF Closed
    <3> QED  BY <3>1 DEF Closed
  <2>3. ASSUME NEW n \in DOMAIN i.brackets
        PROVE  /\ IsWindow(q.brackets[n]) /\ i.brackets[n].kind = q.brackets[n].kind
               /\ Resume(i.brackets[n]) = Expected(q.brackets[n])
    <3>1. /\ IsWindow(p.brackets[n]) /\ i.brackets[n].kind = p.brackets[n].kind
          /\ Resume(i.brackets[n]) = Expected(p.brackets[n])
      BY DEF Closed
    <3>2. /\ IsWindow(q.brackets[n]) /\ q.brackets[n].kind = p.brackets[n].kind
          /\ q.brackets[n].epc = p.brackets[n].epc /\ q.brackets[n].slot = p.brackets[n].slot
      BY <1>2, <2>2, <3>1 DEF SameWindows
    <3>3. Expected(q.brackets[n]) = Expected(p.brackets[n])
      BY <3>2 DEF Expected
    <3> QED  BY <3>1, <3>2, <3>3
  <2> QED  BY <2>1, <2>3 DEF Closed
<1> QED  BY <1>1, <1>2

(* A trap opens a window, or wakes the park's. *)
LEMMA ReadTrap ==
  ASSUME NEW i, NEW p, Closed(i, p), Outwith(i, p) \/ Asleep(i, p), NEW r, r.k = "T"
  PROVE  Closed(Scan(i, r), Partition(p, r)) /\ Awake(Scan(i, r), Partition(p, r))
<1> DEFINE j == Scan(i, r)
           q == Partition(p, r)
<1>1. IsInj(i) /\ IsPart(p) /\ IsSeq(p.out) /\ i.nRefRetire = Cardinality(Retires(p.out)) /\ i.nRefRetire \in Nat
  BY DEF Closed
<1>2. i.depth = 0 \/ (i.depth = 1 /\ i.cur.kind = "SLEEP" /\ ~i.cur.absorbed)
  BY DEF Outwith, Asleep
<1>3. p.levels = <<>> \/ p.levels = <<"S">>
  BY DEF Outwith, Asleep
<1>4. /\ IsInj(j) /\ j.depth = 1 /\ j.brackets = i.brackets /\ j.nRefRetire = i.nRefRetire
      /\ i.depth = 0 => /\ j.cur.kind = "TRAP" /\ j.cur.epc = r.epc /\ j.cur.absorbed = FALSE
                        /\ j.cur.stores = <<>>
      /\ i.depth = 1 => /\ j.cur.kind = "SLEEP" /\ j.cur.epc = r.epc /\ j.cur.absorbed = TRUE
                        /\ j.cur.stores = i.cur.stores
  BY <1>1, <1>2, ScanTrapDoes
<1>5. /\ IsPart(q) /\ q.levels = <<"T">> /\ q.out = p.out
      /\ q.brackets = p.brackets \/ SameWindows(q.brackets, p.brackets)
      /\ p.levels = <<>> => /\ q.cur.kind = "TRAP" /\ q.cur.epc = r.epc
                            /\ q.cur.adopted = FALSE /\ q.cur.slot = NoPc
      /\ p.levels = <<"S">> => /\ q.cur.kind = p.cur.kind /\ q.cur.epc = r.epc
                               /\ q.cur.adopted = TRUE /\ q.cur.slot = p.cur.slot
  BY <1>1, <1>3, PartitionTrapDoes
<1> HIDE DEF j, q
<1>6. Closed(j, q)
  BY <1>1, <1>4, <1>5, ClosedKept
<1>7. CASE Outwith(i, p)
  <2>1. DOMAIN <<>> = {}
    OBVIOUS
  <2> QED  BY <1>4, <1>5, <1>6, <1>7, <2>1 DEF Outwith, Awake, Alike, j, q
<1>8. CASE Asleep(i, p)
  BY <1>4, <1>5, <1>6, <1>8 DEF Asleep, Awake, Alike, j, q
<1> QED  BY <1>7, <1>8

(* wfi_enter opens a park's window. *)
LEMMA ReadEnter ==
  ASSUME NEW i, NEW p, Closed(i, p), Outwith(i, p), NEW r, r.k = "X", r.kind = "wfi_enter"
  PROVE  Closed(Scan(i, r), Partition(p, r)) /\ Asleep(Scan(i, r), Partition(p, r))
<1> DEFINE j == Scan(i, r)
           q == Partition(p, r)
<1>1. IsInj(i) /\ IsPart(p) /\ IsSeq(p.out) /\ i.nRefRetire = Cardinality(Retires(p.out)) /\ i.nRefRetire \in Nat
  BY DEF Closed
<1>2. /\ IsInj(j) /\ j.depth = 1 /\ j.brackets = i.brackets /\ j.nRefRetire = i.nRefRetire
      /\ j.cur.kind = "SLEEP" /\ j.cur.epc = NoPc /\ j.cur.absorbed = FALSE /\ j.cur.stores = <<>>
  BY <1>1, ScanEnterDoes DEF Outwith
<1>3. /\ IsPart(q) /\ q.levels = <<"S">> /\ q.out = p.out /\ q.brackets = p.brackets
      /\ q.cur.kind = "SLEEP" /\ q.cur.epc = NoPc /\ q.cur.adopted = FALSE /\ q.cur.slot = NoPc
  BY <1>1, PartitionEnterDoes DEF Outwith
<1> HIDE DEF j, q
<1>4. Closed(j, q)
  BY <1>1, <1>2, <1>3, ClosedKept
<1>5. DOMAIN <<>> = {}
  OBVIOUS
<1> QED  BY <1>2, <1>3, <1>4, <1>5 DEF Asleep, Alike, j, q

(* The handler's iret closes the window for both, with the same kind and resume PC. *)
LEMMA ReadIret ==
  ASSUME NEW i, NEW p, Closed(i, p), Awake(i, p), NEW r, r.k = "X", r.kind = "iret"
  PROVE  Closed(Scan(i, r), Partition(p, r)) /\ Outwith(Scan(i, r), Partition(p, r))
<1> DEFINE j == Scan(i, r)
           q == Partition(p, r)
<1>1. IsInj(i) /\ IsPart(p) /\ IsSeq(p.out) /\ i.nRefRetire = Cardinality(Retires(p.out)) /\ i.nRefRetire \in Nat
  BY DEF Closed
<1>2. /\ IsInj(j) /\ j.depth = 0 /\ j.brackets = Append(i.brackets, i.cur)
      /\ j.nRefRetire = i.nRefRetire
  BY <1>1, ScanIretDoes DEF Awake
<1>3. /\ IsPart(q) /\ q.levels = <<>> /\ q.out = p.out
      /\ \E b : /\ q.brackets = Append(p.brackets, b) /\ IsWindow(b)
                /\ b.kind = p.cur.kind /\ b.epc = p.cur.epc /\ b.slot = p.cur.slot
  BY <1>1, PartitionIretDoes DEF Awake
<1> HIDE DEF j, q
<1>4. PICK b : /\ q.brackets = Append(p.brackets, b) /\ IsWindow(b)
               /\ b.kind = p.cur.kind /\ b.epc = p.cur.epc /\ b.slot = p.cur.slot
  BY <1>3
<1>5. i.cur.kind = b.kind /\ Resume(i.cur) = Expected(b)
  <2>1. NoPc \notin PCs
    BY DEF NoPc, PCs
  <2> QED  BY <1>4, <2>1 DEF Awake, Alike, Resume, Expected
<1>6. /\ IsSeq(i.brackets) /\ IsSeq(p.brackets) /\ Len(i.brackets) = Len(p.brackets)
      /\ \A n \in DOMAIN i.brackets :
           /\ IsWindow(p.brackets[n]) /\ i.brackets[n].kind = p.brackets[n].kind
           /\ Resume(i.brackets[n]) = Expected(p.brackets[n])
  BY DEF Closed
<1>7. /\ IsSeq(j.brackets) /\ Len(j.brackets) = Len(i.brackets) + 1 /\ DOMAIN i.brackets = 1 .. Len(i.brackets)
      /\ Len(i.brackets) \in Nat
      /\ \A n \in 1 .. Len(i.brackets) : j.brackets[n] = i.brackets[n]
      /\ j.brackets[Len(i.brackets) + 1] = i.cur
  BY <1>2, <1>6, SeqFacts
<1>8. /\ IsSeq(q.brackets) /\ Len(q.brackets) = Len(p.brackets) + 1
      /\ \A n \in 1 .. Len(p.brackets) : q.brackets[n] = p.brackets[n]
      /\ q.brackets[Len(p.brackets) + 1] = b
  BY <1>4, <1>6, SeqFacts
<1>9. DOMAIN j.brackets = 1 .. Len(i.brackets) + 1
  BY <1>7, SeqFacts
<1>10. ASSUME NEW n \in DOMAIN j.brackets
       PROVE  /\ IsWindow(q.brackets[n]) /\ j.brackets[n].kind = q.brackets[n].kind
              /\ Resume(j.brackets[n]) = Expected(q.brackets[n])
  <2>1. CASE n = Len(i.brackets) + 1
    <3>1. j.brackets[n] = i.cur /\ q.brackets[n] = b
      BY <1>6, <1>7, <1>8, <2>1
    <3> QED  BY <1>4, <1>5, <3>1
  <2>2. CASE n # Len(i.brackets) + 1
    <3>1. n \in 1 .. Len(i.brackets)
      BY <1>7, <1>9, <2>2
    <3>2. j.brackets[n] = i.brackets[n] /\ q.brackets[n] = p.brackets[n]
      BY <1>6, <1>7, <1>8, <3>1
    <3> QED  BY <1>6, <1>7, <3>1, <3>2
  <2> QED  BY <2>1, <2>2
<1>11. Len(j.brackets) = Len(q.brackets)
  BY <1>6, <1>7, <1>8
<1>12. Closed(j, q)
  BY <1>1, <1>2, <1>3, <1>7, <1>8, <1>10, <1>11 DEF Closed
<1> QED  BY <1>2, <1>3, <1>12 DEF Outwith, j, q

Windows(i, p) == Outwith(i, p) \/ Asleep(i, p) \/ Awake(i, p)
SameState(i, p, j, q) ==
  /\ Outwith(i, p) => Outwith(j, q)
  /\ Asleep(i, p) => Asleep(j, q)
  /\ Awake(i, p) => Awake(j, q)

(* A retire outside a window is counted by one and compared by the other. *)
LEMMA ReadRetire ==
  ASSUME NEW i, NEW p, Closed(i, p), Windows(i, p), NEW r, r.k = "R"
  PROVE  LET j == Scan(i, r)
             q == Partition(p, r)
         IN  /\ Closed(j, q) /\ SameState(i, p, j, q)
             /\ r.op # "sc" => ~j.scPend.open
<1> DEFINE j == Scan(i, r)
           q == Partition(p, r)
<1>1. IsInj(i) /\ IsPart(p) /\ IsSeq(p.out) /\ i.nRefRetire = Cardinality(Retires(p.out)) /\ i.nRefRetire \in Nat
  BY DEF Closed
<1>2. /\ IsInj(j) /\ j.depth = i.depth /\ j.brackets = i.brackets
      /\ j.nRefRetire = i.nRefRetire + (IF i.depth = 0 THEN 1 ELSE 0)
      /\ SameBracket(j.cur, i.cur)
      /\ r.op # "sc" => ~j.scPend.open
  BY <1>1, ScanRetireDoes
<1>3. CASE Outwith(i, p)
  <2>1. /\ IsPart(q) /\ q.levels = <<>> /\ q.out = Append(p.out, r)
        /\ q.brackets = p.brackets \/ SameWindows(q.brackets, p.brackets)
    BY <1>1, <1>3, OutsideDoes DEF Outwith
  <2> HIDE DEF j, q
  <2>2. IsSeq(q.out) /\ Cardinality(Retires(q.out)) = Cardinality(Retires(p.out)) + 1
    BY <1>1, <2>1, SeqFacts, RetiresAppend
  <2>3. j.nRefRetire = i.nRefRetire + 1 /\ j.nRefRetire \in Nat /\ j.depth = 0 /\ i.depth = 0
    BY <1>1, <1>2, <1>3 DEF Outwith
  <2>4. Closed(j, q)
    BY <1>1, <1>2, <2>1, <2>2, <2>3, ClosedKept
  <2>5. SameState(i, p, j, q)
    BY <2>1, <2>3 DEF SameState, Outwith, Asleep, Awake
  <2> QED  BY <1>2, <2>4, <2>5 DEF j, q
<1>4. CASE Asleep(i, p) \/ Awake(i, p)
  <2>0. p.levels # <<>> /\ i.depth = 1
    <3>1. <<"S">> # <<>> /\ <<"T">> # <<>>
      OBVIOUS
    <3> QED  BY <1>4, <3>1 DEF Asleep, Awake
  <2>1. /\ IsPart(q) /\ q.levels = p.levels /\ q.out = p.out /\ q.brackets = p.brackets
        /\ q.cur.kind = p.cur.kind /\ q.cur.epc = p.cur.epc /\ q.cur.adopted = p.cur.adopted
        /\ q.cur.slot = p.cur.slot
    BY <1>1, <2>0, InsideDoes
  <2> HIDE DEF j, q
  <2>2. j.nRefRetire = i.nRefRetire
    BY <1>1, <1>2, <2>0
  <2>3. Closed(j, q)
    BY <1>1, <1>2, <2>1, <2>2, ClosedKept
  <2>4. SameState(i, p, j, q)
    BY <1>2, <2>0, <2>1 DEF SameState, Outwith, Asleep, Awake, Alike, SameBracket
  <2> QED  BY <1>2, <2>3, <2>4 DEF j, q
<1> QED  BY <1>3, <1>4 DEF Windows

(* A memory record outside a window is compared; inside, both keep a store to the stacked PC. *)
LEMMA ReadMemory ==
  ASSUME NEW i, NEW p, Closed(i, p), Windows(i, p), NEW r, r.k \in {"L", "S"},
         r.k = "S" /\ r.addr = Slot => r.data \in PCs /\ ~i.scPend.open
  PROVE  LET j == Scan(i, r)
             q == Partition(p, r)
         IN  Closed(j, q) /\ SameState(i, p, j, q)
<1> DEFINE j == Scan(i, r)
           q == Partition(p, r)
           w == Put(i.cur.stores, r.addr, r.data)
<1>1. IsInj(i) /\ IsPart(p) /\ IsSeq(p.out) /\ i.nRefRetire = Cardinality(Retires(p.out)) /\ i.nRefRetire \in Nat
  BY DEF Closed
<1>2. /\ IsInj(j) /\ j.depth = i.depth /\ j.brackets = i.brackets /\ j.nRefRetire = i.nRefRetire
      /\ j.cur.kind = i.cur.kind /\ j.cur.epc = i.cur.epc /\ j.cur.absorbed = i.cur.absorbed
      /\ \/ j.cur.stores = i.cur.stores /\ (r.k = "L" \/ i.depth = 0 \/ i.scPend.open)
         \/ j.cur.stores = w /\ r.k = "S"
  <2>1. CASE r.k = "L"
    BY <1>1, <2>1, ScanLoadDoes
  <2>2. CASE r.k = "S"
    <3>1. i.depth \in {0, 1}
      BY DEF Windows, Outwith, Asleep, Awake
    <3> QED  BY <1>1, <2>2, <3>1, ScanStoreDoes
  <2> QED  BY <2>1, <2>2
<1>3. CASE Outwith(i, p)
  <2>1. /\ IsPart(q) /\ q.levels = <<>> /\ q.out = Append(p.out, r)
        /\ q.brackets = p.brackets \/ SameWindows(q.brackets, p.brackets)
    BY <1>1, <1>3, OutsideDoes DEF Outwith
  <2> HIDE DEF j, q
  <2>2. IsSeq(q.out) /\ Cardinality(Retires(q.out)) = Cardinality(Retires(p.out))
    BY <1>1, <2>1, SeqFacts, RetiresAppend
  <2>3. j.depth = 0 /\ i.depth = 0
    BY <1>2, <1>3 DEF Outwith
  <2>4. Closed(j, q)
    BY <1>1, <1>2, <2>1, <2>2, ClosedKept
  <2>5. SameState(i, p, j, q)
    BY <2>1, <2>3 DEF SameState, Outwith, Asleep, Awake
  <2> QED  BY <2>4, <2>5 DEF j, q
<1>4. CASE Asleep(i, p) \/ Awake(i, p)
  <2>0. p.levels # <<>> /\ i.depth = 1
    <3>1. <<"S">> # <<>> /\ <<"T">> # <<>>
      OBVIOUS
    <3> QED  BY <1>4, <3>1 DEF Asleep, Awake
  <2>1. /\ IsPart(q) /\ q.levels = p.levels /\ q.out = p.out /\ q.brackets = p.brackets
        /\ q.cur.kind = p.cur.kind /\ q.cur.epc = p.cur.epc /\ q.cur.adopted = p.cur.adopted
        /\ q.cur.slot = IF r.k = "S" /\ r.addr = Slot THEN r.data ELSE p.cur.slot
    BY <1>1, <2>0, InsideDoes
  <2> HIDE DEF j, q
  <2>2. Closed(j, q)
    BY <1>1, <1>2, <2>1, ClosedKept
  <2>3. Alike(j, q)
    <3>1. Alike(i, p)
      BY <1>4 DEF Asleep, Awake
    <3>2. DOMAIN w = {r.addr} \cup DOMAIN i.cur.stores
      BY DEF w, Put
    <3>3. CASE r.k = "S" /\ r.addr = Slot
      <4>1. j.cur.stores = w
        BY <1>2, <2>0, <3>3
      <4>2. Slot \in DOMAIN w /\ w[Slot] = r.data
        BY <3>2, <3>3 DEF w, Put
      <4>3. q.cur.slot = r.data /\ r.data \in PCs
        BY <2>1, <3>3
      <4> HIDE DEF w
      <4> QED  BY <1>2, <2>1, <3>1, <4>1, <4>2, <4>3 DEF Alike
    <3>4. CASE ~(r.k = "S" /\ r.addr = Slot)
      <4>1. q.cur.slot = p.cur.slot
        BY <2>1, <3>4
      <4>2. /\ Slot \in DOMAIN j.cur.stores <=> Slot \in DOMAIN i.cur.stores
            /\ Slot \in DOMAIN i.cur.stores => j.cur.stores[Slot] = i.cur.stores[Slot]
        <5>1. CASE j.cur.stores = i.cur.stores
          BY <5>1
        <5>2. CASE j.cur.stores = w /\ r.k = "S"
          <6>1. r.addr # Slot
            BY <3>4, <5>2
          <6>2. Slot \in DOMAIN w <=> Slot \in DOMAIN i.cur.stores
            BY <3>2, <6>1
          <6>3. Slot \in DOMAIN i.cur.stores => w[Slot] = i.cur.stores[Slot]
            BY <3>2, <6>1 DEF w, Put
          <6> HIDE DEF w
          <6> QED  BY <5>2, <6>2, <6>3
        <5> QED  BY <1>2, <5>1, <5>2
      <4> QED  BY <1>2, <2>1, <3>1, <4>1, <4>2 DEF Alike
    <3> QED  BY <3>3, <3>4
  <2>4. SameState(i, p, j, q)
    BY <1>2, <2>0, <2>1, <2>3 DEF SameState, Outwith, Asleep, Awake
  <2> QED  BY <2>2, <2>4 DEF j, q
<1> QED  BY <1>3, <1>4 DEF Windows
-----------------------------------------------------------------------------
(* A memory record; one of a handler's that rewrites the stacked PC. *)
Memory(m) == m.k \in {"L", "S"}
Rewrites(m) == m.k = "S" /\ m.addr = Slot
Instruction(r, m) == r.k = "R" /\ Memory(m) /\ (Rewrites(m) => r.op = "redirect" /\ m.data \in PCs)

(* A retire and what it left. *)
Traced(recs) ==
  \/ \E r : r.k = "R" /\ recs = <<r>>
  \/ \E r, m : Instruction(r, m) /\ recs = <<r, m>>

(* Where the readers are when they have taken every record of the hart's last step. *)
Resting ==
  \/ mode = "run" /\ ~wfiArmed /\ Outwith(inj, part)
  \/ mode = "isr" /\ ~wfiArmed /\ Awake(inj, part)
  \/ mode = "sleep" /\ wfiArmed /\ Asleep(inj, part)
  \/ mode = "sleep" /\ ~wfiArmed /\ Outwith(inj, part)

(* The memory record of a retire the readers have taken. *)
Pending(m) == Memory(m) /\ (Rewrites(m) => m.data \in PCs /\ ~inj.scPend.open)

(* The last step was an instruction, and the readers have taken nothing or its retire. *)
Executing ==
  /\ ~wfiArmed
  /\ (mode = "run" /\ Outwith(inj, part)) \/ (mode = "isr" /\ Awake(inj, part))
  /\ \/ Traced(records)
     \/ \E m : Pending(m) /\ records = <<m>>

(* The records still to be read, and where the readers are before them. *)
Shape ==
  \/ records = <<>> /\ Resting
  \/ /\ \E r : r.k = "X" /\ r.kind = "iret" /\ records = <<r>>
     /\ mode \in {"run", "sleep"} /\ ~wfiArmed /\ Awake(inj, part)
  \/ /\ \E r : r.k = "X" /\ r.kind = "wfi_enter" /\ records = <<r>>
     /\ mode = "sleep" /\ wfiArmed /\ Outwith(inj, part)
  \/ /\ mode = "isr" /\ ~wfiArmed
     /\ \E t : /\ t.k = "T"
               /\ \/ records = <<t>> /\ (Outwith(inj, part) \/ Asleep(inj, part))
                  \/ /\ Asleep(inj, part)
                     /\ \E x : /\ x.k = "X" /\ x.kind = "wfi_wake"
                               /\ records = <<x, t>> \/ \E r : r.k = "R" /\ records = <<r, x, t>>
  \/ Executing

(* The inductive invariant. *)
IInv == Closed(inj, part) /\ Shape

LEMMA Tuples ==
  ASSUME NEW a, NEW b, NEW c
  PROVE  /\ Head(<<a>>) = a /\ Head(<<a, b>>) = a /\ Head(<<a, b, c>>) = a
         /\ Tail(<<a>>) = <<>> /\ Tail(<<a, b>>) = <<b>> /\ Tail(<<a, b, c>>) = <<b, c>>
         /\ <<a>> \o <<>> = <<a>> /\ <<>> \o <<a>> = <<a>>
         /\ <<a>> # <<>> /\ <<a, b>> # <<>> /\ <<a, b, c>> # <<>>
<1>1. Head(<<a>>) = a /\ Head(<<a, b>>) = a /\ Head(<<a, b, c>>) = a
  OBVIOUS
<1>2. <<a>> # <<>> /\ <<a, b>> # <<>> /\ <<a, b, c>> # <<>>
  OBVIOUS
<1>3. Tail(<<a>>) = <<>>
  OBVIOUS
<1>4. Tail(<<a, b>>) = <<b>>
  OBVIOUS
<1>5. Tail(<<a, b, c>>) = <<b, c>>
  OBVIOUS
<1>6. <<a>> \o <<>> = <<a>>
  OBVIOUS
<1>7. <<>> \o <<a>> = <<a>>
  OBVIOUS
<1> QED  BY <1>1, <1>2, <1>3, <1>4, <1>5, <1>6, <1>7

LEMMA Concatenated ==
  /\ \A a, b : <<a>> \o <<b>> = <<a, b>>
  /\ \A a, b, c : <<a, b>> \o <<c>> = <<a, b, c>>
<1>1. ASSUME NEW a, NEW b PROVE <<a>> \o <<b>> = <<a, b>>
  <2> DEFINE y == <<a>> \o <<b>>
             z == <<a, b>>
  <2>1. y \in Seq({a, b}) /\ z \in Seq({a, b}) /\ Len(y) = 2 /\ Len(z) = 2
    OBVIOUS
  <2>2. y[1] = z[1] /\ y[2] = z[2]
    OBVIOUS
  <2> HIDE DEF y, z
  <2>3. y = z
    BY <2>1, <2>2, SeqEqual
  <2> QED  BY <2>3 DEF y, z
<1>2. ASSUME NEW a, NEW b, NEW c PROVE <<a, b>> \o <<c>> = <<a, b, c>>
  <2> DEFINE y == <<a, b>> \o <<c>>
             z == <<a, b, c>>
  <2>1. y \in Seq({a, b, c}) /\ z \in Seq({a, b, c}) /\ Len(y) = 3 /\ Len(z) = 3
    OBVIOUS
  <2>2. y[1] = z[1] /\ y[2] = z[2] /\ y[3] = z[3]
    OBVIOUS
  <2> HIDE DEF y, z
  <2>3. y = z
    BY <2>1, <2>2, SeqEqual
  <2> QED  BY <2>3 DEF y, z
<1> QED  BY <1>1, <1>2

(* No memory record of an ordinary instruction is on the stacked PC. *)
LEMMA OutcomeRecords ==
  ASSUME NEW op, NEW o \in Outcomes(op)
  PROVE  o.m = <<>> \/ \E m : Memory(m) /\ ~Rewrites(m) /\ o.m = <<m>>
<1>1. \/ o.m = <<>>
      \/ \E a \in {Local, Shared, Device} : \E v : o.m = <<L(a, v)>> \/ o.m = <<S(a, v)>>
  BY DEF Outcomes
<1> QED  BY <1>1 DEF L, S, Memory, Rewrites, Slot, Local, Shared, Device

LEMMA BrokenRecords ==
  ASSUME NEW op, NEW x \in Broken(op)
  PROVE  x[2].m = <<>> \/ \E m : Memory(m) /\ ~Rewrites(m) /\ x[2].m = <<m>>
<1> DEFINE keep == [reg |-> reg, local |-> mem[Local], m |-> <<>>]
           bad(k) == CASE k = "load" -> <<"value", [keep EXCEPT !.reg = 1 - mem[Local], !.m = <<L(Local, mem[Local])>>]>>
                       [] k = "store" -> <<"store", [keep EXCEPT !.local = 1 - reg, !.m = <<S(Local, 1 - reg)>>]>>
                       [] k = "sc" -> <<"lost", [keep EXCEPT !.reg = 0]>>
<1>0. op \in {"load", "store", "sc"} /\ x = bad(op)
  BY DEF Broken
<1>1. x[2].m = <<>> \/ \E v : x[2].m = <<L(Local, v)>> \/ x[2].m = <<S(Local, v)>>
  <2>1. CASE op = "load"
    <3>1. x[2] = [keep EXCEPT !.reg = 1 - mem[Local], !.m = <<L(Local, mem[Local])>>]
      BY <1>0, <2>1
    <3>2. x[2].m = <<L(Local, mem[Local])>>
      BY <3>1
    <3> QED  BY <3>2
  <2>2. CASE op = "store"
    <3>1. x[2] = [keep EXCEPT !.local = 1 - reg, !.m = <<S(Local, 1 - reg)>>]
      BY <1>0, <2>2
    <3>2. x[2].m = <<S(Local, 1 - reg)>>
      BY <3>1
    <3> QED  BY <3>2
  <2>3. CASE op = "sc"
    <3>1. x[2] = [keep EXCEPT !.reg = 0]
      BY <1>0, <2>3
    <3>2. x[2].m = <<>>
      BY <3>1
    <3> QED  BY <3>2
  <2> QED  BY <1>0, <2>1, <2>2, <2>3
<1> QED  BY <1>1 DEF L, S, Memory, Rewrites, Slot, Local

LEMMA TracedRecords ==
  ASSUME NEW r, r.k = "R", NEW m, m = <<>> \/ \E y : Memory(y) /\ ~Rewrites(y) /\ m = <<y>>
  PROVE  Traced(<<r>> \o m)
<1>1. CASE m = <<>>
  <2>1. <<r>> \o m = <<r>>
    BY <1>1, Tuples
  <2> QED  BY <2>1 DEF Traced
<1>2. CASE \E y : Memory(y) /\ ~Rewrites(y) /\ m = <<y>>
  <2>1. PICK y : Memory(y) /\ ~Rewrites(y) /\ m = <<y>>
    BY <1>2
  <2>2. <<r>> \o <<y>> = <<r, y>>
    BY Concatenated, Zenon
  <2>3. Instruction(r, y)
    BY <2>1 DEF Instruction
  <2> QED  BY <2>1, <2>2, <2>3 DEF Traced
<1> QED  BY <1>1, <1>2

LEMMA Initially == Init => IInv
<1> SUFFICES ASSUME Init PROVE IInv
  OBVIOUS
<1> USE DEF Init, HartInit, InjInit, PartInit
<1>1. IsSeq(<<>>) /\ DOMAIN <<>> = {} /\ Len(<<>>) = 0
  <2>1. <<>> = [i \in 1 .. 0 |-> <<>>[i]]
    OBVIOUS
  <2> QED  BY <2>1 DEF IsSeq
<1>2. Cardinality(Retires(<<>>)) = 0
  BY <1>1, FS_EmptySet DEF Retires
<1>3. /\ inj.brackets = <<>> /\ inj.nRefRetire = 0 /\ inj.depth = 0 /\ inj.cur = NoBracket
      /\ part.brackets = <<>> /\ part.out = <<>> /\ part.levels = <<>> /\ part.cur = NoWindow
  OBVIOUS
<1>4. IsInj(inj) /\ IsPart(part)
  BY DEF IsInj, IsBracket, IsPart, IsWindow, NoBracket, NoWindow
<1>5. Closed(inj, part)
  BY <1>1, <1>2, <1>3, <1>4 DEF Closed
<1>6. Shape
  BY <1>3 DEF Shape, Resting, Outwith
<1> QED  BY <1>5, <1>6 DEF IInv

(* The hart's steps: the readers stay, and its records fit where they are. *)
LEMMA Simulates ==
  ASSUME IInv, Simulate
  PROVE  IInv'
<1>1. Closed(inj, part)' /\ inj' = inj /\ part' = part /\ Resting
  <2>1. inj' = inj /\ part' = part
    BY DEF Simulate
  <2>2. Closed(inj, part)'
    BY <2>1 DEF IInv, Closed, IsInj, IsPart, IsBracket, IsWindow
  <2>3. records = <<>>
    BY DEF Simulate, HartNext, Retire, Park, Interrupt, Handle, Iret
  <2>4. Resting
    BY <2>3, Tuples DEF IInv, Shape, Executing, Traced
  <2> QED  BY <2>1, <2>2, <2>4
<1> DEFINE In == Outwith(inj, part)
           As == Asleep(inj, part)
           Aw == Awake(inj, part)
<1>2. (In <=> In') /\ (As <=> As') /\ (Aw <=> Aw')
  BY <1>1 DEF Outwith, Asleep, Awake, Alike
<1> SUFFICES Shape'
  BY <1>1 DEF IInv
<1>3. CASE Retire
  <2>1. mode = "run" /\ mode' = "run" /\ ~wfiArmed /\ ~wfiArmed' /\ In'
    <3>1. mode = "run" /\ mode' = mode /\ wfiArmed' = wfiArmed
      BY <1>3 DEF Retire
    <3> QED  BY <1>1, <1>2, <3>1 DEF Resting
  <2>2. Traced(records')
    <3>1. PICK op \in Ops \ {"park"} :
            \E x \in {<<fault, o>> : o \in Outcomes(op)} \cup (IF fault = "none" THEN Broken(op) ELSE {}) :
               records' = <<R(pc, op, RdVal(op, x[2]))>> \o x[2].m
      BY <1>3 DEF Retire
    <3>2. PICK x \in {<<fault, o>> : o \in Outcomes(op)} \cup (IF fault = "none" THEN Broken(op) ELSE {}) :
               records' = <<R(pc, op, RdVal(op, x[2]))>> \o x[2].m
      BY <3>1
    <3>3. x[2].m = <<>> \/ \E y : Memory(y) /\ ~Rewrites(y) /\ x[2].m = <<y>>
      BY <3>2, OutcomeRecords, BrokenRecords
    <3>4. R(pc, op, RdVal(op, x[2])).k = "R"
      BY DEF R
    <3> QED  BY <3>2, <3>3, <3>4, TracedRecords
  <2>3. Executing'
    BY <2>1, <2>2 DEF Executing
  <2> QED  BY <2>3 DEF Shape
<1>4. CASE Park
  <2>1. mode = "run" /\ mode' = "sleep" /\ wfiArmed' /\ records' = <<X("wfi_enter")>>
    BY <1>4 DEF Park
  <2>2. In'
    BY <1>1, <1>2, <2>1 DEF Resting
  <2>3. X("wfi_enter").k = "X" /\ X("wfi_enter").kind = "wfi_enter"
    BY DEF X
  <2> QED  BY <2>1, <2>2, <2>3 DEF Shape
<1>5. CASE Interrupt
  <2> DEFINE epc == IF wfiArmed THEN pc + 1 ELSE pc
  <2>1. /\ mode \in {"run", "sleep"} /\ mode' = "isr" /\ ~wfiArmed'
        /\ records' = (IF wfiArmed THEN <<R(pc, "park", 0), X("wfi_wake")>> ELSE <<>>) \o <<T(epc)>>
    BY <1>5 DEF Interrupt
  <2>2. T(epc).k = "T" /\ X("wfi_wake").k = "X" /\ X("wfi_wake").kind = "wfi_wake" /\ R(pc, "park", 0).k = "R"
    BY DEF T, X, R
  <2> HIDE DEF epc
  <2>3. CASE wfiArmed
    <3>1. records' = <<R(pc, "park", 0), X("wfi_wake"), T(epc)>>
      <4>1. records' = <<R(pc, "park", 0), X("wfi_wake")>> \o <<T(epc)>>
        BY <2>1, <2>3
      <4> QED  BY <4>1, Concatenated, Zenon
    <3>2. As'
      BY <1>1, <1>2, <2>3 DEF Resting
    <3> QED  BY <2>1, <2>2, <3>1, <3>2 DEF Shape
  <2>4. CASE ~wfiArmed
    <3>1. records' = <<T(epc)>>
      BY <2>1, <2>4, Tuples
    <3>2. In'
      BY <1>1, <1>2, <2>1, <2>4 DEF Resting
    <3> QED  BY <2>1, <2>2, <3>1, <3>2 DEF Shape
  <2> QED  BY <2>3, <2>4
<1>6. CASE Handle
  <2>1. mode = "isr" /\ mode' = "isr" /\ wfiArmed' = wfiArmed
    BY <1>6 DEF Handle
  <2>2. ~wfiArmed' /\ Aw'
    BY <1>1, <1>2, <2>1 DEF Resting
  <2>3. PICK op \in IsrOps :
          \/ op = "redirect" /\ \E to \in PCs : records' = <<R(HandlerPc, op, 0), S(Slot, to)>>
          \/ \E o \in Outcomes(op) : records' = <<R(HandlerPc, op, RdVal(op, o))>> \o o.m
    BY <1>6 DEF Handle
  <2>4. CASE op = "redirect" /\ \E to \in PCs : records' = <<R(HandlerPc, op, 0), S(Slot, to)>>
    <3>1. PICK to \in PCs : records' = <<R(HandlerPc, op, 0), S(Slot, to)>>
      BY <2>4
    <3>2. Instruction(R(HandlerPc, op, 0), S(Slot, to))
      BY <2>4 DEF Instruction, Memory, Rewrites, R, S
    <3>3. Traced(records')
      BY <3>1, <3>2 DEF Traced, R, Instruction
    <3>4. Executing'
      BY <2>1, <2>2, <3>3 DEF Executing
    <3> QED  BY <3>4 DEF Shape
  <2>5. CASE \E o \in Outcomes(op) : records' = <<R(HandlerPc, op, RdVal(op, o))>> \o o.m
    <3>1. PICK o \in Outcomes(op) : records' = <<R(HandlerPc, op, RdVal(op, o))>> \o o.m
      BY <2>5
    <3>2. o.m = <<>> \/ \E y : Memory(y) /\ ~Rewrites(y) /\ o.m = <<y>>
      BY OutcomeRecords
    <3>3. R(HandlerPc, op, RdVal(op, o)).k = "R"
      BY DEF R
    <3>4. Traced(records')
      BY <3>1, <3>2, <3>3, TracedRecords
    <3>5. Executing'
      BY <2>1, <2>2, <3>4 DEF Executing
    <3> QED  BY <3>5 DEF Shape
  <2> QED  BY <2>3, <2>4, <2>5
<1>7. CASE Iret
  <2>1. mode = "isr" /\ mode' \in {"run", "sleep"} /\ wfiArmed' = wfiArmed /\ records' = <<X("iret")>>
    BY <1>7 DEF Iret
  <2>2. ~wfiArmed' /\ Aw'
    BY <1>1, <1>2, <2>1 DEF Resting
  <2>3. X("iret").k = "X" /\ X("iret").kind = "iret"
    BY DEF X
  <2> QED  BY <2>1, <2>2, <2>3 DEF Shape
<1> QED  BY <1>3, <1>4, <1>5, <1>6, <1>7 DEF Simulate, HartNext

(* The readers take one record. *)
LEMMA Reads ==
  ASSUME IInv, Read
  PROVE  IInv'
<1> DEFINE h == Head(records)
<1>1. /\ inj' = Scan(inj, h) /\ part' = Partition(part, h) /\ records' = Tail(records)
      /\ mode' = mode /\ wfiArmed' = wfiArmed /\ records # <<>>
  BY DEF Read
<1>2. Closed(inj, part) /\ Shape
  BY DEF IInv
<1> DEFINE Kept == SameState(inj, part, inj', part')
<1>3. CASE (\E r : r.k = "X" /\ r.kind = "iret" /\ records = <<r>>)
           /\ mode \in {"run", "sleep"} /\ ~wfiArmed /\ Awake(inj, part)
  <2>1. h.k = "X" /\ h.kind = "iret" /\ records' = <<>>
    BY <1>1, <1>3, Tuples
  <2> HIDE DEF h
  <2>2. Closed(inj', part') /\ Outwith(inj', part')
    BY <1>1, <1>2, <1>3, <2>1, ReadIret
  <2> QED  BY <1>1, <1>3, <2>1, <2>2 DEF IInv, Shape, Resting
<1>4. CASE (\E r : r.k = "X" /\ r.kind = "wfi_enter" /\ records = <<r>>)
           /\ mode = "sleep" /\ wfiArmed /\ Outwith(inj, part)
  <2>1. h.k = "X" /\ h.kind = "wfi_enter" /\ records' = <<>>
    BY <1>1, <1>4, Tuples
  <2> HIDE DEF h
  <2>2. Closed(inj', part') /\ Asleep(inj', part')
    BY <1>1, <1>2, <1>4, <2>1, ReadEnter
  <2> QED  BY <1>1, <1>4, <2>1, <2>2 DEF IInv, Shape, Resting
<1>5. CASE /\ mode = "isr" /\ ~wfiArmed
           /\ \E t : t.k = "T" /\ records = <<t>> /\ (Outwith(inj, part) \/ Asleep(inj, part))
  <2>1. h.k = "T" /\ records' = <<>> /\ (Outwith(inj, part) \/ Asleep(inj, part))
    BY <1>1, <1>5, Tuples
  <2> HIDE DEF h
  <2>2. Closed(inj', part') /\ Awake(inj', part')
    BY <1>1, <1>2, <2>1, ReadTrap
  <2> QED  BY <1>1, <1>5, <2>1, <2>2 DEF IInv, Shape, Resting
<1>6. CASE /\ mode = "isr" /\ ~wfiArmed /\ Asleep(inj, part)
           /\ \E t, x : t.k = "T" /\ x.k = "X" /\ x.kind = "wfi_wake" /\ records = <<x, t>>
  <2>1. PICK t, x : t.k = "T" /\ x.k = "X" /\ x.kind = "wfi_wake" /\ records = <<x, t>>
    BY <1>6
  <2>2. h = x /\ records' = <<t>>
    BY <1>1, <2>1, Tuples
  <2>3. inj' = inj /\ part' = part
    BY <1>1, <2>1, <2>2, ScanWakeDoes, PartitionWakeDoes
  <2>4. Closed(inj, part)' /\ Asleep(inj, part)'
    BY <1>2, <1>6, <2>3
  <2> QED  BY <1>1, <1>6, <2>1, <2>2, <2>4 DEF IInv, Shape
<1>7. CASE /\ mode = "isr" /\ ~wfiArmed /\ Asleep(inj, part)
           /\ \E t, x, r : t.k = "T" /\ x.k = "X" /\ x.kind = "wfi_wake" /\ r.k = "R" /\ records = <<r, x, t>>
  <2>1. PICK t, x, r : t.k = "T" /\ x.k = "X" /\ x.kind = "wfi_wake" /\ r.k = "R" /\ records = <<r, x, t>>
    BY <1>7
  <2>2. h = r /\ records' = <<x, t>>
    BY <1>1, <2>1, Tuples
  <2>3. Closed(inj', part') /\ Asleep(inj', part')
    <3>1. Windows(inj, part)
      BY <1>7 DEF Windows
    <3>2. Closed(inj', part') /\ Kept
      BY <1>1, <1>2, <2>1, <2>2, <3>1, ReadRetire
    <3> QED  BY <1>7, <3>2 DEF SameState
  <2> QED  BY <1>1, <1>7, <2>1, <2>2, <2>3 DEF IInv, Shape
<1>8. CASE Executing
  <2>1. Windows(inj, part)
    BY <1>8 DEF Executing, Windows
  <2>2. CASE \E r : r.k = "R" /\ records = <<r>>
    <3>1. h.k = "R" /\ records' = <<>>
      BY <1>1, <2>2, Tuples
    <3> HIDE DEF h
    <3>2. Closed(inj', part') /\ Kept
      BY <1>1, <1>2, <2>1, <3>1, ReadRetire
    <3>3. Resting'
      BY <1>1, <1>8, <3>2 DEF Executing, Resting, SameState
    <3> QED  BY <3>1, <3>2, <3>3 DEF IInv, Shape
  <2>3. CASE \E r, m : Instruction(r, m) /\ records = <<r, m>>
    <3>1. PICK r, m : Instruction(r, m) /\ records = <<r, m>>
      BY <2>3
    <3>2. h = r /\ records' = <<m>>
      BY <1>1, <3>1, Tuples
    <3>3. h.k = "R"
      BY <3>1, <3>2 DEF Instruction
    <3> HIDE DEF h
    <3>4. Closed(inj', part') /\ Kept /\ (h.op # "sc" => ~inj'.scPend.open)
      BY <1>1, <1>2, <2>1, <3>3, ReadRetire
    <3>5. Memory(m) /\ (Rewrites(m) => m.data \in PCs /\ ~inj'.scPend.open)
      BY <3>1, <3>2, <3>4 DEF Instruction
    <3>6. Executing'
      BY <1>1, <1>8, <3>2, <3>4, <3>5 DEF Executing, Pending, SameState
    <3> QED  BY <3>4, <3>6 DEF IInv, Shape
  <2>4. CASE \E m : Pending(m) /\ records = <<m>>
    <3>1. PICK m : Pending(m) /\ records = <<m>>
      BY <2>4
    <3>2. h = m /\ records' = <<>>
      BY <1>1, <3>1, Tuples
    <3>3. h.k \in {"L", "S"} /\ (h.k = "S" /\ h.addr = Slot => h.data \in PCs /\ ~inj.scPend.open)
      BY <3>1, <3>2 DEF Pending, Memory, Rewrites
    <3> HIDE DEF h
    <3>4. Closed(inj', part') /\ Kept
      BY <1>1, <1>2, <2>1, <3>3, ReadMemory
    <3>5. Resting'
      BY <1>1, <1>8, <3>4 DEF Executing, Resting, SameState
    <3> QED  BY <3>2, <3>4, <3>5 DEF IInv, Shape
  <2> QED  BY <1>8, <2>2, <2>3, <2>4 DEF Executing, Traced
<1> QED  BY <1>1, <1>2, <1>3, <1>4, <1>5, <1>6, <1>7, <1>8 DEF Shape

(* The simulation ends: the scan takes the verdict on a last sc.w, and nothing else. *)
LEMMA Cuts ==
  ASSUME IInv, Cut
  PROVE  IInv'
<1>1. /\ inj' = ResolveSc(inj) /\ part' = part /\ records = <<>> /\ records' = records
      /\ mode' = mode /\ wfiArmed' = wfiArmed
  BY DEF Cut, hartVars
<1>2. Closed(inj, part) /\ IsInj(inj)
  BY DEF IInv, Closed
<1>3. /\ IsInj(inj') /\ inj'.depth = inj.depth /\ inj'.cur = inj.cur
      /\ inj'.brackets = inj.brackets /\ inj'.nRefRetire = inj.nRefRetire
  BY <1>1, <1>2, ResolveScKeeps
<1>4. Closed(inj, part)'
  BY <1>1, <1>2, <1>3 DEF Closed
<1>5. Resting
  BY <1>1, Tuples DEF IInv, Shape, Executing, Traced
<1>6. Resting'
  BY <1>1, <1>3, <1>5 DEF Resting, Outwith, Asleep, Awake, Alike
<1> QED  BY <1>1, <1>4, <1>6 DEF IInv, Shape

LEMMA Frozen ==
  ASSUME IInv, UNCHANGED <<hartVars, inj, part>>
  PROVE  IInv'
<1>1. inj' = inj /\ part' = part /\ records' = records /\ mode' = mode /\ wfiArmed' = wfiArmed
  BY DEF hartVars
<1>2. Closed(inj, part)'
  BY <1>1 DEF IInv
<1>3. (Executing <=> Executing') /\ (Resting <=> Resting')
  BY <1>1 DEF Executing, Pending, Resting
<1>4. Shape'
  BY <1>1, <1>3 DEF IInv, Shape
<1> QED  BY <1>2, <1>4 DEF IInv

LEMMA Inductive == IInv /\ [Next]_vars => IInv'
<1> SUFFICES ASSUME IInv, [Next]_vars PROVE IInv'
  OBVIOUS
<1>1. CASE Simulate
  BY <1>1, Simulates
<1>2. CASE Read
  BY <1>2, Reads
<1>3. CASE Cut
  BY <1>3, Cuts
<1>4. CASE Reference \/ Judge \/ Done \/ UNCHANGED vars
  <2>1. UNCHANGED <<hartVars, inj, part>>
    BY <1>4 DEF Reference, Judge, Done, vars
  <2> QED  BY <2>1, Frozen
<1> QED  BY <1>1, <1>2, <1>3, <1>4 DEF Next

LEMMA Suffices == IInv => Agreement
<1> SUFFICES ASSUME IInv PROVE Agreement
  OBVIOUS
<1>1. Closed(inj, part)
  BY DEF IInv
<1>2. Windows(inj, part)
  BY DEF IInv, Shape, Resting, Executing, Windows
<1>3. Len(<<>>) = 0 /\ Len(<<"S">>) = 1 /\ Len(<<"T">>) = 1
  OBVIOUS
<1>4. WindowsAgree
  <2>1. CASE Outwith(inj, part)
    BY <1>3, <2>1 DEF WindowsAgree, Outwith
  <2>2. CASE Asleep(inj, part)
    BY <1>3, <2>2 DEF WindowsAgree, Asleep, Alike
  <2>3. CASE Awake(inj, part)
    BY <1>3, <2>3 DEF WindowsAgree, Awake, Alike
  <2> QED  BY <1>2, <2>1, <2>2, <2>3 DEF Windows
<1>5. BracketsAgree /\ CountsAgree
  BY <1>1 DEF Closed, BracketsAgree, CountsAgree
<1> QED  BY <1>4, <1>5 DEF Agreement

(* The window the reference skips and the window the comparator excludes are the same one, on *)
(* every trace a hart with one level of interrupts can leave: mk_inject.py's scan and         *)
(* compare.py's bracket_partition agree on what is open, on every closed window's kind and    *)
(* resume PC, and on the number of retires the reference is to execute.                       *)
THEOREM ReadersAgree == Spec => []Agreement
<1>1. Init => IInv
  BY Initially
<1>2. IInv /\ [Next]_vars => IInv'
  BY Inductive
<1>3. IInv => Agreement
  BY Suffices
<1> QED  BY <1>1, <1>2, <1>3, PTL DEF Spec
-----------------------------------------------------------------------------
(* What the hart holds has its type: a resumption never leaves the words a PC may be popped   *)
(* from, and a fault never leaves the values of a register.                                   *)
HartTyped ==
  /\ mode \in {"run", "isr", "sleep"}
  /\ mains \in 0 .. MAIN /\ isrs \in 0 .. ISR /\ traps \in 0 .. TRAPS
  /\ pc \in 0 .. LAST + 1 /\ (wfiArmed => pc \in PCs)
  /\ reg \in Values /\ DOMAIN mem = {Local, Slot}
  /\ mem[Local] \in Values /\ mem[Slot] \in 0 .. LAST + 1

(* A record of the compared stream is still to be read. *)
Comparing == mode = "run" /\ records # <<>> /\ Head(records).k # "X"

(* The readers count no instruction the hart has not retired outside its handlers. *)
Counts ==
  /\ inj.nRefRetire <= mains /\ Len(part.out) <= 2 * mains
  /\ Comparing => Len(part.out) + Len(records) <= 2 * mains
  /\ Comparing /\ Head(records).k = "R" => inj.nRefRetire < mains

(* Every sc.w the script forces to fail is one of the reference's retires. *)
ForcedBelow(s) ==
  /\ s.scFails \subseteq 0 .. s.nRefRetire - 1
  /\ s.scPend.open /\ s.scPend.depth = 0 => s.scPend.ref \in 0 .. s.nRefRetire - 1

Awaits(s) == s.awaiting \subseteq DOMAIN s.brackets

RefTyped == retires \in 0 .. MAIN /\ IsSeq(log) /\ Len(log) <= 2 * retires

PhaseTyped == phase \in {"sim", "ref", "done"} /\ verdict \in Verdicts \cup {"refused", "trapped", "inject"}

TInv == HartTyped /\ Counts /\ ForcedBelow(inj) /\ Awaits(part) /\ RefTyped /\ PhaseTyped

LEMMA ResolveForced ==
  ASSUME NEW s, IsInj(s), s.nRefRetire \in Nat, ForcedBelow(s)
  PROVE  ForcedBelow(ResolveSc(s)) /\ ~ResolveSc(s).scPend.open
<1> DEFINE f == IF s.scPend.open /\ s.scPend.depth = 0 /\ s.scPend.rdval # 0
                THEN s.scFails \cup {s.scPend.ref} ELSE s.scFails
           t == ResolveSc(s)
<1>1. t = [s EXCEPT !.scPend = NoSc, !.scFails = f]
  BY DEF ResolveSc
<1>2. f \subseteq 0 .. s.nRefRetire - 1
  BY DEF ForcedBelow
<1> HIDE DEF f, t
<1>3. t.scFails = f /\ t.scPend = NoSc /\ t.nRefRetire = s.nRefRetire
  BY <1>1 DEF IsInj
<1> QED  BY <1>2, <1>3 DEF ForcedBelow, NoSc, t

(* A retire outside a window that is an sc.w waits for its verdict under its own index. *)
LEMMA RetireForced ==
  ASSUME NEW s, IsInj(s), s.nRefRetire \in Nat, s.depth \in {0, 1}, ForcedBelow(s), NEW r, r.k = "R"
  PROVE  ForcedBelow(Scan(s, r))
<1>1. Scan(s, r) = ScanRetire(s, r)
  BY DEF Scan
<1> DEFINE u == ResolveSc(s)
<1>2. /\ IsInj(u) /\ u.depth = s.depth /\ u.nRefRetire = s.nRefRetire
      /\ ForcedBelow(u)
  BY ResolveScKeeps, ResolveForced
<1> DEFINE n == u.nRefRetire + (IF u.depth = 0 THEN 1 ELSE 0)
           g == IF u.depth > 0 /\ r.op \in Writers THEN <<r.rdval>> ELSE u.cur.regs
           p == IF r.op = "sc"
                THEN [open |-> TRUE, ref |-> n - 1, depth |-> u.depth, rdval |-> r.rdval] ELSE NoSc
           t == ScanRetire(s, r)
<1>3. t = [u EXCEPT !.nRefRetire = n, !.cur.regs = g, !.scPend = p]
  BY DEF ScanRetire
<1>4. n \in Nat /\ n >= u.nRefRetire /\ (u.depth = 0 => n >= 1)
  BY <1>2
<1>5. p.open /\ p.depth = 0 => p.ref = n - 1 /\ u.depth = 0
  BY DEF NoSc
<1> HIDE DEF u, n, g, p, t
<1>6. t.scFails = u.scFails /\ t.scPend = p /\ t.nRefRetire = n
  BY <1>2, <1>3 DEF IsInj
<1>7. u.scFails \subseteq 0 .. n - 1
  <2>1. u.scFails \subseteq 0 .. u.nRefRetire - 1 /\ u.nRefRetire \in Nat
    BY <1>2 DEF ForcedBelow
  <2>2. 0 .. u.nRefRetire - 1 \subseteq 0 .. n - 1
    BY <1>4, <2>1
  <2> QED  BY <2>1, <2>2
<1>8. p.open /\ p.depth = 0 => p.ref \in 0 .. n - 1
  BY <1>4, <1>5
<1> QED  BY <1>1, <1>6, <1>7, <1>8 DEF ForcedBelow, t

(* What the scan does with any other record: it takes the verdict on a waiting sc.w, or not. *)
LEMMA OtherForced ==
  ASSUME NEW s, IsInj(s), s.nRefRetire \in Nat, ForcedBelow(s), NEW t,
         t.nRefRetire = s.nRefRetire,
         \/ t.scFails = s.scFails /\ t.scPend = s.scPend
         \/ t.scFails = ResolveSc(s).scFails /\ t.scPend = ResolveSc(s).scPend
  PROVE  ForcedBelow(t)
<1>1. ForcedBelow(ResolveSc(s)) /\ ResolveSc(s).nRefRetire = s.nRefRetire
  BY ResolveForced, ResolveScKeeps
<1> QED  BY <1>1 DEF ForcedBelow

(* A retire outside a window is the reference's next; nothing else is counted. *)
LEMMA ScanForced ==
  ASSUME NEW s, IsInj(s), s.nRefRetire \in Nat, s.depth \in {0, 1}, ForcedBelow(s), NEW r
  PROVE  /\ ForcedBelow(Scan(s, r))
         /\ Scan(s, r).nRefRetire = IF r.k = "R" /\ s.depth = 0 THEN s.nRefRetire + 1 ELSE s.nRefRetire
<1> DEFINE u == ResolveSc(s)
           t == Scan(s, r)
<1>1. IsInj(u) /\ u.depth = s.depth /\ u.nRefRetire = s.nRefRetire
  BY ResolveScKeeps
<1>2. CASE r.k = "R"
  <2>1. t.nRefRetire = s.nRefRetire + (IF s.depth = 0 THEN 1 ELSE 0)
    BY <1>2, ScanRetireDoes
  <2> QED  BY <1>2, <2>1, RetireForced
<1>3. CASE r.k = "T"
  <2>1. \/ \E c : t = [u EXCEPT !.depth = 1, !.cur = c]
        \/ \E a, b, c : t = [u EXCEPT !.cur.absorbed = a, !.cur.epc = b, !.cur.push = c]
        \/ \E d, c : t = [u EXCEPT !.depth = d, !.cur.nested = c]
    BY <1>3 DEF Scan, ScanTrap
  <2> HIDE DEF u, t
  <2>2. t.nRefRetire = u.nRefRetire /\ t.scFails = u.scFails /\ t.scPend = u.scPend
    BY <1>1, <2>1 DEF IsInj
  <2> QED  BY <1>1, <1>3, <2>2, OtherForced DEF u, t
<1>4. CASE r.k = "X" /\ r.kind = "wfi_enter"
  <2>1. \/ \E c : t = [u EXCEPT !.depth = 1, !.cur = c]
        \/ \E d, c : t = [u EXCEPT !.depth = d, !.cur.nested = c]
    BY <1>4 DEF Scan, ScanEnter
  <2> HIDE DEF u, t
  <2>2. t.nRefRetire = u.nRefRetire /\ t.scFails = u.scFails /\ t.scPend = u.scPend
    BY <1>1, <2>1 DEF IsInj
  <2> QED  BY <1>1, <1>4, <2>2, OtherForced DEF u, t
<1>5. CASE r.k = "X" /\ r.kind = "iret"
  <2>1. \/ t = s
        \/ \E d : t = [u EXCEPT !.depth = d]
        \/ \E b, c : t = [u EXCEPT !.depth = 0, !.brackets = b, !.cur = c]
    BY <1>5 DEF Scan, ScanIret
  <2> HIDE DEF u, t
  <2>2. CASE t = s
    BY <1>5, <2>2 DEF t
  <2>3. CASE t # s
    <3>1. t.nRefRetire = u.nRefRetire /\ t.scFails = u.scFails /\ t.scPend = u.scPend
      BY <1>1, <2>1, <2>3 DEF IsInj
    <3> QED  BY <1>1, <1>5, <3>1, OtherForced DEF u, t
  <2> QED  BY <2>2, <2>3
<1>6. CASE r.k = "S"
  <2>1. t = s \/ \E c : t = [s EXCEPT !.cur.stores = c]
    BY <1>6 DEF Scan, ScanStore
  <2> HIDE DEF t
  <2>2. t.nRefRetire = s.nRefRetire /\ t.scFails = s.scFails /\ t.scPend = s.scPend
    BY <2>1 DEF IsInj
  <2> QED  BY <1>6, <2>2, OtherForced DEF t
<1>7. CASE r.k = "L"
  <2>1. t = s \/ (\E c : t = [s EXCEPT !.plants = c]) \/ \E c : t = [s EXCEPT !.recs = c]
    BY <1>7 DEF Scan, ScanLoad
  <2> HIDE DEF t
  <2>2. t.nRefRetire = s.nRefRetire /\ t.scFails = s.scFails /\ t.scPend = s.scPend
    BY <2>1 DEF IsInj
  <2> QED  BY <1>7, <2>2, OtherForced DEF t
<1>8. CASE r.k \notin {"R", "T", "S", "L"} /\ ~(r.k = "X" /\ r.kind \in {"wfi_enter", "iret"})
  <2>1. t = s
    BY <1>8 DEF Scan
  <2> QED  BY <1>8, <2>1
<1> QED  BY <1>2, <1>3, <1>4, <1>5, <1>6, <1>7, <1>8

(* What a record may change of the stream and of the windows that are over while one is open. *)
LEMMA InsideKeeps ==
  ASSUME NEW s, IsPart(s), NEW r
  PROVE  LET t == Inside(s, r)
         IN  /\ t.out = s.out
             /\ \/ t.awaiting = s.awaiting /\ t.brackets = s.brackets
                \/ /\ t.awaiting = s.awaiting \cup {Len(s.brackets) + 1}
                   /\ \E b : t.brackets = Append(s.brackets, b)
<1> DEFINE t == Inside(s, r)
<1>1. CASE r.k = "T" /\ Last(s.levels) = "S"
  <2>1. t = [s EXCEPT !.levels = Append(Front(@), "T"), !.cur.adopted = TRUE, !.cur.epc = r.epc]
    BY <1>1 DEF Inside
  <2> HIDE DEF t
  <2> QED  BY <2>1 DEF IsPart, t
<1>2. CASE r.k = "T" /\ Last(s.levels) # "S"
  <2>1. t = [s EXCEPT !.levels = Append(@, "T"), !.cur.nested = @ + 1]
    BY <1>2 DEF Inside
  <2> HIDE DEF t
  <2> QED  BY <2>1 DEF IsPart, t
<1>3. CASE r.k = "X" /\ r.kind = "wfi_enter"
  <2>1. t = [s EXCEPT !.levels = Append(@, "S")]
    BY <1>3 DEF Inside
  <2> HIDE DEF t
  <2> QED  BY <2>1 DEF IsPart, t
<1>4. CASE r.k = "X" /\ r.kind = "iret" /\ Len(s.levels) > 1
  <2>1. t = [s EXCEPT !.levels = Front(@)]
    BY <1>4 DEF Inside
  <2> HIDE DEF t
  <2> QED  BY <2>1 DEF IsPart, t
<1>5. CASE r.k = "X" /\ r.kind = "iret" /\ ~(Len(s.levels) > 1)
  <2> DEFINE b == [s.cur EXCEPT !.closed = TRUE]
             a == s.awaiting \cup {Len(s.brackets) + 1}
             f == Append(s.brackets, b)
  <2>1. t = [s EXCEPT !.levels = <<>>, !.cur = NoWindow, !.brackets = f, !.awaiting = a]
    BY <1>5 DEF Inside
  <2> HIDE DEF t, a, f
  <2>2. t.out = s.out /\ t.awaiting = a /\ t.brackets = f
    BY <2>1 DEF IsPart, t
  <2> QED  BY <2>2 DEF t, a, f
<1>6. CASE r.k = "S"
  <2>1. t = [s EXCEPT !.cur.slot = IF r.addr = Slot THEN r.data ELSE @]
    BY <1>6 DEF Inside
  <2> HIDE DEF t
  <2> QED  BY <2>1 DEF IsPart, t
<1>7. CASE r.k = "R"
  <2>1. t = [s EXCEPT !.cur.ext = @ \/ r.op = "park"]
    BY <1>7 DEF Inside
  <2> HIDE DEF t
  <2> QED  BY <2>1 DEF IsPart, t
<1>8. CASE r.k \notin {"T", "S", "R"} /\ ~(r.k = "X" /\ r.kind \in {"wfi_enter", "iret"})
  <2>1. t = s
    BY <1>8 DEF Inside
  <2> QED  BY <2>1
<1> QED  BY <1>1, <1>2, <1>3, <1>4, <1>5, <1>6, <1>7, <1>8

(* The compared stream grows by the records outside windows that are no markers. *)
LEMMA OutGrows ==
  ASSUME NEW s, IsPart(s), NEW r
  PROVE  Partition(s, r).out = IF s.levels = <<>> /\ r.k \in {"R", "L", "S"}
                               THEN Append(s.out, r) ELSE s.out
<1> DEFINE t == Partition(s, r)
<1>1. CASE s.levels = <<>> /\ r.k \in {"R", "L", "S"}
  BY <1>1, OutsideDoes
<1>2. CASE s.levels = <<>> /\ r.k = "T"
  BY <1>2, PartitionTrapDoes
<1>3. CASE s.levels = <<>> /\ r.k \notin {"R", "L", "S", "T"}
  <2>1. t = s \/ \E c, l : t = [s EXCEPT !.cur = c, !.levels = l]
    BY <1>3 DEF Partition, Outside
  <2> HIDE DEF t
  <2>2. t.out = s.out
    BY <2>1 DEF IsPart
  <2> QED  BY <1>3, <2>2 DEF t
<1>4. CASE s.levels # <<>>
  <2>1. t = Inside(s, r)
    BY <1>4 DEF Partition
  <2> HIDE DEF t
  <2>2. t.out = s.out
    BY <2>1, InsideKeeps
  <2> QED  BY <1>4, <2>2 DEF t
<1> QED  BY <1>1, <1>2, <1>3, <1>4

(* Only a window that is over awaits its landing. *)
LEMMA LandAwaits ==
  ASSUME NEW s, IsPart(s), NEW p, NEW via
  PROVE  Land(s, p, via).awaiting = {}
<1> DEFINE f == [n \in DOMAIN s.brackets |-> IF n \in s.awaiting
                   THEN [s.brackets[n] EXCEPT !.landing = p, !.via = via] ELSE s.brackets[n]]
           t == Land(s, p, via)
<1>1. t = [s EXCEPT !.awaiting = {}, !.brackets = f]
  BY DEF Land
<1> HIDE DEF f, t
<1> QED  BY <1>1 DEF IsPart, t

LEMMA PartitionAwaits ==
  ASSUME NEW s, IsPart(s), IsSeq(s.brackets), Awaits(s), NEW r
  PROVE  Awaits(Partition(s, r))
<1> DEFINE t == Partition(s, r)
<1>1. CASE s.levels = <<>> /\ r.k = "R"
  <2> DEFINE u == Land(s, r.pc, "R")
  <2>1. t = [u EXCEPT !.out = Append(@, r)]
    BY <1>1 DEF Partition, Outside
  <2>2. IsPart(u) /\ u.awaiting = {}
    BY LandDoes, LandAwaits
  <2> HIDE DEF u, t
  <2>3. t.awaiting = {}
    BY <2>1, <2>2 DEF IsPart
  <2> QED  BY <2>3 DEF Awaits, t
<1>2. CASE s.levels = <<>> /\ r.k = "T"
  <2> DEFINE u == Land(s, r.epc, "T-epc")
  <2>1. \E c, l : t = [u EXCEPT !.cur = c, !.levels = l]
    BY <1>2 DEF Partition, Outside
  <2>2. IsPart(u) /\ u.awaiting = {}
    BY LandDoes, LandAwaits
  <2> HIDE DEF u, t
  <2>3. t.awaiting = {}
    BY <2>1, <2>2 DEF IsPart
  <2> QED  BY <2>3 DEF Awaits, t
<1>3. CASE s.levels = <<>> /\ r.k \notin {"R", "T"}
  <2>1. \/ t = s
        \/ \E c, l : t = [s EXCEPT !.cur = c, !.levels = l]
        \/ \E o : t = [s EXCEPT !.out = o]
    BY <1>3 DEF Partition, Outside
  <2> HIDE DEF t
  <2>2. t.awaiting = s.awaiting /\ t.brackets = s.brackets
    BY <2>1 DEF IsPart
  <2> QED  BY <2>2 DEF Awaits, t
<1>4. CASE s.levels # <<>>
  <2>1. t = Inside(s, r)
    BY <1>4 DEF Partition
  <2> HIDE DEF t
  <2>2. CASE t.awaiting = s.awaiting /\ t.brackets = s.brackets
    BY <2>2 DEF Awaits, t
  <2>3. CASE /\ t.awaiting = s.awaiting \cup {Len(s.brackets) + 1}
             /\ \E b : t.brackets = Append(s.brackets, b)
    <3>1. PICK b : t.brackets = Append(s.brackets, b)
      BY <2>3
    <3>2. /\ IsSeq(Append(s.brackets, b)) /\ Len(Append(s.brackets, b)) = Len(s.brackets) + 1
          /\ Len(s.brackets) \in Nat /\ DOMAIN s.brackets = 1 .. Len(s.brackets)
      BY SeqFacts
    <3>3. DOMAIN t.brackets = 1 .. Len(s.brackets) + 1
      BY <3>1, <3>2, SeqFacts
    <3>4. s.awaiting \cup {Len(s.brackets) + 1} \subseteq 1 .. Len(s.brackets) + 1
      BY <3>2 DEF Awaits
    <3> QED  BY <2>3, <3>3, <3>4 DEF Awaits, t
  <2> QED  BY <2>1, <2>2, <2>3, InsideKeeps
<1> QED  BY <1>1, <1>2, <1>3, <1>4
-----------------------------------------------------------------------------
LEMMA OutcomesTyped ==
  ASSUME HartTyped, NEW op, NEW o \in Outcomes(op)
  PROVE  o.reg \in Values /\ o.local \in Values
<1>1. reg \in Values /\ mem[Local] \in Values /\ 1 - reg \in Values
  BY DEF HartTyped, Values
<1>2. /\ o.reg \in {mem[Local], reg, 1 - reg, 0, 1}
      /\ o.local \in {mem[Local], reg}
  BY DEF Outcomes
<1> QED  BY <1>1, <1>2 DEF Values

LEMMA BrokenTyped ==
  ASSUME HartTyped, NEW op, NEW x \in Broken(op)
  PROVE  x[2].reg \in Values /\ x[2].local \in Values
<1> DEFINE keep == [reg |-> reg, local |-> mem[Local], m |-> <<>>]
           bad(k) == CASE k = "load" -> <<"value", [keep EXCEPT !.reg = 1 - mem[Local], !.m = <<L(Local, mem[Local])>>]>>
                       [] k = "store" -> <<"store", [keep EXCEPT !.local = 1 - reg, !.m = <<S(Local, 1 - reg)>>]>>
                       [] k = "sc" -> <<"lost", [keep EXCEPT !.reg = 0]>>
<1>0. op \in {"load", "store", "sc"} /\ x = bad(op)
  BY DEF Broken
<1>1. /\ reg \in Values /\ mem[Local] \in Values /\ 0 \in Values
      /\ 1 - reg \in Values /\ 1 - mem[Local] \in Values
  BY DEF HartTyped, Values
<1>2. CASE op = "load"
  <2>1. x[2] = [keep EXCEPT !.reg = 1 - mem[Local], !.m = <<L(Local, mem[Local])>>]
    BY <1>0, <1>2
  <2>2. x[2].reg = 1 - mem[Local] /\ x[2].local = mem[Local]
    BY <2>1
  <2> QED  BY <1>1, <2>2
<1>3. CASE op = "store"
  <2>1. x[2] = [keep EXCEPT !.local = 1 - reg, !.m = <<S(Local, 1 - reg)>>]
    BY <1>0, <1>3
  <2>2. x[2].reg = reg /\ x[2].local = 1 - reg
    BY <2>1
  <2> QED  BY <1>1, <2>2
<1>4. CASE op = "sc"
  <2>1. x[2] = [keep EXCEPT !.reg = 0]
    BY <1>0, <1>4
  <2>2. x[2].reg = 0 /\ x[2].local = mem[Local]
    BY <2>1
  <2> QED  BY <1>1, <2>2
<1> QED  BY <1>0, <1>2, <1>3, <1>4

(* A word of the hart's memory is rewritten. *)
LEMMA MemoryPut ==
  ASSUME NEW m, DOMAIN m = {Local, Slot}, NEW a \in {Local, Slot}, NEW v, NEW n, n = [m EXCEPT ![a] = v]
  PROVE  DOMAIN n = {Local, Slot} /\ n[a] = v /\ \A b \in {Local, Slot} \ {a} : n[b] = m[b]
OBVIOUS

LEMMA SimulateTyped ==
  ASSUME HartTyped, IInv, Simulate
  PROVE  HartTyped'
<1>0. /\ LAST \in Nat /\ MAIN \in Nat /\ ISR \in Nat /\ TRAPS \in Nat
      /\ Local # Slot /\ PCs \subseteq 0 .. LAST + 1
  BY BoundsAssumption DEF Local, Slot, PCs
<1>1. CASE Retire
  <2>1. /\ pc \in PCs /\ mains < MAIN /\ pc' = pc + 1 /\ mains' = mains + 1
        /\ mode' = mode /\ wfiArmed' = wfiArmed /\ isrs' = isrs /\ traps' = traps /\ mode = "run"
    BY <1>1 DEF Retire
  <2>2. PICK op \in Ops \ {"park"} :
          \E x \in {<<fault, o>> : o \in Outcomes(op)} \cup (IF fault = "none" THEN Broken(op) ELSE {}) :
             reg' = x[2].reg /\ mem' = [mem EXCEPT ![Local] = x[2].local]
    BY <1>1 DEF Retire
  <2>3. PICK x \in {<<fault, o>> : o \in Outcomes(op)} \cup (IF fault = "none" THEN Broken(op) ELSE {}) :
             reg' = x[2].reg /\ mem' = [mem EXCEPT ![Local] = x[2].local]
    BY <2>2
  <2>4. x[2].reg \in Values /\ x[2].local \in Values
    BY OutcomesTyped, BrokenTyped
  <2>5. DOMAIN mem' = {Local, Slot} /\ mem'[Local] = x[2].local /\ mem'[Slot] = mem[Slot]
    BY <1>0, <2>3, MemoryPut DEF HartTyped
  <2>6. ~wfiArmed
    <3>1. records = <<>>
      BY <1>1 DEF Retire
    <3> QED  BY <2>1, <3>1, Tuples DEF IInv, Shape, Resting, Executing, Traced
  <2>7. pc' \in 0 .. LAST + 1 /\ mains' \in 0 .. MAIN
    BY <1>0, <2>1 DEF HartTyped, PCs
  <2> QED  BY <2>1, <2>3, <2>4, <2>5, <2>6, <2>7 DEF HartTyped
<1>2. CASE Park
  <2>1. /\ pc \in PCs /\ mains \in 1 .. MAIN - 1 /\ mains' = mains + 1 /\ mode' = "sleep"
        /\ UNCHANGED <<pc, reg, mem, isrs, traps>>
    BY <1>2 DEF Park
  <2>2. mains' \in 0 .. MAIN
    BY <1>0, <2>1
  <2> QED  BY <2>1, <2>2 DEF HartTyped
<1>3. CASE Interrupt
  <2> DEFINE epc == IF wfiArmed THEN pc + 1 ELSE pc
  <2>1. /\ traps < TRAPS /\ traps' = traps + 1 /\ mode' = "isr" /\ ~wfiArmed'
        /\ pc' = epc /\ mem' = [mem EXCEPT ![Slot] = epc]
        /\ UNCHANGED <<reg, mains, isrs>>
    BY <1>3 DEF Interrupt
  <2>2. epc \in 0 .. LAST + 1
    BY <1>0 DEF HartTyped, PCs
  <2> HIDE DEF epc
  <2>3. DOMAIN mem' = {Local, Slot} /\ mem'[Slot] = epc /\ mem'[Local] = mem[Local]
    BY <1>0, <2>1, MemoryPut DEF HartTyped
  <2>4. traps' \in 0 .. TRAPS
    BY <1>0, <2>1 DEF HartTyped
  <2> QED  BY <2>1, <2>2, <2>3, <2>4 DEF HartTyped
<1>4. CASE Handle
  <2>1. isrs < ISR /\ isrs' = isrs + 1 /\ UNCHANGED <<pc, mode, wfiArmed, mains, traps>>
    BY <1>4 DEF Handle
  <2>2. isrs' \in 0 .. ISR
    BY <1>0, <2>1 DEF HartTyped
  <2>3. PICK op \in IsrOps :
          \/ op = "redirect" /\ \E to \in PCs : mem' = [mem EXCEPT ![Slot] = to] /\ reg' = reg
          \/ \E o \in Outcomes(op) : reg' = o.reg /\ mem' = [mem EXCEPT ![Local] = o.local]
    BY <1>4 DEF Handle
  <2>4. CASE \E to \in PCs : mem' = [mem EXCEPT ![Slot] = to] /\ reg' = reg
    <3>1. PICK to \in PCs : mem' = [mem EXCEPT ![Slot] = to] /\ reg' = reg
      BY <2>4
    <3>2. DOMAIN mem' = {Local, Slot} /\ mem'[Slot] = to /\ mem'[Local] = mem[Local]
      BY <1>0, <3>1, MemoryPut DEF HartTyped
    <3> QED  BY <1>0, <2>1, <2>2, <3>1, <3>2 DEF HartTyped
  <2>5. CASE \E o \in Outcomes(op) : reg' = o.reg /\ mem' = [mem EXCEPT ![Local] = o.local]
    <3>1. PICK o \in Outcomes(op) : reg' = o.reg /\ mem' = [mem EXCEPT ![Local] = o.local]
      BY <2>5
    <3>2. DOMAIN mem' = {Local, Slot} /\ mem'[Local] = o.local /\ mem'[Slot] = mem[Slot]
      BY <1>0, <3>1, MemoryPut DEF HartTyped
    <3>3. o.reg \in Values /\ o.local \in Values
      BY OutcomesTyped
    <3> QED  BY <2>1, <2>2, <3>1, <3>2, <3>3 DEF HartTyped
  <2> QED  BY <2>3, <2>4, <2>5
<1>5. CASE Iret
  <2>1. /\ pc' = mem[Slot] \/ pc' \in PCs \ {mem[Slot]}
        /\ mode' \in {"run", "sleep"} /\ UNCHANGED <<reg, mem, wfiArmed, mains, isrs, traps>>
        /\ records = <<>> /\ mode = "isr"
    BY <1>5 DEF Iret
  <2>2. pc' \in 0 .. LAST + 1
    BY <1>0, <2>1 DEF HartTyped
  <2>3. ~wfiArmed
    BY <2>1, Tuples DEF IInv, Shape, Resting, Executing, Traced
  <2> QED  BY <2>1, <2>2, <2>3 DEF HartTyped
<1> QED  BY <1>1, <1>2, <1>3, <1>4, <1>5 DEF Simulate, HartNext

(* Only an instruction outside a handler adds to what is compared, two records at most. *)
LEMMA SimulateCounts ==
  ASSUME HartTyped, IInv, Counts, Simulate
  PROVE  Counts'
<1>1. inj' = inj /\ part' = part
  BY DEF Simulate
<1>2. inj.nRefRetire \in Nat /\ Len(part.out) \in Nat /\ mains \in Nat
  BY SeqFacts DEF IInv, Closed, HartTyped
<1> DEFINE n == inj.nRefRetire
           l == Len(part.out)
<1>3. n' = n /\ l' = l
  BY <1>1
<1>4. n <= mains /\ l <= 2 * mains
  BY DEF Counts
<1> HIDE DEF n, l
<1>5. CASE Retire
  <2>1. PICK op \in Ops \ {"park"} :
          \E x \in {<<fault, o>> : o \in Outcomes(op)} \cup (IF fault = "none" THEN Broken(op) ELSE {}) :
             records' = <<R(pc, op, RdVal(op, x[2]))>> \o x[2].m
    BY <1>5 DEF Retire
  <2>2. PICK x \in {<<fault, o>> : o \in Outcomes(op)} \cup (IF fault = "none" THEN Broken(op) ELSE {}) :
             records' = <<R(pc, op, RdVal(op, x[2]))>> \o x[2].m
    BY <2>1
  <2>3. x[2].m = <<>> \/ \E y : Memory(y) /\ ~Rewrites(y) /\ x[2].m = <<y>>
    BY <2>2, OutcomeRecords, BrokenRecords
  <2>4. Len(records') \in {1, 2}
    <3>1. ASSUME NEW a, NEW b PROVE Len(<<a>>) = 1 /\ Len(<<a, b>>) = 2
      OBVIOUS
    <3> QED  BY <2>2, <2>3, <3>1, Tuples, Concatenated
  <2>5. mains' = mains + 1
    BY <1>5 DEF Retire
  <2> DEFINE k == Len(records')
  <2>6. l + k <= 2 * mains' /\ l <= 2 * mains' /\ n < mains' /\ n <= mains'
    <3> HIDE DEF k
    <3>1. k \in {1, 2}
      BY <2>4 DEF k
    <3> QED  BY <1>2, <1>4, <2>5, <3>1 DEF n, l
  <2> QED  BY <1>3, <2>6 DEF Counts, n, l
<1>6. CASE Park \/ Interrupt \/ Handle \/ Iret
  <2>1. mains' \in {mains, mains + 1}
    BY <1>6 DEF Park, Interrupt, Handle, Iret
  <2>2. ~Comparing'
    <3>1. CASE Park \/ Interrupt \/ Handle
      <4>1. mode' # "run"
        BY <3>1 DEF Park, Interrupt, Handle
      <4> QED  BY <4>1 DEF Comparing
    <3>2. CASE Iret
      <4>1. records' = <<X("iret")>>
        BY <3>2 DEF Iret
      <4>2. Head(records').k = "X"
        BY <4>1, Tuples DEF X
      <4> QED  BY <4>2 DEF Comparing
    <3> QED  BY <1>6, <3>1, <3>2
  <2>3. n <= mains' /\ l <= 2 * mains'
    BY <1>2, <1>4, <2>1 DEF n, l
  <2> QED  BY <1>3, <2>2, <2>3 DEF Counts, n, l
<1> QED  BY <1>5, <1>6 DEF Simulate, HartNext
(* Where a record of the compared stream can be at the head: no window is open. *)
LEMMA ComparingOutside ==
  ASSUME Shape, records # <<>>
  PROVE  /\ Comparing => Executing /\ Outwith(inj, part)
         /\ (inj.depth = 0 \/ part.levels = <<>>) /\ Head(records).k \in {"R", "L", "S"} => Comparing
         /\ Comparing <=> mode = "run" /\ Head(records).k \in {"R", "L", "S"}
         /\ mode = "run" /\ ~Comparing => Tail(records) = <<>>
<1>0. <<"S">> # <<>> /\ <<"T">> # <<>>
  OBVIOUS
<1>1. CASE (\E r : r.k = "X" /\ r.kind = "iret" /\ records = <<r>>) /\ Awake(inj, part)
  <2>1. Head(records).k = "X" /\ Tail(records) = <<>>
    BY <1>1, Tuples
  <2> QED  BY <2>1 DEF Comparing
<1>2. CASE \E r : r.k = "X" /\ r.kind = "wfi_enter" /\ records = <<r>>
  <2>1. Head(records).k = "X" /\ Tail(records) = <<>>
    BY <1>2, Tuples
  <2> QED  BY <2>1 DEF Comparing
<1>3. CASE mode = "isr" /\ \E t : t.k = "T" /\ records = <<t>>
  <2>1. Head(records).k = "T"
    BY <1>3, Tuples
  <2> QED  BY <1>3, <2>1 DEF Comparing
<1>4. CASE mode = "isr" /\ (Asleep(inj, part) \/ Awake(inj, part))
  <2>1. inj.depth = 1 /\ part.levels # <<>>
    BY <1>0, <1>4 DEF Asleep, Awake
  <2>2. mode # "run" /\ ~Comparing
    BY <1>4 DEF Comparing
  <2> QED  BY <2>1, <2>2
<1>5. CASE mode = "run" /\ Executing
  <2>1. Outwith(inj, part)
    BY <1>5 DEF Executing
  <2>2. Head(records).k \in {"R", "L", "S"}
    BY <1>5, Tuples DEF Executing, Traced, Instruction, Pending, Memory
  <2> QED  BY <1>5, <2>1, <2>2 DEF Comparing
<1> QED  BY <1>1, <1>2, <1>3, <1>4, <1>5 DEF Shape, Executing

LEMMA ReadCounts ==
  ASSUME HartTyped, IInv, Counts, ForcedBelow(inj), Read
  PROVE  Counts' /\ ForcedBelow(inj)'
<1> DEFINE h == Head(records)
           n == inj.nRefRetire
           l == Len(part.out)
<1>1. /\ inj' = Scan(inj, h) /\ part' = Partition(part, h) /\ records' = Tail(records)
      /\ records # <<>> /\ mode' = mode /\ mains' = mains
  BY DEF Read
<1>2. /\ IsInj(inj) /\ IsPart(part) /\ n \in Nat /\ l \in Nat /\ mains \in Nat /\ IsSeq(part.out)
      /\ \A r : Len(Append(part.out, r)) = l + 1
  BY SeqFacts DEF IInv, Closed, HartTyped
<1>3. inj.depth \in {0, 1}
  BY DEF IInv, Shape, Resting, Executing, Outwith, Asleep, Awake
<1>4. /\ ForcedBelow(inj')
      /\ inj'.nRefRetire = IF h.k = "R" /\ inj.depth = 0 THEN n + 1 ELSE n
  BY <1>1, <1>2, <1>3, ScanForced
<1>5. part'.out = IF part.levels = <<>> /\ h.k \in {"R", "L", "S"} THEN Append(part.out, h) ELSE part.out
  BY <1>1, <1>2, OutGrows
<1>6. /\ Comparing => Executing /\ Outwith(inj, part)
      /\ (inj.depth = 0 \/ part.levels = <<>>) /\ h.k \in {"R", "L", "S"} => Comparing
      /\ Comparing <=> mode = "run" /\ h.k \in {"R", "L", "S"}
      /\ mode = "run" /\ ~Comparing => Tail(records) = <<>>
  BY <1>1, ComparingOutside DEF IInv
<1>7. /\ n <= mains /\ l <= 2 * mains
      /\ Comparing => l + Len(records) <= 2 * mains
      /\ Comparing /\ h.k = "R" => n < mains
  BY DEF Counts
<1>8. CASE ~Comparing
  <2>1. part'.out = part.out /\ inj'.nRefRetire = n
    BY <1>4, <1>5, <1>6, <1>8
  <2>2. ~Comparing'
    <3>1. CASE mode = "run"
      BY <1>1, <1>6, <1>8, <3>1 DEF Comparing
    <3>2. CASE mode # "run"
      BY <1>1, <3>2 DEF Comparing
    <3> QED  BY <3>1, <3>2
  <2> QED  BY <1>1, <1>4, <1>7, <2>1, <2>2 DEF Counts
<1>9. CASE Comparing
  <2>1. /\ inj.depth = 0 /\ part.levels = <<>> /\ h.k \in {"R", "L", "S"} /\ Executing
    BY <1>6, <1>9 DEF Outwith
  <2>2. part'.out = Append(part.out, h) /\ inj'.nRefRetire = IF h.k = "R" THEN n + 1 ELSE n
    BY <1>4, <1>5, <2>1
  <2>3. Len(part'.out) = l + 1
    BY <1>2, <2>2
  <2>4. ASSUME NEW a, NEW b PROVE Len(<<a>>) = 1 /\ Len(<<a, b>>) = 2
    OBVIOUS
  <2>5. \/ Len(records) = 1 /\ records' = <<>>
        \/ Len(records) = 2 /\ \E m : Memory(m) /\ records' = <<m>>
    <3>1. CASE \E r : records = <<r>>
      BY <1>1, <2>4, <3>1, Tuples
    <3>2. CASE \E r, m : Memory(m) /\ records = <<r, m>>
      <4>1. PICK r, m : Memory(m) /\ records = <<r, m>>
        BY <3>2
      <4>2. Len(records) = 2 /\ records' = <<m>>
        BY <1>1, <2>4, <4>1, Tuples
      <4> QED  BY <4>1, <4>2
    <3> QED  BY <2>1, <3>1, <3>2 DEF Executing, Traced, Instruction
  <2> DEFINE n2 == inj'.nRefRetire
             l2 == Len(part'.out)
             k == Len(records)
  <2>6. n2 \in {n, n + 1} /\ (n2 = n + 1 => n < mains) /\ l2 = l + 1 /\ k \in {1, 2} /\ l + k <= 2 * mains
    <3>1. k \in {1, 2}
      BY <2>5
    <3>2. l + k <= 2 * mains
      BY <1>7, <1>9
    <3>3. n2 \in {n, n + 1} /\ (n2 = n + 1 => h.k = "R")
      <4>1. h.k # "R" => n2 = n
        BY <2>2
      <4>2. h.k = "R" => n2 = n + 1
        BY <2>2
      <4> HIDE DEF n, n2, h
      <4>3. n # n + 1
        BY <1>2
      <4> QED  BY <4>1, <4>2, <4>3
    <3>4. l2 = l + 1
      BY <2>3
    <3> HIDE DEF n, l, n2, l2, k, h
    <3> QED  BY <1>7, <1>9, <3>1, <3>2, <3>3, <3>4
  <2> HIDE DEF n, l, n2, l2, k, h
  <2>7. n2 <= mains /\ l2 <= 2 * mains /\ (k = 2 => l2 + 1 <= 2 * mains)
    BY <1>2, <1>7, <2>6
  <2>8. Comparing' => Len(records') = 1 /\ Head(records').k # "R" /\ k = 2
    <3>1. CASE records' = <<>>
      BY <3>1 DEF Comparing
    <3>2. CASE k = 2 /\ \E m : Memory(m) /\ records' = <<m>>
      BY <2>4, <3>2, Tuples DEF Memory
    <3> QED  BY <2>5, <3>1, <3>2 DEF k
  <2> QED  BY <1>1, <1>4, <2>7, <2>8 DEF Counts, n2, l2
<1> QED  BY <1>8, <1>9

LEMMA LogGrows ==
  ASSUME NEW s, IsSeq(s), NEW a, NEW b
  PROVE  /\ IsSeq(s \o <<a>>) /\ Len(s \o <<a>>) = Len(s) + 1
         /\ IsSeq(s \o <<a, b>>) /\ Len(s \o <<a, b>>) = Len(s) + 2
<1>1. PICK n \in Nat : s = [i \in 1 .. n |-> s[i]]
  BY DEF IsSeq
<1> DEFINE E == {s[i] : i \in 1 .. n} \cup {a, b}
           y == s \o <<a>>
           z == s \o <<a, b>>
<1>2. s \in Seq(E)
  BY <1>1
<1>3. a \in E /\ b \in E
  OBVIOUS
<1> HIDE DEF E
<1>4. y \in Seq(E) /\ Len(y) = Len(s) + 1 /\ z \in Seq(E) /\ Len(z) = Len(s) + 2
  BY <1>2, <1>3
<1>5. ASSUME NEW t \in Seq(E) PROVE IsSeq(t)
  <2>1. t = [i \in 1 .. Len(t) |-> t[i]] /\ Len(t) \in Nat
    OBVIOUS
  <2> QED  BY <2>1 DEF IsSeq
<1> QED  BY <1>4, <1>5

(* An instruction of the reference logs its retire and at most one record of memory. *)
LEMMA ExecuteLogs ==
  ASSUME RefStep
  PROVE  (\E a : log' = log \o <<a>>) \/ \E a, b : log' = log \o <<a, b>>
<1> DEFINE m == Realigned
           op == Fetched
           f == retires \in inj.scFails
           v == IF Fetched = "mmio" THEN inj.recs[Realigned.next] ELSE 0
<1>0. log' = log \o Execute(m, op, v, f)[2]
  BY DEF RefStep
<1> HIDE DEF m, op, v
<1>1. CASE op = "load"
  <2>1. Execute(m, op, v, f)[2] = <<R(m.pc, op, m.mem[Local]), L(Local, 0)>>
    BY <1>1 DEF Execute
  <2>2. log' = log \o <<R(m.pc, op, m.mem[Local]), L(Local, 0)>>
    BY <1>0, <2>1
  <2> QED  BY <2>2
<1>2. CASE op = "store"
  <2>1. Execute(m, op, v, f)[2] = <<R(m.pc, op, 0), S(Local, m.reg)>>
    BY <1>2 DEF Execute
  <2>2. log' = log \o <<R(m.pc, op, 0), S(Local, m.reg)>>
    BY <1>0, <2>1
  <2> QED  BY <2>2
<1>3. CASE op = "mmio"
  <2>1. Execute(m, op, v, f)[2] = <<R(m.pc, op, v), L(Device, 0)>>
    BY <1>3 DEF Execute
  <2>2. log' = log \o <<R(m.pc, op, v), L(Device, 0)>>
    BY <1>0, <2>1
  <2> QED  BY <2>2
<1>4. CASE op = "shared"
  <2>1. Execute(m, op, v, f)[2] = <<R(m.pc, op, m.mem[Shared]), L(Shared, 0)>>
    BY <1>4 DEF Execute
  <2>2. log' = log \o <<R(m.pc, op, m.mem[Shared]), L(Shared, 0)>>
    BY <1>0, <2>1
  <2> QED  BY <2>2
<1>5. CASE op = "sc" /\ f
  <2>1. Execute(m, op, v, f)[2] = <<R(m.pc, op, 1)>>
    BY <1>5 DEF Execute
  <2>2. log' = log \o <<R(m.pc, op, 1)>>
    BY <1>0, <2>1
  <2> QED  BY <2>2
<1>6. CASE op \notin {"load", "store", "mmio", "shared"} /\ ~(op = "sc" /\ f)
  <2>1. Execute(m, op, v, f)[2] = <<R(m.pc, op, 0), S(Shared, m.reg)>>
    BY <1>6 DEF Execute
  <2>2. log' = log \o <<R(m.pc, op, 0), S(Shared, m.reg)>>
    BY <1>0, <2>1
  <2> QED  BY <2>2
<1> QED  BY <1>1, <1>2, <1>3, <1>4, <1>5, <1>6

LEMMA ReferenceTyped ==
  ASSUME HartTyped, IInv, Counts, RefTyped, Reference
  PROVE  RefTyped'
<1>1. RefStep /\ retires < inj.nRefRetire /\ retires' = retires + 1
  BY DEF Reference, RefStep
<1>2. retires' \in 0 .. MAIN
  <2>1. /\ inj.nRefRetire \in Nat /\ inj.nRefRetire <= mains /\ mains \in 0 .. MAIN /\ MAIN \in Nat
        /\ retires \in Nat
    BY BoundsAssumption DEF IInv, Closed, Counts, HartTyped, RefTyped
  <2> QED  BY <1>1, <2>1
<1>4. (\E a : log' = log \o <<a>>) \/ \E a, b : log' = log \o <<a, b>>
  BY <1>1, ExecuteLogs
<1>5. IsSeq(log) /\ Len(log) \in Nat
  BY SeqFacts DEF RefTyped
<1>6. IsSeq(log') /\ Len(log') \in {Len(log) + 1, Len(log) + 2}
  <2>1. CASE \E a : log' = log \o <<a>>
    <3>1. PICK a : log' = log \o <<a>>
      BY ONLY <2>1
    <3>2. IsSeq(log \o <<a>>) /\ Len(log \o <<a>>) = Len(log) + 1
      BY ONLY <1>5, LogGrows
    <3> QED  BY ONLY <3>1, <3>2
  <2>2. CASE \E a, b : log' = log \o <<a, b>>
    <3>1. PICK a, b : log' = log \o <<a, b>>
      BY ONLY <2>2
    <3>2. IsSeq(log \o <<a, b>>) /\ Len(log \o <<a, b>>) = Len(log) + 2
      BY ONLY <1>5, LogGrows
    <3> QED  BY ONLY <3>1, <3>2
  <2> QED  BY <1>4, <2>1, <2>2
<1> DEFINE l == Len(log)
           m == Len(log')
<1>7. l \in Nat /\ m \in {l + 1, l + 2} /\ l <= 2 * retires /\ retires \in Nat
  BY <1>5, <1>6 DEF RefTyped
<1> HIDE DEF l, m
<1>8. m <= 2 * retires'
  BY <1>1, <1>7
<1> QED  BY <1>2, <1>6, <1>8 DEF RefTyped, m

LEMMA TypesInitially == Init => TInv
<1> SUFFICES ASSUME Init PROVE TInv
  OBVIOUS
<1> USE DEF Init, HartInit, InjInit, PartInit, RefInit
<1>1. HartTyped
  <2>1. mem = [a \in {Local, Slot} |-> 0]
    OBVIOUS
  <2>2. DOMAIN mem = {Local, Slot} /\ mem[Local] = 0 /\ mem[Slot] = 0
    BY <2>1
  <2> QED  BY <2>2, BoundsAssumption DEF HartTyped, Values
<1>2. inj.nRefRetire = 0 /\ inj.scFails = {} /\ inj.scPend = NoSc /\ part.out = <<>> /\ part.awaiting = {}
  OBVIOUS
<1>3. Len(<<>>) = 0 /\ IsSeq(<<>>)
  <2>1. <<>> = [i \in 1 .. 0 |-> <<>>[i]]
    OBVIOUS
  <2> QED  BY <2>1 DEF IsSeq
<1>4. Counts
  <2>1. inj.nRefRetire <= mains /\ Len(part.out) <= 2 * mains /\ records = <<>>
    BY <1>2, <1>3
  <2> QED  BY <2>1 DEF Counts, Comparing
<1>5. ForcedBelow(inj) /\ Awaits(part)
  BY <1>2 DEF ForcedBelow, Awaits, NoSc
<1>6. RefTyped /\ PhaseTyped
  BY <1>3, BoundsAssumption DEF RefTyped, PhaseTyped, Verdicts
<1> QED  BY <1>1, <1>4, <1>5, <1>6 DEF TInv

LEMMA TypesInductive == IInv /\ TInv /\ [Next]_vars => TInv'
<1> SUFFICES ASSUME IInv, TInv, [Next]_vars PROVE TInv'
  OBVIOUS
<1> USE DEF TInv
<1>1. CASE Simulate
  <2>1. HartTyped' /\ Counts'
    BY <1>1, SimulateTyped, SimulateCounts
  <2>2. UNCHANGED <<inj, part, refVars, phase, verdict>>
    BY <1>1 DEF Simulate
  <2>3. ForcedBelow(inj)' /\ Awaits(part)'
    BY <2>2
  <2>4. RefTyped' /\ PhaseTyped'
    BY <2>2 DEF RefTyped, PhaseTyped, refVars
  <2> QED  BY <2>1, <2>3, <2>4
<1>2. CASE Read
  <2>1. Counts' /\ ForcedBelow(inj)'
    BY <1>2, ReadCounts
  <2>2. UNCHANGED <<pc, reg, mem, mode, wfiArmed, mains, isrs, traps, refVars, phase, verdict>>
    BY <1>2 DEF Read
  <2>3. HartTyped' /\ RefTyped' /\ PhaseTyped'
    BY <2>2 DEF HartTyped, RefTyped, PhaseTyped, refVars
  <2>4. Awaits(part')
    <3>1. part' = Partition(part, Head(records)) /\ IsPart(part) /\ IsSeq(part.brackets)
      BY <1>2 DEF Read, IInv, Closed
    <3> QED  BY <3>1, PartitionAwaits
  <2> QED  BY <2>1, <2>3, <2>4
<1>3. CASE Cut
  <2>1. /\ inj' = ResolveSc(inj) /\ UNCHANGED <<hartVars, part, refVars>>
        /\ \/ phase' = "ref" /\ verdict' = verdict
           \/ phase' = "done" /\ verdict' = "refused"
    BY <1>3 DEF Cut
  <2>2. IsInj(inj) /\ inj.nRefRetire \in Nat
    BY DEF IInv, Closed
  <2>3. inj'.nRefRetire = inj.nRefRetire /\ ForcedBelow(inj')
    BY <2>1, <2>2, ResolveScKeeps, ResolveForced
  <2>4. HartTyped' /\ Counts' /\ RefTyped' /\ Awaits(part)' /\ PhaseTyped'
    BY <2>1, <2>3 DEF HartTyped, Counts, Comparing, RefTyped, Awaits, PhaseTyped, hartVars, refVars
  <2> QED  BY <2>3, <2>4
<1>4. CASE Reference
  <2>1. RefTyped' /\ UNCHANGED <<hartVars, inj, part, phase, verdict>>
    BY <1>4, ReferenceTyped DEF Reference
  <2>2. HartTyped' /\ Counts' /\ ForcedBelow(inj)' /\ Awaits(part)' /\ PhaseTyped'
    BY <2>1 DEF HartTyped, Counts, Comparing, Awaits, PhaseTyped, hartVars
  <2> QED  BY <2>1, <2>2
<1>5. CASE Judge
  <2>1. UNCHANGED <<hartVars, inj, part, refVars>> /\ phase' = "done"
    BY <1>5 DEF Judge
  <2>2. verdict' \in Verdicts \cup {"trapped", "inject"}
    BY <1>5 DEF Judge, Walk, Verdicts
  <2>3. HartTyped' /\ Counts' /\ ForcedBelow(inj)' /\ Awaits(part)' /\ RefTyped'
    BY <2>1 DEF HartTyped, Counts, Comparing, Awaits, RefTyped, hartVars, refVars
  <2>4. PhaseTyped'
    BY <2>1, <2>2 DEF PhaseTyped
  <2> QED  BY <2>3, <2>4
<1>6. CASE Done \/ UNCHANGED vars
  <2>1. UNCHANGED vars
    BY <1>6 DEF Done
  <2> QED  BY <2>1 DEF HartTyped, Counts, Comparing, Awaits, RefTyped, PhaseTyped, vars, hartVars, refVars
<1> QED  BY <1>1, <1>2, <1>3, <1>4, <1>5, <1>6 DEF Next

LEMMA TypesSuffice == IInv /\ TInv => TypeOK
<1> SUFFICES ASSUME IInv, TInv PROVE TypeOK
  OBVIOUS
<1> USE DEF TInv
<1>1. inj.depth \in 0 .. 1
  BY DEF IInv, Shape, Resting, Executing, Outwith, Asleep, Awake
<1>2. /\ inj.nRefRetire \in Nat /\ mains \in 0 .. MAIN /\ MAIN \in Nat /\ retires \in 0 .. MAIN
      /\ Len(part.out) \in Nat /\ Len(log) \in Nat
  BY BoundsAssumption, SeqFacts DEF IInv, Closed, HartTyped, RefTyped
<1> DEFINE n == inj.nRefRetire
           l == Len(part.out)
           g == Len(log)
<1>3. n <= mains /\ l <= 2 * mains /\ g <= 2 * retires
  BY DEF Counts, RefTyped
<1>4. inj.scFails \subseteq 0 .. n - 1
  BY DEF ForcedBelow
<1> HIDE DEF n, l, g
<1>5. n \in 0 .. MAIN /\ 0 .. n - 1 \subseteq 0 .. MAIN /\ l <= 2 * MAIN /\ g <= 2 * MAIN
  BY <1>2, <1>3 DEF n, l, g
<1> QED  BY <1>1, <1>2, <1>4, <1>5 DEF TypeOK, HartTyped, PhaseTyped, Awaits, n, l, g

(* The cell keeps its types: the script never tells the reference to execute more             *)
(* instructions than the hart retired outside handlers, every sc.w it forces to fail is one of*)
(* them, and the comparator awaits a landing only of a window that is over.                   *)
THEOREM CellTyped == Spec => []TypeOK
<1>1. Init => IInv /\ TInv
  BY Initially, TypesInitially
<1>2. IInv /\ TInv /\ [Next]_vars => IInv' /\ TInv'
  BY Inductive, TypesInductive
<1>3. IInv /\ TInv => TypeOK
  BY TypesSuffice
<1> QED  BY <1>1, <1>2, <1>3, PTL DEF Spec

-----------------------------------------------------------------------------
(* The verdict. What follows relates the end of the cell to the whole run of the hart, so it   *)
(* speaks of the readers as they will be when the records still pending are read: between two  *)
(* steps of the hart nothing it says changes.                                                  *)
ScanAll(s, rs) ==
  IF rs = <<>> THEN s
  ELSE IF Len(rs) = 1 THEN Scan(s, rs[1])
  ELSE IF Len(rs) = 2 THEN Scan(Scan(s, rs[1]), rs[2])
  ELSE Scan(Scan(Scan(s, rs[1]), rs[2]), rs[3])

PartAll(s, rs) ==
  IF rs = <<>> THEN s
  ELSE IF Len(rs) = 1 THEN Partition(s, rs[1])
  ELSE IF Len(rs) = 2 THEN Partition(Partition(s, rs[1]), rs[2])
  ELSE Partition(Partition(Partition(s, rs[1]), rs[2]), rs[3])

(* The sc.w of the reference that fail, the pending verdict taken. *)
Forced(s) == ResolveSc(s).scFails

(* Read one by one. *)
LEMMA ScanNone ==
  ASSUME NEW s PROVE ScanAll(s, <<>>) = s /\ PartAll(s, <<>>) = s
BY DEF ScanAll, PartAll

LEMMA ScanOne ==
  ASSUME NEW s, NEW a
  PROVE  ScanAll(s, <<a>>) = Scan(s, a) /\ PartAll(s, <<a>>) = Partition(s, a)
<1>1. <<a>> # <<>> /\ Len(<<a>>) = 1 /\ <<a>>[1] = a
  OBVIOUS
<1> QED  BY <1>1 DEF ScanAll, PartAll

LEMMA ScanTwo ==
  ASSUME NEW s, NEW a, NEW b
  PROVE  ScanAll(s, <<a, b>>) = Scan(Scan(s, a), b) /\ PartAll(s, <<a, b>>) = Partition(Partition(s, a), b)
<1>1. <<a, b>> # <<>> /\ Len(<<a, b>>) = 2 /\ <<a, b>>[1] = a /\ <<a, b>>[2] = b
  OBVIOUS
<1>2. ScanAll(s, <<a, b>>) = Scan(Scan(s, a), b)
  BY <1>1 DEF ScanAll
<1>3. PartAll(s, <<a, b>>) = Partition(Partition(s, a), b)
  BY <1>1 DEF PartAll
<1> QED  BY <1>2, <1>3

LEMMA ScanThree ==
  ASSUME NEW s, NEW a, NEW b, NEW c
  PROVE  /\ ScanAll(s, <<a, b, c>>) = Scan(Scan(Scan(s, a), b), c)
         /\ PartAll(s, <<a, b, c>>) = Partition(Partition(Partition(s, a), b), c)
<1>1. <<a, b, c>> # <<>> /\ Len(<<a, b, c>>) = 3 /\ <<a, b, c>>[1] = a /\ <<a, b, c>>[2] = b /\ <<a, b, c>>[3] = c
  OBVIOUS
<1>2. ScanAll(s, <<a, b, c>>) = Scan(Scan(Scan(s, a), b), c)
  BY <1>1 DEF ScanAll
<1>3. PartAll(s, <<a, b, c>>) = Partition(Partition(Partition(s, a), b), c)
  BY <1>1 DEF PartAll
<1> QED  BY <1>2, <1>3

(* What a record that is not about the script's values leaves of them. *)
SameScript(t, s) ==
  t.recs = s.recs /\ t.plants = s.plants /\ Forced(t) = Forced(s) /\ t.nRefRetire = s.nRefRetire

(* The sc.w the script will force, and that taking the pending verdict leaves them as they    *)
(* are.                                                                                       *)
LEMMA ForcedIs ==
  ASSUME NEW s, IsInj(s)
  PROVE  Forced(s) = IF s.scPend.open /\ s.scPend.depth = 0 /\ s.scPend.rdval # 0
                     THEN s.scFails \cup {s.scPend.ref} ELSE s.scFails
<1> DEFINE f == IF s.scPend.open /\ s.scPend.depth = 0 /\ s.scPend.rdval # 0
                THEN s.scFails \cup {s.scPend.ref} ELSE s.scFails
           t == ResolveSc(s)
<1>1. t = [s EXCEPT !.scPend = NoSc, !.scFails = f]
  BY DEF ResolveSc
<1> HIDE DEF f, t
<1>2. t.scFails = f
  BY <1>1 DEF IsInj
<1> QED  BY <1>2 DEF Forced, f, t

LEMMA ResolveScript ==
  ASSUME NEW s, IsInj(s)
  PROVE  SameScript(ResolveSc(s), s) /\ ResolveSc(s).scFails = Forced(s)
<1> DEFINE f == IF s.scPend.open /\ s.scPend.depth = 0 /\ s.scPend.rdval # 0
                THEN s.scFails \cup {s.scPend.ref} ELSE s.scFails
           t == ResolveSc(s)
<1>1. t = [s EXCEPT !.scPend = NoSc, !.scFails = f]
  BY DEF ResolveSc
<1>2. Forced(s) = f
  BY ForcedIs
<1> HIDE DEF f
<1>3. IsInj(t) /\ t.scPend = NoSc /\ t.nRefRetire = s.nRefRetire
  BY ResolveScKeeps
<1> HIDE DEF t
<1>4. t.recs = s.recs /\ t.plants = s.plants /\ t.scFails = f
  BY <1>1 DEF IsInj
<1>5. Forced(t) = f
  BY <1>3, <1>4, ForcedIs DEF NoSc
<1> QED  BY <1>2, <1>3, <1>4, <1>5 DEF SameScript, t

(* Two scans with the same failures and the same pending verdict. *)
LEMMA SameForced ==
  ASSUME NEW s, NEW t, IsInj(s), IsInj(t), t.scFails = s.scFails, t.scPend = s.scPend
  PROVE  Forced(t) = Forced(s)
BY ForcedIs

(* What each record does to the script's values: a retire of the program that is a failed     *)
(* sc.w is the only one to force a failure;                                                   *)
LEMMA ScriptRetire ==
  ASSUME NEW s, IsInj(s), s.nRefRetire \in Nat, NEW r, r.k = "R"
  PROVE  LET t == Scan(s, r)
         IN  /\ t.recs = s.recs /\ t.plants = s.plants
             /\ Forced(t) = Forced(s) \cup (IF r.op = "sc" /\ s.depth = 0 /\ r.rdval # 0 THEN {s.nRefRetire} ELSE {})
             /\ t.cur.refIndex = s.cur.refIndex /\ t.cur.push = s.cur.push
             /\ t.cur.regs = IF s.depth > 0 /\ r.op \in Writers THEN <<r.rdval>> ELSE s.cur.regs
             /\ t.scPend = IF r.op = "sc"
                           THEN [open |-> TRUE, ref |-> t.nRefRetire - 1, depth |-> s.depth, rdval |-> r.rdval]
                           ELSE NoSc
<1>1. Scan(s, r) = ScanRetire(s, r)
  BY DEF Scan
<1> DEFINE u == ResolveSc(s)
<1>2. /\ IsInj(u) /\ u.depth = s.depth /\ u.cur = s.cur /\ u.nRefRetire = s.nRefRetire
      /\ SameScript(u, s) /\ u.scFails = Forced(s)
  BY ResolveScKeeps, ResolveScript
<1> DEFINE n == u.nRefRetire + (IF u.depth = 0 THEN 1 ELSE 0)
           g == IF u.depth > 0 /\ r.op \in Writers THEN <<r.rdval>> ELSE u.cur.regs
           p == IF r.op = "sc"
                THEN [open |-> TRUE, ref |-> n - 1, depth |-> u.depth, rdval |-> r.rdval] ELSE NoSc
           t == ScanRetire(s, r)
<1>3. t = [u EXCEPT !.nRefRetire = n, !.cur.regs = g, !.scPend = p]
  BY DEF ScanRetire
<1>4. u.depth = 0 => n - 1 = s.nRefRetire
  BY <1>2
<1>5. p.open = (r.op = "sc")
  BY DEF NoSc
<1>6. r.op = "sc" => p.depth = s.depth /\ p.rdval = r.rdval /\ (s.depth = 0 => p.ref = s.nRefRetire)
  BY <1>2, <1>4
<1>7. g = IF s.depth > 0 /\ r.op \in Writers THEN <<r.rdval>> ELSE s.cur.regs
  BY <1>2
<1> HIDE DEF u, n, g, p, t
<1>8. /\ IsInj(t) /\ t.scPend = p /\ t.scFails = u.scFails /\ t.recs = u.recs /\ t.plants = u.plants
      /\ t.cur.regs = g /\ t.cur.refIndex = u.cur.refIndex /\ t.cur.push = u.cur.push
  BY <1>2, <1>3 DEF IsInj, IsBracket
<1>9. Forced(t) = IF p.open /\ p.depth = 0 /\ p.rdval # 0 THEN Forced(s) \cup {p.ref} ELSE Forced(s)
  BY <1>2, <1>8, ForcedIs
<1>10. Forced(t) = Forced(s) \cup (IF r.op = "sc" /\ s.depth = 0 /\ r.rdval # 0 THEN {s.nRefRetire} ELSE {})
  BY <1>5, <1>6, <1>9
<1>11. p = IF r.op = "sc" THEN [open |-> TRUE, ref |-> n - 1, depth |-> s.depth, rdval |-> r.rdval] ELSE NoSc
  BY <1>2 DEF p
<1>12. t.nRefRetire = n
  BY <1>2, <1>3 DEF IsInj
<1> QED  BY <1>1, <1>2, <1>7, <1>8, <1>10, <1>11, <1>12 DEF t, SameScript

(* a trap, a park and an iret leave the script as it is; *)
LEMMA ScriptTrap ==
  ASSUME NEW s, IsInj(s), NEW r, r.k = "T",
         s.depth = 0 \/ (s.depth = 1 /\ s.cur.kind = "SLEEP" /\ ~s.cur.absorbed)
  PROVE  LET t == Scan(s, r)
         IN  /\ SameScript(t, s) /\ t.brackets = s.brackets
             /\ s.depth = 0 => /\ t.cur.refIndex = s.nRefRetire /\ t.cur.regs = <<>> /\ t.cur.push = r.push
                               /\ t.cur.epc = r.epc /\ t.cur.stores = <<>>
             /\ s.depth = 1 => /\ t.cur.refIndex = s.cur.refIndex /\ t.cur.regs = s.cur.regs
                               /\ t.cur.push = (IF s.cur.push = NoPc THEN r.push ELSE s.cur.push)
                               /\ t.cur.epc = r.epc /\ t.cur.stores = s.cur.stores
<1>1. Scan(s, r) = ScanTrap(s, r)
  BY DEF Scan
<1> DEFINE u == ResolveSc(s)
           t == ScanTrap(s, r)
<1>2. /\ IsInj(u) /\ u.depth = s.depth /\ u.cur = s.cur /\ u.nRefRetire = s.nRefRetire
      /\ SameScript(u, s) /\ u.brackets = s.brackets
  BY ResolveScKeeps, ResolveScript
<1>3. CASE s.depth = 0
  <2>1. t = [u EXCEPT !.depth = 1,
                      !.cur = [NoBracket EXCEPT !.kind = "TRAP", !.refIndex = u.nRefRetire,
                                                !.epc = r.epc, !.push = r.push]]
    BY <1>2, <1>3 DEF ScanTrap
  <2> HIDE DEF u, t
  <2>2. /\ IsInj(t) /\ t.scFails = u.scFails /\ t.scPend = u.scPend /\ t.recs = u.recs /\ t.plants = u.plants
        /\ t.nRefRetire = u.nRefRetire /\ t.brackets = u.brackets
    BY <1>2, <2>1 DEF IsInj, IsBracket, NoBracket
  <2>3. /\ t.cur.refIndex = s.nRefRetire /\ t.cur.regs = <<>> /\ t.cur.push = r.push
        /\ t.cur.epc = r.epc /\ t.cur.stores = <<>>
    BY <1>2, <2>1 DEF IsInj, NoBracket
  <2>4. Forced(t) = Forced(u)
    BY <1>2, <2>2, SameForced
  <2> QED  BY <1>1, <1>2, <1>3, <2>2, <2>3, <2>4 DEF t, SameScript
<1>4. CASE s.depth # 0
  <2> DEFINE v == IF u.cur.push = NoPc THEN r.push ELSE u.cur.push
  <2>1. t = [u EXCEPT !.cur.absorbed = TRUE, !.cur.epc = r.epc, !.cur.push = v]
    BY <1>2, <1>4 DEF ScanTrap
  <2>0. v = IF s.cur.push = NoPc THEN r.push ELSE s.cur.push
    BY <1>2
  <2> HIDE DEF u, t, v
  <2>2. /\ IsInj(t) /\ t.scFails = u.scFails /\ t.scPend = u.scPend /\ t.recs = u.recs /\ t.plants = u.plants
        /\ t.nRefRetire = u.nRefRetire /\ t.brackets = u.brackets
    BY <1>2, <2>1 DEF IsInj, IsBracket
  <2>3. /\ t.cur.refIndex = u.cur.refIndex /\ t.cur.regs = u.cur.regs /\ t.cur.push = v
        /\ t.cur.epc = r.epc /\ t.cur.stores = u.cur.stores
    BY <1>2, <2>1 DEF IsInj, IsBracket
  <2>4. Forced(t) = Forced(u)
    BY <1>2, <2>2, SameForced
  <2> QED  BY <1>1, <1>2, <1>4, <2>0, <2>2, <2>3, <2>4 DEF t, SameScript
<1> QED  BY <1>3, <1>4

LEMMA ScriptEnter ==
  ASSUME NEW s, IsInj(s), NEW r, r.k = "X", r.kind = "wfi_enter", s.depth = 0
  PROVE  LET t == Scan(s, r)
         IN  SameScript(t, s) /\ t.cur.refIndex = s.nRefRetire /\ t.cur.regs = <<>> /\ t.cur.push = NoPc
<1>1. Scan(s, r) = ScanEnter(s)
  BY DEF Scan
<1> DEFINE u == ResolveSc(s)
           t == ScanEnter(s)
<1>2. /\ IsInj(u) /\ u.depth = s.depth /\ u.nRefRetire = s.nRefRetire /\ SameScript(u, s)
  BY ResolveScKeeps, ResolveScript
<1>3. t = [u EXCEPT !.depth = 1,
                    !.cur = [NoBracket EXCEPT !.kind = "SLEEP", !.refIndex = u.nRefRetire]]
  BY <1>2 DEF ScanEnter
<1> HIDE DEF u, t
<1>4. /\ IsInj(t) /\ t.scFails = u.scFails /\ t.scPend = u.scPend /\ t.recs = u.recs /\ t.plants = u.plants
      /\ t.nRefRetire = u.nRefRetire
  BY <1>2, <1>3 DEF IsInj, IsBracket, NoBracket
<1>5. t.cur.refIndex = s.nRefRetire /\ t.cur.regs = <<>> /\ t.cur.push = NoPc
  BY <1>2, <1>3 DEF IsInj, NoBracket
<1>6. Forced(t) = Forced(u)
  BY <1>2, <1>4, SameForced
<1> QED  BY <1>1, <1>2, <1>4, <1>5, <1>6 DEF t, SameScript

LEMMA ScriptIret ==
  ASSUME NEW s, IsInj(s), NEW r, r.k = "X", r.kind = "iret", s.depth = 1
  PROVE  SameScript(Scan(s, r), s)
<1>1. Scan(s, r) = ScanIret(s)
  BY DEF Scan
<1> DEFINE u == ResolveSc(s)
           t == ScanIret(s)
           b == Append(u.brackets, u.cur)
<1>2. IsInj(u) /\ u.depth = s.depth /\ u.nRefRetire = s.nRefRetire /\ SameScript(u, s)
  BY ResolveScKeeps, ResolveScript
<1>3. t = [u EXCEPT !.depth = 0, !.brackets = b, !.cur = NoBracket]
  BY <1>2 DEF ScanIret
<1> HIDE DEF u, t, b
<1>4. /\ IsInj(t) /\ t.scFails = u.scFails /\ t.scPend = u.scPend /\ t.recs = u.recs /\ t.plants = u.plants
      /\ t.nRefRetire = u.nRefRetire
  BY <1>2, <1>3 DEF IsInj, IsBracket, NoBracket
<1>5. Forced(t) = Forced(u)
  BY <1>2, <1>4, SameForced
<1> QED  BY <1>1, <1>2, <1>4, <1>5 DEF t, SameScript

(* a store is of the open window, unless it is a ghost; a load is of the script outside       *)
(* every window.                                                                              *)
LEMMA ScriptStore ==
  ASSUME NEW s, IsInj(s), s.depth \in {0, 1}, NEW r, r.k = "S"
  PROVE  LET t == Scan(s, r)
         IN  /\ SameScript(t, s)
             /\ s.depth = 0 => t = s
             /\ t.cur.refIndex = s.cur.refIndex /\ t.cur.regs = s.cur.regs /\ t.cur.push = s.cur.push
             /\ s.depth = 1 =>
                  t.cur.stores = IF s.scPend.open /\ s.scPend.depth > 0 /\ s.scPend.rdval # 0
                                 THEN s.cur.stores ELSE Put(s.cur.stores, r.addr, r.data)
<1>1. Scan(s, r) = ScanStore(s, r)
  BY DEF Scan
<1> DEFINE t == ScanStore(s, r)
<1>2. CASE s.depth > 0 /\ ~(s.scPend.open /\ s.scPend.depth > 0 /\ s.scPend.rdval # 0)
  <2> DEFINE w == Put(s.cur.stores, r.addr, r.data)
  <2>1. t = [s EXCEPT !.cur.stores = w]
    BY <1>2 DEF ScanStore
  <2> HIDE DEF t, w
  <2>2. /\ IsInj(t) /\ t.scFails = s.scFails /\ t.scPend = s.scPend /\ t.recs = s.recs /\ t.plants = s.plants
        /\ t.nRefRetire = s.nRefRetire
    BY <2>1 DEF IsInj, IsBracket
  <2>3. t.cur.refIndex = s.cur.refIndex /\ t.cur.regs = s.cur.regs /\ t.cur.push = s.cur.push /\ t.cur.stores = w
    BY <2>1 DEF IsInj, IsBracket
  <2>4. Forced(t) = Forced(s)
    BY <2>2, SameForced
  <2>5. s.depth # 0
    BY <1>2
  <2> QED  BY <1>1, <1>2, <2>2, <2>3, <2>4, <2>5 DEF t, w, SameScript
<1>3. CASE ~(s.depth > 0 /\ ~(s.scPend.open /\ s.scPend.depth > 0 /\ s.scPend.rdval # 0))
  <2>1. t = s
    BY <1>3 DEF ScanStore
  <2> QED  BY <1>1, <1>3, <2>1 DEF SameScript
<1> QED  BY <1>2, <1>3

LEMMA ScriptLoad ==
  ASSUME NEW s, IsInj(s), s.depth \in {0, 1}, NEW r, r.k = "L"
  PROVE  LET t == Scan(s, r)
         IN  /\ Forced(t) = Forced(s) /\ t.nRefRetire = s.nRefRetire /\ t.cur = s.cur
             /\ t.recs = IF s.depth = 0 /\ r.addr = Device THEN Append(s.recs, r.data) ELSE s.recs
             /\ t.plants = IF s.depth = 0 /\ r.addr = Shared THEN Put(s.plants, s.nRefRetire - 1, r.data) ELSE s.plants
<1>1. Scan(s, r) = ScanLoad(s, r)
  BY DEF Scan
<1> DEFINE t == ScanLoad(s, r)
           p == Put(s.plants, s.nRefRetire - 1, r.data)
           q == Append(s.recs, r.data)
<1>2. Shared # Device
  BY DEF Shared, Device
<1>3. CASE s.depth = 0 /\ r.addr = Shared
  <2>1. t = [s EXCEPT !.plants = p]
    BY <1>3 DEF ScanLoad
  <2> HIDE DEF t, p
  <2>2. /\ IsInj(t) /\ t.scFails = s.scFails /\ t.scPend = s.scPend /\ t.recs = s.recs /\ t.plants = p
        /\ t.nRefRetire = s.nRefRetire /\ t.cur = s.cur
    BY <2>1 DEF IsInj, IsBracket
  <2>3. Forced(t) = Forced(s)
    BY <2>2, SameForced
  <2> QED  BY <1>1, <1>2, <1>3, <2>2, <2>3 DEF t, p
<1>4. CASE s.depth = 0 /\ r.addr = Device
  <2>1. t = [s EXCEPT !.recs = q]
    BY <1>2, <1>4 DEF ScanLoad
  <2> HIDE DEF t, q
  <2>2. /\ IsInj(t) /\ t.scFails = s.scFails /\ t.scPend = s.scPend /\ t.recs = q /\ t.plants = s.plants
        /\ t.nRefRetire = s.nRefRetire /\ t.cur = s.cur
    BY <2>1 DEF IsInj, IsBracket
  <2>3. Forced(t) = Forced(s)
    BY <2>2, SameForced
  <2> QED  BY <1>1, <1>2, <1>4, <2>2, <2>3 DEF t, q
<1>5. CASE ~(s.depth = 0 /\ r.addr \in {Shared, Device})
  <2>1. t = s
    BY <1>5 DEF ScanLoad
  <2> QED  BY <1>1, <1>5, <2>1
<1> QED  BY <1>3, <1>4, <1>5

-----------------------------------------------------------------------------
(* What the verdict asks of a window, and what a landing at x leaves of it. *)
SameRole(b, c) == b.closed = c.closed /\ b.parked = c.parked /\ Expected(b) = Expected(c)

LandAt(f, g, a, x) ==
  /\ DOMAIN f = DOMAIN g
  /\ \A n \in DOMAIN g : IsWindow(g[n]) =>
        SameRole(f[n], g[n]) /\ f[n].landing = IF n \in a THEN x ELSE g[n].landing

(* Landing changes nothing of a window but where it landed. *)
LEMMA LandIs ==
  ASSUME NEW s, IsPart(s), NEW x, NEW via
  PROVE  LET t == Land(s, x, via)
         IN  /\ IsPart(t) /\ t.out = s.out /\ t.levels = s.levels /\ t.cur = s.cur /\ t.awaiting = {}
             /\ LandAt(t.brackets, s.brackets, s.awaiting, x)
<1> DEFINE t == Land(s, x, via)
           c(n) == Landed(s.brackets[n], x, via)
           f == [n \in DOMAIN s.brackets |-> IF n \in s.awaiting THEN c(n) ELSE s.brackets[n]]
<1>1. t = [s EXCEPT !.awaiting = {}, !.brackets = f]
  BY DEF Land, Landed
<1>2. LandAt(f, s.brackets, s.awaiting, x)
  <2> SUFFICES ASSUME NEW n \in DOMAIN s.brackets, IsWindow(s.brackets[n])
               PROVE  /\ SameRole(f[n], s.brackets[n])
                      /\ f[n].landing = IF n \in s.awaiting THEN x ELSE s.brackets[n].landing
    BY DEF LandAt
  <2>1. f[n] = IF n \in s.awaiting THEN c(n) ELSE s.brackets[n]
    OBVIOUS
  <2> DEFINE b == s.brackets[n]
             d == c(n)
  <2>2. d = [b EXCEPT !.landing = x, !.via = via]
    BY DEF Landed
  <2> HIDE DEF b, d
  <2>3. /\ d.landing = x /\ d.closed = b.closed /\ d.parked = b.parked /\ d.epc = b.epc /\ d.slot = b.slot
    BY <2>2 DEF IsWindow, b
  <2>4. SameRole(d, b) /\ SameRole(b, b)
    BY <2>3 DEF SameRole, Expected
  <2> HIDE DEF f, c
  <2> QED  BY <2>1, <2>3, <2>4 DEF b, d
<1>3. IsPart(t) /\ t.out = s.out /\ t.levels = s.levels /\ t.cur = s.cur
  BY LandDoes
<1> HIDE DEF f, t
<1>4. t.brackets = f /\ t.awaiting = {}
  BY <1>1 DEF IsPart
<1> QED  BY <1>2, <1>3, <1>4 DEF t

(* What each record does to the partition outside every window, *)
LEMMA PartRetire ==
  ASSUME NEW s, IsPart(s), s.levels = <<>>, NEW r, r.k = "R"
  PROVE  LET t == Partition(s, r)
         IN  /\ LandAt(t.brackets, s.brackets, s.awaiting, r.pc) /\ t.awaiting = {}
             /\ t.out = Append(s.out, r) /\ t.cur = s.cur
<1> DEFINE t == Partition(s, r)
           u == Land(s, r.pc, "R")
           o == Append(u.out, r)
<1>1. t = [u EXCEPT !.out = o]
  BY DEF Partition, Outside
<1>2. /\ IsPart(u) /\ u.out = s.out /\ u.cur = s.cur /\ u.awaiting = {}
      /\ LandAt(u.brackets, s.brackets, s.awaiting, r.pc)
  BY LandIs
<1> HIDE DEF t, u, o
<1>3. t.brackets = u.brackets /\ t.awaiting = u.awaiting /\ t.out = o /\ t.cur = u.cur
  BY <1>1, <1>2 DEF IsPart
<1> QED  BY <1>2, <1>3 DEF t, o

LEMMA PartMemory ==
  ASSUME NEW s, IsPart(s), s.levels = <<>>, NEW r, r.k \in {"L", "S"}
  PROVE  LET t == Partition(s, r)
         IN  /\ t.brackets = s.brackets /\ t.awaiting = s.awaiting
             /\ t.out = Append(s.out, r) /\ t.cur = s.cur
<1> DEFINE t == Partition(s, r)
           o == Append(s.out, r)
<1>1. t = [s EXCEPT !.out = o]
  BY DEF Partition, Outside
<1> HIDE DEF t, o
<1>2. t.brackets = s.brackets /\ t.awaiting = s.awaiting /\ t.out = o /\ t.cur = s.cur
  BY <1>1 DEF IsPart
<1> QED  BY <1>2 DEF t, o

(* The part of an open window the verdict asks about. *)
SameOpen(b, c) == b.landing = c.landing /\ b.parked = c.parked /\ b.closed = c.closed

(* inside one, *)
LEMMA PartInside ==
  ASSUME NEW s, IsPart(s), s.levels # <<>>, NEW r, r.k \in {"R", "L", "S"}
  PROVE  LET t == Partition(s, r)
         IN  /\ t.brackets = s.brackets /\ t.awaiting = s.awaiting /\ t.out = s.out
             /\ SameOpen(t.cur, s.cur) /\ t.cur.kind = s.cur.kind /\ t.cur.adopted = s.cur.adopted
             /\ s.cur.ext => t.cur.ext
             /\ r.k = "R" /\ r.op = "park" => t.cur.ext
<1> DEFINE t == Partition(s, r)
           e == s.cur.ext \/ r.op = "park"
           w == IF r.addr = Slot THEN r.data ELSE s.cur.slot
<1>1. t = Inside(s, r)
  BY DEF Partition
<1>2. \/ t = s /\ r.k = "L"
      \/ t = [s EXCEPT !.cur.ext = e] /\ r.k = "R"
      \/ t = [s EXCEPT !.cur.slot = w] /\ r.k = "S"
  BY <1>1 DEF Inside
<1>3. (s.cur.ext => e) /\ (r.op = "park" => e)
  OBVIOUS
<1> HIDE DEF t, e, w
<1>4. t.brackets = s.brackets /\ t.awaiting = s.awaiting /\ t.out = s.out
  BY <1>2 DEF IsPart
<1>5. SameOpen(t.cur, s.cur) /\ t.cur.kind = s.cur.kind /\ t.cur.adopted = s.cur.adopted
  BY <1>2 DEF IsPart, IsWindow, SameOpen
<1>6. t.cur.ext = s.cur.ext \/ (r.k = "R" /\ t.cur.ext = e)
  BY <1>2 DEF IsPart, IsWindow
<1>7. r.k = "R" => t.cur.ext = e
  BY <1>2 DEF IsPart, IsWindow
<1> QED  BY <1>3, <1>4, <1>5, <1>6, <1>7 DEF t

(* and as one opens or closes. *)
LEMMA PartTrap ==
  ASSUME NEW s, IsPart(s), s.levels = <<>> \/ s.levels = <<"S">>, NEW r, r.k = "T"
  PROVE  LET t == Partition(s, r)
         IN  /\ t.out = s.out
             /\ s.levels = <<>> =>
                  /\ LandAt(t.brackets, s.brackets, s.awaiting, r.epc) /\ t.awaiting = {}
                  /\ t.cur.kind = "TRAP" /\ SameOpen(t.cur, NoWindow)
             /\ s.levels = <<"S">> =>
                  /\ t.brackets = s.brackets /\ t.awaiting = s.awaiting
                  /\ t.cur.kind = s.cur.kind /\ SameOpen(t.cur, s.cur) /\ t.cur.ext = s.cur.ext
<1> DEFINE t == Partition(s, r)
<1>1. CASE s.levels = <<>>
  <2> DEFINE u == Land(s, r.epc, "T-epc")
             v == [u EXCEPT !.cur = [NoWindow EXCEPT !.kind = "TRAP", !.epc = r.epc], !.levels = <<"T">>]
  <2>1. t = v
    BY <1>1 DEF Partition, Outside
  <2>2. /\ IsPart(u) /\ u.out = s.out /\ u.awaiting = {}
        /\ LandAt(u.brackets, s.brackets, s.awaiting, r.epc)
    BY LandIs
  <2> HIDE DEF u
  <2>3. v.out = s.out /\ v.brackets = u.brackets /\ v.awaiting = {}
    BY <2>2 DEF IsPart
  <2>4. v.cur.kind = "TRAP" /\ SameOpen(v.cur, NoWindow)
    BY <2>2 DEF IsPart, NoWindow, SameOpen
  <2>5. <<>> # <<"S">>
    OBVIOUS
  <2> HIDE DEF t, v
  <2> QED  BY <1>1, <2>1, <2>2, <2>3, <2>4, <2>5 DEF t
<1>2. CASE s.levels = <<"S">>
  <2> DEFINE v == [s EXCEPT !.levels = <<"T">>, !.cur.adopted = TRUE, !.cur.epc = r.epc]
  <2>1. Last(s.levels) = "S" /\ Append(Front(s.levels), "T") = <<"T">> /\ s.levels # <<>>
    <3>1. SubSeq(<<"S">>, 1, 0) = <<>>
      <4>1. Len(SubSeq(<<"S">>, 1, 0)) = 0 /\ SubSeq(<<"S">>, 1, 0) \in Seq({"S"})
        OBVIOUS
      <4> QED  BY <4>1
    <3>2. Last(<<"S">>) = "S" /\ Front(<<"S">>) = SubSeq(<<"S">>, 1, 0)
      BY DEF Last, Front
    <3>3. Append(<<>>, "T") = <<"T">>
      OBVIOUS
    <3> QED  BY <1>2, <3>1, <3>2, <3>3
  <2>2. t = [s EXCEPT !.levels = Append(Front(@), "T"), !.cur.adopted = TRUE, !.cur.epc = r.epc]
    BY <2>1 DEF Partition, Inside
  <2>3. t = v
    BY <2>1, <2>2
  <2>4. v.out = s.out /\ v.brackets = s.brackets /\ v.awaiting = s.awaiting
    BY DEF IsPart
  <2>5. v.cur.kind = s.cur.kind /\ SameOpen(v.cur, s.cur) /\ v.cur.ext = s.cur.ext
    BY DEF IsPart, IsWindow, SameOpen
  <2> HIDE DEF t, v
  <2> QED  BY <1>2, <2>1, <2>3, <2>4, <2>5 DEF t
<1> QED  BY <1>1, <1>2

LEMMA PartEnter ==
  ASSUME NEW s, IsPart(s), s.levels = <<>>, NEW r, r.k = "X", r.kind = "wfi_enter"
  PROVE  LET t == Partition(s, r)
         IN  /\ t.out = s.out /\ t.brackets = s.brackets /\ t.awaiting = s.awaiting
             /\ t.cur.kind = "SLEEP" /\ SameOpen(t.cur, NoWindow) /\ t.cur.adopted = FALSE
<1> DEFINE t == Partition(s, r)
<1>1. t = [s EXCEPT !.cur = [NoWindow EXCEPT !.kind = "SLEEP"], !.levels = <<"S">>]
  BY DEF Partition, Outside
<1> HIDE DEF t
<1>2. t.out = s.out /\ t.brackets = s.brackets /\ t.awaiting = s.awaiting
  BY <1>1 DEF IsPart
<1>3. t.cur.kind = "SLEEP" /\ SameOpen(t.cur, NoWindow) /\ t.cur.adopted = FALSE
  BY <1>1 DEF IsPart, NoWindow, SameOpen
<1> QED  BY <1>2, <1>3 DEF t

LEMMA PartIret ==
  ASSUME NEW s, IsPart(s), s.levels = <<"T">>, NEW r, r.k = "X", r.kind = "iret"
  PROVE  LET t == Partition(s, r)
         IN  /\ t.out = s.out /\ t.awaiting = s.awaiting \cup {Len(s.brackets) + 1}
             /\ \E b : /\ t.brackets = Append(s.brackets, b)
                       /\ b.closed = TRUE /\ b.parked = s.cur.parked /\ b.landing = s.cur.landing
<1> DEFINE t == Partition(s, r)
           b == [s.cur EXCEPT !.closed = TRUE]
           a == s.awaiting \cup {Len(s.brackets) + 1}
<1>1. Len(s.levels) = 1 /\ s.levels # <<>>
  OBVIOUS
<1>2. t = [s EXCEPT !.levels = <<>>, !.cur = NoWindow, !.brackets = Append(@, b), !.awaiting = a]
  BY <1>1 DEF Partition, Inside
<1>3. b.closed = TRUE /\ b.parked = s.cur.parked /\ b.landing = s.cur.landing
  BY DEF IsPart, IsWindow
<1> HIDE DEF t, a, b
<1>4. t.out = s.out /\ t.brackets = Append(s.brackets, b) /\ t.awaiting = a
  BY <1>2 DEF IsPart
<1> QED  BY <1>3, <1>4 DEF t, a

-----------------------------------------------------------------------------
(* What the records of one step of the hart do to the two readers, taken together. *)
LEMMA MainAlone ==
  ASSUME NEW i, NEW p, Closed(i, p), Outwith(i, p), NEW r, r.k = "R",
         NEW j, j = ScanAll(i, <<r>>), NEW q, q = PartAll(p, <<r>>)
  PROVE  /\ Closed(j, q) /\ Outwith(j, q) /\ j.brackets = i.brackets /\ j.nRefRetire = i.nRefRetire + 1
         /\ LandAt(q.brackets, p.brackets, p.awaiting, r.pc) /\ q.awaiting = {}
         /\ q.out = Append(p.out, r)
         /\ j.recs = i.recs /\ j.plants = i.plants
         /\ Forced(j) = Forced(i) \cup (IF r.op = "sc" /\ r.rdval # 0 THEN {i.nRefRetire} ELSE {})
<1>1. j = Scan(i, r) /\ q = Partition(p, r)
  BY ScanOne
<1>2. IsInj(i) /\ IsPart(p) /\ i.depth = 0 /\ p.levels = <<>> /\ i.nRefRetire \in Nat
  BY DEF Closed, Outwith
<1>3. Closed(j, q) /\ Outwith(j, q)
  BY <1>1, ReadRetire DEF Windows, SameState
<1>4. j.brackets = i.brackets /\ j.nRefRetire = i.nRefRetire + 1
  BY <1>1, <1>2, ScanRetireDoes
<1>5. /\ LandAt(q.brackets, p.brackets, p.awaiting, r.pc) /\ q.awaiting = {}
      /\ q.out = Append(p.out, r)
  BY <1>1, <1>2, PartRetire
<1>6. /\ j.recs = i.recs /\ j.plants = i.plants
      /\ Forced(j) = Forced(i) \cup (IF r.op = "sc" /\ r.rdval # 0 THEN {i.nRefRetire} ELSE {})
  <2> DEFINE u == Scan(i, r)
  <2>1. /\ u.recs = i.recs /\ u.plants = i.plants
        /\ Forced(u) = Forced(i) \cup (IF r.op = "sc" /\ i.depth = 0 /\ r.rdval # 0 THEN {i.nRefRetire} ELSE {})
    BY <1>2, ScriptRetire
  <2> HIDE DEF u
  <2>2. j = u
    BY <1>1 DEF u
  <2> QED  BY <1>2, <2>1, <2>2
<1> QED  BY <1>3, <1>4, <1>5, <1>6

(* A retire of the program with the memory record it leaves. *)
LEMMA MainMemory ==
  ASSUME NEW i, NEW p, Closed(i, p), Outwith(i, p), NEW r, r.k = "R", NEW m, Memory(m), ~Rewrites(m),
         NEW j, j = ScanAll(i, <<r, m>>), NEW q, q = PartAll(p, <<r, m>>)
  PROVE  /\ Closed(j, q) /\ Outwith(j, q) /\ j.brackets = i.brackets /\ j.nRefRetire = i.nRefRetire + 1
         /\ LandAt(q.brackets, p.brackets, p.awaiting, r.pc) /\ q.awaiting = {}
         /\ q.out = Append(Append(p.out, r), m)
         /\ j.recs = IF m.k = "L" /\ m.addr = Device THEN Append(i.recs, m.data) ELSE i.recs
         /\ j.plants = IF m.k = "L" /\ m.addr = Shared THEN Put(i.plants, i.nRefRetire, m.data) ELSE i.plants
         /\ Forced(j) = Forced(i) \cup (IF r.op = "sc" /\ r.rdval # 0 THEN {i.nRefRetire} ELSE {})
<1> DEFINE s == ScanAll(i, <<r>>)
           t == PartAll(p, <<r>>)
<1>1. j = Scan(s, m) /\ q = Partition(t, m)
  <2>1. s = Scan(i, r) /\ t = Partition(p, r)
    BY ScanOne
  <2>2. ScanAll(i, <<r, m>>) = Scan(Scan(i, r), m)
    BY ScanTwo
  <2>3. PartAll(p, <<r, m>>) = Partition(Partition(p, r), m)
    BY ScanTwo
  <2> HIDE DEF s, t
  <2> QED  BY <2>1, <2>2, <2>3
<1>2. /\ Closed(s, t) /\ Outwith(s, t) /\ s.brackets = i.brackets /\ s.nRefRetire = i.nRefRetire + 1
      /\ LandAt(t.brackets, p.brackets, p.awaiting, r.pc) /\ t.awaiting = {}
      /\ t.out = Append(p.out, r)
      /\ s.recs = i.recs /\ s.plants = i.plants
      /\ Forced(s) = Forced(i) \cup (IF r.op = "sc" /\ r.rdval # 0 THEN {i.nRefRetire} ELSE {})
  BY MainAlone
<1> HIDE DEF s, t
<1>3. /\ IsInj(s) /\ IsPart(t) /\ s.depth = 0 /\ t.levels = <<>> /\ m.k \in {"L", "S"}
      /\ i.nRefRetire \in Nat
  BY <1>2 DEF Closed, Outwith, Memory
<1>4. Closed(j, q) /\ Outwith(j, q)
  <2>1. m.k = "S" /\ m.addr = Slot => m.data \in PCs /\ ~s.scPend.open
    BY DEF Rewrites
  <2> QED  BY <1>1, <1>2, <1>3, <2>1, ReadMemory DEF Windows, SameState
<1>5. q.brackets = t.brackets /\ q.awaiting = t.awaiting /\ q.out = Append(t.out, m)
  <2> DEFINE v == Partition(t, m)
  <2>1. v.brackets = t.brackets /\ v.awaiting = t.awaiting /\ v.out = Append(t.out, m)
    BY <1>3, PartMemory
  <2>2. q = v
    BY <1>1
  <2> HIDE DEF v
  <2> QED  BY <2>1, <2>2
<1>6. CASE m.k = "S"
  <2>1. j = s
    BY <1>1, <1>3, <1>6, ScriptStore
  <2> QED  BY <1>2, <1>4, <1>5, <1>6, <2>1
<1>7. CASE m.k = "L"
  <2>1. /\ Forced(j) = Forced(s) /\ j.nRefRetire = s.nRefRetire
        /\ j.recs = (IF m.addr = Device THEN Append(s.recs, m.data) ELSE s.recs)
        /\ j.plants = (IF m.addr = Shared THEN Put(s.plants, s.nRefRetire - 1, m.data) ELSE s.plants)
    BY <1>1, <1>3, <1>7, ScriptLoad
  <2>2. j.brackets = s.brackets
    BY <1>1, <1>3, <1>7, ScanLoadDoes
  <2>3. s.nRefRetire - 1 = i.nRefRetire
    BY <1>2, <1>3
  <2> QED  BY <1>2, <1>4, <1>5, <1>7, <2>1, <2>2, <2>3
<1> QED  BY <1>3, <1>6, <1>7

(* What a handler's instruction leaves as it was. *)
Within(i, p, j, q) ==
  /\ Closed(j, q) /\ Awake(j, q) /\ j.brackets = i.brackets /\ SameScript(j, i)
  /\ j.cur.refIndex = i.cur.refIndex /\ j.cur.push = i.cur.push /\ j.cur.epc = i.cur.epc
  /\ q.brackets = p.brackets /\ q.awaiting = p.awaiting /\ q.out = p.out
  /\ SameOpen(q.cur, p.cur) /\ q.cur.kind = p.cur.kind /\ q.cur.adopted = p.cur.adopted
  /\ p.cur.ext => q.cur.ext

(* What the scan has after the retire r of a handler, and after the record m it leaves too.   *)
HandledAlone(i, p, r, j, q) ==
  /\ Within(i, p, j, q) /\ j.cur.stores = i.cur.stores
  /\ j.cur.regs = IF r.op \in Writers THEN <<r.rdval>> ELSE i.cur.regs
Handled(i, p, r, m, j, q) ==
  /\ Within(i, p, j, q)
  /\ j.cur.stores = IF m.k = "L" \/ (r.op = "sc" /\ r.rdval # 0) THEN i.cur.stores
                    ELSE Put(i.cur.stores, m.addr, m.data)
  /\ j.cur.regs = IF r.op \in Writers THEN <<r.rdval>> ELSE i.cur.regs

(* An instruction of a handler, alone and with its memory record. *)
LEMMA HandlerAlone ==
  ASSUME NEW i, NEW p, Closed(i, p), Awake(i, p), NEW r, r.k = "R",
         NEW j, j = ScanAll(i, <<r>>), NEW q, q = PartAll(p, <<r>>)
  PROVE  /\ HandledAlone(i, p, r, j, q)
         /\ j.scPend = (IF r.op = "sc"
                       THEN [open |-> TRUE, ref |-> j.nRefRetire - 1, depth |-> 1, rdval |-> r.rdval] ELSE NoSc)
<1>1. j = Scan(i, r) /\ q = Partition(p, r)
  BY ScanOne
<1>2. IsInj(i) /\ IsPart(p) /\ i.depth = 1 /\ p.levels # <<>> /\ i.nRefRetire \in Nat
  BY DEF Closed, Awake
<1>3. Closed(j, q) /\ Awake(j, q)
  BY <1>1, ReadRetire DEF Windows, SameState
<1>4. j.brackets = i.brackets /\ j.nRefRetire = i.nRefRetire /\ SameBracket(j.cur, i.cur)
  BY <1>1, <1>2, ScanRetireDoes
<1>5. /\ q.brackets = p.brackets /\ q.awaiting = p.awaiting /\ q.out = p.out
      /\ SameOpen(q.cur, p.cur) /\ q.cur.kind = p.cur.kind /\ q.cur.adopted = p.cur.adopted
      /\ p.cur.ext => q.cur.ext
  BY <1>1, <1>2, PartInside
<1>6. /\ j.recs = i.recs /\ j.plants = i.plants /\ Forced(j) = Forced(i)
      /\ j.cur.refIndex = i.cur.refIndex /\ j.cur.push = i.cur.push
      /\ j.cur.regs = (IF r.op \in Writers THEN <<r.rdval>> ELSE i.cur.regs)
      /\ j.scPend = (IF r.op = "sc"
                       THEN [open |-> TRUE, ref |-> j.nRefRetire - 1, depth |-> 1, rdval |-> r.rdval] ELSE NoSc)
  <2> DEFINE u == Scan(i, r)
  <2>1. /\ u.recs = i.recs /\ u.plants = i.plants
        /\ Forced(u) = Forced(i) \cup (IF r.op = "sc" /\ i.depth = 0 /\ r.rdval # 0 THEN {i.nRefRetire} ELSE {})
    BY <1>2, ScriptRetire
  <2>5. u.cur.refIndex = i.cur.refIndex /\ u.cur.push = i.cur.push
    BY <1>2, ScriptRetire
  <2>6. u.cur.regs = (IF i.depth > 0 /\ r.op \in Writers THEN <<r.rdval>> ELSE i.cur.regs)
    BY <1>2, ScriptRetire
  <2>7. u.scPend = IF r.op = "sc"
                   THEN [open |-> TRUE, ref |-> u.nRefRetire - 1, depth |-> i.depth, rdval |-> r.rdval] ELSE NoSc
    BY <1>2, ScriptRetire
  <2>2. j = u
    BY <1>1
  <2> HIDE DEF u
  <2>3. Forced(u) = Forced(i)
    BY <1>2, <2>1
  <2>4. u.cur.regs = (IF r.op \in Writers THEN <<r.rdval>> ELSE i.cur.regs)
    BY <1>2, <2>6
  <2> QED  BY <1>2, <2>1, <2>2, <2>3, <2>4, <2>5, <2>7
<1>7. Within(i, p, j, q) /\ j.cur.stores = i.cur.stores
  BY <1>3, <1>4, <1>5, <1>6 DEF Within, SameScript, SameBracket
<1> QED  BY <1>6, <1>7 DEF HandledAlone

LEMMA HandlerMemory ==
  ASSUME NEW i, NEW p, Closed(i, p), Awake(i, p), NEW r, r.k = "R", NEW m, Memory(m),
         Rewrites(m) => r.op # "sc" /\ m.data \in PCs,
         NEW j, j = ScanAll(i, <<r, m>>), NEW q, q = PartAll(p, <<r, m>>)
  PROVE  Handled(i, p, r, m, j, q)
<1> DEFINE s == ScanAll(i, <<r>>)
           t == PartAll(p, <<r>>)
<1>1. j = Scan(s, m) /\ q = Partition(t, m)
  <2>1. s = Scan(i, r) /\ t = Partition(p, r)
    BY ScanOne
  <2>2. ScanAll(i, <<r, m>>) = Scan(Scan(i, r), m)
    BY ScanTwo
  <2>3. PartAll(p, <<r, m>>) = Partition(Partition(p, r), m)
    BY ScanTwo
  <2> HIDE DEF s, t
  <2> QED  BY <2>1, <2>2, <2>3
<1>2. /\ Within(i, p, s, t) /\ s.cur.stores = i.cur.stores
      /\ s.cur.regs = (IF r.op \in Writers THEN <<r.rdval>> ELSE i.cur.regs)
      /\ s.scPend = (IF r.op = "sc"
                       THEN [open |-> TRUE, ref |-> s.nRefRetire - 1, depth |-> 1, rdval |-> r.rdval] ELSE NoSc)
  BY HandlerAlone DEF HandledAlone
<1> HIDE DEF s, t
<1>3. /\ Closed(s, t) /\ Awake(s, t) /\ IsInj(s) /\ IsPart(t) /\ s.depth = 1 /\ t.levels # <<>>
      /\ m.k \in {"L", "S"}
  BY <1>2 DEF Within, Closed, Awake, Memory
<1>4. Closed(j, q) /\ Awake(j, q)
  <2>1. m.k = "S" /\ m.addr = Slot => m.data \in PCs /\ ~s.scPend.open
    BY <1>2 DEF Rewrites, NoSc
  <2> QED  BY <1>1, <1>3, <2>1, ReadMemory DEF Windows, SameState
<1>5. /\ q.brackets = t.brackets /\ q.awaiting = t.awaiting /\ q.out = t.out
      /\ SameOpen(q.cur, t.cur) /\ q.cur.kind = t.cur.kind /\ q.cur.adopted = t.cur.adopted
      /\ t.cur.ext => q.cur.ext
  BY <1>1, <1>3, PartInside
<1>6. /\ j.brackets = s.brackets /\ SameScript(j, s) /\ j.cur.refIndex = s.cur.refIndex
      /\ j.cur.push = s.cur.push /\ j.cur.regs = s.cur.regs /\ j.cur.epc = s.cur.epc
      /\ j.cur.stores = IF m.k = "L" \/ (r.op = "sc" /\ r.rdval # 0) THEN s.cur.stores
                        ELSE Put(s.cur.stores, m.addr, m.data)
  <2>1. CASE m.k = "S"
    <3>1. SameScript(j, s) /\ j.cur.refIndex = s.cur.refIndex /\ j.cur.push = s.cur.push /\ j.cur.regs = s.cur.regs
      BY <1>1, <1>3, <2>1, ScriptStore
    <3>2. j.cur.stores = IF s.scPend.open /\ s.scPend.depth > 0 /\ s.scPend.rdval # 0
                         THEN s.cur.stores ELSE Put(s.cur.stores, m.addr, m.data)
      BY <1>1, <1>3, <2>1, ScriptStore
    <3>3. j.brackets = s.brackets
      BY <1>1, <1>3, <2>1, ScanStoreDoes
    <3>5. j.cur.epc = s.cur.epc
      BY <1>1, <1>3, <2>1, ScanStoreDoes
    <3>4. (s.scPend.open /\ s.scPend.depth > 0 /\ s.scPend.rdval # 0) <=> (r.op = "sc" /\ r.rdval # 0)
      BY <1>2 DEF NoSc
    <3> QED  BY <2>1, <3>1, <3>2, <3>3, <3>4, <3>5
  <2>2. CASE m.k = "L"
    <3>1. Forced(j) = Forced(s) /\ j.nRefRetire = s.nRefRetire /\ j.cur = s.cur /\ j.recs = s.recs /\ j.plants = s.plants
      BY <1>1, <1>3, <2>2, ScriptLoad
    <3>2. j.brackets = s.brackets
      BY <1>1, <1>3, <2>2, ScanLoadDoes
    <3> QED  BY <2>2, <3>1, <3>2 DEF SameScript
  <2> QED  BY <1>3, <2>1, <2>2
<1>7. Within(i, p, j, q)
  BY <1>2, <1>4, <1>5, <1>6 DEF Within, SameScript, SameOpen
<1> QED  BY <1>2, <1>6, <1>7 DEF Handled

(* What the two readers have after a park, a trap, a wake and an iret. *)
Parks(i, p, j, q) ==
  /\ Closed(j, q) /\ Asleep(j, q) /\ j.brackets = i.brackets /\ SameScript(j, i)
  /\ j.cur.refIndex = i.nRefRetire /\ j.cur.regs = <<>> /\ j.cur.push = NoPc /\ j.cur.stores = <<>>
  /\ q.brackets = p.brackets /\ q.awaiting = p.awaiting /\ q.out = p.out
  /\ q.cur.kind = "SLEEP" /\ SameOpen(q.cur, NoWindow) /\ q.cur.adopted = FALSE

LEMMA ParkDoes ==
  ASSUME NEW i, NEW p, Closed(i, p), Outwith(i, p), NEW e, e.k = "X", e.kind = "wfi_enter",
         NEW j, j = ScanAll(i, <<e>>), NEW q, q = PartAll(p, <<e>>)
  PROVE  Parks(i, p, j, q)
<1>1. j = Scan(i, e) /\ q = Partition(p, e)
  BY ScanOne
<1>2. IsInj(i) /\ IsPart(p) /\ i.depth = 0 /\ p.levels = <<>>
  BY DEF Closed, Outwith
<1>3. Closed(j, q) /\ Asleep(j, q)
  BY <1>1, ReadEnter
<1>4. j.brackets = i.brackets /\ j.cur.stores = <<>>
  <2> DEFINE u == Scan(i, e)
  <2>1. u.brackets = i.brackets /\ u.cur.stores = <<>>
    BY <1>2, ScanEnterDoes
  <2>2. j = u
    BY <1>1
  <2> HIDE DEF u
  <2> QED  BY <2>1, <2>2
<1>5. SameScript(j, i) /\ j.cur.refIndex = i.nRefRetire /\ j.cur.regs = <<>> /\ j.cur.push = NoPc
  BY <1>1, <1>2, ScriptEnter
<1>6. /\ q.brackets = p.brackets /\ q.awaiting = p.awaiting /\ q.out = p.out
      /\ q.cur.kind = "SLEEP" /\ SameOpen(q.cur, NoWindow) /\ q.cur.adopted = FALSE
  <2> DEFINE u == Partition(p, e)
  <2>1. /\ u.brackets = p.brackets /\ u.awaiting = p.awaiting /\ u.out = p.out
        /\ u.cur.kind = "SLEEP" /\ SameOpen(u.cur, NoWindow) /\ u.cur.adopted = FALSE
    BY <1>2, PartEnter
  <2>2. q = u
    BY <1>1
  <2> HIDE DEF u
  <2> QED  BY <2>1, <2>2
<1> QED  BY <1>3, <1>4, <1>5, <1>6 DEF Parks

LEMMA TrapDoes ==
  ASSUME NEW i, NEW p, Closed(i, p), Outwith(i, p), NEW t, t.k = "T",
         NEW j, j = ScanAll(i, <<t>>), NEW q, q = PartAll(p, <<t>>)
  PROVE  /\ Closed(j, q) /\ Awake(j, q) /\ j.brackets = i.brackets /\ SameScript(j, i)
         /\ j.cur.refIndex = i.nRefRetire /\ j.cur.regs = <<>> /\ j.cur.push = t.push /\ j.cur.stores = <<>>
         /\ j.cur.epc = t.epc
         /\ LandAt(q.brackets, p.brackets, p.awaiting, t.epc) /\ q.awaiting = {} /\ q.out = p.out
         /\ q.cur.kind = "TRAP" /\ SameOpen(q.cur, NoWindow)
<1>1. j = Scan(i, t) /\ q = Partition(p, t)
  BY ScanOne
<1>2. IsInj(i) /\ IsPart(p) /\ i.depth = 0 /\ p.levels = <<>>
  BY DEF Closed, Outwith
<1>3. Closed(j, q) /\ Awake(j, q)
  BY <1>1, ReadTrap
<1>4. j.brackets = i.brackets
  BY <1>1, <1>2, ScriptTrap
<1>5. /\ SameScript(j, i) /\ j.cur.refIndex = i.nRefRetire /\ j.cur.regs = <<>> /\ j.cur.push = t.push
      /\ j.cur.epc = t.epc /\ j.cur.stores = <<>>
  BY <1>1, <1>2, ScriptTrap
<1>6. /\ LandAt(q.brackets, p.brackets, p.awaiting, t.epc) /\ q.awaiting = {} /\ q.out = p.out
      /\ q.cur.kind = "TRAP" /\ SameOpen(q.cur, NoWindow)
  <2> DEFINE u == Partition(p, t)
  <2>1. /\ LandAt(u.brackets, p.brackets, p.awaiting, t.epc) /\ u.awaiting = {} /\ u.out = p.out
        /\ u.cur.kind = "TRAP" /\ SameOpen(u.cur, NoWindow)
    BY <1>2, PartTrap
  <2>2. q = u
    BY <1>1
  <2> HIDE DEF u
  <2> QED  BY <2>1, <2>2
<1> QED  BY <1>3, <1>4, <1>5, <1>6

LEMMA WakeDoes ==
  ASSUME NEW i, NEW p, Closed(i, p), Asleep(i, p), NEW r, r.k = "R", r.op = "park",
         NEW x, x.k = "X", x.kind = "wfi_wake", NEW t, t.k = "T",
         NEW j, j = ScanAll(i, <<r, x, t>>), NEW q, q = PartAll(p, <<r, x, t>>)
  PROVE  /\ Closed(j, q) /\ Awake(j, q) /\ j.brackets = i.brackets /\ SameScript(j, i)
         /\ j.cur.refIndex = i.cur.refIndex /\ j.cur.regs = i.cur.regs /\ j.cur.stores = i.cur.stores
         /\ j.cur.push = (IF i.cur.push = NoPc THEN t.push ELSE i.cur.push) /\ j.cur.epc = t.epc
         /\ q.brackets = p.brackets /\ q.awaiting = p.awaiting /\ q.out = p.out
         /\ q.cur.kind = p.cur.kind /\ SameOpen(q.cur, p.cur) /\ q.cur.ext
<1> DEFINE s == Scan(i, r)
           w == Partition(p, r)
<1>1. j = Scan(s, t) /\ q = Partition(w, t)
  <2>1. Scan(s, x) = s /\ Partition(w, x) = w
    BY ScanWakeDoes, PartitionWakeDoes
  <2>2. j = Scan(Scan(s, x), t) /\ q = Partition(Partition(w, x), t)
    BY ScanThree
  <2> HIDE DEF s, w
  <2> QED  BY <2>1, <2>2
<1>2. IsInj(i) /\ IsPart(p) /\ i.depth = 1 /\ p.levels # <<>> /\ i.nRefRetire \in Nat
  BY DEF Closed, Asleep
<1>3. Closed(s, w) /\ Asleep(s, w)
  BY ReadRetire DEF Windows, SameState
<1>4. /\ s.brackets = i.brackets /\ s.nRefRetire = i.nRefRetire /\ s.cur.stores = i.cur.stores
      /\ s.recs = i.recs /\ s.plants = i.plants /\ Forced(s) = Forced(i)
      /\ s.cur.refIndex = i.cur.refIndex /\ s.cur.push = i.cur.push /\ s.cur.regs = i.cur.regs
  <2>1. s.brackets = i.brackets /\ s.nRefRetire = i.nRefRetire /\ SameBracket(s.cur, i.cur)
    BY <1>2, ScanRetireDoes
  <2>2. s.recs = i.recs /\ s.plants = i.plants
    BY <1>2, ScriptRetire
  <2>3. Forced(s) = Forced(i) \cup (IF r.op = "sc" /\ i.depth = 0 /\ r.rdval # 0 THEN {i.nRefRetire} ELSE {})
    BY <1>2, ScriptRetire
  <2>4. s.cur.refIndex = i.cur.refIndex /\ s.cur.push = i.cur.push
    BY <1>2, ScriptRetire
  <2>5. s.cur.regs = IF i.depth > 0 /\ r.op \in Writers THEN <<r.rdval>> ELSE i.cur.regs
    BY <1>2, ScriptRetire
  <2>6. r.op \notin Writers /\ r.op # "sc"
    BY DEF Writers
  <2> HIDE DEF s
  <2> QED  BY <2>1, <2>2, <2>3, <2>4, <2>5, <2>6 DEF SameBracket
<1>5. /\ w.brackets = p.brackets /\ w.awaiting = p.awaiting /\ w.out = p.out
      /\ SameOpen(w.cur, p.cur) /\ w.cur.kind = p.cur.kind /\ w.cur.ext
  BY <1>2, PartInside
<1> HIDE DEF s, w
<1>6. /\ IsInj(s) /\ IsPart(w) /\ s.depth = 1 /\ s.cur.kind = "SLEEP" /\ ~s.cur.absorbed /\ w.levels = <<"S">>
  BY <1>3 DEF Closed, Asleep
<1>7. Closed(j, q) /\ Awake(j, q)
  BY <1>1, <1>3, ReadTrap
<1>8. j.brackets = s.brackets
  BY <1>1, <1>6, ScriptTrap
<1>9. /\ SameScript(j, s) /\ j.cur.refIndex = s.cur.refIndex /\ j.cur.regs = s.cur.regs
      /\ j.cur.epc = t.epc /\ j.cur.stores = s.cur.stores
  BY <1>1, <1>6, ScriptTrap
<1>10. j.cur.push = IF s.cur.push = NoPc THEN t.push ELSE s.cur.push
  BY <1>1, <1>6, ScriptTrap
<1>11. /\ q.brackets = w.brackets /\ q.awaiting = w.awaiting /\ q.out = w.out
       /\ q.cur.kind = w.cur.kind /\ SameOpen(q.cur, w.cur) /\ q.cur.ext = w.cur.ext
  BY <1>1, <1>6, PartTrap
<1>12. SameOpen(q.cur, p.cur) /\ SameScript(j, i)
  BY <1>4, <1>5, <1>9, <1>11 DEF SameOpen, SameScript
<1> QED  BY <1>4, <1>5, <1>7, <1>8, <1>9, <1>10, <1>11, <1>12

Returns(i, p, j, q) ==
  /\ Closed(j, q) /\ Outwith(j, q) /\ j.brackets = Append(i.brackets, i.cur) /\ SameScript(j, i)
  /\ q.out = p.out /\ q.awaiting = p.awaiting \cup {Len(p.brackets) + 1}
  /\ \E b : /\ q.brackets = Append(p.brackets, b)
            /\ b.closed = TRUE /\ b.parked = p.cur.parked /\ b.landing = p.cur.landing

LEMMA IretDoes ==
  ASSUME NEW i, NEW p, Closed(i, p), Awake(i, p), NEW e, e.k = "X", e.kind = "iret",
         NEW j, j = ScanAll(i, <<e>>), NEW q, q = PartAll(p, <<e>>)
  PROVE  Returns(i, p, j, q)
<1>1. j = Scan(i, e) /\ q = Partition(p, e)
  BY ScanOne
<1>2. IsInj(i) /\ IsPart(p) /\ i.depth = 1 /\ p.levels = <<"T">>
  BY DEF Closed, Awake
<1>3. Closed(j, q) /\ Outwith(j, q)
  BY <1>1, ReadIret
<1>4. j.brackets = Append(i.brackets, i.cur)
  BY <1>1, <1>2, ScanIretDoes
<1>5. SameScript(j, i)
  BY <1>1, <1>2, ScriptIret
<1>6. /\ q.out = p.out /\ q.awaiting = p.awaiting \cup {Len(p.brackets) + 1}
      /\ \E b : /\ q.brackets = Append(p.brackets, b)
                /\ b.closed = TRUE /\ b.parked = p.cur.parked /\ b.landing = p.cur.landing
  <2> DEFINE u == Partition(p, e)
  <2>1. /\ u.out = p.out /\ u.awaiting = p.awaiting \cup {Len(p.brackets) + 1}
        /\ \E b : /\ u.brackets = Append(p.brackets, b)
                  /\ b.closed = TRUE /\ b.parked = p.cur.parked /\ b.landing = p.cur.landing
    BY <1>2, PartIret
  <2>2. q = u
    BY <1>1
  <2> HIDE DEF u
  <2> QED  BY <2>1, <2>2
<1> QED  BY <1>3, <1>4, <1>5, <1>6 DEF Returns

-----------------------------------------------------------------------------
(* No two windows opened at one retire index. *)
Apart(i) ==
  /\ \A m, n \in DOMAIN i.brackets : i.brackets[m].refIndex = i.brackets[n].refIndex => m = n
  /\ i.depth # 0 => \A n \in DOMAIN i.brackets : i.brackets[n].refIndex # i.cur.refIndex

(* Where in the program the scan has each window. *)
Indexed(i) ==
  /\ \A n \in DOMAIN i.brackets : i.brackets[n].refIndex \in 0 .. i.nRefRetire
  /\ i.depth # 0 => i.cur.refIndex = i.nRefRetire
  /\ i.depth = 0 /\ ~due => \A n \in DOMAIN i.brackets : i.brackets[n].refIndex # i.nRefRetire
  /\ ~abut => Apart(i)
  /\ mode = "isr" => Resume(i.cur) = mem[Slot]
  /\ wfiArmed => i.cur.stores = <<>> /\ i.cur.push = NoPc /\ i.cur.regs = <<>>

(* What the partition has of each window: only those the hart has just left have not landed, *)
(* and two that opened at one index leave something the walk reports.                         *)
Structured(i, p) ==
  /\ i.depth # 0 => /\ p.cur.landing = NoPc /\ p.cur.parked = FALSE /\ p.cur.closed = FALSE
                    /\ p.cur.kind \in {"SLEEP", "TRAP"}
                    /\ p.cur.kind = "SLEEP" /\ p.cur.adopted => p.cur.ext
  /\ \A n \in DOMAIN p.brackets : /\ p.brackets[n].closed = TRUE /\ p.brackets[n].parked = FALSE
                                  /\ (n \in p.awaiting) <=> (p.brackets[n].landing = NoPc)
  /\ p.awaiting \subseteq DOMAIN p.brackets
  /\ p.awaiting # {} => due
  /\ i.depth = 0 /\ due => p.awaiting # {}
  /\ \A n \in p.awaiting : i.brackets[n].refIndex = i.nRefRetire
  /\ i.depth # 0 => \A n \in DOMAIN i.brackets :
       i.brackets[n].refIndex = i.cur.refIndex => p.cur.kind = "TRAP" \/ p.awaiting # {}

(* Where the window b of the partition p landed, or is about to. *)
Lands(p, n) == IF n \in p.awaiting THEN pc ELSE p.brackets[n].landing

(* Every window lands where it should, but for the one a fault resumed elsewhere. *)
Landing(i, p) == Apart(i) =>
  /\ fault # "resume" => \A n \in DOMAIN p.brackets : Lands(p, n) = Expected(p.brackets[n])
  /\ fault = "resume" => \E n \in DOMAIN p.brackets : Lands(p, n) # Expected(p.brackets[n])

(* All three of them. *)
Windowed(i, p) == Indexed(i) /\ Structured(i, p) /\ Landing(i, p)

(* The two readers have closed the same windows. *)
LEMMA SameDomain ==
  ASSUME NEW i, NEW p, Closed(i, p)
  PROVE  /\ DOMAIN i.brackets = DOMAIN p.brackets /\ DOMAIN i.brackets = 1 .. Len(i.brackets)
         /\ Len(p.brackets) = Len(i.brackets) /\ Len(i.brackets) \in Nat
         /\ \A n \in DOMAIN i.brackets : /\ IsWindow(p.brackets[n])
                                         /\ Resume(i.brackets[n]) = Expected(p.brackets[n])
<1>1. /\ IsSeq(i.brackets) /\ IsSeq(p.brackets) /\ Len(i.brackets) = Len(p.brackets)
  BY DEF Closed
<1>2. DOMAIN i.brackets = 1 .. Len(i.brackets) /\ DOMAIN p.brackets = 1 .. Len(p.brackets) /\ Len(i.brackets) \in Nat
  BY <1>1, SeqFacts
<1> QED  BY <1>1, <1>2 DEF Closed

(* Retiring one more. *)
LEMMA RetireWindows ==
  ASSUME NEW i, NEW p, NEW j, NEW q, Closed(i, p), Outwith(i, p), Outwith(j, q), Windowed(i, p),
         pc \in PCs, j.brackets = i.brackets, j.nRefRetire = i.nRefRetire + 1,
         LandAt(q.brackets, p.brackets, p.awaiting, pc), q.awaiting = {},
         due' = FALSE, abut' = abut, mode' = "run", wfiArmed' = FALSE, (fault = "resume") <=> (fault' = "resume")
  PROVE  Windowed(j, q)'
<1>1. DOMAIN i.brackets = DOMAIN p.brackets /\ i.nRefRetire \in Nat /\ i.depth = 0 /\ j.depth = 0
  BY SameDomain DEF Closed, Outwith
<1>2. DOMAIN q.brackets = DOMAIN p.brackets
  BY DEF LandAt
<1>3. ASSUME NEW n \in DOMAIN p.brackets
      PROVE  /\ q.brackets[n].closed = p.brackets[n].closed /\ q.brackets[n].parked = p.brackets[n].parked
             /\ Expected(q.brackets[n]) = Expected(p.brackets[n])
             /\ q.brackets[n].landing = Lands(p, n)
  <2>1. IsWindow(p.brackets[n])
    BY <1>1, <1>3, SameDomain
  <2> QED  BY <1>3, <2>1 DEF LandAt, SameRole, Lands
<1>4. Indexed(j)'
  <2>1. ASSUME NEW n \in DOMAIN i.brackets
        PROVE  i.brackets[n].refIndex \in 0 .. i.nRefRetire + 1 /\ i.brackets[n].refIndex # i.nRefRetire + 1
    <3>1. i.brackets[n].refIndex \in 0 .. i.nRefRetire
      BY <2>1 DEF Windowed, Indexed
    <3> QED  BY <1>1, <3>1
  <2>2. ~abut' => Apart(j)
    BY <1>1 DEF Windowed, Indexed, Apart
  <2> QED  BY <1>1, <2>1, <2>2 DEF Indexed, Apart
<1>5. Structured(j, q)'
  <2>1. ASSUME NEW n \in DOMAIN p.brackets PROVE q.brackets[n].landing # NoPc
    <3>1. (n \in p.awaiting) <=> (p.brackets[n].landing = NoPc)
      BY <2>1 DEF Windowed, Structured
    <3>2. pc # NoPc
      BY BoundsAssumption DEF PCs, NoPc
    <3> QED  BY <1>3, <2>1, <3>1, <3>2 DEF Lands
  <2>2. \A n \in DOMAIN p.brackets : p.brackets[n].closed = TRUE /\ p.brackets[n].parked = FALSE
    BY DEF Windowed, Structured
  <2> QED  BY <1>1, <1>2, <1>3, <2>1, <2>2 DEF Structured
<1>6. Landing(j, q)'
  <2>1. Apart(j) => Apart(i)
    BY <1>1 DEF Apart
  <2>2. \A n \in DOMAIN p.brackets : q.brackets[n].landing = Lands(p, n) /\ Expected(q.brackets[n]) = Expected(p.brackets[n])
    BY <1>3
  <2>3. \A n : Lands(q, n)' = q.brackets[n].landing
    BY DEF Lands
  <2> QED  BY <1>2, <2>1, <2>2, <2>3 DEF Landing, Windowed, Apart
<1> QED  BY <1>4, <1>5, <1>6 DEF Windowed

(* Going to sleep. *)
LEMMA ParkWindows ==
  ASSUME NEW i, NEW p, NEW j, NEW q, Closed(i, p), Outwith(i, p), Asleep(j, q), Windowed(i, p),
         j.brackets = i.brackets, j.nRefRetire = i.nRefRetire, j.cur.refIndex = i.nRefRetire,
         j.cur.stores = <<>>, j.cur.push = NoPc, j.cur.regs = <<>>,
         q.brackets = p.brackets, q.awaiting = p.awaiting,
         q.cur.kind = "SLEEP", SameOpen(q.cur, NoWindow), q.cur.adopted = FALSE,
         due' = due, abut' = (abut \/ due), mode' = "sleep", pc' = pc, fault' = fault
  PROVE  Windowed(j, q)'
<1>1. DOMAIN i.brackets = DOMAIN p.brackets /\ i.nRefRetire \in Nat /\ i.depth = 0 /\ j.depth = 1
  BY SameDomain DEF Closed, Outwith, Asleep
<1>2. q.cur.landing = NoPc /\ q.cur.parked = FALSE /\ q.cur.closed = FALSE
  BY DEF SameOpen, NoWindow
<1>3. ~due => \A n \in DOMAIN i.brackets : i.brackets[n].refIndex # i.nRefRetire
  BY <1>1 DEF Windowed, Indexed
<1>4. Indexed(j)'
  <2>1. ~abut' => Apart(j)
    BY <1>1, <1>3 DEF Windowed, Indexed, Apart
  <2> QED  BY <1>1, <2>1 DEF Windowed, Indexed, Apart
<1>5. Structured(j, q)'
  <2>1. \A n \in DOMAIN i.brackets : i.brackets[n].refIndex = i.nRefRetire => p.awaiting # {}
    BY <1>1, <1>3 DEF Windowed, Structured
  <2> QED  BY <1>1, <1>2, <2>1 DEF Windowed, Structured
<1>6. Landing(j, q)'
  <2>1. Apart(j) => Apart(i)
    BY <1>1 DEF Apart
  <2>2. \A n : Lands(q, n)' = Lands(p, n)
    BY DEF Lands
  <2> QED  BY <2>1, <2>2 DEF Landing, Windowed, Apart
<1> QED  BY <1>4, <1>5, <1>6 DEF Windowed

(* An interrupt between two instructions, or out of a sleep the handler of a park resumed. *)
LEMMA TrapWindows ==
  ASSUME NEW i, NEW p, NEW j, NEW q, Closed(i, p), Outwith(i, p), Awake(j, q), Windowed(i, p),
         pc # NoPc,
         j.brackets = i.brackets, j.nRefRetire = i.nRefRetire, j.cur.refIndex = i.nRefRetire,
         j.cur.stores = <<>>, j.cur.epc = pc,
         LandAt(q.brackets, p.brackets, p.awaiting, pc), q.awaiting = {},
         q.cur.kind = "TRAP", SameOpen(q.cur, NoWindow),
         due' = due, abut' = (abut \/ due), wfiArmed' = FALSE, pc' = pc, fault' = fault, mem'[Slot] = pc
  PROVE  Windowed(j, q)'
<1>1. DOMAIN i.brackets = DOMAIN p.brackets /\ i.nRefRetire \in Nat /\ i.depth = 0 /\ j.depth = 1
  BY SameDomain DEF Closed, Outwith, Awake
<1>2. q.cur.landing = NoPc /\ q.cur.parked = FALSE /\ q.cur.closed = FALSE
  BY DEF SameOpen, NoWindow
<1>3. ~due => \A n \in DOMAIN i.brackets : i.brackets[n].refIndex # i.nRefRetire
  BY <1>1 DEF Windowed, Indexed
<1>4. Indexed(j)'
  <2>1. ~abut' => Apart(j)
    BY <1>1, <1>3 DEF Windowed, Indexed, Apart
  <2>2. Resume(j.cur) = mem'[Slot]
    BY DEF Resume
  <2> QED  BY <1>1, <2>1, <2>2 DEF Windowed, Indexed, Apart, Resume
<1>7. DOMAIN q.brackets = DOMAIN p.brackets
  BY DEF LandAt
<1>8. ASSUME NEW n \in DOMAIN p.brackets
      PROVE  /\ q.brackets[n].closed = p.brackets[n].closed /\ q.brackets[n].parked = p.brackets[n].parked
             /\ Expected(q.brackets[n]) = Expected(p.brackets[n])
             /\ q.brackets[n].landing = Lands(p, n)
  <2>1. IsWindow(p.brackets[n])
    BY <1>1, <1>8, SameDomain
  <2> QED  BY <1>8, <2>1 DEF LandAt, SameRole, Lands
<1>5. Structured(j, q)'
  <2>1. ASSUME NEW n \in DOMAIN p.brackets PROVE q.brackets[n].landing # NoPc
    <3>1. (n \in p.awaiting) <=> (p.brackets[n].landing = NoPc)
      BY <2>1 DEF Windowed, Structured
    <3> QED  BY <1>8, <2>1, <3>1 DEF Lands
  <2>2. \A n \in DOMAIN p.brackets : p.brackets[n].closed = TRUE /\ p.brackets[n].parked = FALSE
    BY DEF Windowed, Structured
  <2> QED  BY <1>1, <1>2, <1>7, <1>8, <2>1, <2>2 DEF Structured
<1>6. Landing(j, q)'
  <2>1. Apart(j) => Apart(i)
    BY <1>1 DEF Apart
  <2>2. \A n \in DOMAIN p.brackets : q.brackets[n].landing = Lands(p, n) /\ Expected(q.brackets[n]) = Expected(p.brackets[n])
    BY <1>8
  <2>3. \A n : Lands(q, n)' = q.brackets[n].landing
    BY DEF Lands
  <2> QED  BY <1>7, <2>1, <2>2, <2>3 DEF Landing, Windowed, Apart
<1> QED  BY <1>4, <1>5, <1>6 DEF Windowed

(* A window that has not landed is at the index of the one that is open. *)
LEMMA NoneAwaits ==
  ASSUME NEW i, NEW p, Closed(i, p), Windowed(i, p), i.depth # 0, Apart(i)
  PROVE  p.awaiting = {}
<1>1. DOMAIN i.brackets = DOMAIN p.brackets
  BY SameDomain
<1> QED  BY <1>1 DEF Windowed, Indexed, Structured, Apart

(* A park is woken, and its sentinel taken. *)
LEMMA WakeWindows ==
  ASSUME NEW i, NEW p, NEW j, NEW q, Closed(i, p), Asleep(i, p), Awake(j, q), Windowed(i, p), wfiArmed,
         j.brackets = i.brackets, j.nRefRetire = i.nRefRetire, j.cur.refIndex = i.cur.refIndex,
         j.cur.stores = i.cur.stores, j.cur.epc = mem'[Slot],
         q.brackets = p.brackets, q.awaiting = p.awaiting, q.cur.kind = p.cur.kind, SameOpen(q.cur, p.cur),
         q.cur.ext, due' = due, abut' = (abut \/ due), wfiArmed' = FALSE, fault' = fault
  PROVE  Windowed(j, q)'
<1>1. DOMAIN i.brackets = DOMAIN p.brackets /\ i.nRefRetire \in Nat /\ i.depth = 1 /\ j.depth = 1
  BY SameDomain DEF Closed, Asleep, Awake
<1>2. q.cur.landing = NoPc /\ q.cur.parked = FALSE /\ q.cur.closed = FALSE
  BY <1>1 DEF SameOpen, Windowed, Structured
<1>3. j.cur.stores = <<>>
  BY DEF Windowed, Indexed
<1>4. Indexed(j)'
  <2>1. ~abut' => Apart(j)
    <3>1. ~abut' => ~abut /\ ~due
      OBVIOUS
    <3>2. ~abut => Apart(i)
      BY DEF Windowed, Indexed
    <3>3. Apart(i) => Apart(j)
      BY <1>1 DEF Apart
    <3> QED  BY ONLY <3>1, <3>2, <3>3
  <2>2. Resume(j.cur) = mem'[Slot]
    BY <1>3 DEF Resume
  <2> QED  BY <1>1, <2>1, <2>2 DEF Windowed, Indexed, Apart, Resume
<1>5. Structured(j, q)'
  BY <1>1, <1>2 DEF Windowed, Structured
<1>6. Landing(j, q)'
  <2>1. Apart(j) => Apart(i) /\ p.awaiting = {}
    BY <1>1, NoneAwaits DEF Apart
  <2>2. \A n : p.awaiting = {} => Lands(q, n)' = Lands(p, n)
    BY DEF Lands
  <2> QED  BY <2>1, <2>2 DEF Landing, Windowed, Apart
<1> QED  BY <1>4, <1>5, <1>6 DEF Windowed

(* An instruction of a handler. *)
LEMMA HandleWindows ==
  ASSUME NEW i, NEW p, NEW j, NEW q, Closed(i, p), Awake(i, p), Within(i, p, j, q), Windowed(i, p),
         Resume(j.cur) = mem'[Slot],
         due' = due, abut' = abut, wfiArmed' = FALSE, fault' = fault, pc' = pc
  PROVE  Windowed(j, q)'
<1>1. DOMAIN i.brackets = DOMAIN p.brackets /\ i.nRefRetire \in Nat /\ i.depth = 1 /\ j.depth = 1
  BY SameDomain DEF Closed, Awake, Within
<1>2. /\ q.cur.landing = NoPc /\ q.cur.parked = FALSE /\ q.cur.closed = FALSE
      /\ q.cur.kind = p.cur.kind /\ q.cur.adopted = p.cur.adopted /\ (p.cur.ext => q.cur.ext)
  BY <1>1 DEF SameOpen, Windowed, Structured, Within
<1>3. /\ j.brackets = i.brackets /\ j.nRefRetire = i.nRefRetire /\ j.cur.refIndex = i.cur.refIndex
      /\ q.brackets = p.brackets /\ q.awaiting = p.awaiting
  BY DEF Within, SameScript
<1>4. Indexed(j)'
  <2>1. ~abut' => Apart(j)
    BY <1>1, <1>3 DEF Windowed, Indexed, Apart
  <2> QED  BY <1>1, <1>3, <2>1 DEF Windowed, Indexed, Apart, Resume
<1>5. Structured(j, q)'
  BY <1>1, <1>2, <1>3 DEF Windowed, Structured
<1>6. Landing(j, q)'
  <2>1. Apart(j) => Apart(i)
    BY <1>1, <1>3 DEF Apart
  <2>2. \A n : Lands(q, n)' = Lands(p, n)
    BY <1>3 DEF Lands
  <2> QED  BY <1>3, <2>1, <2>2 DEF Landing, Windowed, Apart
<1> QED  BY <1>4, <1>5, <1>6 DEF Windowed

(* A handler returns, to the PC it pops or elsewhere. *)
LEMMA IretWindows ==
  ASSUME NEW i, NEW p, NEW j, NEW q, Closed(i, p), Awake(i, p), Closed(j, q), Outwith(j, q), Windowed(i, p),
         mode = "isr", mode' # "isr", wfiArmed' = FALSE, due' = TRUE, abut' = abut,
         \/ pc' = mem[Slot] /\ fault' = fault
         \/ pc' # mem[Slot] /\ fault # "resume" /\ fault' = "resume",
         j.brackets = Append(i.brackets, i.cur), j.nRefRetire = i.nRefRetire,
         q.awaiting = p.awaiting \cup {Len(p.brackets) + 1},
         NEW b, q.brackets = Append(p.brackets, b),
         b.closed = TRUE, b.parked = p.cur.parked, b.landing = p.cur.landing
  PROVE  Windowed(j, q)'
<1> DEFINE k == Len(i.brackets) + 1
<1>1. /\ DOMAIN i.brackets = DOMAIN p.brackets /\ i.nRefRetire \in Nat /\ i.depth = 1 /\ j.depth = 0
      /\ Len(i.brackets) \in Nat /\ Len(p.brackets) = Len(i.brackets) /\ DOMAIN i.brackets = 1 .. Len(i.brackets)
  BY SameDomain DEF Closed, Awake, Outwith
<1>2. IsSeq(i.brackets) /\ IsSeq(p.brackets) /\ Len(i.brackets) = Len(p.brackets)
  BY DEF Closed
<1>3. /\ \A n \in DOMAIN i.brackets : j.brackets[n] = i.brackets[n] /\ q.brackets[n] = p.brackets[n]
      /\ j.brackets[k] = i.cur /\ q.brackets[k] = b
      /\ DOMAIN q.brackets = DOMAIN j.brackets
      /\ DOMAIN j.brackets = 1 .. k
  <2>1. /\ \A n \in DOMAIN i.brackets : j.brackets[n] = i.brackets[n]
        /\ j.brackets[k] = i.cur /\ DOMAIN j.brackets = 1 .. k
    <3>1. IsSeq(j.brackets) /\ Len(j.brackets) = k
      BY <1>2, SeqFacts
    <3> QED  BY <1>1, <1>2, <3>1, SeqFacts
  <2>2. /\ \A n \in DOMAIN i.brackets : q.brackets[n] = p.brackets[n]
        /\ q.brackets[k] = b
    BY <1>1, <1>2, SeqFacts
  <2>3. DOMAIN q.brackets = DOMAIN j.brackets
    BY SameDomain
  <2> QED  BY <2>1, <2>2, <2>3
<1>4. DOMAIN j.brackets = DOMAIN i.brackets \cup {k} /\ k \notin DOMAIN i.brackets
  BY <1>1, <1>3
<1>5. q.awaiting = p.awaiting \cup {k} /\ p.awaiting \subseteq DOMAIN i.brackets
  BY <1>1 DEF Windowed, Structured
<1>6. i.cur.refIndex = i.nRefRetire /\ b.landing = NoPc /\ b.parked = FALSE
  BY <1>1 DEF Windowed, Indexed, Structured
<1>7. Apart(j) => Apart(i)
  BY <1>1, <1>3, <1>4 DEF Apart
<1>8. Apart(i) => Apart(j)
  BY <1>1, <1>3, <1>4 DEF Apart
<1>9. Resume(i.cur) = mem[Slot] /\ Resume(i.cur) = Expected(b)
  <2>1. Resume(j.brackets[k]) = Expected(q.brackets[k])
    BY <1>4, SameDomain
  <2> QED  BY <1>3, <2>1 DEF Windowed, Indexed
<1> HIDE DEF k
<1>10. Indexed(j)'
  <2>1. ~abut' => Apart(j)
    BY <1>8 DEF Windowed, Indexed
  <2>2. ASSUME NEW n \in DOMAIN j.brackets PROVE j.brackets[n].refIndex \in 0 .. j.nRefRetire
    <3>1. CASE n = k
      BY <1>1, <1>3, <1>6, <3>1
    <3>2. CASE n # k
      BY <1>3, <1>4, <2>2, <3>2 DEF Windowed, Indexed
    <3> QED  BY <3>1, <3>2
  <2> QED  BY <1>1, <2>1, <2>2 DEF Indexed, Apart
<1>11. Structured(j, q)'
  <2>1. ASSUME NEW n \in DOMAIN q.brackets
        PROVE  /\ q.brackets[n].closed = TRUE /\ q.brackets[n].parked = FALSE
               /\ (n \in q.awaiting) <=> (q.brackets[n].landing = NoPc)
    <3>1. CASE n = k
      BY <1>3, <1>5, <1>6, <3>1
    <3>2. CASE n # k
      <4>1. n \in DOMAIN p.brackets /\ q.brackets[n] = p.brackets[n]
        BY <1>1, <1>3, <1>4, <2>1, <3>2
      <4>2. (n \in q.awaiting) <=> (n \in p.awaiting)
        BY <1>5, <3>2
      <4> QED  BY <4>1, <4>2 DEF Windowed, Structured
    <3> QED  BY <3>1, <3>2
  <2>2. \A n \in q.awaiting : j.brackets[n].refIndex = j.nRefRetire
    BY <1>3, <1>5, <1>6 DEF Windowed, Structured
  <2>3. q.awaiting \subseteq DOMAIN q.brackets /\ q.awaiting # {}
    BY <1>3, <1>4, <1>5
  <2> QED  BY <1>1, <2>1, <2>2, <2>3 DEF Structured
<1>12. Landing(j, q)'
  <2>1. SUFFICES ASSUME Apart(j)
                 PROVE  /\ fault' # "resume" => \A n \in DOMAIN q.brackets : Lands(q, n)' = Expected(q.brackets[n])
                        /\ fault' = "resume" => \E n \in DOMAIN q.brackets : Lands(q, n)' # Expected(q.brackets[n])
    BY DEF Landing, Apart, Expected
  <2>2. Apart(i) /\ p.awaiting = {}
    BY <1>1, <1>7, <2>1, NoneAwaits
  <2>3. Lands(q, k)' = pc' /\ Expected(q.brackets[k]) = mem[Slot]
    BY <1>3, <1>5, <1>9 DEF Lands
  <2>4. \A n \in DOMAIN p.brackets : /\ Lands(q, n)' = Lands(p, n)
                                     /\ Expected(q.brackets[n]) = Expected(p.brackets[n])
    BY <1>1, <1>3, <1>4, <1>5, <2>2 DEF Lands
  <2>5. DOMAIN q.brackets = DOMAIN p.brackets \cup {k}
    BY <1>1, <1>3, <1>4
  <2>6. CASE pc' = mem[Slot] /\ fault' = fault
    BY <2>2, <2>3, <2>4, <2>5, <2>6 DEF Windowed, Landing
  <2>7. CASE pc' # mem[Slot] /\ fault' = "resume"
    BY <2>3, <2>5, <2>7
  <2> QED  BY <2>6, <2>7
<1> QED  BY <1>10, <1>11, <1>12 DEF Windowed

-----------------------------------------------------------------------------
(* The walk's lines: kept[q] is where the q-th line of the compared stream s is, the ghosts   *)
(* of failed sc.w left out.                                                                   *)
Kept(s, kept, m) ==
  /\ \A q \in 1 .. m : kept[q] \in DOMAIN s /\ ~Ghost(s, kept[q])
  /\ \A q, r \in 1 .. m : q < r => kept[q] < kept[r]
  /\ \A x \in DOMAIN s : ~Ghost(s, x) => \E q \in 1 .. m : kept[q] = x

(* The record at line q of the walk. *)
Line(s, kept, q) == s[kept[q]]

(* The lines stay as the stream goes from s to t. *)
SameLines(s, kept, t, line, m) == \A q \in 1 .. m : Line(t, line, q) = Line(s, kept, q)

(* Of an append, only the record appended can be a ghost that was none. *)
LEMMA GhostKept ==
  ASSUME NEW s, IsSeq(s), NEW r
  PROVE  /\ \A x \in DOMAIN s : (Ghost(Append(s, r), x) <=> Ghost(s, x))
         /\ Ghost(Append(s, r), Len(s) + 1) <=>
              (/\ Len(s) > 0 /\ r.k = "S" /\ s[Len(s)].k = "R" /\ s[Len(s)].op = "sc" /\ s[Len(s)].rdval # 0)
<1> DEFINE a == Append(s, r)
           n == Len(s)
<1>1. n \in Nat /\ DOMAIN s = 1 .. n /\ (\A x \in 1 .. n : a[x] = s[x]) /\ a[n + 1] = r
  BY SeqFacts
<1> HIDE DEF a, n
<1>2. ASSUME NEW x \in DOMAIN s PROVE (Ghost(a, x) <=> Ghost(s, x))
  <2>1. a[x] = s[x] /\ (x > 1 => a[x - 1] = s[x - 1])
    BY <1>1, <1>2
  <2> QED  BY <2>1 DEF Ghost
<1>3. Ghost(a, n + 1) <=> (n > 0 /\ r.k = "S" /\ s[n].k = "R" /\ s[n].op = "sc" /\ s[n].rdval # 0)
  <2>1. n > 0 => a[n] = s[n]
    BY <1>1
  <2>2. ((n + 1) > 1) <=> (n > 0)
    BY <1>1
  <2>3. (n + 1) - 1 = n
    BY <1>1
  <2> QED  BY <1>1, <2>1, <2>2, <2>3 DEF Ghost
<1> QED  BY <1>2, <1>3 DEF a, n

(* A ghost is no line; any other record is the next one. *)
LEMMA KeptGhost ==
  ASSUME NEW s, IsSeq(s), NEW m \in Nat, NEW kept, Kept(s, kept, m), NEW r, Ghost(Append(s, r), Len(s) + 1)
  PROVE  Kept(Append(s, r), kept, m) /\ SameLines(s, kept, Append(s, r), kept, m)
<1> DEFINE a == Append(s, r)
           n == Len(s)
<1>1. n \in Nat /\ DOMAIN s = 1 .. n /\ (\A x \in 1 .. n : a[x] = s[x]) /\ DOMAIN a = 1 .. n + 1
  <2>1. IsSeq(a) /\ Len(a) = n + 1
    BY SeqFacts
  <2> QED  BY <2>1, SeqFacts
<1>2. (\A x \in DOMAIN s : (Ghost(a, x) <=> Ghost(s, x))) /\ Ghost(a, n + 1)
  BY GhostKept
<1> HIDE DEF a, n
<1>3. DOMAIN a = DOMAIN s \cup {n + 1}
  BY <1>1
<1>4. Kept(a, kept, m)
  BY <1>2, <1>3 DEF Kept
<1>5. SameLines(s, kept, a, kept, m)
  BY <1>1 DEF Kept, SameLines, Line
<1> QED  BY <1>4, <1>5 DEF a

LEMMA KeptOne ==
  ASSUME NEW s, IsSeq(s), NEW m \in Nat, NEW kept, Kept(s, kept, m), NEW r, ~Ghost(Append(s, r), Len(s) + 1)
  PROVE  \E line : /\ Kept(Append(s, r), line, m + 1) /\ SameLines(s, kept, Append(s, r), line, m)
                   /\ Line(Append(s, r), line, m + 1) = r
<1> DEFINE a == Append(s, r)
           n == Len(s)
           line == [q \in 1 .. m + 1 |-> IF q = m + 1 THEN n + 1 ELSE kept[q]]
<1>1. n \in Nat /\ DOMAIN s = 1 .. n /\ (\A x \in 1 .. n : a[x] = s[x]) /\ DOMAIN a = 1 .. n + 1 /\ a[n + 1] = r
  <2>1. IsSeq(a) /\ Len(a) = n + 1
    BY SeqFacts
  <2> QED  BY <2>1, SeqFacts
<1>2. (\A x \in DOMAIN s : (Ghost(a, x) <=> Ghost(s, x))) /\ ~Ghost(a, n + 1)
  BY GhostKept
<1>3. /\ \A q \in 1 .. m : line[q] = kept[q] /\ q \in 1 .. m + 1
      /\ line[m + 1] = n + 1 /\ m + 1 \in 1 .. m + 1
      /\ \A q \in 1 .. m + 1 : q = m + 1 \/ q \in 1 .. m
  OBVIOUS
<1> HIDE DEF a, n, line
<1>4. \A q \in 1 .. m + 1 : line[q] \in DOMAIN a /\ ~Ghost(a, line[q])
  <2>1. DOMAIN s \subseteq DOMAIN a /\ n + 1 \in DOMAIN a
    BY ONLY <1>1
  <2>2. \A q \in 1 .. m : kept[q] \in DOMAIN s /\ ~Ghost(s, kept[q])
    BY DEF Kept
  <2> QED  BY ONLY <1>2, <1>3, <2>1, <2>2
<1>5. ASSUME NEW q \in 1 .. m + 1, NEW x \in 1 .. m + 1, q < x PROVE line[q] < line[x]
  <2>1. q \in 1 .. m
    BY <1>5
  <2>2. line[q] = kept[q] /\ kept[q] \in 1 .. n
    BY <1>1, <1>3, <2>1 DEF Kept
  <2>3. CASE x = m + 1
    BY <1>1, <1>3, <2>2, <2>3
  <2>4. CASE x \in 1 .. m
    BY <1>3, <1>5, <2>1, <2>4 DEF Kept
  <2> QED  BY <1>3, <2>3, <2>4
<1>6. ASSUME NEW x \in DOMAIN a, ~Ghost(a, x) PROVE \E q \in 1 .. m + 1 : line[q] = x
  <2>1. CASE x = n + 1
    BY <1>3, <2>1
  <2>2. CASE x # n + 1
    <3>1. x \in DOMAIN s /\ ~Ghost(s, x)
      BY <1>1, <1>2, <1>6, <2>2
    <3>2. PICK q \in 1 .. m : kept[q] = x
      BY <3>1 DEF Kept
    <3> QED  BY <1>3, <3>2
  <2> QED  BY <2>1, <2>2
<1>7. Kept(a, line, m + 1)
  BY <1>4, <1>5, <1>6 DEF Kept
<1>8. SameLines(s, kept, a, line, m) /\ Line(a, line, m + 1) = r
  BY <1>1, <1>3 DEF Kept, SameLines, Line
<1> QED  BY <1>7, <1>8 DEF a

(* A retire alone, with its memory record, and with a ghost after it. *)
LEMMA StreamAlone ==
  ASSUME NEW s, IsSeq(s), NEW m \in Nat, NEW kept, Kept(s, kept, m), NEW r, r.k = "R"
  PROVE  \E line : /\ Kept(Append(s, r), line, m + 1) /\ SameLines(s, kept, Append(s, r), line, m)
                   /\ Line(Append(s, r), line, m + 1) = r
<1>1. ~Ghost(Append(s, r), Len(s) + 1)
  BY GhostKept
<1> QED  BY <1>1, KeptOne

LEMMA StreamMemory ==
  ASSUME NEW s, IsSeq(s), NEW m \in Nat, NEW kept, Kept(s, kept, m), NEW r, r.k = "R", NEW w,
         ~(w.k = "S" /\ r.op = "sc" /\ r.rdval # 0)
  PROVE  LET t == Append(Append(s, r), w)
         IN  \E line : /\ Kept(t, line, m + 2) /\ SameLines(s, kept, t, line, m)
                       /\ Line(t, line, m + 1) = r /\ Line(t, line, m + 2) = w
<1> DEFINE a == Append(s, r)
           t == Append(a, w)
<1>1. PICK line : Kept(a, line, m + 1) /\ SameLines(s, kept, a, line, m) /\ Line(a, line, m + 1) = r
  BY StreamAlone
<1>2. IsSeq(a) /\ Len(a) = Len(s) + 1 /\ a[Len(s) + 1] = r
  BY SeqFacts
<1> HIDE DEF a
<1>3. ~Ghost(t, Len(a) + 1)
  <2>1. a[Len(a)] = r
    BY <1>2
  <2>2. Ghost(t, Len(a) + 1) => w.k = "S" /\ a[Len(a)].op = "sc" /\ a[Len(a)].rdval # 0
    BY <1>2, GhostKept
  <2> QED  BY <2>1, <2>2
<1>4. PICK next : Kept(t, next, (m + 1) + 1) /\ SameLines(a, line, t, next, m + 1) /\ Line(t, next, (m + 1) + 1) = w
  <2> DEFINE k == m + 1
  <2>1. k \in Nat
    OBVIOUS
  <2> HIDE DEF k
  <2>2. Kept(a, line, k)
    BY <1>1 DEF k
  <2>3. \E next : Kept(t, next, k + 1) /\ SameLines(a, line, t, next, k) /\ Line(t, next, k + 1) = w
    BY <1>2, <1>3, <2>1, <2>2, KeptOne
  <2> QED  BY <2>3 DEF k
<1>5. (m + 1) + 1 = m + 2 /\ m + 1 \in 1 .. m + 1 /\ \A q \in 1 .. m : q \in 1 .. m + 1
  OBVIOUS
<1> HIDE DEF t
<1>6. /\ Kept(t, next, m + 2) /\ Line(t, next, m + 2) = w
      /\ SameLines(s, kept, t, next, m) /\ Line(t, next, m + 1) = r
  BY <1>1, <1>4, <1>5 DEF SameLines
<1> QED  BY <1>6 DEF t, a

LEMMA StreamGhost ==
  ASSUME NEW s, IsSeq(s), NEW m \in Nat, NEW kept, Kept(s, kept, m), NEW r, r.k = "R", NEW w,
         w.k = "S", r.op = "sc", r.rdval # 0
  PROVE  LET t == Append(Append(s, r), w)
         IN  \E line : /\ Kept(t, line, m + 1) /\ SameLines(s, kept, t, line, m) /\ Line(t, line, m + 1) = r
<1> DEFINE a == Append(s, r)
           t == Append(a, w)
<1>1. PICK line : Kept(a, line, m + 1) /\ SameLines(s, kept, a, line, m) /\ Line(a, line, m + 1) = r
  BY StreamAlone
<1>2. IsSeq(a) /\ Len(a) = Len(s) + 1 /\ a[Len(s) + 1] = r /\ Len(s) \in Nat
  BY SeqFacts
<1> HIDE DEF a
<1>3. Ghost(t, Len(a) + 1)
  <2>1. a[Len(a)] = r /\ Len(a) > 0
    BY <1>2
  <2> QED  BY <1>2, <2>1, GhostKept
<1>4. Kept(t, line, m + 1) /\ SameLines(a, line, t, line, m + 1)
  BY <1>1, <1>2, <1>3, KeptGhost
<1>5. m + 1 \in 1 .. m + 1 /\ \A q \in 1 .. m : q \in 1 .. m + 1
  OBVIOUS
<1> HIDE DEF t
<1>6. SameLines(s, kept, t, line, m) /\ Line(t, line, m + 1) = r
  BY <1>1, <1>4, <1>5 DEF SameLines
<1> QED  BY <1>4, <1>6 DEF t, a

-----------------------------------------------------------------------------
(* What the hart holds outside the program: of its memory, LOCAL and the stacked PC.          *)
Hart == [pc |-> pc, reg |-> reg, local |-> mem[Local], slot |-> mem[Slot]]

(* No window at the index: the hart holds what its last retire left. *)
Unmoved(x, y) == y.pc = x.pc /\ y.reg = x.reg /\ y.local = x.local /\ y.slot = x.slot

(* What the window w makes of the state x. *)
Left(w, x, y) ==
  /\ y.reg = IF w.regs # <<>> THEN w.regs[1] ELSE x.reg
  /\ y.local = IF Local \in DOMAIN w.stores THEN w.stores[Local] ELSE x.local
  /\ y.slot = IF Slot \in DOMAIN w.stores THEN w.stores[Slot]
              ELSE IF w.push = NoPc THEN x.slot ELSE w.push

(* y is what the hart held before its retire j, when x is what the one before left. *)
Follows(i, j, x, y) ==
  \/ (\A n \in DOMAIN i.brackets : i.brackets[n].refIndex # j) /\ Unmoved(x, y)
  \/ \E n \in DOMAIN i.brackets : /\ i.brackets[n].refIndex = j
                                  /\ Left(i.brackets[n], x, y) /\ y.pc = Resume(i.brackets[n])

(* The faults of an instruction. *)
Wrong == {"value", "store", "lost"}

(* What retire j did and the lines it left, the first of them x.to; y.ok is whether the hart  *)
(* did what the program says.                                                                 *)
Effect(i, s, kept, j, x, y, z) ==
  \/ /\ y.op = "load" /\ z.reg = (IF y.ok THEN y.local ELSE 1 - y.local)
     /\ z.to = x.to + 2 /\ Line(s, kept, x.to + 1).k = "L" /\ Line(s, kept, x.to + 1).addr = Local
  \/ /\ y.op = "store" /\ z.reg = y.reg /\ z.local = (IF y.ok THEN y.reg ELSE 1 - y.reg)
     /\ z.to = x.to + 2 /\ Line(s, kept, x.to + 1) = S(Local, z.local)
  \/ /\ y.op = "mmio" /\ y.ok /\ x.next \in DOMAIN i.recs /\ z.reg = i.recs[x.next]
     /\ z.to = x.to + 2 /\ Line(s, kept, x.to + 1).k = "L" /\ Line(s, kept, x.to + 1).addr = Device
  \/ /\ y.op = "shared" /\ y.ok /\ j \in DOMAIN i.plants /\ z.reg = i.plants[j]
     /\ z.to = x.to + 2 /\ Line(s, kept, x.to + 1).k = "L" /\ Line(s, kept, x.to + 1).addr = Shared
  \/ /\ y.op = "sc" /\ y.ok /\ j \notin Forced(i) /\ z.reg = 0
     /\ z.to = x.to + 2 /\ Line(s, kept, x.to + 1) = S(Shared, y.reg)
  \/ /\ y.op = "sc" /\ y.ok /\ j \in Forced(i) /\ z.reg = 1 /\ z.to = x.to + 1
  \/ /\ y.op = "sc" /\ ~y.ok /\ j \notin Forced(i) /\ z.reg = 0 /\ z.to = x.to + 1 /\ fault = "lost"
     /\ j + 1 = i.nRefRetire => s[Len(s)] = Line(s, kept, x.to)

(* Retire j, its own line included, took the hart from y to z. *)
Retired(i, s, kept, j, x, y, z) ==
  /\ y.pc \in PCs /\ code[y.pc] = y.op /\ y.op \in Ops \ {"park"}
  /\ z.pc = y.pc + 1 /\ z.slot = y.slot
  /\ Line(s, kept, x.to) = R(y.pc, y.op, IF y.op \in Writers THEN z.reg ELSE 0)
  /\ z.next = (IF y.op = "mmio" THEN x.next + 1 ELSE x.next)
  /\ y.op # "store" => z.local = y.local
  /\ Effect(i, s, kept, j, x, y, z)

(* The register, the memory, and the counts of lines and replay records are what they         *)
(* should be.                                                                                 *)
Typed(x) == x.reg \in Values /\ x.local \in Values
Placed(x) == Typed(x) /\ x.to \in Nat \ {0} /\ x.next \in Nat \ {0}

(* One retire of the history: what led to it, and what it did. *)
Reached(i, s, kept, j, x, y, z) ==
  /\ Typed(y) /\ y.ok \in BOOLEAN /\ (y.ok \/ fault \in Wrong)
  /\ Follows(i, j, x, y) /\ Retired(i, s, kept, j, x, y, z)

(* Before the first: the reset state, the first replay record, the first line. *)
Start == [pc |-> 0, reg |-> 0, local |-> 0, slot |-> 0, next |-> 1, to |-> 1]

(* The hart's run through the program, windows aside: what it held before each of its n       *)
(* retires and after it, and the lines of the walk up to the last.                            *)
Past(n, i, s, after, before, kept) ==
  /\ after[0] = Start
  /\ \A j \in 0 .. n : Placed(after[j]) /\ after[j].to <= after[n].to
  /\ \A j \in 0 .. n - 1 : Reached(i, s, kept, j, after[j], before[j], after[j + 1])
  /\ Kept(s, kept, after[n].to - 1)
  /\ IsSeq(i.recs) /\ after[n].next = Len(i.recs) + 1
  /\ fault \in Wrong => \E j \in 0 .. n - 1 : ~before[j].ok

(* What it holds now. *)
Present(i, x) ==
  IF i.depth = 0 THEN Follows(i, i.nRefRetire, x, Hart) ELSE Left(i.cur, x, Hart)

(* A step to the scan k and the stream t leaves what was said of the first n retires, whose   *)
(* lines are the first m.                                                                     *)
Prolongs(n, m, i, s, kept, k, t, line) ==
  /\ SameLines(s, kept, t, line, m)
  /\ \A a \in PCs : code[a] \in Ops \ {"park"} => code'[a] = code[a]
  /\ fault \in Wrong => fault' = fault
  /\ \A a \in DOMAIN i.recs : a \in DOMAIN k.recs /\ k.recs[a] = i.recs[a]
  /\ \A j \in 0 .. n - 1 : /\ j \in DOMAIN i.plants => j \in DOMAIN k.plants /\ k.plants[j] = i.plants[j]
                           /\ (j \in Forced(i)) <=> (j \in Forced(k))
  /\ \A j \in 0 .. n - 1 : j + 1 = k.nRefRetire => k.nRefRetire = i.nRefRetire /\ t = s
  /\ \A j \in 0 .. n - 1 : \A x, y : Follows(i, j, x, y) => Follows(k, j, x, y)

(* A retire of the history is one still after a step that prolongs it. *)
LEMMA ReachedKept ==
  ASSUME NEW n \in Nat, NEW m \in Nat, NEW i, NEW s, NEW kept, NEW k, NEW t, NEW line,
         Prolongs(n, m, i, s, kept, k, t, line),
         NEW j \in 0 .. n - 1, NEW x, NEW y, NEW z, Reached(i, s, kept, j, x, y, z),
         Placed(x), Placed(z), z.to <= m + 1
  PROVE  Reached(k, t, line, j, x, y, z)'
<1>1. x.to \in Nat /\ z.to \in Nat /\ x.to > 0 /\ z.to \in {x.to + 1, x.to + 2}
  BY DEF Placed, Reached, Retired, Effect
<1>2. Line(t, line, x.to) = Line(s, kept, x.to)
  <2>1. x.to \in 1 .. m
    BY <1>1
  <2> QED  BY <2>1 DEF Prolongs, SameLines
<1>3. z.to = x.to + 2 => Line(t, line, x.to + 1) = Line(s, kept, x.to + 1)
  <2>1. z.to = x.to + 2 => x.to + 1 \in 1 .. m
    BY <1>1
  <2> QED  BY <2>1 DEF Prolongs, SameLines
<1>4. code'[y.pc] = y.op
  BY DEF Prolongs, Reached, Retired
<1>5. Follows(k, j, x, y)
  BY DEF Prolongs, Reached
<1>6. y.ok \/ fault' \in Wrong
  BY DEF Prolongs, Reached, Wrong
<1>7. Effect(k, t, line, j, x, y, z)'
  <2> USE DEF Effect
  <2>1. CASE y.op = "load"
    BY <1>3, <2>1 DEF Reached, Retired
  <2>2. CASE y.op = "store"
    BY <1>3, <2>2 DEF Reached, Retired
  <2>3. CASE y.op = "mmio"
    BY <1>3, <2>3 DEF Reached, Retired, Prolongs
  <2>4. CASE y.op = "shared"
    BY <1>3, <2>4 DEF Reached, Retired, Prolongs
  <2>5. CASE y.op = "sc" /\ z.to = x.to + 2
    <3>1. y.ok /\ j \notin Forced(i) /\ z.reg = 0 /\ Line(s, kept, x.to + 1) = S(Shared, y.reg)
      BY <1>1, <2>5 DEF Reached, Retired
    <3>2. j \notin Forced(k)
      BY <3>1 DEF Prolongs
    <3> QED  BY <1>3, <2>5, <3>1, <3>2
  <2>6. CASE y.op = "sc" /\ z.to = x.to + 1
    <3>1. \/ y.ok /\ j \in Forced(i) /\ z.reg = 1
          \/ /\ ~y.ok /\ j \notin Forced(i) /\ z.reg = 0 /\ fault = "lost"
             /\ j + 1 = i.nRefRetire => s[Len(s)] = Line(s, kept, x.to)
      BY <1>1, <2>6 DEF Reached, Retired
    <3>2. (j \in Forced(i)) <=> (j \in Forced(k))
      BY DEF Prolongs
    <3>3. fault = "lost" => fault' = "lost"
      BY DEF Prolongs, Wrong
    <3>4. j + 1 = k.nRefRetire => k.nRefRetire = i.nRefRetire /\ t = s
      BY DEF Prolongs
    <3> QED  BY <1>2, <2>6, <3>1, <3>2, <3>3, <3>4
  <2> QED  BY <1>1, <2>1, <2>2, <2>3, <2>4, <2>5, <2>6 DEF Reached, Retired
<1>8. Retired(k, t, line, j, x, y, z)'
  BY <1>2, <1>4, <1>7 DEF Reached, Retired
<1> QED  BY <1>5, <1>6, <1>8 DEF Reached, Follows, Unmoved, Left, Typed, Resume

(* A step that retires nothing. *)
LEMMA PastKept ==
  ASSUME NEW n \in Nat, NEW i, NEW s, NEW after, NEW before, NEW kept, Past(n, i, s, after, before, kept),
         NEW k, NEW t, Prolongs(n, after[n].to - 1, i, s, kept, k, t, kept), t = s, k.recs = i.recs,
         fault' \in Wrong => fault \in Wrong
  PROVE  Past(n, k, t, after, before, kept)'
<1> DEFINE m == after[n].to - 1
<1>1. m \in Nat /\ m + 1 = after[n].to
  <2>1. Placed(after[n])
    BY DEF Past
  <2> QED  BY <2>1 DEF Placed
<1>2. ASSUME NEW j \in 0 .. n - 1 PROVE Reached(k, t, kept, j, after[j], before[j], after[j + 1])'
  <2>1. j \in 0 .. n /\ j + 1 \in 0 .. n
    BY <1>2
  <2>2. /\ Reached(i, s, kept, j, after[j], before[j], after[j + 1])
        /\ Placed(after[j]) /\ Placed(after[j + 1]) /\ after[j + 1].to <= after[n].to
    BY <2>1, <1>2 DEF Past
  <2> DEFINE x == after[j]
             y == before[j]
             z == after[j + 1]
  <2>3. Reached(i, s, kept, j, x, y, z) /\ Placed(x) /\ Placed(z) /\ z.to <= m + 1
    BY <1>1, <2>2
  <2>4. Prolongs(n, m, i, s, kept, k, t, kept)
    OBVIOUS
  <2> HIDE DEF m, x, y, z
  <2>5. Reached(k, t, kept, j, x, y, z)'
    BY <1>1, <1>2, <2>3, <2>4, ReachedKept
  <2> QED  BY <2>5 DEF x, y, z
<1> QED  BY <1>2 DEF Past, Placed, Typed, Kept

(* One retire more: y and z are before and after it, and m and e number the lines then.       *)
Grows(n, i, s, after, before, kept, m, k, t, line, x, y, z, e) ==
  /\ n \in Nat /\ Past(n, i, s, after, before, kept) /\ Prolongs(n, m, i, s, kept, k, t, line)
  /\ Reached(k, t, line, n, x, y, z)' /\ Placed(z) /\ Kept(t, line, e)
  /\ x = after[n] /\ m \in Nat /\ m + 1 = after[n].to /\ x.to <= z.to
  /\ e \in Nat /\ e + 1 = z.to /\ IsSeq(k.recs) /\ z.next = Len(k.recs) + 1
  /\ fault' \in Wrong => fault \in Wrong \/ ~y.ok

(* The history of n retires and one retire more are a history. *)
LEMMA PastGrows ==
  ASSUME NEW n, NEW i, NEW s, NEW after, NEW before, NEW kept, NEW m, NEW k, NEW t, NEW line,
         NEW x, NEW y, NEW z, NEW e, Grows(n, i, s, after, before, kept, m, k, t, line, x, y, z, e)
  PROVE  \E later, sooner : later[n + 1] = z /\ Past(n + 1, k, t, later, sooner, line)'
<1>a. /\ n \in Nat /\ Past(n, i, s, after, before, kept) /\ Prolongs(n, m, i, s, kept, k, t, line)
      /\ Reached(k, t, line, n, x, y, z)' /\ Placed(z) /\ Kept(t, line, e)
  BY DEF Grows
<1>b. /\ x = after[n] /\ m \in Nat /\ m + 1 = after[n].to /\ x.to <= z.to
      /\ e \in Nat /\ e + 1 = z.to /\ IsSeq(k.recs) /\ z.next = Len(k.recs) + 1
  BY DEF Grows
<1>c. fault' \in Wrong => fault \in Wrong \/ ~y.ok
  BY DEF Grows
<1> USE <1>a, <1>b, <1>c
<1> DEFINE later == [j \in 0 .. n + 1 |-> IF j = n + 1 THEN z ELSE after[j]]
           sooner == [j \in 0 .. n |-> IF j = n THEN y ELSE before[j]]
<1>0. n + 1 \in Nat /\ (n + 1) - 1 = n /\ n \in 0 .. n /\ n + 1 \in 0 .. n + 1
  OBVIOUS
<1>1. m \in Nat /\ m + 1 = after[n].to /\ Placed(after[n]) /\ after[n].to \in Nat
  <2>1. Placed(after[n])
    BY <1>0 DEF Past
  <2> QED  BY <2>1 DEF Placed
<1>2. /\ later[n + 1] = z /\ \A j \in 0 .. n : later[j] = after[j] /\ j # n + 1
      /\ sooner[n] = y /\ \A j \in 0 .. n - 1 : sooner[j] = before[j] /\ j \in 0 .. n
  OBVIOUS
<1>3. ASSUME NEW j \in 0 .. n - 1 PROVE Reached(k, t, line, j, later[j], sooner[j], later[j + 1])'
  <2>1. j \in 0 .. n /\ j + 1 \in 0 .. n
    BY <1>3
  <2>2. /\ Reached(i, s, kept, j, after[j], before[j], after[j + 1])
        /\ Placed(after[j]) /\ Placed(after[j + 1]) /\ after[j + 1].to <= after[n].to
    BY <2>1, <1>3 DEF Past
  <2> DEFINE a == after[j]
             b == before[j]
             c == after[j + 1]
  <2>3. Reached(i, s, kept, j, a, b, c) /\ Placed(a) /\ Placed(c) /\ c.to <= m + 1
    BY <1>1, <2>2
  <2>4. Prolongs(n, m, i, s, kept, k, t, line)
    OBVIOUS
  <2>5. later[j] = a /\ sooner[j] = b /\ later[j + 1] = c
    BY <1>2, <1>3, <2>1
  <2> HIDE DEF a, b, c, later, sooner
  <2>6. Reached(k, t, line, j, a, b, c)'
    BY <1>1, <1>3, <2>3, <2>4, ReachedKept
  <2> QED  BY <2>5, <2>6
<1>4. Reached(k, t, line, n, later[n], sooner[n], later[n + 1])'
  <2>1. later[n] = after[n]
    BY <1>0, <1>2
  <2> HIDE DEF later, sooner
  <2> QED  BY <1>2, <2>1
<1>5. \A j \in 0 .. n + 1 : Placed(later[j]) /\ later[j].to <= later[n + 1].to
  <2> SUFFICES ASSUME NEW j \in 0 .. n + 1 PROVE Placed(later[j]) /\ later[j].to <= z.to
    BY <1>2
  <2>1. CASE j = n + 1
    BY <1>2, <2>1 DEF Placed
  <2>2. CASE j \in 0 .. n
    <3>1. Placed(after[j]) /\ after[j].to <= after[n].to
      BY <2>2 DEF Past
    <3>2. after[j].to \in Nat /\ z.to \in Nat
      BY <3>1 DEF Placed
    <3>3. \A a, b, c \in Nat : a <= b /\ b <= c => a <= c
      OBVIOUS
    <3>4. later[j] = after[j]
      BY <1>2, <2>2
    <3> HIDE DEF later
    <3> QED  BY <1>1, <3>1, <3>2, <3>3, <3>4
  <2> QED  BY <2>1, <2>2
<1>6. fault' \in Wrong => \E j \in 0 .. n : ~sooner[j].ok
  <2>1. CASE ~y.ok
    BY <1>0, <1>2, <2>1
  <2>2. CASE fault \in Wrong
    <3>1. PICK j \in 0 .. n - 1 : ~before[j].ok
      BY <2>2 DEF Past
    <3>2. sooner[j] = before[j] /\ j \in 0 .. n
      BY <1>2
    <3> HIDE DEF sooner
    <3> QED  BY <3>1, <3>2
  <2> QED  BY <2>1, <2>2
<1>7. later[0] = Start
  BY <1>2 DEF Past
<1> HIDE DEF later, sooner
<1>8. ASSUME NEW j \in 0 .. n PROVE Reached(k, t, line, j, later[j], sooner[j], later[j + 1])'
  <2>1. j = n \/ j \in 0 .. n - 1
    OBVIOUS
  <2> QED  BY <1>3, <1>4, <2>1
<1>9. Past(n + 1, k, t, later, sooner, line)'
  <2>1. z.to - 1 = e /\ later[n + 1] = z
    BY <1>2
  <2> DEFINE f == z.to - 1
  <2>9. f = e
    BY <2>1
  <2> HIDE DEF f
  <2>0. Kept(t, line, f)'
    BY <2>9 DEF Kept
  <2>2. Kept(t, line, z.to - 1)'
    BY <2>0 DEF f
  <2>3. Kept(t, line, later[n + 1].to - 1)'
    BY <2>1, <2>2
  <2>4. (\A j \in 0 .. n + 1 : Placed(later[j]) /\ later[j].to <= later[n + 1].to)'
    BY <1>5 DEF Placed, Typed
  <2>5. (n + 1) - 1 = n
    BY <1>0
  <2> DEFINE o == (n + 1) - 1
  <2>6. o = n
    BY <2>5
  <2> HIDE DEF o
  <2>7. /\ (\A j \in 0 .. o : Reached(k, t, line, j, later[j], sooner[j], later[j + 1]))'
        /\ (fault \in Wrong => \E j \in 0 .. o : ~sooner[j].ok)'
    BY <1>6, <1>8, <2>6
  <2>8. (IsSeq(k.recs) /\ later[n + 1].next = Len(k.recs) + 1)'
    BY <1>2
  <2> USE DEF o
  <2> QED  BY <1>7, <2>3, <2>4, <2>7, <2>8 DEF Past
<1> QED  BY <1>2, <1>9

(* The instruction at the hart's PC, whatever it is: before it the scan i, the stream s and   *)
(* the history, after it j, t, line and z.                                                    *)
AtRest(n, i, s, after, before, kept) ==
  /\ HartTyped /\ n \in Nat /\ i.nRefRetire = n
  /\ Past(n, i, s, after, before, kept) /\ Follows(i, n, after[n], Hart)
  /\ \A b \in DOMAIN i.brackets : i.brackets[b].refIndex \in 0 .. n
  /\ Forced(i) \subseteq 0 .. n - 1
RetiresAs(op) ==
  /\ pc \in PCs /\ DOMAIN code = PCs /\ op \in Ops \ {"park"}
  /\ code[pc] \in {"any", op} /\ code' = [code EXCEPT ![pc] = op]
  /\ fault' = fault \/ (fault = "none" /\ fault' \in Wrong)
  /\ pc' = pc + 1 /\ reg' \in Values /\ mem'[Local] \in Values /\ mem'[Slot] = mem[Slot]
  /\ op # "store" => mem'[Local] = mem[Local]
ScanRetired(n, i, op, j, A) ==
  /\ j.brackets = i.brackets /\ j.nRefRetire = n + 1 /\ j.depth = 0
  /\ j.recs = (IF op = "mmio" THEN Append(i.recs, reg') ELSE i.recs)
  /\ j.plants = i.plants \/ \E v : j.plants = Put(i.plants, n, v)
  /\ Forced(j) = Forced(i) \cup A /\ A \subseteq {n}
StreamRetired(n, s, after, kept, op, t, line, y, z) ==
  /\ z.to \in {after[n].to + 1, after[n].to + 2}
  /\ Kept(t, line, z.to - 1) /\ SameLines(s, kept, t, line, after[n].to - 1)
  /\ Line(t, line, after[n].to) = R(pc, op, IF op \in Writers THEN reg' ELSE 0)
  /\ y.pc = pc /\ y.reg = reg /\ y.local = mem[Local] /\ y.slot = mem[Slot] /\ y.op = op
  /\ y.ok = (fault' = fault)
  /\ z.pc = pc + 1 /\ z.reg = reg' /\ z.local = mem'[Local] /\ z.slot = mem[Slot]
  /\ z.next = (IF op = "mmio" THEN after[n].next + 1 ELSE after[n].next)
Retiring(n, i, s, after, before, kept, op, j, A, t, line, y, z) ==
  /\ AtRest(n, i, s, after, before, kept) /\ RetiresAs(op) /\ ScanRetired(n, i, op, j, A)
  /\ StreamRetired(n, s, after, kept, op, t, line, y, z) /\ Effect(j, t, line, n, after[n], y, z)'

(* A retire of the program prolongs the history by itself. *)
LEMMA Retirement ==
  ASSUME NEW n, NEW i, NEW s, NEW after, NEW before, NEW kept, NEW op, NEW j, NEW A, NEW t, NEW line,
         NEW y, NEW z, Retiring(n, i, s, after, before, kept, op, j, A, t, line, y, z)
  PROVE  \E later, sooner : Past(n + 1, j, t, later, sooner, line)' /\ Present(j, later[n + 1])'
<1>a. AtRest(n, i, s, after, before, kept) /\ Effect(j, t, line, n, after[n], y, z)'
  BY DEF Retiring
<1>b. RetiresAs(op)
  BY DEF Retiring
<1>c. ScanRetired(n, i, op, j, A)
  BY DEF Retiring
<1>d. StreamRetired(n, s, after, kept, op, t, line, y, z)
  BY DEF Retiring
<1> USE <1>a, <1>b, <1>c, <1>d DEF AtRest, RetiresAs, ScanRetired, StreamRetired
<1>1. Placed(after[n]) /\ after[n].to \in Nat /\ after[n].next \in Nat /\ after[n].to > 0
  <2>1. n \in 0 .. n
    OBVIOUS
  <2> QED  BY <2>1 DEF Past, Placed
<1>2. Placed(z) /\ after[n].to <= z.to
  <2>1. z.to \in Nat \ {0} /\ after[n].to <= z.to
    BY <1>1
  <2>2. z.next \in Nat \ {0}
    BY <1>1 DEF Placed
  <2> QED  BY <2>1, <2>2 DEF Placed, Typed
<1>3. IsSeq(i.recs) /\ after[n].next = Len(i.recs) + 1
  BY DEF Past
<1>4. IsSeq(j.recs) /\ z.next = Len(j.recs) + 1 /\ \A a \in DOMAIN i.recs : a \in DOMAIN j.recs /\ j.recs[a] = i.recs[a]
  <2>1. CASE op = "mmio"
    <3> DEFINE v == reg'
    <3>1. j.recs = Append(i.recs, v) /\ z.next = after[n].next + 1
      BY <2>1
    <3> HIDE DEF v
    <3>2. /\ IsSeq(j.recs) /\ Len(j.recs) = Len(i.recs) + 1 /\ Len(i.recs) \in Nat
          /\ DOMAIN i.recs = 1 .. Len(i.recs)
          /\ \A a \in 1 .. Len(i.recs) : j.recs[a] = i.recs[a]
      BY <1>3, <3>1, SeqFacts
    <3>3. DOMAIN j.recs = 1 .. Len(j.recs)
      BY <3>2, SeqFacts
    <3> QED  BY <1>3, <3>1, <3>2, <3>3
  <2>2. CASE op # "mmio"
    BY <1>3, <2>2
  <2> QED  BY <2>1, <2>2
<1>5. \A a \in PCs : code[a] \in Ops \ {"park"} => code'[a] = code[a]
  BY BoundsAssumption
<1>6. /\ fault \in Wrong => fault' = fault
      /\ fault' \in Wrong => fault \in Wrong \/ ~y.ok
      /\ y.ok \in BOOLEAN /\ (y.ok \/ fault' \in Wrong)
  BY DEF Wrong
<1>7. ASSUME NEW a \in 0 .. n - 1
      PROVE  /\ a \in DOMAIN i.plants => a \in DOMAIN j.plants /\ j.plants[a] = i.plants[a]
             /\ (a \in Forced(i)) <=> (a \in Forced(j))
             /\ a + 1 # n + 1
  <2>1. a # n /\ a + 1 # n + 1
    OBVIOUS
  <2>2. a \in DOMAIN i.plants => a \in DOMAIN j.plants /\ j.plants[a] = i.plants[a]
    <3>1. CASE j.plants = i.plants
      BY <3>1
    <3>2. CASE \E v : j.plants = Put(i.plants, n, v)
      <4>1. PICK v : j.plants = Put(i.plants, n, v)
        BY <3>2
      <4> DEFINE f == Put(i.plants, n, v)
      <4>2. a \in DOMAIN i.plants => a \in DOMAIN f /\ f[a] = i.plants[a]
        BY <2>1 DEF Put
      <4> HIDE DEF f
      <4>3. j.plants = f
        BY <4>1 DEF f
      <4> QED  BY <4>2, <4>3
    <3> QED  BY <3>1, <3>2
  <2>3. (a \in Forced(i)) <=> (a \in Forced(j))
    BY <2>1
  <2> QED  BY <2>1, <2>2, <2>3
<1>8. Prolongs(n, after[n].to - 1, i, s, kept, j, t, line)
  <2>1. \A x, w, a : Follows(i, a, x, w) => Follows(j, a, x, w)
    BY DEF Follows
  <2> QED  BY <1>4, <1>5, <1>6, <1>7, <2>1 DEF Prolongs
<1>9. Reached(j, t, line, n, after[n], y, z)'
  <2>1. Typed(y)
    BY DEF HartTyped, Typed
  <2>2. Follows(j, n, after[n], y)
    <3>1. Hart.pc = pc /\ Hart.reg = reg /\ Hart.local = mem[Local] /\ Hart.slot = mem[Slot]
      BY DEF Hart
    <3> DEFINE H == Hart
    <3>2. Follows(i, n, after[n], H)
      OBVIOUS
    <3>3. H.pc = y.pc /\ H.reg = y.reg /\ H.local = y.local /\ H.slot = y.slot
      BY <3>1
    <3>4. j.brackets = i.brackets
      OBVIOUS
    <3> HIDE DEF H
    <3>5. Follows(i, n, after[n], y)
      BY ONLY <3>2, <3>3 DEF Follows, Unmoved, Left
    <3> QED  BY ONLY <3>4, <3>5 DEF Follows
  <2>4. Follows(j, n, after[n], y)'
    BY <2>2 DEF Follows, Unmoved, Left, Resume
  <2>3. Retired(j, t, line, n, after[n], y, z)'
    <3>1. y.pc \in PCs /\ code'[y.pc] = y.op /\ y.op \in Ops \ {"park"}
      BY Zenon
    <3>2. z.pc = y.pc + 1 /\ z.slot = y.slot /\ (y.op # "store" => z.local = y.local)
      OBVIOUS
    <3>3. Line(t, line, after[n].to) = R(y.pc, y.op, IF y.op \in Writers THEN z.reg ELSE 0)
      OBVIOUS
    <3>4. z.next = (IF y.op = "mmio" THEN after[n].next + 1 ELSE after[n].next)
      OBVIOUS
    <3> QED  BY <3>1, <3>2, <3>3, <3>4 DEF Retired
  <2> QED  BY <1>6, <2>1, <2>3, <2>4 DEF Reached, Typed
<1>10. \E later, sooner : later[n + 1] = z /\ Past(n + 1, j, t, later, sooner, line)'
  <2> DEFINE d == after[n].to - 1
             e == z.to - 1
             x == after[n]
  <2>1. d \in Nat /\ d + 1 = after[n].to /\ e \in Nat /\ e + 1 = z.to
    BY <1>1, <1>2 DEF Placed
  <2>2. x = after[n] /\ x.to <= z.to /\ IsSeq(j.recs) /\ z.next = Len(j.recs) + 1
    BY <1>2, <1>4
  <2>4. Past(n, i, s, after, before, kept) /\ Prolongs(n, d, i, s, kept, j, t, line)
    BY <1>8
  <2>5. Reached(j, t, line, n, x, y, z)' /\ Placed(z) /\ Kept(t, line, e)
    BY <1>9, <1>2
  <2>6. fault' \in Wrong => fault \in Wrong \/ ~y.ok
    BY <1>6
  <2> HIDE DEF d, e, x
  <2>7. Grows(n, i, s, after, before, kept, d, j, t, line, x, y, z, e)
    BY <2>1, <2>2, <2>4, <2>5, <2>6 DEF Grows
  <2> QED  BY ONLY <2>7, PastGrows
<1>11. PICK later, sooner : later[n + 1] = z /\ Past(n + 1, j, t, later, sooner, line)'
  BY <1>10
<1>12. Present(j, later[n + 1])'
  <2>1. \A b \in DOMAIN j.brackets : j.brackets[b].refIndex # n + 1
    <3> SUFFICES ASSUME NEW b \in DOMAIN i.brackets PROVE i.brackets[b].refIndex # n + 1
      OBVIOUS
    <3>1. i.brackets[b].refIndex \in 0 .. n
      OBVIOUS
    <3> QED  BY <3>1
  <2>2. Unmoved(z, Hart)'
    BY DEF Unmoved, Hart
  <2> QED  BY <1>11, <2>1, <2>2 DEF Present, Follows
<1> QED  BY <1>11, <1>12

-----------------------------------------------------------------------------
(* What an instruction of the program may do, right or wrong, and the records of its memory.  *)
Does(op, ok, m) ==
  \/ op = "load" /\ reg' = (IF ok THEN mem[Local] ELSE 1 - mem[Local]) /\ m = <<L(Local, mem[Local])>>
  \/ op = "store" /\ reg' = reg /\ mem'[Local] = (IF ok THEN reg ELSE 1 - reg) /\ m = <<S(Local, mem'[Local])>>
  \/ op = "mmio" /\ ok /\ m = <<L(Device, reg')>>
  \/ op = "shared" /\ ok /\ m = <<L(Shared, reg')>>
  \/ op = "sc" /\ ok /\ reg' = 0 /\ m = <<S(Shared, reg)>>
  \/ op = "sc" /\ ok /\ reg' = 1 /\ (m = <<>> \/ m = <<S(Shared, reg)>>)
  \/ op = "sc" /\ ~ok /\ reg' = 0 /\ m = <<>> /\ fault' = "lost"

(* An outcome is what a right instruction does, a broken one what a wrong one does. *)
LEMMA OutcomeDoes ==
  ASSUME NEW op \in Ops \ {"park"}, NEW o \in Outcomes(op), reg' = o.reg, mem'[Local] = o.local
  PROVE  Does(op, TRUE, o.m) /\ (op # "store" => o.local = mem[Local])
<1>1. op \in {"load", "store", "mmio", "shared", "sc"}
  BY BoundsAssumption
<1>2. CASE op = "load"
  BY <1>2 DEF Outcomes, Does
<1>3. CASE op = "store"
  BY <1>3 DEF Outcomes, Does
<1>4. CASE op = "mmio"
  BY <1>4 DEF Outcomes, Does
<1>5. CASE op = "shared"
  BY <1>5 DEF Outcomes, Does
<1>6. CASE op = "sc"
  BY <1>6 DEF Outcomes, Does
<1> QED  BY <1>1, <1>2, <1>3, <1>4, <1>5, <1>6

LEMMA BrokenDoes ==
  ASSUME HartTyped, NEW op \in Ops \ {"park"}, NEW x \in Broken(op), reg' = x[2].reg, mem'[Local] = x[2].local,
         fault' = x[1]
  PROVE  Does(op, FALSE, x[2].m) /\ (op # "store" => x[2].local = mem[Local]) /\ x[1] \in Wrong
<1> DEFINE keep == [reg |-> reg, local |-> mem[Local], m |-> <<>>]
<1> DEFINE wrong == [load  |-> <<"value", [keep EXCEPT !.reg = 1 - mem[Local], !.m = <<L(Local, mem[Local])>>]>>,
                     store |-> <<"store", [keep EXCEPT !.local = 1 - reg, !.m = <<S(Local, 1 - reg)>>]>>,
                     sc    |-> <<"lost", [keep EXCEPT !.reg = 0]>>]
<1>1. op \in DOMAIN wrong /\ x = wrong[op]
  BY DEF Broken
<1>2. op \in {"load", "store", "sc"}
  BY <1>1
<1>3. CASE op = "load"
  BY <1>1, <1>3 DEF Does, Wrong
<1>4. CASE op = "store"
  BY <1>1, <1>4 DEF Does, Wrong
<1>5. CASE op = "sc"
  BY <1>1, <1>5 DEF Does, Wrong
<1> QED  BY <1>2, <1>3, <1>4, <1>5

(* A retire of the program is an instruction at the PC, its records the retire and its        *)
(* memory record.                                                                             *)
LEMMA RetireIs ==
  ASSUME HartTyped, DOMAIN code = PCs, Retire
  PROVE  \E op, m : /\ RetiresAs(op) /\ Does(op, fault' = fault, m)
                    /\ records' = <<R(pc, op, IF op \in Writers THEN reg' ELSE 0)>> \o m
<1>1. PICK op \in Ops \ {"park"} :
        /\ code[pc] \in {"any", op} /\ code' = [code EXCEPT ![pc] = op]
        /\ \E x \in {<<fault, o>> : o \in Outcomes(op)} \cup (IF fault = "none" THEN Broken(op) ELSE {}) :
             /\ fault' = x[1] /\ reg' = x[2].reg /\ mem' = [mem EXCEPT ![Local] = x[2].local]
             /\ records' = <<R(pc, op, RdVal(op, x[2]))>> \o x[2].m
  BY DEF Retire
<1>2. PICK x \in {<<fault, o>> : o \in Outcomes(op)} \cup (IF fault = "none" THEN Broken(op) ELSE {}) :
        /\ fault' = x[1] /\ reg' = x[2].reg /\ mem' = [mem EXCEPT ![Local] = x[2].local]
        /\ records' = <<R(pc, op, RdVal(op, x[2]))>> \o x[2].m
  BY <1>1
<1>3. DOMAIN mem = {Local, Slot} /\ pc \in PCs /\ pc' = pc + 1
  BY DEF HartTyped, Retire
<1> DEFINE v == x[2].local
           o == x[2]
<1>4. mem'[Local] = v /\ mem'[Slot] = mem[Slot]
  <2>1. mem' = [mem EXCEPT ![Local] = v]
    BY <1>2
  <2> HIDE DEF v
  <2> QED  BY <1>3, <2>1, MemoryPut DEF Local, Slot
<1>5. CASE x \in {<<fault, w>> : w \in Outcomes(op)}
  <2>1. o \in Outcomes(op) /\ fault' = fault
    BY <1>2, <1>5
  <2>2. reg' = o.reg /\ mem'[Local] = o.local /\ records' = <<R(pc, op, RdVal(op, o))>> \o o.m
    BY <1>2, <1>4
  <2> HIDE DEF o
  <2>3. Does(op, TRUE, o.m) /\ (op # "store" => o.local = mem[Local])
    BY <2>1, <2>2, OutcomeDoes
  <2>4. reg' \in Values /\ mem'[Local] \in Values
    BY <2>1, <2>2, OutcomesTyped
  <2>5. RetiresAs(op)
    BY <1>1, <1>3, <1>4, <2>1, <2>2, <2>3, <2>4 DEF RetiresAs
  <2>6. Does(op, fault' = fault, o.m)
    BY <2>1, <2>3 DEF Does
  <2> QED  BY <2>2, <2>5, <2>6 DEF RdVal
<1>6. CASE fault = "none" /\ x \in Broken(op)
  <2>1. Does(op, FALSE, o.m) /\ (op # "store" => o.local = mem[Local]) /\ fault' \in Wrong
    BY <1>2, <1>4, <1>6, BrokenDoes
  <2>2. reg' \in Values /\ mem'[Local] \in Values
    BY <1>2, <1>4, <1>6, BrokenTyped
  <2>3. reg' = o.reg /\ mem'[Local] = o.local /\ records' = <<R(pc, op, RdVal(op, o))>> \o o.m
    BY <1>2, <1>4
  <2> HIDE DEF o
  <2>5. RetiresAs(op)
    BY <1>1, <1>3, <1>4, <1>6, <2>1, <2>2, <2>3 DEF RetiresAs
  <2>6. Does(op, fault' = fault, o.m)
    BY <1>6, <2>1 DEF Does, Wrong
  <2> QED  BY <2>3, <2>5, <2>6 DEF RdVal
<1> QED  BY <1>2, <1>5, <1>6

(* Before the step the hart is between two instructions, outside every window.                *)
Ready(n, i, p, after, before, kept, op) ==
  /\ AtRest(n, i, p.out, after, before, kept) /\ RetiresAs(op) /\ Closed(i, p) /\ Outwith(i, p)

(* The history has one retire more, and the hart is where it left it. *)
Grown(n, j, t) == \E later, sooner, line : Past(n + 1, j, t, later, sooner, line)' /\ Present(j, later[n + 1])'

(* What is at hand in every case of a retire. *)
LEMMA ReadyFacts ==
  ASSUME NEW n, NEW i, NEW p, NEW after, NEW before, NEW kept, NEW op, Ready(n, i, p, after, before, kept, op)
  PROVE  /\ n \in Nat /\ i.nRefRetire = n /\ IsSeq(p.out) /\ IsSeq(i.recs) /\ after[n].next = Len(i.recs) + 1
         /\ \E d \in Nat : after[n].to = d + 1 /\ Kept(p.out, kept, d) /\ after[n].to - 1 = d
         /\ Forced(i) \subseteq 0 .. n - 1 /\ n \notin Forced(i)
         /\ op \in {"load", "store", "mmio", "shared", "sc"}
         /\ reg \in Values /\ mem[Local] \in Values
<1>1. n \in Nat /\ i.nRefRetire = n /\ Past(n, i, p.out, after, before, kept) /\ Forced(i) \subseteq 0 .. n - 1
  BY DEF Ready, AtRest
<1>2. IsSeq(p.out)
  BY DEF Ready, Closed
<1>3. Placed(after[n])
  <2>1. n \in 0 .. n
    BY <1>1
  <2> QED  BY <1>1, <2>1 DEF Past
<1>4. \E d \in Nat : after[n].to = d + 1 /\ Kept(p.out, kept, d) /\ after[n].to - 1 = d
  <2> DEFINE d == after[n].to - 1
  <2>1. d \in Nat /\ after[n].to = d + 1
    BY <1>3 DEF Placed
  <2>2. Kept(p.out, kept, d)
    BY <1>1 DEF Past
  <2>3. after[n].to - 1 = d
    OBVIOUS
  <2> HIDE DEF d
  <2> QED  BY <2>1, <2>2, <2>3
<1>5. n \notin Forced(i)
  <2>1. n \notin 0 .. n - 1
    BY <1>1
  <2> QED  BY <1>1, <2>1
<1>6. op \in {"load", "store", "mmio", "shared", "sc"}
  BY BoundsAssumption DEF Ready, RetiresAs
<1>7. reg \in Values /\ mem[Local] \in Values
  BY DEF Ready, AtRest, HartTyped
<1>8. IsSeq(i.recs) /\ after[n].next = Len(i.recs) + 1
  BY <1>1 DEF Past
<1> QED  BY <1>1, <1>2, <1>4, <1>5, <1>6, <1>7, <1>8

(* An instruction whose memory record is a line of the walk.                                  *)
LEMMA RetireTwo ==
  ASSUME NEW n, NEW i, NEW p, NEW after, NEW before, NEW kept, NEW op, Ready(n, i, p, after, before, kept, op),
         NEW w, Does(op, fault' = fault, <<w>>), ~(op = "sc" /\ reg' = 1),
         NEW r, r = R(pc, op, IF op \in Writers THEN reg' ELSE 0),
         NEW j, j = ScanAll(i, <<r, w>>), NEW q, q = PartAll(p, <<r, w>>)
  PROVE  Grown(n, j, q.out)
<1>1. /\ n \in Nat /\ i.nRefRetire = n /\ IsSeq(p.out) /\ IsSeq(i.recs) /\ after[n].next = Len(i.recs) + 1
      /\ Forced(i) \subseteq 0 .. n - 1 /\ n \notin Forced(i)
      /\ op \in {"load", "store", "mmio", "shared", "sc"} /\ reg \in Values /\ mem[Local] \in Values
  BY ReadyFacts
<1>2. PICK d \in Nat : after[n].to = d + 1 /\ Kept(p.out, kept, d) /\ after[n].to - 1 = d
  BY ReadyFacts
<1>3. AtRest(n, i, p.out, after, before, kept) /\ RetiresAs(op) /\ Closed(i, p) /\ Outwith(i, p)
  BY DEF Ready
<1>4. r.k = "R" /\ r.op = op /\ r.rdval = IF op \in Writers THEN reg' ELSE 0
  BY DEF R
<1>5. \/ op = "load" /\ reg' = (IF fault' = fault THEN mem[Local] ELSE 1 - mem[Local]) /\ w = L(Local, mem[Local])
      \/ op = "store" /\ reg' = reg /\ mem'[Local] = (IF fault' = fault THEN reg ELSE 1 - reg) /\ w = S(Local, mem'[Local])
      \/ op = "mmio" /\ fault' = fault /\ w = L(Device, reg')
      \/ op = "shared" /\ fault' = fault /\ w = L(Shared, reg')
      \/ op = "sc" /\ fault' = fault /\ reg' = 0 /\ w = S(Shared, reg)
  BY DEF Does
<1>6. Memory(w) /\ ~Rewrites(w)
  BY <1>5 DEF Memory, Rewrites, L, S, Local, Device, Shared, Slot
<1>7. /\ j.brackets = i.brackets /\ j.nRefRetire = i.nRefRetire + 1 /\ Outwith(j, q)
      /\ q.out = Append(Append(p.out, r), w)
      /\ j.recs = IF w.k = "L" /\ w.addr = Device THEN Append(i.recs, w.data) ELSE i.recs
      /\ j.plants = IF w.k = "L" /\ w.addr = Shared THEN Put(i.plants, i.nRefRetire, w.data) ELSE i.plants
      /\ Forced(j) = Forced(i) \cup (IF r.op = "sc" /\ r.rdval # 0 THEN {i.nRefRetire} ELSE {})
  BY <1>3, <1>4, <1>6, MainMemory
<1>8. Forced(j) = Forced(i)
  BY <1>4, <1>5, <1>7 DEF Writers
<1>9. PICK line : /\ Kept(q.out, line, d + 2) /\ SameLines(p.out, kept, q.out, line, d)
                  /\ Line(q.out, line, d + 1) = r /\ Line(q.out, line, d + 2) = w
  <2> DEFINE s == p.out
             t == Append(Append(s, r), w)
  <2>1. ~(w.k = "S" /\ r.op = "sc" /\ r.rdval # 0)
    BY <1>4, <1>5 DEF Writers, L
  <2>2. IsSeq(s) /\ Kept(s, kept, d)
    BY <1>1, <1>2
  <2>3. q.out = t
    BY <1>7
  <2> HIDE DEF s
  <2>4. \E line : /\ Kept(t, line, d + 2) /\ SameLines(s, kept, t, line, d)
                  /\ Line(t, line, d + 1) = r /\ Line(t, line, d + 2) = w
    BY <1>2, <1>4, <2>1, <2>2, StreamMemory
  <2> HIDE DEF t
  <2> QED  BY <2>3, <2>4 DEF s
<1>a. PICK y : y = [pc |-> pc, reg |-> reg, local |-> mem[Local], slot |-> mem[Slot], op |-> op, ok |-> fault' = fault]
  OBVIOUS
<1>b. PICK z : z = [pc |-> pc + 1, reg |-> reg', local |-> mem'[Local], slot |-> mem[Slot],
                    next |-> IF op = "mmio" THEN after[n].next + 1 ELSE after[n].next, to |-> d + 3]
  OBVIOUS
<1>c. /\ y.op = op /\ y.ok = (fault' = fault) /\ y.reg = reg /\ y.local = mem[Local]
      /\ y.pc = pc /\ y.slot = mem[Slot]
  BY <1>a
<1>d. /\ z.pc = pc + 1 /\ z.reg = reg' /\ z.local = mem'[Local] /\ z.slot = mem[Slot] /\ z.to = d + 3
      /\ z.next = IF op = "mmio" THEN after[n].next + 1 ELSE after[n].next
  BY <1>b
<1>e. z.to - 1 = d + 2 /\ z.to = after[n].to + 2 /\ after[n].to + 1 = d + 2
  BY <1>2, <1>d
<1> DEFINE x == after[n]
           t == q.out
<1>10. ScanRetired(n, i, op, j, {})
  <2>1. j.brackets = i.brackets /\ j.nRefRetire = n + 1 /\ j.depth = 0
    BY <1>1, <1>7 DEF Outwith
  <2>2. j.recs = (IF op = "mmio" THEN Append(i.recs, reg') ELSE i.recs)
    BY <1>5, <1>7 DEF L, S, Local, Device, Shared
  <2>3. j.plants = i.plants \/ \E v : j.plants = Put(i.plants, n, v)
    BY <1>1, <1>7
  <2> QED  BY <1>8, <2>1, <2>2, <2>3 DEF ScanRetired
<1>11. StreamRetired(n, p.out, after, kept, op, t, line, y, z)
  <2>1. Kept(t, line, z.to - 1)
    BY <1>9, <1>e
  <2>2. SameLines(p.out, kept, t, line, after[n].to - 1) /\ Line(t, line, after[n].to) = r
    BY <1>2, <1>9
  <2>3. z.to \in {after[n].to + 1, after[n].to + 2}
    BY <1>e
  <2> HIDE DEF t
  <2> QED  BY <1>c, <1>d, <2>1, <2>2, <2>3 DEF StreamRetired
<1>12. Effect(j, t, line, n, x, y, z)'
  <2>1. z.to = x.to + 2 /\ Line(t, line, x.to + 1) = w
    BY <1>9, <1>e
  <2>2. y.op = op /\ y.ok = (fault' = fault) /\ y.reg = reg /\ y.local = mem[Local] /\ z.reg = reg' /\ z.local = mem'[Local]
    BY <1>c, <1>d
  <2>3. CASE op = "load"
    <3>1. w.k = "L" /\ w.addr = Local /\ reg' = (IF fault' = fault THEN mem[Local] ELSE 1 - mem[Local])
      BY <1>5, <2>3 DEF L
    <3> HIDE DEF x, t
    <3> QED  BY <2>1, <2>2, <2>3, <3>1 DEF Effect
  <2>4. CASE op = "store"
    <3>1. w = S(Local, mem'[Local]) /\ reg' = reg /\ mem'[Local] = (IF fault' = fault THEN reg ELSE 1 - reg)
      BY <1>5, <2>4
    <3> HIDE DEF x, t
    <3> QED  BY <2>1, <2>2, <2>4, <3>1 DEF Effect
  <2>5. CASE op = "mmio"
    <3>1. w.k = "L" /\ w.addr = Device /\ fault' = fault
      BY <1>5, <2>5 DEF L
    <3>2. x.next \in DOMAIN j.recs /\ j.recs[x.next] = reg'
      <4>0. PICK v : v = reg'
        OBVIOUS
      <4>1. j.recs = Append(i.recs, v) /\ x.next = Len(i.recs) + 1 /\ IsSeq(i.recs)
        BY <1>1, <1>10, <2>5, <4>0 DEF ScanRetired
      <4> HIDE DEF x
      <4>5. IsSeq(i.recs)
        BY <1>1
      <4> DEFINE f == Append(i.recs, v)
      <4>6. IsSeq(f) /\ Len(f) = Len(i.recs) + 1 /\ Len(i.recs) \in Nat /\ f[Len(i.recs) + 1] = v
        BY ONLY <4>5, SeqFacts
      <4>7. j.recs = f
        BY <4>1
      <4> HIDE DEF f
      <4>2. IsSeq(j.recs) /\ Len(j.recs) = Len(i.recs) + 1 /\ Len(i.recs) \in Nat /\ j.recs[Len(i.recs) + 1] = v
        BY <4>6, <4>7
      <4>3. DOMAIN j.recs = 1 .. Len(i.recs) + 1
        BY <4>2, SeqFacts
      <4> QED  BY <4>0, <4>1, <4>2, <4>3
    <3> HIDE DEF x, t
    <3> QED  BY <2>1, <2>2, <2>5, <3>1, <3>2 DEF Effect
  <2>6. CASE op = "shared"
    <3>1. w.k = "L" /\ w.addr = Shared /\ w.data = reg' /\ fault' = fault
      BY <1>5, <2>6 DEF L
    <3>2. n \in DOMAIN j.plants /\ j.plants[n] = reg'
      <4>1. j.plants = Put(i.plants, n, w.data)
        BY <1>1, <1>7, <3>1
      <4> QED  BY <3>1, <4>1 DEF Put
    <3> HIDE DEF x, t
    <3> QED  BY <2>1, <2>2, <2>6, <3>1, <3>2 DEF Effect
  <2>7. CASE op = "sc"
    <3>1. w = S(Shared, reg) /\ fault' = fault /\ reg' = 0
      BY <1>5, <2>7
    <3>2. n \notin Forced(j)
      BY <1>1, <1>8
    <3> HIDE DEF x, t
    <3> QED  BY <2>1, <2>2, <2>7, <3>1, <3>2 DEF Effect
  <2> QED  BY <1>1, <2>3, <2>4, <2>5, <2>6, <2>7
<1> HIDE DEF t, x
<1>13. Retiring(n, i, p.out, after, before, kept, op, j, {}, t, line, y, z)
  BY <1>3, <1>10, <1>11, <1>12 DEF Retiring, x
<1>14. \E later, sooner : Past(n + 1, j, t, later, sooner, line)' /\ Present(j, later[n + 1])'
  BY ONLY <1>13, Retirement
<1> QED  BY <1>14 DEF Grown, t

(* An sc.w that leaves one line: failed, its ghost dropped, or its write lost.                *)
Conditional(n, i, s, after, kept, j, t, line, d, r) ==
  /\ d \in Nat /\ after[n].to = d + 1 /\ r = R(pc, "sc", reg')
  /\ \/ fault' = fault /\ reg' = 1
     \/ fault' # fault /\ reg' = 0 /\ fault' = "lost" /\ t[Len(t)] = r
  /\ j.brackets = i.brackets /\ j.nRefRetire = i.nRefRetire + 1 /\ j.depth = 0
  /\ j.recs = i.recs /\ j.plants = i.plants
  /\ Forced(j) = Forced(i) \cup (IF reg' # 0 THEN {n} ELSE {})
  /\ Kept(t, line, d + 1) /\ SameLines(s, kept, t, line, d) /\ Line(t, line, d + 1) = r

(* An sc.w alone, right or wrong; one that failed and left a ghost. *)
LEMMA RetireSc ==
  ASSUME NEW n, NEW i, NEW p, NEW after, NEW before, NEW kept, Ready(n, i, p, after, before, kept, "sc"),
         NEW j, NEW t, NEW line, NEW d, NEW r, Conditional(n, i, p.out, after, kept, j, t, line, d, r)
  PROVE  Grown(n, j, t)
<1>1. /\ n \in Nat /\ i.nRefRetire = n /\ Forced(i) \subseteq 0 .. n - 1 /\ n \notin Forced(i)
      /\ after[n].next = Len(i.recs) + 1 /\ reg \in Values
  BY ReadyFacts
<1>2. /\ d \in Nat /\ after[n].to = d + 1 /\ r = R(pc, "sc", reg')
      /\ \/ fault' = fault /\ reg' = 1
         \/ fault' # fault /\ reg' = 0 /\ fault' = "lost" /\ t[Len(t)] = r
  BY DEF Conditional
<1>3. Kept(t, line, d + 1) /\ SameLines(p.out, kept, t, line, d) /\ Line(t, line, d + 1) = r
  BY DEF Conditional
<1>4. PICK A : A = IF reg' # 0 THEN {n} ELSE {}
  OBVIOUS
<1>5. ScanRetired(n, i, "sc", j, A)
  BY <1>1, <1>4 DEF Conditional, ScanRetired
<1>a. PICK y : y = [pc |-> pc, reg |-> reg, local |-> mem[Local], slot |-> mem[Slot], op |-> "sc", ok |-> fault' = fault]
  OBVIOUS
<1>b. PICK z : z = [pc |-> pc + 1, reg |-> reg', local |-> mem'[Local], slot |-> mem[Slot],
                    next |-> after[n].next, to |-> d + 2]
  OBVIOUS
<1>c. /\ y.op = "sc" /\ y.ok = (fault' = fault) /\ y.reg = reg /\ y.local = mem[Local]
      /\ y.pc = pc /\ y.slot = mem[Slot]
  BY <1>a
<1>d. /\ z.pc = pc + 1 /\ z.reg = reg' /\ z.local = mem'[Local] /\ z.slot = mem[Slot] /\ z.to = d + 2
      /\ z.next = after[n].next
  BY <1>b
<1>e. z.to - 1 = d + 1 /\ z.to = after[n].to + 1 /\ after[n].to - 1 = d
  BY <1>2, <1>d
<1>6. StreamRetired(n, p.out, after, kept, "sc", t, line, y, z)
  <2>1. Kept(t, line, z.to - 1)
    BY <1>3, <1>e
  <2>2. SameLines(p.out, kept, t, line, after[n].to - 1) /\ Line(t, line, after[n].to) = r
    BY <1>2, <1>3, <1>e
  <2>3. z.to \in {after[n].to + 1, after[n].to + 2}
    BY <1>e
  <2>4. r = R(pc, "sc", IF "sc" \in Writers THEN reg' ELSE 0)
    BY <1>2 DEF Writers
  <2> QED  BY <1>c, <1>d, <2>1, <2>2, <2>3, <2>4 DEF StreamRetired
<1>7. Effect(j, t, line, n, after[n], y, z)'
  <2>1. (n \in Forced(j)) <=> (reg' # 0)
    BY <1>1, <1>2 DEF Conditional
  <2>2. Line(t, line, after[n].to) = r
    BY <1>2, <1>3
  <2>3. z.to = after[n].to + 1 /\ y.op = "sc" /\ y.ok = (fault' = fault) /\ z.reg = reg'
    BY <1>c, <1>d, <1>e
  <2>4. CASE fault' = fault /\ reg' = 1
    <3>2. y.ok
      BY <2>3, <2>4
    <3>3. reg' # 0 /\ z.reg = 1
      BY <2>3, <2>4
    <3>4. n \in Forced(j)
      BY <2>1, <3>3
    <3>1. y.ok /\ n \in Forced(j) /\ z.reg = 1
      BY <3>2, <3>3, <3>4
    <3> QED  BY <2>3, <3>1 DEF Effect
  <2>5. CASE fault' # fault /\ reg' = 0 /\ fault' = "lost" /\ t[Len(t)] = r
    <3>1. ~y.ok /\ n \notin Forced(j) /\ z.reg = 0 /\ t[Len(t)] = Line(t, line, after[n].to)
      BY <2>1, <2>2, <2>3, <2>5
    <3> QED  BY <2>3, <2>5, <3>1 DEF Effect
  <2> QED  BY <1>2, <2>4, <2>5
<1>8. Retiring(n, i, p.out, after, before, kept, "sc", j, A, t, line, y, z)
  BY <1>5, <1>6, <1>7 DEF Retiring, Ready
<1>9. \E later, sooner : Past(n + 1, j, t, later, sooner, line)' /\ Present(j, later[n + 1])'
  BY ONLY <1>8, Retirement
<1> QED  BY <1>9 DEF Grown

LEMMA RetireAlone ==
  ASSUME NEW n, NEW i, NEW p, NEW after, NEW before, NEW kept, NEW op, Ready(n, i, p, after, before, kept, op),
         Does(op, fault' = fault, <<>>),
         NEW r, r = R(pc, op, IF op \in Writers THEN reg' ELSE 0),
         NEW j, j = ScanAll(i, <<r>>), NEW q, q = PartAll(p, <<r>>)
  PROVE  Grown(n, j, q.out)
<1>1. /\ op = "sc"
      /\ \/ fault' = fault /\ reg' = 1
         \/ fault' # fault /\ reg' = 0 /\ fault' = "lost"
  BY DEF Does
<1>2. r.k = "R" /\ r.op = "sc" /\ r.rdval = reg' /\ r = R(pc, "sc", reg')
  BY <1>1 DEF R, Writers
<1>3. /\ n \in Nat /\ i.nRefRetire = n /\ IsSeq(p.out)
  BY ReadyFacts
<1>4. PICK d \in Nat : after[n].to = d + 1 /\ Kept(p.out, kept, d) /\ after[n].to - 1 = d
  BY ReadyFacts
<1>5. /\ j.brackets = i.brackets /\ j.nRefRetire = i.nRefRetire + 1 /\ Outwith(j, q)
      /\ q.out = Append(p.out, r) /\ j.recs = i.recs /\ j.plants = i.plants
      /\ Forced(j) = Forced(i) \cup (IF r.op = "sc" /\ r.rdval # 0 THEN {i.nRefRetire} ELSE {})
  BY <1>2, MainAlone DEF Ready
<1> DEFINE s == p.out
           t == Append(s, r)
<1>6. \E line : /\ Kept(t, line, d + 1) /\ SameLines(s, kept, t, line, d) /\ Line(t, line, d + 1) = r
  <2>1. IsSeq(s) /\ Kept(s, kept, d)
    BY <1>3, <1>4
  <2> HIDE DEF s
  <2> QED  BY <1>2, <1>4, <2>1, StreamAlone
<1>7. t[Len(t)] = r
  <2>1. IsSeq(s)
    BY <1>3
  <2> HIDE DEF s
  <2>2. Len(t) = Len(s) + 1 /\ t[Len(s) + 1] = r
    BY <2>1, SeqFacts
  <2> QED  BY <2>2
<1>8. q.out = t
  BY <1>5
<1> HIDE DEF t
<1>9. PICK line : /\ Kept(t, line, d + 1) /\ SameLines(s, kept, t, line, d) /\ Line(t, line, d + 1) = r
  BY <1>6
<1>10. Conditional(n, i, s, after, kept, j, t, line, d, r)
  <2>1. Forced(j) = Forced(i) \cup (IF reg' # 0 THEN {n} ELSE {})
    BY <1>2, <1>3, <1>5
  <2>2. j.depth = 0
    BY <1>5 DEF Outwith
  <2> HIDE DEF s
  <2> QED  BY <1>1, <1>2, <1>4, <1>5, <1>7, <1>9, <2>1, <2>2 DEF Conditional
<1>11. Ready(n, i, p, after, before, kept, "sc")
  BY <1>1
<1>12. Grown(n, j, t)
  BY ONLY <1>10, <1>11, RetireSc
<1> QED  BY <1>8, <1>12

LEMMA RetireGhost ==
  ASSUME NEW n, NEW i, NEW p, NEW after, NEW before, NEW kept, NEW op, Ready(n, i, p, after, before, kept, op),
         NEW w, Does(op, fault' = fault, <<w>>), op = "sc", reg' = 1,
         NEW r, r = R(pc, op, IF op \in Writers THEN reg' ELSE 0),
         NEW j, j = ScanAll(i, <<r, w>>), NEW q, q = PartAll(p, <<r, w>>)
  PROVE  Grown(n, j, q.out)
<1>1. fault' = fault /\ w = S(Shared, reg)
  BY DEF Does
<1>2. r.k = "R" /\ r.op = "sc" /\ r.rdval = 1 /\ r = R(pc, "sc", reg')
  BY <1>1 DEF R, Writers
<1>0. w.k = "S" /\ Memory(w) /\ ~Rewrites(w) /\ w.k # "L"
  BY <1>1 DEF S, Memory, Rewrites, Shared, Slot
<1>3. /\ n \in Nat /\ i.nRefRetire = n /\ IsSeq(p.out)
  BY ReadyFacts
<1>4. PICK d \in Nat : after[n].to = d + 1 /\ Kept(p.out, kept, d) /\ after[n].to - 1 = d
  BY ReadyFacts
<1>5. /\ j.brackets = i.brackets /\ j.nRefRetire = i.nRefRetire + 1 /\ Outwith(j, q)
      /\ q.out = Append(Append(p.out, r), w)
      /\ j.recs = IF w.k = "L" /\ w.addr = Device THEN Append(i.recs, w.data) ELSE i.recs
      /\ j.plants = IF w.k = "L" /\ w.addr = Shared THEN Put(i.plants, i.nRefRetire, w.data) ELSE i.plants
      /\ Forced(j) = Forced(i) \cup (IF r.op = "sc" /\ r.rdval # 0 THEN {i.nRefRetire} ELSE {})
  BY <1>0, <1>2, MainMemory DEF Ready
<1> DEFINE s == p.out
           t == Append(Append(s, r), w)
<1>6. \E line : /\ Kept(t, line, d + 1) /\ SameLines(s, kept, t, line, d) /\ Line(t, line, d + 1) = r
  <2>1. IsSeq(s) /\ Kept(s, kept, d)
    BY <1>3, <1>4
  <2> HIDE DEF s
  <2> QED  BY <1>0, <1>2, <1>4, <2>1, StreamGhost
<1>8. q.out = t
  BY <1>5
<1> HIDE DEF t
<1>9. PICK line : /\ Kept(t, line, d + 1) /\ SameLines(s, kept, t, line, d) /\ Line(t, line, d + 1) = r
  BY <1>6
<1>10. Conditional(n, i, s, after, kept, j, t, line, d, r)
  <2>1. Forced(j) = Forced(i) \cup (IF reg' # 0 THEN {n} ELSE {})
    BY <1>2, <1>3, <1>5
  <2>2. j.depth = 0 /\ j.recs = i.recs /\ j.plants = i.plants
    BY <1>0, <1>5 DEF Outwith
  <2> HIDE DEF s
  <2> QED  BY <1>1, <1>2, <1>4, <1>5, <1>9, <2>1, <2>2 DEF Conditional
<1>11. Ready(n, i, p, after, before, kept, "sc")
  OBVIOUS
<1>12. Grown(n, j, t)
  BY ONLY <1>10, <1>11, RetireSc
<1> QED  BY <1>8, <1>12

-----------------------------------------------------------------------------
(* The hart has lived a run the reference can follow.                                         *)
Lived(i, s) ==
  \E after, before, kept : Past(i.nRefRetire, i, s, after, before, kept) /\ Present(i, after[i.nRefRetire])

(* The invariant of the hart's run: its windows, and its history unless two windows share     *)
(* an index or a handler resumed elsewhere.                                                   *)
Whole(i, p) ==
  /\ DOMAIN code = PCs /\ Windowed(i, p)
  /\ Apart(i) /\ fault # "resume" => Lived(i, p.out)

(* A retire, and the memory record it left if any: the program goes on, outside every window. *)
LEMMA RetireDoes ==
  ASSUME HartTyped, Retire, NEW i, NEW p, Closed(i, p), Outwith(i, p), ForcedBelow(i), Whole(i, p), ~wfiArmed,
         NEW j, j = ScanAll(i, records'), NEW q, q = PartAll(p, records')
  PROVE  Whole(j, q)'
<1>1. DOMAIN code = PCs /\ Windowed(i, p)
  BY DEF Whole
<1>2. PICK op, m : /\ RetiresAs(op) /\ Does(op, fault' = fault, m)
                   /\ records' = <<R(pc, op, IF op \in Writers THEN reg' ELSE 0)>> \o m
  BY <1>1, RetireIs
<1>3. PICK r : r = R(pc, op, IF op \in Writers THEN reg' ELSE 0)
  OBVIOUS
<1>4. r.k = "R" /\ r.pc = pc
  BY <1>3 DEF R
<1>5. m = <<>> \/ \E w : m = <<w>> /\ Memory(w) /\ ~Rewrites(w)
  <2>1. \/ m = <<>> \/ m = <<L(Local, mem[Local])>> \/ m = <<S(Local, mem'[Local])>>
        \/ m = <<L(Device, reg')>> \/ m = <<L(Shared, reg')>> \/ m = <<S(Shared, reg)>>
    BY <1>2 DEF Does
  <2>2. ASSUME NEW v PROVE /\ Memory(L(Local, v)) /\ ~Rewrites(L(Local, v)) /\ Memory(L(Device, v)) /\ ~Rewrites(L(Device, v))
                           /\ Memory(L(Shared, v)) /\ ~Rewrites(L(Shared, v)) /\ Memory(S(Local, v)) /\ ~Rewrites(S(Local, v))
                           /\ Memory(S(Shared, v)) /\ ~Rewrites(S(Shared, v))
    BY DEF Memory, Rewrites, L, S, Local, Device, Shared, Slot
  <2> QED  BY <2>1, <2>2
<1>6. \/ records' = <<r>> /\ m = <<>>
      \/ \E w : records' = <<r, w>> /\ m = <<w>> /\ Memory(w) /\ ~Rewrites(w)
  <2>1. records' = <<r>> \o m
    BY <1>2, <1>3
  <2>2. CASE m = <<>>
    <3>1. <<r>> \o <<>> = <<r>>
      BY Tuples
    <3> QED  BY <2>1, <2>2, <3>1
  <2>3. CASE \E w : m = <<w>> /\ Memory(w) /\ ~Rewrites(w)
    <3>1. PICK w : m = <<w>> /\ Memory(w) /\ ~Rewrites(w)
      BY <2>3
    <3>2. <<r>> \o <<w>> = <<r, w>>
      BY Concatenated
    <3>3. records' = <<r, w>>
      BY <2>1, <3>1, <3>2
    <3> QED  BY <3>1, <3>3
  <2> QED  BY <1>5, <2>2, <2>3
<1>7. /\ Closed(j, q) /\ Outwith(j, q) /\ j.brackets = i.brackets /\ j.nRefRetire = i.nRefRetire + 1
      /\ LandAt(q.brackets, p.brackets, p.awaiting, pc) /\ q.awaiting = {}
  <2>1. CASE records' = <<r>> /\ m = <<>>
    BY <1>4, <2>1, MainAlone
  <2>2. CASE \E w : records' = <<r, w>> /\ m = <<w>> /\ Memory(w) /\ ~Rewrites(w)
    <3>1. PICK w : records' = <<r, w>> /\ m = <<w>> /\ Memory(w) /\ ~Rewrites(w)
      BY <2>2
    <3> QED  BY <1>4, <3>1, MainMemory
  <2> QED  BY <1>6, <2>1, <2>2
<1>8. /\ pc \in PCs /\ (fault' = fault \/ (fault = "none" /\ fault' \in Wrong)) /\ code' = [code EXCEPT ![pc] = op]
  BY <1>2 DEF RetiresAs
<1>9. (fault = "resume") <=> (fault' = "resume")
  BY <1>8 DEF Wrong
<1>10. due' = FALSE /\ abut' = abut /\ mode' = "run" /\ wfiArmed' = FALSE
  BY DEF Retire, HartTyped
<1>11. Windowed(j, q)'
  BY <1>1, <1>7, <1>8, <1>9, <1>10, RetireWindows
<1>12. DOMAIN code' = PCs
  BY <1>1, <1>8
<1>13. ASSUME Apart(j)', fault' # "resume" PROVE Lived(j, q.out)'
  <2>1. Apart(i) /\ fault # "resume"
    BY <1>7, <1>9, <1>13 DEF Apart, Outwith
  <2>2. PICK n : n = i.nRefRetire
    OBVIOUS
  <2>3. PICK after, before, kept : Past(n, i, p.out, after, before, kept) /\ Present(i, after[n])
    BY <2>1, <2>2 DEF Whole, Lived
  <2>4. n \in Nat /\ \A b \in DOMAIN i.brackets : i.brackets[b].refIndex \in 0 .. n
    BY <1>1, <2>2 DEF Closed, Windowed, Indexed
  <2>5. Follows(i, n, after[n], Hart)
    BY <2>2, <2>3 DEF Present, Outwith
  <2>6. Forced(i) \subseteq 0 .. n - 1
    BY <2>2, ForcedIs DEF ForcedBelow, Closed
  <2>7. Ready(n, i, p, after, before, kept, op)
    BY <1>2, <2>2, <2>3, <2>4, <2>5, <2>6 DEF Ready, AtRest
  <2>8. Grown(n, j, q.out)
    <3>1. CASE records' = <<r>> /\ m = <<>>
      <4>1. j = ScanAll(i, <<r>>) /\ q = PartAll(p, <<r>>) /\ Does(op, fault' = fault, <<>>)
        BY <1>2, <3>1
      <4> QED  BY <1>3, <2>7, <4>1, RetireAlone
    <3>2. CASE \E w : records' = <<r, w>> /\ m = <<w>> /\ Memory(w) /\ ~Rewrites(w)
      <4>0. PICK w : records' = <<r, w>> /\ m = <<w>>
        BY <3>2
      <4>1. j = ScanAll(i, <<r, w>>) /\ q = PartAll(p, <<r, w>>) /\ Does(op, fault' = fault, <<w>>)
        BY <1>2, <4>0
      <4>2. CASE op = "sc" /\ reg' = 1
        BY <1>3, <2>7, <4>1, <4>2, RetireGhost
      <4>3. CASE ~(op = "sc" /\ reg' = 1)
        BY <1>3, <2>7, <4>1, <4>3, RetireTwo
      <4> QED  BY <4>2, <4>3
    <3> QED  BY <1>6, <3>1, <3>2
  <2>9. j.nRefRetire = n + 1
    BY <1>7, <2>2
  <2>10. PICK later, sooner, line : Past(n + 1, j, q.out, later, sooner, line)' /\ Present(j, later[n + 1])'
    BY <2>8 DEF Grown
  <2>11. Past(j.nRefRetire, j, q.out, later, sooner, line)' /\ Present(j, later[j.nRefRetire])'
    BY <2>9, <2>10
  <2> QED  BY <2>11 DEF Lived
<1> QED  BY <1>11, <1>12, <1>13 DEF Whole

-----------------------------------------------------------------------------
(* A step from the scan i to k that retires nothing of the program's: what may it change?     *)
Idle(n, i, k) ==
  /\ n \in Nat /\ SameScript(k, i)
  /\ \A a \in PCs : code[a] \in Ops \ {"park"} => code'[a] = code[a]
  /\ fault' = fault \/ (fault = "none" /\ fault' = "resume")
  /\ \A j \in 0 .. n - 1 : \A x, y : Follows(i, j, x, y) => Follows(k, j, x, y)

(* The history survives a step that retires nothing. *)
LEMMA Idles ==
  ASSUME NEW n, NEW i, NEW s, NEW after, NEW before, NEW kept, Past(n, i, s, after, before, kept),
         NEW k, Idle(n, i, k)
  PROVE  Past(n, k, s, after, before, kept)'
<1>1. n \in Nat /\ SameScript(k, i)
  BY DEF Idle
<1>2. SameLines(s, kept, s, kept, after[n].to - 1)
  BY DEF SameLines
<1>3. fault \in Wrong => fault' = fault
  BY DEF Idle, Wrong
<1>4. fault' \in Wrong => fault \in Wrong
  BY DEF Idle, Wrong
<1>5. Prolongs(n, after[n].to - 1, i, s, kept, k, s, kept)
  BY <1>1, <1>2, <1>3 DEF Prolongs, Idle, SameScript
<1> QED  BY <1>1, <1>4, <1>5, PastKept DEF SameScript

(* With the same windows closed, what followed a retire follows it still. *)
LEMMA SameFollows ==
  ASSUME NEW i, NEW k, k.brackets = i.brackets
  PROVE  \A j, x, y : Follows(i, j, x, y) => Follows(k, j, x, y)
BY DEF Follows

(* The history as it is outside every window that opened at the current index, or inside one. *)
LEMMA NowUnmoved ==
  ASSUME NEW i, NEW x, i.depth = 0, Present(i, x),
         \A b \in DOMAIN i.brackets : i.brackets[b].refIndex # i.nRefRetire
  PROVE  reg = x.reg /\ mem[Local] = x.local /\ mem[Slot] = x.slot
BY DEF Present, Follows, Unmoved, Hart

(* What a step makes of the history, when it leaves the past alone. *)
Stays(i, p, j, q) ==
  /\ q.out = p.out /\ j.nRefRetire = i.nRefRetire /\ i.nRefRetire \in Nat
  /\ Apart(j)' /\ fault' # "resume" =>
       /\ Apart(i) /\ fault # "resume" /\ Idle(i.nRefRetire, i, j)
       /\ \A x : Present(i, x) => Present(j, x)'

(* What is left to show of a step that retires nothing: its windows, and where it leaves      *)
(* the hart.                                                                                  *)
LEMMA LivesOn ==
  ASSUME NEW i, NEW p, NEW j, NEW q, Whole(i, p), Stays(i, p, j, q), Windowed(j, q)', DOMAIN code' = PCs
  PROVE  Whole(j, q)'
<1>1. ASSUME Apart(j)', fault' # "resume" PROVE Lived(j, q.out)'
  <2>1. PICK n, s : n = i.nRefRetire /\ s = p.out
    OBVIOUS
  <2>2. Apart(i) /\ fault # "resume" /\ Idle(n, i, j) /\ \A x : Present(i, x) => Present(j, x)'
    BY <1>1, <2>1 DEF Stays
  <2>3. PICK after, before, kept : Past(n, i, s, after, before, kept) /\ Present(i, after[n])
    BY <2>1, <2>2 DEF Whole, Lived
  <2>4. Past(n, j, s, after, before, kept)'
    BY <2>2, <2>3, Idles
  <2>5. Present(j, after[n])'
    BY <2>2, <2>3
  <2>6. j.nRefRetire = n /\ q.out = s
    BY <2>1 DEF Stays
  <2>7. Past(j.nRefRetire, j, q.out, after, before, kept)' /\ Present(j, after[j.nRefRetire])'
    BY <2>4, <2>5, <2>6
  <2> QED  BY <2>7 DEF Lived
<1> QED  BY <1>1 DEF Whole

(* A park opens a window at the index of the next retire. *)
LEMMA ParkStep ==
  ASSUME HartTyped, Park, NEW i, NEW p, Closed(i, p), Outwith(i, p), Whole(i, p), ~wfiArmed,
         NEW j, j = ScanAll(i, records'), NEW q, q = PartAll(p, records')
  PROVE  Whole(j, q)'
<1>1. PICK e : e = X("wfi_enter")
  OBVIOUS
<1>a. e.k = "X" /\ e.kind = "wfi_enter"
  BY <1>1 DEF X
<1>b. j = ScanAll(i, <<e>>) /\ q = PartAll(p, <<e>>)
  BY <1>1 DEF Park
<1>3. /\ Closed(j, q) /\ Asleep(j, q) /\ j.brackets = i.brackets /\ SameScript(j, i)
      /\ j.cur.refIndex = i.nRefRetire /\ j.cur.regs = <<>> /\ j.cur.push = NoPc /\ j.cur.stores = <<>>
      /\ q.brackets = p.brackets /\ q.awaiting = p.awaiting /\ q.out = p.out
      /\ q.cur.kind = "SLEEP" /\ SameOpen(q.cur, NoWindow) /\ q.cur.adopted = FALSE
  <2>1. Parks(i, p, j, q)
    BY <1>a, <1>b, ParkDoes
  <2> QED  BY <2>1 DEF Parks
<1>4. DOMAIN code = PCs /\ Windowed(i, p)
  BY DEF Whole
<1>5. Windowed(j, q)'
  <2>1. due' = due /\ abut' = (abut \/ due) /\ mode' = "sleep" /\ pc' = pc /\ fault' = fault
    BY DEF Park
  <2>2. j.nRefRetire = i.nRefRetire
    BY <1>3 DEF SameScript
  <2> QED  BY <1>3, <1>4, <2>1, <2>2, ParkWindows
<1>6. DOMAIN code' = PCs
  BY <1>4 DEF Park
<1>7. Stays(i, p, j, q)
  <2>1. q.out = p.out /\ j.nRefRetire = i.nRefRetire /\ i.nRefRetire \in Nat
    BY <1>3 DEF SameScript, Closed
  <2>2. ASSUME Apart(j)', fault' # "resume"
        PROVE  /\ Apart(i) /\ fault # "resume" /\ Idle(i.nRefRetire, i, j)
               /\ \A x : Present(i, x) => Present(j, x)'
    <3>1. Apart(i) /\ fault # "resume" /\ fault' = fault
      BY <1>3, <2>2 DEF Apart, Outwith, Park
    <3>2. Idle(i.nRefRetire, i, j)
      <4>1. \A a \in PCs : code[a] \in Ops \ {"park"} => code'[a] = code[a]
        BY <1>4, BoundsAssumption DEF Park
      <4> QED  BY <1>3, <2>1, <3>1, <4>1, SameFollows DEF Idle
    <3>3. \A b \in DOMAIN i.brackets : i.brackets[b].refIndex # i.nRefRetire
      BY <1>3, <2>2 DEF Apart, Asleep
    <3>4. ASSUME NEW x, Present(i, x) PROVE Present(j, x)'
      <4>1. reg = x.reg /\ mem[Local] = x.local /\ mem[Slot] = x.slot
        BY <3>3, <3>4, NowUnmoved DEF Outwith
      <4>2. reg' = reg /\ mem' = mem /\ j.depth = 1 /\ DOMAIN j.cur.stores = {}
        BY <1>3 DEF Park, Asleep
      <4>3. Left(j.cur, x, Hart)'
        BY <1>3, <4>1, <4>2 DEF Left, Hart
      <4> QED  BY <4>2, <4>3 DEF Present
    <3> QED  BY <3>1, <3>2, <3>4
  <2> QED  BY <2>1, <2>2 DEF Stays
<1> QED  BY <1>5, <1>6, <1>7, LivesOn

(* An interrupt between two instructions opens one, the push first. *)
LEMMA TrapStep ==
  ASSUME HartTyped, Interrupt, ~wfiArmed, NEW i, NEW p, Closed(i, p), Outwith(i, p), Whole(i, p),
         NEW j, j = ScanAll(i, records'), NEW q, q = PartAll(p, records')
  PROVE  Whole(j, q)'
<1>1. PICK t : t = T(pc)
  OBVIOUS
<1>2. /\ records' = <<>> \o <<T(pc)>> /\ pc' = pc /\ mem' = [mem EXCEPT ![Slot] = pc] /\ due' = due
      /\ abut' = (abut \/ due) /\ wfiArmed' = FALSE /\ fault' = fault /\ reg' = reg /\ code' = code
  BY DEF Interrupt
<1>3. t.k = "T" /\ t.epc = pc /\ t.push = pc /\ j = ScanAll(i, <<t>>) /\ q = PartAll(p, <<t>>)
  BY <1>1, <1>2, Tuples DEF T
<1>4. /\ Closed(j, q) /\ Awake(j, q) /\ j.brackets = i.brackets /\ SameScript(j, i)
      /\ j.cur.refIndex = i.nRefRetire /\ j.cur.regs = <<>> /\ j.cur.push = t.push /\ j.cur.stores = <<>>
      /\ j.cur.epc = t.epc
      /\ LandAt(q.brackets, p.brackets, p.awaiting, t.epc) /\ q.awaiting = {} /\ q.out = p.out
      /\ q.cur.kind = "TRAP" /\ SameOpen(q.cur, NoWindow)
  BY <1>3, TrapDoes
<1>5. DOMAIN code = PCs /\ Windowed(i, p) /\ pc # NoPc
  BY DEF Whole, HartTyped, NoPc
<1>6. mem'[Slot] = pc /\ mem'[Local] = mem[Local]
  BY <1>2, MemoryPut DEF HartTyped, Local, Slot
<1>7. Windowed(j, q)'
  <2>1. j.nRefRetire = i.nRefRetire
    BY <1>4 DEF SameScript
  <2> QED  BY <1>2, <1>3, <1>4, <1>5, <1>6, <2>1, TrapWindows
<1>8. Stays(i, p, j, q)
  <2>1. q.out = p.out /\ j.nRefRetire = i.nRefRetire /\ i.nRefRetire \in Nat
    BY <1>4 DEF SameScript, Closed
  <2>2. ASSUME Apart(j)', fault' # "resume"
        PROVE  /\ Apart(i) /\ fault # "resume" /\ Idle(i.nRefRetire, i, j)
               /\ \A x : Present(i, x) => Present(j, x)'
    <3>1. Apart(i) /\ fault # "resume"
      BY <1>2, <1>4, <2>2 DEF Apart, Outwith
    <3>2. Idle(i.nRefRetire, i, j)
      BY <1>2, <1>4, <2>1, SameFollows DEF Idle
    <3>3. \A b \in DOMAIN i.brackets : i.brackets[b].refIndex # i.nRefRetire
      BY <1>4, <2>2 DEF Apart, Awake
    <3>4. ASSUME NEW x, Present(i, x) PROVE Present(j, x)'
      <4>1. reg = x.reg /\ mem[Local] = x.local /\ mem[Slot] = x.slot
        BY <3>3, <3>4, NowUnmoved DEF Outwith
      <4>2. j.depth = 1 /\ DOMAIN j.cur.stores = {} /\ j.cur.push = pc
        BY <1>3, <1>4 DEF Awake
      <4>3. Left(j.cur, x, Hart)'
        BY <1>2, <1>4, <1>5, <1>6, <4>1, <4>2 DEF Left, Hart
      <4> QED  BY <4>2, <4>3 DEF Present
    <3> QED  BY <3>1, <3>2, <3>4
  <2> QED  BY <2>1, <2>2 DEF Stays
<1> QED  BY <1>2, <1>5, <1>7, <1>8, LivesOn

(* A woken park goes on in the window it opened. *)
LEMMA WakeStep ==
  ASSUME HartTyped, Interrupt, wfiArmed, NEW i, NEW p, Closed(i, p), Asleep(i, p), Whole(i, p),
         NEW j, j = ScanAll(i, records'), NEW q, q = PartAll(p, records')
  PROVE  Whole(j, q)'
<1>1. PICK r, x, t : r = R(pc, "park", 0) /\ x = X("wfi_wake") /\ t = T(pc + 1)
  OBVIOUS
<1>2. /\ records' = <<R(pc, "park", 0), X("wfi_wake")>> \o <<T(pc + 1)>> /\ mem' = [mem EXCEPT ![Slot] = pc + 1]
      /\ due' = due /\ abut' = (abut \/ due) /\ wfiArmed' = FALSE /\ fault' = fault /\ reg' = reg /\ code' = code
  BY DEF Interrupt
<1>3. r.k = "R" /\ r.op = "park" /\ x.k = "X" /\ x.kind = "wfi_wake" /\ t.k = "T" /\ t.epc = pc + 1 /\ t.push = pc + 1
  BY <1>1 DEF R, X, T
<1>4. records' = <<r, x, t>>
  <2>1. <<r, x>> \o <<t>> = <<r, x, t>>
    BY Concatenated
  <2> QED  BY <1>1, <1>2, <2>1
<1>5. j = ScanAll(i, <<r, x, t>>) /\ q = PartAll(p, <<r, x, t>>)
  BY <1>4
<1>6. /\ Closed(j, q) /\ Awake(j, q) /\ j.brackets = i.brackets /\ SameScript(j, i)
      /\ j.cur.refIndex = i.cur.refIndex /\ j.cur.regs = i.cur.regs /\ j.cur.stores = i.cur.stores
      /\ j.cur.push = (IF i.cur.push = NoPc THEN t.push ELSE i.cur.push) /\ j.cur.epc = t.epc
      /\ q.brackets = p.brackets /\ q.awaiting = p.awaiting /\ q.out = p.out
      /\ q.cur.kind = p.cur.kind /\ SameOpen(q.cur, p.cur) /\ q.cur.ext
  BY <1>3, <1>5, WakeDoes
<1>7. DOMAIN code = PCs /\ Windowed(i, p)
  BY DEF Whole
<1>8. mem'[Slot] = pc + 1 /\ mem'[Local] = mem[Local] /\ pc + 1 # NoPc
  <2>1. pc \in PCs
    BY DEF HartTyped
  <2>2. pc + 1 # NoPc
    BY <2>1, BoundsAssumption DEF PCs, NoPc
  <2> DEFINE e == pc + 1
  <2>3. mem' = [mem EXCEPT ![Slot] = e] /\ DOMAIN mem = {Local, Slot}
    BY <1>2 DEF HartTyped
  <2> HIDE DEF e
  <2>4. mem'[Slot] = e /\ mem'[Local] = mem[Local]
    BY <2>3, MemoryPut DEF Local, Slot
  <2> QED  BY <2>2, <2>4 DEF e
<1>9. i.cur.stores = <<>> /\ i.cur.push = NoPc /\ i.cur.regs = <<>>
  BY <1>7 DEF Windowed, Indexed
<1>10. Windowed(j, q)'
  <2>1. j.nRefRetire = i.nRefRetire /\ j.cur.epc = mem'[Slot]
    BY <1>3, <1>6, <1>8 DEF SameScript
  <2> QED  BY <1>2, <1>6, <1>7, <2>1, WakeWindows
<1>11. Stays(i, p, j, q)
  <2>1. q.out = p.out /\ j.nRefRetire = i.nRefRetire /\ i.nRefRetire \in Nat
    BY <1>6 DEF SameScript, Closed
  <2>2. ASSUME Apart(j)', fault' # "resume"
        PROVE  /\ Apart(i) /\ fault # "resume" /\ Idle(i.nRefRetire, i, j)
               /\ \A w : Present(i, w) => Present(j, w)'
    <3>1. Apart(i) /\ fault # "resume"
      BY <1>2, <1>6, <2>2 DEF Apart, Asleep, Awake
    <3>2. Idle(i.nRefRetire, i, j)
      BY <1>2, <1>6, <2>1, SameFollows DEF Idle
    <3>4. ASSUME NEW w, Present(i, w) PROVE Present(j, w)'
      <4>0. i.depth = 1 /\ DOMAIN i.cur.stores = {}
        BY <1>9 DEF Asleep
      <4>1. reg = w.reg /\ mem[Local] = w.local /\ mem[Slot] = w.slot
        BY <1>9, <3>4, <4>0 DEF Present, Left, Hart
      <4>2. j.depth = 1 /\ DOMAIN j.cur.stores = {} /\ j.cur.push = pc + 1 /\ j.cur.regs = <<>>
        BY <1>3, <1>6, <1>9, <4>0 DEF Awake
      <4>3. Left(j.cur, w, Hart)'
        BY <1>2, <1>8, <4>1, <4>2 DEF Left, Hart
      <4> QED  BY <4>2, <4>3 DEF Present
    <3> QED  BY <3>1, <3>2, <3>4
  <2> QED  BY <2>1, <2>2 DEF Stays
<1> QED  BY <1>2, <1>7, <1>10, <1>11, LivesOn

(* What an instruction of a handler may leave.                                                *)
SameMem == mem'[Local] = mem[Local] /\ mem'[Slot] = mem[Slot]

(* The instructions of a handler, and what they change. *)
LEMMA HandleIs ==
  ASSUME HartTyped, Handle
  PROVE  \/ \E to \in PCs : /\ mem' = [mem EXCEPT ![Slot] = to] /\ reg' = reg
                            /\ records' = <<R(HandlerPc, "redirect", 0), S(Slot, to)>>
         \/ \E op \in IsrOps \ {"redirect"} : \E m :
               /\ records' = <<R(HandlerPc, op, IF op \in Writers THEN reg' ELSE 0)>> \o m
               /\ op \notin Writers => reg' = reg
               /\ \/ op = "store" /\ mem'[Local] = reg /\ mem'[Slot] = mem[Slot] /\ m = <<S(Local, reg)>>
                  \/ op = "mmio" /\ SameMem /\ m = <<L(Device, reg')>>
                  \/ op = "shared" /\ SameMem /\ m = <<L(Shared, reg')>>
                  \/ op = "sc" /\ SameMem /\ reg' = 0 /\ m = <<S(Shared, reg)>>
                  \/ op = "sc" /\ SameMem /\ reg' = 1 /\ (m = <<>> \/ m = <<S(Shared, reg)>>)
                  \/ op = "ignite" /\ SameMem /\ m = <<>>
<1>1. PICK op \in IsrOps :
       IF op = "redirect"
          THEN \E to \in PCs :
                 /\ mem' = [mem EXCEPT ![Slot] = to]
                 /\ records' = <<R(HandlerPc, op, 0), S(Slot, to)>>
                 /\ UNCHANGED reg
          ELSE \E o \in Outcomes(op) :
                 /\ reg' = o.reg /\ mem' = [mem EXCEPT ![Local] = o.local]
                 /\ records' = <<R(HandlerPc, op, RdVal(op, o))>> \o o.m
  BY DEF Handle
<1>2. CASE op = "redirect"
  BY <1>1, <1>2
<1>3. CASE op # "redirect"
  <2>1. PICK o \in Outcomes(op) : /\ reg' = o.reg /\ mem' = [mem EXCEPT ![Local] = o.local]
                                  /\ records' = <<R(HandlerPc, op, RdVal(op, o))>> \o o.m
    BY <1>1, <1>3
  <2>2. op \in {"store", "mmio", "shared", "sc", "ignite"} /\ DOMAIN mem = {Local, Slot}
    BY <1>3, BoundsAssumption DEF HartTyped
  <2> DEFINE v == o.local
             m == o.m
  <2>3. mem'[Local] = v /\ mem'[Slot] = mem[Slot] /\ (v = mem[Local] => SameMem)
    <3>1. mem' = [mem EXCEPT ![Local] = v]
      BY <2>1
    <3> HIDE DEF v
    <3>2. mem'[Local] = v /\ mem'[Slot] = mem[Slot]
      BY <2>2, <3>1, MemoryPut DEF Local, Slot
    <3>3. ASSUME v = mem[Local] PROVE SameMem
      BY <3>2, <3>3 DEF SameMem
    <3> QED  BY <3>2, <3>3
  <2>4. \/ op = "store" /\ reg' = reg /\ v = reg /\ m = <<S(Local, reg)>>
        \/ op = "mmio" /\ v = mem[Local] /\ m = <<L(Device, reg')>>
        \/ op = "shared" /\ v = mem[Local] /\ m = <<L(Shared, reg')>>
        \/ op = "sc" /\ v = mem[Local] /\ reg' = 0 /\ m = <<S(Shared, reg)>>
        \/ op = "sc" /\ v = mem[Local] /\ reg' = 1 /\ (m = <<>> \/ m = <<S(Shared, reg)>>)
        \/ op = "ignite" /\ reg' = reg /\ v = mem[Local] /\ m = <<>>
    <3>1. CASE op = "store"
      BY <2>1, <3>1 DEF Outcomes
    <3>2. CASE op = "mmio"
      BY <2>1, <3>2 DEF Outcomes
    <3>3. CASE op = "shared"
      BY <2>1, <3>3 DEF Outcomes
    <3>4. CASE op = "sc"
      BY <2>1, <3>4 DEF Outcomes
    <3>5. CASE op = "ignite"
      BY <2>1, <3>5 DEF Outcomes
    <3> QED  BY <2>2, <3>1, <3>2, <3>3, <3>4, <3>5
  <2>5. records' = <<R(HandlerPc, op, IF op \in Writers THEN reg' ELSE 0)>> \o m
    BY <2>1 DEF RdVal
  <2>6. op \notin Writers => reg' = reg
    BY <2>2, <2>4 DEF Writers
  <2> HIDE DEF v, m
  <2>7. \/ op = "store" /\ mem'[Local] = reg /\ mem'[Slot] = mem[Slot] /\ m = <<S(Local, reg)>>
        \/ op = "mmio" /\ SameMem /\ m = <<L(Device, reg')>>
        \/ op = "shared" /\ SameMem /\ m = <<L(Shared, reg')>>
        \/ op = "sc" /\ SameMem /\ reg' = 0 /\ m = <<S(Shared, reg)>>
        \/ op = "sc" /\ SameMem /\ reg' = 1 /\ (m = <<>> \/ m = <<S(Shared, reg)>>)
        \/ op = "ignite" /\ SameMem /\ m = <<>>
    BY <2>3, <2>4
  <2> QED  BY <1>3, <2>5, <2>6, <2>7
<1> QED  BY <1>2, <1>3

(* What the scan makes of the open window's b: c.                                             *)
Rewritten(op, b, c) ==
  /\ c.regs = IF op \in Writers THEN <<reg'>> ELSE b.regs
  /\ op \notin Writers => reg' = reg
  /\ c.push = b.push /\ c.epc = b.epc
  /\ \/ c.stores = b.stores /\ SameMem
     \/ \E a, v : /\ c.stores = Put(b.stores, a, v)
                  /\ mem'[Local] = (IF a = Local THEN v ELSE mem[Local])
                  /\ mem'[Slot] = (IF a = Slot THEN v ELSE mem[Slot])

(* The scan's record of an open window is what the handler left so far. *)
LEMMA RewrittenLeaves ==
  ASSUME NEW op, NEW b, NEW c, Rewritten(op, b, c)
  PROVE  /\ Resume(b) = mem[Slot] => Resume(c) = mem'[Slot]
         /\ \A x : Left(b, x, Hart) => Left(c, x, Hart)'
<1>1. /\ c.regs = IF op \in Writers THEN <<reg'>> ELSE b.regs
      /\ op \notin Writers => reg' = reg
      /\ c.push = b.push /\ c.epc = b.epc
  BY DEF Rewritten
<1>2. CASE c.stores = b.stores /\ SameMem
  <2>1. Resume(b) = mem[Slot] => Resume(c) = mem'[Slot]
    BY <1>1, <1>2 DEF Resume, SameMem
  <2>2. ASSUME NEW x, Left(b, x, Hart) PROVE Left(c, x, Hart)'
    BY <1>1, <1>2, <2>2 DEF Left, Hart, SameMem
  <2> QED  BY <2>1, <2>2
<1>3. ASSUME NEW a, NEW v, c.stores = Put(b.stores, a, v),
             mem'[Local] = (IF a = Local THEN v ELSE mem[Local]),
             mem'[Slot] = (IF a = Slot THEN v ELSE mem[Slot])
      PROVE  /\ Resume(b) = mem[Slot] => Resume(c) = mem'[Slot]
             /\ \A x : Left(b, x, Hart) => Left(c, x, Hart)'
  <2>1. \A e : /\ (e \in DOMAIN c.stores) <=> (e \in DOMAIN b.stores \/ e = a)
               /\ e \in DOMAIN c.stores => c.stores[e] = IF e = a THEN v ELSE b.stores[e]
    BY <1>3 DEF Put
  <2>2. Resume(b) = mem[Slot] => Resume(c) = mem'[Slot]
    BY <1>1, <1>3, <2>1 DEF Resume
  <2>3. ASSUME NEW x, Left(b, x, Hart) PROVE Left(c, x, Hart)'
    BY <1>1, <1>3, <2>1, <2>3 DEF Left, Hart
  <2> QED  BY <2>2, <2>3
<1> QED  BY <1>2, <1>3 DEF Rewritten

(* The scan keeps what an instruction of a handler did. *)
LEMMA HandleReads ==
  ASSUME HartTyped, Handle, NEW i, NEW p, Closed(i, p), Awake(i, p),
         NEW j, j = ScanAll(i, records'), NEW q, q = PartAll(p, records')
  PROVE  Within(i, p, j, q) /\ \E op : Rewritten(op, i.cur, j.cur)
<1>1. CASE \E to \in PCs : /\ mem' = [mem EXCEPT ![Slot] = to] /\ reg' = reg
                           /\ records' = <<R(HandlerPc, "redirect", 0), S(Slot, to)>>
  <2>1. PICK to \in PCs : /\ mem' = [mem EXCEPT ![Slot] = to] /\ reg' = reg
                          /\ records' = <<R(HandlerPc, "redirect", 0), S(Slot, to)>>
    BY <1>1
  <2>2. PICK r, w : r = R(HandlerPc, "redirect", 0) /\ w = S(Slot, to)
    OBVIOUS
  <2>3. r.k = "R" /\ r.op = "redirect" /\ w.k = "S" /\ w.addr = Slot /\ w.data = to /\ Memory(w)
    BY <2>2 DEF R, S, Memory
  <2>4. j = ScanAll(i, <<r, w>>) /\ q = PartAll(p, <<r, w>>)
    BY <2>1, <2>2
  <2>5. Rewrites(w) => r.op # "sc" /\ w.data \in PCs
    BY <2>3
  <2>6. /\ Within(i, p, j, q)
        /\ j.cur.stores = IF w.k = "L" \/ (r.op = "sc" /\ r.rdval # 0) THEN i.cur.stores
                          ELSE Put(i.cur.stores, w.addr, w.data)
        /\ j.cur.regs = IF r.op \in Writers THEN <<r.rdval>> ELSE i.cur.regs
    <3>1. Handled(i, p, r, w, j, q)
      BY <2>3, <2>4, <2>5, HandlerMemory
    <3> QED  BY <3>1 DEF Handled
  <2>7. mem'[Slot] = to /\ mem'[Local] = mem[Local]
    BY <2>1, MemoryPut DEF HartTyped, Local, Slot
  <2>8. j.cur.stores = Put(i.cur.stores, Slot, to) /\ j.cur.regs = i.cur.regs
    BY <2>3, <2>6 DEF Writers
  <2>9. Rewritten("redirect", i.cur, j.cur)
    BY <2>1, <2>6, <2>7, <2>8 DEF Rewritten, Within, Writers, Local, Slot
  <2> QED  BY <2>6, <2>9
<1>2. ASSUME NEW op \in IsrOps \ {"redirect"}, NEW m,
             records' = <<R(HandlerPc, op, IF op \in Writers THEN reg' ELSE 0)>> \o m,
             op \notin Writers => reg' = reg,
             \/ op = "store" /\ mem'[Local] = reg /\ mem'[Slot] = mem[Slot] /\ m = <<S(Local, reg)>>
             \/ op = "mmio" /\ SameMem /\ m = <<L(Device, reg')>>
             \/ op = "shared" /\ SameMem /\ m = <<L(Shared, reg')>>
             \/ op = "sc" /\ SameMem /\ reg' = 0 /\ m = <<S(Shared, reg)>>
             \/ op = "sc" /\ SameMem /\ reg' = 1 /\ (m = <<>> \/ m = <<S(Shared, reg)>>)
             \/ op = "ignite" /\ SameMem /\ m = <<>>
      PROVE  Within(i, p, j, q) /\ \E o : Rewritten(o, i.cur, j.cur)
  <2>1. PICK r : r = R(HandlerPc, op, IF op \in Writers THEN reg' ELSE 0)
    OBVIOUS
  <2>2. r.k = "R" /\ r.op = op /\ r.rdval = IF op \in Writers THEN reg' ELSE 0
    BY <2>1 DEF R
  <2>3. CASE m = <<>>
    <3>1. <<r>> \o <<>> = <<r>>
      BY Tuples
    <3>2. j = ScanAll(i, <<r>>) /\ q = PartAll(p, <<r>>)
      BY <1>2, <2>1, <2>3, <3>1
    <3>3. /\ Within(i, p, j, q) /\ j.cur.stores = i.cur.stores
          /\ j.cur.regs = IF r.op \in Writers THEN <<r.rdval>> ELSE i.cur.regs
      <4>1. HandledAlone(i, p, r, j, q)
        BY <2>2, <3>2, HandlerAlone
      <4> QED  BY <4>1 DEF HandledAlone
    <3>4. SameMem
      BY <1>2, <2>3
    <3>5. Rewritten(op, i.cur, j.cur)
      BY <1>2, <2>2, <3>3, <3>4 DEF Rewritten, Within
    <3> QED  BY <3>3, <3>5
  <2>4. ASSUME NEW w, m = <<w>>,
               w \in {S(Local, reg), L(Device, reg'), L(Shared, reg'), S(Shared, reg)}
        PROVE  Within(i, p, j, q) /\ \E o : Rewritten(o, i.cur, j.cur)
    <3>1. <<r>> \o <<w>> = <<r, w>>
      BY Concatenated
    <3>2. j = ScanAll(i, <<r, w>>) /\ q = PartAll(p, <<r, w>>)
      BY <1>2, <2>1, <2>4, <3>1
    <3>3. Memory(w) /\ ~Rewrites(w)
      BY <2>4 DEF Memory, Rewrites, L, S, Local, Device, Shared, Slot
    <3>4. /\ Within(i, p, j, q)
          /\ j.cur.stores = IF w.k = "L" \/ (r.op = "sc" /\ r.rdval # 0) THEN i.cur.stores
                            ELSE Put(i.cur.stores, w.addr, w.data)
          /\ j.cur.regs = IF r.op \in Writers THEN <<r.rdval>> ELSE i.cur.regs
      <4>1. Handled(i, p, r, w, j, q)
        BY <2>2, <3>2, <3>3, HandlerMemory
      <4> QED  BY <4>1 DEF Handled
    <3>5. /\ j.cur.regs = IF op \in Writers THEN <<reg'>> ELSE i.cur.regs
          /\ j.cur.push = i.cur.push /\ j.cur.epc = i.cur.epc
      BY <2>2, <3>4 DEF Within
    <3>6. \/ op = "store" /\ mem'[Local] = reg /\ mem'[Slot] = mem[Slot] /\ w = S(Local, reg)
          \/ op = "mmio" /\ SameMem /\ w = L(Device, reg')
          \/ op = "shared" /\ SameMem /\ w = L(Shared, reg')
          \/ op = "sc" /\ SameMem /\ w = S(Shared, reg) /\ reg' = 0
          \/ op = "sc" /\ SameMem /\ w = S(Shared, reg) /\ reg' = 1
      BY <1>2, <2>4
    <3>7. CASE op = "store" /\ mem'[Local] = reg /\ mem'[Slot] = mem[Slot] /\ w = S(Local, reg)
      <4>1. j.cur.stores = Put(i.cur.stores, Local, reg)
        BY <2>2, <3>4, <3>7 DEF S
      <4>2. Rewritten(op, i.cur, j.cur)
        BY <1>2, <3>5, <3>7, <4>1 DEF Rewritten, Local, Slot
      <4> QED  BY <3>4, <4>2
    <3>8. CASE SameMem /\ (w = L(Device, reg') \/ w = L(Shared, reg'))
      <4>1. j.cur.stores = i.cur.stores
        BY <3>4, <3>8 DEF L
      <4>2. Rewritten(op, i.cur, j.cur)
        BY <1>2, <3>5, <3>8, <4>1 DEF Rewritten
      <4> QED  BY <3>4, <4>2
    <3>9. CASE op = "sc" /\ SameMem /\ w = S(Shared, reg) /\ reg' = 0
      <4>1. j.cur.stores = Put(i.cur.stores, Shared, reg)
        BY <2>2, <3>4, <3>9 DEF S, Writers
      <4>2. Rewritten(op, i.cur, j.cur)
        BY <1>2, <3>5, <3>9, <4>1 DEF Rewritten, SameMem, Local, Shared, Slot
      <4> QED  BY <3>4, <4>2
    <3>10. CASE op = "sc" /\ SameMem /\ w = S(Shared, reg) /\ reg' = 1
      <4>1. j.cur.stores = i.cur.stores
        BY <2>2, <3>4, <3>10 DEF Writers
      <4>2. Rewritten(op, i.cur, j.cur)
        BY <1>2, <3>5, <3>10, <4>1 DEF Rewritten
      <4> QED  BY <3>4, <4>2
    <3> QED  BY <3>6, <3>7, <3>8, <3>9, <3>10
  <2> QED  BY <1>2, <2>3, <2>4
<1> QED  BY <1>1, <1>2, HandleIs

(* An instruction of a handler. *)
LEMMA HandleStep ==
  ASSUME HartTyped, Handle, ~wfiArmed, NEW i, NEW p, Closed(i, p), Awake(i, p), Whole(i, p),
         NEW j, j = ScanAll(i, records'), NEW q, q = PartAll(p, records')
  PROVE  Whole(j, q)'
<1>1. Within(i, p, j, q)
  BY HandleReads
<1>2. PICK op : Rewritten(op, i.cur, j.cur)
  BY HandleReads
<1>3. /\ Resume(i.cur) = mem[Slot] => Resume(j.cur) = mem'[Slot]
      /\ \A x : Left(i.cur, x, Hart) => Left(j.cur, x, Hart)'
  BY <1>2, RewrittenLeaves
<1>4. /\ mode = "isr" /\ due' = due /\ abut' = abut /\ wfiArmed' = FALSE /\ fault' = fault /\ pc' = pc
      /\ code' = code
  BY DEF Handle
<1>5. DOMAIN code = PCs /\ Windowed(i, p)
  BY DEF Whole
<1>6. Windowed(j, q)'
  <2>1. Resume(j.cur) = mem'[Slot]
    BY <1>3, <1>4, <1>5 DEF Windowed, Indexed
  <2> QED  BY <1>1, <1>4, <1>5, <2>1, HandleWindows
<1>7. Stays(i, p, j, q)
  <2>1. q.out = p.out /\ j.nRefRetire = i.nRefRetire /\ i.nRefRetire \in Nat /\ i.depth = 1 /\ j.depth = 1
    BY <1>1 DEF Within, Awake, SameScript, Closed
  <2>2. ASSUME Apart(j)', fault' # "resume"
        PROVE  /\ Apart(i) /\ fault # "resume" /\ Idle(i.nRefRetire, i, j)
               /\ \A x : Present(i, x) => Present(j, x)'
    <3>1. Apart(i) /\ fault # "resume"
      BY <1>1, <1>4, <2>1, <2>2 DEF Apart, Within
    <3>2. Idle(i.nRefRetire, i, j)
      BY <1>1, <1>4, <2>1, SameFollows DEF Idle, Within
    <3>3. ASSUME NEW x, Present(i, x) PROVE Present(j, x)'
      BY <1>3, <2>1, <3>3 DEF Present
    <3> QED  BY <3>1, <3>2, <3>3
  <2> QED  BY <2>1, <2>2 DEF Stays
<1> QED  BY <1>4, <1>5, <1>6, <1>7, LivesOn

(* An iret closes the window: the hart is where the window says, or the fault is a wrong      *)
(* resume.                                                                                    *)
LEMMA IretStep ==
  ASSUME HartTyped, Iret, ~wfiArmed, NEW i, NEW p, Closed(i, p), Awake(i, p), Whole(i, p),
         NEW j, j = ScanAll(i, records'), NEW q, q = PartAll(p, records')
  PROVE  Whole(j, q)'
<1>1. PICK e : e = X("iret")
  OBVIOUS
<1>2. e.k = "X" /\ e.kind = "iret"
  BY <1>1 DEF X
<1>3. j = ScanAll(i, <<e>>) /\ q = PartAll(p, <<e>>)
  BY <1>1 DEF Iret
<1>4. /\ Closed(j, q) /\ Outwith(j, q) /\ j.brackets = Append(i.brackets, i.cur) /\ SameScript(j, i)
      /\ q.out = p.out /\ q.awaiting = p.awaiting \cup {Len(p.brackets) + 1}
      /\ \E b : /\ q.brackets = Append(p.brackets, b)
                /\ b.closed = TRUE /\ b.parked = p.cur.parked /\ b.landing = p.cur.landing
  <2>1. Returns(i, p, j, q)
    BY <1>2, <1>3, IretDoes
  <2> QED  BY <2>1 DEF Returns
<1>5. /\ mode = "isr" /\ mode' # "isr" /\ wfiArmed' = FALSE /\ due' = TRUE /\ abut' = abut
      /\ \/ pc' = mem[Slot] /\ fault' = fault
         \/ pc' # mem[Slot] /\ fault = "none" /\ fault' = "resume"
      /\ code' = code /\ reg' = reg /\ mem' = mem
  BY DEF Iret
<1>6. DOMAIN code = PCs /\ Windowed(i, p)
  BY DEF Whole
<1>7. j.nRefRetire = i.nRefRetire /\ i.nRefRetire \in Nat /\ IsSeq(i.brackets)
  BY <1>4 DEF SameScript, Closed
<1>8. Windowed(j, q)'
  <2>1. PICK b : /\ q.brackets = Append(p.brackets, b)
                 /\ b.closed = TRUE /\ b.parked = p.cur.parked /\ b.landing = p.cur.landing
    BY <1>4
  <2> QED  BY <1>4, <1>5, <1>6, <1>7, <2>1, IretWindows
<1>9. Stays(i, p, j, q)
  <2>0. PICK w, f, l : w = i.cur /\ f = i.brackets /\ l = Len(i.brackets)
    OBVIOUS
  <2>1. /\ l \in Nat /\ DOMAIN f = 1 .. l /\ DOMAIN j.brackets = 1 .. l + 1
        /\ \A b \in DOMAIN f : j.brackets[b] = f[b]
        /\ j.brackets[l + 1] = w
    <3>1. IsSeq(f) /\ l = Len(f) /\ j.brackets = Append(f, w)
      BY <1>4, <1>7, <2>0
    <3> DEFINE g == Append(f, w)
    <3>2. IsSeq(g) /\ Len(g) = l + 1 /\ l \in Nat /\ DOMAIN f = 1 .. l /\ g[l + 1] = w /\ \A b \in 1 .. l : g[b] = f[b]
      BY <3>1, SeqFacts
    <3> HIDE DEF g
    <3>3. DOMAIN g = 1 .. Len(g)
      BY <3>2, SeqFacts
    <3>4. j.brackets = g
      BY <3>1 DEF g
    <3> QED  BY <3>2, <3>3, <3>4
  <2>2. w.refIndex = i.nRefRetire /\ i.depth = 1 /\ j.depth = 0 /\ Resume(w) = mem[Slot]
    BY <1>4, <1>5, <1>6, <2>0 DEF Windowed, Indexed, Awake, Outwith
  <2>3. ASSUME Apart(j)', fault' # "resume"
        PROVE  /\ Apart(i) /\ fault # "resume" /\ Idle(i.nRefRetire, i, j)
               /\ \A x : Present(i, x) => Present(j, x)'
    <3>1. fault # "resume" /\ fault' = fault /\ pc' = mem[Slot]
      BY <1>5, <2>3
    <3>2. Apart(i)
      <4>1. \A m, n \in DOMAIN j.brackets : j.brackets[m].refIndex = j.brackets[n].refIndex => m = n
        BY <2>3 DEF Apart
      <4>2. \A b \in DOMAIN f : b \in DOMAIN j.brackets /\ b # l + 1
        BY <2>1
      <4>3. l + 1 \in DOMAIN j.brackets
        BY <2>1
      <4>4. \A m, n \in DOMAIN f : f[m].refIndex = f[n].refIndex => m = n
        BY <2>1, <4>1, <4>2
      <4>5. \A n \in DOMAIN f : f[n].refIndex # w.refIndex
        BY <2>1, <4>1, <4>2, <4>3
      <4> QED  BY <2>0, <4>4, <4>5 DEF Apart
    <3>3. Idle(i.nRefRetire, i, j)
      <4>1. ASSUME NEW m \in 0 .. i.nRefRetire - 1, NEW x, NEW y, Follows(i, m, x, y) PROVE Follows(j, m, x, y)
        <5>1. m # i.nRefRetire
          BY <1>7
        <5>2. CASE (\A n \in DOMAIN i.brackets : i.brackets[n].refIndex # m) /\ Unmoved(x, y)
          <6>1. \A n \in DOMAIN j.brackets : n = l + 1 \/ n \in DOMAIN f
            BY <2>1
          <6>2. \A n \in DOMAIN j.brackets : j.brackets[n].refIndex # m
            BY <2>0, <2>1, <2>2, <5>1, <5>2, <6>1
          <6> QED  BY <5>2, <6>2 DEF Follows
        <5>3. CASE \E n \in DOMAIN i.brackets : /\ i.brackets[n].refIndex = m
                                                /\ Left(i.brackets[n], x, y) /\ y.pc = Resume(i.brackets[n])
          <6>1. PICK n \in DOMAIN f : f[n].refIndex = m /\ Left(f[n], x, y) /\ y.pc = Resume(f[n])
            BY <2>0, <5>3
          <6>2. n \in DOMAIN j.brackets /\ j.brackets[n] = f[n]
            BY <2>1
          <6> QED  BY <6>1, <6>2 DEF Follows
        <5> QED  BY <4>1, <5>2, <5>3 DEF Follows
      <4> QED  BY <1>4, <1>5, <1>7, <3>1, <4>1 DEF Idle
    <3>4. ASSUME NEW x, Present(i, x) PROVE Present(j, x)'
      <4>1. Left(w, x, Hart)
        BY <2>0, <2>2, <3>4 DEF Present
      <4>2. Left(w, x, Hart)'
        BY <1>5, <4>1 DEF Left, Hart
      <4>3. l + 1 \in DOMAIN j.brackets
        BY <2>1
      <4>4. (Hart.pc = Resume(w))'
        BY <2>2, <3>1 DEF Hart, Resume
      <4>5. Follows(j, j.nRefRetire, x, Hart)'
        BY <1>7, <2>1, <2>2, <4>2, <4>3, <4>4 DEF Follows, Resume
      <4> QED  BY <2>2, <4>5 DEF Present
    <3> QED  BY <3>1, <3>2, <3>3, <3>4
  <2> QED  BY <1>4, <1>7, <2>3 DEF Stays
<1> QED  BY <1>5, <1>6, <1>8, <1>9, LivesOn

-----------------------------------------------------------------------------
(* The readers ahead of the records still pending, whatever they have taken so far.           *)
Ahead == \A i, p : i = ScanAll(inj, records) /\ p = PartAll(part, records) => Whole(i, p)

(* The hart stands still.                                                                     *)
Still == UNCHANGED <<code, pc, reg, mem, mode, wfiArmed, due, abut, fault>>

(* While the hart stands still so does what is said of it. *)
LEMMA StillPast ==
  ASSUME Still, NEW n, NEW i, NEW s, NEW after, NEW before, NEW kept, Past(n, i, s, after, before, kept)
  PROVE  Past(n, i, s, after, before, kept)'
<1>1. \A j, x, y, z : Effect(i, s, kept, j, x, y, z) => Effect(i, s, kept, j, x, y, z)'
  BY DEF Still, Effect
<1>2. ASSUME NEW j, NEW x, NEW y, NEW z, Retired(i, s, kept, j, x, y, z)
      PROVE  Retired(i, s, kept, j, x, y, z)'
  <2>1. code' = code
    BY DEF Still
  <2>2. Effect(i, s, kept, j, x, y, z)'
    BY ONLY <1>1, <1>2 DEF Retired
  <2> QED  BY ONLY <1>2, <2>1, <2>2 DEF Retired
<1>3. ASSUME NEW j, NEW x, NEW y, NEW z, Reached(i, s, kept, j, x, y, z)
      PROVE  Reached(i, s, kept, j, x, y, z)'
  <2>1. fault' = fault
    BY DEF Still
  <2>2. Retired(i, s, kept, j, x, y, z)'
    BY ONLY <1>2, <1>3 DEF Reached
  <2>3. Follows(i, j, x, y)'
    BY ONLY <1>3 DEF Reached, Follows, Unmoved, Left, Resume
  <2> QED  BY ONLY <1>3, <2>1, <2>2, <2>3 DEF Reached, Typed
<1> QED  BY <1>3 DEF Still, Past, Placed, Typed, Kept

LEMMA StillWhole ==
  ASSUME Still, NEW i, NEW p, Whole(i, p)
  PROVE  Whole(i, p)'
<1>1. Indexed(i)'
  BY DEF Still, Whole, Windowed, Indexed, Apart, Resume
<1>2. Structured(i, p)'
  BY DEF Still, Whole, Windowed, Structured
<1>3. Landing(i, p)'
  BY DEF Still, Whole, Windowed, Landing, Lands, Apart, Expected
<1>4. ASSUME Apart(i)', fault' # "resume" PROVE Lived(i, p.out)'
  <2>1. Apart(i) /\ fault # "resume"
    BY <1>4 DEF Apart, Still
  <2>2. PICK n, s : n = i.nRefRetire /\ s = p.out
    OBVIOUS
  <2>3. PICK after, before, kept : Past(n, i, s, after, before, kept) /\ Present(i, after[n])
    BY <2>1, <2>2 DEF Whole, Lived
  <2>4. Past(n, i, s, after, before, kept)'
    BY <2>3, StillPast
  <2>5. Present(i, after[n])'
    BY <2>3 DEF Still, Present, Follows, Unmoved, Left, Resume, Hart
  <2>6. Past(i.nRefRetire, i, p.out, after, before, kept)' /\ Present(i, after[i.nRefRetire])'
    BY <2>2, <2>4, <2>5
  <2> QED  BY <2>6 DEF Lived
<1>5. DOMAIN code' = PCs
  BY DEF Still, Whole
<1> QED  BY <1>1, <1>2, <1>3, <1>4, <1>5 DEF Whole, Windowed

(* Reading a record is what the readers will have done when all are read. *)
LEMMA ReadsAhead ==
  ASSUME Shape, records # <<>>
  PROVE  /\ ScanAll(Scan(inj, Head(records)), Tail(records)) = ScanAll(inj, records)
         /\ PartAll(Partition(part, Head(records)), Tail(records)) = PartAll(part, records)
<1>1. \/ \E a : records = <<a>>
      \/ \E a, b : records = <<a, b>>
      \/ \E a, b, c : records = <<a, b, c>>
  BY DEF Shape, Executing, Traced
<1>2. CASE \E a : records = <<a>>
  <2>1. PICK a : records = <<a>>
    BY <1>2
  <2>2. Head(records) = a /\ Tail(records) = <<>>
    BY <2>1, Tuples
  <2>3. ScanAll(Scan(inj, a), <<>>) = Scan(inj, a) /\ PartAll(Partition(part, a), <<>>) = Partition(part, a)
    BY ScanNone
  <2>4. ScanAll(inj, <<a>>) = Scan(inj, a) /\ PartAll(part, <<a>>) = Partition(part, a)
    BY ScanOne
  <2> QED  BY <2>1, <2>2, <2>3, <2>4
<1>3. CASE \E a, b : records = <<a, b>>
  <2>1. PICK a, b : records = <<a, b>>
    BY <1>3
  <2>2. Head(records) = a /\ Tail(records) = <<b>>
    BY <2>1, Tuples
  <2>3. ScanAll(Scan(inj, a), <<b>>) = Scan(Scan(inj, a), b)
        /\ PartAll(Partition(part, a), <<b>>) = Partition(Partition(part, a), b)
    BY ScanOne
  <2>4. ScanAll(inj, <<a, b>>) = Scan(Scan(inj, a), b) /\ PartAll(part, <<a, b>>) = Partition(Partition(part, a), b)
    BY ScanTwo
  <2> QED  BY <2>1, <2>2, <2>3, <2>4
<1>4. CASE \E a, b, c : records = <<a, b, c>>
  <2>1. PICK a, b, c : records = <<a, b, c>>
    BY <1>4
  <2>2. Head(records) = a /\ Tail(records) = <<b, c>>
    BY <2>1, Tuples
  <2>3. ScanAll(Scan(inj, a), <<b, c>>) = Scan(Scan(Scan(inj, a), b), c)
        /\ PartAll(Partition(part, a), <<b, c>>) = Partition(Partition(Partition(part, a), b), c)
    BY ScanTwo
  <2>4. ScanAll(inj, <<a, b, c>>) = Scan(Scan(Scan(inj, a), b), c)
        /\ PartAll(part, <<a, b, c>>) = Partition(Partition(Partition(part, a), b), c)
    BY ScanThree
  <2> QED  BY <2>1, <2>2, <2>3, <2>4
<1> QED  BY <1>1, <1>2, <1>3, <1>4

(* Reading changes nothing of the readers ahead; a step of the hart is one of the steps       *)
(* above.                                                                                     *)
LEMMA ReadAhead ==
  ASSUME IInv, Ahead, Read
  PROVE  Ahead'
<1>1. /\ ScanAll(inj', records') = ScanAll(inj, records)
      /\ PartAll(part', records') = PartAll(part, records)
  BY ReadsAhead DEF IInv, Read
<1>2. Still
  BY DEF Read, Still
<1> SUFFICES ASSUME NEW i, NEW p, i = ScanAll(inj', records'), p = PartAll(part', records')
             PROVE  Whole(i, p)'
  BY DEF Ahead
<1>3. Whole(i, p)
  BY <1>1 DEF Ahead
<1> QED  BY <1>2, <1>3, StillWhole

LEMMA SimulateAhead ==
  ASSUME HartTyped, IInv, ForcedBelow(inj), Ahead, Simulate
  PROVE  Ahead'
<1>1. records = <<>> /\ Resting /\ Closed(inj, part) /\ inj' = inj /\ part' = part
  BY DEF Simulate, HartNext, Retire, Park, Interrupt, Handle, Iret, IInv, Shape, Executing, Traced
<1> SUFFICES ASSUME NEW j, NEW q, j = ScanAll(inj', records'), q = PartAll(part', records')
             PROVE  Whole(j, q)'
  BY DEF Ahead
<1>2. PICK i, p : i = inj /\ p = part
  OBVIOUS
<1>3. j = ScanAll(i, records') /\ q = PartAll(p, records')
  BY <1>1, <1>2
<1>4. Whole(i, p)
  <2>1. ScanAll(inj, <<>>) = inj /\ PartAll(part, <<>>) = part
    BY ScanNone
  <2> QED  BY <1>1, <1>2, <2>1 DEF Ahead
<1>5. Closed(i, p) /\ ForcedBelow(i)
  BY <1>1, <1>2
<1>6. \/ mode = "run" /\ ~wfiArmed /\ Outwith(i, p)
      \/ mode = "isr" /\ ~wfiArmed /\ Awake(i, p)
      \/ mode = "sleep" /\ wfiArmed /\ Asleep(i, p)
      \/ mode = "sleep" /\ ~wfiArmed /\ Outwith(i, p)
  BY <1>1, <1>2 DEF Resting
<1>7. CASE Retire
  <2>1. mode = "run"
    BY <1>7 DEF Retire
  <2> QED  BY <1>3, <1>4, <1>5, <1>6, <1>7, <2>1, RetireDoes
<1>8. CASE Park
  <2>1. mode = "run"
    BY <1>8 DEF Park
  <2> QED  BY <1>3, <1>4, <1>5, <1>6, <1>8, <2>1, ParkStep
<1>9. CASE Interrupt /\ ~wfiArmed
  <2>1. mode # "isr"
    BY <1>9 DEF Interrupt
  <2> QED  BY <1>3, <1>4, <1>5, <1>6, <1>9, <2>1, TrapStep
<1>10. CASE Interrupt /\ wfiArmed
  BY <1>3, <1>4, <1>5, <1>6, <1>10, WakeStep
<1>11. CASE Handle
  <2>1. mode = "isr"
    BY <1>11 DEF Handle
  <2> QED  BY <1>3, <1>4, <1>5, <1>6, <1>11, <2>1, HandleStep
<1>12. CASE Iret
  <2>1. mode = "isr"
    BY <1>12 DEF Iret
  <2> QED  BY <1>3, <1>4, <1>5, <1>6, <1>12, <2>1, IretStep
<1> QED  BY <1>7, <1>8, <1>9, <1>10, <1>11, <1>12 DEF Simulate, HartNext

(* Before the first instruction there is no window and the history is empty. *)
LEMMA InitAhead == Init => Ahead
<1> SUFFICES ASSUME Init, NEW i, NEW p, i = ScanAll(inj, records), p = PartAll(part, records)
             PROVE  Whole(i, p)
  BY DEF Ahead
<1>1. i = inj /\ p = part
  <2>1. records = <<>>
    BY DEF Init, HartInit
  <2> QED  BY <2>1, ScanNone
<1>2. /\ i.depth = 0 /\ i.brackets = <<>> /\ i.nRefRetire = 0 /\ i.recs = <<>>
      /\ p.brackets = <<>> /\ p.awaiting = {} /\ p.out = <<>>
  <2>1. inj.depth = 0 /\ inj.brackets = <<>> /\ inj.nRefRetire = 0 /\ inj.recs = <<>>
    BY DEF Init, InjInit
  <2>2. part.brackets = <<>> /\ part.awaiting = {} /\ part.out = <<>>
    BY DEF Init, PartInit
  <2> QED  BY <1>1, <2>1, <2>2
<1>3. fault = "none" /\ mode = "run" /\ wfiArmed = FALSE /\ due = FALSE /\ pc = 0 /\ reg = 0
  BY DEF Init, HartInit
<1>4. mem[Local] = 0 /\ mem[Slot] = 0 /\ DOMAIN code = PCs
  BY DEF Init, HartInit, Local, Slot
<1>5. Windowed(i, p)
  <2>1. Apart(i)
    BY <1>2 DEF Apart
  <2>2. Indexed(i)
    BY <1>2, <1>3, <2>1 DEF Indexed
  <2>3. Structured(i, p)
    BY <1>2, <1>3 DEF Structured
  <2>4. Landing(i, p)
    BY <1>2, <1>3 DEF Landing
  <2> QED  BY <2>2, <2>3, <2>4 DEF Windowed
<1>6. Lived(i, p.out)
  <2>1. PICK after, w : after = [n \in {0} |-> Start] /\ w = Start
    OBVIOUS
  <2>2. after[0] = Start /\ 0 \in Nat
    BY <2>1
  <2>3. Start.reg = 0 /\ Start.local = 0 /\ Start.slot = 0 /\ Start.pc = 0 /\ Start.next = 1 /\ Start.to = 1
    BY DEF Start
  <2>4. Placed(Start)
    BY <2>3 DEF Placed, Typed, Values
  <2>5. IsSeq(<<>>) /\ Len(<<>>) = 0 /\ DOMAIN <<>> = {}
    <3>1. <<>> = [x \in 1 .. 0 |-> <<>>[x]]
      OBVIOUS
    <3> QED  BY <3>1 DEF IsSeq
  <2>6. Kept(<<>>, <<>>, Start.to - 1)
    <3>1. Start.to - 1 = 0
      BY <2>3
    <3> DEFINE m == Start.to - 1
    <3>2. m = 0
      BY <3>1
    <3> HIDE DEF m
    <3>3. Kept(<<>>, <<>>, m)
      BY <2>5, <3>2 DEF Kept
    <3> QED  BY <3>3 DEF m
  <2>7. Past(0, i, <<>>, after, <<>>, <<>>)
    <3>1. \A j \in 0 .. 0 : j = 0
      OBVIOUS
    <3>2. \A j \in 0 .. 0 - 1 : FALSE
      OBVIOUS
    <3>3. \A j \in 0 .. 0 : Placed(after[j]) /\ after[j].to <= after[0].to
      BY <2>2, <2>3, <2>4, <3>1
    <3>4. Kept(<<>>, <<>>, after[0].to - 1)
      BY <2>2, <2>6
    <3>5. IsSeq(i.recs) /\ after[0].next = Len(i.recs) + 1
      BY <1>2, <2>2, <2>3, <2>5
    <3>6. fault \notin Wrong
      BY <1>3 DEF Wrong
    <3> QED  BY <2>2, <3>2, <3>3, <3>4, <3>5, <3>6 DEF Past
  <2>8. Present(i, after[0])
    <3>1. Unmoved(Start, Hart)
      BY <1>3, <1>4, <2>3 DEF Unmoved, Hart
    <3> QED  BY <1>2, <2>2, <2>5, <3>1 DEF Present, Follows
  <2> QED  BY <1>2, <2>7, <2>8 DEF Lived
<1> QED  BY <1>4, <1>5, <1>6 DEF Whole

(* The last verdict on an sc.w is taken: the script's failures are those foreseen. *)
LEMMA ResolveWhole ==
  ASSUME Still, NEW i, NEW p, IsInj(i), i.nRefRetire \in Nat, Whole(i, p), NEW j, j = ResolveSc(i)
  PROVE  Whole(j, p)'
<1>1. /\ j.brackets = i.brackets /\ j.cur = i.cur /\ j.depth = i.depth /\ j.nRefRetire = i.nRefRetire
      /\ SameScript(j, i)
  <2> DEFINE u == ResolveSc(i)
  <2>1. /\ u.brackets = i.brackets /\ u.cur = i.cur /\ u.depth = i.depth /\ u.nRefRetire = i.nRefRetire
    BY ResolveScKeeps
  <2>2. SameScript(u, i)
    BY ResolveScript
  <2>3. j = u
    OBVIOUS
  <2> HIDE DEF u
  <2> QED  BY <2>1, <2>2, <2>3
<1>2. Windowed(j, p)'
  <2>1. Windowed(i, p)'
    BY StillWhole DEF Whole
  <2>2. Apart(j) <=> Apart(i)
    BY <1>1 DEF Apart
  <2>3. Indexed(j)'
    BY <1>1, <2>1, <2>2 DEF Windowed, Indexed, Apart
  <2>4. Structured(j, p)'
    BY <1>1, <2>1 DEF Windowed, Structured
  <2>5. Landing(j, p)'
    BY <2>1, <2>2 DEF Windowed, Landing, Apart
  <2> QED  BY <2>3, <2>4, <2>5 DEF Windowed
<1>3. Stays(i, p, j, p)
  <2>1. ASSUME Apart(j)', fault' # "resume"
        PROVE  /\ Apart(i) /\ fault # "resume" /\ Idle(i.nRefRetire, i, j)
               /\ \A x : Present(i, x) => Present(j, x)'
    <3>1. Apart(i) /\ fault # "resume"
      BY <1>1, <2>1 DEF Apart, Still
    <3>2. Idle(i.nRefRetire, i, j)
      BY <1>1, SameFollows DEF Idle, Still
    <3>3. ASSUME NEW x, Present(i, x) PROVE Present(j, x)'
      BY <1>1, <3>3 DEF Present, Follows, Unmoved, Left, Hart, Resume, Still
    <3> QED  BY <3>1, <3>2, <3>3
  <2> QED  BY <1>1, <2>1 DEF Stays
<1>4. DOMAIN code' = PCs
  BY DEF Still, Whole
<1> QED  BY <1>2, <1>3, <1>4, LivesOn

(* The end of the simulation and what comes after it leave the hart's run alone. *)
LEMMA CutAhead ==
  ASSUME IInv, Ahead, Cut
  PROVE  Ahead'
<1>1. records = <<>> /\ records' = <<>> /\ Still
  BY DEF Cut, hartVars, Still
<1> SUFFICES ASSUME NEW j, NEW q, j = ScanAll(inj', records'), q = PartAll(part', records')
             PROVE  Whole(j, q)'
  BY DEF Ahead
<1>2. PICK i : i = inj
  OBVIOUS
<1>3. inj' = ResolveSc(inj) /\ part' = part
  BY DEF Cut
<1>4. j = ResolveSc(i) /\ q = part
  BY <1>1, <1>2, <1>3, ScanNone
<1>5. Whole(i, q)
  BY <1>1, <1>2, <1>4, ScanNone DEF Ahead
<1>6. IsInj(i) /\ i.nRefRetire \in Nat
  BY <1>2 DEF IInv, Closed
<1> QED  BY <1>1, <1>4, <1>5, <1>6, ResolveWhole

LEMMA FrozenAhead ==
  ASSUME Ahead, UNCHANGED <<hartVars, inj, part>>
  PROVE  Ahead'
<1>1. Still /\ records' = records /\ inj' = inj /\ part' = part
  BY DEF hartVars, Still
<1> SUFFICES ASSUME NEW i, NEW p, i = ScanAll(inj', records'), p = PartAll(part', records')
             PROVE  Whole(i, p)'
  BY DEF Ahead
<1>2. Whole(i, p)
  BY <1>1 DEF Ahead
<1> QED  BY <1>1, <1>2, StillWhole

-----------------------------------------------------------------------------
(* The state m of the reference is y's, with the record k of the replay list next.            *)
Holding(m, y, k) ==
  /\ DOMAIN m = {"pc", "reg", "mem", "next"} /\ DOMAIN m.mem = {Local, Shared, Slot}
  /\ m.pc = y.pc /\ m.reg = y.reg /\ m.mem[Local] = y.local /\ m.mem[Slot] = y.slot /\ m.next = k

(* The window whose B record the realignment applies is the only one at its index.            *)
LEMMA TheBracket ==
  ASSUME NEW i, Apart(i), NEW n \in DOMAIN i.brackets
  PROVE  LET at == BracketsAt(i, i.brackets[n].refIndex) IN at # {} /\ (CHOOSE b \in at : TRUE) = n
<1> DEFINE at == BracketsAt(i, i.brackets[n].refIndex)
<1>1. n \in at
  BY DEF BracketsAt
<1>2. \A b \in at : b = n
  BY DEF BracketsAt, Apart
<1> HIDE DEF at
<1>3. (CHOOSE b \in at : TRUE) \in at
  BY <1>1
<1>4. at # {} /\ (CHOOSE b \in at : TRUE) = n
  BY <1>1, <1>2, <1>3
<1> QED  BY <1>4 DEF at

(* The script realigns the reference to where the hart stood before its next instruction: the *)
(* memory and the register a window left, and the PC it resumed at.                           *)
LEMMA Realigns ==
  ASSUME NEW i, Apart(i), NEW j, NEW m, NEW x, NEW y, Follows(i, j, x, y), Holding(m, x, x.next),
         NEW a, a = Realign(i, j, m)
  PROVE  Holding(a, y, x.next) /\ (j \in DOMAIN i.plants => a.mem[Shared] = i.plants[j])
<1>1. CASE (\A n \in DOMAIN i.brackets : i.brackets[n].refIndex # j) /\ Unmoved(x, y)
  <2>1. BracketsAt(i, j) = {}
    BY <1>1 DEF BracketsAt
  <2>2. PICK left : left = IF j \in DOMAIN i.plants THEN [m.mem EXCEPT ![Shared] = i.plants[j]] ELSE m.mem
    OBVIOUS
  <2>3. a = [m EXCEPT !.mem = left, !.reg = @, !.pc = @]
    BY <2>1, <2>2 DEF Realign
  <2>4. /\ DOMAIN left = {Local, Shared, Slot} /\ left[Local] = m.mem[Local] /\ left[Slot] = m.mem[Slot]
        /\ j \in DOMAIN i.plants => left[Shared] = i.plants[j]
    BY <2>2 DEF Holding, Local, Slot, Shared
  <2>5. /\ DOMAIN a = {"pc", "reg", "mem", "next"} /\ a.mem = left /\ a.reg = m.reg /\ a.pc = m.pc
        /\ a.next = m.next
    BY <2>3 DEF Holding
  <2> QED  BY <1>1, <2>4, <2>5 DEF Holding, Unmoved
<1>2. CASE \E n \in DOMAIN i.brackets : /\ i.brackets[n].refIndex = j
                                        /\ Left(i.brackets[n], x, y) /\ y.pc = Resume(i.brackets[n])
  <2>1. PICK n \in DOMAIN i.brackets :
          i.brackets[n].refIndex = j /\ Left(i.brackets[n], x, y) /\ y.pc = Resume(i.brackets[n])
    BY <1>2
  <2>2. PICK w : w = i.brackets[n]
    OBVIOUS
  <2>3. BracketsAt(i, j) # {} /\ (CHOOSE b \in BracketsAt(i, j) : TRUE) = n
    BY <2>1, TheBracket
  <2>4. PICK back : back = Replay(w, m.mem)
    OBVIOUS
  <2>5. PICK left : left = IF j \in DOMAIN i.plants THEN [back EXCEPT ![Shared] = i.plants[j]] ELSE back
    OBVIOUS
  <2>6. a = [m EXCEPT !.mem = left, !.reg = IF w.regs # <<>> THEN w.regs[1] ELSE @, !.pc = Resume(w)]
    BY <2>2, <2>3, <2>4, <2>5 DEF Realign
  <2>7. DOMAIN back = {Local, Shared, Slot} /\ back[Local] = y.local /\ back[Slot] = y.slot
    BY <2>1, <2>2, <2>4 DEF Replay, Holding, Left, Local, Slot, Shared, Device
  <2>8. /\ DOMAIN left = {Local, Shared, Slot} /\ left[Local] = y.local /\ left[Slot] = y.slot
        /\ j \in DOMAIN i.plants => left[Shared] = i.plants[j]
    BY <2>5, <2>7 DEF Local, Slot, Shared
  <2>9. /\ DOMAIN a = {"pc", "reg", "mem", "next"} /\ a.mem = left /\ a.next = m.next
        /\ a.reg = (IF w.regs # <<>> THEN w.regs[1] ELSE m.reg) /\ a.pc = Resume(w)
    BY <2>6 DEF Holding
  <2>10. a.reg = y.reg /\ a.pc = y.pc
    BY <2>1, <2>2, <2>9 DEF Left, Holding
  <2> QED  BY <2>8, <2>9, <2>10 DEF Holding
<1> QED  BY <1>1, <1>2 DEF Follows

(* What the reference does of an instruction, and its log records.                            *)
Executed(a, op, v, f, b, m) ==
  /\ \/ op = "load" /\ b.reg = a.mem[Local] /\ m = <<R(a.pc, op, a.mem[Local]), L(Local, 0)>>
     \/ op = "store" /\ b.reg = a.reg /\ m = <<R(a.pc, op, 0), S(Local, a.reg)>>
     \/ op = "mmio" /\ b.reg = v /\ m = <<R(a.pc, op, v), L(Device, 0)>>
     \/ op = "shared" /\ b.reg = a.mem[Shared] /\ m = <<R(a.pc, op, a.mem[Shared]), L(Shared, 0)>>
     \/ op = "sc" /\ f /\ b.reg = 1 /\ m = <<R(a.pc, op, 1)>>
     \/ op = "sc" /\ ~f /\ b.reg = 0 /\ m = <<R(a.pc, op, 0), S(Shared, a.reg)>>
  /\ DOMAIN b = {"pc", "reg", "mem", "next"} /\ DOMAIN b.mem = {Local, Shared, Slot}
  /\ b.pc = a.pc + 1 /\ b.next = (IF op = "mmio" THEN a.next + 1 ELSE a.next)
  /\ b.mem[Local] = (IF op = "store" THEN a.reg ELSE a.mem[Local]) /\ b.mem[Slot] = a.mem[Slot]

(* An instruction of the reference, by its kind. *)
LEMMA ExecuteIs ==
  ASSUME NEW a, DOMAIN a = {"pc", "reg", "mem", "next"}, DOMAIN a.mem = {Local, Shared, Slot},
         NEW op \in {"load", "store", "mmio", "shared", "sc"}, NEW v, NEW f \in BOOLEAN,
         NEW x, x = Execute(a, op, v, f)
  PROVE  Executed(a, op, v, f, x[1], x[2])
<1>1. CASE op = "load"
  <2>1. x = <<[[a EXCEPT !.pc = @ + 1] EXCEPT !.reg = a.mem[Local]], <<R(a.pc, op, a.mem[Local]), L(Local, 0)>>>>
    BY <1>1 DEF Execute
  <2>2. PICK b, m : b = [[a EXCEPT !.pc = @ + 1] EXCEPT !.reg = a.mem[Local]] /\ m = <<R(a.pc, op, a.mem[Local]), L(Local, 0)>>
    OBVIOUS
  <2>3. /\ DOMAIN b = {"pc", "reg", "mem", "next"} /\ b.mem = a.mem /\ b.pc = a.pc + 1
        /\ b.reg = a.mem[Local] /\ b.next = a.next
    BY <2>2
  <2>4. Executed(a, op, v, f, b, m)
    BY <1>1, <2>2, <2>3 DEF Executed
  <2>5. x[1] = b /\ x[2] = m
    BY <2>1, <2>2
  <2> QED  BY <2>4, <2>5
<1>2. CASE op = "store"
  <2>1. x = <<[[a EXCEPT !.pc = @ + 1] EXCEPT !.mem[Local] = a.reg], <<R(a.pc, op, 0), S(Local, a.reg)>>>>
    BY <1>2 DEF Execute
  <2>2. PICK left : left = [a.mem EXCEPT ![Local] = a.reg]
    OBVIOUS
  <2>3. DOMAIN left = {Local, Shared, Slot} /\ left[Local] = a.reg /\ left[Slot] = a.mem[Slot]
    BY <2>2 DEF Local, Slot, Shared
  <2>4. x[1] = [[a EXCEPT !.pc = @ + 1] EXCEPT !.mem = left] /\ x[2] = <<R(a.pc, op, 0), S(Local, a.reg)>>
    BY <2>1, <2>2
  <2> QED  BY <1>2, <2>3, <2>4 DEF Executed
<1>3. CASE op = "mmio"
  <2>1. x = <<[[[a EXCEPT !.pc = @ + 1] EXCEPT !.reg = v] EXCEPT !.next = @ + 1], <<R(a.pc, op, v), L(Device, 0)>>>>
    BY <1>3 DEF Execute
  <2>2. PICK b, m : b = [[[a EXCEPT !.pc = @ + 1] EXCEPT !.reg = v] EXCEPT !.next = @ + 1] /\ m = <<R(a.pc, op, v), L(Device, 0)>>
    OBVIOUS
  <2>3. /\ DOMAIN b = {"pc", "reg", "mem", "next"} /\ b.mem = a.mem /\ b.pc = a.pc + 1
        /\ b.reg = v /\ b.next = a.next + 1
    BY <2>2
  <2>4. Executed(a, op, v, f, b, m)
    BY <1>3, <2>2, <2>3 DEF Executed
  <2>5. x[1] = b /\ x[2] = m
    BY <2>1, <2>2
  <2> QED  BY <2>4, <2>5
<1>4. CASE op = "shared"
  <2>1. x = <<[[a EXCEPT !.pc = @ + 1] EXCEPT !.reg = a.mem[Shared]],
              <<R(a.pc, op, a.mem[Shared]), L(Shared, 0)>>>>
    BY <1>4 DEF Execute
  <2>2. PICK b, m : b = [[a EXCEPT !.pc = @ + 1] EXCEPT !.reg = a.mem[Shared]] /\ m = <<R(a.pc, op, a.mem[Shared]), L(Shared, 0)>>
    OBVIOUS
  <2>3. /\ DOMAIN b = {"pc", "reg", "mem", "next"} /\ b.mem = a.mem /\ b.pc = a.pc + 1
        /\ b.reg = a.mem[Shared] /\ b.next = a.next
    BY <2>2
  <2>4. Executed(a, op, v, f, b, m)
    BY <1>4, <2>2, <2>3 DEF Executed
  <2>5. x[1] = b /\ x[2] = m
    BY <2>1, <2>2
  <2> QED  BY <2>4, <2>5
<1>5. CASE op = "sc" /\ f
  <2>1. x = <<[[a EXCEPT !.pc = @ + 1] EXCEPT !.reg = 1], <<R(a.pc, op, 1)>>>>
    BY <1>5 DEF Execute
  <2>2. PICK b, m : b = [[a EXCEPT !.pc = @ + 1] EXCEPT !.reg = 1] /\ m = <<R(a.pc, op, 1)>>
    OBVIOUS
  <2>3. /\ DOMAIN b = {"pc", "reg", "mem", "next"} /\ b.mem = a.mem /\ b.pc = a.pc + 1
        /\ b.reg = 1 /\ b.next = a.next
    BY <2>2
  <2>4. Executed(a, op, v, f, b, m)
    BY <1>5, <2>2, <2>3 DEF Executed
  <2>5. x[1] = b /\ x[2] = m
    BY <2>1, <2>2
  <2> QED  BY <2>4, <2>5
<1>6. CASE op = "sc" /\ ~f
  <2>1. x = <<[[[a EXCEPT !.pc = @ + 1] EXCEPT !.reg = 0] EXCEPT !.mem[Shared] = a.reg],
              <<R(a.pc, op, 0), S(Shared, a.reg)>>>>
    BY <1>6 DEF Execute
  <2>2. PICK left : left = [a.mem EXCEPT ![Shared] = a.reg]
    OBVIOUS
  <2>3. DOMAIN left = {Local, Shared, Slot} /\ left[Local] = a.mem[Local] /\ left[Slot] = a.mem[Slot]
    BY <2>2 DEF Local, Slot, Shared
  <2>4. /\ x[1] = [[[a EXCEPT !.pc = @ + 1] EXCEPT !.reg = 0] EXCEPT !.mem = left]
        /\ x[2] = <<R(a.pc, op, 0), S(Shared, a.reg)>>
    BY <2>1, <2>2
  <2> QED  BY <1>6, <2>3, <2>4 DEF Executed
<1> QED  BY <1>1, <1>2, <1>3, <1>4, <1>5, <1>6

(* What the program can hold but a park. *)
Kinds == {"load", "store", "mmio", "shared", "sc"}

(* The reference and the hart at retire j: x and y are the hart's states before and after the *)
(* realignment, z what it reached; a and b are the reference's, and m what it logs.           *)
Met(i, s, kept, j, x, y, z, a, b, m) ==
  /\ Typed(y) /\ y.ok \in BOOLEAN /\ y.op \in Kinds /\ x.to \in Nat /\ z.pc = y.pc + 1 /\ z.slot = y.slot
  /\ Holding(a, y, x.next) /\ (j \in DOMAIN i.plants => a.mem[Shared] = i.plants[j])
  /\ Executed(a, y.op, IF y.op = "mmio" THEN i.recs[x.next] ELSE 0, j \in Forced(i), b, m)
  /\ Line(s, kept, x.to) = R(y.pc, y.op, IF y.op \in Writers THEN z.reg ELSE 0)
  /\ z.next = (IF y.op = "mmio" THEN x.next + 1 ELSE x.next)
  /\ y.op # "store" => z.local = y.local
  /\ Effect(i, s, kept, j, x, y, z)

(* The line q of the stream is compared equal to the record c of the log. *)
Same(s, kept, q, c) == Key(Line(s, kept, q)) = Key(c)

(* The reference does what the hart did and logs what is compared with it; *)
Agreed(s, kept, x, y, z, b, m) ==
  /\ y.ok /\ Holding(b, z, z.next)
  /\ \/ \E c : m = <<c>> /\ z.to = x.to + 1 /\ Same(s, kept, x.to, c)
     \/ \E c, d : /\ m = <<c, d>> /\ z.to = x.to + 2
                  /\ Same(s, kept, x.to, c) /\ Same(s, kept, x.to + 1, d)
(* or one of its two records is not the hart's; *)
Differed(s, kept, x, y, z, m) ==
  /\ ~y.ok /\ z.to = x.to + 2
  /\ \E c, d : m = <<c, d>> /\ (~Same(s, kept, x.to, c) \/ ~Same(s, kept, x.to + 1, d))
(* or it stores, where the hart's sc.w claimed to have and did not.                           *)
Unwritten(i, s, kept, j, x, y, z, b, m) ==
  /\ ~y.ok /\ fault = "lost" /\ Holding(b, z, z.next) /\ z.to = x.to + 1
  /\ \E c, d : m = <<c, d>> /\ Same(s, kept, x.to, c) /\ d.k = "S"
  /\ Line(s, kept, x.to).k = "R" /\ Line(s, kept, x.to).op = "sc"
  /\ j + 1 = i.nRefRetire => s[Len(s)] = Line(s, kept, x.to)

(* What is compared of each kind of record. *)
LEMMA KeyIs ==
  /\ \A p, op, v : /\ R(p, op, v).k = "R" /\ R(p, op, v).op = op
                   /\ Key(R(p, op, v)) = <<"R", p, op, v>>
  /\ \A a, v : /\ Key(L(a, v)) = <<"M", "L", a>> /\ Key(S(a, v)) = <<"M", "S", a, v>>
               /\ L(a, v).k = "L" /\ S(a, v).k = "S"
  /\ \A c : c.k = "L" => Key(c) = <<"M", "L", c.addr>>
BY DEF Key, R, L, S

(* One retire of the reference against the same of the hart.                                  *)
LEMMA Meets ==
  ASSUME NEW i, NEW s, NEW kept, NEW j, NEW x, NEW y, NEW z, NEW a, NEW b, NEW m,
         Met(i, s, kept, j, x, y, z, a, b, m)
  PROVE  \/ Agreed(s, kept, x, y, z, b, m) \/ Differed(s, kept, x, y, z, m)
         \/ Unwritten(i, s, kept, j, x, y, z, b, m)
<1>1. /\ Typed(y) /\ y.ok \in BOOLEAN /\ x.to \in Nat /\ z.pc = y.pc + 1 /\ z.slot = y.slot
      /\ DOMAIN b = {"pc", "reg", "mem", "next"} /\ DOMAIN b.mem = {Local, Shared, Slot}
      /\ b.pc = z.pc /\ b.next = z.next /\ b.mem[Slot] = z.slot
      /\ a.pc = y.pc /\ a.reg = y.reg /\ a.mem[Local] = y.local
  BY DEF Met, Holding, Executed
<1>2. Line(s, kept, x.to) = R(y.pc, y.op, IF y.op \in Writers THEN z.reg ELSE 0)
  BY DEF Met
<1>3. y.op # "store" => b.mem[Local] = z.local
  BY DEF Met, Executed, Holding
<1>4. CASE y.op = "load"
  <2>1. /\ m = <<R(y.pc, y.op, y.local), L(Local, 0)>> /\ b.reg = y.local
        /\ z.reg = (IF y.ok THEN y.local ELSE 1 - y.local) /\ z.to = x.to + 2
        /\ Line(s, kept, x.to + 1).k = "L" /\ Line(s, kept, x.to + 1).addr = Local
    BY <1>1, <1>4 DEF Met, Executed, Effect
  <2>2. Line(s, kept, x.to) = R(y.pc, y.op, z.reg)
    BY <1>2, <1>4 DEF Writers
  <2>3. Key(Line(s, kept, x.to)) = <<"R", y.pc, y.op, z.reg>> /\ Key(R(y.pc, y.op, y.local)) = <<"R", y.pc, y.op, y.local>>
    BY <2>2, KeyIs
  <2>4. Same(s, kept, x.to + 1, L(Local, 0))
    BY <2>1, KeyIs DEF Same
  <2>5. CASE y.ok
    <3>1. Same(s, kept, x.to, R(y.pc, y.op, y.local)) /\ Holding(b, z, z.next)
      BY <1>1, <1>3, <1>4, <2>1, <2>3, <2>5 DEF Same, Holding
    <3> QED  BY <2>1, <2>4, <2>5, <3>1 DEF Agreed
  <2>6. CASE ~y.ok
    <3>1. z.reg # y.local
      BY <1>1, <2>1, <2>6 DEF Typed, Values
    <3>2. ~Same(s, kept, x.to, R(y.pc, y.op, y.local))
      BY <2>3, <3>1 DEF Same
    <3> QED  BY <2>1, <2>6, <3>2 DEF Differed
  <2> QED  BY <2>5, <2>6
<1>5. CASE y.op = "store"
  <2>1. /\ m = <<R(y.pc, y.op, 0), S(Local, y.reg)>> /\ b.reg = y.reg /\ b.mem[Local] = y.reg /\ z.reg = y.reg
        /\ z.local = (IF y.ok THEN y.reg ELSE 1 - y.reg) /\ z.to = x.to + 2
        /\ Line(s, kept, x.to + 1) = S(Local, z.local)
    BY <1>1, <1>5 DEF Met, Executed, Effect
  <2>2. Same(s, kept, x.to, R(y.pc, y.op, 0))
    BY <1>2, <1>5 DEF Writers, Same
  <2>3. /\ Key(Line(s, kept, x.to + 1)) = <<"M", "S", Local, z.local>>
        /\ Key(S(Local, y.reg)) = <<"M", "S", Local, y.reg>>
    BY <2>1, KeyIs
  <2>4. CASE y.ok
    <3>1. Same(s, kept, x.to + 1, S(Local, y.reg)) /\ Holding(b, z, z.next)
      BY <1>1, <2>1, <2>3, <2>4 DEF Same, Holding
    <3> QED  BY <2>1, <2>2, <2>4, <3>1 DEF Agreed
  <2>5. CASE ~y.ok
    <3>1. z.local # y.reg
      BY <1>1, <2>1, <2>5 DEF Typed, Values
    <3>2. ~Same(s, kept, x.to + 1, S(Local, y.reg))
      BY <2>3, <3>1 DEF Same
    <3> QED  BY <2>1, <2>5, <3>2 DEF Differed
  <2> QED  BY <2>4, <2>5
<1>6. CASE y.op = "mmio"
  <2>1. /\ m = <<R(y.pc, y.op, z.reg), L(Device, 0)>> /\ b.reg = z.reg /\ y.ok /\ z.to = x.to + 2
        /\ Line(s, kept, x.to + 1).k = "L" /\ Line(s, kept, x.to + 1).addr = Device
    BY <1>1, <1>6 DEF Met, Executed, Effect
  <2>2. Same(s, kept, x.to, R(y.pc, y.op, z.reg)) /\ Same(s, kept, x.to + 1, L(Device, 0))
    BY <1>2, <1>6, <2>1, KeyIs DEF Writers, Same
  <2>3. Holding(b, z, z.next)
    BY <1>1, <1>3, <1>6, <2>1 DEF Holding
  <2> QED  BY <2>1, <2>2, <2>3 DEF Agreed
<1>7. CASE y.op = "shared"
  <2>1. /\ m = <<R(y.pc, y.op, z.reg), L(Shared, 0)>> /\ b.reg = z.reg /\ y.ok /\ z.to = x.to + 2
        /\ Line(s, kept, x.to + 1).k = "L" /\ Line(s, kept, x.to + 1).addr = Shared
    BY <1>1, <1>7 DEF Met, Executed, Effect
  <2>2. Same(s, kept, x.to, R(y.pc, y.op, z.reg)) /\ Same(s, kept, x.to + 1, L(Shared, 0))
    BY <1>2, <1>7, <2>1, KeyIs DEF Writers, Same
  <2>3. Holding(b, z, z.next)
    BY <1>1, <1>3, <1>7, <2>1 DEF Holding
  <2> QED  BY <2>1, <2>2, <2>3 DEF Agreed
<1>8. CASE y.op = "sc"
  <2>1. Line(s, kept, x.to) = R(y.pc, y.op, z.reg)
    BY <1>2, <1>8 DEF Writers
  <2>2. CASE j \in Forced(i)
    <3>1. m = <<R(y.pc, y.op, 1)>> /\ b.reg = 1 /\ y.ok /\ z.reg = 1 /\ z.to = x.to + 1
      BY <1>1, <1>8, <2>2 DEF Met, Executed, Effect
    <3>2. Same(s, kept, x.to, R(y.pc, y.op, 1)) /\ Holding(b, z, z.next)
      BY <1>1, <1>3, <1>8, <2>1, <3>1 DEF Same, Holding
    <3> QED  BY <3>1, <3>2 DEF Agreed
  <2>3. CASE j \notin Forced(i)
    <3>1. m = <<R(y.pc, y.op, 0), S(Shared, y.reg)>> /\ b.reg = 0 /\ z.reg = 0
      BY <1>1, <1>8, <2>3 DEF Met, Executed, Effect
    <3>2. Same(s, kept, x.to, R(y.pc, y.op, 0)) /\ Holding(b, z, z.next)
      BY <1>1, <1>3, <1>8, <2>1, <3>1 DEF Same, Holding
    <3>3. \/ y.ok /\ z.to = x.to + 2 /\ Line(s, kept, x.to + 1) = S(Shared, y.reg)
          \/ /\ ~y.ok /\ z.to = x.to + 1 /\ fault = "lost"
             /\ j + 1 = i.nRefRetire => s[Len(s)] = Line(s, kept, x.to)
      BY <1>8, <2>3 DEF Met, Effect
    <3>4. CASE y.ok /\ z.to = x.to + 2 /\ Line(s, kept, x.to + 1) = S(Shared, y.reg)
      <4>1. Same(s, kept, x.to + 1, S(Shared, y.reg))
        BY <3>4 DEF Same
      <4> QED  BY <3>1, <3>2, <3>4, <4>1 DEF Agreed
    <3>5. CASE /\ ~y.ok /\ z.to = x.to + 1 /\ fault = "lost"
               /\ j + 1 = i.nRefRetire => s[Len(s)] = Line(s, kept, x.to)
      <4>1. Line(s, kept, x.to).k = "R" /\ Line(s, kept, x.to).op = "sc" /\ S(Shared, y.reg).k = "S"
        BY <1>8, <2>1, KeyIs
      <4> QED  BY <3>1, <3>2, <3>5, <4>1 DEF Unwritten
    <3> QED  BY <3>3, <3>4, <3>5
  <2> QED  BY <2>2, <2>3
<1> QED  BY <1>4, <1>5, <1>6, <1>7, <1>8 DEF Met, Kinds

-----------------------------------------------------------------------------
(* The reference and its log against the hart's history: it is where the hart was;            *)
Tracks(s, after, before, kept) ==
  /\ Holding(ref, after[retires], after[retires].next)
  /\ Len(log) + 1 = after[retires].to
  /\ \A q \in 1 .. Len(log) : Same(s, kept, q, log[q])
  /\ \A j \in 0 .. retires - 1 : before[j].ok
(* or a record of the compared stream is not the reference's;                                 *)
Diverged(n, s, after, kept) ==
  fault \in Wrong /\ \E q \in 1 .. Len(log) : q < after[n].to /\ ~Same(s, kept, q, log[q])
(* or the write the hart lost is the last of what is compared.                                *)
LostLast(n, s, after, kept) ==
  /\ fault = "lost" /\ retires = n /\ Holding(ref, after[n], after[n].next)
  /\ Len(log) = after[n].to
  /\ \A q \in 1 .. Len(log) - 1 : Same(s, kept, q, log[q])
  /\ s[Len(s)].k = "R" /\ s[Len(s)].op = "sc"

(* One of the three holds from the first instruction of the reference to the verdict. *)
Compared(n, s, after, before, kept) ==
  /\ retires \in 0 .. n
  /\ Tracks(s, after, before, kept) \/ Diverged(n, s, after, kept) \/ LostLast(n, s, after, kept)

(* The reference tracks the hart and has a retire to go. *)
Reaching(n, i, s, after, before, kept) ==
  /\ i = inj /\ n \in Nat /\ i.nRefRetire = n /\ retires \in Nat /\ retires < n
  /\ Apart(i) /\ IsInj(i) /\ i.scPend.open = FALSE
  /\ Past(n, i, s, after, before, kept) /\ Tracks(s, after, before, kept)

(* The retire of the history it meets next, the realigned reference with it. *)
Stepped(n, i, s, after, before, kept, x, y, z, a) ==
  /\ x = after[retires] /\ y = before[retires] /\ z = after[retires + 1] /\ a = Realigned
  /\ Placed(x) /\ Placed(z) /\ x.to < z.to /\ z.to <= after[n].to
  /\ Reached(i, s, kept, retires, x, y, z) /\ y.op \in Kinds
  /\ Holding(a, y, x.next) /\ (retires \in DOMAIN i.plants => a.mem[Shared] = i.plants[retires])

(* While it tracks the hart the reference fetches what the hart executed: it never traps, and *)
(* a device load finds a record left in the replay list.                                      *)
LEMMA Fetches ==
  ASSUME NEW n, NEW i, NEW s, NEW after, NEW before, NEW kept, Reaching(n, i, s, after, before, kept)
  PROVE  /\ \E x, y, z, a : Stepped(n, i, s, after, before, kept, x, y, z, a) /\ Fetched = y.op
         /\ ~Trapped /\ ~Exhausted
<1>1. PICK x, y, z : x = after[retires] /\ y = before[retires] /\ z = after[retires + 1]
  OBVIOUS
<1>2. PICK a : a = Realigned
  OBVIOUS
<1>3. retires \in 0 .. n - 1 /\ retires \in 0 .. n /\ retires + 1 \in 0 .. n
  BY DEF Reaching
<1>4. /\ Placed(x) /\ Placed(z) /\ z.to <= after[n].to /\ Reached(i, s, kept, retires, x, y, z)
      /\ Holding(ref, x, x.next) /\ Apart(i) /\ a = Realign(i, retires, ref)
  BY <1>1, <1>2, <1>3 DEF Reaching, Past, Tracks, Realigned
<1>5. y.op \in Kinds
  BY <1>4, BoundsAssumption DEF Reached, Retired, Kinds
<1>6. x.to < z.to
  BY <1>4, <1>5 DEF Reached, Retired, Effect, Placed, Kinds
<1>7. Holding(a, y, x.next) /\ (retires \in DOMAIN i.plants => a.mem[Shared] = i.plants[retires])
  BY <1>4, Realigns DEF Reached
<1>8. Fetched = y.op
  BY <1>2, <1>4, <1>7 DEF Fetched, Holding, Reached, Retired
<1>9. ~Trapped
  BY <1>5, <1>8 DEF Trapped, Kinds
<1>10. ~Exhausted
  <2>1. CASE y.op = "mmio"
    <3>1. x.next \in DOMAIN i.recs
      BY <1>4, <2>1 DEF Reached, Retired, Effect
    <3>2. IsSeq(i.recs) /\ i = inj
      BY DEF Reaching, Past
    <3>3. x.next <= Len(i.recs) /\ Len(i.recs) \in Nat
      BY <3>1, <3>2, SeqFacts
    <3>4. a.next = x.next
      BY <1>7 DEF Holding
    <3>5. x.next \in Nat
      BY <1>4 DEF Placed
    <3> QED  BY <1>2, <3>2, <3>3, <3>4, <3>5 DEF Exhausted
  <2>2. CASE y.op # "mmio"
    BY <1>8, <2>2 DEF Exhausted
  <2> QED  BY <2>1, <2>2
<1>11. Stepped(n, i, s, after, before, kept, x, y, z, a)
  BY <1>1, <1>2, <1>4, <1>5, <1>6, <1>7 DEF Stepped
<1> QED  BY <1>8, <1>9, <1>10, <1>11

(* A step of the reference that tracks the hart meets the hart's own.                         *)
LEMMA StepMeets ==
  ASSUME NEW n, NEW i, NEW s, NEW after, NEW before, NEW kept, Reaching(n, i, s, after, before, kept), RefStep,
         NEW x, NEW y, NEW z, NEW a, Stepped(n, i, s, after, before, kept, x, y, z, a), Fetched = y.op
  PROVE  \E b, m : Met(i, s, kept, retires, x, y, z, a, b, m) /\ ref' = b /\ log' = log \o m
<1>1. /\ DOMAIN a = {"pc", "reg", "mem", "next"} /\ DOMAIN a.mem = {Local, Shared, Slot} /\ a.next = x.next
      /\ y.op \in Kinds /\ a = Realigned
  BY DEF Stepped, Holding
<1>2. PICK v : v = IF y.op = "mmio" THEN i.recs[x.next] ELSE 0
  OBVIOUS
<1>3. PICK f \in BOOLEAN : f <=> (retires \in i.scFails)
  <2>1. CASE retires \in i.scFails
    BY <2>1
  <2>2. CASE retires \notin i.scFails
    BY <2>2
  <2> QED  BY <2>1, <2>2
<1>4. i = inj /\ IsInj(i) /\ i.scPend.open = FALSE
  BY DEF Reaching
<1>5. Forced(i) = i.scFails
  BY <1>4, ForcedIs
<1>6. PICK u : u = Execute(a, y.op, v, f)
  OBVIOUS
<1>7. ref' = u[1] /\ log' = log \o u[2]
  BY <1>1, <1>2, <1>3, <1>4, <1>6 DEF RefStep
<1>8. Executed(a, y.op, v, f, u[1], u[2])
  BY <1>1, <1>6, ExecuteIs DEF Kinds
<1>9. Executed(a, y.op, IF y.op = "mmio" THEN i.recs[x.next] ELSE 0, retires \in Forced(i), u[1], u[2])
  BY <1>2, <1>3, <1>5, <1>8 DEF Executed
<1>10. Met(i, s, kept, retires, x, y, z, a, u[1], u[2])
  <2>1. /\ Typed(y) /\ y.ok \in BOOLEAN /\ z.pc = y.pc + 1 /\ z.slot = y.slot
        /\ Line(s, kept, x.to) = R(y.pc, y.op, IF y.op \in Writers THEN z.reg ELSE 0)
        /\ z.next = (IF y.op = "mmio" THEN x.next + 1 ELSE x.next)
        /\ y.op # "store" => z.local = y.local
        /\ Effect(i, s, kept, retires, x, y, z)
    BY DEF Stepped, Reached, Retired
  <2>2. /\ x.to \in Nat /\ Holding(a, y, x.next)
        /\ retires \in DOMAIN i.plants => a.mem[Shared] = i.plants[retires]
    BY DEF Stepped, Placed
  <2> QED  BY <1>1, <1>9, <2>1, <2>2 DEF Met
<1> QED  BY <1>7, <1>10

(* Appending to the log keeps its lines. *)
LEMMA LogLines ==
  ASSUME NEW s, IsSeq(s), NEW a, NEW b
  PROVE  /\ \A q \in 1 .. Len(s) : (s \o <<a>>)[q] = s[q] /\ (s \o <<a, b>>)[q] = s[q]
         /\ (s \o <<a>>)[Len(s) + 1] = a
         /\ (s \o <<a, b>>)[Len(s) + 1] = a /\ (s \o <<a, b>>)[Len(s) + 2] = b
<1>1. PICK n \in Nat : s = [i \in 1 .. n |-> s[i]]
  BY DEF IsSeq
<1> DEFINE E == {s[i] : i \in 1 .. n} \cup {a, b}
<1>2. s \in Seq(E)
  BY <1>1
<1>3. a \in E /\ b \in E
  OBVIOUS
<1> HIDE DEF E
<1>4. <<a>> \in Seq(E) /\ <<a, b>> \in Seq(E) /\ Len(s) \in Nat
  BY <1>2, <1>3
<1>5. \A q \in 1 .. Len(s) : (s \o <<a>>)[q] = s[q] /\ (s \o <<a, b>>)[q] = s[q]
  BY <1>2, <1>4
<1>6. (s \o <<a>>)[Len(s) + 1] = a
  BY <1>2, <1>4
<1>7. (s \o <<a, b>>)[Len(s) + 1] = a /\ (s \o <<a, b>>)[Len(s) + 2] = b
  BY <1>2, <1>4
<1> QED  BY <1>5, <1>6, <1>7

(* A retire's first line is a retire: no store is compared equal to it. *)
LEMMA NextLine ==
  ASSUME NEW i, NEW s, NEW kept, NEW j, NEW x, NEW y, NEW z, Reached(i, s, kept, j, x, y, z),
         Placed(x), Placed(z)
  PROVE  x.to < z.to /\ \A d : d.k = "S" => ~Same(s, kept, x.to, d)
<1>1. y.op \in Kinds
  BY BoundsAssumption DEF Reached, Retired, Kinds
<1>2. x.to < z.to
  BY <1>1 DEF Reached, Retired, Effect, Placed, Kinds
<1>3. PICK v : Line(s, kept, x.to) = R(y.pc, y.op, v)
  BY DEF Reached, Retired
<1>4. Key(Line(s, kept, x.to)) = <<"R", y.pc, y.op, v>>
  BY <1>3, KeyIs
<1>5. ASSUME NEW d, d.k = "S" PROVE ~Same(s, kept, x.to, d)
  <2>1. Key(d) = <<"M", "S", d.addr, d.data>>
    BY <1>5 DEF Key
  <2>2. Key(d)[1] = "M" /\ Key(Line(s, kept, x.to))[1] = "R"
    BY <1>4, <2>1
  <2> QED  BY <2>2 DEF Same
<1> QED  BY <1>2, <1>5

(* One step of the reference that tracks the hart keeps the comparison.                       *)
LEMMA TracksStep ==
  ASSUME NEW n, NEW i, NEW s, NEW after, NEW before, NEW kept, Reaching(n, i, s, after, before, kept),
         RefStep, IsSeq(log), fault' = fault
  PROVE  Compared(n, s, after, before, kept)'
<1>1. PICK x, y, z, a : Stepped(n, i, s, after, before, kept, x, y, z, a) /\ Fetched = y.op
  BY Fetches
<1>2. PICK b, m : Met(i, s, kept, retires, x, y, z, a, b, m) /\ ref' = b /\ log' = log \o m
  BY <1>1, StepMeets
<1>3. PICK l, k, e : l = log /\ k = log' /\ e = retires'
  OBVIOUS
<1>4. /\ e = retires + 1 /\ retires \in Nat /\ n \in Nat /\ e \in 1 .. n /\ x = after[retires] /\ z = after[e]
      /\ y = before[retires] /\ Placed(x) /\ Placed(z) /\ x.to < z.to /\ z.to <= after[n].to
      /\ y.ok \/ fault \in Wrong
  <2>1. retires \in Nat /\ n \in Nat /\ retires < n
    BY ONLY Reaching(n, i, s, after, before, kept) DEF Reaching
  <2>2. e = retires + 1
    BY <1>3 DEF RefStep
  <2>3. e \in 1 .. n
    BY ONLY <2>1, <2>2
  <2>4. /\ x = after[retires] /\ y = before[retires] /\ z = after[retires + 1]
        /\ Placed(x) /\ Placed(z) /\ x.to < z.to /\ z.to <= after[n].to
        /\ Reached(i, s, kept, retires, x, y, z)
    BY ONLY <1>1 DEF Stepped
  <2>5. y.ok \/ fault \in Wrong
    BY ONLY <2>4 DEF Reached
  <2> QED  BY ONLY <2>1, <2>2, <2>3, <2>4, <2>5
<1>5. PICK d : d = Len(l)
  OBVIOUS
<1>6. /\ IsSeq(l) /\ d \in Nat /\ x.to = d + 1 /\ x.to \in Nat
      /\ \A q \in 1 .. d : Same(s, kept, q, l[q])
      /\ \A j \in 0 .. retires - 1 : before[j].ok
  BY <1>3, <1>4, <1>5, SeqFacts DEF Reaching, Tracks, Placed
<1>7. k = l \o m
  BY <1>2, <1>3
<1>8. e \in 0 .. n
  BY <1>4
<1>9. CASE Agreed(s, kept, x, y, z, b, m)
  <2>1. Len(k) + 1 = z.to /\ \A q \in 1 .. Len(k) : Same(s, kept, q, k[q])
    <3>1. CASE \E c : m = <<c>> /\ z.to = x.to + 1 /\ Same(s, kept, x.to, c)
      <4>1. PICK c : m = <<c>> /\ z.to = x.to + 1 /\ Same(s, kept, x.to, c)
        BY <3>1
      <4>2. Len(k) = d + 1 /\ k[d + 1] = c /\ \A q \in 1 .. d : k[q] = l[q]
        BY <1>5, <1>6, <1>7, <4>1, LogGrows, LogLines
      <4>3. \A q \in 1 .. d + 1 : q \in 1 .. d \/ q = d + 1
        BY <1>6
      <4> QED  BY <1>6, <4>1, <4>2, <4>3
    <3>2. CASE \E c, f : /\ m = <<c, f>> /\ z.to = x.to + 2
                         /\ Same(s, kept, x.to, c) /\ Same(s, kept, x.to + 1, f)
      <4>1. PICK c, f : /\ m = <<c, f>> /\ z.to = x.to + 2
                        /\ Same(s, kept, x.to, c) /\ Same(s, kept, x.to + 1, f)
        BY <3>2
      <4>2. Len(k) = d + 2 /\ k[d + 1] = c /\ k[d + 2] = f /\ \A q \in 1 .. d : k[q] = l[q]
        BY <1>5, <1>6, <1>7, <4>1, LogGrows, LogLines
      <4>3. \A q \in 1 .. d + 2 : q \in 1 .. d \/ q = d + 1 \/ q = d + 2
        BY <1>6
      <4>4. x.to + 1 = d + 2
        BY <1>6
      <4>5. Same(s, kept, d + 1, c) /\ Same(s, kept, d + 2, f)
        BY <1>6, <4>1, <4>4
      <4> QED  BY <1>6, <4>1, <4>2, <4>3, <4>5
    <3> QED  BY <1>9, <3>1, <3>2 DEF Agreed
  <2>2. Holding(b, z, z.next) /\ \A j \in 0 .. e - 1 : before[j].ok
    <3>1. \A j \in 0 .. e - 1 : j \in 0 .. retires - 1 \/ j = retires
      BY <1>4
    <3> QED  BY <1>4, <1>6, <1>9, <3>1 DEF Agreed
  <2>3. Tracks(s, after, before, kept)'
    BY <1>2, <1>3, <1>4, <2>1, <2>2 DEF Tracks
  <2> QED  BY <1>3, <1>8, <2>3 DEF Compared
<1>10. CASE Differed(s, kept, x, y, z, m)
  <2>1. PICK c, f : m = <<c, f>> /\ (~Same(s, kept, x.to, c) \/ ~Same(s, kept, x.to + 1, f))
    BY <1>10 DEF Differed
  <2>2. Len(k) = d + 2 /\ k[d + 1] = c /\ k[d + 2] = f
    BY <1>5, <1>6, <1>7, <2>1, LogGrows, LogLines
  <2>3. fault \in Wrong /\ z.to = d + 3
    BY <1>4, <1>6, <1>10 DEF Differed
  <2>4. x.to + 1 = d + 2 /\ d + 1 \in 1 .. d + 2 /\ d + 2 \in 1 .. d + 2
    BY <1>6
  <2>5. d + 1 < after[n].to /\ d + 2 < after[n].to
    <3>1. after[n].to \in Nat
      BY <1>4 DEF Reaching, Past, Placed
    <3> QED  BY <1>4, <1>6, <2>3, <3>1
  <2>6. \E q \in 1 .. Len(k) : q < after[n].to /\ ~Same(s, kept, q, k[q])
    <3>1. CASE ~Same(s, kept, x.to, c)
      BY <1>6, <2>2, <2>4, <2>5, <3>1
    <3>2. CASE ~Same(s, kept, x.to + 1, f)
      BY <2>2, <2>4, <2>5, <3>2
    <3> QED  BY <2>1, <3>1, <3>2
  <2>7. Diverged(n, s, after, kept)'
    BY <1>3, <2>3, <2>6 DEF Diverged
  <2> QED  BY <1>3, <1>8, <2>7 DEF Compared
<1>11. CASE Unwritten(i, s, kept, retires, x, y, z, b, m)
  <2>1. PICK c, f : m = <<c, f>> /\ Same(s, kept, x.to, c) /\ f.k = "S"
    BY <1>11 DEF Unwritten
  <2>2. Len(k) = d + 2 /\ k[d + 1] = c /\ k[d + 2] = f /\ \A q \in 1 .. d : k[q] = l[q]
    BY <1>5, <1>6, <1>7, <2>1, LogGrows, LogLines
  <2>3. fault = "lost" /\ z.to = d + 2
    BY <1>6, <1>11 DEF Unwritten
  <2>4. CASE e = n
    <3>1. s[Len(s)].k = "R" /\ s[Len(s)].op = "sc"
      BY <1>4, <1>11, <2>4 DEF Unwritten, Reaching
    <3>2. \A q \in 1 .. Len(k) - 1 : Same(s, kept, q, k[q])
      <4>1. \A q \in 1 .. d + 1 : q \in 1 .. d \/ q = d + 1
        BY <1>6
      <4>2. Len(k) - 1 = d + 1
        BY <1>6, <2>2
      <4>3. \A q \in 1 .. d + 1 : Same(s, kept, q, k[q])
        BY <1>6, <2>1, <2>2, <4>1
      <4> QED  BY <4>2, <4>3
    <3>3. Holding(b, z, z.next) /\ Len(k) = z.to
      BY <1>11, <2>2, <2>3 DEF Unwritten
    <3>4. LostLast(n, s, after, kept)'
      BY <1>2, <1>3, <1>4, <2>3, <2>4, <3>1, <3>2, <3>3 DEF LostLast
    <3> QED  BY <1>3, <1>8, <3>4 DEF Compared
  <2>5. CASE e # n
    <3>1. PICK u, v : u = before[e] /\ v = after[e + 1]
      OBVIOUS
    <3>2. e \in 0 .. n - 1 /\ e + 1 \in 0 .. n
      BY <1>4, <2>5
    <3>3. Reached(i, s, kept, e, z, u, v) /\ Placed(v) /\ v.to <= after[n].to
      BY <1>4, <3>1, <3>2 DEF Reaching, Past
    <3>4. z.to < v.to /\ ~Same(s, kept, z.to, f)
      BY <1>4, <2>1, <3>3, NextLine
    <3>5. after[n].to \in Nat /\ z.to \in Nat /\ v.to \in Nat
      BY <1>4, <3>3 DEF Reaching, Past, Placed
    <3>6. z.to < after[n].to /\ z.to \in 1 .. Len(k) /\ k[z.to] = f
      BY <1>6, <2>2, <2>3, <3>3, <3>4, <3>5
    <3>7. \E q \in 1 .. Len(k) : q < after[n].to /\ ~Same(s, kept, q, k[q])
      BY <3>4, <3>6
    <3>8. Diverged(n, s, after, kept)'
      BY <1>3, <2>3, <3>7 DEF Diverged, Wrong
    <3> QED  BY <1>3, <1>8, <3>8 DEF Compared
  <2> QED  BY <2>4, <2>5
<1> QED  BY <1>2, <1>9, <1>10, <1>11, Meets

(* A record that is not the hart's stays in the log.                                          *)
LEMMA DivergedStep ==
  ASSUME NEW n, NEW s, NEW after, NEW before, NEW kept, Diverged(n, s, after, kept), RefStep, IsSeq(log),
         n \in Nat, retires \in Nat, retires < n, fault' = fault
  PROVE  Compared(n, s, after, before, kept)'
<1>1. PICK l, k : l = log /\ k = log'
  OBVIOUS
<1>2. PICK q \in 1 .. Len(l) : q < after[n].to /\ ~Same(s, kept, q, l[q])
  BY <1>1 DEF Diverged
<1>3. Len(l) \in Nat /\ Len(k) \in Nat /\ Len(k) >= Len(l) /\ k[q] = l[q]
  <2>1. CASE \E a : k = l \o <<a>>
    BY <1>1, <2>1, LogGrows, LogLines, SeqFacts
  <2>2. CASE \E a, b : k = l \o <<a, b>>
    BY <1>1, <2>2, LogGrows, LogLines, SeqFacts
  <2> QED  BY <1>1, <2>1, <2>2, ExecuteLogs
<1>4. q \in 1 .. Len(k)
  BY <1>3
<1>5. Diverged(n, s, after, kept)'
  BY <1>1, <1>2, <1>3, <1>4 DEF Diverged
<1>6. retires' \in 0 .. n
  BY DEF RefStep
<1> QED  BY <1>5, <1>6 DEF Compared

-----------------------------------------------------------------------------
(* Once the trace is read: what the hart did, and how far the reference's log follows it.     *)
Tell(i, s) ==
  Apart(i) /\ fault # "resume" =>
    \E after, before, kept : /\ Past(i.nRefRetire, i, s, after, before, kept)
                             /\ Present(i, after[i.nRefRetire])
                             /\ Compared(i.nRefRetire, s, after, before, kept)

Told == phase # "sim" => \A i, s : i = inj /\ s = part.out => Tell(i, s)

(* How a cell ends.                                                                           *)
Ended(v) ==
  \/ retires = inj.nRefRetire /\ v = Walk(part, log)
  \/ retires < inj.nRefRetire /\ Trapped /\ v = "trapped"
  \/ retires < inj.nRefRetire /\ ~Trapped /\ Exhausted /\ v = "inject"

Judged ==
  /\ phase # "done" => verdict = "none"
  /\ phase = "sim" => RefInit
  /\ phase # "sim" => records = <<>> /\ inj.scPend.open = FALSE
  /\ phase = "ref" => ScriptLoads(inj)
  /\ phase = "done" => \/ verdict = "refused" /\ ~ScriptLoads(inj)
                       \/ ScriptLoads(inj) /\ Ended(verdict)

(* What the hart may have got wrong.                                                          *)
Named == fault \in {"none", "resume"} \cup Wrong

(* The inductive invariant of the cell, with IInv and TInv. *)
LInv == Ahead /\ Told /\ Judged /\ Named

LEMMA StillTell ==
  ASSUME Still, UNCHANGED refVars, NEW i, NEW s, Tell(i, s)
  PROVE  Tell(i, s)'
<1> SUFFICES ASSUME Apart(i), fault' # "resume"
             PROVE  (\E after, before, kept : /\ Past(i.nRefRetire, i, s, after, before, kept)
                                              /\ Present(i, after[i.nRefRetire])
                                              /\ Compared(i.nRefRetire, s, after, before, kept))'
  BY DEF Tell, Apart
<1>1. PICK after, before, kept : /\ Past(i.nRefRetire, i, s, after, before, kept)
                                 /\ Present(i, after[i.nRefRetire])
                                 /\ Compared(i.nRefRetire, s, after, before, kept)
  BY DEF Tell, Still
<1>2. Past(i.nRefRetire, i, s, after, before, kept)'
  BY <1>1, StillPast
<1>3. Present(i, after[i.nRefRetire])'
  BY <1>1 DEF Present, Follows, Unmoved, Left, Hart, Resume, Still
<1>4. Compared(i.nRefRetire, s, after, before, kept)'
  BY <1>1 DEF Compared, Tracks, Diverged, LostLast, Holding, Same, Line, Key, Still, refVars
<1> QED  BY <1>2, <1>3, <1>4

(* Told survives a step that moves neither the hart nor the reference; *)
LEMMA StillTold ==
  ASSUME Still, UNCHANGED refVars, inj' = inj, part' = part, Told, phase' # "sim" => phase # "sim"
  PROVE  Told'
<1> SUFFICES ASSUME phase' # "sim", NEW i, NEW s, i = inj', s = part'.out PROVE Tell(i, s)'
  BY DEF Told
<1>1. Tell(i, s)
  BY DEF Told
<1> QED  BY <1>1, StillTell

(* it holds before the first instruction of the reference; *)
LEMMA CutTold ==
  ASSUME IInv, Judged, Cut, Ahead'
  PROVE  Told'
<1> SUFFICES ASSUME NEW i, NEW s, i = inj', s = part'.out PROVE Tell(i, s)'
  BY DEF Told
<1>1. PICK p : p = part'
  OBVIOUS
<1>2. records' = <<>> /\ RefInit /\ UNCHANGED refVars
  BY DEF Cut, Judged, hartVars
<1>3. i = ScanAll(inj', records') /\ p = PartAll(part', records')
  BY <1>1, <1>2, ScanNone
<1>4. Whole(i, p)'
  BY <1>3 DEF Ahead
<1>5. i.nRefRetire \in Nat
  BY ResolveScKeeps DEF Cut, IInv, Closed
<1> SUFFICES ASSUME Apart(i), fault' # "resume"
             PROVE  (\E after, before, kept : /\ Past(i.nRefRetire, i, s, after, before, kept)
                                              /\ Present(i, after[i.nRefRetire])
                                              /\ Compared(i.nRefRetire, s, after, before, kept))'
  BY DEF Tell, Apart
<1>6. PICK after, before, kept :
        Past(i.nRefRetire, i, s, after, before, kept)' /\ Present(i, after[i.nRefRetire])'
  <2>1. s = p.out /\ Lived(i, p.out)'
    BY <1>1, <1>4 DEF Whole, Apart
  <2> QED  BY <2>1 DEF Lived
<1>7. after[0] = Start
  BY <1>6 DEF Past
<1>8. retires' = 0 /\ log' = <<>> /\ ref' = [pc |-> 0, reg |-> 0, mem |-> [a \in {Local, Shared, Slot} |-> 0], next |-> 1]
  BY <1>2 DEF RefInit, refVars
<1>9. Tracks(s, after, before, kept)'
  <2>1. PICK m : m = ref'
    OBVIOUS
  <2>2. Holding(m, Start, Start.next)
    BY <1>8, <2>1 DEF Holding, Start, Local, Shared, Slot
  <2>3. Len(log') = 0 /\ Start.to = 1
    BY <1>8 DEF Start
  <2> QED  BY <1>7, <1>8, <2>1, <2>2, <2>3 DEF Tracks
<1>10. Compared(i.nRefRetire, s, after, before, kept)'
  BY <1>5, <1>8, <1>9 DEF Compared
<1> QED  BY <1>6, <1>10

(* and a step of the reference keeps it. *)
LEMMA ReferenceTold ==
  ASSUME IInv, TInv, Judged, Told, Reference
  PROVE  Told'
<1> SUFFICES ASSUME NEW i, NEW s, i = inj', s = part'.out PROVE Tell(i, s)'
  BY DEF Told
<1>1. /\ i = inj /\ s = part.out /\ Still /\ RefStep /\ fault' = fault /\ retires < i.nRefRetire
      /\ phase # "sim" /\ i.scPend.open = FALSE
  BY DEF Reference, hartVars, Still, RefStep, Judged
<1>2. PICK n : n = i.nRefRetire
  OBVIOUS
<1>3. n \in Nat /\ IsInj(i) /\ IsSeq(log) /\ retires \in Nat
  BY <1>1, <1>2 DEF IInv, Closed, TInv, RefTyped
<1> SUFFICES ASSUME Apart(i), fault' # "resume"
             PROVE  (\E after, before, kept : /\ Past(i.nRefRetire, i, s, after, before, kept)
                                              /\ Present(i, after[i.nRefRetire])
                                              /\ Compared(i.nRefRetire, s, after, before, kept))'
  BY DEF Tell, Apart
<1>4. PICK after, before, kept : /\ Past(n, i, s, after, before, kept) /\ Present(i, after[n])
                                 /\ Compared(n, s, after, before, kept)
  BY <1>1, <1>2 DEF Told, Tell
<1>5. Past(n, i, s, after, before, kept)'
  BY <1>1, <1>4, StillPast
<1>6. Present(i, after[n])'
  BY <1>1, <1>4 DEF Present, Follows, Unmoved, Left, Hart, Resume, Still
<1>7. Compared(n, s, after, before, kept)'
  <2>1. CASE Tracks(s, after, before, kept)
    <3>1. Reaching(n, i, s, after, before, kept)
      BY <1>1, <1>2, <1>3, <1>4, <2>1 DEF Reaching
    <3> QED  BY <1>1, <1>3, <3>1, TracksStep
  <2>2. CASE Diverged(n, s, after, kept)
    BY <1>1, <1>2, <1>3, <2>2, DivergedStep
  <2>3. CASE LostLast(n, s, after, kept)
    BY <1>1, <1>2, <1>3, <2>3 DEF LostLast
  <2> QED  BY <1>4, <2>1, <2>2, <2>3 DEF Compared
<1>8. \E u, v, w : Past(n, i, s, u, v, w)' /\ Present(i, u[n])' /\ Compared(n, s, u, v, w)'
  BY <1>5, <1>6, <1>7
<1> QED  BY <1>2, <1>8

(* The verdict is given once, from the state the cell ends in. *)
LEMMA JudgedKept ==
  ASSUME Judged, UNCHANGED vars
  PROVE  Judged'
<1>1. /\ phase' = phase /\ verdict' = verdict /\ records' = records /\ inj' = inj /\ part' = part
      /\ ref' = ref /\ log' = log /\ retires' = retires /\ code' = code
  BY DEF vars, hartVars, refVars
<1>2. Trapped' = Trapped /\ Exhausted' = Exhausted
  BY <1>1 DEF Trapped, Exhausted, Fetched, Realigned
<1>3. Ended(verdict) => Ended(verdict)'
  BY <1>1, <1>2 DEF Ended
<1>4. RefInit => RefInit'
  BY <1>1 DEF RefInit
<1> QED  BY <1>1, <1>3, <1>4 DEF Judged

LEMMA JudgedSteps ==
  ASSUME IInv, Judged, Next
  PROVE  Judged'
<1>1. CASE Simulate
  BY <1>1 DEF Simulate, Judged, RefInit, refVars
<1>2. CASE Read
  BY <1>2 DEF Read, Judged, RefInit, refVars
<1>3. CASE Cut
  <2>1. PICK i, j : i = inj /\ j = inj'
    OBVIOUS
  <2>2. IsInj(i) /\ j = ResolveSc(i)
    BY <1>3, <2>1 DEF Cut, IInv, Closed
  <2>3. j.scPend.open = FALSE /\ j.brackets = i.brackets /\ j.nRefRetire = i.nRefRetire
    BY <2>2, ResolveScKeeps DEF NoSc
  <2>4. ScriptLoads(j) <=> ScriptLoads(i)
    BY <2>3 DEF ScriptLoads, BracketsAt
  <2>5. records' = <<>> /\ phase = "sim" /\ verdict = "none"
    BY <1>3 DEF Cut, hartVars, Judged
  <2> QED  BY <1>3, <2>1, <2>3, <2>4, <2>5 DEF Cut, Judged
<1>4. CASE Reference
  BY <1>4 DEF Reference, Judged, hartVars
<1>5. CASE Judge
  <2>1. /\ phase = "ref" /\ phase' = "done" /\ inj' = inj /\ part' = part /\ records' = records
        /\ ref' = ref /\ log' = log /\ retires' = retires /\ code' = code
    BY <1>5 DEF Judge, hartVars, refVars
  <2>2. Trapped' = Trapped /\ Exhausted' = Exhausted
    BY <2>1 DEF Trapped, Exhausted, Fetched, Realigned
  <2>3. Ended(verdict')
    BY <1>5 DEF Judge, Ended
  <2>4. Ended(verdict)'
    BY <2>1, <2>2, <2>3 DEF Ended
  <2> QED  BY <2>1, <2>4 DEF Judged
<1>6. CASE Done
  BY <1>6, JudgedKept DEF Done
<1> QED  BY <1>1, <1>2, <1>3, <1>4, <1>5, <1>6 DEF Next

(* A hart does at most one thing wrong, and only what Faults names. *)
LEMMA NamedKept ==
  ASSUME HartTyped, Ahead, Named, [Next]_vars
  PROVE  Named'
<1>1. CASE fault' = fault
  BY <1>1 DEF Named
<1>2. CASE Simulate /\ Retire
  <2>1. DOMAIN code = PCs
    BY DEF Ahead, Whole
  <2>2. PICK op : RetiresAs(op)
    BY <1>2, <2>1, RetireIs
  <2> QED  BY <2>2 DEF RetiresAs, Named
<1>3. CASE Simulate /\ Iret
  BY <1>3 DEF Iret, Named
<1>4. Next => fault' = fault \/ (Simulate /\ Retire) \/ (Simulate /\ Iret)
  BY DEF Next, Simulate, HartNext, Park, Interrupt, Handle, Read, Cut, Reference, Judge, Done, vars, hartVars
<1>5. UNCHANGED vars => fault' = fault
  BY DEF vars, hartVars
<1> QED  BY <1>1, <1>2, <1>3, <1>4, <1>5

(* The invariant holds at first and every step keeps it. *)
LEMMA LockstepInitially == Init => LInv
<1> SUFFICES ASSUME Init PROVE LInv
  OBVIOUS
<1>1. Ahead
  BY InitAhead
<1>2. Told /\ Judged /\ Named
  BY DEF Init, HartInit, Told, Judged, Named
<1> QED  BY <1>1, <1>2 DEF LInv

LEMMA LockstepInductive == IInv /\ TInv /\ LInv /\ [Next]_vars => LInv'
<1> SUFFICES ASSUME IInv, TInv, LInv, [Next]_vars PROVE LInv'
  OBVIOUS
<1>1. Judged' /\ Named'
  BY JudgedKept, JudgedSteps, NamedKept DEF LInv, TInv
<1>2. CASE Simulate
  <2>1. Ahead'
    BY <1>2, SimulateAhead DEF LInv, TInv
  <2> QED  BY <1>1, <1>2, <2>1 DEF LInv, Told, Simulate
<1>3. CASE Read
  <2>1. Ahead'
    BY <1>3, ReadAhead DEF LInv
  <2> QED  BY <1>1, <1>3, <2>1 DEF LInv, Told, Read
<1>4. CASE Cut
  <2>1. Ahead'
    BY <1>4, CutAhead DEF LInv
  <2> QED  BY <1>1, <1>4, <2>1, CutTold DEF LInv
<1>5. CASE Reference
  <2>1. Ahead'
    BY <1>5, FrozenAhead DEF LInv, Reference
  <2> QED  BY <1>1, <1>5, <2>1, ReferenceTold DEF LInv
<1>6. CASE Judge
  <2>1. Ahead'
    BY <1>6, FrozenAhead DEF LInv, Judge
  <2>2. Still /\ UNCHANGED refVars /\ inj' = inj /\ part' = part /\ phase # "sim"
    BY <1>6 DEF Judge, hartVars, Still
  <2> QED  BY <1>1, <2>1, <2>2, StillTold DEF LInv
<1>7. CASE UNCHANGED vars
  <2>1. UNCHANGED <<hartVars, inj, part, refVars>> /\ phase' = phase
    BY <1>7 DEF vars
  <2>2. Ahead'
    BY <2>1, FrozenAhead DEF LInv
  <2>3. Still /\ UNCHANGED refVars /\ inj' = inj /\ part' = part
    BY <2>1 DEF hartVars, Still
  <2> QED  BY <1>1, <2>1, <2>2, <2>3, StillTold DEF LInv
<1>8. CASE Done
  BY <1>7, <1>8 DEF Done
<1> QED  BY <1>2, <1>3, <1>4, <1>5, <1>6, <1>7, <1>8 DEF Next

-----------------------------------------------------------------------------
(* n elements, named in a row without repetition, are n.                                      *)
LEMMA CountRow ==
  ASSUME NEW n \in Nat, NEW f, NEW E, \A q \in 1 .. n : f[q] \in E, \A e \in E : \E q \in 1 .. n : f[q] = e,
         \A q, r \in 1 .. n : f[q] = f[r] => q = r
  PROVE  Cardinality(E) = n
<1>1. PICK g : g = [q \in 1 .. n |-> f[q]]
  OBVIOUS
<1>2. g \in [1 .. n -> E] /\ (\A a, b \in 1 .. n : g[a] = g[b] => a = b) /\ \A e \in E : \E q \in 1 .. n : g[q] = e
  BY <1>1
<1>3. g \in Bijection(1 .. n, E)
  BY <1>2 DEF Bijection, Injection, Surjection, IsInjective
<1>4. ExistsBijection(1 .. n, E)
  BY <1>3 DEF ExistsBijection
<1> QED  BY <1>4, FS_CountingElements

(* The committed records of the stream and their places in the walk.                          *)
LEMMA Places ==
  ASSUME NEW s, IsSeq(s), NEW d \in Nat, NEW kept, Kept(s, kept, d)
  PROVE  /\ \A q \in 1 .. d : kept[q] \in Committed(s) /\ Place(s, kept[q]) = q
         /\ \A x \in Committed(s) : \E q \in 1 .. d : kept[q] = x
         /\ Cardinality(Committed(s)) = d
<1>1. \A q \in 1 .. d : kept[q] \in Nat /\ kept[q] \in Committed(s)
  <2>1. DOMAIN s = 1 .. Len(s) /\ Len(s) \in Nat
    BY SeqFacts
  <2>2. \A q \in 1 .. d : kept[q] \in DOMAIN s /\ ~Ghost(s, kept[q])
    BY DEF Kept
  <2> QED  BY ONLY <2>1, <2>2 DEF Committed
<1>2. \A x \in Committed(s) : \E q \in 1 .. d : kept[q] = x
  BY DEF Kept, Committed
<1>3. \A q, r \in 1 .. d : q < r => kept[q] < kept[r]
  BY DEF Kept
<1>4. \A q, r \in 1 .. d : kept[q] = kept[r] => q = r
  <2> SUFFICES ASSUME NEW q \in 1 .. d, NEW r \in 1 .. d, q # r PROVE kept[q] # kept[r]
    OBVIOUS
  <2>1. q < r \/ r < q
    OBVIOUS
  <2> QED  BY <1>1, <1>3, <2>1
<1>5. Cardinality(Committed(s)) = d
  BY <1>1, <1>2, <1>4, CountRow
<1>6. ASSUME NEW q \in 1 .. d PROVE Place(s, kept[q]) = q
  <2>1. PICK E : E = {j \in Committed(s) : j <= kept[q]}
    OBVIOUS
  <2>2. ASSUME NEW r \in 1 .. d PROVE kept[r] <= kept[q] <=> r <= q
    <3>1. r < q \/ r = q \/ q < r
      OBVIOUS
    <3>2. kept[q] \in Nat /\ kept[r] \in Nat
      BY <1>1
    <3> QED  BY <1>3, <3>1, <3>2
  <2>3. \A r \in 1 .. q : r \in 1 .. d /\ r <= q
    OBVIOUS
  <2>4. \A r \in 1 .. q : kept[r] \in E
    BY <1>1, <2>1, <2>2, <2>3
  <2>5. \A e \in E : \E r \in 1 .. q : kept[r] = e
    <3> SUFFICES ASSUME NEW e \in E PROVE \E r \in 1 .. q : kept[r] = e
      OBVIOUS
    <3>1. PICK r \in 1 .. d : kept[r] = e
      BY <1>2, <2>1
    <3>2. r <= q
      BY <2>1, <2>2, <3>1
    <3>3. r \in 1 .. q
      BY <3>2
    <3> QED  BY <3>1, <3>3
  <2>6. \A r, t \in 1 .. q : kept[r] = kept[t] => r = t
    BY <1>4, <2>3
  <2>7. q \in Nat
    OBVIOUS
  <2>8. Cardinality(E) = q
    BY <2>4, <2>5, <2>6, <2>7, CountRow
  <2> QED  BY <2>1, <2>8 DEF Place
<1> QED  BY <1>1, <1>2, <1>5, <1>6

(* The structural gate and the landing check. *)
AllVerified(p) == \A n \in DOMAIN AtEnd(p) : Verified(AtEnd(p)[n])

(* The walk gives a match when the log agrees with the committed records as far as both go,   *)
(* every window is verified and the log is no shorter.                                        *)
LEMMA WalkIs ==
  ASSUME NEW p, IsSeq(p.out), NEW l, Len(l) \in Nat, NEW d \in Nat, NEW kept, Kept(p.out, kept, d)
  PROVE  Walk(p, l) = "match" <=> /\ \A q \in 1 .. d : q <= Len(l) => Same(p.out, kept, q, l[q])
                                  /\ AllVerified(p) /\ d <= Len(l)
<1>1. PICK s : s = p.out
  OBVIOUS
<1>2. /\ \A q \in 1 .. d : kept[q] \in Committed(s) /\ Place(s, kept[q]) = q
      /\ \A x \in Committed(s) : \E q \in 1 .. d : kept[q] = x
      /\ Cardinality(Committed(s)) = d
  BY <1>1, Places
<1>3. (\A i \in Committed(s) : Place(s, i) <= Len(l) => Key(s[i]) = Key(l[Place(s, i)]))
        <=> \A q \in 1 .. d : q <= Len(l) => Same(s, kept, q, l[q])
  BY <1>2 DEF Same, Line
<1>4. Len(l) < Cardinality(Committed(s)) <=> ~(d <= Len(l))
  BY <1>2
<1>5. Walk(p, l) = "match" <=>
        /\ \A i \in Committed(s) : Place(s, i) <= Len(l) => Key(s[i]) = Key(l[Place(s, i)])
        /\ AllVerified(p) /\ ~(Len(l) < Cardinality(Committed(s)))
  BY <1>1 DEF Walk, AllVerified
<1> QED  BY <1>1, <1>3, <1>4, <1>5

-----------------------------------------------------------------------------
(* No two closed windows share an index. *)
Distinct(i) == \A m, n \in DOMAIN i.brackets : i.brackets[m].refIndex = i.brackets[n].refIndex => m = n

(* The reference takes the script exactly when no two closed windows share an index.          *)
LEMMA LoadsDistinct ==
  ASSUME NEW i, IsSeq(i.brackets), i.nRefRetire \in Nat,
         \A n \in DOMAIN i.brackets : i.brackets[n].refIndex \in 0 .. i.nRefRetire
  PROVE  ScriptLoads(i) <=> Distinct(i)
<1>1. \A r : IsFiniteSet(BracketsAt(i, r))
  <2>1. DOMAIN i.brackets = 1 .. Len(i.brackets) /\ Len(i.brackets) \in Nat
    BY SeqFacts
  <2>2. IsFiniteSet(DOMAIN i.brackets)
    BY <2>1, FS_Interval
  <2>3. \A r : BracketsAt(i, r) \subseteq DOMAIN i.brackets
    BY DEF BracketsAt
  <2> QED  BY <2>2, <2>3, FS_Subset
<1>2. ASSUME ScriptLoads(i), NEW m \in DOMAIN i.brackets, NEW n \in DOMAIN i.brackets,
             i.brackets[m].refIndex = i.brackets[n].refIndex, m # n
      PROVE  FALSE
  <2>1. PICK r, E : r = i.brackets[m].refIndex /\ E = BracketsAt(i, r)
    OBVIOUS
  <2>2. IsFiniteSet(E) /\ m \in E /\ n \in E /\ Cardinality(E) <= 1
    BY <1>1, <1>2, <2>1 DEF BracketsAt, ScriptLoads
  <2>3. PICK one : one = {m} /\ IsFiniteSet(one) /\ Cardinality(one) = 1 /\ n \notin one
    BY <1>2, FS_Singleton
  <2>4. PICK two : two = one \cup {n} /\ Cardinality(two) = Cardinality(one) + 1
    BY <2>3, FS_AddElement
  <2>5. two \in SUBSET E
    BY <2>2, <2>3, <2>4
  <2>6. Cardinality(two) <= Cardinality(E)
    BY <2>2, <2>5, FS_Subset
  <2>7. Cardinality(E) \in Nat
    BY <2>2, FS_CardinalityType
  <2> QED  BY <2>2, <2>3, <2>4, <2>6, <2>7
<1>3. ASSUME Distinct(i), NEW r \in 0 .. i.nRefRetire PROVE Cardinality(BracketsAt(i, r)) <= 1
  <2>1. CASE BracketsAt(i, r) = {}
    <3>1. Cardinality({}) = 0
      BY FS_EmptySet
    <3> QED  BY <2>1, <3>1
  <2>2. CASE BracketsAt(i, r) # {}
    <3>1. PICK n : n \in BracketsAt(i, r)
      BY <2>2
    <3>2. BracketsAt(i, r) = {n}
      BY <1>3, <3>1 DEF Distinct, BracketsAt
    <3>3. Cardinality({n}) = 1
      BY FS_Singleton
    <3> QED  BY <3>2, <3>3
  <2> QED  BY <2>1, <2>2
<1> QED  BY <1>2, <1>3 DEF ScriptLoads, Distinct

(* The windows compare.py judges at the end of a trace: those that are over, and the one that *)
(* is open, parked or unterminated.                                                           *)
LEMMA EndOpen ==
  ASSUME NEW p, IsPart(p), IsSeq(p.brackets), p.levels # <<>>
  PROVE  AllVerified(p) <=>
           /\ \A n \in DOMAIN p.brackets : Verified(p.brackets[n])
           /\ \/ p.cur.kind = "SLEEP" /\ (p.cur.ext \/ ~p.cur.adopted)
              \/ p.cur.closed /\ p.cur.landing # NoPc /\ p.cur.landing = Expected(p.cur)
<1>1. PICK c : c = [p.cur EXCEPT !.parked = p.cur.kind = "SLEEP" /\ (p.cur.ext \/ ~p.cur.adopted)]
  OBVIOUS
<1>2. PICK f, k : f = AtEnd(p) /\ k = Len(p.brackets)
  OBVIOUS
<1>3. f = Append(p.brackets, c)
  BY <1>1, <1>2 DEF AtEnd
<1>4. IsSeq(f) /\ Len(f) = k + 1 /\ (\A n \in 1 .. k : f[n] = p.brackets[n]) /\ f[k + 1] = c /\ k \in Nat
      /\ DOMAIN p.brackets = 1 .. k
  BY <1>2, <1>3, SeqFacts
<1>5. DOMAIN f = 1 .. k + 1
  BY <1>4, SeqFacts
<1>6. AllVerified(p) <=> (\A n \in DOMAIN p.brackets : Verified(p.brackets[n])) /\ Verified(c)
  <2>1. AllVerified(p) <=> \A n \in DOMAIN f : Verified(f[n])
    BY <1>2 DEF AllVerified
  <2>2. \A n \in 1 .. k + 1 : n \in 1 .. k \/ n = k + 1
    BY <1>4
  <2>3. k + 1 \in 1 .. k + 1 /\ \A n \in 1 .. k : n \in 1 .. k + 1
    BY <1>4
  <2> QED  BY <1>4, <1>5, <2>1, <2>2, <2>3
<1>7. /\ c.closed = p.cur.closed /\ c.landing = p.cur.landing /\ c.slot = p.cur.slot /\ c.epc = p.cur.epc
      /\ c.parked = (p.cur.kind = "SLEEP" /\ (p.cur.ext \/ ~p.cur.adopted))
  BY <1>1 DEF IsPart, IsWindow
<1>8. Verified(c) <=> \/ p.cur.kind = "SLEEP" /\ (p.cur.ext \/ ~p.cur.adopted)
                      \/ p.cur.closed /\ p.cur.landing # NoPc /\ p.cur.landing = Expected(p.cur)
  BY <1>7 DEF Verified, Expected
<1> QED  BY <1>6, <1>8

(* With no window open, those that are over are all there is. *)
LEMMA EndClosed ==
  ASSUME NEW p, p.levels = <<>>
  PROVE  AllVerified(p) <=> \A n \in DOMAIN p.brackets : Verified(p.brackets[n])
BY DEF AllVerified, AtEnd

(* When every window is verified the open one is at an index of its own, none awaits its      *)
(* landing, and no handler resumed elsewhere.                                                 *)
LEMMA VerifiedApart ==
  ASSUME NEW i, NEW p, Closed(i, p), Outwith(i, p) \/ Asleep(i, p) \/ Awake(i, p), Windowed(i, p),
         Distinct(i), AllVerified(p)
  PROVE  Apart(i) /\ fault # "resume"
<1>1. \A n \in DOMAIN p.brackets : Verified(p.brackets[n])
  <2>1. IsPart(p) /\ IsSeq(p.brackets)
    BY DEF Closed
  <2>2. CASE p.levels = <<>>
    BY <2>2, EndClosed
  <2>3. CASE p.levels # <<>>
    <3>1. AllVerified(p)
      OBVIOUS
    <3> QED  BY ONLY <2>1, <2>3, <3>1, EndOpen
  <2> QED  BY <2>2, <2>3
<1>2. \A n \in DOMAIN p.brackets :
        n \notin p.awaiting /\ p.brackets[n].landing = Expected(p.brackets[n])
  BY <1>1 DEF Verified, Windowed, Structured
<1>3. p.awaiting = {}
  BY <1>2 DEF Windowed, Structured
<1>4. Apart(i)
  <2> SUFFICES ASSUME i.depth # 0, NEW n \in DOMAIN i.brackets, i.brackets[n].refIndex = i.cur.refIndex
               PROVE  FALSE
    BY DEF Apart, Distinct
  <2>1. p.levels # <<>>
    <3>1. <<"S">> # <<>> /\ <<"T">> # <<>>
      OBVIOUS
    <3>2. p.levels = <<"S">> \/ p.levels = <<"T">>
      BY DEF Outwith, Asleep, Awake
    <3> QED  BY ONLY <3>1, <3>2
  <2>2. p.cur.kind = "TRAP" /\ p.cur.closed = FALSE
    BY <1>3 DEF Windowed, Structured
  <2> QED  BY <2>1, <2>2, EndOpen DEF Closed
<1>5. fault # "resume"
  BY <1>2, <1>4 DEF Windowed, Landing, Lands
<1> QED  BY <1>4, <1>5

-----------------------------------------------------------------------------
(* Once the trace is read: the two readers, the windows and the history. *)
LEMMA TraceRead ==
  ASSUME IInv, LInv, phase # "sim", NEW i, NEW p, i = inj, p = part
  PROVE  /\ Closed(i, p) /\ Windowed(i, p) /\ Tell(i, p.out) /\ (ScriptLoads(i) <=> Distinct(i))
         /\ Outwith(i, p) \/ Asleep(i, p) \/ Awake(i, p)
         /\ mode = "run" => Outwith(i, p)
<1>1. records = <<>> /\ Closed(i, p)
  BY DEF LInv, Judged, IInv
<1>2. i = ScanAll(inj, records) /\ p = PartAll(part, records)
  BY <1>1, ScanNone
<1>3. Windowed(i, p)
  BY <1>2 DEF LInv, Ahead, Whole
<1>4. Tell(i, p.out)
  BY DEF LInv, Told
<1>5. ScriptLoads(i) <=> Distinct(i)
  BY <1>1, <1>3, LoadsDistinct DEF Closed, Windowed, Indexed
<1>6. Resting
  BY <1>1, Tuples DEF IInv, Shape, Executing, Traced
<1> QED  BY <1>1, <1>3, <1>4, <1>5, <1>6 DEF Resting

(* A match: every window was verified, and the reference is where the hart's last instruction *)
(* outside a window left it, or the last record compared is an sc.w's whose write was lost.   *)
AtMatch(n, i, s, after, before, kept) ==
  /\ Past(n, i, s, after, before, kept) /\ Present(i, after[n]) /\ retires = n
  /\ Tracks(s, after, before, kept) \/ LostLast(n, s, after, kept)

(* Every verdict that is a match is one of those. *)
LEMMA Matched ==
  ASSUME IInv, TInv, LInv, verdict = "match", NEW i, NEW p, i = inj, p = part
  PROVE  /\ phase # "sim" /\ fault # "resume"
         /\ \E after, before, kept : AtMatch(i.nRefRetire, i, p.out, after, before, kept)
<1>1. phase = "done" /\ ScriptLoads(i) /\ retires = i.nRefRetire /\ Walk(p, log) = "match"
  BY DEF LInv, Judged, Ended
<1>2. /\ Closed(i, p) /\ Windowed(i, p) /\ Tell(i, p.out) /\ Distinct(i)
      /\ Outwith(i, p) \/ Asleep(i, p) \/ Awake(i, p)
  BY <1>1, TraceRead
<1>3. AllVerified(p)
  BY <1>1 DEF Walk, AllVerified
<1>4. Apart(i) /\ fault # "resume"
  BY <1>2, <1>3, VerifiedApart
<1>5. PICK n, s : n = i.nRefRetire /\ s = p.out
  OBVIOUS
<1>6. n \in Nat /\ IsSeq(s) /\ IsSeq(log)
  BY <1>2, <1>5 DEF Closed, TInv, RefTyped
<1>7. PICK after, before, kept :
        Past(n, i, s, after, before, kept) /\ Present(i, after[n]) /\ Compared(n, s, after, before, kept)
  BY <1>2, <1>4, <1>5 DEF Tell
<1>8. PICK d \in Nat : after[n].to = d + 1 /\ Kept(s, kept, d)
  <2>1. after[n].to \in Nat \ {0} /\ Kept(s, kept, after[n].to - 1)
    BY <1>6, <1>7 DEF Past, Placed
  <2>2. after[n].to - 1 \in Nat /\ after[n].to = (after[n].to - 1) + 1
    BY <2>1
  <2> QED  BY <2>1, <2>2
<1>9. \A q \in 1 .. d : q <= Len(log) => Same(s, kept, q, log[q])
  BY <1>1, <1>5, <1>6, <1>8, WalkIs, SeqFacts
<1>10. ~Diverged(n, s, after, kept)
  <2> SUFFICES ASSUME NEW q \in 1 .. Len(log), q < after[n].to, ~Same(s, kept, q, log[q]) PROVE FALSE
    BY DEF Diverged
  <2>1. q <= Len(log) /\ q \in 1 .. d
    BY <1>6, <1>8, SeqFacts
  <2> QED  BY <1>9, <2>1
<1>11. AtMatch(n, i, s, after, before, kept)
  BY <1>1, <1>5, <1>7, <1>10 DEF AtMatch, Compared
<1> QED  BY <1>1, <1>4, <1>5, <1>11

(* The three properties follow. *)
LEMMA CatchesFaults == IInv /\ TInv /\ LInv => FaultCaught
<1> SUFFICES ASSUME IInv, TInv, LInv, verdict = "match", fault # "none"
             PROVE  fault = "lost" /\ Last(part.out).k = "R" /\ Last(part.out).op = "sc"
  BY DEF FaultCaught
<1>1. PICK i, p : i = inj /\ p = part
  OBVIOUS
<1>2. phase # "sim" /\ fault # "resume"
  BY <1>1, Matched
<1>3. PICK n, s : n = i.nRefRetire /\ s = p.out
  OBVIOUS
<1>4. PICK after, before, kept : AtMatch(n, i, s, after, before, kept)
  BY <1>1, <1>3, Matched
<1>5. fault \in Wrong
  BY <1>2 DEF LInv, Named
<1>6. ~Tracks(s, after, before, kept)
  BY <1>4, <1>5 DEF AtMatch, Past, Tracks
<1>7. fault = "lost" /\ s[Len(s)].k = "R" /\ s[Len(s)].op = "sc"
  BY <1>4, <1>6 DEF AtMatch, LostLast
<1>8. Last(part.out) = s[Len(s)]
  BY <1>1, <1>3 DEF Last
<1> QED  BY <1>7, <1>8

LEMMA TracksHart == IInv /\ TInv /\ LInv => RefTracks
<1> SUFFICES ASSUME IInv, TInv, LInv, verdict = "match", mode = "run", ~due
             PROVE  ref.reg = reg /\ ref.pc = pc /\ \A a \in {Local, Slot} : ref.mem[a] = mem[a]
  BY DEF RefTracks
<1>1. PICK i, p : i = inj /\ p = part
  OBVIOUS
<1>2. PICK n : n = i.nRefRetire
  OBVIOUS
<1>3. PICK after, before, kept : AtMatch(n, i, p.out, after, before, kept)
  BY <1>1, <1>2, Matched
<1>4. phase # "sim"
  BY <1>1, Matched
<1>5. Outwith(i, p) /\ Windowed(i, p)
  BY <1>1, <1>4, TraceRead
<1>6. i.depth = 0 /\ \A b \in DOMAIN i.brackets : i.brackets[b].refIndex # n
  BY <1>2, <1>5 DEF Outwith, Windowed, Indexed
<1>7. Unmoved(after[n], Hart)
  BY <1>2, <1>3, <1>6 DEF AtMatch, Present, Follows
<1>8. Holding(ref, after[n], after[n].next)
  BY <1>3 DEF AtMatch, Tracks, LostLast
<1> QED  BY <1>7, <1>8 DEF Unmoved, Hart, Holding

LEMMA MatchesHealthy == IInv /\ TInv /\ LInv => HealthyMatches
<1> SUFFICES ASSUME IInv, TInv, LInv, phase = "done", fault = "none", ~abut, ~due, part.cur.kind # "TRAP"
             PROVE  verdict = "match"
  BY DEF HealthyMatches
<1>1. PICK i, p : i = inj /\ p = part
  OBVIOUS
<1>2. /\ Closed(i, p) /\ Windowed(i, p) /\ Tell(i, p.out) /\ (ScriptLoads(i) <=> Distinct(i))
      /\ Outwith(i, p) \/ Asleep(i, p) \/ Awake(i, p)
  BY <1>1, TraceRead
<1>3. Apart(i)
  BY <1>2 DEF Windowed, Indexed
<1>4. ScriptLoads(i)
  BY <1>2, <1>3 DEF Distinct, Apart
<1>5. PICK n, s : n = i.nRefRetire /\ s = p.out
  OBVIOUS
<1>6. n \in Nat /\ IsSeq(s) /\ IsSeq(log) /\ retires \in Nat /\ IsInj(i)
  BY <1>2, <1>5 DEF Closed, TInv, RefTyped
<1>7. PICK after, before, kept :
        Past(n, i, s, after, before, kept) /\ Present(i, after[n]) /\ Compared(n, s, after, before, kept)
  BY <1>2, <1>3, <1>5 DEF Tell
<1>8. Tracks(s, after, before, kept)
  BY <1>7 DEF Compared, Diverged, LostLast, Wrong
<1>9. retires = n
  <2> SUFFICES ASSUME retires < n PROVE FALSE
    BY <1>6, <1>7 DEF Compared
  <2>1. i.scPend.open = FALSE
    BY <1>1 DEF LInv, Judged
  <2>2. Reaching(n, i, s, after, before, kept)
    BY <1>1, <1>3, <1>5, <1>6, <1>7, <1>8, <2>1 DEF Reaching
  <2>3. ~Trapped /\ ~Exhausted
    BY <2>2, Fetches
  <2> QED  BY <1>1, <1>4, <1>5, <1>6, <2>3 DEF LInv, Judged, Ended
<1>10. verdict = Walk(p, log)
  BY <1>1, <1>4, <1>5, <1>6, <1>9 DEF LInv, Judged, Ended
<1>11. AllVerified(p)
  <2>1. \A b \in DOMAIN p.brackets : Verified(p.brackets[b])
    BY <1>3, <1>2 DEF Windowed, Structured, Landing, Lands, Verified
  <2>2. CASE p.levels = <<>>
    BY <2>1, <2>2, EndClosed
  <2>3. CASE p.levels # <<>>
    <3>1. i.depth # 0
      BY <1>2, <2>3 DEF Outwith, Asleep, Awake
    <3>2. p.cur.kind = "SLEEP" /\ (p.cur.ext \/ ~p.cur.adopted)
      BY <1>1, <1>2, <3>1 DEF Windowed, Structured
    <3>3. IsPart(p) /\ IsSeq(p.brackets)
      BY <1>2 DEF Closed
    <3> QED  BY ONLY <2>1, <2>3, <3>2, <3>3, EndOpen
  <2> QED  BY <2>2, <2>3
<1>12. PICK d \in Nat : after[n].to = d + 1 /\ Kept(s, kept, d)
  <2>1. after[n].to \in Nat \ {0} /\ Kept(s, kept, after[n].to - 1)
    BY <1>6, <1>7 DEF Past, Placed
  <2>2. after[n].to - 1 \in Nat /\ after[n].to = (after[n].to - 1) + 1
    BY <2>1
  <2> QED  BY <2>1, <2>2
<1>13. d = Len(log) /\ \A q \in 1 .. d : Same(s, kept, q, log[q])
  BY <1>6, <1>8, <1>9, <1>12, SeqFacts DEF Tracks
<1>14. IsSeq(p.out) /\ Kept(p.out, kept, d) /\ Len(log) \in Nat /\ d <= Len(log)
  BY <1>5, <1>6, <1>12, <1>13
<1>15. \A q \in 1 .. d : q <= Len(log) => Same(p.out, kept, q, log[q])
  BY <1>5, <1>13
<1>16. PICK l : l = log
  OBVIOUS
<1>17. Walk(p, l) = "match"
  BY <1>11, <1>14, <1>15, <1>16, WalkIs
<1> QED  BY <1>10, <1>16, <1>17

(* The inductive invariant of the cell, with the readers' agreement and the types it rests on.*)
THEOREM CellInvariant == Spec => [](IInv /\ TInv /\ LInv)
<1>1. Init => IInv /\ TInv /\ LInv
  BY Initially, TypesInitially, LockstepInitially
<1>2. IInv /\ TInv /\ LInv /\ [Next]_vars => (IInv /\ TInv /\ LInv)'
  BY Inductive, TypesInductive, LockstepInductive
<1> QED  BY <1>1, <1>2, PTL DEF Spec

(* The realignment script is sound: at a match outside every window the reference, never      *)
(* interrupted, holds the register, the PC and the memory the interrupted hart holds, for     *)
(* any program, any handlers and any number of windows.                                       *)
THEOREM ReferenceTracks == Spec => []RefTracks
<1>1. IInv /\ TInv /\ LInv => RefTracks
  BY TracksHart
<1> QED  BY <1>1, CellInvariant, PTL

(* The comparison is sound: a hart that loads, stores or resumes wrongly once is never        *)
(* given a match, wherever in the run it did, but for the lost write of an sc.w compared      *)
(* last.                                                                                      *)
THEOREM FaultsCaught == Spec => []FaultCaught
<1>1. IInv /\ TInv /\ LInv => FaultCaught
  BY CatchesFaults
<1> QED  BY <1>1, CellInvariant, PTL

(* The cell has no false alarm: a hart that did nothing wrong matches, whatever its           *)
(* handlers did and however many parks it woke from, unless the simulation ended inside a     *)
(* trap's handler or before a landing, or two windows had no instruction between them.        *)
THEOREM HealthyAlwaysMatch == Spec => []HealthyMatches
<1>1. IInv /\ TInv /\ LInv => HealthyMatches
  BY MatchesHealthy
<1> QED  BY <1>1, CellInvariant, PTL
=============================================================================
