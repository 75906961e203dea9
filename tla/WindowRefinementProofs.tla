----------------------- MODULE WindowRefinementProofs -----------------------
(***************************************************************************)
(* The shared window implements AtomicMemory, for every number of harts    *)
(* and every mix of programs: each clock edge is one access taking effect, *)
(* or none, seen through the mapping of WindowRefinement.                  *)
(*                                                                         *)
(* To the wires' invariant the step adds Locks: a hart between the read    *)
(* and the write of its AMO owns the bus, so no other hart's access takes  *)
(* effect meanwhile.                                                       *)
(***************************************************************************)
EXTENDS WindowProofs

----------------------------------------------------------------------------
(* The lock of a read-modify-write *)

Locks ==
    \A g \in Inside :
       /\ cur = g /\ state # "IDLE" /\ g \in bnd_lock
       /\ state = "DATA" => cur_we = {}

\* No instruction starts, and no step of one leads, where a mere fetch already
\* was the access: operands are not code.
LEMMA FreshAccess ==
  ASSUME WireInv, Next, NEW h \in Harts, Moves(h), Addressing(h)', sh_sel(h)',
         core'[h].st # "AMO_READ", core'[h].st # "LR_READ"
  PROVE  ~ Performed(h)'
<1> SUFFICES ASSUME Performed(h)' PROVE FALSE OBVIOUS
<1>1. sh_sel(h) /\ data_addr(h)' = data_addr(h) BY MovedPerformed
<1>2. Flowing(core[h]) /\ Flowing(core[h])' BY NextWires DEF WireInv, Programs
<1>3. data_addr(h)' = core'[h].addr BY DEF data_addr
<1>4. core'[h].addr \notin CodeAddrs BY <1>2, MapAssumption DEF Flowing
<1>5. Addressing(h)
  BY <1>1, <1>2, <1>3, <1>4 DEF data_addr, Flowing, sh_sel
<1>6. CASE Begins(h)
  <2>1. core'[h].op = "irq" => core'[h].addr = Priv BY <1>2 DEF Flowing
  <2>2. core'[h].op # "irq" BY <1>1, <1>3, <2>1 DEF sh_sel
  <2>3. Retiring(h) BY <1>6, <2>2 DEF Begins, CanStart
  <2> QED BY <1>2, <1>5, <2>3 DEF Retiring, Addressing, Flowing
<1>7. CASE Continues(h)
  <2>1. ~ Retiring(h) /\ core'[h].st = FlowNext(h) BY <1>2, <1>7 DEF Continues, Flowing
  <2> QED BY <1>2, <1>5, <2>1, FlowNextIs DEF Addressing, Flowing
<1> QED BY <1>6, <1>7 DEF Moves

\* Who is inside changes only when that hart's access is performed.
LEMMA InsideChanges ==
  ASSUME WireInv, Next, NEW h \in Harts, ~ (state = "LATCH" /\ cur = h)
  PROVE  (h \in Inside)' <=> h \in Inside
<1>1. Flowing(core[h]) /\ Flowing(core[h])' BY NextWires DEF WireInv, Programs
<1>2. CASE Still(h)
  <2>1. core[h].op = "amo" /\ core[h].addr # Priv /\ core[h].st \in {"EXECUTE", "AMO_WRITE"}
           => (Performed(h)' <=> Performed(h))
    BY <1>2, StillPerformed DEF sh_sel, data_addr, Addressing
  <2> QED BY <1>2, <2>1 DEF Inside, Still
<1>3. CASE Moves(h) /\ Continues(h)
  <2>1. /\ ~ Retiring(h) /\ core'[h].st = FlowNext(h)
        /\ core'[h].op = core[h].op /\ core'[h].addr = core[h].addr
    BY <1>1, <1>3 DEF Continues, Flowing
  <2>2. core[h].op = "amo" /\ core[h].addr # Priv /\ core[h].st \in {"EXECUTE", "AMO_WRITE"}
           => Performed(h)
    BY <1>3 DEF Moves, mem_ready, sh_sel, data_addr, Addressing, Performed
  <2>3. core'[h].addr # Priv /\ core'[h].st = "AMO_WRITE" => ~ Performed(h)'
    BY <1>3, FreshAccess DEF sh_sel, data_addr, Addressing
  <2>4. core[h].op = "amo" => core'[h].st =
           IF core[h].st = "EXECUTE" THEN "AMO_READ"
           ELSE IF core[h].st = "AMO_READ" THEN "AMO_WRITEBACK"
           ELSE IF core[h].st = "AMO_WRITEBACK" THEN "AMO_COMPUTE"
           ELSE IF core[h].st = "AMO_COMPUTE" THEN "AMO_WRITE"
           ELSE "AMO_COMPLETE"
    BY <1>1, <2>1, FlowNextIs DEF Flowing, Retiring
  <2> QED BY <1>1, <2>1, <2>2, <2>3, <2>4 DEF Inside, Flowing
<1>4. CASE Moves(h) /\ Begins(h)
  <2>1. h \notin Inside
    <3>1. core[h].op = "amo" /\ core[h].addr # Priv /\ core[h].st \in {"EXECUTE", "AMO_WRITE"}
             => Performed(h)
      BY <1>4 DEF Moves, mem_ready, sh_sel, data_addr, Addressing, Performed
    <3>2. Retiring(h) \/ Divertible(h) BY <1>4 DEF Begins, CanStart
    <3> QED BY <1>1, <3>1, <3>2 DEF Retiring, Divertible, Inside, Flowing
  <2>2. core'[h].st \in {"EXECUTE", "IRQ_SV"}
    BY <1>4, InstructionFlows DEF Begins, WireInv, Programs
  <2>3. core'[h].op = "amo" /\ core'[h].addr # Priv /\ core'[h].st = "EXECUTE" => ~ Performed(h)'
    BY <1>4, FreshAccess DEF sh_sel, data_addr, Addressing
  <2>4. ~ (h \in Inside)' BY <2>2, <2>3 DEF Inside
  <2> QED BY <2>1, <2>4
<1> QED BY <1>2, <1>3, <1>4, CoreDoes, CoresAre DEF Next, Moves

\* The hart on the bus goes in with its AMO's read and comes out with its write.
LEMMA InsideAtAccess ==
  ASSUME WireInv, Next, NEW p \in Harts, state = "LATCH", cur = p
  PROVE  (p \in Inside)' <=> \/ Kind(p) = "rmw read"
                             \/ Kind(p) # "rmw write" /\ p \in Inside
<1>1. Accesses /\ Still(p) /\ sh_sel(p) /\ ~ Performed(p) BY OneAccess DEF Accesses
<1>2. Performed(p)' BY <1>1, StillPerformed
<1>3. Flowing(core[p]) BY DEF WireInv, Programs
<1>4. core[p].op = "amo" /\ core[p].st \in {"EXECUTE", "AMO_READ"} => core[p].addr # Priv
  BY <1>1 DEF sh_sel, data_addr, Addressing
<1>5. /\ Kind(p) = "rmw read" <=> core[p].op = "amo" /\ core[p].st \in {"EXECUTE", "AMO_READ"}
      /\ Kind(p) = "rmw write" <=> core[p].st = "AMO_WRITE"
  BY <1>3 DEF Kind, lr_sc_bus, Flowing
<1> QED BY <1>1, <1>2, <1>3, <1>4, <1>5 DEF Inside, Still, Flowing

LEMMA NextLocks == WireInv /\ Locks /\ Next => Locks'
<1> SUFFICES ASSUME WireInv, Locks, Next, NEW g \in Harts, (g \in Inside)'
             PROVE  /\ cur' = g /\ state' # "IDLE" /\ g \in bnd_lock'
                    /\ state' = "DATA" => cur_we' = {}
  BY DEF Locks, Inside
<1>1. g \in bnd_lock'
  <2>1. CASE Still(g)
    <3>1. amo_lock(g) BY <2>1 DEF Inside, Still, amo_lock
    <3> QED BY <3>1 DEF Next, Fabric, BoundaryOut
  <2>2. CASE Moves(g)
    <3>1. ~ (state = "LATCH" /\ cur = g)
      BY <2>2, OneAccess DEF Accesses, Moves, mem_ready, Performed
    <3>2. g \in Inside BY <3>1, InsideChanges
    <3>3. amo_lock(g) BY <3>2 DEF Inside, amo_lock
    <3> QED BY <3>3 DEF Next, Fabric, BoundaryOut
  <2> QED BY <2>1, <2>2, CoreDoes, CoresAre DEF Next
<1>2. CASE state = "LATCH" /\ cur = g
  <2>1. Accesses /\ Still(g) BY <1>2, OneAccess DEF Accesses
  <2>2. state' = "DATA" /\ cur' = g /\ cur_we' = s_tx.we
    BY <1>2, BusDoes DEF Next, WireInv, Bus, Picks, Performs, Completes, Rests
  <2>3. Flowing(core[g]) BY DEF WireInv, Programs
  <2>4. core[g].op = "amo" /\ core[g].st # "AMO_WRITE"
    <3>1. core[g].op = "amo" /\ Kind(g) # "rmw write"
      BY <1>2, <2>1, InsideAtAccess DEF Inside, Still
    <3>2. core[g].st = "AMO_WRITE" => Kind(g) = "rmw write" BY DEF Kind, lr_sc_bus
    <3> QED BY <3>1, <3>2
  <2>5. Offer(g).we = {} BY <2>3, <2>4 DEF Offer, we_lanes, Writing, Flowing
  <2> QED BY <1>1, <1>2, <2>1, <2>2, <2>5 DEF Accesses
<1>3. CASE ~ (state = "LATCH" /\ cur = g)
  <2>1. g \in Inside BY <1>3, InsideChanges
  <2>2. cur = g /\ state # "IDLE" /\ g \in bnd_lock /\ (state = "DATA" => cur_we = {})
    BY <2>1 DEF Locks
  <2>3. (\E m \in Masters : Picks(m)) \/ Completes \/ Rests
    BY <1>3, <2>2, BusDoes DEF Next, WireInv, Performs
  <2>4. cur' = g /\ state' # "IDLE" /\ state' # "DATA"
    BY <2>2, <2>3 DEF Picks, Completes, Rests
  <2> QED BY <1>1, <2>4
<1> QED BY <1>2, <1>3

----------------------------------------------------------------------------
(* The memory's initial states *)

LEMMA KindType ==
  ASSUME NEW h \in Harts
  PROVE  Kind(h) \in Memory!Kinds
BY DEF Kind, Memory!Kinds, lr_sc_bus

LEMMA AskedType ==
  ASSUME Programs, NEW h \in Harts, ~ Performed(h)
  PROVE  Call(h) \in {Memory!Idle} \cup Memory!Asked
<1>1. CASE ~ sh_sel(h) BY <1>1 DEF Call, Memory!Idle
<1>2. CASE sh_sel(h)
  BY <1>2, OfferType, KindType DEF Call, Memory!Asked, Memory!Tx, Tx
<1> QED BY <1>1, <1>2

\* The same, after an edge.
AskedFacts ==
    \A h \in Harts : /\ Kind(h) \in Memory!Kinds
                     /\ Programs /\ ~ Performed(h) => Call(h) \in {Memory!Idle} \cup Memory!Asked

LEMMA AskedNow == AskedFacts
BY KindType, AskedType DEF AskedFacts

LEMMA AskedNext == AskedFacts'
BY AskedNow, PTL

LEMMA InitMemory == Init => Memory!Init
<1> SUFFICES ASSUME Init PROVE Memory!Init OBVIOUS
<1>1. mem = [a \in Addrs |-> Word0] /\ resv = [m \in Masters |-> NoAddr]
  BY DEF Init, SlaveInit, ResvInit
<1>2. read_bus = [m \in Masters |-> Priv] BY OnlyHarts DEF Init, TileInit
<1>3. Programs BY InitWires DEF WireInv
<1>4. \A h \in Harts : core[h].op = "alu" BY DEF Init, TileInit, Flow
<1>5. Inside = {} BY <1>4 DEF Inside
<1>6. ASSUME NEW h \in Harts PROVE Call(h) \in {Memory!Idle} \cup Memory!Asked
  <2>1. CASE ~ sh_sel(h) BY <2>1 DEF Call, Memory!Idle
  <2>2. CASE sh_sel(h)
    <3>1. sh_acked[h] = NoAck /\ done = {} /\ bnd_done = {} /\ state = "IDLE"
      BY DEF Init, TileInit, ArbInit
    <3>2. ~ ack_ok(h) BY <1>3, <2>2, <3>1, OfferType, TileAssumption DEF ack_ok
    <3>3. ~ Performed(h) BY <3>1, <3>2 DEF Performed, Answered
    <3> QED BY <1>3, <3>3, AskedType
  <2> QED BY <2>1, <2>2
<1> QED BY <1>1, <1>2, <1>5, <1>6, OnlyHarts DEF Memory!Init, Memory!Masters, Masters

----------------------------------------------------------------------------
(* Harts whose access is not the one performed *)

LEMMA WaitingCall ==
  ASSUME WireInv, Next, NEW h \in Harts, Still(h), ~ (state = "LATCH" /\ cur = h)
  PROVE  Call(h)' = Call(h) /\ read_bus'[h] = read_bus[h]
<1>1. read_bus'[h] = read_bus[h] BY DEF Still
<1>2. sh_sel(h)' = sh_sel(h) /\ Offer(h)' = Offer(h) /\ lr_sc_bus(h)' = lr_sc_bus(h)
  BY StillWires
<1>3. Kind(h)' = Kind(h) BY <1>2 DEF Still, Kind
<1>4. CASE ~ sh_sel(h) BY <1>1, <1>2, <1>4 DEF Call
<1>5. CASE sh_sel(h)
  <2>1. Performed(h)' <=> Performed(h) BY <1>5, StillPerformed
  <2>2. Performed(h) => /\ ReturnedWord(h)' = ReturnedWord(h)
                        /\ ReturnedVerdict(h)' = ReturnedVerdict(h)
    BY <1>5, StillReturned
  <2>3. CASE ~ Performed(h) BY <1>1, <1>2, <1>3, <1>5, <2>1, <2>3 DEF Call
  <2>4. CASE Performed(h) BY <1>1, <1>2, <1>3, <1>5, <2>1, <2>2, <2>4 DEF Call
  <2> QED BY <2>3, <2>4
<1> QED BY <1>4, <1>5

\* An access that goes on being the one answered is a read and no SC.
LEMMA RepeatedRead ==
  ASSUME WireInv, Next, NEW h \in Harts, Moves(h), Performed(h)', sh_sel(h)'
  PROVE  /\ Offer(h)' = Offer(h) /\ Offer(h).we = {} /\ Kind(h)' # "sc"
         /\ ReturnedWord(h)' = ReturnedWord(h)
<1>1. /\ sh_sel(h) /\ data_addr(h)' = data_addr(h) /\ we_lanes(h)' = we_lanes(h)
      /\ ReturnedWord(h)' = ReturnedWord(h)
  BY MovedPerformed
<1>2. Addressing(h)' => core'[h].st \in {"AMO_READ", "LR_READ"} BY FreshAccess
<1>3. Flowing(core[h])' BY NextWires DEF WireInv, Programs
<1>4. ~ Writing(h)' BY <1>2, <1>3 DEF Writing, Flowing
<1>5. we_lanes(h)' = {} BY <1>4 DEF we_lanes
<1>6. Offer(h)' = Offer(h) /\ Offer(h).we = {} BY <1>1, <1>5 DEF Offer
<1>7. Kind(h)' # "sc"
  <2>1. core'[h].st = "SC_CHECK" /\ LocalOk(h)' => Addressing(h)' BY DEF Addressing
  <2>2. lr_sc_bus(h)' # "sc" BY <1>2, <2>1 DEF lr_sc_bus
  <2> QED BY <2>2 DEF Kind
<1> QED BY <1>1, <1>6, <1>7

LEMMA MovedCall ==
  ASSUME WireInv, Next, NEW h \in Harts, Moves(h)
  PROVE  \/ /\ Call(h) = Memory!Idle /\ read_bus'[h] = Priv
            /\ Call(h)' \in {Memory!Idle} \cup Memory!Asked
         \/ /\ Call(h).st = "answered" /\ read_bus'[h] = Call(h).val
            /\ \/ Call(h)' \in {Memory!Idle} \cup Memory!Asked
               \/ /\ Call(h).tx.we = {}
                  /\ \E k \in Memory!Kinds :
                       Call(h)' = Memory!Answer([Call(h) EXCEPT !.kind = k], Call(h).val, FALSE)
<1>1. Programs' BY NextWires DEF WireInv
<1>2. \/ Call(h)' \in {Memory!Idle} \cup Memory!Asked
      \/ sh_sel(h)' /\ Performed(h)'
  <2>1. CASE ~ sh_sel(h)' BY <2>1 DEF Call, Memory!Idle
  <2>2. CASE sh_sel(h)' /\ ~ Performed(h)'
    BY <1>1, <2>2, AskedNext DEF AskedFacts
  <2> QED BY <2>1, <2>2
<1>3. CASE ~ sh_sel(h)
  <2>1. ~ (sh_sel(h)' /\ Performed(h)') BY <1>3, MovedPerformed
  <2>2. Call(h) = Memory!Idle BY <1>3 DEF Call, Memory!Idle
  <2>3. read_bus'[h] = Priv BY <1>3 DEF Moves
  <2> QED BY <1>2, <2>1, <2>2, <2>3
<1>4. CASE sh_sel(h)
  <2>1. ack_ok(h) /\ read_bus'[h] = sh_rdata_reg[h] BY <1>4 DEF Moves, mem_ready
  <2>2. Performed(h) /\ ReturnedWord(h) = sh_rdata_reg[h]
    BY <2>1 DEF Performed, ReturnedWord
  <2>3. Call(h) = [st |-> "answered", kind |-> Kind(h), tx |-> Offer(h),
                   val |-> ReturnedWord(h), lost |-> Kind(h) = "sc" /\ ReturnedVerdict(h)]
    BY <1>4, <2>2 DEF Call
  <2>4. ASSUME sh_sel(h)', Performed(h)'
        PROVE  /\ Call(h).tx.we = {}
               /\ \E k \in Memory!Kinds :
                    Call(h)' = Memory!Answer([Call(h) EXCEPT !.kind = k], Call(h).val, FALSE)
    <3>1. /\ Offer(h)' = Offer(h) /\ Offer(h).we = {} /\ Kind(h)' # "sc"
          /\ ReturnedWord(h)' = ReturnedWord(h)
      BY <2>4, RepeatedRead
    <3>2. Kind(h)' \in Memory!Kinds BY AskedNext DEF AskedFacts
    <3>3. Call(h)' = [st |-> "answered", kind |-> Kind(h)', tx |-> Offer(h)',
                      val |-> ReturnedWord(h)', lost |-> Kind(h)' = "sc" /\ ReturnedVerdict(h)']
      BY <2>4 DEF Call
    <3>4. (Kind(h)' = "sc" /\ ReturnedVerdict(h)') = FALSE BY <3>1
    <3> DEFINE c == [Call(h) EXCEPT !.kind = Kind(h)']
    <3>5. c.kind = Kind(h)' /\ c.tx = Offer(h) /\ Call(h).val = ReturnedWord(h) BY <2>3
    <3> HIDE DEF c
    <3>6. Call(h)' = Memory!Answer(c, Call(h).val, FALSE)
      BY <3>1, <3>3, <3>4, <3>5 DEF Memory!Answer
    <3>7. \E k \in Memory!Kinds :
             Call(h)' = Memory!Answer([Call(h) EXCEPT !.kind = k], Call(h).val, FALSE)
      BY <3>2, <3>6, Zenon DEF c
    <3>8. Call(h).tx.we = {} BY <2>3, <3>1
    <3> QED BY <3>7, <3>8, Zenon
  <2>5. Call(h).st = "answered" /\ read_bus'[h] = Call(h).val BY <2>1, <2>2, <2>3
  <2> HIDE DEF Memory!Answer
  <2> QED BY <1>2, <2>4, <2>5, Zenon
<1> QED BY <1>3, <1>4

----------------------------------------------------------------------------
(* The access performed *)

\* What the bank or the RAM does is what the memory promises; a conditional
\* store that lost arrives without lanes and changes nothing.
LEMMA AccessEffect ==
  ASSUME WireInv, Next, NEW p \in Harts, state = "LATCH", cur = p
  PROVE  mem' = IF lr_sc_bus(p) = "sc" /\ resv[p] # Offer(p).addr THEN mem
                ELSE [mem EXCEPT ![Offer(p).addr] = Memory!Effect(p, Offer(p))]
<1> DEFINE a == Offer(p).addr
           w == Offer(p).we
           d == Offer(p).wdata
<1>1. /\ sh_sel(p) /\ bnd_lrsc[p] = lr_sc_bus(p)
      /\ mem' = [mem EXCEPT ![a] = AfterAccess(a, GatedLanes({p}, bnd_lrsc, w, a), d, p)]
  BY OneAccess DEF Accesses
<1>2. Offer(p) \in Tx /\ mem \in [Addrs -> Words] /\ p \in Masters
  BY OfferType, OnlyHarts DEF WireInv, TypeOK, SlaveTypeOK
<1>3. a \in Addrs /\ a = data_addr(p) BY <1>1, <1>2 DEF Tx, Offer
<1>4. Granted({p}) = p BY <1>2, GrantedOne
<1>5. mem[a] \in Words BY <1>2, <1>3
<1>6. CASE lr_sc_bus(p) = "sc" /\ resv[p] # a
  <2>1. a \notin MutexAddrs BY <1>3, <1>6, MutexCalls DEF WireInv
  <2>2. GatedLanes({p}, bnd_lrsc, w, a) = {} BY <1>1, <1>4, <1>6 DEF GatedLanes
  <2>3. AfterAccess(a, {}, d, p) = mem[a]
    BY <1>5, <2>1, WordAssumption DEF AfterAccess, Merge
  <2>4. mem' = [mem EXCEPT ![a] = mem[a]] BY <1>1, <2>2, <2>3
  <2> QED BY <1>2, <1>6, <2>4
<1>7. CASE ~ (lr_sc_bus(p) = "sc" /\ resv[p] # a)
  <2>1. GatedLanes({p}, bnd_lrsc, w, a) = w BY <1>1, <1>4, <1>7 DEF GatedLanes
  <2>2. AfterAccess(a, w, d, p) = Memory!Effect(p, Offer(p))
    <3>1. CASE a \in MutexAddrs
      <4>1. MutexAfter(mem[a], w, d, p) = Memory!MutexEffect(p, Offer(p))
        BY DEF MutexAfter, Memory!MutexEffect, OwnerWord, Memory!OwnerWord
      <4> QED BY <3>1, <4>1 DEF AfterAccess, Memory!Effect
    <3>2. CASE a \notin MutexAddrs BY <3>2 DEF AfterAccess, Memory!Effect, Merge
    <3> QED BY <3>1, <3>2
  <2>3. mem' = [mem EXCEPT ![a] = Memory!Effect(p, Offer(p))] BY <1>1, <2>1, <2>2
  <2> QED BY <1>7, <2>3
<1> QED BY <1>6, <1>7

\* The reservation unit does to the links what the memory promises, and its
\* verdict is the memory's.
LEMMA AccessLinks ==
  ASSUME WireInv, Next, NEW p \in Harts, state = "LATCH", cur = p
  PROVE  LET lost == lr_sc_bus(p) = "sc" /\ resv[p] # Offer(p).addr
         IN  /\ resv' = IF lost THEN [resv EXCEPT ![p] = NoAddr]
                        ELSE IF Offer(p).we # {}
                        THEN [m \in Masters |-> IF resv[m] = Offer(p).addr THEN NoAddr ELSE resv[m]]
                        ELSE IF lr_sc_bus(p) = "lr" THEN [resv EXCEPT ![p] = Offer(p).addr]
                        ELSE resv
             /\ lr_sc_bus(p) = "sc" => (p \in sc_fail' <=> lost)
<1>1. /\ sh_sel(p) /\ bnd_lrsc[p] = lr_sc_bus(p)
      /\ ResvEdge(TRUE, {p}, bnd_lrsc, Offer(p).we, Offer(p).addr)
  BY OneAccess DEF Accesses
<1>2. Granted({p}) = p /\ p \in Masters BY GrantedOne, OnlyHarts
<1>3. Flowing(core[p]) BY DEF WireInv, Programs
<1>4. lr_sc_bus(p) = "sc" => Offer(p).we # {}
  BY <1>1, <1>3, WordAssumption DEF lr_sc_bus, Flowing, Offer, we_lanes, Writing, Addressing
<1>5. CASE lr_sc_bus(p) = "sc"
  <2>1. Adjudicate(p, Offer(p).addr) BY <1>1, <1>2, <1>5 DEF ResvEdge
  <2> QED BY <1>4, <1>5, <2>1 DEF Adjudicate, Kill
<1>6. CASE lr_sc_bus(p) # "sc"
  BY <1>1, <1>2, <1>6 DEF ResvEdge, Kill, lr_sc_bus, resvVars
<1> QED BY <1>5, <1>6

\* The edge that ends a LATCH cycle is the memory performing cur's access.
LEMMA AccessPerforms ==
  ASSUME WireInv, Locks, Next, NEW p \in Harts, state = "LATCH", cur = p
  PROVE  Memory!Perform(p)
<1>1. Still(p) /\ sh_sel(p) /\ ~ Performed(p) BY OneAccess DEF Accesses
<1>2. Call(p) = [st |-> "asked", kind |-> Kind(p), tx |-> Offer(p)] BY <1>1 DEF Call
<1>3. /\ Kind(p) = "sc" <=> lr_sc_bus(p) = "sc"
      /\ Kind(p) = "lr" <=> lr_sc_bus(p) = "lr"
  BY DEF Kind, lr_sc_bus
<1> DEFINE lost == lr_sc_bus(p) = "sc" /\ resv[p] # Offer(p).addr
<1>4. Memory!Loses(p) <=> lost BY <1>2, <1>3 DEF Memory!Loses
<1>5. Inside \subseteq {p} BY DEF Locks
<1>6. mem' = IF Memory!Loses(p) THEN mem
             ELSE [mem EXCEPT ![Offer(p).addr] = Memory!Effect(p, Offer(p))]
  BY <1>4, AccessEffect
<1>7. resv' = Memory!Relink(p, Offer(p))
  <2>1. resv' = IF lost THEN [resv EXCEPT ![p] = NoAddr]
                ELSE IF Offer(p).we # {}
                THEN [m \in Masters |-> IF resv[m] = Offer(p).addr THEN NoAddr ELSE resv[m]]
                ELSE IF lr_sc_bus(p) = "lr" THEN [resv EXCEPT ![p] = Offer(p).addr]
                ELSE resv
    BY AccessLinks
  <2> HIDE DEF lost
  <2>2. CASE lost
    <3>1. Kind(p) = "sc" BY <1>3, <2>2 DEF lost
    <3> QED BY <1>2, <1>4, <2>1, <2>2, <3>1 DEF Memory!Relink
  <2>3. CASE ~ lost /\ Offer(p).we # {}
    BY <1>4, <2>1, <2>3 DEF Memory!Relink, Memory!Masters, Masters
  <2>4. CASE ~ lost /\ Offer(p).we = {} /\ lr_sc_bus(p) = "lr"
    BY <1>2, <1>3, <1>4, <2>1, <2>4 DEF Memory!Relink
  <2>5. CASE ~ lost /\ Offer(p).we = {} /\ lr_sc_bus(p) # "lr"
    BY <1>2, <1>3, <1>4, <2>1, <2>5 DEF Memory!Relink
  <2> QED BY <2>2, <2>3, <2>4, <2>5
<1>8. Inside' = IF Kind(p) = "rmw read" THEN {p} ELSE IF Kind(p) = "rmw write" THEN {} ELSE Inside
  <2>1. \A h \in Harts \ {p} : ~ (h \in Inside)' BY <1>5, InsideChanges
  <2>2. (p \in Inside)' <=> Kind(p) = "rmw read" \/ (Kind(p) # "rmw write" /\ p \in Inside)
    BY InsideAtAccess
  <2>3. Inside' \subseteq Harts BY DEF Inside
  <2>4. \A h : h \in Inside' =>
             h = p /\ (Kind(p) = "rmw read" \/ (Kind(p) # "rmw write" /\ p \in Inside))
    BY <2>1, <2>2, <2>3
  <2>5. CASE Kind(p) = "rmw read" BY <2>2, <2>4, <2>5
  <2>6. CASE Kind(p) = "rmw write" BY <2>2, <2>4, <2>6
  <2>7. CASE Kind(p) \notin {"rmw read", "rmw write"}
    <3>1. \A h : h \in Inside' <=> h \in Inside BY <1>5, <2>2, <2>4, <2>7
    <3>2. Inside' = Inside BY <3>1, Zenon
    <3> QED BY <2>7, <3>2
  <2> QED BY <2>5, <2>6, <2>7
<1>9. \E v \in Words : /\ Offer(p).we = {} => v = mem[Offer(p).addr]
                       /\ Call(p)' = Memory!Answer(Call(p), v, Memory!Loses(p))
  <2>1. s_rdata' = mem[Offer(p).addr] BY OneAccess DEF Accesses
  <2>2. s_rdata' \in Words BY NextWires DEF WireInv, TypeOK, SlaveTypeOK
  <2>3. sh_sel(p)' /\ Offer(p)' = Offer(p) /\ lr_sc_bus(p)' = lr_sc_bus(p)
    BY <1>1, StillWires
  <2>4. Kind(p)' = Kind(p) BY <1>1, <2>3 DEF Still, Kind
  <2>5. Performed(p)' BY <1>1, StillPerformed
  <2>6. ReturnedWord(p)' = s_rdata' /\ ReturnedVerdict(p)' = (p \in sc_fail')
    BY <1>1, StillReturned
  <2>7. Call(p)' = [st |-> "answered", kind |-> Kind(p)', tx |-> Offer(p)',
                    val |-> ReturnedWord(p)', lost |-> Kind(p)' = "sc" /\ ReturnedVerdict(p)']
    BY <2>3, <2>5 DEF Call
  <2>8. (Kind(p)' = "sc" /\ ReturnedVerdict(p)') = Memory!Loses(p)
    <3>1. (Kind(p)' = "sc" /\ ReturnedVerdict(p)') <=> lost
      BY <1>3, <2>4, <2>6, AccessLinks
    <3>2. Memory!Loses(p) \in BOOLEAN BY DEF Memory!Loses
    <3> QED BY <1>4, <3>1, <3>2
  <2>9. Call(p)' = Memory!Answer(Call(p), s_rdata', Memory!Loses(p))
    BY <1>2, <2>3, <2>4, <2>6, <2>7, <2>8 DEF Memory!Answer
  <2> QED BY <2>1, <2>2, <2>9
<1>10. read_bus'[p] = read_bus[p] BY <1>1 DEF Still
<1>11. Inside' = CASE Kind(p) = "rmw read" -> {p} [] Kind(p) = "rmw write" -> {}
                   [] OTHER -> Inside
  BY <1>8
<1> HIDE DEF Memory!Loses, Memory!Effect, Memory!Relink
<1> DEFINE call == [h \in Harts |-> Call(h)]
<1>12. call[p].tx = Offer(p) /\ call[p].kind = Kind(p) /\ call[p].st = "asked"
  BY <1>2
<1>13. call[p] = Call(p) /\ (call')[p] = Call(p)' OBVIOUS
<1> DEFINE tx == call[p].tx
<1>14. Memory!Perform(p) <=>
         /\ call[p].st = "asked" /\ Inside \subseteq {p}
         /\ mem' = IF Memory!Loses(p) THEN mem ELSE [mem EXCEPT ![tx.addr] = Memory!Effect(p, tx)]
         /\ resv' = Memory!Relink(p, tx)
         /\ Inside' = CASE call[p].kind = "rmw read" -> {p} [] call[p].kind = "rmw write" -> {}
                        [] OTHER -> Inside
         /\ \E v \in Words : /\ tx.we = {} => v = mem[tx.addr]
                             /\ (call')[p] = Memory!Answer(call[p], v, Memory!Loses(p))
         /\ read_bus'[p] = read_bus[p]
  BY Zenon DEF Memory!Perform
<1> HIDE DEF call
<1> QED BY <1>5, <1>6, <1>7, <1>9, <1>10, <1>11, <1>12, <1>13, <1>14, Zenon

----------------------------------------------------------------------------
(* The refinement *)

LEMMA ElsewhereDoes ==
  ASSUME WireInv, Next, NEW h \in Harts, ~ (state = "LATCH" /\ cur = h)
  PROVE  Memory!Elsewhere(h)
<1> DEFINE call == [g \in Harts |-> Call(g)]
<1>1. call[h] = Call(h) /\ (call')[h] = Call(h)' OBVIOUS
<1>2. Memory!Elsewhere(h) <=>
        \/ (call')[h] = call[h] /\ read_bus'[h] = read_bus[h]
        \/ /\ call[h] = Memory!Idle /\ (call')[h] \in {Memory!Idle} \cup Memory!Asked
           /\ read_bus'[h] = Priv
        \/ /\ call[h].st = "answered" /\ read_bus'[h] = call[h].val
           /\ \/ (call')[h] \in {Memory!Idle} \cup Memory!Asked
              \/ /\ call[h].tx.we = {}
                 /\ \E k \in Memory!Kinds :
                      (call')[h] = Memory!Answer([call[h] EXCEPT !.kind = k], call[h].val, FALSE)
  BY Zenon DEF Memory!Elsewhere, Memory!GoesOn, Memory!Again
<1> HIDE DEF call
<1>3. CASE Still(h)
  <2>1. Call(h)' = Call(h) /\ read_bus'[h] = read_bus[h] BY <1>3, WaitingCall
  <2> QED BY <1>1, <1>2, <2>1
<1>4. CASE Moves(h)
  <2>1. \/ /\ Call(h) = Memory!Idle /\ read_bus'[h] = Priv
           /\ Call(h)' \in {Memory!Idle} \cup Memory!Asked
        \/ /\ Call(h).st = "answered" /\ read_bus'[h] = Call(h).val
           /\ \/ Call(h)' \in {Memory!Idle} \cup Memory!Asked
              \/ /\ Call(h).tx.we = {}
                 /\ \E k \in Memory!Kinds :
                      Call(h)' = Memory!Answer([Call(h) EXCEPT !.kind = k], Call(h).val, FALSE)
    BY <1>4, MovedCall
  <2> QED BY <1>1, <1>2, <2>1, Zenon
<1> QED BY <1>3, <1>4, CoreDoes, CoresAre DEF Next

LEMMA NextMemory == WireInv /\ Locks /\ Next => Memory!Next
<1> SUFFICES ASSUME WireInv, Locks, Next PROVE Memory!Next OBVIOUS
<1>1. Memory!Masters = Harts BY OnlyHarts DEF Memory!Masters, Masters
<1>2. CASE state = "LATCH"
  <2>1. PICK p \in Harts : cur = p BY OnlyHarts DEF WireInv, Bus
  <2>2. Memory!Perform(p) BY <1>2, <2>1, AccessPerforms
  <2>3. \A h \in Harts \ {p} : Memory!Elsewhere(h) BY <2>1, ElsewhereDoes
  <2> QED BY <1>1, <2>2, <2>3, Zenon DEF Memory!Next
<1>3. CASE state # "LATCH"
  <2>1. \A h \in Harts : Memory!Elsewhere(h) BY <1>3, ElsewhereDoes
  <2>2. mem' = mem /\ resv' = resv BY <1>3, OneAccess
  <2>3. \A h \in Harts : (h \in Inside)' <=> h \in Inside BY <1>3, InsideChanges
  <2>4. Inside' \subseteq Harts /\ Inside \subseteq Harts BY DEF Inside
  <2>5. Inside' = Inside BY <2>3, <2>4
  <2> QED BY <1>1, <2>1, <2>2, <2>5, Zenon DEF Memory!Next
<1> QED BY <1>2, <1>3

\* An edge that changes no register changes nothing the memory sees.
LEMMA SameMemory ==
  ASSUME UNCHANGED vars
  PROVE  /\ Inside' = Inside /\ mem' = mem /\ resv' = resv /\ read_bus' = read_bus
         /\ [h \in Harts |-> Call(h)]' = [h \in Harts |-> Call(h)]
<1> USE DEF vars, arbVars, resvVars, slaveVars, tileVars
<1>1. ASSUME NEW h \in Harts
      PROVE  Performed(h)' = Performed(h) /\ Call(h)' = Call(h)
  <2>1. Still(h) BY DEF Still
  <2>2. ack_ok(h)' = ack_ok(h) BY <2>1, StillWires DEF ack_ok
  <2>3. Performed(h)' = Performed(h) BY <2>2 DEF Performed, Answered
  <2>4. ReturnedWord(h)' = ReturnedWord(h) /\ ReturnedVerdict(h)' = ReturnedVerdict(h)
    BY <2>2 DEF ReturnedWord, ReturnedVerdict
  <2>5. Kind(h)' = Kind(h) BY <2>1, StillWires DEF Kind
  <2> QED BY <2>1, <2>3, <2>4, <2>5, StillWires DEF Call
<1> QED BY <1>1 DEF Inside

LEMMA InitLocks == Init => Locks
<1> SUFFICES ASSUME Init PROVE \A h \in Harts : core[h].op # "amo"
  BY DEF Locks, Inside
<1> QED BY DEF Init, TileInit, Flow

LEMMA LocksKept == WireInv /\ Locks /\ [Next]_vars => Locks'
<1> SUFFICES ASSUME WireInv, Locks, UNCHANGED vars PROVE Locks' BY NextLocks
<1>1. Inside' = Inside BY SameMemory
<1> QED BY <1>1 DEF Locks, vars, arbVars, tileVars

\* The shared window is an atomic memory: every access takes effect at once and
\* exactly once, an SC lands only while its reservation stands, and nothing comes
\* between the read and the write of an AMO.
THEOREM WindowImplementsMemory == Spec => ImplementsMemory
<1>1. WireInv /\ Locks /\ [Next]_vars =>
        [Memory!Next]_<< mem, resv, Inside, [h \in Harts |-> Call(h)], read_bus >>
  BY NextMemory, SameMemory
<1> QED
  BY <1>1, InitMemory, InitLocks, LocksKept, WiresAlways, PTL
  DEF Spec, ImplementsMemory, Memory!Spec
=============================================================================
