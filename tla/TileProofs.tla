----------------------------- MODULE TileProofs -----------------------------
(***************************************************************************)
(* What an edge does to a hart tile and to the arbiter, for whatever is    *)
(* wired to them: facts the proofs about the shared window and about the   *)
(* TCM aperture have in common.                                            *)
(***************************************************************************)
EXTENDS MpArbiter, HartTile, TLAPS

----------------------------------------------------------------------------
(* The core and its instructions *)

Ops == {"alu", "load", "store", "lr", "sc", "amo", "irq"}

\* An instruction in flight: its state is one of its flow, its operand is no code,
\* and software's rules hold.
Flowing(c) ==
    /\ c \in [st : CoreStates, op : Ops, addr : (Addrs \ CodeAddrs) \cup {Priv},
              lanes : SUBSET Lanes, wdata : Words, fetch : CodeAddrs \cup {Priv}]
    /\ c.st = "EXECUTE" => c.op # "irq"
    /\ c.st = "MEMORY_WAIT" => c.op \in {"load", "store"}
    /\ c.st = "LR_READ" => c.op = "lr"
    /\ c.st = "SC_CHECK" => c.op = "sc"
    /\ c.st \in {"AMO_READ", "AMO_WRITEBACK", "AMO_COMPUTE", "AMO_WRITE"} => c.op = "amo"
    /\ c.st = "AMO_COMPLETE" => c.op \in {"lr", "sc", "amo"}
    /\ c.st \in {"IRQ_SV", "IRQ_JUMP"} => c.op = "irq"
    /\ c.op \in {"lr", "sc", "amo"} => c.addr \notin MutexAddrs
    /\ c.op = "sc" => c.lanes = Lanes
    /\ c.op = "store" => c.lanes # {}
    /\ c.op \in {"alu", "irq"} => c.addr = Priv

Programs == mix \in Mixes /\ \A h \in Harts : Flowing(core[h])

LEMMA InstructionFlows ==
  ASSUME mix \in Mixes, NEW i \in Instructions
  PROVE  Flowing(i) /\ i.st = IF i.op = "irq" THEN "IRQ_SV" ELSE "EXECUTE"
<1> USE TileAssumption
<1>0. /\ mix.fetches \subseteq CodeAddrs \cup {Priv}
      /\ mix.operands \subseteq (Addrs \ CodeAddrs) \cup {Priv}
      /\ DOMAIN mix.writes \subseteq {"load", "store", "lr", "sc", "amo", "irq"}
      /\ \A c \in DOMAIN mix.writes : mix.writes[c] \subseteq Words
  OBVIOUS
<1>1. \/ i \in Flow("EXECUTE", "alu", {Priv}, {{}}, {Word0})
      \/ \E W \in SUBSET Words :
           \/ i \in Flow("EXECUTE", "load", mix.operands, {{}}, W)
           \/ i \in Flow("EXECUTE", "store", mix.operands, Strobes, W)
           \/ i \in Flow("EXECUTE", "lr", DataAddrs, {{}}, W)
           \/ i \in Flow("EXECUTE", "sc", DataAddrs, {Lanes}, W)
           \/ i \in Flow("EXECUTE", "amo", DataAddrs, SUBSET Lanes, W)
           \/ i \in Flow("IRQ_SV", "irq", {Priv}, {Lanes}, W)
  <2> DEFINE of(c, W) ==
          CASE c = "load"  -> Flow("EXECUTE", "load", mix.operands, {{}}, W)
            [] c = "store" -> Flow("EXECUTE", "store", mix.operands, Strobes, W)
            [] c = "lr"    -> Flow("EXECUTE", "lr", DataAddrs, {{}}, W)
            [] c = "sc"    -> Flow("EXECUTE", "sc", DataAddrs, {Lanes}, W)
            [] c = "amo"   -> Flow("EXECUTE", "amo", DataAddrs, SUBSET Lanes, W)
            [] c = "irq"   -> Flow("IRQ_SV", "irq", {Priv}, {Lanes}, W)
  <2>1. Instructions = (UNION {of(c, mix.writes[c]) : c \in DOMAIN mix.writes})
                        \cup Flow("EXECUTE", "alu", {Priv}, {{}}, {Word0})
    BY DEF Instructions
  <2>2. CASE \E c \in DOMAIN mix.writes : i \in of(c, mix.writes[c])
    <3>1. PICK c \in DOMAIN mix.writes : i \in of(c, mix.writes[c]) BY <2>2
    <3>2. mix.writes[c] \in SUBSET Words BY <1>0
    <3>3. c \in {"load", "store", "lr", "sc", "amo", "irq"} BY <1>0
    <3> QED BY <3>1, <3>2, <3>3
  <2> HIDE DEF of
  <2>3. \/ \E c \in DOMAIN mix.writes : i \in of(c, mix.writes[c])
        \/ i \in Flow("EXECUTE", "alu", {Priv}, {{}}, {Word0})
    BY <2>1, Zenon
  <2> QED BY <2>2, <2>3, Zenon
<1>2. Word0 \in Words BY ResetAssumption
<1> USE DEF Flow, Flowing, DataAddrs, Strobes, CoreStates, Ops
<1>3. CASE i \in Flow("EXECUTE", "alu", {Priv}, {{}}, {Word0}) BY <1>0, <1>2, <1>3
<1>4. ASSUME NEW W \in SUBSET Words, i \in Flow("EXECUTE", "load", mix.operands, {{}}, W)
      PROVE  Flowing(i) /\ i.st = "EXECUTE" /\ i.op = "load"
  BY <1>0, <1>4
<1>5. ASSUME NEW W \in SUBSET Words, i \in Flow("EXECUTE", "store", mix.operands, Strobes, W)
      PROVE  Flowing(i) /\ i.st = "EXECUTE" /\ i.op = "store"
  BY <1>0, <1>5
<1>6. ASSUME NEW W \in SUBSET Words, i \in Flow("EXECUTE", "lr", DataAddrs, {{}}, W)
      PROVE  Flowing(i) /\ i.st = "EXECUTE" /\ i.op = "lr"
  BY <1>0, <1>6
<1>7. ASSUME NEW W \in SUBSET Words, i \in Flow("EXECUTE", "sc", DataAddrs, {Lanes}, W)
      PROVE  Flowing(i) /\ i.st = "EXECUTE" /\ i.op = "sc"
  BY <1>0, <1>7
<1>8. ASSUME NEW W \in SUBSET Words, i \in Flow("EXECUTE", "amo", DataAddrs, SUBSET Lanes, W)
      PROVE  Flowing(i) /\ i.st = "EXECUTE" /\ i.op = "amo"
  BY <1>0, <1>8
<1>9. ASSUME NEW W \in SUBSET Words, i \in Flow("IRQ_SV", "irq", {Priv}, {Lanes}, W)
      PROVE  Flowing(i) /\ i.st = "IRQ_SV" /\ i.op = "irq"
  BY <1>0, <1>9
<1> HIDE DEF Flow, Flowing, DataAddrs, Strobes
<1> QED BY <1>1, <1>3, <1>4, <1>5, <1>6, <1>7, <1>8, <1>9

LEMMA FlowNextIs ==
  ASSUME NEW h \in Harts, Flowing(core[h]), ~ Retiring(h)
  PROVE  FlowNext(h) = IF core[h].st = "EXECUTE"
                       THEN IF core[h].op \in {"load", "store"} THEN "MEMORY_WAIT"
                            ELSE IF core[h].op = "lr" THEN "LR_READ"
                            ELSE IF core[h].op = "sc" THEN "SC_CHECK" ELSE "AMO_READ"
                       ELSE IF core[h].st = "AMO_READ" THEN "AMO_WRITEBACK"
                       ELSE IF core[h].st = "AMO_WRITEBACK" THEN "AMO_COMPUTE"
                       ELSE IF core[h].st = "AMO_COMPUTE" THEN "AMO_WRITE"
                       ELSE IF core[h].st = "IRQ_SV" THEN "IRQ_JUMP"
                       ELSE "AMO_COMPLETE"
<1> USE DEF Flowing, Retiring, FlowNext, Ops, CoreStates
<1>1. CASE core[h].st = "EXECUTE" BY <1>1
<1>2. CASE core[h].st # "EXECUTE" BY <1>2
<1> QED BY <1>1, <1>2

\* A hart that gets no core clock keeps what its core holds.
Still(h) ==
    /\ core'[h] = core[h] /\ lres'[h] = lres[h]
    /\ read_bus'[h] = read_bus[h] /\ holds'[h] = holds[h]

Continues(h) == ~ Retiring(h) /\ core'[h] = [core[h] EXCEPT !.st = FlowNext(h)]

Begins(h) ==
    /\ core'[h] \in Instructions /\ CanStart(h, core'[h])
    /\ core'[h].op = "store" /\ core'[h].wdata = Word0 /\ core'[h].addr \in MutexAddrs =>
          core'[h].addr \notin holds'[h]

\* One that does was ready, and goes on with its instruction or begins another.
Moves(h) ==
    /\ mem_ready(h)
    /\ Continues(h) \/ Begins(h)
    /\ read_bus'[h] = IF sh_sel(h) THEN sh_rdata_reg[h] ELSE Priv
    /\ lres'[h] \in {lres[h], core[h].addr, NoAddr}
    /\ \A a \in holds'[h] :
          \/ a \in holds[h]
          \/ /\ a \in MutexAddrs /\ core[h].addr = a /\ read_bus[h] = Word0
             /\ core[h].st = "MEMORY_WAIT" /\ core[h].op = "load"

\* A rising edge of the cores' clocks, whoever gets one.
CoresMove ==
    \E moving \in SUBSET Harts : \E begin \in SUBSET moving :
    \E new \in [begin -> Instructions] : CoreEdge(moving, begin, new)

LEMMA CoreDoes ==
  ASSUME CoresMove, NEW h \in Harts
  PROVE  (Still(h) \/ Moves(h)) /\ mix' = mix
<1>1. PICK moving \in SUBSET Harts : \E begin \in SUBSET moving :
        \E new \in [begin -> Instructions] : CoreEdge(moving, begin, new)
  BY DEF CoresMove
<1>2. PICK begin \in SUBSET moving :
        \E new \in [begin -> Instructions] : CoreEdge(moving, begin, new)
  BY <1>1
<1>3. PICK new \in [begin -> Instructions] : CoreEdge(moving, begin, new) BY <1>2
<1>4. mix' = mix BY <1>3 DEF CoreEdge
<1>5. CASE h \notin moving
  <2>1. core'[h] = core[h] /\ lres'[h] = lres[h] /\ read_bus'[h] = read_bus[h]
    BY <1>3, <1>5 DEF CoreEdge
  <2>2. holds'[h] = (holds[h] \cup {}) \ {} BY <1>3, <1>5 DEF CoreEdge, Believe
  <2> QED BY <1>4, <2>1, <2>2 DEF Still
<1>6. CASE h \in moving
  <2>1. mem_ready(h) BY <1>3, <1>6 DEF CoreEdge
  <2>2. /\ read_bus'[h] = IF sh_sel(h) THEN sh_rdata_reg[h] ELSE Priv
        /\ lres'[h] \in {lres[h], core[h].addr, NoAddr}
    BY <1>3, <1>6 DEF CoreEdge
  <2>5. \A a \in holds'[h] :
           \/ a \in holds[h]
           \/ /\ a \in MutexAddrs /\ core[h].addr = a /\ read_bus[h] = Word0
              /\ core[h].st = "MEMORY_WAIT" /\ core[h].op = "load"
    BY <1>3, <1>6 DEF CoreEdge, Believe
  <2>3. CASE h \in begin
    <3>1. core'[h] = new[h] /\ CanStart(h, new[h]) /\ new[h] \in Instructions
      BY <1>3, <2>3 DEF CoreEdge
    <3>2. core'[h].op = "store" /\ core'[h].wdata = Word0 /\ core'[h].addr \in MutexAddrs =>
            core'[h].addr \notin holds'[h]
      BY <1>3, <2>3, <3>1 DEF CoreEdge, Believe
    <3> QED BY <1>4, <2>1, <2>2, <2>5, <3>1, <3>2 DEF Moves, Begins
  <2>4. CASE h \notin begin
    <3>1. core'[h] = [core[h] EXCEPT !.st = FlowNext(h)] /\ ~ Retiring(h)
      BY <1>3, <1>6, <2>4 DEF CoreEdge
    <3> QED BY <1>4, <2>1, <2>2, <2>5, <3>1 DEF Moves, Continues
  <2> QED BY <2>3, <2>4
<1> QED BY <1>5, <1>6

LEMMA ProgramsKept == Programs /\ CoresMove => Programs'
<1> SUFFICES ASSUME Programs, CoresMove PROVE Programs' OBVIOUS
<1>1. mix' \in Mixes BY DEF Programs, CoresMove, CoreEdge
<1>2. ASSUME NEW h \in Harts PROVE Flowing(core[h])'
  <2>1. Flowing(core[h]) BY DEF Programs
  <2>2. CASE Still(h) BY <2>1, <2>2 DEF Still, Flowing
  <2>3. CASE Begins(h)
    <3>1. Flowing(core'[h]) BY <2>3, InstructionFlows DEF Begins, Programs
    <3> QED BY <3>1 DEF Flowing
  <2>4. CASE Continues(h)
    <3>1. FlowNext(h) \in CoreStates BY <2>1, <2>4, FlowNextIs DEF Continues, CoreStates
    <3> DEFINE c == core'[h]
    <3>2. c = [core[h] EXCEPT !.st = FlowNext(h)] BY <2>4 DEF Continues
    <3>3. /\ c.st = FlowNext(h) /\ c.op = core[h].op /\ c.addr = core[h].addr
          /\ c.lanes = core[h].lanes /\ c.wdata = core[h].wdata /\ c.fetch = core[h].fetch
          /\ c \in [st : CoreStates, op : Ops, addr : (Addrs \ CodeAddrs) \cup {Priv},
                    lanes : SUBSET Lanes, wdata : Words, fetch : CodeAddrs \cup {Priv}]
      BY <2>1, <3>1, <3>2 DEF Flowing
    <3> HIDE DEF c
    <3>4. Flowing(c)
      BY <2>1, <2>4, <3>3, FlowNextIs DEF Flowing, Continues, Retiring, Ops, CoreStates
    <3> QED BY <3>4 DEF Flowing, c
  <2> QED BY <2>2, <2>3, <2>4, CoreDoes DEF Moves
<1> QED BY <1>1, <1>2 DEF Programs

----------------------------------------------------------------------------
(* The tile's wires *)

\* A hart that gets no clock keeps its wires.
LEMMA StillWires ==
  ASSUME NEW h \in Harts, Still(h)
  PROVE  /\ data_addr(h)' = data_addr(h) /\ sh_sel(h)' = sh_sel(h)
         /\ we_lanes(h)' = we_lanes(h) /\ Offer(h)' = Offer(h)
         /\ lr_sc_bus(h)' = lr_sc_bus(h) /\ amo_lock(h)' = amo_lock(h)
<1> USE DEF Still
<1>1. LocalOk(h)' = LocalOk(h) BY DEF LocalOk
<1>2. Addressing(h)' = Addressing(h) BY <1>1 DEF Addressing
<1>3. data_addr(h)' = data_addr(h) BY <1>2 DEF data_addr
<1>4. sh_sel(h)' = sh_sel(h) BY <1>3 DEF sh_sel
<1>5. Writing(h)' = Writing(h) BY <1>2 DEF Writing
<1>6. we_lanes(h)' = we_lanes(h) BY <1>4, <1>5 DEF we_lanes
<1>7. Offer(h)' = Offer(h) BY <1>3, <1>4, <1>6 DEF Offer
<1>8. lr_sc_bus(h)' = lr_sc_bus(h) BY <1>1 DEF lr_sc_bus
<1>9. amo_lock(h)' = amo_lock(h) BY DEF amo_lock
<1> QED BY <1>3, <1>4, <1>6, <1>7, <1>8, <1>9

\* The ack of a hart that presents an access comes with its done.
LEMMA StillAck ==
  ASSUME Handshake, NEW h \in Harts, Still(h), sh_sel(h)
  PROVE  ack_ok(h)' <=> ack_ok(h) \/ h \in bnd_done
BY StillWires DEF Handshake, ack_ok

----------------------------------------------------------------------------
(* Types *)

LEMMA OfferType ==
  ASSUME Programs, NEW h \in Harts
  PROVE  /\ Offer(h) \in Tx /\ data_addr(h) \in Addrs \cup {Priv}
         /\ we_lanes(h) \subseteq Lanes /\ (sh_sel(h) => data_addr(h) \in Addrs)
<1> USE MapAssumption, ResetAssumption
<1>1. Flowing(core[h]) BY DEF Programs
<1>2. data_addr(h) \in Addrs \cup {Priv} BY <1>1 DEF Flowing, data_addr
<1>3. we_lanes(h) \subseteq Lanes BY <1>1 DEF Flowing, we_lanes
<1>4. core[h].wdata \in Words BY <1>1 DEF Flowing
<1> QED BY <1>2, <1>3, <1>4 DEF Offer, Tx, sh_sel

\* The arbiter's registers keep their types if its wires have theirs.
LEMMA ArbiterTyped ==
  ASSUME ArbTypeOK, NEW req \in SUBSET Masters, NEW tx \in [Masters -> Tx], NEW lock,
         NEW stall, NEW rd \in Words, ArbEdge(req, tx, lock, stall, rd)
  PROVE  ArbTypeOK'
<1>1. \A m \in Masters : Following(m) \in Masters
  BY NAssumption DEF Following, Masters
<1>2. \A t \in Tx : t.we \subseteq Lanes BY DEF Tx
<1> USE <1>1, <1>2 DEF ArbTypeOK, Release, NoLaunch, Launch
<1>5. CASE Rest(req) BY <1>5 DEF Rest
<1>6. CASE Pick(req, tx) BY <1>6 DEF Pick
<1>7. CASE Latch(req, stall) BY <1>7 DEF Latch
<1>8. CASE Complete(req, lock, rd) BY <1>8 DEF Complete
<1>9. CASE Unlock(req, lock) BY <1>9 DEF Unlock
<1>10. CASE Relaunch(req, tx, lock) BY <1>10 DEF Relaunch
<1>11. CASE Hold(req, lock) BY <1>11 DEF Hold
<1> QED BY <1>5, <1>6, <1>7, <1>8, <1>9, <1>10, <1>11 DEF ArbEdge

\* So do the tile's.
LEMMA TilesTyped ==
  ASSUME TileTypeOK, Programs, Programs', BoundaryOut, Handshake, CoresMove,
         NEW dn \in SUBSET Harts, NEW rd \in Words, NEW sf \in SUBSET Harts,
         BoundaryIn(dn, rd, sf)
  PROVE  TileTypeOK'
<1>1. /\ bnd_req' \subseteq Harts /\ bnd_lock' \subseteq Harts
      /\ bnd_tx' \in [Harts -> [we : SUBSET Lanes, addr : Addrs, wdata : Words]]
      /\ bnd_lrsc' \in [Harts -> {"none", "lr", "sc"}]
  BY OfferType DEF BoundaryOut, Tx, lr_sc_bus
<1>2. bnd_done' \subseteq Harts /\ bnd_rdata' \in Words /\ bnd_scfail' \subseteq Harts
  BY DEF BoundaryIn
<1>3. sh_acked' \in [Harts -> {NoAck} \cup [we : SUBSET Lanes, addr : Addrs]]
  BY OfferType DEF Handshake, TileTypeOK
<1>4. sh_rdata_reg' \in [Harts -> Words] /\ sh_scfail' \subseteq Harts
  BY DEF Handshake, TileTypeOK
<1>5. PICK moving \in SUBSET Harts : \E begin \in SUBSET moving :
        \E new \in [begin -> Instructions] : CoreEdge(moving, begin, new)
  BY DEF CoresMove
<1>6. PICK begin \in SUBSET moving :
        \E new \in [begin -> Instructions] : CoreEdge(moving, begin, new)
  BY <1>5
<1>7. PICK new \in [begin -> Instructions] : CoreEdge(moving, begin, new) BY <1>6
<1>8. /\ core' = [h \in Harts |-> core'[h]] /\ lres' = [h \in Harts |-> lres'[h]]
      /\ read_bus' = [h \in Harts |-> read_bus'[h]] /\ holds' = [h \in Harts |-> holds'[h]]
  BY <1>7 DEF CoreEdge, Believe
<1>9. ASSUME NEW h \in Harts
      PROVE  /\ core'[h] \in [st : CoreStates, op : Ops, addr : Addrs \cup {Priv},
                              lanes : SUBSET Lanes, wdata : Words,
                              fetch : CodeAddrs \cup {Priv}]
             /\ lres'[h] \in Addrs \cup {Priv, NoAddr}
             /\ read_bus'[h] \in Words \cup {Priv} /\ holds'[h] \subseteq MutexAddrs
  <2>1. Flowing(core[h]) /\ Flowing(core'[h]) BY DEF Programs, Flowing
  <2>2. Still(h) \/ Moves(h) BY CoreDoes
  <2>3. core'[h] \in [st : CoreStates, op : Ops, addr : Addrs \cup {Priv},
                      lanes : SUBSET Lanes, wdata : Words, fetch : CodeAddrs \cup {Priv}]
    BY <2>1 DEF Flowing
  <2>4. core[h].addr \in Addrs \cup {Priv} BY <2>1 DEF Flowing
  <2> QED BY <2>2, <2>3, <2>4 DEF Still, Moves, TileTypeOK
<1>10. mix' \in Mixes BY DEF Programs
<1> QED BY <1>1, <1>2, <1>3, <1>4, <1>8, <1>9, <1>10 DEF TileTypeOK, Ops
=============================================================================
