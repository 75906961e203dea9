------------------------------ MODULE HartTile ------------------------------
(***************************************************************************)
(* A hart tile seen from the shared window: the memory side of the core's  *)
(* state machine (vesta.vhd) and the tile's bus master (hart_tile.vhd) --  *)
(* its depth-1 boundary registers, its one-shot handshake and the stall    *)
(* that freezes the core's gated clock.  Every variable holds all harts;   *)
(* a flag of one bit per hart is the set of the harts whose bit is high.   *)
(*                                                                         *)
(* A hart executes instructions of a mix, chosen freely; the mix is one of *)
(* Mixes and the same for all harts of a run.  An instruction carries what *)
(* its whole flow will need: operand address, lanes, data and the address  *)
(* the fetch of its successor goes to.  Priv stands for every address      *)
(* outside the shared window (the tile's TCM).                             *)
(*                                                                         *)
(* CoreEdge is a rising edge of mclk for the cores; a hart that is not in  *)
(* "moving" got no clk_cpu edge: frozen by the handshake, held by a TCM    *)
(* read through the tile's external port (tx_busy), or asleep.             *)
(***************************************************************************)
EXTENDS WindowMap

CONSTANTS Harts,       \* the masters that are hart tiles
          Mixes,       \* what programs may be made of: instruction classes with the
                       \* values they write, their data words, where their code lives
          NoAck        \* sh_acked low

ASSUME TileAssumption ==
    /\ Harts \subseteq Masters
    /\ NoAck \notin [we : SUBSET Lanes, addr : Addrs]
    /\ \A m \in Mixes : /\ m.fetches \subseteq CodeAddrs \cup {Priv}
                        /\ m.operands \subseteq (Addrs \ CodeAddrs) \cup {Priv}
                        /\ DOMAIN m.writes \subseteq {"load", "store", "lr", "sc", "amo", "irq"}
                        /\ \A c \in DOMAIN m.writes : m.writes[c] \subseteq Words

VARIABLES
    mix,        \* the mix of this run
    core,       \* each core's FSM state and the instruction in flight
    lres,       \* the core-local reservation, or NoAddr
    read_bus,   \* shared word on the core's read bus, or Priv: its private memory's
    \* outbound boundary registers
    bnd_req, bnd_tx, bnd_lrsc, bnd_lock,
    \* inbound boundary registers; every tile samples the one read bus
    bnd_done, bnd_rdata, bnd_scfail,
    \* the handshake: the acked access, its data and its SC verdict
    sh_acked, sh_rdata_reg, sh_scfail,
    holds       \* history: the mutexes each hart's program believes it holds

tileVars == << mix, core, lres, read_bus, bnd_req, bnd_tx, bnd_lrsc, bnd_lock,
               bnd_done, bnd_rdata, bnd_scfail, sh_acked, sh_rdata_reg,
               sh_scfail, holds >>

----------------------------------------------------------------------------
(* Instructions *)

\* Software keeps LR/SC and AMOs off the mutexes (mutex_bank.vhd:4).
DataAddrs == mix.operands \ MutexAddrs

Strobes == (SUBSET Lanes) \ {{}}

Flow(st, op, A, L, W) ==
    [st : {st}, op : {op}, addr : A, lanes : L, wdata : W, fetch : mix.fetches]

Instructions ==
    LET of(c, W) ==
          CASE c = "load"  -> Flow("EXECUTE", "load", mix.operands, {{}}, W)
            [] c = "store" -> Flow("EXECUTE", "store", mix.operands, Strobes, W)
            [] c = "lr"    -> Flow("EXECUTE", "lr", DataAddrs, {{}}, W)
            [] c = "sc"    -> Flow("EXECUTE", "sc", DataAddrs, {Lanes}, W)
            \* no lanes: a compare-and-swap whose compare failed
            [] c = "amo"   -> Flow("EXECUTE", "amo", DataAddrs, SUBSET Lanes, W)
            \* not an instruction: an interrupt taken, its PC push to the TCM
            [] c = "irq"   -> Flow("IRQ_SV", "irq", {Priv}, {Lanes}, W)
    IN  (UNION {of(c, mix.writes[c]) : c \in DOMAIN mix.writes})
        \cup Flow("EXECUTE", "alu", {Priv}, {{}}, {Word0})

CoreStates == {"EXECUTE", "MEMORY_WAIT", "LR_READ", "SC_CHECK", "AMO_READ",
               "AMO_WRITEBACK", "AMO_COMPUTE", "AMO_WRITE", "AMO_COMPLETE",
               "IRQ_SV", "IRQ_JUMP"}

----------------------------------------------------------------------------
(* The core's bus, a combinational function of its state *)

\* The SC-success predicate, the local half.
LocalOk(h) == lres[h] = core[h].addr

\* The states that put the operand address on the bus; the others fetch.
Addressing(h) ==
    \/ core[h].st = "EXECUTE" /\ core[h].op \in {"load", "store", "lr", "amo"}
    \/ core[h].st \in {"LR_READ", "AMO_READ", "AMO_WRITE", "IRQ_SV"}
    \/ core[h].st = "SC_CHECK" /\ LocalOk(h)

data_addr(h) == IF Addressing(h) THEN core[h].addr ELSE core[h].fetch

Writing(h) ==
    /\ Addressing(h)
    /\ core[h].op = "store" \/ core[h].st \in {"SC_CHECK", "AMO_WRITE", "IRQ_SV"}

\* The tag for the reservation unit: an LR reads during EXECUTE, an SC writes
\* in SC_CHECK.
lr_sc_bus(h) ==
    IF core[h].st = "EXECUTE" /\ core[h].op = "lr" THEN "lr"
    ELSE IF core[h].st = "SC_CHECK" /\ LocalOk(h) THEN "sc"
    ELSE "none"

\* Mutant: the lock rises only after the read, a cycle late for LOCKED.
amo_lock_AfterRead(h) ==
    core[h].st \in {"AMO_READ", "AMO_WRITEBACK", "AMO_COMPUTE", "AMO_WRITE"}

amo_lock(h) ==
    \/ core[h].st = "EXECUTE" /\ core[h].op = "amo"
    \/ core[h].st \in {"AMO_READ", "AMO_WRITEBACK", "AMO_COMPUTE", "AMO_WRITE"}

----------------------------------------------------------------------------
(* The tile's shared-window master *)

sh_sel(h) == data_addr(h) # Priv

we_lanes(h) == IF sh_sel(h) /\ Writing(h) THEN core[h].lanes ELSE {}

\* The ack counts only for the very lanes and word it was given for.
ack_ok(h) == sh_acked[h] = [we |-> we_lanes(h), addr |-> data_addr(h)]

mem_ready(h) == sh_sel(h) => ack_ok(h)

\* The transaction the tile offers; what it drives while not selected is never used.
Offer(h) ==
    [we    |-> we_lanes(h),
     addr  |-> IF sh_sel(h) THEN data_addr(h) ELSE Addr0,
     wdata |-> IF we_lanes(h) = {} THEN Word0 ELSE core[h].wdata]

BoundaryOut ==
    /\ bnd_req' = {h \in Harts : sh_sel(h) /\ ~ ack_ok(h)}
    /\ bnd_tx' = [h \in Harts |-> Offer(h)]
    /\ bnd_lrsc' = [h \in Harts |-> IF sh_sel(h) THEN lr_sc_bus(h) ELSE "none"]
    /\ bnd_lock' = {h \in Harts : amo_lock(h)}

\* The arbiter's and the reservation unit's answers, as they stand at this edge.
BoundaryIn(done, rdata, sc_fail) ==
    /\ bnd_done' = done
    /\ bnd_rdata' = rdata
    /\ bnd_scfail' = sc_fail

\* Off the window the ack drops; a done acks whatever is being presented.
Handshake ==
    /\ sh_acked' = [h \in Harts |->
          IF ~ sh_sel(h) THEN NoAck
          ELSE IF h \in bnd_done THEN [we |-> we_lanes(h), addr |-> data_addr(h)]
          ELSE sh_acked[h]]
    /\ sh_rdata_reg' = [h \in Harts |->
          IF sh_sel(h) /\ h \in bnd_done THEN bnd_rdata ELSE sh_rdata_reg[h]]
    /\ sh_scfail' = {h \in Harts :
          sh_sel(h) /\ h \in (IF h \in bnd_done THEN bnd_scfail ELSE sh_scfail)}

----------------------------------------------------------------------------
(* The core's edge *)

\* An instruction's last cycle, when the next one may start.
Retiring(h) ==
    \/ core[h].st = "EXECUTE" /\ core[h].op = "alu"
    \/ core[h].st \in {"MEMORY_WAIT", "AMO_COMPLETE", "IRQ_JUMP"}

\* The cycles that test irq_save and may divert to IRQ_SV.
Divertible(h) ==
    \/ core[h].st = "EXECUTE" /\ core[h].op = "alu"
    \/ core[h].st \in {"MEMORY_WAIT", "LR_READ", "SC_CHECK", "AMO_WRITE", "AMO_COMPLETE"}

\* Software's own rule: only a mutex's holder writes zero to it.
Disciplined(h, i) ==
    i.op = "store" /\ i.addr \in MutexAddrs /\ i.wdata = Word0 => i.addr \in holds[h]

CanStart(h, i) ==
    /\ IF i.op = "irq" THEN Divertible(h) ELSE Retiring(h)
    /\ Disciplined(h, i)

\* The successor within an instruction's flow.
FlowNext(h) ==
    CASE core[h].st = "EXECUTE" ->
            (CASE core[h].op \in {"load", "store"} -> "MEMORY_WAIT"
               [] core[h].op = "lr" -> "LR_READ"
               [] core[h].op = "sc" -> "SC_CHECK"
               [] core[h].op = "amo" -> "AMO_READ"
               [] OTHER -> "EXECUTE")
      [] core[h].st = "AMO_READ" -> "AMO_WRITEBACK"
      [] core[h].st = "AMO_WRITEBACK" -> "AMO_COMPUTE"
      [] core[h].st = "AMO_COMPUTE" -> "AMO_WRITE"
      [] core[h].st \in {"LR_READ", "SC_CHECK", "AMO_WRITE"} -> "AMO_COMPLETE"
      [] core[h].st = "IRQ_SV" -> "IRQ_JUMP"
      [] OTHER -> core[h].st

\* A mutex is the program's once a claim-read showed zero, until it starts to release it.
Believe(begin, new, moving) ==
    holds' = [h \in Harts |->
        (holds[h] \cup {a \in MutexAddrs : h \in moving /\ core[h].st = "MEMORY_WAIT"
                            /\ core[h].op = "load" /\ core[h].addr = a
                            /\ read_bus[h] = Word0})
        \ {a \in MutexAddrs : h \in begin /\ new[h].op = "store"
                            /\ new[h].addr = a /\ new[h].wdata = Word0}]

CoreEdge(moving, begin, new) ==
    /\ \A h \in moving : mem_ready(h)
    /\ \A h \in moving \ begin : ~ Retiring(h)
    /\ \A h \in begin : CanStart(h, new[h])
    /\ core' = [h \in Harts |->
          IF h \in begin THEN new[h]
          ELSE IF h \in moving THEN [core[h] EXCEPT !.st = FlowNext(h)]
          ELSE core[h]]
    /\ lres' = [h \in Harts |->
          IF h \notin moving THEN lres[h]
          ELSE IF core[h].st = "LR_READ" THEN core[h].addr
          ELSE IF core[h].st \in {"SC_CHECK", "IRQ_SV"} THEN NoAddr
          ELSE lres[h]]
    /\ read_bus' = [h \in Harts |->
          IF h \notin moving THEN read_bus[h]
          ELSE IF sh_sel(h) THEN sh_rdata_reg[h]
          ELSE Priv]
    /\ Believe(begin, new, moving)
    /\ UNCHANGED mix

----------------------------------------------------------------------------

TileTypeOK ==
    /\ mix \in Mixes
    /\ core \in [Harts -> [st : CoreStates,
                           op : {"alu", "load", "store", "lr", "sc", "amo", "irq"},
                           addr : Addrs \cup {Priv}, lanes : SUBSET Lanes,
                           wdata : Words, fetch : CodeAddrs \cup {Priv}]]
    /\ lres \in [Harts -> Addrs \cup {Priv, NoAddr}]
    /\ read_bus \in [Harts -> Words \cup {Priv}]
    /\ bnd_req \subseteq Harts
    /\ bnd_tx \in [Harts -> [we : SUBSET Lanes, addr : Addrs, wdata : Words]]
    /\ bnd_lrsc \in [Harts -> {"none", "lr", "sc"}]
    /\ bnd_lock \subseteq Harts
    /\ bnd_done \subseteq Harts
    /\ bnd_rdata \in Words
    /\ bnd_scfail \subseteq Harts
    /\ sh_acked \in [Harts -> {NoAck} \cup [we : SUBSET Lanes, addr : Addrs]]
    /\ sh_rdata_reg \in [Harts -> Words]
    /\ sh_scfail \subseteq Harts
    /\ holds \in [Harts -> SUBSET MutexAddrs]

\* Every register reset; each core about to fetch its first instruction.
TileInit ==
    /\ mix \in Mixes
    /\ core \in [Harts -> Flow("EXECUTE", "alu", {Priv}, {{}}, {Word0})]
    /\ lres = [h \in Harts |-> NoAddr]
    /\ read_bus = [h \in Harts |-> Priv]
    /\ bnd_req = {}
    /\ bnd_tx = [h \in Harts |-> [we |-> {}, addr |-> Addr0, wdata |-> Word0]]
    /\ bnd_lrsc = [h \in Harts |-> "none"]
    /\ bnd_lock = {}
    /\ bnd_done = {}
    /\ bnd_rdata = Word0
    /\ bnd_scfail = {}
    /\ sh_acked = [h \in Harts |-> NoAck]
    /\ sh_rdata_reg = [h \in Harts |-> Word0]
    /\ sh_scfail = {}
    /\ holds = [h \in Harts |-> {}]
=============================================================================
