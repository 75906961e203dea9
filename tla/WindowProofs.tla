---------------------------- MODULE WindowProofs ----------------------------
(***************************************************************************)
(* Theorems about the shared window, for every number of harts and every   *)
(* mix of programs.                                                        *)
(*                                                                         *)
(* NoGhost is a statement about wires that are registered on their way: a  *)
(* request reaches the arbiter an edge late, a done reaches the tile two   *)
(* edges late.  The invariant follows a transaction round that loop: what  *)
(* is on the wire is what the core is frozen on (OnTheWire), and from the  *)
(* done until the request has been seen low the arbiter's mask stands      *)
(* (need_release).  MutexExclusive adds what is on its way to a program    *)
(* that has claimed a mutex and does not know it yet.                      *)
(***************************************************************************)
EXTENDS WindowRefinement, TileProofs

----------------------------------------------------------------------------

LEMMA CoresAre == Cores => CoresMove
<1> SUFFICES ASSUME Cores PROVE CoresMove OBVIOUS
<1>1. PICK moving \in SUBSET {h \in Harts : mem_ready(h)} : \E begin \in SUBSET moving :
        \E new \in [begin -> Instructions] : CoreEdge(moving, begin, new)
  BY DEF Cores
<1> QED BY <1>1 DEF CoresMove

----------------------------------------------------------------------------
(* A transaction's way round *)

\* The arbiter's registers agree about the transaction in hand.
Bus ==
    /\ cur \in Masters
    /\ s_en = (state = "LATCH")
    /\ state = "LATCH" => gnt = {cur} /\ s_master = cur
    /\ state \in {"LATCH", "DATA"} => cur_we = s_tx.we
    /\ done # {} => state \in {"IDLE", "LOCKED"}

Picks(m) ==
    /\ state \in {"IDLE", "LOCKED"} /\ m \in bnd_req \ need_release
    /\ state = "LOCKED" => m = cur /\ cur \in bnd_lock
    /\ state' = "LATCH" /\ cur' = m /\ s_tx' = bnd_tx[m] /\ done' = {}
    /\ need_release' = need_release \cap bnd_req

Performs ==
    /\ state = "LATCH" /\ state' = "DATA" /\ done' = {}
    /\ UNCHANGED << cur, s_tx, cur_we >>
    /\ need_release' = need_release \cap bnd_req

Completes ==
    /\ state = "DATA" /\ done' = {cur} /\ rdata' = s_rdata /\ UNCHANGED cur
    /\ state' = IF cur \in bnd_lock /\ cur_we = {} THEN "LOCKED" ELSE "IDLE"
    /\ need_release' = (need_release \cap bnd_req) \cup {cur}

Rests ==
    /\ state \in {"IDLE", "LOCKED"} /\ done' = {} /\ UNCHANGED cur
    /\ state' = IF state = "LOCKED" /\ cur \in bnd_lock THEN "LOCKED" ELSE "IDLE"
    /\ need_release' = need_release \cap bnd_req

LEMMA BusDoes ==
  ASSUME Fabric, Bus
  PROVE  /\ Bus'
         /\ (\E m \in Masters : Picks(m)) \/ Performs \/ Completes \/ Rests
<1> USE DEF Bus, NoLaunch, Launch, Release, Eligible, Picks, Performs, Completes, Rests
<1>1. ArbEdge(bnd_req, bnd_tx, bnd_lock, FALSE, s_rdata) BY DEF Fabric
<1>2. CASE Rest(bnd_req) BY <1>2 DEF Rest
<1>3. CASE Pick(bnd_req, bnd_tx) BY <1>3 DEF Pick, IsWinner
<1>4. CASE Latch(bnd_req, FALSE) BY <1>4 DEF Latch
<1>5. CASE Complete(bnd_req, bnd_lock, s_rdata) BY <1>5 DEF Complete
<1>6. CASE Unlock(bnd_req, bnd_lock) BY <1>6 DEF Unlock
<1>7. CASE Relaunch(bnd_req, bnd_tx, bnd_lock) BY <1>7 DEF Relaunch
<1>8. CASE Hold(bnd_req, bnd_lock) BY <1>8 DEF Hold
<1> QED BY <1>1, <1>2, <1>3, <1>4, <1>5, <1>6, <1>7, <1>8 DEF ArbEdge

\* What is on hart h's wires, at the arbiter and on the way back.
Trip(h) ==
    /\ h \in bnd_req => /\ sh_sel(h) /\ bnd_tx[h] = Offer(h) /\ bnd_lrsc[h] = lr_sc_bus(h)
                        /\ ack_ok(h) => h \in need_release
    /\ InFlight(h) => h \in bnd_req /\ ~ ack_ok(h) /\ s_tx = Offer(h) /\ ~ Answered(h)
    /\ Answered(h) => h \in bnd_req \cap need_release /\ ~ ack_ok(h)
    /\ ~ (h \in done /\ h \in bnd_done)

Trips == \A h \in Harts : Trip(h)

LEMMA TripKept ==
  ASSUME Bus, Next, NEW h \in Harts, Trip(h)
  PROVE  Trip(h)'
<1>1. Handshake /\ BoundaryOut /\ bnd_done' = done /\ (Still(h) \/ Moves(h))
  BY CoreDoes, CoresAre DEF Next, Fabric, BoundaryIn
<1>2. (\E m \in Masters : Picks(m)) \/ Performs \/ Completes \/ Rests
  BY BusDoes DEF Next
<1>3. h \in bnd_req' <=> sh_sel(h) /\ ~ ack_ok(h)
  BY <1>1 DEF BoundaryOut
<1>4. need_release \cap bnd_req \subseteq need_release'
  BY <1>2 DEF Picks, Performs, Completes, Rests
<1>5. InFlight(h)' => \/ h \in bnd_req \ need_release /\ s_tx' = bnd_tx[h] /\ done' = {}
                      \/ InFlight(h) /\ s_tx' = s_tx /\ done' = {}
  BY <1>2 DEF Picks, Performs, Completes, Rests, InFlight
<1>6. h \in done' => InFlight(h) /\ h \in need_release'
  BY <1>2 DEF Picks, Performs, Completes, Rests, InFlight
<1>7. CASE Moves(h)
  <2>1. h \notin bnd_req' BY <1>3, <1>7 DEF Moves, mem_ready
  <2>2. ~ InFlight(h)' BY <1>3, <1>5, <2>1 DEF Trip
  <2>3. h \notin done' BY <1>3, <1>6, <2>1 DEF Trip
  <2>4. ~ Answered(h)' BY <1>1, <1>3, <2>1, <2>3 DEF Trip, Answered
  <2> QED BY <2>1, <2>2, <2>3, <2>4 DEF Trip
<1>8. CASE Still(h)
  <2>1. sh_sel(h) => (ack_ok(h)' <=> ack_ok(h) \/ h \in bnd_done)
    BY <1>1, <1>8, StillAck
  <2>2. h \in bnd_req' => /\ sh_sel(h)' /\ bnd_tx'[h] = Offer(h)'
                          /\ bnd_lrsc'[h] = lr_sc_bus(h)'
    BY <1>1, <1>3, <1>8, StillWires DEF BoundaryOut
  <2>3. h \in bnd_req' /\ ack_ok(h)' => h \in need_release'
    BY <1>3, <1>4, <2>1 DEF Trip, Answered
  <2>4. InFlight(h)' => /\ h \in bnd_req' /\ ~ ack_ok(h)' /\ s_tx' = Offer(h)'
                        /\ ~ Answered(h)'
    BY <1>1, <1>3, <1>5, <1>8, <2>1, StillWires DEF Trip, Answered
  <2>5. Answered(h)' => h \in bnd_req' \cap need_release' /\ ~ ack_ok(h)'
    BY <1>1, <1>3, <1>4, <1>6, <2>1 DEF Trip, Answered
  <2>6. ~ (h \in done' /\ h \in bnd_done')
    BY <1>1, <1>6 DEF Trip, Answered
  <2> QED BY <2>2, <2>3, <2>4, <2>5, <2>6 DEF Trip
<1> QED BY <1>1, <1>7, <1>8

----------------------------------------------------------------------------
(* Types *)

LEMMA GrantedOne == \A m \in Masters : Granted({m}) = m
BY NAssumption DEF Granted, Masters

LEMMA WordsKept ==
  ASSUME NEW v \in Words, NEW old \in Words, NEW L \in SUBSET Lanes, NEW m \in Masters
  PROVE  /\ Merge(old, L, v) \in Words
         /\ MutexAddrs # {} => MutexAfter(old, L, v, m) \in Words
BY WordAssumption, ResetAssumption DEF Merge, MutexAfter

LEMMA TypeKept ==
  ASSUME TypeOK, Programs, Programs', Bus, Next
  PROVE  TypeOK'
<1> USE DEF TypeOK
<1>1. ArbTypeOK'
  <2>1. ArbEdge(bnd_req, bnd_tx, bnd_lock, FALSE, s_rdata) BY DEF Next, Fabric
  <2>2. bnd_req \in SUBSET Masters /\ bnd_tx \in [Masters -> Tx] /\ s_rdata \in Words
    BY OnlyHarts DEF TileTypeOK, SlaveTypeOK, Tx
  <2> QED BY <2>1, <2>2, ArbiterTyped
<1>2. s_tx.addr \in Addrs /\ s_tx.wdata \in Words /\ s_tx.we \subseteq Lanes
  BY DEF ArbTypeOK, Tx
<1>3. ResvTypeOK'
  <2>1. ResvEdge(s_en, gnt, bnd_lrsc, s_tx.we, s_tx.addr) BY DEF Next, Fabric
  <2>2. CASE ~ s_en
    BY <2>1, <2>2 DEF ResvEdge, ResvTypeOK, resvVars
  <2>3. CASE s_en
    <3>1. Granted(gnt) = cur BY <2>3, GrantedOne DEF Bus
    <3>2. cur \in Masters BY DEF Bus
    <3> QED BY <1>2, <2>1, <2>3, <3>1, <3>2 DEF ResvEdge, ResvTypeOK, Adjudicate, Kill, resvVars
  <2> QED BY <2>2, <2>3 DEF Bus
<1>4. SlaveTypeOK'
  <2> DEFINE L == GatedLanes(gnt, bnd_lrsc, s_tx.we, s_tx.addr)
  <2>1. SlaveEdge(s_en, L, s_tx.addr, s_tx.wdata, s_master) BY DEF Next, Fabric
  <2>2. L \in SUBSET Lanes BY <1>2 DEF GatedLanes
  <2> HIDE DEF L
  <2>3. s_master \in Masters BY DEF ArbTypeOK
  <2>4. AfterAccess(s_tx.addr, L, s_tx.wdata, s_master) \in Words
    BY <1>2, <2>2, <2>3, WordsKept DEF AfterAccess, SlaveTypeOK
  <2> QED BY <1>2, <2>1, <2>4 DEF SlaveEdge, SlaveTypeOK, slaveVars
<1>5. TileTypeOK'
  <2>1. done \in SUBSET Harts /\ rdata \in Words /\ sc_fail \in SUBSET Harts
    BY OnlyHarts DEF ArbTypeOK, ResvTypeOK
  <2>2. BoundaryOut /\ Handshake /\ BoundaryIn(done, rdata, sc_fail) /\ CoresMove
    BY CoresAre DEF Next, Fabric
  <2> QED BY <2>1, <2>2, TilesTyped
<1> QED BY <1>1, <1>3, <1>4, <1>5

----------------------------------------------------------------------------
(* The wires' invariant *)

WireInv == TypeOK /\ Programs /\ Bus /\ Trips

LEMMA InitWires == Init => WireInv
<1> SUFFICES ASSUME Init PROVE WireInv OBVIOUS
<1> USE NAssumption, ResetAssumption, OnlyHarts
    DEF Init, ArbInit, ResvInit, SlaveInit, TileInit
<1>1. 0 \in Masters BY DEF Masters
<1>2. \A m \in Mixes : m.fetches \subseteq CodeAddrs \cup {Priv} BY TileAssumption
<1>3. \A h \in Harts : /\ Flowing(core[h])
                       /\ core[h].st = "EXECUTE" /\ core[h].op = "alu"
  BY <1>2 DEF Flow, Flowing, CoreStates, Ops
<1>4. Programs BY <1>3 DEF Programs
<1>5. Bus BY <1>1 DEF Bus
<1>6. Trips BY <1>1 DEF Trips, Trip, InFlight, Answered
<1>7. TypeOK
  <2>1. ArbTypeOK BY <1>1 DEF ArbTypeOK, Tx
  <2>2. ResvTypeOK /\ SlaveTypeOK BY DEF ResvTypeOK, SlaveTypeOK
  <2>3. core = [h \in Harts |-> core[h]] OBVIOUS
  <2>4. core \in [Harts -> [st : CoreStates,
                            op : {"alu", "load", "store", "lr", "sc", "amo", "irq"},
                            addr : Addrs \cup {Priv}, lanes : SUBSET Lanes,
                            wdata : Words, fetch : CodeAddrs \cup {Priv}]]
    BY <1>3, <2>3 DEF Flowing, Ops
  <2>5. bnd_tx \in [Harts -> [we : SUBSET Lanes, addr : Addrs, wdata : Words]] OBVIOUS
  <2>6. /\ bnd_lrsc \in [Harts -> {"none", "lr", "sc"}] /\ read_bus \in [Harts -> Words \cup {Priv}]
        /\ sh_acked \in [Harts -> {NoAck} \cup [we : SUBSET Lanes, addr : Addrs]]
        /\ sh_rdata_reg \in [Harts -> Words] /\ holds \in [Harts -> SUBSET MutexAddrs]
        /\ lres \in [Harts -> Addrs \cup {Priv, NoAddr}] /\ mix \in Mixes
    OBVIOUS
  <2>7. /\ bnd_req \subseteq Harts /\ bnd_lock \subseteq Harts /\ bnd_done \subseteq Harts
        /\ bnd_rdata \in Words /\ bnd_scfail \subseteq Harts /\ sh_scfail \subseteq Harts
    OBVIOUS
  <2>8. TileTypeOK BY ONLY <2>4, <2>5, <2>6, <2>7 DEF TileTypeOK
  <2> QED BY <2>1, <2>2, <2>8 DEF TypeOK
<1> QED BY <1>4, <1>5, <1>6, <1>7 DEF WireInv

LEMMA NextWires == WireInv /\ Next => WireInv'
<1> SUFFICES ASSUME WireInv, Next PROVE WireInv' OBVIOUS
<1>1. Programs' BY ProgramsKept, CoresAre DEF WireInv, Next
<1>2. Bus' BY BusDoes DEF WireInv, Next
<1>3. Trips' BY TripKept DEF WireInv, Trips
<1>4. TypeOK' BY <1>1, TypeKept DEF WireInv
<1> QED BY <1>1, <1>2, <1>3, <1>4 DEF WireInv

LEMMA SameWires == WireInv /\ UNCHANGED vars => WireInv'
<1> SUFFICES ASSUME WireInv, UNCHANGED vars PROVE WireInv' OBVIOUS
<1> USE DEF vars, arbVars, resvVars, slaveVars, tileVars
<1>1. TypeOK' BY DEF WireInv, TypeOK, ArbTypeOK, ResvTypeOK, SlaveTypeOK, TileTypeOK
<1>2. Programs' BY DEF WireInv, Programs, Flowing
<1>3. Bus' BY DEF WireInv, Bus
<1>4. Trips'
  <2>1. ASSUME NEW h \in Harts PROVE Trip(h)'
    <3>1. Still(h) BY DEF Still
    <3>2. ack_ok(h)' = ack_ok(h) BY <3>1, StillWires DEF ack_ok
    <3>3. InFlight(h)' = InFlight(h) /\ Answered(h)' = Answered(h) BY DEF InFlight, Answered
    <3>4. Trip(h) BY DEF WireInv, Trips
    <3> QED BY <3>1, <3>2, <3>3, <3>4, StillWires DEF Trip
  <2> QED BY <2>1 DEF Trips
<1> QED BY <1>1, <1>2, <1>3, <1>4 DEF WireInv

LEMMA WiresAlways == Spec => []WireInv
<1>1. WireInv /\ [Next]_vars => WireInv' BY NextWires, SameWires
<1> QED BY <1>1, InitWires, PTL DEF Spec

\* Every register of the window keeps its type, whatever the harts execute.
THEOREM TypesHold == Spec => []TypeOK
<1>1. WireInv => TypeOK BY DEF WireInv
<1> QED BY <1>1, WiresAlways, PTL

\* No ghosts: what the arbiter does for a hart is the access its core is frozen
\* on (mp_arbiter.vhd's release mask and hart_tile.vhd's one-shot handshake).
THEOREM NoGhostHolds == Spec => []NoGhost
<1>1. WireInv => NoGhost BY DEF WireInv, Trips, Trip, NoGhost
<1> QED BY <1>1, WiresAlways, PTL

----------------------------------------------------------------------------
(* What an access returns, and its way back *)

\* The edge that ends a LATCH cycle: cur's access, as cur still presents it.
Accesses ==
    /\ cur \in Harts /\ InFlight(cur) /\ sh_sel(cur) /\ Still(cur)
    /\ ~ Performed(cur)
    /\ s_tx = Offer(cur) /\ bnd_lrsc[cur] = lr_sc_bus(cur)
    /\ ResvEdge(TRUE, {cur}, bnd_lrsc, Offer(cur).we, Offer(cur).addr)
    /\ s_rdata' = mem[Offer(cur).addr]
    /\ mem' = [mem EXCEPT ![Offer(cur).addr] =
                  AfterAccess(Offer(cur).addr,
                              GatedLanes({cur}, bnd_lrsc, Offer(cur).we, Offer(cur).addr),
                              Offer(cur).wdata, cur)]

LEMMA OneAccess ==
  ASSUME WireInv, Next
  PROVE  IF state = "LATCH" THEN Accesses
         ELSE UNCHANGED << mem, s_rdata, resv, sc_fail >>
<1>1. /\ ResvEdge(s_en, gnt, bnd_lrsc, s_tx.we, s_tx.addr)
      /\ SlaveEdge(s_en, GatedLanes(gnt, bnd_lrsc, s_tx.we, s_tx.addr),
                   s_tx.addr, s_tx.wdata, s_master)
  BY DEF Next, Fabric
<1>2. CASE state # "LATCH"
  <2>1. ~ s_en BY <1>2 DEF WireInv, Bus
  <2> QED BY <1>1, <1>2, <2>1 DEF ResvEdge, SlaveEdge, resvVars, slaveVars
<1>3. CASE state = "LATCH"
  <2>1. /\ s_en = TRUE /\ gnt = {cur} /\ s_master = cur /\ cur \in Harts
    BY <1>3, OnlyHarts DEF WireInv, Bus
  <2>2. InFlight(cur) BY <1>3 DEF InFlight
  <2>3. /\ sh_sel(cur) /\ ~ ack_ok(cur) /\ s_tx = Offer(cur)
        /\ bnd_lrsc[cur] = lr_sc_bus(cur) /\ ~ Answered(cur)
    BY <2>1, <2>2 DEF WireInv, Trips, Trip
  <2>4. Still(cur) BY <2>1, <2>3, CoreDoes, CoresAre DEF Moves, mem_ready, Next
  <2>5. ~ Performed(cur) BY <1>3, <2>3 DEF Performed
  <2>6. ResvEdge(TRUE, {cur}, bnd_lrsc, Offer(cur).we, Offer(cur).addr)
    BY <1>1, <2>1, <2>3
  <2>7. SlaveEdge(TRUE, GatedLanes({cur}, bnd_lrsc, Offer(cur).we, Offer(cur).addr),
                  Offer(cur).addr, Offer(cur).wdata, cur)
    BY <1>1, <2>1, <2>3
  <2> QED BY <1>3, <2>1, <2>2, <2>3, <2>4, <2>5, <2>6, <2>7 DEF Accesses, SlaveEdge
<1> QED BY <1>2, <1>3

LEMMA StillPerformed ==
  ASSUME WireInv, Next, NEW h \in Harts, Still(h), sh_sel(h)
  PROVE  Performed(h)' <=> Performed(h) \/ (state = "LATCH" /\ cur = h)
<1>1. ack_ok(h)' <=> ack_ok(h) \/ h \in bnd_done BY StillAck DEF Next, Fabric
<1>2. bnd_done' = done BY DEF Next, Fabric, BoundaryIn
<1>3. /\ h \in done' <=> state = "DATA" /\ cur = h
      /\ (state = "DATA" /\ cur = h)' <=> state = "LATCH" /\ cur = h
  BY BusDoes DEF Picks, Performs, Completes, Rests, WireInv, Next
<1> QED BY <1>1, <1>2, <1>3 DEF Performed, Answered

\* The mapping's words without CASE, before and after an edge.
ReturnedCases ==
    \A h \in Harts : ~ (h \in done /\ h \in bnd_done) =>
       /\ ReturnedWord(h) = IF ack_ok(h) THEN sh_rdata_reg[h]
                            ELSE IF h \in bnd_done THEN bnd_rdata
                            ELSE IF h \in done THEN rdata ELSE s_rdata
       /\ ReturnedVerdict(h) = IF ack_ok(h) THEN h \in sh_scfail
                               ELSE IF h \in bnd_done THEN h \in bnd_scfail
                               ELSE h \in sc_fail

LEMMA ReturnedNow == ReturnedCases
<1> SUFFICES ASSUME NEW h \in Harts, ~ (h \in done /\ h \in bnd_done)
             PROVE  /\ ReturnedWord(h) = IF ack_ok(h) THEN sh_rdata_reg[h]
                                         ELSE IF h \in bnd_done THEN bnd_rdata
                                         ELSE IF h \in done THEN rdata ELSE s_rdata
                    /\ ReturnedVerdict(h) = IF ack_ok(h) THEN h \in sh_scfail
                                            ELSE IF h \in bnd_done THEN h \in bnd_scfail
                                            ELSE h \in sc_fail
  BY DEF ReturnedCases
<1>1. CASE ack_ok(h) BY <1>1 DEF ReturnedWord, ReturnedVerdict
<1>2. CASE ~ ack_ok(h) /\ h \in bnd_done BY <1>2 DEF ReturnedWord, ReturnedVerdict
<1>3. CASE ~ ack_ok(h) /\ h \notin bnd_done /\ h \in done
  BY <1>3 DEF ReturnedWord, ReturnedVerdict
<1>4. CASE ~ ack_ok(h) /\ h \notin bnd_done /\ h \notin done
  BY <1>4 DEF ReturnedWord, ReturnedVerdict
<1> QED BY <1>1, <1>2, <1>3, <1>4

LEMMA ReturnedNext == ReturnedCases'
BY ReturnedNow, PTL

LEMMA StillReturned ==
  ASSUME WireInv, Next, NEW h \in Harts, Still(h), sh_sel(h)
  PROVE  /\ Performed(h) => /\ ReturnedWord(h)' = ReturnedWord(h)
                            /\ ReturnedVerdict(h)' = ReturnedVerdict(h)
         /\ state = "LATCH" /\ cur = h => /\ ReturnedWord(h)' = s_rdata'
                                          /\ ReturnedVerdict(h)' = (h \in sc_fail')
<1>1. ack_ok(h)' <=> ack_ok(h) \/ h \in bnd_done BY StillAck DEF Next, Fabric
<1>2. bnd_done' = done /\ bnd_rdata' = rdata /\ bnd_scfail' = sc_fail
  BY DEF Next, Fabric, BoundaryIn
<1>3. /\ h \in done' <=> state = "DATA" /\ cur = h
      /\ done' # {} => rdata' = s_rdata
  BY BusDoes DEF Picks, Performs, Completes, Rests, WireInv, Next
<1>4. /\ sh_rdata_reg'[h] = IF h \in bnd_done THEN bnd_rdata ELSE sh_rdata_reg[h]
      /\ h \in sh_scfail' <=> h \in (IF h \in bnd_done THEN bnd_scfail ELSE sh_scfail)
  BY DEF Next, Fabric, Handshake
<1>5. state # "LATCH" => s_rdata' = s_rdata /\ sc_fail' = sc_fail BY OneAccess
<1>6. /\ Answered(h) => ~ ack_ok(h)
      /\ state \in {"LATCH", "DATA"} /\ cur = h => ~ ack_ok(h) /\ ~ Answered(h)
      /\ ~ (h \in done /\ h \in bnd_done)
  BY DEF WireInv, Trips, Trip, InFlight
<1>7. done # {} => state \in {"IDLE", "LOCKED"} BY DEF WireInv, Bus
<1>8. CASE ack_ok(h)
  BY <1>1, <1>4, <1>6, <1>8 DEF Answered, ReturnedWord, ReturnedVerdict
<1>9. CASE ~ ack_ok(h) /\ h \in bnd_done
  BY <1>1, <1>4, <1>6, <1>9 DEF Answered, ReturnedWord, ReturnedVerdict
<1>10. CASE ~ ack_ok(h) /\ h \in done
  <2>1. /\ h \in bnd_done' /\ ~ ack_ok(h)' /\ h \notin done'
        /\ h \notin bnd_done /\ state # "LATCH"
    BY <1>1, <1>2, <1>3, <1>6, <1>7, <1>10
  <2>2. ReturnedWord(h)' = bnd_rdata' BY <2>1, ReturnedNext DEF ReturnedCases
  <2>4. ReturnedWord(h) = rdata BY <1>10, <2>1 DEF ReturnedWord
  <2>3. ReturnedVerdict(h)' = ReturnedVerdict(h) BY <1>2, <1>10, <2>1 DEF ReturnedVerdict
  <2> QED BY <1>2, <2>1, <2>2, <2>3, <2>4
<1>11. CASE state = "DATA" /\ cur = h
  BY <1>1, <1>2, <1>3, <1>5, <1>6, <1>11 DEF Answered, ReturnedWord, ReturnedVerdict
<1>12. CASE state = "LATCH" /\ cur = h
  <2>1. h \notin bnd_done' /\ ~ ack_ok(h)' /\ h \notin done' /\ ~ Performed(h)
    BY <1>1, <1>2, <1>3, <1>6, <1>12 DEF Answered, Performed
  <2>2. ReturnedWord(h)' = s_rdata' BY <2>1 DEF ReturnedWord
  <2>3. ReturnedVerdict(h)' = (h \in sc_fail') BY <2>1 DEF ReturnedVerdict
  <2> QED BY <2>1, <2>2, <2>3
<1> QED BY <1>6, <1>8, <1>9, <1>10, <1>11, <1>12 DEF Performed, Answered

\* What a core that moves presents next is answered only if it is what it was
\* answered last, and then with the same word.
LEMMA MovedPerformed ==
  ASSUME WireInv, Next, NEW h \in Harts, Moves(h), Performed(h)', sh_sel(h)'
  PROVE  /\ sh_sel(h) /\ ack_ok(h) /\ ack_ok(h)' /\ Performed(h)
         /\ data_addr(h)' = data_addr(h) /\ we_lanes(h)' = we_lanes(h)
         /\ ReturnedWord(h)' = ReturnedWord(h)
<1>1. ~ (sh_sel(h) /\ ~ ack_ok(h)) BY DEF Moves, mem_ready
<1>2. h \notin bnd_req' BY <1>1 DEF Next, Fabric, BoundaryOut
<1>3. Trip(h)' BY NextWires DEF WireInv, Trips
<1>4. ack_ok(h)' BY <1>2, <1>3 DEF Performed, Trip, InFlight
<1>5. sh_acked'[h] = [we |-> we_lanes(h)', addr |-> data_addr(h)'] BY <1>4 DEF ack_ok
<1>6. Trip(h) BY DEF WireInv, Trips
<1>7. sh_sel(h)
  <2>1. ~ sh_sel(h) => sh_acked'[h] = NoAck BY DEF Next, Fabric, Handshake
  <2>2. we_lanes(h)' \subseteq Lanes /\ data_addr(h)' \in Addrs
    <3>1. Flowing(core[h])' BY NextWires DEF WireInv, Programs
    <3> QED BY <3>1, MapAssumption DEF Flowing, we_lanes, data_addr, sh_sel
  <2> QED BY <1>5, <2>1, <2>2, TileAssumption
<1>8. ack_ok(h) BY <1>1, <1>7
<1>9. h \notin bnd_done BY <1>6, <1>8 DEF Trip, Answered
<1>10. sh_acked'[h] = sh_acked[h] /\ sh_rdata_reg'[h] = sh_rdata_reg[h]
  BY <1>7, <1>9 DEF Next, Fabric, Handshake
<1>11. data_addr(h)' = data_addr(h) /\ we_lanes(h)' = we_lanes(h)
  BY <1>5, <1>8, <1>10 DEF ack_ok
<1> QED BY <1>4, <1>7, <1>8, <1>10, <1>11 DEF Performed, ReturnedWord

----------------------------------------------------------------------------
(* Mutexes *)

\* Hart h has claimed a, whether its program knows it yet or not.
Claims(h, a) ==
    \/ a \in holds[h]
    \/ /\ core[h].op = "load" /\ core[h].addr = a
       /\ \/ core[h].st = "MEMORY_WAIT" /\ read_bus[h] = Word0
          \/ core[h].st = "EXECUTE" /\ Performed(h) /\ ReturnedWord(h) = Word0

\* The program has given a up, and the bank has not been told.
Releases(h, a) ==
    /\ core[h].op = "store" /\ core[h].addr = a /\ core[h].wdata = Word0
    /\ core[h].st = "EXECUTE" /\ ~ Performed(h)

MutexInv ==
    \A h \in Harts : \A a \in MutexAddrs :
       /\ Claims(h, a) \/ Releases(h, a) => mem[a] = OwnerWord(h)
       /\ Releases(h, a) => a \notin holds[h]

LEMMA OwnersDiffer ==
  ASSUME NEW m \in Masters
  PROVE  OwnerWord(m) # Word0 /\ \A k \in Masters \ {m} : OwnerWord(k) # OwnerWord(m)
BY WordAssumption DEF OwnerWord, Masters

\* Only plain loads and stores reach the mutex bank.
LEMMA MutexCalls ==
  ASSUME Programs, NEW h \in Harts
  PROVE  /\ data_addr(h) \in MutexAddrs =>
               /\ core[h].st = "EXECUTE" /\ core[h].addr = data_addr(h)
               /\ core[h].op \in {"load", "store"} /\ lr_sc_bus(h) = "none"
               /\ Offer(h).addr = data_addr(h)
               /\ core[h].op = "load" => we_lanes(h) = {} /\ Offer(h).we = {}
               /\ core[h].op = "store" => Offer(h).we # {} /\ Offer(h).wdata = core[h].wdata
         /\ core[h].st = "EXECUTE" /\ core[h].op \in {"load", "store"} =>
               data_addr(h) = core[h].addr /\ (core[h].addr # Priv => sh_sel(h))
<1>1. Flowing(core[h]) BY DEF Programs
<1>2. core[h].st = "EXECUTE" /\ core[h].op \in {"load", "store"} =>
         data_addr(h) = core[h].addr /\ (core[h].addr # Priv => sh_sel(h))
  BY DEF data_addr, Addressing, sh_sel
<1>3. ASSUME data_addr(h) \in MutexAddrs
      PROVE  /\ core[h].st = "EXECUTE" /\ core[h].addr = data_addr(h)
             /\ core[h].op \in {"load", "store"} /\ lr_sc_bus(h) = "none" /\ sh_sel(h)
  <2>1. Addressing(h) /\ core[h].addr = data_addr(h)
    BY <1>1, <1>3, MapAssumption DEF Flowing, data_addr
  <2>2. core[h].op \in {"load", "store"}
    BY <1>1, <1>3, <2>1, MapAssumption DEF Flowing, Ops
  <2>3. core[h].st = "EXECUTE" BY <1>1, <2>1, <2>2 DEF Flowing, Addressing
  <2>4. lr_sc_bus(h) = "none" BY <2>2, <2>3 DEF lr_sc_bus
  <2>5. sh_sel(h) BY <1>3, MapAssumption DEF sh_sel
  <2> QED BY <2>1, <2>2, <2>3, <2>4, <2>5
<1>4. ASSUME data_addr(h) \in MutexAddrs, core[h].op = "load"
      PROVE  we_lanes(h) = {}
  BY <1>3, <1>4 DEF we_lanes, Writing
<1>5. ASSUME data_addr(h) \in MutexAddrs, core[h].op = "store"
      PROVE  we_lanes(h) # {}
  BY <1>1, <1>3, <1>5 DEF we_lanes, Writing, Addressing, Flowing
<1> QED BY <1>2, <1>3, <1>4, <1>5 DEF Offer

\* What an edge does to a mutex word: the hart on the bus reads it and claims it
\* if it is free, or frees it, or nothing happens.
LEMMA MutexEdge ==
  ASSUME WireInv, Next, NEW a \in MutexAddrs
  PROVE  \/ mem'[a] = mem[a]
         \/ /\ state = "LATCH" /\ cur \in Harts /\ data_addr(cur) = a /\ Still(cur)
            /\ ~ Performed(cur) /\ core[cur].addr = a /\ core[cur].st = "EXECUTE"
            /\ \/ core[cur].op = "load" /\ mem[a] = Word0 /\ mem'[a] = OwnerWord(cur)
               \/ core[cur].op = "store" /\ core[cur].wdata = Word0
<1>1. mem \in [Addrs -> Words] BY DEF WireInv, TypeOK, SlaveTypeOK
<1>2. a \in Addrs BY MapAssumption
<1>3. CASE state # "LATCH" BY <1>3, OneAccess
<1>4. CASE state = "LATCH"
  <2>1. Accesses BY <1>4, OneAccess
  <2>2. CASE Offer(cur).addr # a BY <1>1, <1>2, <2>1, <2>2 DEF Accesses
  <2>3. CASE Offer(cur).addr = a
    <3>1. data_addr(cur) = a BY <2>1, <2>3 DEF Accesses, Offer
    <3>2. /\ core[cur].st = "EXECUTE" /\ core[cur].addr = a
          /\ core[cur].op \in {"load", "store"} /\ lr_sc_bus(cur) = "none"
          /\ core[cur].op = "load" => Offer(cur).we = {}
          /\ core[cur].op = "store" => Offer(cur).we # {} /\ Offer(cur).wdata = core[cur].wdata
      BY <2>1, <3>1, MutexCalls DEF WireInv, Accesses
    <3>3. Granted({cur}) = cur BY <2>1, GrantedOne, OnlyHarts DEF Accesses
    <3>4. GatedLanes({cur}, bnd_lrsc, Offer(cur).we, Offer(cur).addr) = Offer(cur).we
      BY <2>1, <3>2, <3>3 DEF Accesses, GatedLanes
    <3>5. mem'[a] = MutexAfter(mem[a], Offer(cur).we, Offer(cur).wdata, cur)
      BY <1>1, <1>2, <2>1, <2>3, <3>4 DEF Accesses, AfterAccess
    <3> QED BY <1>4, <2>1, <3>1, <3>2, <3>5 DEF Accesses, MutexAfter
  <2> QED BY <2>2, <2>3
<1> QED BY <1>3, <1>4

\* Nobody but its owner changes an owned mutex, and the owner only by releasing it.
LEMMA OwnedKept ==
  ASSUME WireInv, MutexInv, Next, NEW h \in Harts, NEW a \in MutexAddrs,
         mem[a] = OwnerWord(h)
  PROVE  mem'[a] = OwnerWord(h) \/ (state = "LATCH" /\ cur = h /\ Releases(h, a) /\ Still(h))
<1>1. mem[a] # Word0 BY OwnersDiffer, OnlyHarts
<1>2. CASE mem'[a] = mem[a] BY <1>2
<1>3. CASE mem'[a] # mem[a]
  <2>1. state = "LATCH" /\ cur \in Harts /\ Releases(cur, a) /\ Still(cur)
    BY <1>1, <1>3, MutexEdge DEF Releases
  <2>2. mem[a] = OwnerWord(cur) BY <2>1 DEF MutexInv
  <2>3. cur = h BY <2>1, <2>2, OwnersDiffer, OnlyHarts
  <2> QED BY <2>1, <2>3
<1> QED BY <1>2, <1>3

LEMMA NextMutexes == WireInv /\ MutexInv /\ Next => MutexInv'
<1> SUFFICES ASSUME WireInv, MutexInv, Next, NEW h \in Harts, NEW a \in MutexAddrs
             PROVE  /\ Claims(h, a)' \/ Releases(h, a)' => mem'[a] = OwnerWord(h)
                    /\ Releases(h, a)' => a \notin holds'[h]
  BY DEF MutexInv, OwnerWord
<1>1. Still(h) \/ Moves(h) BY CoreDoes, CoresAre DEF Next
<1>2. a # Priv /\ a \in Addrs BY MapAssumption
<1>3. Programs /\ Programs' BY NextWires DEF WireInv
<1>4. Flowing(core[h]) BY <1>3 DEF Programs
<1>5. Claims(h, a) \/ Releases(h, a) => mem[a] = OwnerWord(h) BY DEF MutexInv
<1>6. Releases(h, a) => a \notin holds[h] BY DEF MutexInv
<1>7. CASE Still(h)
  <2>1. core[h].st = "EXECUTE" /\ core[h].op \in {"load", "store"} /\ core[h].addr = a =>
           /\ Performed(h)' <=> Performed(h) \/ (state = "LATCH" /\ cur = h)
           /\ Performed(h) => ReturnedWord(h)' = ReturnedWord(h)
           /\ state = "LATCH" /\ cur = h => ReturnedWord(h)' = s_rdata' /\ data_addr(h) = a
    BY <1>2, <1>3, <1>7, StillPerformed, StillReturned, MutexCalls
  <2>2. Releases(h, a)' => Releases(h, a) /\ ~ (state = "LATCH" /\ cur = h)
    BY <1>7, <2>1 DEF Still, Releases
  <2>3. CASE Claims(h, a)
    <3>1. ~ Releases(h, a) BY <1>6, <2>3 DEF Claims, Releases
    <3>2. mem'[a] = OwnerWord(h) BY <1>5, <2>3, <3>1, OwnedKept
    <3> QED BY <2>2, <3>1, <3>2
  <2>4. CASE ~ Claims(h, a) /\ Claims(h, a)'
    <3>1. /\ core[h].op = "load" /\ core[h].addr = a /\ core[h].st = "EXECUTE"
          /\ state = "LATCH" /\ cur = h /\ ReturnedWord(h)' = Word0
      BY <1>7, <2>1, <2>4 DEF Still, Claims
    <3>2. s_rdata' = Word0 /\ Offer(h).addr = a
      BY <1>2, <1>3, <2>1, <3>1, MutexCalls
    <3>3. mem[a] = Word0 BY <3>1, <3>2, OneAccess DEF Accesses
    <3>4. mem'[a] # mem[a] => mem'[a] = OwnerWord(h) BY <3>1, MutexEdge
    <3>5. Accesses /\ Granted({h}) = h BY <3>1, OneAccess, GrantedOne, OnlyHarts
    <3>6. lr_sc_bus(h) = "none" /\ Offer(h).we = {} BY <1>2, <1>3, <2>1, <3>1, MutexCalls
    <3>7. GatedLanes({cur}, bnd_lrsc, Offer(cur).we, Offer(cur).addr) = {}
      BY <3>1, <3>5, <3>6 DEF GatedLanes
    <3>8. mem'[a] = OwnerWord(h)
      BY <1>2, <3>1, <3>2, <3>3, <3>5, <3>7
      DEF Accesses, AfterAccess, MutexAfter, WireInv, TypeOK, SlaveTypeOK
    <3> QED BY <2>2, <3>1, <3>8 DEF Releases
  <2>5. CASE ~ Claims(h, a) /\ ~ Claims(h, a)'
    <3>1. ASSUME Releases(h, a)' PROVE mem'[a] = OwnerWord(h) /\ a \notin holds'[h]
      BY <1>5, <1>6, <1>7, <2>2, <3>1, OwnedKept DEF Still
    <3> QED BY <2>5, <3>1
  <2> QED BY <2>3, <2>4, <2>5
<1>8. CASE Moves(h)
  <2>1. ~ InFlight(h) BY <1>8 DEF Moves, mem_ready, WireInv, Trips, Trip
  <2>2. mem[a] = OwnerWord(h) => mem'[a] = OwnerWord(h) BY <2>1, OwnedKept DEF InFlight
  <2>3. CASE Begins(h)
    <3>1. core'[h].st # "MEMORY_WAIT" BY <2>3, <1>3, InstructionFlows DEF Begins, Programs
    <3>2. a \in holds'[h] => Claims(h, a) BY <1>8 DEF Moves, Claims
    <3>3. ~ (core'[h].op = "load" /\ core'[h].addr = a /\ core'[h].st = "EXECUTE" /\ Performed(h)')
      <4> SUFFICES ASSUME core'[h].op = "load", core'[h].addr = a, core'[h].st = "EXECUTE",
                          Performed(h)'
                   PROVE  FALSE
        OBVIOUS
      <4>1. data_addr(h)' = a /\ sh_sel(h)' BY <1>2 DEF data_addr, Addressing, sh_sel
      <4>2. data_addr(h) = a BY <1>8, <4>1, MovedPerformed
      <4>3. core[h].st = "EXECUTE" /\ core[h].op \in {"load", "store"}
        BY <1>3, <4>2, MutexCalls
      <4>4. Retiring(h) BY <2>3 DEF Begins, CanStart
      <4> QED BY <4>3, <4>4 DEF Retiring
    <3>4. Claims(h, a)' => a \in holds'[h] BY <3>1, <3>3 DEF Claims
    <3>5. Releases(h, a)' => a \in holds[h] /\ a \notin holds'[h]
      BY <2>3 DEF Releases, Begins, CanStart, Disciplined
    <3> QED BY <1>5, <2>2, <3>2, <3>4, <3>5 DEF Claims
  <2>4. CASE Continues(h)
    <3>1. /\ ~ Retiring(h) /\ core'[h].st = FlowNext(h) /\ core'[h].op = core[h].op
          /\ core'[h].addr = core[h].addr
      BY <1>4, <2>4 DEF Continues, Flowing
    <3>2. core'[h].st # "EXECUTE" BY <1>4, <3>1, FlowNextIs
    <3>3. core'[h].st = "MEMORY_WAIT" => core[h].st = "EXECUTE" /\ core[h].op \in {"load", "store"}
      BY <1>4, <3>1, FlowNextIs
    <3>4. Claims(h, a)' => Claims(h, a)
      <4>1. a \in holds'[h] => Claims(h, a) BY <1>8 DEF Moves, Claims
      <4>2. ASSUME core'[h].op = "load", core'[h].addr = a, core'[h].st = "MEMORY_WAIT",
                   read_bus'[h] = Word0
            PROVE  Claims(h, a)
        <5>1. core[h].st = "EXECUTE" /\ core[h].op = "load" /\ core[h].addr = a
          BY <3>1, <3>3, <4>2
        <5>2. sh_sel(h) BY <1>2, <1>3, <5>1, MutexCalls
        <5>3. ack_ok(h) /\ sh_rdata_reg[h] = Word0
          BY <1>8, <4>2, <5>2 DEF Moves, mem_ready
        <5>4. ReturnedWord(h) = Word0 BY <5>3 DEF ReturnedWord
        <5> QED BY <5>1, <5>3, <5>4 DEF Claims, Performed
      <4> QED BY <3>2, <4>1, <4>2 DEF Claims
    <3>5. ~ Releases(h, a)' BY <3>2 DEF Releases
    <3> QED BY <1>5, <2>2, <3>4, <3>5
  <2> QED BY <1>8, <2>3, <2>4 DEF Moves
<1> QED BY <1>1, <1>7, <1>8

LEMMA SameMutexes == MutexInv /\ UNCHANGED vars => MutexInv'
<1> SUFFICES ASSUME MutexInv, UNCHANGED vars PROVE MutexInv' OBVIOUS
<1> USE DEF vars, arbVars, resvVars, slaveVars, tileVars
<1>1. ASSUME NEW h \in Harts
      PROVE  Performed(h)' = Performed(h) /\ ReturnedWord(h)' = ReturnedWord(h)
  <2>1. Still(h) BY DEF Still
  <2>2. ack_ok(h)' = ack_ok(h) BY <2>1, StillWires DEF ack_ok
  <2>3. Performed(h)' = Performed(h) BY <2>2 DEF Performed, Answered
  <2>4. ReturnedWord(h)' = ReturnedWord(h) BY <2>2 DEF ReturnedWord
  <2> QED BY <2>3, <2>4
<1> QED BY <1>1 DEF MutexInv, Claims, Releases, OwnerWord

LEMMA InitMutexes == Init => MutexInv
<1> SUFFICES ASSUME Init, NEW h \in Harts, NEW a \in MutexAddrs
             PROVE  ~ Claims(h, a) /\ ~ Releases(h, a)
  BY DEF MutexInv
<1>1. core[h].st = "EXECUTE" /\ core[h].op = "alu" /\ holds[h] = {}
  BY DEF Init, TileInit, Flow
<1> QED BY <1>1 DEF Claims, Releases

\* A mutex has at most one holder and the bank names it: the claiming read of
\* mutex_bank.vhd is one transaction, and only its holder's store releases it.
THEOREM MutexExclusiveHolds == Spec => []MutexExclusive
<1>1. WireInv /\ MutexInv /\ [Next]_vars => MutexInv'
  BY NextMutexes, SameMutexes
<1>2. WireInv /\ MutexInv => MutexExclusive
  <2> SUFFICES ASSUME WireInv, MutexInv, NEW h \in Harts, NEW a \in holds[h]
               PROVE  mem[a] = OwnerWord(h) /\ \A g \in Harts \ {h} : a \notin holds[g]
    BY DEF MutexExclusive
  <2>1. a \in MutexAddrs BY DEF WireInv, TypeOK, TileTypeOK
  <2> QED BY <2>1, OwnersDiffer, OnlyHarts DEF MutexInv, Claims
<1> QED BY <1>1, <1>2, InitMutexes, WiresAlways, PTL DEF Spec
=============================================================================
