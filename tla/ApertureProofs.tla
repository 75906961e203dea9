--------------------------- MODULE ApertureProofs ---------------------------
(***************************************************************************)
(* Theorems about the TCM aperture, for every set of tiles, every length   *)
(* of the power controller's waits, every TCM and every board.             *)
(*                                                                         *)
(* RailSafe: each sequencer state fixes its three outputs, and in RAIL the *)
(* counter still to run down plus the rail's age never fall below T_RAIL.  *)
(* CoreUndisturbed: the mux is never on the external side without the      *)
(* shadow shown, so the array's output changes only behind the shadow or   *)
(* at an edge of the core, which the stall keeps apart from the mux.       *)
(* ReadsTruthful: a request to a target that is not dark is at one of six  *)
(* steps, each of which fixes the port's registers; a dark target answers  *)
(* nothing, and one that becomes dark no more has been reset.              *)
(* StallBounded: the step a request is at is the length of the stall.      *)
(* ColdBoot: the gate closes within two edges of PGOOD's last, and what it *)
(* cuts off is over before a drop of four edges is; until then whatever    *)
(* comes back to hart 0 is for the word its frozen core presents.          *)
(***************************************************************************)
EXTENDS Aperture, TileProofs

\* What a sequencer state says of its outputs and of the rail.
Consistent(d, age) ==
    /\ d.iso <=> d.st \in {"ISO", "RSTOFF", "OFF", "RAIL"}
    /\ d.slp <=> d.st = "OFF"
    /\ d.rstn <=> d.st \in {"ON", "ISO"}
    /\ d.st \in {"ON", "ISO", "RSTOFF", "UNISO"} => age = T_RAIL
    /\ d.st = "RAIL" => age + d.cnt >= T_RAIL

Domains == [st : {"ON", "ISO", "RSTOFF", "OFF", "RAIL", "UNISO"},
            cnt : 0 .. T_SEQ + T_RAIL, iso : BOOLEAN, slp : BOOLEAN, rstn : BOOLEAN]

SequencerInv ==
    /\ domain \in [Tiles -> Domains]
    /\ rail_age \in [Tiles -> 0 .. T_RAIL]
    /\ \A t \in Tiles : Consistent(domain[t], rail_age[t])

PortInv ==
    /\ tx_sel \in BOOLEAN
    /\ tcm_q_hold \in BOOLEAN
    /\ tx_state \in {"SETTLE", "READ", "LATCH"} => tx_sel
    /\ tx_sel => tcm_q_hold
    /\ CoreUndisturbed

\* The age of a rail, one edge on.
Aged(d, next, age) ==
    IF next.slp THEN 0 ELSE IF d.slp \/ age = T_RAIL THEN age ELSE age + 1

----------------------------------------------------------------------------
(* The invariants *)

\* The bus and the sequencer: who is served, what is in flight, what the port
\* still remembers of the read before.
BusInv ==
    /\ s_en => state = "LATCH" /\ stalled = 0
    /\ state \in {"LATCH", "DATA"} => s_master = cur
    /\ done # {} => state \in {"IDLE", "LOCKED"} /\ done = {s_master}
    /\ tcmw_busy => /\ state = "LATCH" /\ ~ s_en /\ s_master = 0
                    /\ s_tx.addr \in Wins /\ s_tx.we = {} /\ tcm_ext_addr = s_tx.addr
    /\ ~ tcmw_busy /\ tx_req_r => state = "LATCH" /\ ~ s_en
    /\ ~ tcmw_busy /\ ~ tx_req_r /\ tx_served => state = "DATA"

\* The six steps of a request to the tile.
Step(k) ==
    /\ tx_req_r <=> k > 1
    /\ tx_state = IF k = 3 THEN "SETTLE" ELSE IF k = 4 THEN "READ"
                  ELSE IF k = 5 THEN "LATCH" ELSE "IDLE"
    /\ (tx_served <=> k = 6) /\ (tx_done_r <=> k = 6)
    /\ k > 1 => tx_addr_r = tcm_ext_addr
    /\ k = 5 => tcm_q = Tcm[tcm_ext_addr]
    /\ k = 6 => tx_rdata_r = Tcm[tcm_ext_addr]

\* A target that is not dark is at one of them, or idle.
RequestInv ==
    /\ ~ tile_rstn => ~ tx_done_r
    /\ ~ tcmw_dark => IF tcmw_busy THEN \E k \in 1 .. 6 : Step(k)
                      ELSE tx_state = "IDLE" /\ ~ tx_done_r /\ (tx_req_r => tx_served)

\* An honest answer to the read on the bus.
Honest(w) ==
    IF s_master = 0 THEN w = Tcm[s_tx.addr] \/ (was_dark /\ w = Word0) ELSE w = Word0

Reads == s_tx.addr \in Wins /\ s_tx.we = {}

\* Where the word is until the read is done, and where the ROM's is.
AnswerInv ==
    /\ state \in {"LATCH", "DATA"} /\ ~ s_en =>
          /\ rd_win = (s_tx.addr \in Wins)
          /\ Reads /\ ~ tcmw_busy => Honest(tcmw_rdata)
          /\ s_tx.addr = Rom => rd_word = RomWord
    /\ done # {} => /\ Reads => Honest(rdata)
                    /\ s_tx.addr = Rom => rdata = RomWord

\* How long the arbiter has been stalled.
StallInv ==
    /\ stalled \in 0 .. 7
    /\ tcmw_busy => IF tcmw_dark THEN stalled <= 6
                    ELSE \E k \in 1 .. 6 : stalled = k /\ Step(k)

\* The gate closes at the next edge.
Closing ==
    /\ "arm" \in Effective /\ ~ Released(pgood_s2, FALSE)
    /\ "rehold" \in Effective \/ ~ rls_latch

Serving == state \in {"LATCH", "DATA"} /\ cur = 0

\* The gate's setting is the board's; hart 0 is not held while it is the target.
PolicyInv ==
    /\ wake_cr = board.wake /\ (strap.sampled => board.strap)
    /\ target = 0 => ~ boot_hold_r

\* The gate closes soon after PGOOD was last seen, or before anything was asked
\* of the bus.
GateInv ==
    /\ pgood_s2 => low = 0
    /\ ~ boot_hold_r /\ Closing =>
          \/ Watched /\ low <= 1
          \/ state = "IDLE" /\ bnd_req = {} /\ done = {}

\* While the gate is closed what it cut off comes to its end, and the gate stays
\* closed until it has.
DrainInv ==
    boot_hold_r =>
       /\ bnd_req = {} /\ bnd_done = {} /\ sh_acked[0] = NoAck
       /\ Serving => /\ Closing
                     /\ state = "LATCH" => /\ Watched
                                           /\ low + (IF tcmw_busy THEN 2 ELSE 1) <= MIN_LOW

\* What is on hart 0's wires while the gate is open.
TripInv ==
    ~ boot_hold_r =>
       /\ 0 \in bnd_req => /\ sh_sel(0) /\ bnd_tx[0] = Offer(0)
                           /\ ack_ok(0) => 0 \in need_release
       /\ Serving => /\ 0 \in bnd_req /\ ~ ack_ok(0) /\ s_tx = Offer(0)
                     /\ 0 \notin done \cup bnd_done
       /\ 0 \in done \cup bnd_done => 0 \in bnd_req \cap need_release /\ ~ ack_ok(0)
       /\ 0 \in done => s_tx = Offer(0) /\ 0 \notin bnd_done
       /\ 0 \in bnd_done /\ data_addr(0) = Rom => bnd_rdata = RomWord

\* A board on which hart 0 reads its own TCM has no boot gate.
SelfUngated == \A b \in Boards : b.target = 0 => ~ b.strap /\ "arm" \notin b.wake

\* A harvested board's PWRWAKE keeps its reset value.
StrapAlone == \A b \in Boards : b.strap => b.wake = {}

----------------------------------------------------------------------------

\* One edge of one sequencer keeps its type and its consistency.
LEMMA SequencedConsistent ==
    ASSUME NEW d \in Domains, NEW gate \in BOOLEAN, NEW age \in 0 .. T_RAIL,
           Consistent(d, age)
    PROVE  /\ Sequenced(d, gate) \in Domains
           /\ Aged(d, Sequenced(d, gate), age) \in 0 .. T_RAIL
           /\ Consistent(Sequenced(d, gate), Aged(d, Sequenced(d, gate), age))
<1> DEFINE n == Sequenced(d, gate)
<1>0. /\ T_SEQ \in Nat /\ T_RAIL \in Nat
      /\ T_SEQ \in 0 .. T_SEQ + T_RAIL /\ T_RAIL \in 0 .. T_SEQ + T_RAIL
    BY PwrAssumption
<1>1. CASE Counting(d)
    <2>1. n = [d EXCEPT !.cnt = @ - 1]
        BY <1>1 DEF Sequenced
    <2>2. d.cnt \in 1 .. T_SEQ + T_RAIL /\ d.st \notin {"ON", "OFF"}
        BY <1>0, <1>1 DEF Counting, Domains
    <2>3. n.cnt = d.cnt - 1 /\ n.st = d.st /\ n.iso = d.iso /\ n.slp = d.slp /\ n.rstn = d.rstn
        BY <2>1 DEF Domains
    <2>4. n \in Domains
        BY <2>1, <2>2, <1>0 DEF Domains
    <2>5. Aged(d, n, age) = IF age = T_RAIL THEN age ELSE age + 1
        BY <2>2, <2>3 DEF Aged, Consistent
    <2> HIDE DEF n
    <2>6. Aged(d, n, age) \in 0 .. T_RAIL
        BY <2>5, <1>0
    <2>7. Consistent(n, Aged(d, n, age))
        BY <2>2, <2>3, <2>5, <1>0 DEF Consistent
    <2> QED BY <2>4, <2>6, <2>7 DEF n
<1>2. CASE ~ Counting(d) /\ ((d.st = "ON" /\ ~ gate) \/ (d.st = "OFF" /\ gate))
    <2>1. n = d
        BY <1>2 DEF Sequenced
    <2>2. Aged(d, n, age) = IF d.st = "OFF" THEN 0 ELSE age
        BY <1>2, <2>1, <1>0 DEF Aged, Consistent
    <2>3. Aged(d, n, age) \in 0 .. T_RAIL
        BY <2>2, <1>0
    <2>4. Consistent(d, Aged(d, n, age))
        BY <2>2, <1>2 DEF Consistent
    <2> QED BY <2>1, <2>3, <2>4
<1>3. CASE ~ Counting(d) /\ d.st = "ON" /\ gate
    <2>1. n = [d EXCEPT !.st = "ISO", !.iso = TRUE, !.cnt = T_SEQ]
        BY <1>3 DEF Sequenced
    <2>2. n.st = "ISO" /\ n.cnt = T_SEQ /\ n.iso /\ n.slp = d.slp /\ n.rstn = d.rstn
        BY <2>1, <1>3 DEF Domains
    <2>3. n \in Domains
        BY <2>1, <1>0 DEF Domains
    <2>4. Aged(d, n, age) = age
        BY <2>2, <1>3 DEF Aged, Consistent
    <2> HIDE DEF n
    <2>5. Consistent(n, Aged(d, n, age))
        BY <2>2, <2>4, <1>3, <1>0 DEF Consistent
    <2>6. Aged(d, n, age) \in 0 .. T_RAIL
        BY <2>4, <1>0
    <2> QED BY <2>3, <2>5, <2>6 DEF n
<1>4. CASE ~ Counting(d) /\ d.st = "ISO"
    <2>1. n = [d EXCEPT !.st = "RSTOFF", !.rstn = FALSE, !.cnt = T_SEQ]
        BY <1>4 DEF Sequenced
    <2>2. n.st = "RSTOFF" /\ n.cnt = T_SEQ /\ n.iso = d.iso /\ n.slp = d.slp /\ ~ n.rstn
        BY <2>1, <1>4 DEF Domains
    <2>3. n \in Domains
        BY <2>1, <1>0 DEF Domains
    <2>4. Aged(d, n, age) = age
        BY <2>2, <1>4 DEF Aged, Consistent
    <2> HIDE DEF n
    <2>5. Consistent(n, Aged(d, n, age))
        BY <2>2, <2>4, <1>4, <1>0 DEF Consistent
    <2>6. Aged(d, n, age) \in 0 .. T_RAIL
        BY <2>4, <1>0
    <2> QED BY <2>3, <2>5, <2>6 DEF n
<1>5. CASE ~ Counting(d) /\ d.st = "RSTOFF"
    <2>1. n = [d EXCEPT !.st = "OFF", !.slp = TRUE]
        BY <1>5 DEF Sequenced
    <2>2. n.st = "OFF" /\ n.cnt = d.cnt /\ n.iso = d.iso /\ n.slp /\ n.rstn = d.rstn
        BY <2>1, <1>5 DEF Domains
    <2>3. n \in Domains
        BY <2>1, <1>0 DEF Domains
    <2>4. Aged(d, n, age) = 0
        BY <2>2, <1>5 DEF Aged, Consistent
    <2> HIDE DEF n
    <2>5. Consistent(n, Aged(d, n, age))
        BY <2>2, <2>4, <1>5, <1>0 DEF Consistent
    <2>6. Aged(d, n, age) \in 0 .. T_RAIL
        BY <2>4, <1>0
    <2> QED BY <2>3, <2>5, <2>6 DEF n
<1>6. CASE ~ Counting(d) /\ d.st = "OFF" /\ ~ gate
    <2>1. n = [d EXCEPT !.st = "RAIL", !.slp = FALSE, !.cnt = T_RAIL]
        BY <1>6 DEF Sequenced
    <2>2. n.st = "RAIL" /\ n.cnt = T_RAIL /\ n.iso = d.iso /\ ~ n.slp /\ n.rstn = d.rstn
        BY <2>1, <1>6 DEF Domains
    <2>3. n \in Domains
        BY <2>1, <1>0 DEF Domains
    <2>4. Aged(d, n, age) = age
        BY <2>2, <1>6 DEF Aged, Consistent
    <2> HIDE DEF n
    <2>5. Consistent(n, Aged(d, n, age))
        BY <2>2, <2>4, <1>6, <1>0 DEF Consistent
    <2>6. Aged(d, n, age) \in 0 .. T_RAIL
        BY <2>4, <1>0
    <2> QED BY <2>3, <2>5, <2>6 DEF n
<1>7. CASE ~ Counting(d) /\ d.st = "RAIL"
    <2>1. n = [d EXCEPT !.st = "UNISO", !.iso = FALSE, !.cnt = T_SEQ]
        BY <1>7 DEF Sequenced
    <2>2. n.st = "UNISO" /\ n.cnt = T_SEQ /\ ~ n.iso /\ n.slp = d.slp /\ n.rstn = d.rstn
        BY <2>1, <1>7 DEF Domains
    <2>3. n \in Domains
        BY <2>1, <1>0 DEF Domains
    <2>0. d.cnt = 0
        BY <1>7, <1>0 DEF Counting, Domains
    <2>4. Aged(d, n, age) = T_RAIL
        BY <2>0, <2>2, <1>7, <1>0 DEF Aged, Consistent
    <2> HIDE DEF n
    <2>5. Consistent(n, Aged(d, n, age))
        BY <2>2, <2>4, <1>7, <1>0 DEF Consistent
    <2>6. Aged(d, n, age) \in 0 .. T_RAIL
        BY <2>4, <1>0
    <2> QED BY <2>3, <2>5, <2>6 DEF n
<1>8. CASE ~ Counting(d) /\ d.st = "UNISO"
    <2>1. n = [d EXCEPT !.st = "ON", !.rstn = TRUE]
        BY <1>8 DEF Sequenced
    <2>2. n.st = "ON" /\ n.cnt = d.cnt /\ n.iso = d.iso /\ n.slp = d.slp /\ n.rstn
        BY <2>1, <1>8 DEF Domains
    <2>3. n \in Domains
        BY <2>1, <1>0 DEF Domains
    <2>4. Aged(d, n, age) = age
        BY <2>2, <1>8 DEF Aged, Consistent
    <2> HIDE DEF n
    <2>5. Consistent(n, Aged(d, n, age))
        BY <2>2, <2>4, <1>8, <1>0 DEF Consistent
    <2>6. Aged(d, n, age) \in 0 .. T_RAIL
        BY <2>4, <1>0
    <2> QED BY <2>3, <2>5, <2>6 DEF n
<1>9. d.st \in {"ON", "ISO", "RSTOFF", "OFF", "RAIL", "UNISO"}
    BY DEF Domains
<1> QED BY <1>1, <1>2, <1>3, <1>4, <1>5, <1>6, <1>7, <1>8, <1>9

LEMMA SequencerPreserved ==
    ASSUME SequencerInv, SequencerEdge PROVE SequencerInv'
<1>1. ASSUME NEW t \in Tiles
      PROVE  /\ domain'[t] = Sequenced(domain[t], t \in gate_req)
             /\ rail_age'[t] = Aged(domain[t], domain'[t], rail_age[t])
             /\ domain'[t] \in Domains
             /\ rail_age'[t] \in 0 .. T_RAIL
             /\ Consistent(domain'[t], rail_age'[t])
    <2>1. domain'[t] = Sequenced(domain[t], t \in gate_req)
          /\ rail_age'[t] = Aged(domain[t], domain'[t], rail_age[t])
        BY DEF SequencerEdge, Aged
    <2>2. domain[t] \in Domains /\ rail_age[t] \in 0 .. T_RAIL
          /\ Consistent(domain[t], rail_age[t])
        BY DEF SequencerInv
    <2>3. (t \in gate_req) \in BOOLEAN
        OBVIOUS
    <2> QED BY <2>1, <2>2, <2>3, SequencedConsistent
<1>2. domain' \in [Tiles -> Domains]
    BY <1>1 DEF SequencerEdge
<1>3. rail_age' \in [Tiles -> 0 .. T_RAIL]
    BY <1>1 DEF SequencerEdge
<1> QED BY <1>1, <1>2, <1>3 DEF SequencerInv

\* An edge of the port keeps the core's word, given that the stall is obeyed.
LEMMA PortPreserved ==
    ASSUME PortInv, NEW req, NEW addr, NEW core_edge \in BOOLEAN, NEW use,
           core_edge => ~ tx_busy,
           PortEdge(req, addr, core_edge, use)
    PROVE  PortInv'
<1> USE DEF PortInv, PortEdge, SequencerStep, ArrayEdge, ShadowEdge, tx_busy
<1>1. /\ tx_sel' \in BOOLEAN
      /\ tx_state' \in {"SETTLE", "READ", "LATCH"} => tx_sel'
    OBVIOUS
<1>2. tcm_q_hold' \in BOOLEAN /\ (tx_sel' => tcm_q_hold')
    OBVIOUS
<1>3. CoreUndisturbed'
    <2>1. CASE core_edge
        BY <2>1 DEF CoreUndisturbed, mem_dout
    <2>2. CASE ~ core_edge
        BY <2>2 DEF CoreUndisturbed, mem_dout
    <2> QED BY <2>1, <2>2
<1> QED BY <1>1, <1>2, <1>3

LEMMA PortResetInv == PortReset => PortInv'
BY DEF PortReset, PortInv, CoreUndisturbed

----------------------------------------------------------------------------
(* What an edge is made of *)

\* Hart 0 is reset, or runs.
Held == (boot_hold_r \/ boot_hold_r') /\ HartReset

Live ==
    /\ ~ boot_hold_r /\ ~ boot_hold_r'
    /\ BoundaryOut /\ BoundaryIn(done \cap Harts, rdata, {}) /\ Handshake /\ CoresMove

LEMMA HartDoes == Next => Held \/ Live
<1> SUFFICES ASSUME Next PROVE Held \/ Live OBVIOUS
<1>1. PICK moving \in {{}} \cup (IF Runs0 THEN {{0}} ELSE {}) : Hart0(moving)
    BY DEF Next
<1>2. CASE boot_hold_r \/ boot_hold_r'
    BY <1>1, <1>2 DEF Hart0, hart0_rstn, Held
<1>3. CASE ~ boot_hold_r /\ ~ boot_hold_r'
    <2>1. PICK begin \in SUBSET moving : \E new \in [begin -> Instructions] :
              CoreEdge(moving, begin, new)
        BY <1>1, <1>3 DEF Hart0, hart0_rstn
    <2>2. moving \in SUBSET Harts
        BY <1>1, ApertureAssumption
    <2>3. CoresMove
        BY <2>1, <2>2 DEF CoresMove
    <2> QED BY <1>1, <1>3, <2>3 DEF Hart0, hart0_rstn, Live
<1> QED BY <1>2, <1>3

\* The port is reset, or runs.
PortRuns ==
    /\ tile_rstn /\ tile_rstn'
    /\ \E core_edge \in BOOLEAN : \E use \in TcmAddrs \cup {NoRead} :
          PortEdge(tcmw_busy, tcm_ext_addr, core_edge, use) /\ (core_edge => ~ tx_busy)

LEMMA PortDoes ==
    ASSUME Next
    PROVE  (PortReset /\ ~ (tile_rstn /\ tile_rstn')) \/ PortRuns
<1>1. PICK moving \in {{}} \cup (IF Runs0 THEN {{0}} ELSE {}) : Port(moving)
    BY DEF Next
<1>2. TargetRstn(boot_hold_r', domain') = tile_rstn'
    BY DEF Next, tile_rstn, TargetRstn, target
<1>3. CASE tile_rstn /\ tile_rstn'
    <2>1. PICK core_edge \in IF target = 0 THEN {moving # {}} ELSE {FALSE, ~ tx_busy},
               use \in TcmAddrs \cup {NoRead} :
               PortEdge(tcmw_busy, tcm_ext_addr, core_edge, use)
        BY <1>1, <1>2, <1>3 DEF Port
    <2>2. core_edge \in BOOLEAN /\ (core_edge => ~ tx_busy)
        BY <1>1, <2>1 DEF Runs0
    <2> QED BY <1>3, <2>1, <2>2 DEF PortRuns
<1>4. CASE ~ (tile_rstn /\ tile_rstn')
    BY <1>1, <1>2, <1>4 DEF Port
<1> QED BY <1>3, <1>4

----------------------------------------------------------------------------
(* Types *)

LEMMA PortTyped ==
    ASSUME PortTypeOK, tcmw_busy \in BOOLEAN, tcm_ext_addr \in TcmAddrs, PortReset \/ PortRuns
    PROVE  PortTypeOK'
<1> USE TcmAssumption, ResetAssumption DEF PortTypeOK
<1>1. ResetAddr \in TcmAddrs
    BY DEF ResetAddr
<1>2. CASE PortReset
    BY <1>1, <1>2 DEF PortReset
<1>3. CASE PortRuns
    <2>1. PICK core_edge \in BOOLEAN, use \in TcmAddrs \cup {NoRead} :
               PortEdge(tcmw_busy, tcm_ext_addr, core_edge, use)
        BY <1>3 DEF PortRuns
    <2>2. tx_state' \in {"IDLE", "SETTLE", "READ", "LATCH"}
        BY <2>1 DEF PortEdge, SequencerStep
    <2>3. tx_sel' \in BOOLEAN /\ tx_served' \in BOOLEAN /\ tx_done_r' \in BOOLEAN
          /\ tx_rdata_r' \in Words /\ tx_req_r' \in BOOLEAN /\ tx_addr_r' \in TcmAddrs
        BY <2>1 DEF PortEdge, SequencerStep
    <2>4. tcm_q' \in Words
        BY <2>1 DEF PortEdge, ArrayEdge
    <2>5. tcm_q_shadow' \in Words /\ tcm_q_hold' \in BOOLEAN
        BY <2>1 DEF PortEdge, ShadowEdge, tx_busy
    <2>6. owed' \in Words \cup {NoRead}
        BY <2>1 DEF PortEdge
    <2> QED BY <2>2, <2>3, <2>4, <2>5, <2>6
<1> QED BY <1>2, <1>3

LEMMA PwrTyped ==
    ASSUME TypeOK, SequencerInv', Next
    PROVE  PwrTypeOK'
<1>1. PICK task \in SUBSET gate_req :
           PwrEdge(Gates(task), wake_cr, pgood_s2, FALSE, board.strap)
    BY DEF Next
<1>2. gate_req' \subseteq Tiles
    BY <1>1 DEF TypeOK, PwrTypeOK, PwrEdge, Gates
<1>3. wake_cr' \subseteq Policy /\ rls_latch' \in BOOLEAN /\ boot_hold_r' \in BOOLEAN
    BY <1>1 DEF TypeOK, PwrTypeOK, PwrEdge, BootGateEdge, Released
<1>4. strap' \in [cnt : 0 .. STRAP_SETTLE, valid : BOOLEAN, sampled : BOOLEAN]
    <2>1. board.strap \in BOOLEAN
        BY ApertureAssumption DEF TypeOK
    <2>2. strap \in [cnt : 0 .. STRAP_SETTLE, valid : BOOLEAN, sampled : BOOLEAN]
        BY DEF TypeOK, PwrTypeOK
    <2>3. StrapEdge(board.strap)
        BY <1>1 DEF PwrEdge
    <2>4. CASE strap.valid
        BY <2>2, <2>3, <2>4 DEF StrapEdge
    <2>5. CASE ~ strap.valid /\ strap.cnt = STRAP_SETTLE
        BY <2>1, <2>2, <2>3, <2>5 DEF StrapEdge
    <2>6. CASE ~ strap.valid /\ strap.cnt # STRAP_SETTLE
        <3>1. strap.cnt + 1 \in 0 .. STRAP_SETTLE
            BY <2>2, <2>6, PwrAssumption
        <3> QED BY <2>2, <2>3, <2>6, <3>1 DEF StrapEdge
    <2> QED BY <2>4, <2>5, <2>6
<1> QED BY <1>2, <1>3, <1>4 DEF SequencerInv, PwrTypeOK, Domains

TypeInv == TypeOK /\ Programs

LEMMA BootFlows == Flowing(Boot)
BY ApertureAssumption, ResetAssumption, MapAssumption DEF Boot, Flowing, CoreStates, Ops

LEMMA Hart0Typed ==
    ASSUME TypeInv, Held \/ Live
    PROVE  TileTypeOK' /\ Programs'
<1>1. CASE Held
    <2>1. HartReset /\ mix' = mix /\ mix \in Mixes
        BY <1>1 DEF Held, HartReset, TypeInv, Programs
    <2>2. Programs'
        <3>1. \A h \in Harts : core'[h] = Boot
            BY <2>1 DEF HartReset
        <3> QED BY <2>1, <3>1, BootFlows DEF Programs, Flowing
    <2>3. Boot \in [st : CoreStates, op : {"alu", "load", "store", "lr", "sc", "amo", "irq"},
                    addr : Addrs \cup {Priv}, lanes : SUBSET Lanes,
                    wdata : Words, fetch : CodeAddrs \cup {Priv}]
        BY BootFlows DEF Flowing, Ops
    <2>4. Addr0 \in Addrs /\ Word0 \in Words
        BY ResetAssumption
    <2>5. TileTypeOK'
        BY <2>1, <2>3, <2>4 DEF HartReset, TileTypeOK
    <2> QED BY <2>2, <2>5
<1>2. CASE Live
    <2>1. Programs'
        BY <1>2, ProgramsKept DEF Live, TypeInv
    <2>2. done \cap Harts \in SUBSET Harts /\ rdata \in Words /\ {} \in SUBSET Harts
        BY DEF TypeInv, TypeOK, ArbTypeOK
    <2>3. TileTypeOK'
        BY <1>2, <2>1, <2>2, TilesTyped DEF Live, TypeInv, TypeOK
    <2> QED BY <2>1, <2>3
<1> QED BY <1>1, <1>2

LEMMA NextTyped == TypeInv /\ SequencerInv' /\ Next => TypeInv'
<1> SUFFICES ASSUME TypeInv, SequencerInv', Next PROVE TypeInv' OBVIOUS
<1>0. TypeOK BY DEF TypeInv
<1>1. TileTypeOK' /\ Programs'
    BY HartDoes, Hart0Typed
<1>2. PortTypeOK'
    BY <1>0, PortDoes, PortTyped DEF TypeOK
<1>3. PwrTypeOK'
    BY <1>0, PwrTyped
<1>4. sh_rdata_mux \in Words
    BY <1>0 DEF TypeOK, sh_rdata_mux
<1>5. ArbTypeOK'
    <2> DEFINE req == bnd_req \cup (IF other = NoAck THEN {} ELSE {1})
               tx == [m \in Masters |-> IF m = 0 THEN bnd_tx[0]
                                        ELSE IF other = NoAck THEN bnd_tx[0] ELSE other]
    <2>1. ArbEdge(req, tx, bnd_lock, tcmw_stall, sh_rdata_mux)
        BY DEF Next, Bus
    <2>2. req \in SUBSET Masters
        BY <1>0, ApertureAssumption DEF TypeOK, TileTypeOK
    <2>3. bnd_tx[0] \in Tx
        BY <1>0, ApertureAssumption DEF TypeOK, TileTypeOK, Tx
    <2>4. tx \in [Masters -> Tx]
        BY <1>0, <2>3 DEF TypeOK
    <2> HIDE DEF req, tx
    <2> QED BY <1>0, <1>4, <2>1, <2>2, <2>4, ArbiterTyped DEF TypeOK
<1>6. board' \in Boards /\ pgood_s2' \in BOOLEAN /\ low' \in 0 .. MIN_LOW
    BY <1>0, ApertureAssumption DEF TypeOK, Next, Pgood
<1>7. other' \in {NoAck} \cup Tx
    <2>1. Wins \subseteq Addrs /\ Pwr \in Addrs /\ Word0 \in Words /\ RomWord \in Words
        BY ApertureAssumption, ResetAssumption DEF Wins
    <2>2. OtherMaster
        BY DEF Next
    <2>3. /\ [we : {{}}, addr : Wins, wdata : {Word0}] \subseteq Tx
          /\ [we : {Lanes}, addr : {Pwr}, wdata : {Word0, RomWord}] \subseteq Tx
        BY <2>1 DEF Tx
    <2> QED BY <1>0, <2>2, <2>3 DEF TypeOK, OtherMaster
<1>8. rd_win' \in BOOLEAN /\ rd_word' \in Words
    <2>1. ReadMux
        BY DEF Next
    <2>2. CASE s_en
        BY <2>1, <2>2, ApertureAssumption, ResetAssumption DEF ReadMux
    <2>3. CASE ~ s_en
        BY <1>0, <2>1, <2>3 DEF TypeOK, ReadMux
    <2> QED BY <2>2, <2>3
<1>9. tcmw_busy' \in BOOLEAN /\ tcm_ext_addr' \in TcmAddrs /\ tcmw_rdata' \in Words
    <2>1. Sequencer /\ tcmw_launch \in BOOLEAN
        BY <1>0 DEF Next, tcmw_launch, Addressed, TypeOK, ArbTypeOK
    <2> QED BY <1>0, <2>1, ResetAssumption
            DEF TypeOK, PortTypeOK, Sequencer, Decide, Land, Abort, Wait, Addressed, Wins
<1>10. was_dark' \in BOOLEAN /\ stalled' \in 0 .. MAX_STALL + 1
    <2>1. Histories
        BY DEF Next
    <2>2. was_dark' \in BOOLEAN
        BY <2>1 DEF Histories
    <2>3. stalled' \in 0 .. MAX_STALL + 1
        BY <1>0, <2>1, ApertureAssumption DEF Histories, TypeOK
    <2> QED BY <2>2, <2>3
<1> QED BY <1>1, <1>2, <1>3, <1>5, <1>6, <1>7, <1>8, <1>9, <1>10 DEF TypeInv, TypeOK

----------------------------------------------------------------------------
(* The bus and the request *)

Req == bnd_req \cup (IF other = NoAck THEN {} ELSE {1})

Sent(m) == IF m = 0 \/ other = NoAck THEN bnd_tx[0] ELSE other

Launches(m) ==
    /\ state \in {"IDLE", "LOCKED"} /\ m \in Req \ need_release /\ done' = {}
    /\ state' = "LATCH" /\ s_en' /\ cur' = m /\ s_master' = m /\ s_tx' = Sent(m)
    /\ need_release' = need_release \cap Req

Waits ==
    /\ state = "LATCH" /\ state' = (IF tcmw_stall THEN "LATCH" ELSE "DATA") /\ done' = {}
    /\ ~ s_en' /\ UNCHANGED << cur, s_master, s_tx >>
    /\ need_release' = need_release \cap Req

Completes ==
    /\ state = "DATA" /\ state' \in {"IDLE", "LOCKED"} /\ done' = {cur}
    /\ rdata' = sh_rdata_mux /\ ~ s_en' /\ UNCHANGED << cur, s_master, s_tx >>
    /\ need_release' = (need_release \cap Req) \cup {cur}

Rests ==
    /\ state \in {"IDLE", "LOCKED"} /\ state' \in {"IDLE", "LOCKED"} /\ done' = {}
    /\ ~ s_en' /\ UNCHANGED << cur, s_master, s_tx >>
    /\ need_release' = need_release \cap Req

LEMMA BusDoes ==
    ASSUME TypeOK, Next
    PROVE  (\E m \in Masters : Launches(m)) \/ Waits \/ Completes \/ Rests
<1> DEFINE tx == [m \in Masters |-> IF m = 0 THEN bnd_tx[0]
                                    ELSE IF other = NoAck THEN bnd_tx[0] ELSE other]
<1>1. ArbEdge(Req, tx, bnd_lock, tcmw_stall, sh_rdata_mux)
    BY DEF Next, Bus, Req
<1>2. \A m \in Masters : tx[m] = Sent(m)
    BY DEF Sent
<1>3. cur \in Masters
    BY DEF TypeOK, ArbTypeOK
<1> HIDE DEF tx
<1> USE <1>2, <1>3 DEF NoLaunch, Launch, Release, Eligible, Launches, Waits, Completes, Rests
<1>4. CASE Rest(Req) BY <1>4 DEF Rest
<1>5. CASE Pick(Req, tx) BY <1>5 DEF Pick, IsWinner
<1>6. CASE Latch(Req, tcmw_stall) BY <1>6 DEF Latch
<1>7. CASE Complete(Req, bnd_lock, sh_rdata_mux) BY <1>7 DEF Complete
<1>8. CASE Unlock(Req, bnd_lock) BY <1>8 DEF Unlock
<1>9. CASE Relaunch(Req, tx, bnd_lock) BY <1>9 DEF Relaunch
<1>10. CASE Hold(Req, bnd_lock) BY <1>10 DEF Hold
<1> QED BY <1>1, <1>4, <1>5, <1>6, <1>7, <1>8, <1>9, <1>10 DEF ArbEdge

LEMMA NextBus == TypeOK /\ BusInv /\ Next => BusInv'
<1> SUFFICES ASSUME TypeOK, BusInv, Next PROVE BusInv' OBVIOUS
<1>1. (\E m \in Masters : Launches(m)) \/ Waits \/ Completes \/ Rests
    BY BusDoes
<1>2. s_en' => state' = "LATCH" /\ stalled' = 0
    <2>1. s_en' => state \in {"IDLE", "LOCKED"} /\ state' = "LATCH"
        BY <1>1 DEF Launches, Waits, Completes, Rests
    <2>2. s_en' => ~ tcmw_stall
        BY <2>1 DEF BusInv, tcmw_stall, tcmw_launch, Addressed
    <2> QED BY <2>1, <2>2 DEF Next, Histories
<1>3. /\ state' \in {"LATCH", "DATA"} => s_master' = cur'
      /\ done' # {} => state' \in {"IDLE", "LOCKED"} /\ done' = {s_master'}
    BY <1>1 DEF BusInv, Launches, Waits, Completes, Rests
<1>4. tcmw_busy' => /\ state' = "LATCH" /\ ~ s_en' /\ s_master' = 0
                    /\ s_tx'.addr \in Wins /\ s_tx'.we = {} /\ tcm_ext_addr' = s_tx'.addr
    <2> SUFFICES ASSUME tcmw_busy'
                 PROVE  /\ state' = "LATCH" /\ ~ s_en' /\ s_master' = 0
                        /\ s_tx'.addr \in Wins /\ s_tx'.we = {}
                        /\ tcm_ext_addr' = s_tx'.addr
        OBVIOUS
    <2>1. Sequencer
        BY DEF Next
    <2>2. state = "LATCH" /\ tcmw_stall
        BY <2>1 DEF BusInv, Sequencer, Decide, Land, Abort, Wait, tcmw_stall, tcmw_launch,
                    Addressed
    <2>3. Waits
        BY <1>1, <2>2 DEF Launches, Completes, Rests
    <2>4. CASE tcmw_busy
        BY <2>1, <2>2, <2>3, <2>4 DEF BusInv, Sequencer, Decide, Land, Abort, Wait, Waits
    <2>5. CASE ~ tcmw_busy
        <3>1. Decide /\ tcmw_launch
            BY <2>1, <2>5 DEF Sequencer, Decide, Land, Abort, Wait
        <3> QED BY <2>2, <2>3, <3>1 DEF Decide, Waits, tcmw_launch, Addressed
    <2> QED BY <2>4, <2>5
<1>5. ~ tcmw_busy' /\ tx_req_r' => state' = "LATCH" /\ ~ s_en'
    <2>1. tx_req_r' => tcmw_busy
        BY PortDoes DEF PortReset, PortRuns, PortEdge
    <2> QED BY <1>1, <2>1 DEF BusInv, Launches, Waits, Completes, Rests, tcmw_stall
<1>6. ~ tcmw_busy' /\ ~ tx_req_r' /\ tx_served' => state' = "DATA"
    <2> SUFFICES ASSUME ~ tx_req_r', tx_served' PROVE state' = "DATA" OBVIOUS
    <2>1. tx_req_r /\ ~ tcmw_busy
        <3>1. PortRuns
            BY PortDoes DEF PortReset
        <3>2. PICK core_edge \in BOOLEAN, use \in TcmAddrs \cup {NoRead} :
                   PortEdge(tcmw_busy, tcm_ext_addr, core_edge, use)
            BY <3>1 DEF PortRuns
        <3> QED BY <3>2 DEF PortEdge, SequencerStep
    <2>2. state = "LATCH" /\ ~ s_en
        BY <2>1 DEF BusInv
    <2> QED BY <1>1, <2>1, <2>2
            DEF Launches, Waits, Completes, Rests, tcmw_stall, tcmw_launch, Addressed
<1> QED BY <1>2, <1>3, <1>4, <1>5, <1>6 DEF BusInv

\* A dark target's port is in reset or behind its clamps: it answers nothing.
LEMMA DarkSilent == RequestInv /\ tcmw_dark => ~ ext_done
BY DEF RequestInv, tcmw_dark, ext_done

\* A target that is dark no more has been reset, and nothing is in flight.
LEMMA Lightens ==
    ASSUME SequencerInv, SequencerInv', RequestInv, Next, tcmw_dark, ~ tcmw_dark'
    PROVE  PortReset /\ ~ tcmw_busy'
<1>1. target \in Tiles /\ target' = target
    BY DEF tcmw_dark, Next, target
<1>2. ~ tile_rstn
    <2>1. domain'[target] = Sequenced(domain[target], target \in gate_req)
        BY <1>1 DEF Next, PwrEdge, SequencerEdge
    <2>2. ~ boot_hold_r' /\ domain'[target].rstn /\ ~ domain'[target].iso
        BY <1>1 DEF tcmw_dark, Clamped, tile_rstn, TargetRstn
    <2>3. domain'[target].st = "ON"
        BY <1>1, <2>2 DEF SequencerInv, Consistent
    <2>4. domain[target] \in Domains /\ Consistent(domain[target], rail_age[target])
        BY <1>1 DEF SequencerInv
    <2>5. domain[target].st \in {"ON", "UNISO"}
        <3> DEFINE d == domain[target]
        <3>1. d.st \in {"ON", "ISO", "RSTOFF", "OFF", "RAIL", "UNISO"}
            BY <2>4 DEF Domains
        <3>2. Sequenced(d, target \in gate_req).st = "ON"
            BY <2>1, <2>3
        <3> HIDE DEF d
        <3>3. d \in Domains
            BY <2>4 DEF d
        <3>4. d.st \in {"ON", "UNISO"}
            BY <3>1, <3>2, <3>3 DEF Sequenced, Counting, Domains
        <3> QED BY <3>4 DEF d
    <2> QED BY <1>1, <2>4, <2>5 DEF Consistent, tcmw_dark, Clamped, tile_rstn, TargetRstn
<1>3. PortReset
    BY <1>2, PortDoes DEF PortRuns
<1>4. ~ tcmw_busy'
    BY DarkSilent DEF Next, Sequencer, Decide, Land, Abort, Wait, tcmw_launch
<1> QED BY <1>3, <1>4

\* One edge of a request's way, in a target that is not dark.
LEMMA StepsOn ==
    ASSUME PortInv, NEW k \in 1 .. 5, Step(k), PortRuns, UNCHANGED tcm_ext_addr, tcmw_busy
    PROVE  Step(k + 1)'
<1>1. PICK core_edge \in BOOLEAN, use \in TcmAddrs \cup {NoRead} :
           PortEdge(tcmw_busy, tcm_ext_addr, core_edge, use)
    BY DEF PortRuns
<1>2. /\ tx_req_r' /\ tx_addr_r' = tcm_ext_addr'
      /\ tx_state' = CASE tx_state = "SETTLE" -> "READ"
                       [] tx_state = "READ"   -> "LATCH"
                       [] tx_state = "LATCH"  -> "IDLE"
                       [] OTHER -> IF tx_state = "IDLE" /\ tx_req_r /\ ~ tx_served
                                   THEN "SETTLE" ELSE "IDLE"
      /\ tx_done_r' <=> tx_state = "LATCH"
      /\ tx_served' <=> tx_req_r /\ (tx_served \/ tx_state = "LATCH")
      /\ tx_state = "LATCH" => tx_rdata_r' = tcm_q
    BY <1>1 DEF PortEdge, SequencerStep
<1>3. tx_state = "READ" => tcm_q' = Tcm[tx_addr_r]
    BY <1>1 DEF PortEdge, ArrayEdge, PortInv
<1>4. /\ (k > 1 => tx_req_r) /\ (k = 1 => ~ tx_req_r)
      /\ k \notin {3, 4, 5} => tx_state = "IDLE"
      /\ k = 3 => tx_state = "SETTLE"
      /\ k = 4 => tx_state = "READ" /\ tx_addr_r = tcm_ext_addr
      /\ k = 5 => tx_state = "LATCH" /\ tcm_q = Tcm[tcm_ext_addr]
      /\ ~ tx_served
    BY DEF Step
<1> QED
    BY <1>2, <1>3, <1>4 DEF Step

\* Where a request stands says whether it is answered.
LEMMA Answers ==
    ASSUME ~ tcmw_dark, tcmw_busy, NEW k \in 1 .. 6, Step(k), Sequencer
    PROVE  IF k = 6 THEN Land ELSE Wait
<1>1. ext_done <=> k = 6
    BY DEF ext_done, Step, tcmw_dark, Clamped
<1> QED BY <1>1 DEF Sequencer, Decide, Land, Abort, Wait

\* The edge that sends a request to a target that stays lit starts it on its way.
LEMMA Asks ==
    ASSUME TypeOK, BusInv, RequestInv, Next, ~ tcmw_dark, PortRuns, ~ tcmw_busy, tcmw_busy'
    PROVE  Step(1)'
<1>1. PICK core_edge \in BOOLEAN, use \in TcmAddrs \cup {NoRead} :
           PortEdge(tcmw_busy, tcm_ext_addr, core_edge, use)
    BY DEF PortRuns
<1>2. s_en
    BY DEF Next, Sequencer, Decide, Land, Abort, Wait, tcmw_launch, Addressed
<1>3. tx_state = "IDLE" /\ ~ tx_done_r /\ ~ tx_req_r /\ ~ tx_served
    BY <1>2 DEF RequestInv, BusInv
<1>4. /\ ~ tx_req_r' /\ tx_state' = "IDLE" /\ ~ tx_served' /\ ~ tx_done_r'
    BY <1>1, <1>3 DEF PortEdge, SequencerStep
<1> QED BY <1>4 DEF Step

LEMMA NextRequest ==
    TypeOK /\ SequencerInv /\ SequencerInv' /\ PortInv /\ BusInv /\ RequestInv /\ Next
        => RequestInv'
<1> SUFFICES ASSUME TypeOK, SequencerInv, SequencerInv', PortInv, BusInv, RequestInv, Next
             PROVE  RequestInv'
    OBVIOUS
<1>1. ~ tile_rstn' => ~ tx_done_r'
    BY PortDoes DEF PortRuns, PortReset
<1>2. ASSUME PortReset
      PROVE  IF tcmw_busy' THEN Step(1)'
             ELSE tx_state' = "IDLE" /\ ~ tx_done_r' /\ (tx_req_r' => tx_served')
    BY <1>2 DEF PortReset, Step
<1>3. ASSUME ~ tcmw_dark, PortRuns
      PROVE  IF tcmw_busy' THEN \E k \in 1 .. 6 : Step(k)'
             ELSE tx_state' = "IDLE" /\ ~ tx_done_r' /\ (tx_req_r' => tx_served')
    <2>1. Sequencer
        BY DEF Next
    <2>2. PICK core_edge \in BOOLEAN, use \in TcmAddrs \cup {NoRead} :
               PortEdge(tcmw_busy, tcm_ext_addr, core_edge, use)
        BY <1>3 DEF PortRuns
    <2>3. CASE tcmw_busy
        <3>1. PICK k \in 1 .. 6 : Step(k)
            BY <1>3, <2>3 DEF RequestInv
        <3>2. CASE k = 6
            <4>1. Land
                BY <1>3, <2>1, <2>3, <3>1, <3>2, Answers
            <4>2. tx_req_r /\ tx_served /\ tx_state = "IDLE"
                BY <3>1, <3>2 DEF Step
            <4>3. tx_state' = "IDLE" /\ ~ tx_done_r' /\ tx_served'
                BY <2>2, <4>2 DEF PortEdge, SequencerStep
            <4> QED BY <4>1, <4>3 DEF Land
        <3>3. CASE k # 6
            <4>1. Wait
                BY <1>3, <2>1, <2>3, <3>1, <3>3, Answers
            <4>2. k \in 1 .. 5 /\ k + 1 \in 1 .. 6
                BY <3>3
            <4>3. Step(k + 1)' /\ tcmw_busy'
                BY <1>3, <2>3, <3>1, <4>1, <4>2, StepsOn DEF Wait
            <4> QED BY <4>2, <4>3
        <3> QED BY <3>2, <3>3
    <2>4. CASE ~ tcmw_busy
        <3>1. tx_state = "IDLE" /\ ~ tx_done_r /\ (tx_req_r => tx_served)
            BY <1>3, <2>4 DEF RequestInv
        <3>2. tx_state' = "IDLE" /\ ~ tx_done_r' /\ ~ tx_req_r'
            BY <2>2, <2>4, <3>1 DEF PortEdge, SequencerStep
        <3>3. tcmw_busy' => Step(1)'
            BY <1>3, <2>4, Asks
        <3> QED BY <3>2, <3>3
    <2> QED BY <2>3, <2>4
<1>4. CASE tcmw_dark
    BY <1>1, <1>2, <1>4, Lightens DEF RequestInv
<1>5. CASE ~ tcmw_dark
    <2>1. IF tcmw_busy' THEN \E k \in 1 .. 6 : Step(k)'
          ELSE tx_state' = "IDLE" /\ ~ tx_done_r' /\ (tx_req_r' => tx_served')
        BY <1>2, <1>3, <1>5, PortDoes
    <2> QED BY <1>1, <2>1 DEF RequestInv
<1> QED BY <1>4, <1>5

LEMMA NextAnswer ==
    TypeOK /\ SequencerInv /\ BusInv /\ RequestInv /\ AnswerInv /\ Next => AnswerInv'
<1> SUFFICES ASSUME TypeOK, SequencerInv, BusInv, RequestInv, AnswerInv, Next
             PROVE  AnswerInv'
    OBVIOUS
<1>1. (\E m \in Masters : Launches(m)) \/ Waits \/ Completes \/ Rests
    BY BusDoes
<1>2. ReadMux /\ Sequencer
      /\ was_dark' = (tcmw_dark \/ (was_dark /\ ~ (Addressed /\ s_master = 0)))
    BY DEF Next, Histories
<1>3. CASE state' \in {"LATCH", "DATA"} /\ ~ s_en'
    <2>1. Waits /\ state = "LATCH" /\ s_tx' = s_tx /\ s_master' = s_master /\ done' = {}
        BY <1>1, <1>3 DEF Launches, Waits, Completes, Rests, TypeOK, ArbTypeOK
    <2>2. CASE s_en
        <3>1. ~ tcmw_busy
            BY <2>2 DEF BusInv
        <3>2. rd_win' = (s_tx.addr \in Wins) /\ (s_tx.addr = Rom => rd_word' = RomWord)
            BY <1>2, <2>2 DEF ReadMux
        <3>3. Reads /\ ~ tcmw_busy' => Honest(tcmw_rdata)'
            <4> SUFFICES ASSUME Reads, ~ tcmw_busy' PROVE Honest(tcmw_rdata)'
                BY <2>1 DEF Reads
            <4>1. Decide /\ tcmw_rdata' = Word0
                BY <1>2, <2>2, <3>1 DEF Sequencer, Decide, Land, Abort, Wait, Addressed, Reads
            <4>2. ~ (s_master = 0 /\ ~ tcmw_dark)
                BY <2>2, <4>1 DEF Decide, tcmw_launch, Addressed, Reads
            <4> QED BY <1>2, <2>1, <4>1, <4>2 DEF Honest
        <3> QED BY <1>3, <2>1, <3>2, <3>3 DEF AnswerInv, Reads
    <2>3. CASE ~ s_en
        <3>1. /\ rd_win = (s_tx.addr \in Wins) /\ (s_tx.addr = Rom => rd_word = RomWord)
              /\ Reads /\ ~ tcmw_busy => Honest(tcmw_rdata)
            BY <2>1, <2>3 DEF AnswerInv
        <3>2. rd_win' = rd_win /\ rd_word' = rd_word /\ was_dark' = (tcmw_dark \/ was_dark)
            BY <1>2, <2>3 DEF ReadMux, Addressed
        <3>3. Reads /\ ~ tcmw_busy' => Honest(tcmw_rdata)'
            <4> SUFFICES ASSUME Reads, ~ tcmw_busy' PROVE Honest(tcmw_rdata)'
                BY <2>1 DEF Reads
            <4>1. CASE ~ tcmw_busy
                <5>1. tcmw_rdata' = tcmw_rdata
                    BY <1>2, <2>3, <4>1 DEF Sequencer, Decide, Land, Abort, Wait, Addressed
                <5> QED BY <2>1, <3>1, <3>2, <4>1, <5>1 DEF Honest
            <4>2. CASE tcmw_busy /\ ext_done
                <5>1. ~ tcmw_dark
                    BY <4>2, DarkSilent
                <5>2. PICK k \in 1 .. 6 : Step(k)
                    BY <4>2, <5>1 DEF RequestInv
                <5>3. tcmw_rdata' = Tcm[s_tx.addr]
                    BY <1>2, <4>2, <5>2
                    DEF Sequencer, Decide, Land, Abort, Wait, Step, ext_done, BusInv
                <5>4. s_master = 0
                    BY <4>2 DEF BusInv
                <5> QED BY <2>1, <5>3, <5>4 DEF Honest
            <4>3. CASE tcmw_busy /\ ~ ext_done
                <5>1. tcmw_dark /\ tcmw_rdata' = Word0
                    BY <1>2, <4>3 DEF Sequencer, Decide, Land, Abort, Wait
                <5> QED BY <2>1, <3>2, <4>3, <5>1 DEF Honest, BusInv
            <4> QED BY <4>1, <4>2, <4>3
        <3> QED BY <1>3, <2>1, <3>1, <3>2, <3>3 DEF AnswerInv, Reads
    <2> QED BY <2>2, <2>3
<1>4. CASE done' # {}
    <2>1. Completes /\ state = "DATA" /\ s_tx' = s_tx /\ s_master' = s_master
          /\ rdata' = sh_rdata_mux /\ state' \in {"IDLE", "LOCKED"}
        BY <1>1, <1>4 DEF Launches, Waits, Completes, Rests
    <2>2. ~ s_en /\ ~ tcmw_busy
        BY <2>1 DEF BusInv
    <2>3. /\ rd_win = (s_tx.addr \in Wins) /\ (s_tx.addr = Rom => rd_word = RomWord)
          /\ Reads => Honest(tcmw_rdata)
        BY <2>1, <2>2 DEF AnswerInv
    <2>4. was_dark => was_dark'
        BY <1>2, <2>2 DEF Addressed
    <2>5. Rom \notin Wins
        BY ApertureAssumption
    <2>6. Reads => Honest(rdata)'
        BY <2>1, <2>3, <2>4 DEF Reads, Honest, sh_rdata_mux
    <2>7. s_tx.addr = Rom => rdata' = RomWord
        BY <2>1, <2>3, <2>5 DEF sh_rdata_mux
    <2> QED BY <2>1, <2>6, <2>7 DEF AnswerInv, Reads
<1> QED BY <1>3, <1>4 DEF AnswerInv

\* A window read's word is its target's own or an honest zero.
LEMMA AnswersTruthful == BusInv /\ AnswerInv => ReadsTruthful
BY DEF BusInv, AnswerInv, ReadsTruthful, Honest, Reads

----------------------------------------------------------------------------

LEMMA InitInv == Init => SequencerInv /\ PortInv
<1> SUFFICES ASSUME Init PROVE SequencerInv /\ PortInv
    OBVIOUS
<1>1. SequencerInv
    <2>1. 0 \in 0 .. T_SEQ + T_RAIL /\ T_RAIL \in 0 .. T_RAIL
        BY PwrAssumption
    <2>2. domain \in [Tiles -> Domains] /\ rail_age \in [Tiles -> 0 .. T_RAIL]
        BY <2>1 DEF Init, PwrInit, Domains
    <2>3. ASSUME NEW t \in Tiles PROVE Consistent(domain[t], rail_age[t])
        BY DEF Init, PwrInit, Consistent
    <2> QED BY <2>2, <2>3 DEF SequencerInv
<1>2. PortInv
    BY DEF Init, PortInit, PortInv, CoreUndisturbed
<1> QED BY <1>1, <1>2

LEMMA StepInv == SequencerInv /\ PortInv /\ [Next]_vars => SequencerInv' /\ PortInv'
<1> SUFFICES ASSUME SequencerInv, PortInv, [Next]_vars
             PROVE  SequencerInv' /\ PortInv'
    OBVIOUS
<1>1. CASE Next
    <2>1. SequencerInv'
        <3>1. SequencerEdge
            BY <1>1 DEF Next, PwrEdge
        <3> QED BY <3>1, SequencerPreserved
    <2>2. PortInv'
        <3>1. PICK moving \in {{}} \cup (IF Runs0 THEN {{0}} ELSE {}) : Port(moving)
            BY <1>1 DEF Next
        <3>2. CASE PortReset
            BY <3>2, PortResetInv
        <3>3. CASE ~ PortReset
            <4>1. PICK core_edge \in IF target = 0 THEN {moving # {}} ELSE {FALSE, ~ tx_busy},
                       use \in TcmAddrs \cup {NoRead} :
                       PortEdge(tcmw_busy, tcm_ext_addr, core_edge, use)
                BY <3>1, <3>3 DEF Port
            <4>2. core_edge \in BOOLEAN
                BY <4>1
            <4>3. core_edge => ~ tx_busy
                BY <3>1, <4>1 DEF Runs0
            <4> QED BY <4>1, <4>2, <4>3, PortPreserved
        <3> QED BY <3>2, <3>3
    <2> QED BY <2>1, <2>2
<1>2. CASE UNCHANGED vars
    BY <1>2 DEF vars, pwrVars, portVars, SequencerInv, PortInv, CoreUndisturbed, mem_dout
<1> QED BY <1>1, <1>2

LEMMA Invariance == Spec => [](SequencerInv /\ PortInv)
BY InitInv, StepInv, PTL DEF Spec

\* What the reads rest on.
ReadInv == TypeInv /\ SequencerInv /\ PortInv /\ BusInv /\ RequestInv /\ AnswerInv

LEMMA InitReads == Init => ReadInv
<1> SUFFICES ASSUME Init PROVE ReadInv OBVIOUS
<1>1. TypeInv
    <2>1. core = [h \in Harts |-> Boot] /\ mix \in Mixes
        BY DEF Init, TileInit
    <2>2. Programs
        BY <2>1, BootFlows DEF Programs
    <2>3. ArbTypeOK
        <3>1. 0 \in Masters
            BY NAssumption DEF Masters
        <3>2. ArbInit
            BY DEF Init
        <3> QED BY <3>1, <3>2, ResetAssumption DEF ArbInit, ArbTypeOK, Tx
    <2>4. TileTypeOK
        <3>1. Boot \in [st : CoreStates, op : {"alu", "load", "store", "lr", "sc", "amo", "irq"},
                        addr : Addrs \cup {Priv}, lanes : SUBSET Lanes,
                        wdata : Words, fetch : CodeAddrs \cup {Priv}]
            BY BootFlows DEF Flowing, Ops
        <3> QED BY <2>1, <3>1, ResetAssumption DEF Init, TileInit, TileTypeOK
    <2>5. PortTypeOK
        BY TcmAssumption, ResetAssumption DEF Init, PortInit, PortTypeOK, ResetAddr
    <2>6. PwrTypeOK
        <3>1. /\ domain \in [Tiles -> Domains] /\ rail_age \in [Tiles -> 0 .. T_RAIL]
            BY InitInv DEF SequencerInv
        <3>2. wake_cr \subseteq Policy
            BY ApertureAssumption DEF Init
        <3>3. gate_req = {} /\ strap = [cnt |-> 0, valid |-> FALSE, sampled |-> FALSE]
              /\ rls_latch = FALSE /\ boot_hold_r = FALSE
            BY DEF Init, PwrInit
        <3>4. 0 \in 0 .. STRAP_SETTLE
            BY PwrAssumption
        <3> QED BY <3>1, <3>2, <3>3, <3>4 DEF PwrTypeOK, Domains
    <2>7. ResetAddr \in TcmAddrs
        BY TcmAssumption DEF ResetAddr
    <2>8. pgood_s2 \in BOOLEAN
        BY ApertureAssumption DEF Init
    <2>9. 0 \in 0 .. MIN_LOW /\ 0 \in 0 .. MAX_STALL + 1
        BY ApertureAssumption
    <2>10. /\ board \in Boards /\ low = 0 /\ other = NoAck /\ rd_win = FALSE /\ rd_word = Word0
           /\ tcmw_busy = FALSE /\ tcm_ext_addr = ResetAddr /\ tcmw_rdata = Word0
           /\ was_dark = FALSE /\ stalled = 0
        BY DEF Init
    <2> QED BY <2>2, <2>3, <2>4, <2>5, <2>6, <2>7, <2>8, <2>9, <2>10, ResetAssumption
            DEF TypeInv, TypeOK
<1>2. BusInv /\ RequestInv /\ AnswerInv
    BY DEF Init, ArbInit, PortInit, BusInv, RequestInv, AnswerInv
<1> QED BY <1>1, <1>2, InitInv DEF ReadInv

LEMMA Stutters ==
    ASSUME UNCHANGED vars
    PROVE  /\ TypeInv => TypeInv'
           /\ BusInv => BusInv'
           /\ RequestInv => RequestInv'
           /\ AnswerInv => AnswerInv'
<1> USE DEF vars, arbVars, tileVars, pwrVars, portVars, apVars
<1>1. TypeInv => TypeInv'
    BY DEF TypeInv, TypeOK, ArbTypeOK, TileTypeOK, PortTypeOK, PwrTypeOK, Programs
<1>2. BusInv => BusInv'
    BY DEF BusInv
<1>3. tcmw_dark' = tcmw_dark /\ tile_rstn' = tile_rstn
    BY DEF tcmw_dark, tile_rstn, TargetRstn, target, Clamped
<1>4. RequestInv => RequestInv'
    BY <1>3 DEF RequestInv, Step
<1>5. AnswerInv => AnswerInv'
    BY DEF AnswerInv, Reads, Honest
<1> QED BY <1>1, <1>2, <1>4, <1>5

LEMMA StepReads == ReadInv /\ [Next]_vars => ReadInv'
<1> SUFFICES ASSUME ReadInv, [Next]_vars PROVE ReadInv' OBVIOUS
<1>1. SequencerInv' /\ PortInv'
    BY StepInv DEF ReadInv
<1>2. CASE Next
    <2>1. TypeInv' /\ BusInv'
        BY <1>1, <1>2, NextTyped, NextBus DEF ReadInv, TypeInv
    <2>2. RequestInv' /\ AnswerInv'
        BY <1>1, <1>2, NextRequest, NextAnswer DEF ReadInv, TypeInv
    <2> QED BY <1>1, <2>1, <2>2 DEF ReadInv
<1>3. CASE UNCHANGED vars
    BY <1>1, <1>3, Stutters DEF ReadInv
<1> QED BY <1>2, <1>3

LEMMA ReadInvariance == Spec => []ReadInv
BY InitReads, StepReads, PTL DEF Spec

----------------------------------------------------------------------------
(* The stall *)

LEMMA GateDoes ==
    ASSUME Next
    PROVE  /\ StrapEdge(board.strap) /\ BootGateEdge(pgood_s2, FALSE)
           /\ wake_cr' = wake_cr /\ board' = board
BY DEF Next, PwrEdge

LEMMA NextPolicy ==
    ASSUME SelfUngated, TypeOK, PolicyInv, Next
    PROVE  PolicyInv'
<1>1. /\ StrapEdge(board.strap) /\ BootGateEdge(pgood_s2, FALSE)
      /\ wake_cr' = wake_cr /\ board' = board
    BY GateDoes
<1>2. strap'.sampled => board'.strap
    BY <1>1 DEF StrapEdge, PolicyInv, TypeOK, PwrTypeOK
<1>3. target' = 0 => ~ boot_hold_r'
    <2> SUFFICES ASSUME target' = 0 PROVE "arm" \notin Effective
        BY <1>1 DEF BootGateEdge
    <2>1. ~ board.strap /\ "arm" \notin board.wake
        BY <1>1 DEF SelfUngated, TypeOK, target
    <2> QED BY <2>1 DEF PolicyInv, Effective, Harvest
<1> QED BY <1>1, <1>2, <1>3 DEF PolicyInv

\* A target that stays out of the dark keeps its port running.
LEMMA StaysLit ==
    ASSUME TypeOK, PolicyInv, PolicyInv', Next, ~ tcmw_dark, ~ tcmw_dark'
    PROVE  PortRuns
<1>1. target \in Tiles \/ target = 0
    BY ApertureAssumption DEF TypeOK, target
<1>2. tile_rstn /\ tile_rstn'
    <2>1. target' = target
        BY DEF Next, target
    <2>2. CASE target \in Tiles
        BY <2>1, <2>2 DEF tcmw_dark
    <2>3. CASE target \notin Tiles
        BY <1>1, <2>1, <2>3 DEF tile_rstn, TargetRstn, PolicyInv
    <2> QED BY <2>2, <2>3
<1> QED BY <1>2, PortDoes

LEMMA NextStall ==
    ASSUME MAX_STALL >= 7, TypeOK, PortInv, BusInv, RequestInv, StallInv,
           PolicyInv, PolicyInv', Next
    PROVE  StallInv'
<1>1. Sequencer /\ Histories
    BY DEF Next
<1>2. stalled' = IF tcmw_stall THEN stalled + 1 ELSE 0
    <2>1. tcmw_stall => stalled <= 6
        BY DEF tcmw_stall, tcmw_launch, Addressed, BusInv, StallInv
    <2>2. stalled \in Nat
        BY DEF StallInv
    <2>3. MAX_STALL \in Nat
        BY ApertureAssumption
    <2> QED BY <1>1, <2>1, <2>2, <2>3 DEF Histories
<1>3. CASE ~ tcmw_busy
    <2>1. ~ tcmw_launch => ~ tcmw_busy' /\ stalled' = 0
        BY <1>1, <1>2, <1>3
        DEF Sequencer, Decide, Land, Abort, Wait, tcmw_stall, tcmw_launch, Addressed
    <2>2. CASE tcmw_launch
        <3>1. stalled' = 1
            BY <1>2, <2>2 DEF tcmw_stall, tcmw_launch, Addressed, BusInv
        <3>2. ~ tcmw_dark /\ tcmw_busy'
            BY <1>1, <1>3, <2>2 DEF Sequencer, Decide, Land, Abort, Wait, tcmw_launch, Addressed
        <3>3. ~ tcmw_dark' => Step(1)'
            BY <1>3, <3>2, StaysLit, Asks
        <3> QED BY <3>1, <3>2, <3>3 DEF StallInv
    <2> QED BY <2>1, <2>2 DEF StallInv
<1>4. CASE tcmw_busy
    <2>1. stalled' = stalled + 1 /\ stalled \in 0 .. 6
        BY <1>2, <1>4 DEF tcmw_stall, StallInv
    <2>2. CASE tcmw_busy'
        <3>1. ~ tcmw_dark /\ Wait
            BY <1>1, <1>4, <2>2 DEF Sequencer, Decide, Land, Abort, Wait
        <3>2. PICK k \in 1 .. 6 : stalled = k /\ Step(k)
            BY <1>4, <3>1 DEF StallInv
        <3>3. k \in 1 .. 5 /\ k + 1 \in 1 .. 6 /\ stalled' = k + 1
            BY <1>1, <1>4, <2>1, <3>1, <3>2, Answers DEF Land, Wait
        <3>4. ~ tcmw_dark' => Step(k + 1)'
            BY <1>4, <3>1, <3>2, <3>3, StaysLit, StepsOn DEF Wait
        <3> QED BY <3>3, <3>4 DEF StallInv
    <2> QED BY <2>1, <2>2 DEF StallInv
<1> QED BY <1>3, <1>4

LEMMA Stalls ==
    ASSUME SelfUngated, MAX_STALL >= 7
    PROVE  Spec => [](StallInv /\ PolicyInv)
<1>1. Init => StallInv /\ PolicyInv
    BY DEF Init, PwrInit, StallInv, PolicyInv
<1>2. ReadInv /\ StallInv /\ PolicyInv /\ [Next]_vars => (StallInv /\ PolicyInv)'
    <2> SUFFICES ASSUME ReadInv, StallInv, PolicyInv, [Next]_vars
                 PROVE  (StallInv /\ PolicyInv)'
        OBVIOUS
    <2>1. CASE Next
        <3>1. PolicyInv'
            BY <2>1, NextPolicy DEF ReadInv, TypeInv
        <3> QED BY <2>1, <3>1, NextStall DEF ReadInv, TypeInv
    <2>2. CASE UNCHANGED vars
        <3> USE <2>2 DEF vars, portVars, pwrVars, arbVars, apVars
        <3>1. tcmw_dark' = tcmw_dark
            BY DEF tcmw_dark, tile_rstn, TargetRstn, target, Clamped
        <3>2. StallInv'
            BY <3>1 DEF StallInv, Step
        <3>3. PolicyInv'
            BY DEF PolicyInv, target
        <3> QED BY <3>2, <3>3
    <2> QED BY <2>1, <2>2
<1> QED BY <1>1, <1>2, ReadInvariance, PTL DEF Spec

----------------------------------------------------------------------------
(* The cold boot *)

\* The gate's setting changes once, when a strap that stands alone is sampled.
LEMMA SettingKept ==
    ASSUME StrapAlone, TypeOK, PolicyInv, Next
    PROVE  \/ Effective' = Effective
           \/ Effective = {} /\ wake_cr = {} /\ Watched'
<1>1. StrapEdge(board.strap) /\ wake_cr' = wake_cr
    BY GateDoes
<1>2. strap.valid => strap' = strap
    BY <1>1 DEF StrapEdge
<1>3. CASE Harvest' = Harvest
    BY <1>1, <1>3 DEF Effective
<1>4. CASE Harvest' # Harvest
    <2>1. ~ strap.valid /\ strap'.valid /\ strap'.sampled
        BY <1>2, <1>4 DEF Harvest, TypeOK, PwrTypeOK
    <2>2. board.strap
        BY <1>1, <2>1 DEF StrapEdge, TypeOK, PwrTypeOK, PolicyInv
    <2>3. wake_cr = {}
        BY <2>2 DEF StrapAlone, TypeOK, PolicyInv
    <2> QED BY <2>1, <2>3 DEF Effective, Harvest, Watched
<1> QED BY <1>3, <1>4

\* A gate that closes for want of PGOOD stays closed while the drop lasts.
LEMMA StaysClosed ==
    ASSUME StrapAlone, TypeOK, PolicyInv, Next, Closing, Watched, low < MIN_LOW
    PROVE  Closing' /\ Watched' /\ low' <= low + 1
<1>1. Effective' = Effective /\ Watched'
    BY SettingKept DEF Watched
<1>2. BootGateEdge(pgood_s2, FALSE) /\ wake_cr' = wake_cr
    BY GateDoes
<1>3. ~ pgood_s2
    BY DEF Closing, Watched, Released
<1>4. Pgood
    BY DEF Next
<1>5. ~ pgood_s2'
    BY <1>3, <1>4, ApertureAssumption DEF Pgood, TypeOK
<1>6. low' <= low + 1
    BY <1>4, ApertureAssumption DEF Pgood, TypeOK
<1>7. Closing'
    BY <1>1, <1>2, <1>3, <1>5 DEF Closing, Released, BootGateEdge, TypeOK, PwrTypeOK
<1> QED BY <1>1, <1>6, <1>7

LEMMA NextGate ==
    ASSUME StrapAlone, TypeOK, PolicyInv, GateInv, Next
    PROVE  GateInv'
<1>1. BootGateEdge(pgood_s2, FALSE) /\ wake_cr' = wake_cr
    BY GateDoes
<1>2. Pgood
    BY DEF Next
<1>3. pgood_s2' => low' = 0
    BY <1>2 DEF Pgood
<1>4. ~ boot_hold_r' /\ Closing' => Watched' /\ low' <= 1
    <2> SUFFICES ASSUME ~ boot_hold_r', Closing' PROVE Watched' /\ low' <= 1
        OBVIOUS
    <2>1. ~ Closing
        BY <1>1 DEF BootGateEdge, Closing
    <2>2. CASE Effective' = Effective
        <3>1. Released(pgood_s2, FALSE)
            BY <1>1, <2>1, <2>2 DEF Closing, BootGateEdge, TypeOK, PwrTypeOK
        <3>2. ~ Released(pgood_s2, FALSE)'
            BY DEF Closing, Released
        <3>3. Watched /\ pgood_s2
            BY <1>1, <2>2, <3>1, <3>2 DEF Released, Watched
        <3>4. low = 0
            BY <3>3 DEF GateInv
        <3>5. low' <= 1
            BY <1>2, <3>4, ApertureAssumption DEF Pgood
        <3> QED BY <2>2, <3>3, <3>5 DEF Watched
    <2>3. CASE Effective = {} /\ Watched'
        <3>1. ~ Watched
            BY <2>3 DEF Watched
        <3> QED BY <1>2, <2>3, <3>1 DEF Pgood
    <2> QED BY <2>2, <2>3, SettingKept
<1> QED BY <1>3, <1>4 DEF GateInv

\* The drop lasts as long as what it cut off: four edges from the last PGOOD.
LEMMA DropLasts ==
    ASSUME NEW m \in Nat, NEW x \in Nat, NEW y \in Nat, y <= x + 1
    PROVE  /\ m >= 4 /\ x <= 1 => y + 1 <= m /\ y + 2 <= m
           /\ x + 2 <= m => y + 1 <= m
OBVIOUS

LEMMA NextDrain ==
    ASSUME MIN_LOW >= 4, StrapAlone, TypeOK, BusInv, BusInv', RequestInv, PolicyInv,
           GateInv, DrainInv, Next
    PROVE  DrainInv'
<1> SUFFICES ASSUME boot_hold_r'
             PROVE  /\ bnd_req' = {} /\ bnd_done' = {} /\ sh_acked'[0] = NoAck
                    /\ Serving' =>
                          /\ Closing'
                          /\ state' = "LATCH" =>
                                /\ Watched'
                                /\ low' + (IF tcmw_busy' THEN 2 ELSE 1) <= MIN_LOW
    BY DEF DrainInv
<1>1. Closing
    BY GateDoes DEF BootGateEdge, Closing
<1>2. HartReset
    BY HartDoes DEF Held, Live
<1>3. bnd_req' = {} /\ bnd_done' = {} /\ sh_acked'[0] = NoAck
    BY <1>2, ApertureAssumption DEF HartReset
<1>4. low \in Nat /\ low' \in Nat /\ MIN_LOW \in Nat
    <2>1. MIN_LOW \in Nat /\ low \in Nat
        BY ApertureAssumption DEF TypeOK
    <2> QED BY <2>1 DEF Next, Pgood
<1>5. ASSUME Serving'
      PROVE  /\ Closing'
             /\ state' = "LATCH" => /\ Watched'
                                    /\ low' + (IF tcmw_busy' THEN 2 ELSE 1) <= MIN_LOW
    <2>1. Launches(0) \/ (Waits /\ cur = 0)
        BY <1>5, BusDoes DEF Launches, Waits, Completes, Rests, Serving
    <2>2. CASE Launches(0)
        <3>1. 0 \in bnd_req
            BY <2>2 DEF Launches, Req
        <3>2. Watched /\ low <= 1
            BY <1>1, <3>1 DEF GateInv, DrainInv
        <3>3. ~ tcmw_busy'
            BY <2>2 DEF Launches, BusInv
        <3>4. low < MIN_LOW
            BY <1>4, <3>2
        <3>5. Closing' /\ Watched' /\ low' <= low + 1
            BY <1>1, <3>2, <3>4, StaysClosed
        <3>6. low' + 1 <= MIN_LOW
            BY <1>4, <3>2, <3>5, DropLasts
        <3> QED BY <3>3, <3>5, <3>6
    <2>3. CASE Waits /\ cur = 0
        <3>1. Serving /\ state = "LATCH"
            BY <2>3 DEF Waits, Serving
        <3>2. CASE ~ boot_hold_r
            <4>1. Watched /\ low <= 1
                BY <1>1, <3>1, <3>2 DEF GateInv
            <4>2. low < MIN_LOW
                BY <1>4, <4>1
            <4>3. Closing' /\ Watched' /\ low' <= low + 1
                BY <1>1, <4>1, <4>2, StaysClosed
            <4>4. low' + 1 <= MIN_LOW /\ low' + 2 <= MIN_LOW
                BY <1>4, <4>1, <4>3, DropLasts
            <4> QED BY <4>3, <4>4
        <3>3. CASE boot_hold_r
            <4>1. Watched /\ low + (IF tcmw_busy THEN 2 ELSE 1) <= MIN_LOW
                BY <3>1, <3>3 DEF DrainInv
            <4>2. low < MIN_LOW
                BY <1>4, <4>1
            <4>3. Closing' /\ Watched' /\ low' <= low + 1
                BY <1>1, <4>1, <4>2, StaysClosed
            <4>4. tcmw_dark
                BY <3>3, ApertureAssumption
                DEF PolicyInv, TypeOK, target, tcmw_dark, tile_rstn, TargetRstn
            <4>5. ~ tcmw_busy'
                BY <4>4, DarkSilent DEF Next, Sequencer, Decide, Land, Abort, Wait, tcmw_launch
            <4>6. state' = "LATCH" => tcmw_busy
                BY <2>3, <4>4 DEF Waits, tcmw_stall, tcmw_launch
            <4>7. state' = "LATCH" => low' + 1 <= MIN_LOW
                BY <1>4, <4>1, <4>3, <4>6, DropLasts
            <4> QED BY <4>3, <4>5, <4>7
        <3> QED BY <3>2, <3>3
    <2> QED BY <2>1, <2>2, <2>3
<1> QED BY <1>3, <1>5

\* What the gate cut off is over when the gate opens.
LEMMA NextTripHeld ==
    ASSUME TypeOK, DrainInv, Next, Held, ~ boot_hold_r'
    PROVE  TripInv'
<1>1. boot_hold_r /\ ~ Closing
    BY GateDoes DEF Held, BootGateEdge, Closing
<1>2. bnd_req = {} /\ ~ Serving
    BY <1>1 DEF DrainInv
<1>3. 0 \notin bnd_req' /\ 0 \notin bnd_done'
    BY DEF Held, HartReset
<1>4. ~ Serving' /\ 0 \notin done'
    BY <1>2, BusDoes DEF Launches, Waits, Completes, Rests, Serving, Req
<1> QED BY <1>3, <1>4 DEF TripInv

LEMMA NextTripLive ==
    ASSUME TypeOK, AnswerInv, TripInv, Next, Live
    PROVE  TripInv'
<1>0. 0 \in Harts /\ ~ boot_hold_r
    BY ApertureAssumption DEF Live
<1>1. (\E m \in Masters : Launches(m)) \/ Waits \/ Completes \/ Rests
    BY BusDoes
<1>2. Still(0) \/ Moves(0)
    BY <1>0, CoreDoes DEF Live
<1>3. /\ 0 \in bnd_req' <=> sh_sel(0) /\ ~ ack_ok(0)
      /\ bnd_tx'[0] = Offer(0)
      /\ 0 \in bnd_done' <=> 0 \in done
      /\ bnd_rdata' = rdata
    BY <1>0 DEF Live, BoundaryOut, BoundaryIn
<1>4. ASSUME 0 \in bnd_req, ~ ack_ok(0)
      PROVE  /\ 0 \in bnd_req' /\ sh_sel(0)
             /\ data_addr(0)' = data_addr(0) /\ sh_sel(0)' /\ Offer(0)' = Offer(0)
             /\ ack_ok(0)' <=> 0 \in bnd_done
    <2>1. sh_sel(0)
        BY <1>0, <1>4 DEF TripInv
    <2>2. Still(0)
        BY <1>2, <1>4, <2>1 DEF Moves, mem_ready
    <2>3. ack_ok(0)' <=> ack_ok(0) \/ 0 \in bnd_done
        BY <1>0, <2>1, <2>2, StillAck DEF Live
    <2> QED BY <1>0, <1>3, <1>4, <2>1, <2>2, <2>3, StillWires
<1>5. 0 \in bnd_req' => /\ sh_sel(0)' /\ bnd_tx'[0] = Offer(0)'
                        /\ ack_ok(0)' => 0 \in need_release'
    <2> SUFFICES ASSUME 0 \in bnd_req'
                 PROVE  /\ sh_sel(0)' /\ bnd_tx'[0] = Offer(0)'
                        /\ ack_ok(0)' => 0 \in need_release'
        OBVIOUS
    <2>1. sh_sel(0) /\ ~ ack_ok(0)
        BY <1>3
    <2>2. Still(0)
        BY <1>2, <2>1 DEF Moves, mem_ready
    <2>3. sh_sel(0)' /\ Offer(0)' = Offer(0)
        BY <1>0, <2>1, <2>2, StillWires
    <2>4. ack_ok(0)' => 0 \in bnd_done
        BY <1>0, <2>1, <2>2, StillAck DEF Live
    <2>5. 0 \in bnd_done => 0 \in need_release'
        BY <1>0, <1>1 DEF TripInv, Req, Launches, Waits, Completes, Rests
    <2> QED BY <1>3, <2>3, <2>4, <2>5
<1>6. Serving' => /\ 0 \in bnd_req' /\ ~ ack_ok(0)' /\ s_tx' = Offer(0)'
                  /\ 0 \notin done' \cup bnd_done'
    <2> SUFFICES ASSUME Serving'
                 PROVE  /\ 0 \in bnd_req' /\ ~ ack_ok(0)' /\ s_tx' = Offer(0)'
                        /\ 0 \notin done' \cup bnd_done'
        OBVIOUS
    <2>1. Launches(0) \/ (Waits /\ cur = 0)
        BY <1>1 DEF Serving, Launches, Waits, Completes, Rests
    <2>2. CASE Launches(0)
        <3>1. 0 \in bnd_req /\ 0 \notin need_release
            BY <2>2 DEF Req, Launches
        <3>2. ~ ack_ok(0) /\ bnd_tx[0] = Offer(0) /\ 0 \notin done \cup bnd_done
            BY <1>0, <3>1 DEF TripInv
        <3>3. s_tx' = Offer(0) /\ done' = {}
            BY <2>2, <3>2 DEF Sent, Launches
        <3> QED BY <1>3, <1>4, <3>1, <3>2, <3>3
    <2>3. CASE Waits /\ cur = 0
        <3>1. 0 \in bnd_req /\ ~ ack_ok(0) /\ s_tx = Offer(0) /\ 0 \notin done \cup bnd_done
            BY <1>0, <2>3 DEF TripInv, Serving, Waits
        <3> QED BY <1>3, <1>4, <2>3, <3>1 DEF Waits
    <2> QED BY <2>1, <2>2, <2>3
<1>7. 0 \in done' => /\ 0 \in bnd_req' \cap need_release' /\ ~ ack_ok(0)'
                     /\ s_tx' = Offer(0)' /\ 0 \notin bnd_done'
    <2> SUFFICES ASSUME 0 \in done'
                 PROVE  /\ 0 \in bnd_req' \cap need_release' /\ ~ ack_ok(0)'
                        /\ s_tx' = Offer(0)' /\ 0 \notin bnd_done'
        OBVIOUS
    <2>1. Completes /\ cur = 0
        BY <1>1 DEF Launches, Waits, Completes, Rests
    <2>2. 0 \in bnd_req /\ ~ ack_ok(0) /\ s_tx = Offer(0) /\ 0 \notin done \cup bnd_done
        BY <1>0, <2>1 DEF TripInv, Serving, Completes
    <2> QED BY <1>3, <1>4, <2>1, <2>2 DEF Completes
<1>8. 0 \in bnd_done' => /\ 0 \in bnd_req' \cap need_release' /\ ~ ack_ok(0)'
                         /\ data_addr(0)' = Rom => bnd_rdata' = RomWord
    <2> SUFFICES ASSUME 0 \in bnd_done'
                 PROVE  /\ 0 \in bnd_req' \cap need_release' /\ ~ ack_ok(0)'
                        /\ data_addr(0)' = Rom => bnd_rdata' = RomWord
        OBVIOUS
    <2>1. 0 \in done
        BY <1>3
    <2>2. /\ 0 \in bnd_req \cap need_release /\ ~ ack_ok(0)
          /\ s_tx = Offer(0) /\ 0 \notin bnd_done
        BY <1>0, <2>1 DEF TripInv
    <2>3. 0 \in need_release'
        BY <1>1, <2>2 DEF Req, Launches, Waits, Completes, Rests
    <2>4. data_addr(0) = Rom => rdata = RomWord
        BY <1>4, <2>1, <2>2 DEF AnswerInv, Offer
    <2> QED BY <1>3, <1>4, <2>2, <2>3, <2>4
<1> QED BY <1>5, <1>6, <1>7, <1>8 DEF TripInv

LEMMA NextBoot ==
    ASSUME TypeOK, TripInv, ColdBoot, Next
    PROVE  ColdBoot'
<1>0. 0 \in Harts
    BY ApertureAssumption
<1>1. CASE Held
    BY <1>0, <1>1 DEF Held, HartReset, ColdBoot
<1>2. CASE Live
    <2>1. Handshake /\ ~ boot_hold_r
        BY <1>2 DEF Live
    <2>2. 0 \in bnd_done /\ data_addr(0) = Rom => bnd_rdata = RomWord
        BY <2>1 DEF TripInv
    <2> QED BY <1>0, <2>1, <2>2 DEF Handshake, ColdBoot
<1> QED BY <1>1, <1>2, HartDoes

BootInv == PolicyInv /\ GateInv /\ DrainInv /\ TripInv /\ ColdBoot

LEMMA InitBoot == Init => BootInv
<1> SUFFICES ASSUME Init PROVE BootInv OBVIOUS
<1>1. PolicyInv /\ GateInv /\ DrainInv
    BY DEF Init, ArbInit, PwrInit, TileInit, PolicyInv, GateInv, DrainInv
<1>2. TripInv
    BY DEF Init, ArbInit, TileInit, TripInv, Serving
<1>3. ColdBoot
    BY ApertureAssumption DEF Init, TileInit, ColdBoot
<1> QED BY <1>1, <1>2, <1>3 DEF BootInv

LEMMA StepBoot ==
    ASSUME SelfUngated, StrapAlone, MIN_LOW >= 4, ReadInv, ReadInv', BootInv, [Next]_vars
    PROVE  BootInv'
<1> USE DEF ReadInv, TypeInv, BootInv
<1>1. CASE Next
    <2>1. PolicyInv'
        BY <1>1, NextPolicy
    <2>2. GateInv'
        BY <1>1, NextGate
    <2>3. DrainInv'
        BY <1>1, NextDrain
    <2>4. TripInv'
        <3>1. CASE boot_hold_r'
            BY <3>1 DEF TripInv
        <3>2. CASE ~ boot_hold_r'
            BY <1>1, <3>2, HartDoes, NextTripHeld, NextTripLive
        <3> QED BY <3>1, <3>2
    <2>5. ColdBoot'
        BY <1>1, NextBoot
    <2> QED BY <2>1, <2>2, <2>3, <2>4, <2>5
<1>2. CASE UNCHANGED vars
    <2> USE <1>2 DEF vars, arbVars, tileVars, pwrVars, apVars
    <2>1. Closing' = Closing /\ Watched' = Watched /\ Serving' = Serving
        BY DEF Closing, Watched, Effective, Harvest, Released, Serving
    <2>2. PolicyInv' /\ GateInv' /\ DrainInv'
        BY <2>1 DEF PolicyInv, GateInv, DrainInv, target
    <2>3. ack_ok(0)' = ack_ok(0) /\ Offer(0)' = Offer(0) /\ sh_sel(0)' = sh_sel(0)
          /\ data_addr(0)' = data_addr(0)
        BY DEF ack_ok, Offer, sh_sel, data_addr, we_lanes, Addressing, Writing, LocalOk
    <2>4. TripInv' /\ ColdBoot'
        BY <2>1, <2>3 DEF TripInv, ColdBoot
    <2> QED BY <2>2, <2>4
<1> QED BY <1>1, <1>2

----------------------------------------------------------------------------

\* No floating signal reaches the fabric (pwr_ctrl.vhd:283-338), for any number
\* of tiles, any T_SEQ and T_RAIL, and whatever is written to PWRCR when.
THEOREM RailsSafe == Spec => []RailSafe
<1>1. SequencerInv => RailSafe
    <2> SUFFICES ASSUME SequencerInv, NEW t \in Tiles
                 PROVE  /\ ~ domain[t].iso => ~ domain[t].slp /\ rail_age[t] = T_RAIL
                        /\ domain[t].slp => ~ domain[t].rstn
                        /\ domain[t].rstn => rail_age[t] = T_RAIL
        BY DEF RailSafe
    <2>1. domain[t].st \in {"ON", "ISO", "RSTOFF", "OFF", "RAIL", "UNISO"}
          /\ Consistent(domain[t], rail_age[t])
        BY DEF SequencerInv, Domains
    <2> QED BY <2>1 DEF Consistent
<1> QED BY <1>1, Invariance, PTL

\* While the core is frozen its read bus does not change (hart_tile.vhd:767-803),
\* whatever the external side reads and however long the core stays frozen.
THEOREM CoreNeverDisturbed == Spec => []CoreUndisturbed
<1>1. PortInv => CoreUndisturbed
    BY DEF PortInv
<1> QED BY <1>1, Invariance, PTL

\* Every register keeps to its type, hart 0's among them, whatever hart 0 runs
\* and whenever its reset falls (MCU.vhd, hart_tile.vhd, pwr_ctrl.vhd).
THEOREM ApertureTyped == Spec => []TypeOK
<1>1. ReadInv => TypeOK
    BY DEF ReadInv, TypeInv
<1> QED BY <1>1, ReadInvariance, PTL

\* A window read brings the target's own word, or zero if the target was dark at
\* some time during it, never the word of an earlier read (MCU.vhd:4594): for
\* any number of tiles and any TCM, whoever gates the target or pulls its reset
\* and when.
THEOREM ReadsTruthfulHolds == Spec => []ReadsTruthful
<1>1. ReadInv => ReadsTruthful
    BY AnswersTruthful DEF ReadInv
<1> QED BY <1>1, ReadInvariance, PTL

\* The bus cannot hang on the aperture (MCU.vhd:624): on every board on which
\* hart 0 does not read its own TCM under a boot gate, no read holds the arbiter
\* for more than seven edges, whatever happens to the target meanwhile.
THEOREM StallBoundedHolds ==
    ASSUME SelfUngated, MAX_STALL >= 7
    PROVE  Spec => []StallBounded
<1>1. StallInv => StallBounded
    BY ApertureAssumption DEF StallInv, StallBounded
<1> QED BY <1>1, Stalls, PTL

\* Every release of the boot gate is a clean cold boot (pwr_ctrl.vhd:274), on a
\* board whose PWRWAKE is left alone if it is strapped and on which hart 0 does
\* not read its own TCM under a boot gate, if a drop of PGOOD lasts four edges.
THEOREM ColdBootHolds ==
    ASSUME SelfUngated, StrapAlone, MIN_LOW >= 4
    PROVE  Spec => []ColdBoot
<1>1. ReadInv /\ ReadInv' /\ BootInv /\ [Next]_vars => BootInv'
    BY StepBoot
<1>2. BootInv => ColdBoot
    BY DEF BootInv
<1> QED BY <1>1, <1>2, InitBoot, ReadInvariance, PTL DEF Spec
=============================================================================
