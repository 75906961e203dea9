------------------------------ MODULE Aperture ------------------------------
(***************************************************************************)
(* The TCM aperture: hart 0 reads a tile's private TCM through the shared  *)
(* window while tiles are gated and woken and the boot gate holds and      *)
(* releases the harts (MCU.vhd).  It composes the arbiter, hart 0's tile,  *)
(* the target tile's external port, the power controller and the sequencer *)
(* that joins them -- the only slave that stalls the arbiter.              *)
(*                                                                         *)
(* Master 0 is hart 0; master 1 is any other well-behaved master that      *)
(* no reset reaches but the chip's (a DMA, say).  One target is modelled:  *)
(* hart 0 itself (target 0) or a gateable tile whose core uses its own TCM *)
(* at will.  One step is one rising edge of mclk.                          *)
(***************************************************************************)
EXTENDS MpArbiter, HartTile, PwrCtrl, TcmPort

CONSTANTS Rom, Pwr,     \* the boot ROM's first word and PWRCR
          RomWord,      \* the word at Rom
          Boards,       \* the instances: target, strap pad and PWRWAKE setting
          MIN_LOW,      \* bound: edges a PGOOD drop lasts at least
          MAX_STALL     \* the edges a window read may hold the arbiter

\* A window word and the TCM word behind it have one name.
Wins == Addrs \cap TcmAddrs

ASSUME ApertureAssumption ==
    /\ Masters = {0, 1} /\ Harts = {0}
    /\ Rom \in CodeAddrs /\ Addrs = CodeAddrs \cup {Pwr} \cup Wins
    /\ CodeAddrs \cap Wins = {} /\ RomWord \in Words /\ NoAck \notin Tx
    /\ Boards \subseteq [target : {0} \cup Tiles, strap : BOOLEAN, wake : SUBSET Policy]
    /\ {MIN_LOW, MAX_STALL} \subseteq Nat

VARIABLES
    board,       \* which instance this is
    pgood_s2,    \* the synchronized PGOOD level
    low,         \* edges it has been low and looked at, up to MIN_LOW
    other,       \* the other master's pending transaction, or NoAck
    rd_win,      \* the registered read select: is it the aperture's turn?
    rd_word,     \* the other slaves' registered read
    tcmw_busy,   \* a request to the target is in flight (tcm_ext_req is high)
    tcm_ext_addr, tcmw_rdata,
    was_dark,    \* history: the target was dark at some time in hart 0's last window read
    stalled      \* history: for how many edges the arbiter has been stalled

apVars == << board, pgood_s2, low, other, rd_win, rd_word, tcmw_busy,
             tcm_ext_addr, tcmw_rdata, was_dark, stalled >>

vars == << arbVars, tileVars, pwrVars, portVars, apVars >>

target == board.target

----------------------------------------------------------------------------
(* Resets and clamps *)

hart0_rstn == ~ boot_hold_r

TargetRstn(hold, dom) == ~ hold /\ (target \in Tiles => dom[target].rstn)

tile_rstn == TargetRstn(boot_hold_r, domain)

Clamped == target \in Tiles /\ domain[target].iso

\* Mutant: the boot gate's share of a tile's reset is forgotten.
tcmw_dark_PdOnly == target \in Tiles /\ (Clamped \/ ~ domain[target].rstn)

\* Hart 0 has no domain and is never dark.
tcmw_dark == target \in Tiles /\ (Clamped \/ ~ tile_rstn)

----------------------------------------------------------------------------
(* The sequencer *)

Addressed == s_en /\ s_tx.addr \in Wins

tcmw_launch == Addressed /\ s_tx.we = {} /\ s_master = 0 /\ ~ tcmw_dark

tcmw_stall == tcmw_launch \/ tcmw_busy

\* One decision per access; a refused one answers zero.
Decide ==
    /\ ~ tcmw_busy /\ Addressed
    /\ tcm_ext_addr' = s_tx.addr
    /\ tcmw_rdata' = Word0
    /\ tcmw_busy' = tcmw_launch

\* The target's answer, through its clamps.
ext_done == tx_done_r /\ ~ Clamped

Land ==
    /\ tcmw_busy /\ ext_done
    /\ tcmw_rdata' = tx_rdata_r
    /\ tcmw_busy' = FALSE
    /\ UNCHANGED tcm_ext_addr

\* The target went dark with the request in flight: its done will never come.
Abort ==
    /\ tcmw_busy /\ ~ ext_done /\ tcmw_dark
    /\ tcmw_rdata' = Word0
    /\ tcmw_busy' = FALSE
    /\ UNCHANGED tcm_ext_addr

Wait ==
    /\ IF tcmw_busy THEN ~ ext_done /\ ~ tcmw_dark ELSE ~ Addressed
    /\ UNCHANGED << tcm_ext_addr, tcmw_rdata, tcmw_busy >>

\* Mutant: a refused access leaves the last answer standing.
Sequencer_Stale ==
    \/ ~ tcmw_busy /\ Addressed /\ tcm_ext_addr' = s_tx.addr
          /\ tcmw_busy' = tcmw_launch /\ UNCHANGED tcmw_rdata
    \/ Land \/ Abort \/ Wait

\* Mutant: nobody answers for a target that went dark.
Sequencer_NoAbort ==
    \/ Decide \/ Land
    \/ Wait
    \/ tcmw_busy /\ ~ ext_done /\ tcmw_dark
          /\ UNCHANGED << tcm_ext_addr, tcmw_rdata, tcmw_busy >>

Sequencer == Decide \/ Land \/ Abort \/ Wait

Histories ==
    /\ was_dark' = (tcmw_dark \/ (was_dark /\ ~ (Addressed /\ s_master = 0)))
    /\ stalled' = IF ~ tcmw_stall THEN 0
                  ELSE IF stalled > MAX_STALL THEN stalled ELSE stalled + 1

\* The read mux: registered selects and registered words, but the aperture's
\* word is looked at when it is used.
ReadMux ==
    IF s_en THEN rd_win' = (s_tx.addr \in Wins)
                 /\ rd_word' = IF s_tx.addr = Rom THEN RomWord ELSE Word0
    ELSE UNCHANGED << rd_win, rd_word >>

sh_rdata_mux == IF rd_win THEN tcmw_rdata ELSE rd_word

----------------------------------------------------------------------------
(* The environment *)

Watched == "rlsPgood" \in Effective

\* PGOOD comes and goes once somebody looks at it; a drop lasts, and so does the
\* absence that the strap's sample finds.
Pgood ==
    /\ pgood_s2' \in IF Watched THEN BOOLEAN ELSE {pgood_s2}
    /\ low' = IF pgood_s2' \/ ~ Watched THEN 0
              ELSE IF low = MIN_LOW THEN low ELSE low + 1
    /\ ~ pgood_s2 /\ pgood_s2' => low = MIN_LOW

\* The other master reads the window, or writes zeros or ones to PWRCR; it holds
\* its request until it sees its done.
OtherMaster ==
    IF other = NoAck
    THEN other' \in {NoAck} \cup
             [we : {{}}, addr : Wins, wdata : {Word0}] \cup
             [we : {Lanes}, addr : {Pwr}, wdata : {Word0, RomWord}]
    ELSE other' = IF 1 \in done THEN NoAck ELSE other

\* The gate bits after this edge's bus write and task-wake pulse.
Gates(task) ==
    (IF s_en /\ s_tx.addr = Pwr /\ s_tx.we # {}
     THEN IF s_tx.wdata = Word0 THEN {} ELSE Tiles
     ELSE gate_req) \ task

----------------------------------------------------------------------------

Bus ==
    ArbEdge(bnd_req \cup (IF other = NoAck THEN {} ELSE {1}),
            [m \in Masters |-> IF m = 0 THEN bnd_tx[0]
                               ELSE IF other = NoAck THEN bnd_tx[0] ELSE other],
            bnd_lock, tcmw_stall, sh_rdata_mux)

\* The core in reset presents the boot fetch.
Boot == [st |-> "EXECUTE", op |-> "alu", addr |-> Priv, lanes |-> {},
         wdata |-> Word0, fetch |-> Rom]

HartReset ==
    /\ core' = [h \in Harts |-> Boot]
    /\ lres' = [h \in Harts |-> NoAddr]
    /\ read_bus' = [h \in Harts |-> Priv]
    /\ bnd_req' = {}
    /\ bnd_tx' = [h \in Harts |-> [we |-> {}, addr |-> Addr0, wdata |-> Word0]]
    /\ bnd_lrsc' = [h \in Harts |-> "none"]
    /\ bnd_lock' = {}
    /\ bnd_done' = {}
    /\ bnd_rdata' = Word0
    /\ bnd_scfail' = {}
    /\ sh_acked' = [h \in Harts |-> NoAck]
    /\ sh_rdata_reg' = [h \in Harts |-> Word0]
    /\ sh_scfail' = {}
    /\ holds' = [h \in Harts |-> {}]
    /\ UNCHANGED mix

\* Hart 0's clock runs when its window access is acked and nobody reads its TCM.
Runs0 == mem_ready(0) /\ (target = 0 => ~ tx_busy)

\* Asynchronous: in reset before the edge or just after it.
Hart0(moving) ==
    IF ~ hart0_rstn \/ boot_hold_r' THEN moving = {} /\ HartReset
    ELSE /\ BoundaryOut
         /\ BoundaryIn(done \cap Harts, rdata, {})
         /\ Handshake
         /\ \E begin \in SUBSET moving : \E new \in [begin -> Instructions] :
               CoreEdge(moving, begin, new)

\* What the target's core does at this edge.
UseOfTcm(moving, use) ==
    IF target = 0 THEN use \in (IF data_addr(0) = Priv /\ ~ Writing(0) THEN TcmAddrs ELSE {NoRead})
    ELSE use \in TcmAddrs \cup {NoRead}

Port(moving) ==
    IF ~ tile_rstn \/ ~ TargetRstn(boot_hold_r', domain') THEN PortReset
    ELSE \E core_edge \in IF target = 0 THEN {moving # {}} ELSE {FALSE, ~ tx_busy} :
         \E use \in TcmAddrs \cup {NoRead} :
            /\ core_edge \/ use = NoRead
            /\ core_edge => UseOfTcm(moving, use)
            /\ PortEdge(tcmw_busy, tcm_ext_addr, core_edge, use)

Init ==
    /\ board \in Boards
    /\ ArbInit /\ TileInit /\ PwrInit /\ PortInit
    /\ core = [h \in Harts |-> Boot]
    /\ wake_cr = board.wake
    /\ pgood_s2 \in {TRUE, ~ board.strap}
    /\ low = 0
    /\ other = NoAck
    /\ rd_win = FALSE
    /\ rd_word = Word0
    /\ tcmw_busy = FALSE
    /\ tcm_ext_addr = ResetAddr
    /\ tcmw_rdata = Word0
    /\ was_dark = FALSE
    /\ stalled = 0

Next ==
    /\ UNCHANGED board
    /\ Pgood
    /\ OtherMaster
    /\ Bus
    /\ Sequencer
    /\ Histories
    /\ ReadMux
    /\ \E task \in SUBSET gate_req : PwrEdge(Gates(task), wake_cr, pgood_s2, FALSE, board.strap)
    /\ \E moving \in {{}} \cup (IF Runs0 THEN {{0}} ELSE {}) : Hart0(moving) /\ Port(moving)

Spec == Init /\ [][Next]_vars

----------------------------------------------------------------------------

TypeOK ==
    /\ ArbTypeOK /\ TileTypeOK /\ PwrTypeOK /\ PortTypeOK
    /\ board \in Boards
    /\ pgood_s2 \in BOOLEAN
    /\ low \in 0 .. MIN_LOW
    /\ other \in {NoAck} \cup Tx
    /\ rd_win \in BOOLEAN
    /\ rd_word \in Words
    /\ tcmw_busy \in BOOLEAN
    /\ tcm_ext_addr \in TcmAddrs
    /\ tcmw_rdata \in Words
    /\ was_dark \in BOOLEAN
    /\ stalled \in 0 .. MAX_STALL + 1

\* A completed window read brings hart 0 the target's own word, or zero if the
\* target was dark at some time during it, and anybody else zero: never the
\* word of an earlier read (MCU.vhd:4594).
ReadsTruthful ==
    \A m \in done : s_tx.addr \in Wins /\ s_tx.we = {} =>
       IF m = 0 THEN rdata = Tcm[s_tx.addr] \/ (was_dark /\ rdata = Word0)
       ELSE rdata = Word0

\* Every release of the boot gate is a clean cold boot: what hart 0 takes for
\* the word at its reset vector is the ROM's word (pwr_ctrl.vhd:274).
ColdBoot ==
    sh_acked[0] # NoAck /\ sh_acked[0].addr = Rom => sh_rdata_reg[0] = RomWord

\* The bus cannot hang on the aperture: a read holds the arbiter no longer than
\* MAX_STALL edges, whatever happens to its target meanwhile: its strobe's own
\* and the six of the request to the tile (MCU.vhd:624, hart_tile.vhd:696).
StallBounded == stalled <= MAX_STALL
=============================================================================
