------------------------------- MODULE TcmPort -------------------------------
(***************************************************************************)
(* One tile's TCM and its external read port (hart_tile.vhd): the request's*)
(* boundary register, the four-state sequencer on the free-running clock,  *)
(* the stall it raises for the core, and the shadow that keeps the core's  *)
(* own word on its read bus while the array answers somebody else.         *)
(*                                                                         *)
(* PortEdge is one rising edge of mclk.  core_edge says whether the core   *)
(* gets a clk_cpu edge with it, use which word its cycle reads (NoRead:    *)
(* none).  The contents are fixed: the external side cannot write, and     *)
(* what the core writes is left out.                                       *)
(***************************************************************************)
EXTENDS BusTypes

CONSTANTS TcmAddrs,   \* words of the TCM
          Tcm,        \* their contents
          NoRead      \* no word: the core's cycle reads no TCM word

ASSUME TcmAssumption ==
    /\ TcmAddrs # {} /\ Tcm \in [TcmAddrs -> Words]
    /\ NoRead \notin Words \cup TcmAddrs

VARIABLES
    tx_req_r, tx_addr_r,              \* inbound boundary stage
    tx_state, tx_sel, tx_served,      \* sequencer, mux select, one-shot
    tx_rdata_r, tx_done_r,            \* outbound value-with-pulse pair
    tcm_q,                            \* the array's output
    tcm_q_shadow, tcm_q_hold,         \* the shadow; arm and ack differ
    owed        \* history: the word of the core's last read, until its next edge

portVars == << tx_req_r, tx_addr_r, tx_state, tx_sel, tx_served, tx_rdata_r,
               tx_done_r, tcm_q, tcm_q_shadow, tcm_q_hold, owed >>

PortTypeOK ==
    /\ tx_req_r \in BOOLEAN
    /\ tx_addr_r \in TcmAddrs
    /\ tx_state \in {"IDLE", "SETTLE", "READ", "LATCH"}
    /\ tx_sel \in BOOLEAN
    /\ tx_served \in BOOLEAN
    /\ tx_rdata_r \in Words
    /\ tx_done_r \in BOOLEAN
    /\ tcm_q \in Words
    /\ tcm_q_shadow \in Words
    /\ tcm_q_hold \in BOOLEAN
    /\ owed \in Words \cup {NoRead}

\* The address the registers reset to, whatever it is.
ResetAddr == CHOOSE a \in TcmAddrs : TRUE

PortInit ==
    /\ tx_req_r = FALSE
    /\ tx_addr_r = ResetAddr
    /\ tx_state = "IDLE"
    /\ tx_sel = FALSE
    /\ tx_served = FALSE
    /\ tx_rdata_r = Word0
    /\ tx_done_r = FALSE
    /\ tcm_q = Word0
    /\ tcm_q_shadow = Word0
    /\ tcm_q_hold = FALSE
    /\ owed = NoRead

----------------------------------------------------------------------------

\* Raw or delayed: it leads and lags the mux switch.
tx_busy == tx_req_r \/ tx_sel

\* The core's view of its TCM.
mem_dout == IF tcm_q_hold THEN tcm_q_shadow ELSE tcm_q

\* The request is one-shot: served until it has been seen low.
SequencerStep ==
    LET start == tx_state = "IDLE" /\ tx_req_r /\ ~ tx_served
    IN  /\ tx_state' = CASE tx_state = "SETTLE" -> "READ"
                         [] tx_state = "READ"   -> "LATCH"
                         [] tx_state = "LATCH"  -> "IDLE"
                         [] OTHER -> IF start THEN "SETTLE" ELSE "IDLE"
        /\ tx_sel' = (start \/ tx_state \in {"SETTLE", "READ"})
        /\ tx_done_r' = (tx_state = "LATCH")
        /\ tx_rdata_r' = IF tx_state = "LATCH" THEN tcm_q ELSE tx_rdata_r
        /\ tx_served' = (tx_req_r /\ (tx_served \/ tx_state = "LATCH"))

\* The array's clock comes from whichever side the mux selects.
ArrayEdge(core_edge, use) ==
    tcm_q' = IF tx_sel THEN IF tx_state = "READ" THEN Tcm[tx_addr_r] ELSE tcm_q
             ELSE IF core_edge /\ use # NoRead THEN Tcm[use] ELSE tcm_q

\* Mutant: the hold is let go when the port is idle again, core edge or not.
ShadowEdge_Timed(core_edge) ==
    /\ tcm_q_hold' = tx_busy
    /\ tcm_q_shadow' = IF tcm_q_hold THEN tcm_q_shadow ELSE tcm_q

\* Armed by the stall unless it is up already, disarmed by a core edge only;
\* the shadow tracks the array's output while it is not the one shown.
ShadowEdge(core_edge) ==
    /\ tcm_q_hold' = IF tcm_q_hold THEN ~ core_edge ELSE tx_busy
    /\ tcm_q_shadow' = IF tcm_q_hold THEN tcm_q_shadow ELSE tcm_q

PortEdge(req, addr, core_edge, use) ==
    /\ tx_req_r' = req
    /\ tx_addr_r' = addr
    /\ SequencerStep
    /\ ArrayEdge(core_edge, use)
    /\ ShadowEdge(core_edge)
    /\ owed' = IF ~ core_edge THEN owed ELSE IF use = NoRead THEN NoRead ELSE Tcm[use]

\* The tile's reset; the array's output is not a register of the tile.
PortReset ==
    /\ tx_req_r' = FALSE
    /\ tx_addr_r' = ResetAddr
    /\ tx_state' = "IDLE"
    /\ tx_sel' = FALSE
    /\ tx_served' = FALSE
    /\ tx_rdata_r' = Word0
    /\ tx_done_r' = FALSE
    /\ tcm_q_shadow' = Word0
    /\ tcm_q_hold' = FALSE
    /\ owed' = NoRead
    /\ UNCHANGED tcm_q

----------------------------------------------------------------------------

\* While the core is frozen its read bus does not change: from the edge that
\* reads a TCM word until the core's next edge it sees that word, whatever the
\* external side reads in between and however long the core stays frozen
\* (hart_tile.vhd:769).
CoreUndisturbed == owed # NoRead => mem_dout = owed
=============================================================================
