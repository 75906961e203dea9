------------------------------- MODULE PwrCtrl -------------------------------
(***************************************************************************)
(* The power controller, hdl/common/pwr_ctrl.vhd: one sequencer per        *)
(* gateable tile, the one-shot strap sampler and the boot gate that holds  *)
(* every hart in reset.  PwrEdge is one rising edge of mclk; its           *)
(* parameters are what the register file holds after this edge's bus write *)
(* and task-wake pulse, and the synchronized pad levels at this edge.      *)
(***************************************************************************)
EXTENDS Integers

CONSTANTS Tiles,         \* the gateable tiles
          T_SEQ, T_RAIL, \* the sequencer's two waits
          STRAP_SETTLE   \* edges from reset to the strap sample

ASSUME PwrAssumption == {T_SEQ, T_RAIL, STRAP_SETTLE} \subseteq Nat

VARIABLES
    domain,        \* per tile: sequencer state, its counter and its three outputs
    gate_req,      \* the tiles whose PWRCR bit is set
    wake_cr,       \* PWRWAKE's set bits
    strap,         \* strap sampler: counter, valid, sampled
    rls_latch,     \* sticky release
    boot_hold_r,   \* the boot gate: every hart held in reset
    rail_age       \* history: edges each tile's rail has been on, up to T_RAIL

pwrVars == << domain, gate_req, wake_cr, strap, rls_latch, boot_hold_r, rail_age >>

Policy == {"arm", "rlsPgood", "rlsField", "swRelease", "rehold"}

PwrTypeOK ==
    /\ domain \in [Tiles -> [st : {"ON", "ISO", "RSTOFF", "OFF", "RAIL", "UNISO"},
                             cnt : 0 .. T_SEQ + T_RAIL,
                             iso : BOOLEAN, slp : BOOLEAN, rstn : BOOLEAN]]
    /\ gate_req \subseteq Tiles
    /\ wake_cr \subseteq Policy
    /\ strap \in [cnt : 0 .. STRAP_SETTLE, valid : BOOLEAN, sampled : BOOLEAN]
    /\ rls_latch \in BOOLEAN
    /\ boot_hold_r \in BOOLEAN
    /\ rail_age \in [Tiles -> 0 .. T_RAIL]

\* Reset leaves every tile on and the boot gate open.
PwrInit ==
    /\ domain = [t \in Tiles |->
          [st |-> "ON", cnt |-> 0, iso |-> FALSE, slp |-> FALSE, rstn |-> TRUE]]
    /\ gate_req = {}
    /\ strap = [cnt |-> 0, valid |-> FALSE, sampled |-> FALSE]
    /\ rls_latch = FALSE
    /\ boot_hold_r = FALSE
    /\ rail_age = [t \in Tiles |-> T_RAIL]

----------------------------------------------------------------------------

\* A transient state whose counter is still running.
Counting(d) == d.st \notin {"ON", "OFF"} /\ d.cnt > 0

\* Mutant: the rail-up does not load its counter.
Sequenced_NoRailWait(d, gate) ==
    IF Counting(d) THEN [d EXCEPT !.cnt = @ - 1]
    ELSE CASE d.st = "ON" ->
                 IF gate THEN [d EXCEPT !.st = "ISO", !.iso = TRUE, !.cnt = T_SEQ] ELSE d
           [] d.st = "ISO"    -> [d EXCEPT !.st = "RSTOFF", !.rstn = FALSE, !.cnt = T_SEQ]
           [] d.st = "RSTOFF" -> [d EXCEPT !.st = "OFF", !.slp = TRUE]
           [] d.st = "OFF" ->
                 IF gate THEN d ELSE [d EXCEPT !.st = "RAIL", !.slp = FALSE]
           [] d.st = "RAIL"   -> [d EXCEPT !.st = "UNISO", !.iso = FALSE, !.cnt = T_SEQ]
           [] d.st = "UNISO"  -> [d EXCEPT !.st = "ON", !.rstn = TRUE]

\* One edge of a tile's sequencer.  The gate bit is looked at in the two
\* resting states only; a sequence once begun runs to its end.
Sequenced(d, gate) ==
    IF Counting(d) THEN [d EXCEPT !.cnt = @ - 1]
    ELSE CASE d.st = "ON" ->
                 IF gate THEN [d EXCEPT !.st = "ISO", !.iso = TRUE, !.cnt = T_SEQ] ELSE d
           [] d.st = "ISO"    -> [d EXCEPT !.st = "RSTOFF", !.rstn = FALSE, !.cnt = T_SEQ]
           [] d.st = "RSTOFF" -> [d EXCEPT !.st = "OFF", !.slp = TRUE]
           [] d.st = "OFF" ->
                 IF gate THEN d ELSE [d EXCEPT !.st = "RAIL", !.slp = FALSE, !.cnt = T_RAIL]
           [] d.st = "RAIL"   -> [d EXCEPT !.st = "UNISO", !.iso = FALSE, !.cnt = T_SEQ]
           [] d.st = "UNISO"  -> [d EXCEPT !.st = "ON", !.rstn = TRUE]

SequencerEdge ==
    /\ domain' = [t \in Tiles |-> Sequenced(domain[t], t \in gate_req)]
    /\ rail_age' = [t \in Tiles |->
          IF domain'[t].slp THEN 0
          ELSE IF domain[t].slp \/ rail_age[t] = T_RAIL THEN rail_age[t]
          ELSE rail_age[t] + 1]

\* The strap is sampled once, STRAP_SETTLE edges after reset.
StrapEdge(strap_s2) ==
    strap' = IF strap.valid THEN strap
             ELSE IF strap.cnt = STRAP_SETTLE
                  THEN [strap EXCEPT !.valid = TRUE, !.sampled = strap_s2]
             ELSE [strap EXCEPT !.cnt = @ + 1]

\* A harvested board's strap stands for three of PWRWAKE's bits.
Harvest == IF strap.valid /\ strap.sampled THEN {"arm", "rlsPgood", "rehold"} ELSE {}

Effective == wake_cr \cup Harvest

\* rls_now: some enabled release source is active.
Released(pgood_s2, field_s2) ==
    \/ "swRelease" \in wake_cr
    \/ "rlsPgood" \in Effective /\ pgood_s2
    \/ "rlsField" \in wake_cr /\ field_s2

\* With rehold the hold tracks the live condition, else the first release is final.
BootGateEdge(pgood_s2, field_s2) ==
    LET now == Released(pgood_s2, field_s2)
    IN  /\ rls_latch' = (rls_latch \/ now)
        /\ boot_hold_r' =
              ("arm" \in Effective /\ ~ now /\ ("rehold" \in Effective \/ ~ rls_latch))

PwrEdge(gates, wake, pgood_s2, field_s2, strap_s2) ==
    /\ gate_req' = gates
    /\ wake_cr' = wake
    /\ SequencerEdge
    /\ StrapEdge(strap_s2)
    /\ BootGateEdge(pgood_s2, field_s2)

----------------------------------------------------------------------------

\* No floating signal reaches the fabric: a tile's clamps are open only while
\* its rail is on and has been for T_RAIL edges, and an unpowered tile is in
\* reset -- whatever the gate bit did in the middle of a sequence.
RailSafe ==
    \A t \in Tiles :
       /\ ~ domain[t].iso => ~ domain[t].slp /\ rail_age[t] = T_RAIL
       /\ domain[t].slp => ~ domain[t].rstn
       /\ domain[t].rstn => rail_age[t] = T_RAIL
=============================================================================
