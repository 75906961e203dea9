---------------------------- MODULE SharedWindow ----------------------------
(***************************************************************************)
(* The shared window: N hart tiles, the arbiter, the reservation unit and  *)
(* the slaves, wired as MCU.vhd wires them.  All of them run on mclk, so   *)
(* one step is one rising edge at which every register moves together;     *)
(* what interleaves is the harts' programs, each with its own choice of    *)
(* instruction, of when its core clock runs, and of when it is interrupted.*)
(***************************************************************************)
EXTENDS MpArbiter, ResvUnit, SharedSlaves, HartTile

ASSUME OnlyHarts == Harts = Masters      \* every master of this model is a hart

vars == << arbVars, resvVars, slaveVars, tileVars >>

\* Everything but the cores.
fabricVars == << arbVars, resvVars, slaveVars, bnd_req, bnd_tx, bnd_lrsc, bnd_lock,
                 bnd_done, bnd_rdata, bnd_scfail, sh_acked, sh_rdata_reg, sh_scfail >>

TypeOK == ArbTypeOK /\ ResvTypeOK /\ SlaveTypeOK /\ TileTypeOK

Init == ArbInit /\ ResvInit /\ SlaveInit /\ TileInit

\* The wiring; no slave of this model stalls (the TCM apertures do).
Fabric ==
    /\ ArbEdge(bnd_req, bnd_tx, bnd_lock, FALSE, s_rdata)
    /\ ResvEdge(s_en, gnt, bnd_lrsc, s_tx.we, s_tx.addr)
    /\ SlaveEdge(s_en, GatedLanes(gnt, bnd_lrsc, s_tx.we, s_tx.addr),
                 s_tx.addr, s_tx.wdata, s_master)
    /\ BoundaryOut
    /\ BoundaryIn(done, rdata, sc_fail)
    /\ Handshake

\* Any of the unfrozen harts get a core clock edge; of those, some start an
\* instruction (or an interrupt), the others go on with theirs.
Cores ==
    \E moving \in SUBSET {h \in Harts : mem_ready(h)} :
    \E begin \in SUBSET moving :
    \E new \in [begin -> Instructions] : CoreEdge(moving, begin, new)

Next == Fabric /\ Cores

Spec == Init /\ [][Next]_vars

\* In the middle of an instruction, with no access to wait for.
Ready(h) == mem_ready(h) /\ ~ Retiring(h)

\* mclk never stops, and a hart that is ready is not denied its core clock for
\* ever: a TCM read through its external port ends, a sleeper wakes.
Fairness ==
    /\ WF_fabricVars(Fabric)
    /\ \A h \in Harts : []<> ~ Ready(h)

FairSpec == Spec /\ Fairness

----------------------------------------------------------------------------

\* The bus is working on hart h's transaction, or its done is on the way back.
InFlight(h) == state \in {"LATCH", "DATA"} /\ cur = h
Answered(h) == h \in done \cup bnd_done

\* No ghosts: whatever the bus does for a hart is the very access that hart is
\* frozen on, tag included, and it is done once.  A stale request picked again
\* (mp_arbiter.vhd:60-61) or a core moving mid-transaction would break this.
NoGhost ==
    \A h \in Harts :
       /\ InFlight(h) \/ Answered(h) => sh_sel(h) /\ ~ ack_ok(h)
       /\ InFlight(h) => s_tx = Offer(h) /\ bnd_lrsc[h] = lr_sc_bus(h)
       /\ ~ (InFlight(h) /\ Answered(h)) /\ ~ (h \in done /\ h \in bnd_done)

\* A mutex has at most one holder, and the bank names it: reading zero and
\* claiming are one transaction.
MutexExclusive ==
    \A h \in Harts : \A a \in holds[h] :
       /\ mem[a] = OwnerWord(h)
       /\ \A g \in Harts \ {h} : a \notin holds[g]

\* Whatever access a frozen core waits for is eventually acknowledged, whoever
\* else holds the bus or locks it.
AccessAnswered == \A h \in Harts : sh_sel(h) /\ ~ ack_ok(h) ~> ack_ok(h)
=============================================================================
