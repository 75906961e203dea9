# VestaRV in TLA+

TLA+ models of VestaRV where actors meet: the multi-hart core (`src/hdl/common`) with the shared
bus its harts contend for, the atomic operations that cross it, interrupt delivery, and power
control with the aperture through which one hart reads another's private memory; the lockstep
co-simulation that judges the core (`src/tools/cosim`); and the debug dashboard's server with
the monitor it talks to (`src/tools/debug/forth_dashboard_v2/server`). The modules are checked
with TLC on small instances; what is proved with TLAPS holds for every value of the constants.
A module's comments name the code it models; this file says how the parts fit together, what is
shown, and what is not.

## The system

`MCU.vhd` (generated) puts five harts, each in a tile with its private TCM, and two more
bus masters (DMA, debug module) on one arbiter. Everything runs on one free clock, `mclk`;
each core runs on `clk_cpu`, the same clock gated off while its access is outstanding, while
its TCM is read from outside and while it sleeps.

| part | state it keeps | operations | what makes it correct |
|---|---|---|---|
| arbiter `mp_arbiter.vhd` | FSM, granted master, round-robin pointer, release mask, outputs | pick, read-latency bubble, complete, hold a locked bus, release it | one transaction at a time, attributed to its master, once; no starvation; nobody inside a locked section; never stuck |
| reservation unit `resv_unit.vhd` | a reserved word per master, SC verdicts | place, consume, kill, suppress a losing SC's lanes | an SC lands only while its reservation stands |
| mutex bank `mutex_bank.vhd` | an owner word per mutex | claim-read, release-write | one holder |
| shared RAM and peripherals behind the slave port | words | read, lane write | |
| hart tile `hart_tile.vhd` | boundary registers, the handshake, the TCM port | request, ack, stall, serve an external TCM read | the core gets the answer to the access it is frozen on, exactly once |
| core `vesta.vhd` | FSM, PC, registers, local reservation, sleep | instructions, interrupts, returns, sleep | atomics atomic; a return resumes what was interrupted |
| interrupt handler `irq_handler.vhd` | FSM, slot in service | select, save, jump, end of interrupt, restore | one interrupt at a time, none lost |
| interrupt router `irq_router.vhd` | rows, in-service bits, meip wires | CLAIM, COMPLETE, route | exactly-once delivery |
| CLINT `clint.vhd` | msip, mtime, mtimecmp | write, count, compare | levels follow the registers |
| power controller `pwr_ctrl.vhd` | per-tile sequencer, strap, boot gate | gate, wake, hold, release | clamps, reset and rail in order |
| TCM aperture `MCU.vhd`, port in `hart_tile.vhd` | request in flight, landed word; port state, Q shadow | decide, land, abort; freeze, read, restore | the target's word or an honest zero; its core sees nothing; the bus never hangs |
| DMA, debug module, event fabric, peripherals | | | planned, or out of scope (see below) |

| trace readers `mk_inject.py`, `compare.py` | the open window, closed windows, counters, lists to replay | scan, partition, walk | both see the same windows; a healthy hart matches, a wrong one does not |
| reference `vesta_ref.cc` | state, replay position, log | realign, step | at a match its state is the hart's |
| dashboard server `serial_manager.py`, `memops.py`, `main.py` | connection state, queue, wants, futures, the channel's bytes | submit, serve, resync, connect, stop | each request answered once, with its own output; a chip in a handshake not disturbed |
| rv4th monitor (`sim_chip.py`) | line buffer, handshake phase, flash | read a line, execute, take payload, confirm | flash holds what was sent |

The parts of the chip talk by wires sampled at clock edges. The behaviours that make this hard:
harts run independent programs whose accesses interleave at the arbiter; every tile wire
crosses a register, so a request, a lock and a tag are seen a cycle late and an answer two; a
core's clock stops at the very edge others act on; the interrupt handler runs on the free clock
beside a core that may be frozen in the middle of a return. The co-simulation is sequential, but
two programs in two languages must draw the same conclusions from one trace, wherever the
simulation was cut. The dashboard is a queue between request handlers and one owner thread on a
line where a late answer looks like a prompt one.

## The modules

In the chip all clocked logic runs on `mclk`, so one step is one rising edge, at which all
registers move at once; a `clk_cpu` edge is a hart being in `moving`. Every process of the RTL
becomes an operator over the registers before the edge and the wires at it, a signal the code
registers is a variable with the code's name, a combinational one an operator. A flag of one
bit per hart or master is the set of those whose bit is high. Addresses, words and byte lanes
are members of small sets, a word being a function from lanes to values.

In the co-simulation one step is one instruction of the hart, one record read, or one retire of
the reference. In the dashboard one step is one call of the owner thread into the port, one
handler, or one character taken by the monitor: those are the points at which another actor can
come between. A byte on the line is a pair of what it is and which request it belongs to.

| module | models | composed in |
|---|---|---|
| `BusTypes` | transactions, masters, the constants and their assumptions | all of the window |
| `MpArbiter` | the clocked process of `mp_arbiter.vhd`, one operator per FSM arm | `ArbiterAlone`, `SharedWindow`, `Aperture` |
| `ArbiterAlone` | the arbiter with any wires at any edge, and two histories | run `arbiter`, `ArbiterProofs` |
| `ResvUnit` | `resv_unit.vhd` | `SharedWindow` |
| `WindowMap` | the address classes and the mutex's owner word | window modules |
| `SharedSlaves` | `mutex_bank.vhd`, RAM and the read mux | `SharedWindow` |
| `HartTile` | `hart_tile.vhd`'s shared-window master and the core states that use memory | `SharedWindow`, `Aperture` |
| `SharedWindow` | the wiring: N tiles, arbiter, reservation unit, slaves | run `window` |
| `AtomicMemory` | the promise: a memory with LR/SC, read-modify-write and mutexes | |
| `WindowRefinement` | the mapping from `SharedWindow` to `AtomicMemory` | `MCWindow` |
| `IrqRouter` | `irq_router.vhd` | `IrqDelivery` |
| `IrqHandler` | `irq_handler.vhd` as the tiles configure it | `IrqDelivery` |
| `IrqCore` | the core's interrupt, return and sleep states | `IrqDelivery` |
| `IrqDelivery` | router, one hart in full, the others as claimants, the documented dispatcher | runs `irq_*`, `IrqProofs` |
| `PwrCtrl` | `pwr_ctrl.vhd`: sequencers, strap, boot gate | `Aperture` |
| `TcmPort` | `hart_tile.vhd`'s external TCM port and its Q shadow | `Aperture` |
| `Aperture` | `MCU.vhd`'s aperture sequencer, resets and clamps around the above | runs `tcm_aperture`, `boot_hold` |
| `CommitTrace` | the hart as `vesta_tracer.vhd` shows it: programs, handlers, parks, one fault | `Lockstep` |
| `MkInject` | `mk_inject.py`'s scan and script | `Lockstep` |
| `Comparator` | `compare.py`'s partition, ghost filter, gate and walk | `Lockstep` |
| `RefModel` | `vesta_ref.cc`'s realignment and step | `Lockstep` |
| `Lockstep` | `gate/xrun_cosim.sh`'s tile cell around them | runs `lockstep`, `lockstep_script` |
| `Rv4thLink` | bytes, command lines and the operations of each interaction (`memops.py`, `forth.py`) | `SimChip` |
| `SimChip` | `sim_chip.py`: the monitor | `SerialManager` |
| `SerialManager` | `serial_manager.py`: owner thread, queue, wants, channel, resync, stop | `Dashboard` |
| `Dashboard` | `main.py`'s handlers, the chip and a port that may fail | runs `forth_link`, `forth_stale` |
| `TileProofs` | what an edge does to a tile and to the arbiter: lemmas | `WindowProofs`, `ApertureProofs` |
| `ArbiterProofs`, `WindowProofs`, `WindowRefinementProofs`, `ApertureProofs`, `IrqProofs`, `DashboardProofs`, `LockstepProofs` | theorems | |
| `MCWindow`, `MCAperture`, `MCDashboard` | constants' values for TLC | |

An operator with a suffix (`Sequencer_NoAbort`, `amo_lock_AfterRead`, ...) marked "Mutant" is a
plausible mistake in the definition that follows it. No specification uses it; substituted for
that definition it makes the property it is listed with in `PROJECT.json` fail, which shows
that the property depends on the code it is about.

### What a step leaves out, and why that is sound

* *Instructions* (`HartTile!Instructions`) are chosen freely at each fetch, with operand, data
  and successor address: every program over the words of the instance. A run may hold several
  mixes of instruction, data, operands and code (`Mixes`); one is fixed from the start. The value computed by an
  AMO is any word, so all AMO functions are one. A hart's code words are not its data words.
* *Software contracts* the hardware states are assumed: LR/SC and AMOs stay off the mutexes
  (`mutex_bank.vhd:4`); an ISR's stack is in the TCM (`TRM.template.tex:600`); an ISR is the
  documented dispatcher CLAIM, serve, COMPLETE, `retirq`, or the acknowledgement of a software
  interrupt. `Careful` in `IrqDelivery` adds that software routes a source to one hart at a
  time and reroutes it while its level is low; `irq_shared` and `irq_vector_zero` drop it.
* *Stalls.* A hart whose access is answered may still get no clock edge, for a TCM read from
  outside or because it sleeps. In `SharedWindow` that is any hart missing from `moving`; in
  `IrqDelivery` it is `Stalls`, the core states in which the clock may be held up. In `Aperture`
  the stall is the port's own `tx_busy`, modelled in full.
* *IrqDelivery* folds the `MEMORY_WAIT` of the ISR's own loads and stores into the edge that
  retires them, lets a peripheral's clear reach the router at once, and gives the arbiter's
  three-edge occupancy (`gap`) to router accesses only. `mtip` reaches the handler exactly as
  `msip` does and is not a variable of its own. Other harts claim, clear and complete.
* *Aperture* fixes the TCM's contents, so a word identifies where it came from; PWRWAKE keeps
  the value of the board; the pads are free synchronized levels; task wake may wake any set of
  tiles at any edge; master 1 stands for a master that no reset but the chip's reaches.
* *Lockstep* gives a hart one register, a word of its own memory, the stacked PC, one device
  address and one shared word, values 0 and 1. A device or shared answer is always the other
  value than the register's: one that changes nothing shows nothing. A diagnostic line rides on
  its record. Handlers do not nest and do not park; parks are EXTINGUISH. Left out: x-taint and
  `--allow-x`, `amend.py`, the A2 and A9 rules, C records, byte lanes, a real wfi's give-back,
  hart 0's SPIKE_SLACK, the retry of a short reference, and the counts in the log.
* *Dashboard* lets one byte stand for a command's output and one for a CRC's four digits, which
  is taken to tell any two payloads apart. Time is whether a deadline passes before the bytes
  come. One chip lives through all connections, as on hardware (`main.py`'s simulated mode makes
  a new one).
* *Patient* assumes the deadlines generous: one passes only when nothing is on the line and the
  monitor is doing nothing, or while the word of the very command waited for is executing. A
  resync's passes only in the first case. Without it a byte merely slow on the line can be
  taken for anything; that is a matter of the numbers in `serial_manager.py`, not of its order.
* *torn* is set when the port is opened on a chip in the middle of something, or the chip is
  reset under an open port. The code only drains a banner then. Where a property says `~torn`
  it claims nothing after that; `InFlight` and `FlashSafe` hold regardless.

## What TLC checks

| run | instance | distinct states | what it shows |
|---|---|---|---|
| `arbiter` | N = 3, one address, word and lane, all wires free | 889 | `Attribution`, `BoundedBypass`, `LockExcludes` whatever is attached |
| `window` | 2 harts, one lane, bytes 0, 1, 2; LR, SC and stores on one word, or AMOs and failed CASes from two shared code words with interrupts, or one mutex with stray writes | 210 927 | `ImplementsMemory`, `NoGhost`, `MutexExclusive`, `AccessAnswered` |
| `tcm_aperture` | hart 0, one other master, one target: tile 1 plain and harvested, or hart 0 itself | 826 978 | `CoreUndisturbed`, `ReadsTruthful`, `ColdBoot`, `RailSafe`, `StallBounded` |
| `boot_hold` | hart 0 reads itself on a harvested board | | violation, finding 3 |
| `irq_delivery` | 1 hart, 2 sources, msip, sleep, all stalls but two | 24 165 | `OneLevel`, `ReturnsHome`, `VectorsKnown`, `IpiTaken`, `SourceServed` |
| `irq_shared` | 3 harts, one source anybody may enable | 160 904 | `ExactlyOnce` |
| `irq_lost_return`, `irq_vector_zero` | 1 or 2 harts | | violations, findings 1 and 2 |
| `forth_link` | 2 of 5 requests (fe, mr, mw, two fw on two pages), lines of 2 characters, payloads of 2, one incident | 72 151 | `InFlight`, `AnswersOwn`, `FlashSafe`, `NeverEaten`, `InStep`, `WrittenMeansStored`, `Answered` |
| `forth_stale` | 1 text command, line of 3 characters | | violation, finding 4 |
| `lockstep` | 3 program positions, 3 instructions outside handlers, 2 inside, 2 interrupts, 1 fault | 2 926 671 | `Agreement`, `HealthyMatches`, `FaultCaught`, `RefTracks` |
| `lockstep_script` | loads and parks, handlers that may IGNITE, no fault | | violation, finding 5 |

Every passing run explores its instance to the end (no depth limit). Deadlock is ignored in the
dashboard's runs only: a stopped server really stops. The bounds and why they are enough:

* *Three masters* for the arbiter: the least for which being passed over twice, a third master
  waiting behind a lock and the owner all differ. The theorems cover every N.
* *Two harts* for the window: every hazard listed is between one hart's access and another's.
  What a third adds is queueing. The theorems on `NoGhost`, `MutexExclusive` and
  `ImplementsMemory` cover every N, every map and every mix; `AccessAnswered` rests on the two.
* *One data word and two values* for LR/SC: reservations are compared word by word, and two
  values tell a lost write from one that landed. AMOs need no second value (the interleaving is
  what matters) but two code words, so that a sequential fetch is a different access from the
  one before it. Interrupts divert AMOs only; LR/SC has no state an interrupt would leave open
  on the bus. The three mixes share no word, so checking them in one run loses nothing.
* *Two sources*, so that one outranks the other; *three harts* for one source, so that two
  others race for it while Self serves. `MaxFrames = 2` is one more frame than `OneLevel`
  allows, so that a violation is a state; where `OneLevel` holds the bound is never reached.
* `T_SEQ = 1`, `T_RAIL = 2` instead of the chip's counts: each wait is there and `T_RAIL` is the
  longer, so that an omitted or shortened one shows. `STRAP_SETTLE = 8` is the code's default,
  long enough for a boot fetch and a window read to be under way when the strap arms the gate.
  What is proved of the aperture is proved for every value of the three.
* `MAX_STALL = 7` is the property's own bound: the strobe's edge and six of the request to the
  tile. The counter stops at 8. It is the exact figure: 6 fails.
* `MIN_LOW = 4` is an assumption on the board: PGOOD, once low, stays low for four edges, and so
  does the absence of PGOOD that the strap's sample finds, counted from the sample. The code
  synchronizes the pad but does not filter it. With three edges a hart can be released while
  the `done` of the read its reset cut short is still on the way, and takes it for its boot
  fetch's; four is the least for which `ColdBoot` holds, and `ColdBootHolds` proves it enough.

* *Two requests* to the dashboard: one that goes wrong and one that suffers for it. Every pair of
  the five kinds occurs, in both orders. Two characters and two bytes are the least for which a
  line or payload can be cut inside; the even byte makes binary contents end like a prompt. One
  incident besides timeouts, of which there is no bound but the attempts; with two incidents
  and the read command besides (721 103 states, safety only) the invariants hold as well.
  `forth_stale` takes three characters so that a tail of the echo remains.
* *Three instructions, two interrupts* for the lockstep: two windows and an instruction before,
  between and after them; two instructions of a handler, so that the last write to the register
  or the slot wins over an earlier one. `LAST = 2` lets a redirected return go back, stay and
  skip.

### Fairness

`SharedWindow!Fairness`: `WF(Fabric)` is that `mclk` never stops; `[]<> ~Ready(h)` is that a
hart with nothing to wait for is not denied its gated clock for ever. The clock gate is opened
by `mem_ready`, by the end of a TCM read (`tx_busy`, bounded by the port's six states and by
`StallBounded`) and by the handler of a sleeper, so nothing else can withhold it. No fairness
is assumed of the arbiter: that is what `AccessAnswered` shows. Nor of programs: a hart may
rest between instructions as long as it likes.

`IrqDelivery!Fairness`: `WF(Next)` again the clock; `WF(Edge(TRUE))` that a core able to move
is not stalled for ever; `SF` of Self's own router access, since that access is one of several
masters' and the arbiter passes it over at most N - 1 times (`BoundedBypass`). Nothing is
assumed of the other harts, the sources or the software that reroutes them.

`Dashboard!Fairness`: the owner thread runs, a deadline that has passed is noticed, and the
monitor's words end (`ChipStep`). Nothing is assumed of the handlers, of incidents, or of
whether a deadline passes while bytes are there. `Answered` excepts what the code gives up on: a
user who disconnects, a stopped server, and an owner thread ended by a chip that was reset in a
handshake (`int(_, 16)` of a CRC that is none, `memops.py:169`).

The lockstep has no liveness of its own: the gate's programs end.

## What is proved

`ArbiterProofs`, for every N >= 1 and all sets of addresses, words and lanes (assumptions:
`NAssumption`, `ResetAssumption`), and every pattern of requests, locks, stalls and data:

* `TypeCorrect`: `Spec => []TypeOK`.
* `AttributionHolds`: `Spec => []Attribution`. Attribution is inductive only with the types and
  with what each FSM state says of the grant, so it is proved together with them.
* `BypassBounded`: `Spec => []BoundedBypass`. The strengthening `FairInv` says that for each
  master m, `passed[m]` plus the distance from the round-robin pointer to m never exceeds
  N - 1: a pick that passes m moves the pointer to just behind the one picked, and everybody
  between the pointer and the one picked was not eligible, so the distance falls by at least
  one. The lemmas on the cyclic distance carry the arithmetic.
* `SectionExclusive`: `Spec => LockExcludes`. `SectionInv` ties the open section to the FSM:
  open only in `LOCKED` or in a transaction of its owner; `IDLE`, where others are picked, is
  reached only as the section closes.

`WindowProofs`, for every N, map, set of lanes and words, and every mix of programs, from
what the code fixes of them: `NAssumption`, `ResetAssumption`, `MapAssumption` (mutexes, code and
data are apart), `WordAssumption` (a word is its lanes, written independently; the mutex bank's
word names its owner), `TileAssumption` (programs obey the software contracts above; no access
is the ack of none) and `OnlyHarts`, that of `SharedWindow`:

* `TypesHold`: `Spec => []TypeOK`, together with `Programs`, which says what state and operand
  each instruction's flow may be in.
* `NoGhostHolds`: `Spec => []NoGhost`. `Trip` follows one access of one hart from its boundary
  register to its ack: what is on the wire, in the arbiter or on the slave's port is what the
  frozen core presents, at most one such access is under way, and from its `done` until the
  arbiter has seen the request low `need_release` keeps it from being picked again. The last
  clause is what makes the rest inductive: the request falls two edges after the `done`.
* `MutexExclusiveHolds`: `Spec => []MutexExclusive`. Between the bank's grant and the program's
  knowledge of it lie the read bus, two registers and a core edge: `MutexInv` says what word of
  a claim is under way to whom, and `Releases` that a store of zero comes from the holder.

`WindowRefinementProofs`, from the same assumptions:

* `WindowImplementsMemory`: `Spec => Memory!Spec` for the mapping of `WindowRefinement`. A `LATCH` edge
  with the strobe high is `Perform` of the access on the bus, every other edge a stutter.
  `Locks` supplies the read-modify-write: a hart between the read and the write of an AMO owns
  the bus. The reservation tag comes from `Trip`; a read whose core has moved on and
  comes back to it is `Again`, the same read of the same unchanged word.

`ApertureProofs`, for every set of tiles, every T_SEQ, T_RAIL and STRAP_SETTLE
(`PwrAssumption`), every TCM (`TcmAssumption`), any number of ROM words and every set of boards
(`ApertureAssumption`); no length of PGOOD drop is assumed but where it is named:

* `ApertureTyped`: `Spec => []TypeOK`.
* `ReadsTruthfulHolds`: `Spec => []ReadsTruthful`. `BusInv` ties the sequencer to the arbiter's
  `LATCH`; `RequestInv` says that the port of a target that is not dark is idle or at one of the
  six steps of the request in flight (`Step`), each fixing the port's registers, and that a
  target in reset answers nothing. The lemma `Lightens`, that a target which becomes dark no
  more has been in reset on the way, keeps a late answer from meeting a new request. `AnswerInv`
  follows the word from there through the read mux to the arbiter.
* `StallBoundedHolds`: `SelfUngated /\ MAX_STALL >= 7` implies `Spec => []StallBounded`. The step a
  request is at is the number of edges the arbiter has been stalled (`StallInv`), and a dark
  target is answered for at once. `SelfUngated` excludes the boards of finding 3, which have
  no bound.
* `ColdBootHolds`: `SelfUngated`, `StrapAlone` (a strapped board leaves PWRWAKE alone) and
  `MIN_LOW >= 4` imply `Spec => []ColdBoot`. `TripInv` is `Trip` for hart 0 while the gate is open;
  `GateInv` says that the gate closes within two edges of PGOOD's last, or before anything was
  asked of the bus; `DrainInv` that while it is closed what it cut off comes to its end, in at
  most as many edges as the drop has left.

* `RailsSafe`: `Spec => []RailSafe`. `SequencerInv`: each sequencer state fixes the three
  outputs; in every state with an open clamp or a released reset the rail is of age T_RAIL; and
  in `RAIL` age plus the counter is at least T_RAIL, so the counter's end is the age's.
* `CoreNeverDisturbed`: `Spec => []CoreUndisturbed`. `PortInv`: whenever the TCM's address mux
  is on the external side the shadow is shown, so the array's output can only change behind
  it; and the core's own edges, which capture a new word, are kept away by `tx_busy`.

`IrqProofs`, for every number of harts and of sources, and all sets of stalls (assumptions:
`RouterAssumption`, `SlotsAssumption`, `DeliveryAssumption`):

* `TypeCorrect`: `Spec => []TypeOK`, and `DeliveredOnce`: `Spec => []ExactlyOnce`. A hart that
  was interrupted inside its dispatcher would forget its claim, so the invariant needs that
  ISRs do not nest: `Paced` says where the handler is while the core saves, jumps and runs the
  text of an ISR, and that it raises no save there; `Frames` that no frame is that text;
  `Clients` what each dispatcher holds at each of its steps.
* `ReturnsResume`: `PromptReturn` implies `Spec => []ReturnsHome`. `PromptReturn` says that
  neither the pop nor the restore is stalled, what finding 1 violates. `Returning` is the race
  it decides: the handler leaves `WAIT_EOI` as the iret executes and has not come round to the
  next save before the core has restored.
* `VectorsAlwaysKnown`: `Careful` implies `Spec => []VectorsKnown`. `Steady` says that a line up
  at the handler is up behind it too, in the boundary register, the meip wire and the pending
  set, but for the edges between the ISR's own claim or acknowledgement and its end, when the
  handler masks. So what was found is there to be latched (`Vectored`).
* `OneLevelAtMost`: both together imply `Spec => []OneLevel`.

That the priority encoders' CHOOSE has a value needs that a non-empty set of naturals has a
least element, proved (`Least`) from the library's well-foundedness of finite subsets.

`DashboardProofs`, for all requests, payload and line lengths, any number of incidents and of
requests (assumption: `LinkAssumption`); the first four patient host or not, the last three
under `Patient`:

* `FuturesAccounted`: `Spec => []InFlight`. `InFlight` is inductive only with where the owner is:
  it has a request exactly while it is running one or resynchronising for one. The requests of
  the queue are distinct because a future is pending from its one `Submit` on.
* `DashboardTyped`: `Spec => []TypeOK`. `ChipTyped` says what each phase of the monitor knows: a
  payload is being read only after the line of a command that pushes one, and never has more
  bytes than there is room for. `OwnerTyped` bounds the runner's step and the attempts.
* `FlashNeverMixed`: `Spec => []FlashSafe`. `PayloadsFresh`: until a flash's payload is written no
  byte of it is on the line and no CRC of it has been sent. `LineLeads`: from its command line on,
  what the monitor has still to read ends in that line (`Queued`) and then the payload, so a
  monitor that takes its first byte for payload has just executed that very command (`Met`); a
  line with a tail of another one in front of it is no command. So a CRC that comes back
  means that the whole payload was read as this request's and the monitor waits, with nothing
  on the line (`ChipWaits`), and the only 'Y' ever sent goes to it (`YesMeant`).
* `ReportedIsStored`: `Spec => WrittenMeansStored`. `Handshake` adds what `torn` excludes: the CRC
  is the last byte the owner has, the line is then silent until the verdict is read, and so
  the prompt that ends the request is the one after the programming.
* `NothingEaten`: `Patient` implies `Spec => []NeverEaten`; `KeptInStep`: `Patient` implies
  `Spec => []InStep`; `AnswersMeant`: `Patient` implies `Spec => []AnswersOwn`. One invariant,
  `Sync`, behind all three: until `torn` it accounts for every command, echo and prompt on the
  line (`InTurn`). `Order` lists what the monitor may still have to read, so a payload is never
  followed by a command and a line is never met in its middle. `Turn` says, operation by
  operation of the runner, what the bytes in the Channel and in the port together (`Stream`) can
  be: before the command is executed only echoes, with a '>' at most where the resync before it
  left one and the echo's `read_exact` will drop it (`Early`); then the answer, last, with the
  prompt that came with it (`Ended`, `Honest`, `Readied`). Hence a `read_until` can only find its own
  prompt, and with it the line is `Still`. `Patient` enters in one place: where a deadline may
  pass, nothing that was sent is still a command (`Off`, `WaitsOff`). From there a resync's newline
  brings one prompt at most before the next attempt (`Asked`, `Trail`), which is why the first
  prompt a resync finds is its own. Without `Patient` that fails, and so do the properties (TLC
  violates each with `Patient = FALSE`, four requests and no incident): a deadline passing over
  a byte that is merely slow leaves a command behind the resync's newline.

`LockstepProofs`, for every LAST, MAIN, ISR, TRAPS and all sets of instructions and faults
(assumption: `BoundsAssumption`):

* `ReadersAgree`: `Spec => []Agreement`. The two readers never look ahead, so the invariant must
  say what each kind of record still to be read may be: `Shape` ties the hart's mode and the
  unread records to the open window, and `Closed` says the two scans agree with none, one or a
  park's window open. Each step of the hart keeps `Shape` (`Simulates`), each record read keeps
  both (`Reads`), and the rest of the cell touches neither.
* `CellTyped`: `Spec => []TypeOK`. What needs an argument is the script: its windows resume
  within the program's length, and a forced sc.w is one of the reference's own instructions.
  `Counts`: the readers never count more retired instructions than the hart has retired outside
  handlers, two records at most for each. `Awaits` says when the comparator waits for a
  landing, `ForcedBelow` that every sc.w noted is one already counted.
* `ReferenceTracks`: `Spec => []RefTracks`; `FaultsCaught`: `Spec => []FaultCaught`;
  `HealthyAlwaysMatch`: `Spec => []HealthyMatches`. One invariant, `CellInvariant`, behind all
  three: `IInv` and `TInv` of the two theorems above with `LInv`, which has four parts.
  - `Ahead` is about the two readers carried ahead over the records still unread. Their windows
    (`Windowed`) stand at the right retires (`Indexed`), are closed and waiting for a landing as
    the hart's mode says (`Structured`), and land where they should, unless a handler resumed
    elsewhere (`Landing`). And the hart has a history (`Lived`): what it held after every
    retire, what it had just before the next one, once any window between them was realigned,
    and which lines of the filtered stream (`Kept`) that retire left (`Past`), down to what the
    hart holds now (`Present`). No variable keeps this history: the invariant says that one exists,
    and every step of the hart extends it, so the specification is the one TLC checks.
  - `Told` compares the reference with that history, from the first instruction it executes. It
    tracks it (`Tracks`: it holds what the history says, its log so far is the stream's lines), or it
    has `Diverged` in a line the walk will compare, or the hart's lost write is the last thing
    compared (`LostLast`, the exception of `FaultCaught`). A retire keeps the first
    (`Realigns`: the script's window turns what the reference held before it into what the
    resumed hart held), or meets the hart's fault and goes to one of the others (`Meets`).
  - `Judged` says how a cell ends, `Named` which faults there are.

  What the scans and the walk compute from a whole trace is never needed: a scan is carried one
  record further at each step, and the walk is opened once, at the verdict (`WalkIs`), where
  line q of the stream is the q-th line the history kept (`Places`). A
  match is only given where the script was loaded, and then no two windows share an index
  (`Apart`): `vesta_ref.cc` refuses any other (finding 5).

Only model-checked: liveness, which is outside the prover, as is what needs ENABLED. Every
safety invariant and action property of a passing run is a theorem, under the hypotheses named
here.

## Findings

1. **`irq_lost_return`, `vesta.vhd:2963`.** An iret goes through `MEMORY_WAIT`, which tests
   `irq_save` before `isr_ret`. Stretched long enough, the return is abandoned and the address
   after the iret is saved as the place to come back to.
2. **`irq_vector_zero`, `irq_handler.vhd:243`.** The handler leaves `IDLE` on the registered
   selection and latches the combinational one. If a source shared by two harts is claimed by
   the other in that cycle, no slot is latched and the core jumps to address 0.
3. **`boot_hold`, `MCU.vhd:4556`.** Hart 0 is never "dark" to the aperture, but the boot gate
   resets it too. A PGOOD drop during its read of its own window stalls the arbiter for the
   whole hold and the late word becomes its first instruction.
4. **`forth_stale`, `serial_manager.py:446`.** The resync after a timeout drains, sends a newline
   and takes the first prompt for the newline's. If the command was only slow, the prompt is its
   own; the newline's echo and prompt are then counted to the retry, whose result begins with
   the tail of its own echo (`'fr\nFFFFFFFF'` from the Python code for a register read). A result
   never is another command's (`AnswersOwn`), so a parser that takes the last token is right.
5. **`lockstep_script`, `mk_inject.py:978`.** A hart that goes back to sleep after its handler, or
   returns onto an EXTINGUISH, gives two windows with no reference retire between them; the
   script holds two B records at one index and `vesta_ref.cc:761` refuses it.

`irq_delivery` excludes the stall of finding 1 and the one described next; with them its other
properties are moot.

Observed on the way, without a run:

* `IRQ_REST` tests `irq_save` before it increments sp (`vesta.vhd:3100`). If the core's clock is
  withheld there for four `mclk` edges, the free-running handler has already raised the next
  save, and the popped frame is never freed.
* The verdict of a lost shared SC is re-captured by every later shared completion
  (`hart_tile.vhd:649`), so an SC to the hart's own TCM executed from shared code reports failure
  although its store was done.
* `rls_latch` is set by any release condition, armed or not (`pwr_ctrl.vhd:361`; `pwr_ctrl.rdl:157`
  speaks of an armed gate); PGOOD is not filtered (see `MIN_LOW`); `COMPLETE` frees a source
  whoever writes it (`irq_router.vhd:224`), harmless with the documented dispatcher.
* The dashboard's owner thread ends at a CRC that is no number (`memops.py:169`), and when
  `stop()` takes the port away under a drain (`serial_manager.py:369`); requests queued
  afterwards wait for ever.
* `FaultCaught` excepts the lost store of an `sc.w` that is the last instruction compared:
  the walk ends with the RTL's records (`compare.py:1427`).

## Not modelled

* The DMA controller, the debug module and its transport, the event fabric, CLINT's timer and
  the writing of PWRWAKE: state machines that belong here, not reached yet.
* The core's decode, ALU, divider, FPU, CSRs, PMP and compressed decoder: functions of one
  instruction, covered upstream by instruction-set regressions. Its debug, trap and WFI states.
* Serial and analog peripherals: independent devices, each a level to interrupt delivery.
* Of the dashboard: the register map and its read-modify-write, macros, the websocket, the user
  interface, the frozen v1. Of the co-simulation: see what `Lockstep` leaves out above.
* The generator in `platform/` (most of the repository's Python): it turns a configuration into
  RTL, headers and LaTeX, once, with no state that outlives a call; its properties are about
  text. Test benches, software, ASIC and FPGA flows, frozen chips.

`PROJECT.json` lists each with its sources.

## Plan

Order of work, the most shared state first: 1. arbiter, reservation unit, mutexes, tiles and
the atomic memory they implement; 2. interrupt delivery; 3. power control and the aperture;
4. the theorems on the arbiter, the sequencer, the port and interrupt delivery; 5. the dashboard's
link and the lockstep co-simulation, with the theorem of each; 6. the theorems on the shared
window, its refinement of the atomic memory, the aperture, and the dashboard's flash; 7. the
theorems on the dashboard's answers and on the lockstep's verdict. These stand.
Next:

1. *Models.* Debug halt and resume against the tile's handshake (`hart_tile.vhd:626`); DMA as
   a master beside LR/SC and AMO sections, which joins `SharedWindow` where today every master
   is a hart; writes to PWRWAKE during a run, with the latch; CLINT's split compare; the event
   fabric; nested handlers and a real wfi in `CommitTrace`; register fields written by two
   clients (`main.py:327`). Where the hazard is one an existing run can reach, the run is extended.
2. *Proofs.* The theorems of the models of item 1, and what is proved of a run again where that
   run is extended: nested handlers change `Shape` and `Indexed` of the lockstep, a DMA master
   the window's invariant.
