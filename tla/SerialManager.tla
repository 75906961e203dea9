--------------------------- MODULE SerialManager ---------------------------
(* serial_manager.py: the owner thread of the port, its queue of requests and of connection   *)
(* wants, and the framing Channel. The thread's calls into the port are the points at which   *)
(* other actors run: one action per call. Time is abstracted to whether a deadline passes     *)
(* before the bytes come.                                                                     *)
EXTENDS SimChip

CONSTANTS
  INCIDENTS,  \* connects, disconnects, stops, port failures and chip resets in one run
  Patient     \* whether deadlines are as generous as NothingComing and OwnWordRuns say

VARIABLES
  state,      \* _state
  desired,    \* _desired_connected
  wants,      \* _wants
  queue,      \* _queue
  stopping,   \* _stop, and how far stop() has come
  pc,         \* where the owner thread is
  cur,        \* the request in service
  attempt,    \* its attempt
  step,       \* next operation of its runner
  pending,    \* the Channel's bytes read and not consumed
  taken,      \* what the runner has read so far and will return
  future,     \* request -> "none" | "pending" | "ok" | "failed"
  result,     \* request -> what its future resolved to
  incidents   \* how many of them so far

ownerVars == <<state, desired, wants, queue, stopping, pc, cur, attempt, step, pending, taken,
               future, result, incidents>>

States == {"disconnected", "connecting", "idle", "busy", "unresponsive"}
Places == {"loop", "open", "banner", "run", "drain", "prompt", "exited", "dead"}

OwnerInit ==
  /\ state = "disconnected" /\ desired = FALSE /\ wants = <<"connect">> /\ queue = <<>> /\ stopping = "no"
  /\ pc = "loop" /\ cur = None /\ attempt = 0 /\ step = 0 /\ pending = <<>> /\ taken = <<>>
  /\ future = [r \in Requests |-> "none"] /\ result = [r \in Requests |-> <<>>]
  /\ incidents = 0

connected == state \in {"idle", "busy", "unresponsive"}

-----------------------------------------------------------------------------
(* What callers do. *)

Incident == incidents < INCIDENTS /\ incidents' = incidents + 1

connect ==
  /\ Incident
  /\ wants' = Append(wants, "connect")
  /\ UNCHANGED <<chipVars, state, desired, queue, stopping, pc, cur, attempt, step, pending,
                 taken, future, result>>

disconnect ==
  /\ Incident
  /\ wants' = Append(wants, "disconnect")
  /\ UNCHANGED <<chipVars, state, desired, queue, stopping, pc, cur, attempt, step, pending,
                 taken, future, result>>

(* submit and submit_interaction: enqueued whatever the state of the connection. *)
Submit(r) ==
  /\ future[r] = "none"
  /\ future' = [future EXCEPT ![r] = "pending"]
  /\ queue' = Append(queue, r)
  /\ UNCHANGED <<chipVars, state, desired, wants, stopping, pc, cur, attempt, step, pending,
                 taken, result, incidents>>

-----------------------------------------------------------------------------
(* Parts of the owner's steps. *)

Resolve(r, how, what) ==
  /\ future' = [future EXCEPT ![r] = how]
  /\ result' = [result EXCEPT ![r] = what]

Unresolved == UNCHANGED <<future, result>>

(* Between requests. *)
Rest(s) ==
  /\ state' = s /\ pc' = "loop" /\ cur' = None /\ attempt' = 0 /\ step' = 0
  /\ pending' = <<>> /\ taken' = <<>>

Remains == UNCHANGED <<desired, wants, queue, stopping>>

(* Channel(transport, deadline) and run from its first operation. *)
StartAttempt(n) ==
  /\ state' = "busy" /\ pc' = "run" /\ attempt' = n /\ step' = 1
  /\ pending' = <<>> /\ taken' = <<>>

(* close() of the port drops what it has received. *)
ClosePort == listening' = FALSE /\ toHost' = <<>>

PortUntouched == UNCHANGED <<toChip, toHost, listening>>

ChipUntouched == UNCHANGED <<repl, flash, eaten>>

-----------------------------------------------------------------------------
(* _process_wants, one want. A connect closes the port and opens it again. *)
TakeWant ==
  /\ pc = "loop" /\ wants # <<>> /\ stopping = "no"
  /\ wants' = Tail(wants)
  /\ desired' = (Head(wants) = "connect")
  /\ ClosePort
  /\ IF Head(wants) = "connect"
     THEN /\ pc' = "open" /\ state' = "connecting"
          /\ UNCHANGED <<cur, attempt, step, pending, taken>>
     ELSE Rest("disconnected")
  /\ Unresolved /\ ChipUntouched
  /\ UNCHANGED <<toChip, queue, stopping, incidents>>

(* Mutant: the port is reopened only when nobody is waiting for it. *)
Reopen_WhenQuiet ==
  /\ pc = "loop" /\ wants = <<>> /\ stopping = "no" /\ ~listening /\ desired /\ queue = <<>>
  /\ pc' = "open" /\ state' = "connecting"
  /\ Unresolved /\ ChipUntouched /\ PortUntouched /\ Remains
  /\ UNCHANGED <<cur, attempt, step, pending, taken, incidents>>

(* _run without a port while one is desired. *)
Reopen ==
  /\ pc = "loop" /\ wants = <<>> /\ stopping = "no" /\ ~listening /\ desired
  /\ pc' = "open" /\ state' = "connecting"
  /\ Unresolved /\ ChipUntouched /\ PortUntouched /\ Remains
  /\ UNCHANGED <<cur, attempt, step, pending, taken, incidents>>

(* _try_open: the factory succeeds or raises. *)
OpenPort ==
  /\ pc = "open"
  /\ listening' = TRUE /\ pc' = "banner"
  /\ Unresolved /\ ChipUntouched /\ Remains
  /\ UNCHANGED <<toChip, toHost, state, cur, attempt, step, pending, taken, incidents>>

OpenFails ==
  /\ pc = "open" /\ Incident
  /\ Rest("disconnected")
  /\ Unresolved /\ ChipUntouched /\ PortUntouched /\ Remains

(* _drain_banner reads until a read comes back empty, fails, or the window is over. *)
DrainBanner ==
  /\ pc = "banner" /\ toHost # <<>>
  /\ toHost' = <<>>
  /\ Unresolved /\ ChipUntouched /\ Remains
  /\ UNCHANGED <<toChip, listening, state, pc, cur, attempt, step, pending, taken, incidents>>

BannerOver ==
  /\ pc = "banner" /\ listening
  /\ Rest("idle")
  /\ Unresolved /\ ChipUntouched /\ PortUntouched /\ Remains /\ UNCHANGED incidents

(* Mutant: the check of the state is forgotten. *)
TakeRequest_Unchecked ==
  /\ pc = "loop" /\ wants = <<>> /\ listening /\ queue # <<>>
  /\ cur' = Head(queue) /\ queue' = Tail(queue)
  /\ StartAttempt(1)
  /\ Unresolved /\ ChipUntouched /\ PortUntouched
  /\ UNCHANGED <<desired, wants, stopping, incidents>>

(* queue.get and the beginning of _service: a chip that was left unresponsive is              *)
(* resynchronised before anything is sent to it.                                              *)
TakeRequest ==
  /\ pc = "loop" /\ wants = <<>> /\ listening /\ queue # <<>>
  /\ cur' = Head(queue) /\ queue' = Tail(queue)
  /\ IF state = "unresponsive"
     THEN /\ pc' = "drain"
          /\ UNCHANGED <<state, attempt, step, pending, taken>>
     ELSE StartAttempt(1)
  /\ Unresolved /\ ChipUntouched /\ PortUntouched
  /\ UNCHANGED <<desired, wants, stopping, incidents>>

(* _idle_read. *)
IdleRead ==
  /\ pc = "loop" /\ wants = <<>> /\ listening /\ queue = <<>>
  /\ toHost' = <<>>
  /\ Unresolved /\ ChipUntouched /\ Remains
  /\ UNCHANGED <<toChip, listening, state, pc, cur, attempt, step, pending, taken, incidents>>

-----------------------------------------------------------------------------
(* A runner's operations on its Channel. *)

Op == Runner(cur)[step]
InRun == pc = "run" /\ step <= Len(Runner(cur))

RunWrite ==
  /\ InRun /\ listening /\ Op.op \in {"write", "verdict"}
  /\ toChip' = toChip \o
       (IF Op.op = "write" THEN Op.bytes
        ELSE IF taken = <<Crc(Payload(cur))>> THEN <<Yes>> ELSE <<No>>)
  /\ step' = step + 1
  /\ Unresolved /\ ChipUntouched /\ Remains
  /\ UNCHANGED <<toHost, listening, state, pc, cur, attempt, pending, taken, incidents>>

(* read_exact: what is read after the echo is kept for the result. *)
RunExact ==
  /\ InRun /\ Op.op = "exact" /\ Len(pending) >= Op.count
  /\ taken' = SubSeq(pending, 1, Op.count)
  /\ pending' = SubSeq(pending, Op.count + 1, Len(pending))
  /\ step' = step + 1
  /\ Unresolved /\ ChipUntouched /\ PortUntouched /\ Remains
  /\ UNCHANGED <<state, pc, cur, attempt, incidents>>

(* int(_, 16) of the four characters after a payload: a ValueError when they are no digits,   *)
(* which nothing catches: the owner thread ends.                                              *)
RunCrc ==
  /\ InRun /\ Op.op = "crc" /\ pending # <<>>
  /\ IF Head(pending)[1] = "crc"
     THEN /\ taken' = <<Head(pending)>> /\ pending' = Tail(pending) /\ step' = step + 1
          /\ UNCHANGED pc
     ELSE pc' = "dead" /\ UNCHANGED <<taken, pending, step>>
  /\ Unresolved /\ ChipUntouched /\ PortUntouched /\ Remains
  /\ UNCHANGED <<state, cur, attempt, incidents>>

(* read_until; the last one of a text command is its result. *)
RunUntil ==
  /\ InRun /\ Op.op = "until" /\ Find(Op.bytes, pending) > 0
  /\ LET at == Find(Op.bytes, pending)
     IN  /\ taken' = IF Kind[cur] \in {"text", "fe"} THEN SubSeq(pending, 1, at - 1) ELSE taken
         /\ pending' = SubSeq(pending, at + Len(Op.bytes), Len(pending))
  /\ step' = step + 1
  /\ Unresolved /\ ChipUntouched /\ PortUntouched /\ Remains
  /\ UNCHANGED <<state, pc, cur, attempt, incidents>>

(* The result goes to the future and the state back to IDLE. *)
RunDone ==
  /\ pc = "run" /\ step > Len(Runner(cur))
  /\ Resolve(cur, "ok", taken)
  /\ Rest("idle")
  /\ ChipUntouched /\ PortUntouched /\ Remains /\ UNCHANGED incidents

Waits ==
  /\ InRun
  /\ \/ Op.op = "exact" /\ Len(pending) < Op.count
     \/ Op.op = "crc" /\ pending = <<>>
     \/ Op.op = "until" /\ Find(Op.bytes, pending) = 0

(* _fill, for a runner or for _resync's own Channel. *)
Fill ==
  /\ Waits \/ (pc = "prompt" /\ Find(PROMPT, pending) = 0)
  /\ toHost # <<>>
  /\ pending' = pending \o toHost /\ toHost' = <<>>
  /\ Unresolved /\ ChipUntouched /\ Remains
  /\ UNCHANGED <<toChip, listening, state, pc, cur, attempt, step, taken, incidents>>

(* What a patient host assumes of its deadlines: a command's own word may outlast its         *)
(* deadline, but not also a resync's, and the monitor is prompt in everything else.           *)
NothingComing == toChip = <<>> /\ toHost = <<>> /\ repl.phase # "exec"
OwnWordRuns == toHost = <<>> /\ \/ repl.phase = "exec" /\ cur \in Named
                                \/ repl.phase = "confirm" /\ cur = Loading

(* Mutant: the last timeout leaves the chip for in step. *)
Timeout_StaysIdle ==
  /\ Waits
  /\ Patient => NothingComing \/ OwnWordRuns
  /\ IF attempt < Attempts(cur)
     THEN /\ pc' = "drain" /\ pending' = <<>> /\ taken' = <<>>
          /\ UNCHANGED <<state, cur, attempt, step>> /\ Unresolved
     ELSE Resolve(cur, "failed", <<>>) /\ Rest("idle")
  /\ ChipUntouched /\ PortUntouched /\ Remains /\ UNCHANGED incidents

(* The deadline passes: another attempt, after a resync, or the request fails. *)
Timeout ==
  /\ Waits
  /\ Patient => NothingComing \/ OwnWordRuns
  /\ IF attempt < Attempts(cur)
     THEN /\ pc' = "drain" /\ pending' = <<>> /\ taken' = <<>>
          /\ UNCHANGED <<state, cur, attempt, step>> /\ Unresolved
     ELSE Resolve(cur, "failed", <<>>) /\ Rest("unresponsive")
  /\ ChipUntouched /\ PortUntouched /\ Remains /\ UNCHANGED incidents

-----------------------------------------------------------------------------
(* _resync. *)

(* Drain until a read comes back empty. *)
ResyncDrain ==
  /\ pc = "drain" /\ toHost # <<>>
  /\ toHost' = <<>>
  /\ Unresolved /\ ChipUntouched /\ Remains
  /\ UNCHANGED <<toChip, listening, state, pc, cur, attempt, step, pending, taken, incidents>>

(* Then a newline, and wait for a prompt. *)
ResyncNewline ==
  /\ pc = "drain" /\ listening /\ toHost = <<>>
  /\ toChip' = Append(toChip, Nl) /\ pc' = "prompt" /\ pending' = <<>>
  /\ Unresolved /\ ChipUntouched /\ Remains
  /\ UNCHANGED <<toHost, listening, state, cur, attempt, step, taken, incidents>>

(* The first prompt that comes is taken for the newline's. What is in the channel behind it   *)
(* is dropped with the channel.                                                               *)
Resynced ==
  /\ pc = "prompt" /\ listening /\ Find(PROMPT, pending) > 0
  /\ StartAttempt(attempt + 1)
  /\ Unresolved /\ ChipUntouched /\ PortUntouched /\ Remains /\ UNCHANGED <<cur, incidents>>

(* Mutant: a resync that got no prompt is taken for one that did. *)
ResyncFails_Onward ==
  /\ pc = "prompt" /\ Find(PROMPT, pending) = 0
  /\ Patient => NothingComing
  /\ StartAttempt(attempt + 1)
  /\ Unresolved /\ ChipUntouched /\ PortUntouched /\ Remains /\ UNCHANGED <<cur, incidents>>

(* No prompt in time: the request fails without being sent (again). *)
ResyncFails ==
  /\ pc = "prompt" /\ Find(PROMPT, pending) = 0
  /\ Patient => NothingComing
  /\ Resolve(cur, "failed", <<>>)
  /\ Rest("unresponsive")
  /\ ChipUntouched /\ PortUntouched /\ Remains /\ UNCHANGED incidents

-----------------------------------------------------------------------------
(* Mutant: the future is forgotten. *)
FailTransport_NoAnswer ==
  /\ listening /\ Incident
  /\ pc \in {"run", "drain", "prompt"} \/ (pc = "loop" /\ queue = <<>>)
  /\ Unresolved
  /\ ClosePort /\ Rest("disconnected")
  /\ ChipUntouched /\ Remains /\ UNCHANGED toChip

(* _fail_transport, and its like in _idle_read: a call into the port raised. *)
FailTransport ==
  /\ listening /\ Incident
  /\ pc \in {"run", "drain", "prompt"} \/ (pc = "loop" /\ queue = <<>>)
  /\ IF cur # None THEN Resolve(cur, "failed", <<>>) ELSE Unresolved
  /\ ClosePort /\ Rest("disconnected")
  /\ ChipUntouched /\ Remains /\ UNCHANGED toChip

(* stop(): the flag; the thread leaves at the top of its loop; when it has, or after three     *)
(* seconds inside a transaction, what is queued fails and the port is taken away.             *)
Stop ==
  /\ Incident
  /\ stopping = "no" /\ stopping' = "asked"
  /\ UNCHANGED <<chipVars, state, desired, wants, queue, pc, cur, attempt, step, pending, taken,
                 future, result>>

Exit ==
  /\ pc = "loop" /\ stopping # "no" /\ pc' = "exited"
  /\ UNCHANGED <<chipVars, state, desired, wants, queue, stopping, cur, attempt, step, pending,
                 taken, future, result, incidents>>

DrainQueue ==
  /\ stopping = "asked" /\ pc # "loop" /\ stopping' = "done"
  /\ future' = [r \in Requests |-> IF r \in ToSet(queue) THEN "failed" ELSE future[r]]
  /\ queue' = <<>> /\ ClosePort
  /\ UNCHANGED <<toChip, repl, flash, eaten, state, desired, wants, pc, cur, attempt, step,
                 pending, taken, result, incidents>>

(* A port taken away under the owner: a Channel still holds it and fails as any closed port   *)
(* does; _resync's drain and _drain_banner read self._transport, which is None: the thread    *)
(* ends there.                                                                                *)
Bereft ==
  /\ stopping = "done" /\ ~listening
  /\ \/ /\ pc \in {"run", "prompt"}
        /\ Resolve(cur, "failed", <<>>) /\ Rest("disconnected")
     \/ /\ pc \in {"drain", "banner"} /\ pc' = "dead"
        /\ Unresolved /\ UNCHANGED <<state, cur, attempt, step, pending, taken>>
  /\ ChipUntouched /\ PortUntouched /\ Remains /\ UNCHANGED incidents

(* The owner's own steps, but for deadlines. *)
Owner ==
  \/ TakeWant \/ Reopen \/ OpenPort \/ DrainBanner \/ BannerOver \/ TakeRequest \/ IdleRead
  \/ RunWrite \/ RunExact \/ RunCrc \/ RunUntil \/ RunDone \/ Fill
  \/ ResyncDrain \/ ResyncNewline \/ Resynced \/ Exit \/ Bereft
=============================================================================
