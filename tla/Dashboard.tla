----------------------------- MODULE Dashboard -----------------------------
(* The dashboard's server (main.py) around its owner thread: handlers that enqueue requests,  *)
(* connect, disconnect, reset the chip and stop; the chip; and a port that may fail. One chip *)
(* lives through all connections, as on hardware.                                             *)
EXTENDS SerialManager, FiniteSets

CONSTANT LOAD    \* requests enqueued in one run

VARIABLE torn    \* the port was opened on a chip in the middle of a command, or the chip reset
                 \* under an open port

vars == <<chipVars, ownerVars, torn>>

(* _startup: the thread is started and a connect asked for. *)
Init ==
  /\ ChipInit /\ OwnerInit
  /\ torn = FALSE

Untorn == UNCHANGED torn

(* api_reset pulses the pin whatever the owner is doing. *)
api_reset ==
  /\ Incident
  /\ ChipReset
  /\ torn' = (torn \/ listening)
  /\ UNCHANGED <<state, desired, wants, queue, stopping, pc, cur, attempt, step, pending, taken,
                 future, result>>

ChipIdle == repl = AtPrompt /\ toChip = <<>>

Opened == OpenPort /\ torn' = (torn \/ ~ChipIdle)

Handlers == \/ connect \/ disconnect \/ Stop \/ DrainQueue
            \/ /\ Cardinality({r \in Requests : future[r] # "none"}) < LOAD
               /\ \E r \in Requests : Submit(r)

Next ==
  \/ (Owner /\ pc # "open" /\ Untorn) \/ Opened
  \/ (Timeout \/ ResyncFails \/ OpenFails \/ FailTransport) /\ Untorn
  \/ Handlers /\ Untorn
  \/ ChipStep /\ UNCHANGED ownerVars /\ Untorn
  \/ api_reset

(* The owner thread runs, words end and deadlines pass. *)
Fairness ==
  /\ WF_vars(Owner /\ pc # "open" /\ Untorn) /\ WF_vars(Opened)
  /\ WF_vars(Timeout /\ Untorn) /\ WF_vars(ResyncFails /\ Untorn)
  /\ WF_vars(ChipStep /\ UNCHANGED ownerVars /\ Untorn)

Spec == Init /\ [][Next]_vars /\ Fairness
-----------------------------------------------------------------------------
TypeOK ==
  /\ repl.phase \in Phases /\ Len(repl.buf) <= PAYLOAD
  /\ eaten \subseteq Requests
  /\ state \in States /\ pc \in Places /\ cur \in Requests \cup {None}
  /\ queue \in Seq(Requests) /\ wants \in Seq({"connect", "disconnect"})
  /\ attempt \in 0 .. 2
  /\ future \in [Requests -> {"none", "pending", "ok", "failed"}]

(* Every request whose future is unresolved is in the queue or in service, once: no way out   *)
(* of _service, of a lost port or of stop() forgets a future or answers it twice.             *)
InFlight ==
  /\ {r \in Requests : future[r] = "pending"} = ToSet(queue) \cup ({cur} \ {None})
  /\ cur \notin ToSet(queue)
  /\ \A i, j \in 1 .. Len(queue) : queue[i] = queue[j] => i = j

(* What a future resolves to is that request's: a text ends in its own output, so a register  *)
(* value is never another command's, and a binary read whose CRC is right is the memory's     *)
(* contents, whatever timed out before.                                                       *)
LastOut(s) == LET outs == {i \in 1 .. Len(s) : s[i][1] = "out"}
              IN  IF outs = {} THEN None ELSE s[Max(outs)][2]

AnswersOwn ==
  \A r \in Requests : future[r] = "ok" /\ ~torn =>
    /\ Kind[r] \in {"text", "fe"} => LastOut(result[r]) = r
    /\ Kind[r] = "mr" /\ Last(result[r]) = Crc(Front(result[r])) => Front(result[r]) = Contents

(* What submit promises: "Future resolves to the framed output", echo and prompt already gone.*)
Framed ==
  \A r \in Requests :
    Kind[r] = "text" /\ future[r] = "ok" /\ ~torn => \A i \in 1 .. Len(result[r]) : result[r][i] = Out(r)

(* A programmed page holds the whole payload of a request for that page: nothing that follows *)
(* a lost handshake, neither a resync's newline nor another command, passes for payload and   *)
(* confirmation.                                                                              *)
FlashSafe ==
  \A p \in DOMAIN flash : flash[p] # <<>> =>
    \E r \in Requests : Kind[r] = "fw" /\ Page[r] = p /\ flash[p] = Payload(r)

(* A command is never sent to a chip that is waiting for payload. *)
NeverEaten == eaten # {} => torn

(* The manager takes the chip for in step only if the chip is not inside a handshake. *)
InStep == state = "idle" /\ ~torn => repl.phase \notin {"load", "confirm"}

(* A write reported good is in flash when it is reported. *)
WrittenMeansStored ==
  [][\A r \in Requests :
       Kind[r] = "fw" /\ future[r] = "pending" /\ future'[r] = "ok" /\ ~torn
       /\ result'[r] = <<Crc(Payload(r))>> => flash[Page[r]] = Payload(r)]_vars

(* Whoever waits for a request is answered, unless the user disconnects, the server stops or  *)
(* the owner died of a chip that was reset during a handshake.                                *)
Answered ==
  \A r \in Requests :
    (future[r] = "pending") ~>
      (future[r] # "pending" \/ ~desired \/ stopping # "no" \/ (pc = "dead" /\ torn))
=============================================================================
