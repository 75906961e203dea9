----------------------------- MODULE Rv4thLink -----------------------------
(* The serial line between the dashboard's server (src/tools/debug/forth_dashboard_v2/server) *)
(* and the rv4th monitor: the bytes on it, the command lines, and what each kind of          *)
(* interaction writes and reads (memops.py, _text_runner).                                   *)
(* A byte is <<kind, of>>. One byte stands for a command's output, one for the four hex      *)
(* digits of a CRC, which is taken to tell any two payloads apart. A command line has        *)
(* LINE_CHARS characters, a payload PAYLOAD bytes.                                           *)
EXTENDS Naturals, Sequences, SequencesExt

CONSTANTS
  Requests,      \* everything the handlers may enqueue
  Kind,          \* the interaction each request is
  Page,          \* the flash page a request is about
  LINE_CHARS,    \* characters of a command line before its newline
  PAYLOAD,       \* bytes of a payload (256 for fw)
  None           \* no request

Kinds == {"text", "fe", "mr", "mw", "fw"}

ASSUME LinkAssumption ==
  /\ Kind \in [Requests -> Kinds]
  /\ LINE_CHARS \in Nat \ {0} /\ PAYLOAD \in Nat \ {0}
  /\ None \notin Requests

(* fw and mw push a payload after the chip's ready character. *)
Pushes == {r \in Requests : Kind[r] \in {"mw", "fw"}}

Nl == <<"newline", None>>
Gt == <<"gt", None>>
Ready == <<"dollar", None>>
Yes == <<"Y", None>>
No == <<"N", None>>
Banner == <<"banner", None>>
Junk == <<"question", None>>
Char(r) == <<"char", r>>
Out(r) == <<"out", r>>
Datum(r) == <<"datum", r>>
Crc(s) == <<"crc", s>>

PROMPT == <<Nl, Gt>>

Text(r) == [i \in 1 .. LINE_CHARS |-> Char(r)]
Line(r) == Append(Text(r), Nl)
Payload(r) == [i \in 1 .. PAYLOAD |-> Datum(r)]

(* What a binary read finds: bytes that look like a prompt. *)
Contents == [i \in 1 .. PAYLOAD |-> IF i % 2 = 1 THEN Nl ELSE Gt]

(* Where a marker first occurs in s, 0 if nowhere. *)
Find(marker, s) ==
  LET At == {i \in 1 .. Len(s) : IsPrefix(marker, SubSeq(s, i, Len(s)))}
  IN  IF At = {} THEN 0 ELSE CHOOSE i \in At : \A j \in At : i <= j

(* What a request's runner does with its channel, operation by operation. A verdict is the   *)
(* Y or N of the fw handshake; the runner converts a CRC's characters with int(_, 16).       *)
Write(s) == [op |-> "write", bytes |-> s, count |-> 0]
Exact(n) == [op |-> "exact", bytes |-> <<>>, count |-> n]
Until(m) == [op |-> "until", bytes |-> m, count |-> 0]
TakeCrc == [op |-> "crc", bytes |-> <<>>, count |-> 1]
Verdict == [op |-> "verdict", bytes |-> <<>>, count |-> 0]

Echoed(r) == <<Write(Line(r)), Exact(LINE_CHARS + 1)>>
Pushed(r) == <<Until(<<Ready>>), Write(Payload(r)), TakeCrc>>

(* Mutant: fw returns without waiting for the prompt after its verdict. *)
Runner_NoFinalPrompt(r) ==
  CASE Kind[r] \in {"text", "fe"} -> Echoed(r) \o <<Until(PROMPT)>>
    [] Kind[r] = "mr" -> Echoed(r) \o <<Exact(PAYLOAD + 1), Until(PROMPT)>>
    [] Kind[r] = "mw" -> Echoed(r) \o Pushed(r) \o <<Until(PROMPT)>>
    [] Kind[r] = "fw" -> Echoed(r) \o Pushed(r) \o <<Verdict>>

Runner(r) ==
  CASE Kind[r] \in {"text", "fe"} -> Echoed(r) \o <<Until(PROMPT)>>
    [] Kind[r] = "mr" -> Echoed(r) \o <<Exact(PAYLOAD + 1), Until(PROMPT)>>
    [] Kind[r] = "mw" -> Echoed(r) \o Pushed(r) \o <<Until(PROMPT)>>
    [] Kind[r] = "fw" -> Echoed(r) \o Pushed(r) \o <<Verdict, Until(PROMPT)>>

(* Mutant: the loop runs once too often. *)
Attempts_OneMore(r) == IF r \in Pushes THEN 1 ELSE 3

(* Attempts of a request: one retry by default, none for what pushes a payload. *)
Attempts(r) == IF r \in Pushes THEN 1 ELSE 2
=============================================================================
