------------------------------ MODULE SimChip ------------------------------
(* The monitor at the far end of the line: sim_chip.py, a byte-level emulation of the ROM.    *)
(* The loop prints a prompt, reads a line echoing each byte, executes it; fw and mw read      *)
(* their payload with the same _get_byte, without echo. An execution may take any time.       *)
EXTENDS Rv4thLink

VARIABLES
  toChip,     \* bytes written to the chip and not read by it
  toHost,     \* bytes the chip sent and the host's port still holds
  listening,  \* the host has the port open; bytes sent to a closed port are lost
  repl,       \* where the monitor is: phase, characters of the line, payload read
  flash,      \* page -> payload last programmed, <<>> when erased
  eaten       \* command characters the chip has read as payload

chipVars == <<toChip, toHost, listening, repl, flash, eaten>>

Phases == {"line", "exec", "load", "confirm"}
AtPrompt == [phase |-> "line", line |-> <<>>, buf |-> <<>>]

ChipInit ==
  /\ toChip = <<>> /\ toHost = <<>> /\ listening = FALSE
  /\ repl = AtPrompt
  /\ flash = [p \in {Page[r] : r \in Requests} |-> <<>>]
  /\ eaten = {}

Emit(s) == toHost' = IF listening THEN toHost \o s ELSE toHost

(* _read_line: every byte is echoed; a newline ends the line. *)
ReadLine ==
  /\ repl.phase = "line" /\ toChip # <<>>
  /\ LET end == Find(<<Nl>>, toChip)
         n == IF end = 0 THEN Len(toChip) ELSE end
         got == SubSeq(toChip, 1, n)
     IN  /\ toChip' = SubSeq(toChip, n + 1, Len(toChip))
         /\ Emit(got)
         /\ repl' = IF end = 0
                    THEN [repl EXCEPT !.line = @ \o got]
                    ELSE [repl EXCEPT !.line = @ \o Front(got), !.phase = "exec"]
  /\ UNCHANGED <<listening, flash, eaten>>

Named == {r \in Requests : repl.line = Text(r)}

(* _execute of a line that is no payload command: its output, then the next prompt. A line    *)
(* that is no command prints "?"; an empty one nothing.                                       *)
Answer(r) == IF Kind[r] = "mr" THEN Append(Contents, Crc(Contents)) ELSE <<Out(r)>>

ExecuteWord ==
  /\ repl.phase = "exec" /\ Named \cap Pushes = {}
  /\ Emit((IF Named # {} THEN Answer(CHOOSE r \in Named : TRUE)
           ELSE IF repl.line = <<>> THEN <<>> ELSE <<Junk>>) \o PROMPT)
  /\ flash' = [p \in DOMAIN flash |->
                 IF \E r \in Named : Kind[r] = "fe" /\ Page[r] = p THEN <<>> ELSE flash[p]]
  /\ repl' = AtPrompt
  /\ UNCHANGED <<toChip, listening, eaten>>

(* _do_mw and _do_fw up to the ready character. *)
ExecutePush ==
  /\ repl.phase = "exec" /\ Named \cap Pushes # {}
  /\ Emit(<<Ready>>)
  /\ repl' = [repl EXCEPT !.phase = "load"]
  /\ UNCHANGED <<toChip, listening, flash, eaten>>

Loading == CHOOSE r \in Named : TRUE

(* One payload byte; the last one brings the CRC, and for mw the prompt. *)
ReadPayload ==
  /\ repl.phase = "load" /\ toChip # <<>>
  /\ toChip' = Tail(toChip)
  /\ LET buf == Append(repl.buf, Head(toChip))
         full == Len(buf) = PAYLOAD
     IN  /\ repl' = IF ~full THEN [repl EXCEPT !.buf = buf]
                    ELSE IF Kind[Loading] = "fw"
                    THEN [repl EXCEPT !.buf = buf, !.phase = "confirm"]
                    ELSE AtPrompt
         /\ Emit(IF ~full THEN <<>>
                 ELSE <<Crc(buf)>> \o IF Kind[Loading] = "fw" THEN <<>> ELSE PROMPT)
  /\ eaten' = IF Head(toChip)[1] = "char" THEN eaten \cup {Head(toChip)[2]} ELSE eaten
  /\ UNCHANGED <<listening, flash>>

(* Mutant: the byte is taken for granted. *)
Confirm_Any ==
  /\ repl.phase = "confirm" /\ toChip # <<>>
  /\ toChip' = Tail(toChip)
  /\ flash' = [flash EXCEPT ![Page[Loading]] = repl.buf]
  /\ Emit(PROMPT)
  /\ repl' = AtPrompt
  /\ eaten' = IF Head(toChip)[1] = "char" THEN eaten \cup {Head(toChip)[2]} ELSE eaten
  /\ UNCHANGED listening

(* The byte after an fw's CRC decides: 'Y' programs the page, anything else does not. *)
Confirm ==
  /\ repl.phase = "confirm" /\ toChip # <<>>
  /\ toChip' = Tail(toChip)
  /\ flash' = IF Head(toChip) = Yes
              THEN [flash EXCEPT ![Page[Loading]] = repl.buf] ELSE flash
  /\ Emit(PROMPT)
  /\ repl' = AtPrompt
  /\ eaten' = IF Head(toChip)[1] = "char" THEN eaten \cup {Head(toChip)[2]} ELSE eaten
  /\ UNCHANGED listening

(* The banner is longer than a command line. *)
Greeting == [i \in 1 .. LINE_CHARS + 1 |-> Banner] \o <<Nl>>

(* The chip's reset pin (api_reset): the monitor starts over with its banner; what it had     *)
(* read and what its UART still holds is gone, flash is not.                                  *)
ChipReset ==
  /\ repl' = AtPrompt /\ toChip' = <<>>
  /\ Emit(Greeting \o PROMPT)
  /\ UNCHANGED <<listening, flash, eaten>>

ChipStep == ReadLine \/ ExecuteWord \/ ExecutePush \/ ReadPayload \/ Confirm
=============================================================================
