------------------------------ MODULE MCWindow ------------------------------
(***************************************************************************)
(* Small instances of the shared window for TLC.                           *)
(***************************************************************************)
EXTENDS WindowRefinement

CONSTANTS Bytes,        \* what a lane holds
          x, mx, c1, c2 \* a word of RAM, a mutex, two words of code

\* Every word over the instance's lanes and bytes.
AllWords == [Lanes -> Bytes]
ZeroWord == [l \in Lanes |-> 0]
Word(b) == [l \in Lanes |-> b]

\* LR/SC against plain stores, each hart's code in its own memory.
Reservations == [writes |-> [lr |-> {Word(0)}, sc |-> {Word(1)}, store |-> {Word(0)}],
                 operands |-> {x}, fetches |-> {Priv}]
\* A mutex: claiming reads, releases and stray writes.
Mutex == [writes |-> [load |-> {Word(0)}, store |-> AllWords], operands |-> {mx}, fetches |-> {Priv}]
\* AMOs and interrupts, with every fetch a transaction of its own.
Atomics == [writes |-> [amo |-> {Word(1)}, irq |-> {Word(0)}], operands |-> {x}, fetches |-> {c1, c2}]
ProgramMixes == {Reservations, Mutex, Atomics}
=============================================================================
