------------------------------ MODULE BusTypes ------------------------------
(***************************************************************************)
(* The parameters every part of the shared window has in common: how many  *)
(* masters it has and what a transaction carries.                          *)
(***************************************************************************)
EXTENDS Integers

CONSTANTS N,        \* number of masters
          Addrs,    \* word addresses of the shared window
          Words,    \* data words
          Lanes,    \* byte lanes of a word
          Addr0,    \* the address and the word a register resets to
          Word0

ASSUME NAssumption == N \in Nat \ {0}
ASSUME ResetAssumption == Addr0 \in Addrs /\ Word0 \in Words

Masters == 0 .. N - 1

\* What a master presents beside its request: the strobed lanes (none for a
\* read), the word address and the write data.
Tx == [we : SUBSET Lanes, addr : Addrs, wdata : Words]
=============================================================================
