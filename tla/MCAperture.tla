----------------------------- MODULE MCAperture -----------------------------
(***************************************************************************)
(* Small instances of the TCM aperture for TLC.                            *)
(***************************************************************************)
EXTENDS Aperture, TLC

CONSTANTS W1, P1        \* a TCM word seen through the window, one that is not

Word(b) == [l \in Lanes |-> b]

AllWords == {Word(b) : b \in 0 .. 2}
ZeroWord == Word(0)
BootWord == Word(1)
\* Hart 0 reads the window; its own code is in the ROM, and in its TCM or not.
Reading(code) == [writes |-> [load |-> {ZeroWord}], operands |-> {W1}, fetches |-> code]
FromBoth == {Reading({Rom, Priv})}
FromRom == {Reading({Rom})}

Contents == W1 :> Word(2) @@ P1 :> Word(1)

\* Hart 0 reads a tile on a plain and on a harvested board, and itself on a plain one.
OrdinaryBoards ==
    {[target |-> 1, strap |-> FALSE, wake |-> {}],
     [target |-> 1, strap |-> TRUE, wake |-> {}],
     [target |-> 0, strap |-> FALSE, wake |-> {}]}

\* Hart 0 reads itself on a harvested board.
HarvestedSelf == {[target |-> 0, strap |-> TRUE, wake |-> {}]}
=============================================================================
