----------------------------- MODULE WindowMap -----------------------------
(***************************************************************************)
(* How addresses divide: the shared window's ordinary RAM, the words that  *)
(* hold code, the mutex bank, and everything outside the window.           *)
(*                                                                         *)
(* A word is a function from byte lanes to bytes.  A mutex word's owner    *)
(* field sits in the lane OwnerLane: 0 when free, the owner's index + 1    *)
(* otherwise.                                                              *)
(***************************************************************************)
EXTENDS BusTypes

CONSTANTS MutexAddrs,  \* the shared words decoded to the mutex bank
          CodeAddrs,   \* the shared words programs are fetched from
          Priv,        \* an address outside the shared window: the hart's own TCM
          NoAddr,      \* no address: a reservation register that is not valid
          OwnerLane    \* the lane of a mutex word's owner field

ASSUME MapAssumption ==
    /\ MutexAddrs \subseteq Addrs
    /\ CodeAddrs \subseteq Addrs \ MutexAddrs
    /\ Priv \notin Addrs
    /\ NoAddr \notin Addrs \cup {Priv}

\* A claimant's marker in a mutex word: its index + 1.
OwnerWord(m) == [Word0 EXCEPT ![OwnerLane] = m + 1]

ASSUME WordAssumption ==
    /\ OwnerLane \in Lanes
    /\ \A w \in Words : w = [l \in Lanes |-> w[l]]
    \* lanes are independent: what a partial write leaves is a word
    /\ \A v, w \in Words : \A L \in SUBSET Lanes : [l \in Lanes |-> IF l \in L THEN v[l] ELSE w[l]] \in Words
    /\ Word0 = [l \in Lanes |-> 0]
    /\ MutexAddrs # {} => \A m \in Masters : OwnerWord(m) \in Words
=============================================================================
