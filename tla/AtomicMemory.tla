---------------------------- MODULE AtomicMemory ----------------------------
(***************************************************************************)
(* What the shared window promises the harts, without buses or clocks: a   *)
(* memory on which every access takes effect at once, exactly once and in  *)
(* one order for all harts, somewhere between being asked and being        *)
(* answered; on which a store-conditional lands only while its reservation *)
(* stands; and on which nothing comes between the read and the write of a  *)
(* read-modify-write.                                                      *)
(*                                                                         *)
(* SharedWindow implements it: see WindowRefinement.                       *)
(***************************************************************************)
EXTENDS WindowMap

VARIABLES
    mem,      \* the word at every shared address
    link,     \* the word each hart has reserved, or NoAddr
    inside,   \* the harts between the read and the write of an atomic operation
    call,     \* each hart's outstanding access
    got       \* the word each hart took from its last access, or Priv

Kinds == {"plain", "lr", "sc", "rmw read", "rmw write"}

Idle == [st |-> "idle"]

Asked == [st : {"asked"}, kind : Kinds, tx : Tx]

Answer(c, v, lost) ==
    [st |-> "answered", kind |-> c.kind, tx |-> c.tx, val |-> v, lost |-> lost]

Init ==
    /\ mem = [a \in Addrs |-> Word0]
    /\ link = [h \in Masters |-> NoAddr]
    /\ inside = {}
    /\ call \in [Masters -> {Idle} \cup Asked]
    /\ got = [h \in Masters |-> Priv]

----------------------------------------------------------------------------

\* A conditional store whose reservation is gone has no effect.
Loses(p) == call[p].kind = "sc" /\ link[p] # call[p].tx.addr

\* A mutex reads as its owner, taking the reader for owner if it had none; a
\* write of zero frees it and no other write changes it.
MutexEffect(p, tx) ==
    CASE tx.we = {} /\ mem[tx.addr] = Word0 -> OwnerWord(p)
      [] tx.we # {} /\ tx.wdata = Word0 -> Word0
      [] OTHER -> mem[tx.addr]

Effect(p, tx) ==
    IF tx.addr \in MutexAddrs THEN MutexEffect(p, tx)
    ELSE [l \in Lanes |-> IF l \in tx.we THEN tx.wdata[l] ELSE mem[tx.addr][l]]

\* Every write that takes effect breaks the reservations on its word.
Relink(p, tx) ==
    CASE Loses(p) -> [link EXCEPT ![p] = NoAddr]
      [] ~ Loses(p) /\ tx.we # {} ->
            [h \in Masters |-> IF link[h] = tx.addr THEN NoAddr ELSE link[h]]
      [] tx.we = {} /\ call[p].kind = "lr" -> [link EXCEPT ![p] = tx.addr]
      [] OTHER -> link

\* Hart p's access takes effect; a read is answered with the word it found.
Perform(p) ==
    LET tx == call[p].tx IN
    /\ call[p].st = "asked"
    /\ inside \subseteq {p}
    /\ mem' = IF Loses(p) THEN mem ELSE [mem EXCEPT ![tx.addr] = Effect(p, tx)]
    /\ link' = Relink(p, tx)
    /\ inside' = CASE call[p].kind = "rmw read" -> {p}
                   [] call[p].kind = "rmw write" -> {}
                   [] OTHER -> inside
    /\ \E v \in Words : /\ tx.we = {} => v = mem[tx.addr]
                        /\ call'[p] = Answer(call[p], v, Loses(p))
    /\ got'[p] = got[p]

\* The same word read again at once shows the same answer, without an access.
Again(h) ==
    /\ call[h].tx.we = {}
    /\ \E k \in Kinds : call'[h] = Answer([call[h] EXCEPT !.kind = k], call[h].val, FALSE)

\* A hart whose access is not the one performed: it waits, goes on with
\* private work, or takes its answer and goes on.
GoesOn(h) == call'[h] \in {Idle} \cup Asked

Elsewhere(h) ==
    \/ call'[h] = call[h] /\ got'[h] = got[h]
    \/ call[h] = Idle /\ GoesOn(h) /\ got'[h] = Priv
    \/ call[h].st = "answered" /\ got'[h] = call[h].val /\ (GoesOn(h) \/ Again(h))

Next ==
    \/ /\ UNCHANGED << mem, link, inside >>
       /\ \A h \in Masters : Elsewhere(h)
    \/ \E p \in Masters : Perform(p) /\ \A h \in Masters \ {p} : Elsewhere(h)

Spec == Init /\ [][Next]_<< mem, link, inside, call, got >>
=============================================================================
