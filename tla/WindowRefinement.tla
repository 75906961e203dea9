-------------------------- MODULE WindowRefinement --------------------------
(***************************************************************************)
(* The shared window implements AtomicMemory.  An access takes effect at   *)
(* the edge that ends its LATCH cycle; from then on its answer is on its   *)
(* way to the core, and the mapping reads it off wherever it has got to:   *)
(* the slave's output, the arbiter's, the boundary register or the         *)
(* handshake's landing register.                                           *)
(***************************************************************************)
EXTENDS SharedWindow

Performed(h) == ack_ok(h) \/ Answered(h) \/ (state = "DATA" /\ cur = h)

\* The word and the SC verdict on their way to the core.
ReturnedWord(h) ==
    CASE ack_ok(h) -> sh_rdata_reg[h]
      [] ~ ack_ok(h) /\ h \in bnd_done -> bnd_rdata
      [] ~ ack_ok(h) /\ h \in done -> rdata
      [] OTHER -> s_rdata

ReturnedVerdict(h) ==
    CASE ack_ok(h) -> h \in sh_scfail
      [] ~ ack_ok(h) /\ h \in bnd_done -> h \in bnd_scfail
      [] OTHER -> h \in sc_fail

\* What an access is for, in the memory's terms.
Kind(h) ==
    CASE core[h].op = "amo" /\ core[h].st \in {"EXECUTE", "AMO_READ"} -> "rmw read"
      [] core[h].st = "AMO_WRITE" -> "rmw write"
      [] lr_sc_bus(h) # "none" -> lr_sc_bus(h)
      [] OTHER -> "plain"

Call(h) ==
    IF ~ sh_sel(h) THEN [st |-> "idle"]
    ELSE IF ~ Performed(h) THEN [st |-> "asked", kind |-> Kind(h), tx |-> Offer(h)]
    ELSE [st |-> "answered", kind |-> Kind(h), tx |-> Offer(h),
          val |-> ReturnedWord(h), lost |-> Kind(h) = "sc" /\ ReturnedVerdict(h)]

\* A hart is inside from its AMO's read taking effect until its write does.
Inside ==
    {h \in Harts : core[h].op = "amo" /\ core[h].addr # Priv
        /\ \/ core[h].st = "EXECUTE" /\ Performed(h)
           \/ core[h].st \in {"AMO_READ", "AMO_WRITEBACK", "AMO_COMPUTE"}
           \/ core[h].st = "AMO_WRITE" /\ ~ Performed(h)}

Memory == INSTANCE AtomicMemory WITH
    link <- resv, inside <- Inside, call <- [h \in Harts |-> Call(h)], got <- read_bus

\* Every behaviour of the hardware is one the atomic memory allows.
ImplementsMemory == Memory!Spec
=============================================================================
