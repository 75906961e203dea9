----------------------------- MODULE IrqRouter -----------------------------
(***************************************************************************)
(* The interrupt router, hdl/common/irq_router.vhd: one routing row per    *)
(* hart, one in-service bit per source, and one registered wire meip per   *)
(* hart.  It is a slave of the arbiter, so at most one access lands per    *)
(* clock edge and an access is atomic.                                     *)
(*                                                                         *)
(* The four actions are the edges with no access, with a CLAIM read, with  *)
(* a COMPLETE write and with a routing row write.  The sources are the     *)
(* routable ones only; the two CLINT sources bypass the router.            *)
(***************************************************************************)
EXTENDS Integers

CONSTANTS NHARTS,     \* number of harts
          NUM_SRCS    \* number of routable sources

ASSUME RouterAssumption == NHARTS \in Nat \ {0} /\ NUM_SRCS \in Nat \ {0}

Harts == 0 .. NHARTS - 1
Sources == 0 .. NUM_SRCS - 1
CLAIM_NONE == NUM_SRCS     \* what a CLAIM with nothing pending returns

VARIABLES
    irq_in,        \* the sources whose (deglitched) level is high
    en_words,      \* the sources each hart's row enables
    in_service,    \* the sources claimed and not yet completed
    meip_r         \* the harts whose external interrupt wire is high

routerVars == << en_words, in_service, meip_r >>

RouterTypeOK ==
    /\ irq_in \subseteq Sources
    /\ en_words \in [Harts -> SUBSET Sources]
    /\ in_service \subseteq Sources
    /\ meip_r \subseteq Harts

RouterInit ==
    /\ irq_in = {}
    /\ en_words = [h \in Harts |-> {}]
    /\ in_service = {}
    /\ meip_r = {}

\* The sources a hart could claim now.
Pending(h) == (irq_in \cap en_words[h]) \ in_service

\* Mutant: a claim looks at the levels only and forgets the in-service bits.
ClaimId_Regardless(h) ==
    CHOOSE s \in (irq_in \cap en_words[h]) \cup {CLAIM_NONE} :
        \A k \in irq_in \cap en_words[h] : s <= k

\* The lowest pending source, or CLAIM_NONE.
ClaimId(h) ==
    CHOOSE s \in Pending(h) \cup {CLAIM_NONE} : \A k \in Pending(h) : s <= k

\* meip is registered at every edge, from the state before it.
MeipEdge == meip_r' = {h \in Harts : Pending(h) # {}}

NoAccess ==
    /\ MeipEdge
    /\ UNCHANGED << en_words, in_service >>

\* Mutant: the sentinel is not told from a source.
Claim_Unchecked(h) ==
    /\ in_service' = in_service \cup {ClaimId(h)}
    /\ MeipEdge
    /\ UNCHANGED en_words

\* Hart h reads CLAIM and is answered ClaimId(h).
Claim(h) ==
    /\ in_service' = in_service \cup ({ClaimId(h)} \ {CLAIM_NONE})
    /\ MeipEdge
    /\ UNCHANGED en_words

\* Any hart writes id to CLAIM: the bit clears whoever owned it, an id out of
\* range is ignored.
Complete(id) ==
    /\ in_service' = in_service \ {id}
    /\ MeipEdge
    /\ UNCHANGED en_words

SetRow(h, row) ==
    /\ en_words' = [en_words EXCEPT ![h] = row]
    /\ MeipEdge
    /\ UNCHANGED in_service
=============================================================================
