------------------------- MODULE MCInboundPipeline --------------------------
(***************************************************************************)
(* InboundPipeline for one process with two drain threads and two messages *)
(* that quote the same terms.                                              *)
(***************************************************************************)
EXTENDS InboundPipeline

CONSTANTS p1, k1, k2, m1, m2

MCThreads == {k1, k2}
MCHomeOne == [k \in MCThreads |-> p1]
MCTerms == [m \in {m1, m2} |-> "same"]
=============================================================================
