------------------------ MODULE MCHistoryConnection ------------------------
(* Instances of HistoryConnection for TLC. *)
EXTENDS HistoryConnection

\* Raw rows, buckets of two, buckets of four.
MCWidth == [n \in 1 .. Coarsest |-> CASE n = 1 -> 1 [] n = 2 -> 2 [] OTHER -> 4]
=============================================================================
