------------------------------ MODULE SpanUtil ------------------------------
(***************************************************************************)
(* PartitionEvenly (util/span_util.h): the division of a vector into n     *)
(* contiguous spans.  The orchestrator hands each worker thread its CPUs   *)
(* with it, and the corpus loader and the fix tool their work lists.       *)
(***************************************************************************)
EXTENDS Naturals, Sequences

\* span_size of span i (0-based): the first len % n spans take one more.
SpanSize(len, n, i) == (len \div n) + (IF i < len % n THEN 1 ELSE 0)

\* Mutant: `current` is not advanced by the extra elements.
SpanStartUneven(len, n, i) == i * (len \div n)

\* The value of `current` when the loop reaches span i.
SpanStart(len, n, i) ==
  LET current[k \in 0..i] ==
        IF k = 0 THEN 0 ELSE current[k - 1] + SpanSize(len, n, k - 1)
  IN  current[i]

\* The i-th element of the result, for i in 1..n, is span i - 1.
PartitionEvenly(v, n) ==
  [i \in 1..n |->
     LET first == SpanStart(Len(v), n, i - 1)
     IN  SubSeq(v, first + 1, first + SpanSize(Len(v), n, i - 1))]
=============================================================================
