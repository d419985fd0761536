------------------------------ MODULE LexRank ------------------------------
(* The lexicographic order in which the ranks of PlaygroundRun and          *)
(* ChatPipeline, tuples of natural numbers, go down with every step.        *)
EXTENDS Naturals, Sequences

LexLess(s, t) ==
  \E k \in 1 .. Len(t) : s[k] < t[k] /\ \A m \in 1 .. (k - 1) : s[m] = t[m]
=============================================================================
