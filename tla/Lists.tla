------------ MODULE Lists ------------
(***************************************************************************)
(* What the code does with whole lists: the comprehensions that leave      *)
(* elements out, and the sums.  Functions of the position, not SelectSeq   *)
(* and FoldLeft, so that proofs can speak of what they return.             *)
(***************************************************************************)
EXTENDS Naturals, Sequences

\* The elements of s that are not in out, in their order.
Without(s, out) ==
  LET left[n \in 0 .. Len(s)] ==
        IF n = 0 THEN << >>
        ELSE LET e == s[n] IN IF e \in out THEN left[n - 1] ELSE Append(left[n - 1], e)
  IN left[Len(s)]

SumOf(s) ==
  LET sum[n \in 0 .. Len(s)] == IF n = 0 THEN 0 ELSE sum[n - 1] + s[n]
  IN sum[Len(s)]
========================
