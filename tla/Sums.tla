-------------------------------- MODULE Sums --------------------------------
(***************************************************************************)
(* Sums and selections that several modules use, written as recursive      *)
(* functions so that facts about them can be proved (Lemmas.tla).          *)
(***************************************************************************)
EXTENDS Integers, Sequences, FiniteSetsExt

\* PartialSum(c, n)[k] is c[1] + ... + c[k], for k in 0..n.
PartialSum(c, n) ==
  LET s[k \in 0 .. n] == IF k = 0 THEN 0 ELSE s[k - 1] + c[k]
  IN  s

SumTo(c, n) == PartialSum(c, n)[n]

\* The sum of c[x] for the elements x of a finite set.
SetSum(c, S) == MapThenSumSet(LAMBDA x : c[x], S)

\* Selections(q, S)[k] are those of q[1], ..., q[k] that are in S, in order.
Selections(q, S) ==
  LET s[k \in 0 .. Len(q)] == IF k = 0 THEN << >>
                              ELSE IF q[k] \in S THEN Append(s[k - 1], q[k])
                              ELSE s[k - 1]
  IN  s

Selected(q, S) == Selections(q, S)[Len(q)]

=============================================================================
