--------------------------- MODULE MCQuotaManager ---------------------------
(***************************************************************************)
(* Instances of QuotaManager for TLC.  Quotas are small multiples of the   *)
(* smallest vCPU count; the types are named for what they exercise.        *)
(***************************************************************************)
EXTENDS QuotaManager, TLC

CONSTANTS
  l1, l2, l3, l4, l5,              \* lines
  big, small, gpu, unknown, infer, \* types
  std, g, inf                      \* patterns

MCLine5 == {l1, l2, l3, l4, l5}
MCQueue5 == <<l1, l2, l3, l4, l5>>
MCLine2 == {l1, l2}
MCQueue2 == <<l1, l2>>

MCType == {big, small, gpu, unknown, infer}
MCPattern == {std, g, inf}

MCVCPU == [t \in MCType |->
             IF t = big THEN 4 ELSE IF t = gpu THEN 1 ELSE 2]
\* Not room for big, small and infer under std.  When infer's vCPUs are debited
\* there and credited to inf, big still fits.
MCQuota == [f \in MCPattern |-> IF f = std THEN 6 ELSE 2]

\* No pattern for unknown; infer, like inf1, matches std's "i" as well as inf.
MCMatch == [t \in MCType |->
              IF t \in {big, small} THEN {std}
              ELSE IF t = gpu THEN {g}
              ELSE IF t = infer THEN {inf, std} ELSE {}]

MCTypeOfFaulty ==
  l1 :> small @@ l2 :> unknown @@ l3 :> infer @@ l4 :> big @@ l5 :> gpu
\* The last line names a type that no pattern matches.
MCTypeOfStuck ==
  l1 :> small @@ l2 :> unknown

MCNoType == {}
MCFlaky == {infer}
MCSticky == {small, infer}

=============================================================================
