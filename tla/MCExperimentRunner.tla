------------------------- MODULE MCExperimentRunner -------------------------
EXTENDS ExperimentRunner, TLC

CONSTANTS l1, l2, large, small, std, inf

MCLine == {l1, l2}
MCQueue == <<l1, l2>>
MCType == {large, small}
MCTypeOf == l1 :> large @@ l2 :> small
MCVCPU == large :> 2 @@ small :> 1
MCPattern == {std, inf}
\* Room for either line under std, not for both.  AWS grants nothing under inf.
MCQuota == std :> 2 @@ inf :> 0
MCMatch == [t \in MCType |-> {std}]
\* The small one, like inf1, matches std's "i" as well as inf.
MCOverlap == large :> {std} @@ small :> {std, inf}
MCNoType == {}

=============================================================================
