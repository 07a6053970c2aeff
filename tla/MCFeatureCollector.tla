------------------------- MODULE MCFeatureCollector -------------------------
EXTENDS FeatureCollector, TLC

CONSTANTS large, small, trn1, std

MCLine == {large, small, trn1}
\* trn1 has no pattern: ^tm\d does not match it.
MCOrders == {<<large, trn1, small>>, <<small, large, trn1>>}
MCVCPU == large :> 2 @@ small :> 1 @@ trn1 :> 1
MCPattern == {std}
MCPatternOf == large :> std @@ small :> std @@ trn1 :> NoPattern
\* Room for either line, not for both.
MCQuota == std :> 2

=============================================================================
