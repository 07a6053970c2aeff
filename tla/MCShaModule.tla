---------------------------- MODULE MCShaModule -----------------------------
(* Either any number of imports of the module "sha" and of calls of its      *)
(* function, or any use of the attributes of a function object that Python   *)
(* holds; MaxFailures of the library calls fail. Or the cache of code        *)
(* objects by itself, which of the rest shares only its callers.             *)
EXTENDS MCSha, CodeObjectCache

MCLines == {-7, -3, 4}

Init == RefInit /\ CacheInit

Next == \/ RefNext /\ UNCHANGED cacheVars
        \/ mem[1]["cache"] = "own" /\ CacheNext /\ UNCHANGED refVars

Spec == Init /\ [][Next]_<<refVars, cacheVars>>
=============================================================================
