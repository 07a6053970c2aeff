--------------------------- MODULE FeatureReport ---------------------------
(* What a CPU feature reader promises: a column of its report, once        *)
(* written, says what is true of the host, and is never taken back. The    *)
(* columns are written one by one, in any order. Of some columns the host  *)
(* leaves a reader in doubt, and they may say anything: which ones these   *)
(* are is fixed with the host, and is what a reader's refinement states.   *)
(* CpuidCollector and OldCpuidReader are shown to implement this.          *)
CONSTANT Features

VARIABLES truth,      \* does the host have the feature?
          doubtful,   \* the features whose column may say anything
          report      \* what has been reported so far

Init == /\ truth \in [Features -> BOOLEAN]
        /\ doubtful \in SUBSET Features
        /\ report = <<>>

Write(f, b) == /\ f \notin DOMAIN report
               /\ f \in doubtful \/ b = truth[f]
               /\ report' = [g \in DOMAIN report \cup {f} |-> IF g = f THEN b ELSE report[g]]
               /\ UNCHANGED <<truth, doubtful>>

Next == \E f \in Features, b \in BOOLEAN : Write(f, b)

Spec == Init /\ [][Next]_<<truth, doubtful, report>>
============================================================================
