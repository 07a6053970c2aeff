-------------------------- MODULE Workloads_proofs --------------------------
(* What holds of the workloads on any set of hosts, with any protection     *)
(* keys and any number of pages: the prediction has no false positive, and  *)
(* the protection keys protect, and every kernel of int8dot computes the    *)
(* same, whatever the vectors. And of the cache of code objects that one    *)
(* workload has: the bisection is right for any lines, any size of the      *)
(* array's blocks and any nesting of tracebacks. And of all functions of    *)
(* that workload: what they release, use and report, whatever fails.        *)
EXTENDS Workloads, CodeObjectCache, ShaFlow, Lemmas, SequenceTheorems, FiniteSetTheorems, TLAPS

----------------------------------------------------------------------------
(* The inductive invariant. The types ...                                   *)
Steps == {"detect", "loop", "print", "before", "protect", "pkey_mprotect", "pkey_set", "during", "unprotect",
          "after", "read", "close"}

PageState == [key : Keys \cup {0}, prot : {"rw", "r"}]

TypeInv ==
  /\ source \in Hosts /\ host \in Hosts
  /\ work \in Programs
  /\ pc \in Steps
  /\ value \in {"none", "before", "during", "after"}
  /\ pages \in [Pages -> PageState]
  /\ buffer \in Pages
  /\ keys \subseteq Keys
  /\ pkey \in Keys \cup {0}
  /\ rights \in [Keys \cup {0} -> {"rw", "r", "none"}]

(* ... the kernel, which was chosen on the source and has run there once by *)
(* the time the workload is ready ...                                       *)
ChosenInv ==
  /\ ~moved => host = source
  /\ pc = "detect" => kernel = 0 /\ ~ready /\ ~moved
  /\ pc # "detect" => kernel \in DOMAIN Kernels[work] /\ Kernels[work][kernel].tests \subseteq source
  /\ ready \/ moved \/ pc = "print" => Runs \subseteq source
  /\ pc \in Steps \ {"detect", "loop", "print"} => work \in PkuPrograms
  /\ pc = "print" => work \notin PkuPrograms

(* ... what the analysis has found for certain, and how a process may have  *)
(* ended ...                                                                *)
EndsInv ==
  /\ moved => Certain \subseteq isaset
  /\ moved /\ Predicted /\ status = "exited" => Exhausted \/ LostKey \/ Overlooked
  /\ moved /\ Predicted /\ status = "SIGILL" => Overlooked
  /\ status \in {"running", "exited", "SIGILL"}
  /\ verdict = "crashed" => moved /\ status # "running"

(* ... and the memory: when the buffer is open, closed, or neither known.   *)
Open(p) == pages[p].prot = "rw" /\ rights[pages[p].key] = "rw"

Protecting == {"during", "unprotect"}

KeysInv ==
  /\ rights[0] = "rw"
  /\ ~blocked
  /\ "PKU" \notin host \/ kernel # 1 => keys = {} /\ \A p \in Pages : pages[p].key = 0
  /\ pc \in {"pkey_mprotect", "pkey_set"} => kernel = 1 /\ rights[pkey] = "rw"
  /\ kernel = 1 /\ pc \in {"pkey_mprotect", "pkey_set"} \cup Protecting => pkey \in Keys

BufferInv ==
  /\ pc \in Steps \ ({"detect", "loop", "print"} \cup Protecting) => Open(buffer)
  /\ pc \in {"pkey_set"} \cup Protecting /\ kernel = 1 => pages[buffer].key \in {0, pkey} /\ pages[buffer].prot = "rw"
  /\ pc = "during" /\ kernel = 1 => rights[pkey] = "r"
  /\ pc = "during" /\ kernel # 1 => pages[buffer].prot = "r"
  /\ pc \in {"protect", "pkey_mprotect", "pkey_set", "during"} => value = "before"
  /\ pc = "unprotect" /\ value # "before" => kernel = 1 /\ pages[buffer].key = 0
  /\ pc \in {"read", "close"} => value = "after"

(* The earlier program may get any page from the heap, and gives its key    *)
(* back at the end of each turn.                                            *)
HeapInv ==
  work = "old_pku" =>
    /\ keys \subseteq {pkey}
    /\ pc \in {"detect", "loop", "before", "protect"} => keys = {}
    /\ pc \notin Protecting => \A p \in Pages : Open(p)
    /\ pc \in Protecting =>
         \A p \in Pages : /\ p # buffer => pages[p].prot = "rw"
                          /\ rights[pages[p].key] = "rw" \/ (pages[p].key = pkey /\ kernel = 1)

WorkInv == TypeInv /\ ChosenInv /\ EndsInv /\ KeysInv /\ BufferInv /\ HeapInv

----------------------------------------------------------------------------
(* The kernels.                                                             *)
LEMMA PkuFacts ==
  ASSUME work \in PkuPrograms, NEW k \in DOMAIN Kernels[work]
  PROVE  /\ k \in {1, 2}
         /\ { c[2] : c \in Kernels[work][k].code } = IF k = 1 THEN {"PKU"} ELSE {}
         /\ Kernels[work][k].tests = IF k = 1 THEN {"PKU"} ELSE {}
<1>1. Kernels[work] = pku /\ k \in {1, 2}
  BY DEF PkuPrograms, Kernels, pku
<1>2. CASE k = 1
  <2>1. Kernels[work][k] = K({"PKU"}, {"rdpkru", "wrpkru"} \X {"PKU"})
    BY <1>1, <1>2 DEF pku, Of
  <2>2. { c[2] : c \in {"rdpkru", "wrpkru"} \X {"PKU"} } = {"PKU"}
    <3>1. <<"rdpkru", "PKU">> \in {"rdpkru", "wrpkru"} \X {"PKU"}
      OBVIOUS
    <3> QED
      BY <3>1
  <2> QED
    BY <1>2, <2>1, <2>2 DEF K
<1>3. CASE k = 2
  <2>1. Kernels[work][k] = K({}, {})
    BY <1>1, <1>3 DEF pku
  <2> QED
    BY <1>3, <2>1 DEF K
<1> QED
  BY <1>1, <1>2, <1>3

(* What a workload has run on the source and lacks on a host that is        *)
(* predicted to be compatible is not among what the tracker finds for sure. *)
LEMMA RunsPredicted ==
  ASSUME Runs \subseteq source, Certain \subseteq isaset, Predicted
  PROVE  Runs \subseteq host \/ Overlooked
BY DEF Predicted, Overlooked

LEMMA PkuPredicted ==
  ASSUME work \in PkuPrograms, kernel = 1, "PKU" \in source, Certain \subseteq isaset, Predicted
  PROVE  "PKU" \in host \/ Overlooked
<1>1. 1 \in DOMAIN Kernels[work]
  BY DEF PkuPrograms, Kernels, pku
<1>2. Runs = {"PKU"}
  BY <1>1, PkuFacts DEF Runs
<1> QED
  BY <1>2, RunsPredicted

(* Of a mnemonic that is not passed over and means one ISA-SET only, the    *)
(* analysis finds this ISA-SET, wherever it meets the mnemonic first.       *)
LEMMA AnalysisFinds ==
  ASSUME NEW w \in Programs, NEW found \in Analyses[w], NEW x \in Instructions(w), x[1] \notin PassedOver,
         \A y \in Instructions(w) : y[1] = x[1] => y[2] = x[2]
  PROVE  x[2] \in found
<1>1. PICK decoded \in SUBSET Instructions(w) : DecodedOnce(w, decoded) /\ found = { c[2] : c \in decoded }
  BY DEF Analyses
<1>2. x[1] \in Mnemonics(w)
  BY DEF Mnemonics
<1>3. PICK c \in decoded : c[1] = x[1]
  BY <1>1, <1>2 DEF DecodedOnce
<1> QED
  BY <1>1, <1>3

LEMMA InitWorkInv == Init => WorkInv
<1> SUFFICES ASSUME Init PROVE WorkInv
  OBVIOUS
<1> USE KeysAssumption DEF Init
<1>1. TypeInv
  BY DEF TypeInv, Steps, PageState, Fresh, NoRights
<1>2. ChosenInv /\ EndsInv
  BY DEF ChosenInv, EndsInv
<1>3. KeysInv
  BY DEF KeysInv, NoRights, Fresh, Protecting
<1>4. \A p \in Pages : Open(p)
  BY DEF Open, Fresh, NoRights
<1>5. BufferInv /\ HeapInv
  BY <1>4 DEF BufferInv, HeapInv, Protecting
<1> QED
  BY <1>1, <1>2, <1>3, <1>5 DEF WorkInv

----------------------------------------------------------------------------
(* The steps that no page and no key is involved in.                        *)
LEMMA MemoryKept ==
  ASSUME WorkInv, UNCHANGED <<source, host, work, pkuVars>>, pc \in {"detect", "loop", "print"},
         pc' \in {"detect", "loop", "print"}, pc' = "loop" => pc # "print" \/ work \notin PkuPrograms,
         kernel' = kernel \/ pc = "detect"
  PROVE  TypeInv' /\ KeysInv' /\ BufferInv' /\ HeapInv'
<1> USE DEF WorkInv
<1>1. TypeInv'
  BY DEF TypeInv, Steps, PageState, pkuVars
<1>2. KeysInv'
  BY DEF KeysInv, ChosenInv, Protecting, pkuVars
<1>3. BufferInv'
  BY DEF BufferInv, Steps, Protecting
<1>4. HeapInv'
  <2>1. work = "old_pku" => pc # "print" /\ work \in PkuPrograms
    BY DEF ChosenInv, PkuPrograms
  <2>2. \A p \in Pages : Open(p)' <=> Open(p)
    BY DEF Open, pkuVars
  <2> QED
    BY <2>1, <2>2 DEF HeapInv, Protecting, pkuVars
<1> QED
  BY <1>1, <1>2, <1>3, <1>4

LEMMA DetectInv ==
  ASSUME WorkInv, Detect
  PROVE  WorkInv'
<1> USE DEF Detect, Active
<1>1. WorkInv
  OBVIOUS
<1>0. PICK found \in Findable :
        IF found = {} THEN Ends("exited") /\ UNCHANGED kernel
        ELSE kernel' \in { k \in found : \A j \in found : k <= j } /\ Proceeds("loop")
  OBVIOUS
<1>00. found \subseteq Usable
  BY DEF Findable
<1>2. CASE found = {}
  <2>1. UNCHANGED <<source, host, work, pkuVars, pc, kernel, moved, isaset, ready, verdict>> /\ status' = "exited"
    BY <1>0, <1>2 DEF Ends
  <2>2. TypeInv' /\ KeysInv' /\ BufferInv' /\ HeapInv'
    BY <2>1, MemoryKept
  <2>3. ChosenInv'
    BY <1>1, <2>1 DEF WorkInv, ChosenInv, Runs
  <2>4. EndsInv'
    BY <1>1, <2>1 DEF WorkInv, ChosenInv, EndsInv
  <2> QED
    BY <2>2, <2>3, <2>4 DEF WorkInv
<1>3. CASE found # {}
  <2>1. /\ UNCHANGED <<source, host, work, pkuVars, moved, isaset, ready, verdict, status>> /\ pc' = "loop"
        /\ kernel' \in Usable
    BY <1>0, <1>00, <1>3 DEF Proceeds
  <2>2. TypeInv' /\ KeysInv' /\ BufferInv' /\ HeapInv'
    BY <2>1, MemoryKept
  <2>3. kernel' \in DOMAIN Kernels[work] /\ Kernels[work][kernel'].tests \subseteq source /\ ~moved /\ ~ready
    BY <1>1, <2>1 DEF Usable, WorkInv, ChosenInv
  <2>4. ChosenInv'
    BY <1>1, <2>1, <2>3 DEF WorkInv, ChosenInv, Steps
  <2>5. EndsInv'
    BY <1>1, <2>1, <2>3 DEF WorkInv, EndsInv
  <2> QED
    BY <2>2, <2>4, <2>5 DEF WorkInv
<1> QED
  BY <1>2, <1>3

(* An instruction of the kernel fails only where the prediction said so, or *)
(* before the workload was ready.                                           *)
LEMMA ExecutesFacts ==
  ASSUME WorkInv, pc # "detect", NEW step, Executes(step)
  PROVE  \/ Proceeds(step) /\ Runs \subseteq host /\ (~moved => Runs \subseteq source)
         \/ Ends("SIGILL") /\ (moved /\ Predicted => Overlooked)
<1>1. /\ ~moved => host = source
      /\ moved => Runs \subseteq source /\ Certain \subseteq isaset
  BY DEF WorkInv, ChosenInv, EndsInv
<1> QED
  BY <1>1, RunsPredicted DEF Executes

LEMMA ComputeInv ==
  ASSUME WorkInv, Active("loop"), work \notin PkuPrograms, Executes("print"),
         UNCHANGED <<source, host, work, kernel, ready, moved, isaset, verdict, pkuVars>>
  PROVE  WorkInv'
<1> USE DEF Active
<1>1. pc' \in {"loop", "print"}
  BY ExecutesFacts DEF Proceeds, Ends
<1>2. TypeInv' /\ KeysInv' /\ BufferInv' /\ HeapInv'
  BY <1>1, MemoryKept
<1>3. ChosenInv'
  BY <1>1, ExecutesFacts DEF WorkInv, ChosenInv, Proceeds, Ends, Runs, Steps
<1>4. (Predicted' <=> Predicted) /\ (Overlooked' <=> Overlooked) /\ Certain' = Certain
  BY DEF Predicted, Overlooked, Runs, Certain
<1>5. EndsInv'
  BY <1>4, ExecutesFacts DEF WorkInv, EndsInv, Proceeds, Ends
<1> QED
  BY <1>2, <1>3, <1>5 DEF WorkInv

LEMMA PrintInv ==
  ASSUME WorkInv, PrintResult
  PROVE  WorkInv'
<1> USE DEF PrintResult, Active, Proceeds
<1>0. work \notin PkuPrograms
  BY DEF WorkInv, ChosenInv
<1>1. TypeInv' /\ KeysInv' /\ BufferInv' /\ HeapInv'
  BY <1>0, MemoryKept
<1>2. ChosenInv'
  BY DEF WorkInv, ChosenInv, Runs, Steps
<1>3. (Overlooked' <=> Overlooked) /\ Certain' = Certain
  BY DEF Overlooked, Runs, Certain
<1>4. EndsInv'
  BY <1>3 DEF WorkInv, EndsInv
<1> QED
  BY <1>1, <1>2, <1>4 DEF WorkInv

----------------------------------------------------------------------------
(* The pku programs. Which kernel runs and how the process may end is the   *)
(* same argument for all of their steps ...                                 *)
LEMMA PkuChosen ==
  ASSUME WorkInv, work \in PkuPrograms, pc # "detect", pc' \in Steps \ {"detect", "print"},
         UNCHANGED <<source, host, work, kernel, moved, isaset>>
  PROVE  ChosenInv' /\ kernel \in {1, 2} /\ (kernel = 1 => "PKU" \in source)
<1>1. kernel \in DOMAIN Kernels[work] /\ Kernels[work][kernel].tests \subseteq source /\ (~moved => host = source)
  BY DEF WorkInv, ChosenInv
<1>2. Runs \subseteq source /\ kernel \in {1, 2} /\ (kernel = 1 => "PKU" \in source)
  BY <1>1, PkuFacts DEF Runs
<1> QED
  BY <1>1, <1>2 DEF ChosenInv, Runs, PkuPrograms

LEMMA RunsOn ==
  ASSUME WorkInv, status = "running", verdict = "none", verdict' = "none",
         UNCHANGED <<source, host, work, kernel, moved, isaset>>,
         \/ status' = "running"
         \/ status' = "exited" /\ (moved /\ Predicted => Exhausted' \/ LostKey' \/ Overlooked)
         \/ status' = "SIGILL" /\ (moved /\ Predicted => Overlooked)
  PROVE  EndsInv'
<1>1. (Predicted' <=> Predicted) /\ (Overlooked' <=> Overlooked) /\ Certain' = Certain
  BY DEF Predicted, Overlooked, Runs, Certain
<1>2. moved' => Certain' \subseteq isaset'
  BY <1>1 DEF WorkInv, EndsInv
<1> QED
  BY <1>1, <1>2 DEF EndsInv

(* ... which leaves the memory.                                             *)
LEMMA OpenFacts ==
  ASSUME Open(buffer)
  PROVE  Writable /\ Readable
BY DEF Open, Writable, Readable, Allowed

LEMMA MapInv ==
  ASSUME WorkInv, Map
  PROVE  WorkInv'
<1> USE DEF Map, Active, Proceeds
<1>1. ChosenInv'
  BY PkuChosen DEF Steps
<1>2. EndsInv'
  BY RunsOn
<1>3. TypeInv'
  BY DEF WorkInv, TypeInv, Steps, PageState, Fresh
<1>4. KeysInv'
  BY DEF WorkInv, TypeInv, KeysInv, Fresh, Protecting
<1>5. rights[0] = "rw" /\ (work = "old_pku" => \A p \in Pages : Open(p)) /\ pages \in [Pages -> PageState]
  BY DEF WorkInv, TypeInv, KeysInv, HeapInv, Protecting
<1>6. Open(buffer)'
  BY <1>5 DEF Open, Fresh, PkuPrograms
<1>7. BufferInv'
  BY <1>6 DEF BufferInv, Protecting
<1>8. HeapInv'
  BY <1>5 DEF WorkInv, HeapInv, Open, Protecting
<1> QED
  BY <1>1, <1>2, <1>3, <1>4, <1>7, <1>8 DEF WorkInv

LEMMA WriteBeforeInv ==
  ASSUME WorkInv, WriteBefore
  PROVE  WorkInv'
<1> USE DEF WriteBefore, Write, Active
<1>1. work \in PkuPrograms /\ Open(buffer)
  BY DEF WorkInv, ChosenInv, BufferInv, Steps, Protecting
<1>2. /\ UNCHANGED <<source, host, work, kernel, ready, moved, isaset, verdict, status, pages, buffer, keys, pkey,
                     rights, blocked>>
      /\ value' = "before" /\ pc' = "protect"
  BY <1>1, OpenFacts DEF Writes, Segfaults, Proceeds
<1>3. ChosenInv' /\ EndsInv'
  BY <1>1, <1>2, PkuChosen, RunsOn DEF Steps
<1>4. TypeInv' /\ KeysInv'
  BY <1>2 DEF WorkInv, TypeInv, KeysInv, Steps, Protecting
<1>5. BufferInv' /\ HeapInv'
  BY <1>1, <1>2 DEF WorkInv, BufferInv, HeapInv, Open, Protecting
<1> QED
  BY <1>3, <1>4, <1>5 DEF WorkInv

(* The second write gets through only to a page that has lost its key.      *)
LEMMA WriteDuringInv ==
  ASSUME WorkInv, WriteDuring
  PROVE  WorkInv'
<1> USE DEF WriteDuring, Write, Active
<1>1. work \in PkuPrograms /\ ~blocked
  BY DEF WorkInv, ChosenInv, KeysInv, Steps
<1>2. /\ UNCHANGED <<source, host, work, kernel, ready, moved, isaset, verdict, status, pages, buffer, keys, pkey>>
      /\ pc' = "unprotect" /\ ~blocked'
      /\ value' = value \/ (value' = "during" /\ Writable)
      /\ rights' = rights \/ (rights' = NoRights /\ work = "pku")
  <2>1. CASE Writes("during", "unprotect")
    BY <1>1, <2>1 DEF Writes, Proceeds
  <2>2. CASE Segfaults("unprotect") /\ work = "pku"
    BY <1>1, <2>2 DEF Segfaults, Proceeds, Jumped
  <2>3. CASE Segfaults("unprotect") /\ work = "old_pku"
    BY <1>1, <2>3 DEF Segfaults, Proceeds
  <2> QED
    BY <1>1, <2>1, <2>2, <2>3 DEF PkuPrograms
<1>3. ChosenInv' /\ EndsInv' /\ kernel \in {1, 2}
  BY <1>1, <1>2, PkuChosen, RunsOn DEF Steps
<1>4. TypeInv'
  BY <1>2 DEF WorkInv, TypeInv, Steps, NoRights
<1>5. KeysInv'
  BY <1>2 DEF WorkInv, KeysInv, NoRights, Protecting
<1>6. Writable => kernel = 1 /\ pages[buffer].key = 0
  <2> SUFFICES ASSUME Writable PROVE kernel = 1 /\ pages[buffer].key = 0
    OBVIOUS
  <2>1. kernel = 1
    BY <1>3 DEF WorkInv, BufferInv, Writable, Protecting
  <2>2. pages[buffer].key \in {0, pkey} /\ rights[pkey] = "r" /\ pkey \in Keys
    BY <2>1 DEF WorkInv, BufferInv, KeysInv, Protecting
  <2>3. "PKU" \notin host => pages[buffer].key = 0
    BY DEF WorkInv, KeysInv, TypeInv
  <2> QED
    BY <2>1, <2>2, <2>3 DEF Writable, Allowed
<1>7. BufferInv'
  BY <1>2, <1>6 DEF WorkInv, BufferInv, Protecting
<1>8. HeapInv'
  BY <1>2 DEF WorkInv, HeapInv, Protecting
<1> QED
  BY <1>3, <1>4, <1>5, <1>7, <1>8 DEF WorkInv

LEMMA WriteAfterInv ==
  ASSUME WorkInv, WriteAfter
  PROVE  WorkInv'
<1> USE DEF WriteAfter, Write, Active
<1>1. work \in PkuPrograms /\ Open(buffer)
  BY DEF WorkInv, ChosenInv, BufferInv, Steps, Protecting
<1>2. /\ UNCHANGED <<source, host, work, kernel, ready, moved, isaset, verdict, status, pages, buffer, keys, pkey,
                     rights, blocked>>
      /\ value' = "after" /\ pc' = "read"
  BY <1>1, OpenFacts DEF Writes, Segfaults, Proceeds
<1>3. ChosenInv' /\ EndsInv'
  BY <1>1, <1>2, PkuChosen, RunsOn DEF Steps
<1>4. TypeInv' /\ KeysInv'
  BY <1>2 DEF WorkInv, TypeInv, KeysInv, Steps, Protecting
<1>5. BufferInv' /\ HeapInv'
  BY <1>1, <1>2 DEF WorkInv, BufferInv, HeapInv, Open, Protecting
<1> QED
  BY <1>3, <1>4, <1>5 DEF WorkInv

LEMMA ReadInv ==
  ASSUME WorkInv, Read
  PROVE  WorkInv'
<1> USE DEF Read, Active
<1>1. work \in PkuPrograms /\ Open(buffer)
  BY DEF WorkInv, ChosenInv, BufferInv, Steps, Protecting
<1>2. Readable
  BY <1>1, OpenFacts
<1>3. UNCHANGED <<source, host, work, kernel, ready, moved, isaset, verdict, status, pkuVars>> /\ pc' = "close"
  BY <1>2 DEF Proceeds
<1>4. ChosenInv' /\ EndsInv'
  BY <1>1, <1>3, PkuChosen, RunsOn DEF Steps
<1>5. TypeInv' /\ KeysInv'
  BY <1>3 DEF WorkInv, TypeInv, KeysInv, Steps, Protecting, pkuVars
<1>6. BufferInv' /\ HeapInv'
  BY <1>1, <1>3 DEF WorkInv, BufferInv, HeapInv, Open, Protecting, pkuVars
<1> QED
  BY <1>4, <1>5, <1>6 DEF WorkInv

LEMMA CloseInv ==
  ASSUME WorkInv, Close
  PROVE  WorkInv'
<1> USE DEF Close, Active, Proceeds
<1>1. work \in PkuPrograms
  BY DEF WorkInv, ChosenInv, Steps
<1>2. ChosenInv' /\ EndsInv'
  BY <1>1, PkuChosen, RunsOn DEF Steps
<1>3. TypeInv' /\ KeysInv'
  BY DEF WorkInv, TypeInv, KeysInv, Steps, Protecting
<1>4. work = "old_pku" => keys' = {}
  BY DEF WorkInv, KeysInv, HeapInv
<1>5. BufferInv' /\ HeapInv'
  BY <1>4 DEF WorkInv, BufferInv, HeapInv, Open, Protecting
<1> QED
  BY <1>2, <1>3, <1>5 DEF WorkInv

----------------------------------------------------------------------------
(* Keys run out only in pku: the earlier program has none at this step. And *)
(* only there, as a host that is predicted to be compatible has keys.       *)
LEMMA AllocInv ==
  ASSUME WorkInv, pkey_alloc
  PROVE  WorkInv'
<1> USE DEF pkey_alloc, Active
<1>1. work \in PkuPrograms /\ Open(buffer) /\ value = "before"
  BY DEF WorkInv, ChosenInv, BufferInv, Steps, Protecting
<1>2. CASE "PKU" \in host /\ Keys \ keys # {}
  <2>1. /\ pkey' \in Keys \ keys /\ keys' = keys \cup {pkey'} /\ rights' = [rights EXCEPT ![pkey'] = "rw"]
        /\ pc' = "pkey_mprotect" /\ status' = "running"
        /\ UNCHANGED <<source, host, work, kernel, ready, moved, isaset, verdict, pages, buffer, value, blocked>>
    BY <1>2 DEF Proceeds
  <2>2. ChosenInv' /\ EndsInv'
    BY <1>1, <2>1, PkuChosen, RunsOn DEF Steps
  <2>3. TypeInv'
    BY <2>1 DEF WorkInv, TypeInv, Steps
  <2>4. KeysInv'
    BY <1>2, <2>1 DEF WorkInv, TypeInv, KeysInv, Protecting
  <2>5. \A p \in Pages : Open(p) => Open(p)'
    BY <2>1 DEF Open, WorkInv, TypeInv
  <2>6. BufferInv'
    BY <1>1, <2>1, <2>5 DEF BufferInv, WorkInv, TypeInv, Protecting
  <2>7. HeapInv'
    BY <2>1, <2>5 DEF WorkInv, HeapInv, Protecting
  <2> QED
    BY <2>2, <2>3, <2>4, <2>6, <2>7 DEF WorkInv
<1>3. CASE ~("PKU" \in host /\ Keys \ keys # {})
  <2>1. /\ status' = "exited" /\ pc' = "protect"
        /\ UNCHANGED <<source, host, work, kernel, ready, moved, isaset, verdict, pages, buffer, value, blocked, pkey,
                       keys, rights>>
    BY <1>3 DEF Ends
  <2>2. ChosenInv' /\ "PKU" \in source
    BY <1>1, <2>1, PkuChosen DEF Steps
  <2>3. moved /\ Predicted => Exhausted' \/ Overlooked
    <3> SUFFICES ASSUME moved, Predicted, ~Overlooked PROVE Exhausted'
      OBVIOUS
    <3>0. "PKU" \in host
      BY <1>1, <2>2, PkuPredicted DEF WorkInv, EndsInv
    <3>1. keys = Keys
      BY <1>3, <3>0 DEF WorkInv, TypeInv
    <3>2. work # "old_pku"
      BY <3>1, KeysAssumption DEF WorkInv, HeapInv
    <3> QED
      BY <1>1, <2>1, <3>1, <3>2 DEF Exhausted, PkuPrograms
  <2>4. EndsInv'
    BY <2>1, <2>3, RunsOn
  <2>5. TypeInv' /\ KeysInv' /\ BufferInv' /\ HeapInv'
    BY <2>1 DEF WorkInv, TypeInv, KeysInv, BufferInv, HeapInv, Open
  <2> QED
    BY <2>2, <2>4, <2>5 DEF WorkInv
<1> QED
  BY <1>2, <1>3

LEMMA KeyGivenInv ==
  ASSUME WorkInv, pkey_mprotect
  PROVE  WorkInv'
<1> USE DEF pkey_mprotect, Active
<1>1. work \in PkuPrograms /\ value = "before" /\ kernel = 1 /\ rights[pkey] = "rw" /\ Open(buffer)
  BY DEF WorkInv, ChosenInv, BufferInv, KeysInv, Steps, Protecting
<1>2. CASE pkey \in keys
  <2>1. /\ pages' = [pages EXCEPT ![buffer] = [key |-> pkey, prot |-> "rw"]]
        /\ pc' = "pkey_set" /\ status' = "running"
        /\ UNCHANGED <<source, host, work, kernel, ready, moved, isaset, verdict, buffer, value, keys, pkey, rights, blocked>>
    BY <1>2 DEF Proceeds
  <2>2. ChosenInv' /\ EndsInv'
    BY <1>1, <2>1, PkuChosen, RunsOn DEF Steps
  <2>3. TypeInv'
    BY <2>1 DEF WorkInv, TypeInv, Steps, PageState
  <2>4. KeysInv'
    BY <1>1, <1>2, <2>1 DEF WorkInv, KeysInv, Protecting
  <2>5. pages'[buffer] = [key |-> pkey, prot |-> "rw"] /\ Open(buffer)'
    BY <1>1, <2>1 DEF Open, WorkInv, TypeInv
  <2>6. \A p \in Pages : Open(p) => Open(p)'
    BY <1>1, <2>1 DEF Open, WorkInv, TypeInv
  <2>7. BufferInv'
    BY <1>1, <2>1, <2>5 DEF BufferInv, Protecting
  <2>8. HeapInv'
    BY <2>1, <2>6 DEF WorkInv, HeapInv, Protecting
  <2> QED
    BY <2>2, <2>3, <2>4, <2>7, <2>8 DEF WorkInv
<1>3. CASE pkey \notin keys
  <2>1. /\ status' = "exited" /\ pc' = pc
        /\ UNCHANGED <<source, host, work, kernel, ready, moved, isaset, verdict, pages, buffer, value, blocked, pkey,
                       keys, rights>>
    BY <1>3 DEF Ends
  <2>2. ChosenInv'
    BY <1>1, <2>1, PkuChosen DEF Steps
  <2>3. EndsInv'
    BY <1>1, <1>3, <2>1, RunsOn DEF LostKey
  <2>4. TypeInv' /\ KeysInv' /\ BufferInv' /\ HeapInv'
    BY <2>1 DEF WorkInv, TypeInv, KeysInv, BufferInv, HeapInv, Open
  <2> QED
    BY <2>2, <2>3, <2>4 DEF WorkInv
<1> QED
  BY <1>2, <1>3

(* pkey_set where the host has no keys: SIGILL, and nothing else happens.   *)
LEMMA IllegalInv ==
  ASSUME WorkInv, Active(pc), work \in PkuPrograms, pc # "print", pc # "detect", Ends("SIGILL"), (moved /\ Predicted => Overlooked),
         UNCHANGED <<source, host, work, kernel, ready, moved, isaset, verdict, pkuVars>>
  PROVE  WorkInv'
<1> USE DEF Active, Ends, pkuVars
<1>1. ChosenInv'
  BY PkuChosen DEF WorkInv, TypeInv
<1>2. EndsInv'
  BY RunsOn
<1>3. TypeInv' /\ KeysInv' /\ BufferInv' /\ HeapInv'
  BY DEF WorkInv, TypeInv, KeysInv, BufferInv, HeapInv, Open
<1> QED
  BY <1>1, <1>2, <1>3 DEF WorkInv

LEMMA SetFacts ==
  ASSUME WorkInv, NEW step \in {"pkey_set", "unprotect"}, NEW right, NEW next, pkey_set(step, right, next)
  PROVE  /\ work \in PkuPrograms /\ pkey \in Keys
         /\ \/ /\ pc' = next /\ status' = "running"
               /\ rights' = [rights EXCEPT ![pkey] = right]
               /\ "PKU" \in host
            \/ Ends("SIGILL") /\ (moved /\ Predicted => Overlooked) /\ rights' = rights
<1> USE DEF pkey_set, Active
<1>1. work \in PkuPrograms /\ pkey \in Keys /\ kernel \in DOMAIN Kernels[work]
  BY DEF WorkInv, ChosenInv, KeysInv, Steps, Protecting
<1>2. Runs = {"PKU"}
  BY <1>1, PkuFacts DEF Runs
<1> QED
  BY <1>1, <1>2, ExecutesFacts DEF Proceeds, Executes

LEMMA ProtectInv ==
  ASSUME WorkInv, protect
  PROVE  WorkInv'
<1>1. CASE pkey_set("pkey_set", "r", "during")
  <2> USE <1>1 DEF pkey_set, Active
  <2>1. CASE /\ pc' = "during" /\ status' = "running"
             /\ rights' = [rights EXCEPT ![pkey] = "r"]
             /\ "PKU" \in host
    <3>1. work \in PkuPrograms /\ pkey \in Keys /\ Open(buffer) /\ value = "before"
      BY SetFacts DEF WorkInv, BufferInv, Steps, Protecting
    <3>2. ChosenInv' /\ EndsInv'
      BY <2>1, <3>1, PkuChosen, RunsOn DEF Steps
    <3>3. TypeInv'
      BY <2>1 DEF WorkInv, TypeInv, Steps
    <3>4. KeysInv'
      BY <2>1, <3>1, KeysAssumption DEF WorkInv, TypeInv, KeysInv, Protecting
    <3>5. BufferInv'
      BY <2>1, <3>1 DEF WorkInv, TypeInv, BufferInv, Open, Protecting
    <3>6. HeapInv'
      BY <2>1, <3>1 DEF WorkInv, TypeInv, PageState, HeapInv, Open, Protecting
    <3> QED
      BY <3>2, <3>3, <3>4, <3>5, <3>6 DEF WorkInv
  <2>2. CASE Ends("SIGILL") /\ (moved /\ Predicted => Overlooked) /\ rights' = rights
    BY <2>2, SetFacts, IllegalInv DEF pkuVars
  <2> QED
    BY <2>1, <2>2, SetFacts
<1>2. CASE mprotect("protect", "r", "during")
  <2> USE <1>2 DEF mprotect, Active, Proceeds
  <2>1. work \in PkuPrograms /\ Open(buffer) /\ value = "before"
    BY DEF WorkInv, ChosenInv, BufferInv, Steps, Protecting
  <2>2. ChosenInv' /\ EndsInv'
    BY <2>1, PkuChosen, RunsOn DEF Steps
  <2>3. /\ pages' \in [Pages -> PageState]
        /\ \A p \in Pages : pages'[p].key = pages[p].key /\ (p # buffer => pages'[p].prot = pages[p].prot)
        /\ pages'[buffer].prot = "r"
    BY DEF WorkInv, TypeInv, PageState
  <2>4. TypeInv'
    BY <2>3 DEF WorkInv, TypeInv, Steps
  <2>5. KeysInv'
    BY <2>3 DEF WorkInv, KeysInv, Protecting
  <2>6. BufferInv'
    BY <2>1, <2>3 DEF BufferInv, Protecting
  <2>7. HeapInv'
    BY <2>3 DEF WorkInv, HeapInv, Open, Protecting
  <2> QED
    BY <2>2, <2>4, <2>5, <2>6, <2>7 DEF WorkInv
<1> QED
  BY <1>1, <1>2 DEF protect

LEMMA UnprotectInv ==
  ASSUME WorkInv, unprotect
  PROVE  WorkInv'
<1>1. CASE pkey_set("unprotect", "rw", "after")
  <2> USE <1>1 DEF pkey_set, Active
  <2>1. CASE /\ pc' = "after" /\ status' = "running"
             /\ rights' = [rights EXCEPT ![pkey] = "rw"]
             /\ "PKU" \in host
    <3>1. work \in PkuPrograms /\ pkey \in Keys
      BY SetFacts
    <3>2. ChosenInv' /\ EndsInv'
      BY <2>1, <3>1, PkuChosen, RunsOn DEF Steps
    <3>3. TypeInv'
      BY <2>1 DEF WorkInv, TypeInv, Steps
    <3>4. KeysInv'
      BY <2>1, <3>1 DEF WorkInv, TypeInv, KeysInv, Protecting
    <3>5. Open(buffer)'
      BY <2>1, <3>1 DEF WorkInv, TypeInv, KeysInv, BufferInv, Open, Protecting
    <3>6. BufferInv'
      BY <2>1, <3>5 DEF BufferInv, Protecting
    <3>7. work = "old_pku" => \A p \in Pages : Open(p)'
      BY <2>1, <3>1, <3>5 DEF WorkInv, TypeInv, PageState, HeapInv, Open, Protecting
    <3>8. HeapInv'
      BY <2>1, <3>7 DEF WorkInv, HeapInv, Protecting
    <3> QED
      BY <3>2, <3>3, <3>4, <3>6, <3>8 DEF WorkInv
  <2>2. CASE Ends("SIGILL") /\ (moved /\ Predicted => Overlooked) /\ rights' = rights
    BY <2>2, SetFacts, IllegalInv DEF pkuVars
  <2> QED
    BY <2>1, <2>2, SetFacts
<1>2. CASE mprotect("unprotect", "rw", "after")
  <2> USE <1>2 DEF mprotect, Active, Proceeds
  <2>1. work \in PkuPrograms
    BY DEF WorkInv, ChosenInv, Steps
  <2>2. ChosenInv' /\ EndsInv'
    BY <2>1, PkuChosen, RunsOn DEF Steps
  <2>3. /\ pages' \in [Pages -> PageState]
        /\ \A p \in Pages : pages'[p].key = pages[p].key /\ (p # buffer => pages'[p].prot = pages[p].prot)
        /\ pages'[buffer].prot = "rw"
    BY DEF WorkInv, TypeInv, PageState
  <2>4. TypeInv'
    BY <2>3 DEF WorkInv, TypeInv, Steps
  <2>5. KeysInv' /\ rights[0] = "rw" /\ buffer \in Pages /\ \A p \in Pages : pages[p].key = 0
    BY <2>3 DEF WorkInv, TypeInv, KeysInv, Protecting
  <2>6. Open(buffer)'
    BY <2>3, <2>5 DEF Open
  <2>7. BufferInv'
    BY <2>6 DEF BufferInv, Protecting
  <2>8. work = "old_pku" => \A p \in Pages : Open(p)'
    BY <2>3, <2>5, <2>6 DEF WorkInv, HeapInv, Open, Protecting
  <2>9. HeapInv'
    BY <2>8 DEF WorkInv, HeapInv, Protecting
  <2> QED
    BY <2>2, <2>4, <2>5, <2>7, <2>9 DEF WorkInv
<1> QED
  BY <1>1, <1>2 DEF unprotect

----------------------------------------------------------------------------
(* A page that loses its key gets key 0, which permits everything.          *)
LEMMA MigrateInv ==
  ASSUME WorkInv, NEW d \in Hosts, Migrate(d)
  PROVE  WorkInv'
<1> USE DEF Migrate
<1>1. pc # "detect" /\ UNCHANGED <<source, work, status, pc, kernel, verdict, buffer, value, pkey, rights, blocked>>
  BY DEF WorkInv, ChosenInv
<1>2. ChosenInv'
  BY <1>1 DEF WorkInv, ChosenInv, Runs
<1>0. work \in Programs /\ Certain' = Certain
  BY DEF WorkInv, TypeInv, Certain
<1>a. Certain \subseteq isaset'
  BY <1>0, AnalysisFinds DEF Certain
<1>3. EndsInv'
  BY <1>0, <1>a, <1>1 DEF WorkInv, EndsInv
<1>4. /\ pages' \in [Pages -> PageState] /\ keys' \subseteq keys
      /\ \A p \in Pages : pages'[p].prot = pages[p].prot /\ pages'[p].key \in {pages[p].key, 0}
  BY DEF WorkInv, TypeInv, PageState
<1>5. TypeInv'
  BY <1>1, <1>4 DEF WorkInv, TypeInv
<1>6. rights[0] = "rw" /\ KeysInv'
  BY <1>1 DEF WorkInv, TypeInv, PageState, KeysInv
<1>7. \A p \in Pages : Open(p) => Open(p)'
  BY <1>1, <1>4, <1>6 DEF Open
<1>8. BufferInv'
  BY <1>1, <1>4, <1>7 DEF WorkInv, TypeInv, BufferInv
<1>9. HeapInv'
  BY <1>1, <1>4, <1>6, <1>7 DEF WorkInv, HeapInv
<1> QED
  BY <1>2, <1>3, <1>5, <1>6, <1>8, <1>9 DEF WorkInv

LEMMA PollInv ==
  ASSUME WorkInv, Poll
  PROVE  WorkInv'
<1> USE DEF Poll, pkuVars
<1>1. ChosenInv'
  BY DEF WorkInv, ChosenInv, Runs
<1>2. (Predicted' <=> Predicted) /\ (Exhausted' <=> Exhausted) /\ (LostKey' <=> LostKey)
     /\ (Overlooked' <=> Overlooked) /\ Certain' = Certain
  BY DEF Predicted, Exhausted, LostKey, Overlooked, Runs, Certain
<1>3. EndsInv'
  BY <1>2 DEF WorkInv, EndsInv
<1>4. TypeInv' /\ KeysInv' /\ BufferInv' /\ HeapInv'
  BY DEF WorkInv, TypeInv, KeysInv, BufferInv, HeapInv, Open
<1> QED
  BY <1>1, <1>3, <1>4 DEF WorkInv

LEMMA WorkInvStep == WorkInv /\ [Next]_vars => WorkInv'
<1> SUFFICES ASSUME WorkInv, [Next]_vars PROVE WorkInv'
  OBVIOUS
<1>1. CASE Detect
  BY <1>1, DetectInv
<1>2. CASE Compute
  BY <1>2, ComputeInv DEF Compute
<1>3. CASE DotProduct
  BY <1>3, ComputeInv DEF DotProduct, PkuPrograms
<1>4. CASE PrintResult
  BY <1>4, PrintInv
<1>5. CASE Map
  BY <1>5, MapInv
<1>6. CASE WriteBefore
  BY <1>6, WriteBeforeInv
<1>7. CASE WriteDuring
  BY <1>7, WriteDuringInv
<1>8. CASE WriteAfter
  BY <1>8, WriteAfterInv
<1>9. CASE Read
  BY <1>9, ReadInv
<1>10. CASE Close
  BY <1>10, CloseInv
<1>11. CASE pkey_alloc
  BY <1>11, AllocInv
<1>12. CASE pkey_mprotect
  BY <1>12, KeyGivenInv
<1>13. CASE protect
  BY <1>13, ProtectInv
<1>14. CASE unprotect
  BY <1>14, UnprotectInv
<1>15. CASE \E d \in Hosts : Migrate(d)
  BY <1>15, MigrateInv
<1>16. CASE Poll
  BY <1>16, PollInv
<1>17. CASE UNCHANGED vars
  <2> USE <1>17 DEF vars, pkuVars
  <2>1. (Predicted' <=> Predicted) /\ (Exhausted' <=> Exhausted) /\ (LostKey' <=> LostKey)
     /\ (Overlooked' <=> Overlooked) /\ Certain' = Certain
    BY DEF Predicted, Exhausted, LostKey, Overlooked, Runs, Certain
  <2>2. ChosenInv' /\ EndsInv'
    BY <2>1 DEF WorkInv, ChosenInv, EndsInv, Runs
  <2>3. TypeInv' /\ KeysInv' /\ BufferInv' /\ HeapInv'
    BY DEF WorkInv, TypeInv, KeysInv, BufferInv, HeapInv, Open
  <2> QED
    BY <2>2, <2>3 DEF WorkInv
<1> QED
  BY <1>1, <1>2, <1>3, <1>4, <1>5, <1>6, <1>7, <1>8, <1>9, <1>10, <1>11, <1>12, <1>13, <1>14, <1>15, <1>16,
     <1>17 DEF Next

----------------------------------------------------------------------------
(* The inductive invariant of the workloads: the kernel runs on the source, *)
(* the process ends only as the prediction allows, the memory is open       *)
(* exactly when the pku programs expect it.                                 *)
THEOREM WorkInvariance == Spec => []WorkInv
BY InitWorkInv, WorkInvStep, PTL DEF Spec

(* A workload that evaluate_combination predicts to be compatible does not  *)
(* crash after its restore, on any hosts, in whatever order the analysis    *)
(* has decoded what mnemonics: unless pku has run out of keys or was dumped *)
(* just after it got one, or all that the host lacks are ISA-SETs without a *)
(* mnemonic of their own that the tracker cannot overlook.                  *)
THEOREM NoFalsePositiveHolds == Spec => []NoFalsePositive
<1>1. WorkInv => NoFalsePositive
  <2> SUFFICES ASSUME WorkInv, Predicted, verdict = "crashed" PROVE Exhausted \/ LostKey \/ Overlooked
    BY DEF NoFalsePositive
  <2>1. moved /\ status \in {"exited", "SIGILL"}
    BY DEF WorkInv, EndsInv
  <2> QED
    BY <2>1 DEF WorkInv, EndsInv
<1> QED
  BY <1>1, WorkInvariance, PTL

(* The second write of the pku programs never gets through to a page that   *)
(* has its key, the third always does, and no fault kills the process.      *)
THEOREM PageProtectedHolds == Spec => []PageProtected
<1>1. WorkInv => PageProtected
  BY DEF WorkInv, BufferInv, EndsInv, PageProtected, Active
<1> QED
  BY <1>1, WorkInvariance, PTL

----------------------------------------------------------------------------
(* Congruence modulo 2^32.                                                  *)
Same(x, y) == \E q \in Int : x = y + q * Word

LEMMA SameSum ==
  ASSUME NEW x \in Int, NEW y \in Int, NEW u \in Int, NEW v \in Int, Same(x, y), Same(u, v)
  PROVE  Same(x + u, y + v)
<1>1. PICK q \in Int : x = y + q * Word
  BY DEF Same
<1>2. PICK r \in Int : u = v + r * Word
  BY DEF Same
<1>3. q + r \in Int /\ x + u = (y + v) + (q + r) * Word
  BY <1>1, <1>2, WidthAssumption
<1> QED
  BY <1>3 DEF Same

LEMMA SameTransitive ==
  ASSUME NEW x \in Int, NEW y \in Int, NEW z \in Int, Same(x, y), Same(y, z)
  PROVE  Same(x, z)
<1>1. PICK q \in Int : x = y + q * Word
  BY DEF Same
<1>2. PICK r \in Int : y = z + r * Word
  BY DEF Same
<1>3. q + r \in Int /\ x = z + (q + r) * Word
  BY <1>1, <1>2, WidthAssumption
<1> QED
  BY <1>3 DEF Same

LEMMA SameReflexive ==
  ASSUME NEW x \in Int
  PROVE  Same(x, x)
<1>1. 0 \in Int /\ x = x + 0 * Word
  BY WidthAssumption
<1> QED
  BY <1>1 DEF Same

(* Wrap gives an integer that is congruent to its argument ...              *)
LEMMA WrapSame ==
  ASSUME NEW x \in Int
  PROVE  Wrap(x) \in Int /\ Same(Wrap(x), x)
<1> DEFINE r == x % Word
           d == x \div Word
<1>1. r \in Int /\ d \in Int /\ x = (d * Word) + r
  BY WidthAssumption
<1>2. Wrap(x) = r \/ Wrap(x) = r - Word
  BY DEF Wrap
<1> HIDE DEF r, d
<1>3. CASE Wrap(x) = r
  <2>1. 0 - d \in Int /\ Wrap(x) = x + (0 - d) * Word
    BY <1>1, <1>3, WidthAssumption
  <2> QED
    BY <1>1, <1>3, <2>1 DEF Same
<1>4. CASE Wrap(x) = r - Word
  <2>1. 0 - d - 1 \in Int /\ Wrap(x) = x + (0 - d - 1) * Word
    BY <1>1, <1>4, WidthAssumption
  <2>2. Wrap(x) \in Int
    BY <1>1, <1>4, WidthAssumption
  <2> QED
    BY <2>1, <2>2 DEF Same
<1> QED
  BY <1>2, <1>3, <1>4

(* ... and the same for all arguments that are congruent.                   *)
LEMMA WrapOfSame ==
  ASSUME NEW x \in Int, NEW y \in Int, Same(x, y)
  PROVE  Wrap(x) = Wrap(y)
<1> DEFINE r == x % Word
           d == x \div Word
           s == y % Word
           e == y \div Word
<1>1. r \in 0 .. Word - 1 /\ d \in Int /\ x = (d * Word) + r
  BY WidthAssumption
<1>2. s \in 0 .. Word - 1 /\ e \in Int /\ y = (e * Word) + s
  BY WidthAssumption
<1>3. PICK q \in Int : x = y + q * Word
  BY DEF Same
<1>4. r = s
  <2> HIDE DEF r, d, s, e
  <2>1. q + e - d \in Int /\ r = s + (q + e - d) * Word
    BY <1>1, <1>2, <1>3, WidthAssumption
  <2> DEFINE p == q + e - d
  <2>2. p \in Int /\ r = s + p * Word
    BY <2>1
  <2> HIDE DEF p
  <2> QED
    BY <1>1, <1>2, <2>2, WidthAssumption
<1> QED
  BY <1>4 DEF Wrap

(* The lanes of two registers that are added.                               *)
LEMMA PlusSum ==
  ASSUME NEW n \in Nat, NEW acc \in [1 .. n -> Int], NEW term \in [1 .. n -> Int]
  PROVE  /\ Plus(acc, term) \in [1 .. n -> Int]
         /\ Same(SumTo(Plus(acc, term), n), SumTo(acc, n) + SumTo(term, n))
<1> DEFINE sum == Plus(acc, term)
           f == PartialSum(acc, n)
           g == PartialSum(term, n)
           h == PartialSum(sum, n)
           T == { k \in Nat : k <= n => Same(h[k], f[k] + g[k]) }
<1>1. ASSUME NEW k \in 1 .. n PROVE sum[k] \in Int /\ Same(sum[k], acc[k] + term[k])
  <2>1. acc[k] + term[k] \in Int /\ sum[k] = Wrap(acc[k] + term[k])
    BY DEF Plus
  <2> QED
    BY <2>1, WrapSame
<1>2. sum \in [1 .. n -> Int]
  <2>1. sum = [k \in 1 .. n |-> sum[k]]
    BY DEF Plus
  <2> HIDE DEF sum
  <2> QED
    BY <1>1, <2>1
<1> HIDE DEF sum
<1>3. /\ f \in [0 .. n -> Int] /\ IsPartialSum(f, acc, n)
      /\ g \in [0 .. n -> Int] /\ IsPartialSum(g, term, n)
      /\ h \in [0 .. n -> Int] /\ IsPartialSum(h, sum, n)
  BY <1>2, IntegerSums
<1>4. \A k \in 1 .. n : f[k] = f[k - 1] + acc[k] /\ g[k] = g[k - 1] + term[k] /\ h[k] = h[k - 1] + sum[k]
  <2>1. ASSUME NEW k \in 1 .. n PROVE f[k] = f[k - 1] + acc[k]
    BY IntegerStep
  <2>2. ASSUME NEW k \in 1 .. n PROVE g[k] = g[k - 1] + term[k]
    BY IntegerStep
  <2>3. ASSUME NEW k \in 1 .. n PROVE h[k] = h[k - 1] + sum[k]
    BY <1>2, IntegerStep
  <2> QED
    BY <2>1, <2>2, <2>3
<1> HIDE DEF f, g, h
<1>5. 0 \in T
  <2>1. f[0] = 0 /\ g[0] = 0 /\ h[0] = 0
    BY <1>3 DEF IsPartialSum
  <2> QED
    BY <2>1, SameReflexive
<1>6. ASSUME NEW k \in Nat, k \in T PROVE k + 1 \in T
  <2> SUFFICES ASSUME k + 1 <= n PROVE Same(h[k + 1], f[k + 1] + g[k + 1])
    OBVIOUS
  <2>1. /\ f[k + 1] = f[k] + acc[k + 1]
        /\ g[k + 1] = g[k] + term[k + 1]
        /\ h[k + 1] = h[k] + sum[k + 1]
    <3>1. k + 1 \in 1 .. n /\ (k + 1) - 1 = k
      OBVIOUS
    <3> HIDE DEF T
    <3> QED
      BY <1>4, <3>1
  <2>2. /\ f[k] \in Int /\ g[k] \in Int /\ h[k] \in Int
        /\ acc[k + 1] \in Int /\ term[k + 1] \in Int /\ sum[k + 1] \in Int
    BY <1>2, <1>3
  <2>3. Same(h[k], f[k] + g[k]) /\ Same(sum[k + 1], acc[k + 1] + term[k + 1])
    BY <1>1, <1>6
  <2>4. Same(h[k] + sum[k + 1], (f[k] + g[k]) + (acc[k + 1] + term[k + 1]))
    <3>1. f[k] + g[k] \in Int /\ acc[k + 1] + term[k + 1] \in Int
      BY <2>2
    <3> HIDE DEF T
    <3> QED
      BY <2>2, <2>3, <3>1, SameSum
  <2>5. (f[k] + g[k]) + (acc[k + 1] + term[k + 1]) = f[k + 1] + g[k + 1]
    BY <2>1, <2>2
  <2> QED
    BY <2>1, <2>4, <2>5
<1>7. n \in T
  <2>1. Nat \subseteq T
    <3> HIDE DEF T
    <3> QED
      BY <1>5, <1>6, SetInduction
  <2> QED
    BY <2>1
<1> QED
  BY <1>2, <1>7 DEF SumTo, f, g, h, sum

----------------------------------------------------------------------------
(* The additions of a kernel.                                               *)
IsAccumulator(acc, term, lanes, n) ==
  acc = [k \in 0 .. n |-> IF k = 0 THEN [l \in 1 .. lanes |-> 0] ELSE Plus(acc[k - 1], term[k])]

LEMMA AccumulatorExists ==
  ASSUME NEW n \in Nat, NEW lanes, NEW term
  PROVE  \E acc : IsAccumulator(acc, term, lanes, n)
<1> DEFINE T == { m \in Nat : \E acc : IsAccumulator(acc, term, lanes, m) }
<1>1. 0 \in T
  <2> DEFINE acc == [k \in 0 .. 0 |-> [l \in 1 .. lanes |-> 0]]
  <2>1. IsAccumulator(acc, term, lanes, 0)
    BY DEF IsAccumulator
  <2> QED
    BY <2>1
<1>2. ASSUME NEW m \in Nat, m \in T PROVE m + 1 \in T
  <2>1. PICK acc : IsAccumulator(acc, term, lanes, m)
    BY <1>2
  <2> DEFINE last == Plus(acc[m], term[m + 1])
             next == [k \in 0 .. m + 1 |-> IF k = m + 1 THEN last ELSE acc[k]]
  <2> HIDE DEF last
  <2>2. ASSUME NEW k \in 0 .. m + 1
        PROVE  next[k] = IF k = 0 THEN [l \in 1 .. lanes |-> 0] ELSE Plus(next[k - 1], term[k])
    <3>1. CASE k = m + 1
      <4>1. k # 0 /\ k - 1 = m /\ next[k] = last /\ next[k - 1] = acc[m]
        BY <3>1
      <4> QED
        BY <3>1, <4>1 DEF last
    <3>2. CASE k = 0
      <4>1. next[k] = acc[k] /\ k \in 0 .. m
        BY <3>2
      <4> QED
        BY <2>1, <3>2, <4>1 DEF IsAccumulator
    <3>3. CASE k \in 1 .. m
      <4>1. next[k] = acc[k] /\ next[k - 1] = acc[k - 1] /\ k \in 0 .. m /\ k # 0
        BY <3>3
      <4>2. acc[k] = Plus(acc[k - 1], term[k])
        BY <2>1, <4>1 DEF IsAccumulator
      <4> QED
        BY <4>1, <4>2
    <3> QED
      BY <3>1, <3>2, <3>3
  <2>3. IsAccumulator(next, term, lanes, m + 1)
    <3>1. next = [k \in 0 .. m + 1 |-> next[k]]
      OBVIOUS
    <3> HIDE DEF next
    <3> QED
      BY <2>2, <3>1 DEF IsAccumulator
  <2> QED
    BY <2>3
<1>3. Nat \subseteq T
  <2> HIDE DEF T
  <2> QED
    BY <1>1, <1>2, SetInduction
<1> QED
  BY <1>3

LEMMA AccumulatorProperty ==
  ASSUME NEW n \in Nat, NEW lanes, NEW term
  PROVE  IsAccumulator(Accumulator(term, lanes, n), term, lanes, n)
<1> DEFINE acc == Accumulator(term, lanes, n)
<1>1. acc = CHOOSE x : IsAccumulator(x, term, lanes, n)
  BY DEF Accumulator, IsAccumulator
<1>2. IsAccumulator(acc, term, lanes, n)
  BY <1>1, AccumulatorExists
<1> QED
  BY <1>2

LEMMA AccumulatorStart ==
  ASSUME NEW n \in Nat, NEW lanes, NEW term, NEW acc, IsAccumulator(acc, term, lanes, n)
  PROVE  acc[0] = [l \in 1 .. lanes |-> 0]
<1>1. 0 \in 0 .. n
  OBVIOUS
<1> QED
  BY <1>1 DEF IsAccumulator

(* If z[k] is the sum of all lanes of the first k terms, the kernel's       *)
(* result is z[n] modulo 2^32, in whichever lane a product has been added.  *)
IsTotal(z, term, lanes, n) ==
  /\ z \in [0 .. n -> Int]
  /\ z[0] = 0
  /\ \A k \in 1 .. n : z[k] = z[k - 1] + SumTo(term[k], lanes)

LEMMA AccumulatedIs ==
  ASSUME NEW n \in Nat, NEW lanes \in Nat, NEW term \in [1 .. n -> [1 .. lanes -> Int]],
         NEW z, IsTotal(z, term, lanes, n)
  PROVE  Accumulated(term, lanes, n) = Wrap(z[n])
<1> DEFINE acc == Accumulator(term, lanes, n)
           T   == { k \in Nat : k <= n => /\ acc[k] \in [1 .. lanes -> Int]
                                          /\ Same(SumTo(acc[k], lanes), z[k]) }
<1>0. IsAccumulator(acc, term, lanes, n)
  BY AccumulatorProperty
<1> HIDE DEF acc, T
<1>1. acc[0] = [l \in 1 .. lanes |-> 0]
  BY <1>0, AccumulatorStart
<1>2. ASSUME NEW k \in 1 .. n PROVE acc[k] = Plus(acc[k - 1], term[k])
  <2>1. k \in 0 .. n /\ k # 0
    OBVIOUS
  <2> QED
    BY <1>0, <2>1 DEF IsAccumulator
<1> USE DEF T
<1>3. \A c \in [1 .. lanes -> Int] : SumTo(c, lanes) \in Int
  BY SumToInteger
<1>4. 0 \in T
  <2>1. acc[0] \in [1 .. lanes -> Int]
    BY <1>1
  <2>2. SumTo(acc[0], lanes) = 0
    BY <1>1, SumToZero
  <2> QED
    BY <2>1, <2>2, SameReflexive DEF IsTotal
<1>5. ASSUME NEW k \in Nat, k \in T PROVE k + 1 \in T
  <2> SUFFICES ASSUME k + 1 <= n
               PROVE  acc[k + 1] \in [1 .. lanes -> Int] /\ Same(SumTo(acc[k + 1], lanes), z[k + 1])
    OBVIOUS
  <2> DEFINE t == term[k + 1]
             b == acc[k]
             y == z[k]
  <2>1. t \in [1 .. lanes -> Int] /\ y \in Int
    BY DEF IsTotal
  <2>2. b \in [1 .. lanes -> Int] /\ Same(SumTo(b, lanes), y)
    BY <1>5
  <2>3. acc[k + 1] = Plus(b, t)
    <3>1. k + 1 \in 1 .. n /\ (k + 1) - 1 = k
      OBVIOUS
    <3> QED
      BY <1>2, <3>1
  <2>4. z[k + 1] = y + SumTo(t, lanes)
    <3>1. k + 1 \in 1 .. n /\ (k + 1) - 1 = k
      OBVIOUS
    <3> QED
      BY <3>1 DEF IsTotal
  <2> HIDE DEF t, b, y, T
  <2>5. Plus(b, t) \in [1 .. lanes -> Int] /\ Same(SumTo(Plus(b, t), lanes), SumTo(b, lanes) + SumTo(t, lanes))
    BY <2>1, <2>2, PlusSum
  <2>6. SumTo(b, lanes) \in Int /\ SumTo(t, lanes) \in Int /\ SumTo(Plus(b, t), lanes) \in Int
    BY <1>3, <2>1, <2>2, <2>5
  <2>7. Same(SumTo(b, lanes) + SumTo(t, lanes), y + SumTo(t, lanes))
    BY <2>1, <2>2, <2>6, SameReflexive, SameSum
  <2>8. Same(SumTo(Plus(b, t), lanes), y + SumTo(t, lanes))
    BY <2>1, <2>5, <2>6, <2>7, SameTransitive
  <2> QED
    BY <2>3, <2>4, <2>5, <2>8
<1>6. acc[n] \in [1 .. lanes -> Int] /\ Same(SumTo(acc[n], lanes), z[n])
  <2>1. Nat \subseteq T
    <3> HIDE DEF T
    <3> QED
      BY <1>4, <1>5, SetInduction
  <2> QED
    BY <2>1
<1>7. SumTo(acc[n], lanes) \in Int /\ z[n] \in Int
  BY <1>3, <1>6 DEF IsTotal
<1>8. Wrap(SumTo(acc[n], lanes)) = Wrap(z[n])
  BY <1>6, <1>7, WrapOfSame
<1> QED
  BY <1>8 DEF Accumulated, acc

----------------------------------------------------------------------------
(* Groups of two and of four neighbours add up to the same.                 *)
IsPairs(t, c, i, n) == \A l \in 1 .. n : t[l] = c[i + 2 * l - 1] + c[i + 2 * l]

IsQuads(t, c, i, n) ==
  \A l \in 1 .. n : t[l] = c[i + 4 * l - 3] + c[i + 4 * l - 2] + c[i + 4 * l - 1] + c[i + 4 * l]

LEMMA PairSum ==
  ASSUME NEW size \in Nat, NEW c \in [1 .. size -> Int], NEW i \in Nat, NEW n \in Nat, i + 2 * n <= size,
         NEW t \in [1 .. n -> Int], IsPairs(t, c, i, n)
  PROVE  SumTo(t, n) = PartialSum(c, size)[i + 2 * n] - PartialSum(c, size)[i]
<1> DEFINE s == PartialSum(c, size)
           f == [l \in 0 .. n |-> s[i + 2 * l] - s[i]]
<1>1. s \in [0 .. size -> Int] /\ IsPartialSum(s, c, size)
  BY IntegerSums
<1>2. \A k \in 1 .. size : s[k] = s[k - 1] + c[k]
  BY IntegerStep
<1> HIDE DEF s
<1>3. ASSUME NEW l \in 0 .. n
      PROVE  f[l] = IF l = 0 THEN 0 ELSE f[l - 1] + t[l]
  <2>1. CASE l = 0
    <3>1. i \in 0 .. size /\ i + 2 * l = i
      BY <2>1
    <3>2. s[i] \in Int
      BY <1>1, <3>1
    <3> QED
      BY <2>1, <3>1, <3>2
  <2>2. CASE l # 0
    <3> DEFINE p == i + 2 * l - 2
    <3>1. /\ p \in 0 .. size /\ i \in 0 .. size /\ p + 1 \in 1 .. size /\ p + 2 \in 1 .. size
          /\ (p + 1) - 1 = p /\ (p + 2) - 1 = p + 1
          /\ i + 2 * l = p + 2 /\ i + 2 * (l - 1) = p /\ i + 2 * l - 1 = p + 1 /\ l \in 1 .. n /\ l - 1 \in 0 .. n
      BY <2>2
    <3> HIDE DEF p
    <3>2. s[p + 1] = s[p] + c[p + 1]
      BY <1>2, <3>1
    <3>3. s[p + 2] = s[p + 1] + c[p + 2]
      BY <1>2, <3>1
    <3>4. t[l] = c[p + 1] + c[p + 2]
      BY <3>1 DEF IsPairs
    <3>5. f[l] = s[p + 2] - s[i] /\ f[l - 1] = s[p] - s[i]
      BY <3>1
    <3>6. s[p] \in Int /\ s[i] \in Int /\ c[p + 1] \in Int /\ c[p + 2] \in Int
      BY <1>1, <3>1
    <3>7. s[p + 2] - s[i] = (s[p] - s[i]) + (c[p + 1] + c[p + 2])
      BY <3>2, <3>3, <3>6
    <3> HIDE DEF f
    <3> QED
      BY <2>2, <3>4, <3>5, <3>7
  <2> QED
    BY <2>1, <2>2
<1>4. IsPartialSum(f, t, n)
  <2>1. f = [l \in 0 .. n |-> f[l]]
    OBVIOUS
  <2> HIDE DEF f
  <2> QED
    BY <1>3, <2>1 DEF IsPartialSum
<1>5. SumTo(t, n) = f[n]
  <2> HIDE DEF f
  <2> QED
    BY <1>4, SumIs
<1> QED
  BY <1>5 DEF s

LEMMA QuadSum ==
  ASSUME NEW size \in Nat, NEW c \in [1 .. size -> Int], NEW i \in Nat, NEW n \in Nat, i + 4 * n <= size,
         NEW t \in [1 .. n -> Int], IsQuads(t, c, i, n)
  PROVE  SumTo(t, n) = PartialSum(c, size)[i + 4 * n] - PartialSum(c, size)[i]
<1> DEFINE s == PartialSum(c, size)
           f == [l \in 0 .. n |-> s[i + 4 * l] - s[i]]
<1>1. s \in [0 .. size -> Int] /\ IsPartialSum(s, c, size)
  BY IntegerSums
<1>2. \A k \in 1 .. size : s[k] = s[k - 1] + c[k]
  BY IntegerStep
<1> HIDE DEF s
<1>3. ASSUME NEW l \in 0 .. n
      PROVE  f[l] = IF l = 0 THEN 0 ELSE f[l - 1] + t[l]
  <2>1. CASE l = 0
    <3>1. i \in 0 .. size /\ i + 4 * l = i
      BY <2>1
    <3>2. s[i] \in Int
      BY <1>1, <3>1
    <3> QED
      BY <2>1, <3>1, <3>2
  <2>2. CASE l # 0
    <3> DEFINE p == i + 4 * l - 4
    <3>1. /\ p \in 0 .. size /\ i \in 0 .. size
          /\ p + 1 \in 1 .. size /\ p + 2 \in 1 .. size /\ p + 3 \in 1 .. size /\ p + 4 \in 1 .. size
          /\ (p + 1) - 1 = p /\ (p + 2) - 1 = p + 1 /\ (p + 3) - 1 = p + 2 /\ (p + 4) - 1 = p + 3
      BY <2>2
    <3>2. /\ i + 4 * l = p + 4 /\ i + 4 * (l - 1) = p /\ i + 4 * l - 3 = p + 1 /\ i + 4 * l - 2 = p + 2
          /\ i + 4 * l - 1 = p + 3 /\ l \in 1 .. n /\ l - 1 \in 0 .. n
      BY <2>2
    <3> HIDE DEF p
    <3>3. s[p + 1] = s[p] + c[p + 1]
      BY <1>2, <3>1
    <3>4. s[p + 2] = s[p + 1] + c[p + 2]
      BY <1>2, <3>1
    <3>5. s[p + 3] = s[p + 2] + c[p + 3]
      BY <1>2, <3>1
    <3>6. s[p + 4] = s[p + 3] + c[p + 4]
      BY <1>2, <3>1
    <3>7. t[l] = c[p + 1] + c[p + 2] + c[p + 3] + c[p + 4]
      BY <3>2 DEF IsQuads
    <3>8. f[l] = s[p + 4] - s[i] /\ f[l - 1] = s[p] - s[i]
      BY <3>2
    <3>9. s[p] \in Int /\ s[i] \in Int /\ c[p + 1] \in Int /\ c[p + 2] \in Int /\ c[p + 3] \in Int /\ c[p + 4] \in Int
      BY <1>1, <3>1
    <3>10. s[p + 1] \in Int /\ s[p + 2] \in Int /\ s[p + 3] \in Int
      BY <1>1, <3>1
    <3> HIDE DEF f
    <3>11. c[p + 1] = s[p + 1] - s[p] /\ c[p + 2] = s[p + 2] - s[p + 1]
      <4>1. c[p + 1] = s[p + 1] - s[p]
        BY <3>3, <3>9
      <4>2. c[p + 2] = s[p + 2] - s[p + 1]
        BY <3>4, <3>9, <3>10
      <4> QED
        BY <4>1, <4>2
    <3>12. c[p + 3] = s[p + 3] - s[p + 2] /\ c[p + 4] = s[p + 4] - s[p + 3] /\ s[p + 4] \in Int
      <4>1. c[p + 3] = s[p + 3] - s[p + 2]
        BY <3>5, <3>9, <3>10
      <4>2. s[p + 4] \in Int
        BY <1>1, <3>1
      <4>3. c[p + 4] = s[p + 4] - s[p + 3]
        BY <3>6, <3>9, <3>10, <4>2
      <4> QED
        BY <4>1, <4>2, <4>3
    <3>13. t[l] = s[p + 4] - s[p]
      <4>1. t[l] = (s[p + 1] - s[p]) + (s[p + 2] - s[p + 1]) + (s[p + 3] - s[p + 2]) + (s[p + 4] - s[p + 3])
        BY <3>7, <3>11, <3>12
      <4>2. PICK u \in Int, v \in Int, w \in Int, x \in Int, y \in Int :
              u = s[p] /\ v = s[p + 1] /\ w = s[p + 2] /\ x = s[p + 3] /\ y = s[p + 4]
        BY <3>9, <3>10, <3>12
      <4>3. t[l] = (v - u) + (w - v) + (x - w) + (y - x)
        BY <4>1, <4>2
      <4>4. t[l] = y - u
        BY <4>3
      <4> QED
        BY <4>2, <4>4
    <3>14. s[p + 4] - s[i] = (s[p] - s[i]) + (s[p + 4] - s[p])
      BY <3>9, <3>12
    <3> QED
      BY <2>2, <3>8, <3>13, <3>14
  <2> QED
    BY <2>1, <2>2
<1>4. IsPartialSum(f, t, n)
  <2>1. f = [l \in 0 .. n |-> f[l]]
    OBVIOUS
  <2> HIDE DEF f
  <2> QED
    BY <1>3, <2>1 DEF IsPartialSum
<1>5. SumTo(t, n) = f[n]
  <2> HIDE DEF f
  <2> QED
    BY <1>4, SumIs
<1> QED
  BY <1>5 DEF s

----------------------------------------------------------------------------
(* The vectors that the kernels are given.                                  *)
IsInput(a, b) ==
  /\ a \in Seq(0 .. Byte - 1) /\ b \in Seq(0 .. Byte - 1)
  /\ Size(a) = Size(b)
  /\ Size(a) % 64 = 0

LEMMA SizeType ==
  ASSUME NEW a, NEW b, IsInput(a, b)
  PROVE  Size(a) \in Nat
<1>1. a \in Seq(0 .. Byte - 1)
  BY DEF IsInput
<1> QED
  BY <1>1, LenProperties DEF Size

LEMMA ProductType ==
  ASSUME NEW a, NEW b, IsInput(a, b), NEW i \in 0 .. Size(a) - 1
  PROVE  Product(a, b, i) \in Int
<1>1. i + 1 \in 1 .. Len(a) /\ i + 1 \in 1 .. Len(b)
  BY SizeType DEF IsInput, Size
<1>2. a[i + 1] \in 0 .. Byte - 1 /\ b[i + 1] \in 0 .. Byte - 1
  BY <1>1, LenProperties DEF IsInput
<1>3. Lane(a, i) \in Int /\ Lane(b, i) \in Int
  BY <1>2, WidthAssumption DEF Lane
<1>4. Signed(Lane(b, i)) \in Int
  BY <1>3, WidthAssumption DEF Signed
<1> QED
  BY <1>3, <1>4 DEF Product

LEMMA TermsType ==
  ASSUME NEW a, NEW b, NEW S, IsInput(a, b)
  PROVE  Terms(a, b, S) \in [1 .. Size(a) -> Int]
<1>1. Size(a) \in Nat
  BY SizeType
<1>2. ASSUME NEW j \in 1 .. Size(a)
      PROVE  (IF j - 1 \in S THEN Product(a, b, j - 1) ELSE 0) \in Int
  <2>1. j - 1 \in 0 .. Size(a) - 1
    BY <1>1
  <2> QED
    BY <2>1, ProductType
<1> QED
  BY <1>2 DEF Terms

(* Prefix(a, b, S)[k] is the dot product of the first k positions.          *)
Prefix(a, b, S) == PartialSum(Terms(a, b, S), Size(a))

LEMMA PrefixFacts ==
  ASSUME NEW a, NEW b, NEW S, IsInput(a, b)
  PROVE  /\ Prefix(a, b, S) \in [0 .. Size(a) -> Int]
         /\ Prefix(a, b, S)[0] = 0
         /\ Dot(a, b, S) = Wrap(Prefix(a, b, S)[Size(a)])
<1> DEFINE c == Terms(a, b, S)
           n == Size(a)
           s == PartialSum(c, n)
<1>1. n \in Nat /\ c \in [1 .. n -> Int]
  BY SizeType, TermsType
<1>2. s \in [0 .. n -> Int] /\ IsPartialSum(s, c, n)
  <2> HIDE DEF c, n
  <2> QED
    BY <1>1, IntegerSums
<1>3. s[0] = 0
  <2> HIDE DEF c, n, s
  <2> QED
    BY <1>1, <1>2, PartialSumStep
<1> QED
  BY <1>2, <1>3 DEF Prefix, Dot, SumTo

(* The lanes of one addition together.                                      *)
Covers(S, i, m) == i .. i + m - 1 \subseteq S

IsTerm(t, n, a, b, S, i, m) ==
  t \in [1 .. n -> Int] /\ SumTo(t, n) = Prefix(a, b, S)[i + m] - Prefix(a, b, S)[i]

LEMMA MaddTotal ==
  ASSUME NEW a, NEW b, NEW S, IsInput(a, b), NEW i \in Nat, NEW n \in Nat, NEW m \in Nat, m = 2 * n,
         i + m <= Size(a), Covers(S, i, m)
  PROVE  IsTerm(Madd(a, b, i, m), n, a, b, S, i, m)
<1> DEFINE c == Terms(a, b, S)
           size == Size(a)
           t == Madd(a, b, i, m)
<1>1. size \in Nat /\ c \in [1 .. size -> Int]
  BY SizeType, TermsType
<1>2. m \div 2 = n
  OBVIOUS
<1>3. ASSUME NEW l \in 1 .. n
      PROVE  t[l] \in Int /\ t[l] = c[i + 2 * l - 1] + c[i + 2 * l]
  <2>1. t[l] = Product(a, b, i + 2 * l - 2) + Product(a, b, i + 2 * l - 1)
    BY <1>2 DEF Madd
  <2>2. /\ i + 2 * l - 1 \in 1 .. size /\ i + 2 * l \in 1 .. size
        /\ (i + 2 * l - 1) - 1 = i + 2 * l - 2 /\ (i + 2 * l) - 1 = i + 2 * l - 1
        /\ i + 2 * l - 2 \in S /\ i + 2 * l - 1 \in S
    BY <1>1 DEF Covers
  <2>3. c[i + 2 * l - 1] = Product(a, b, i + 2 * l - 2)
    BY <2>2 DEF Terms
  <2>4. c[i + 2 * l] = Product(a, b, i + 2 * l - 1)
    BY <2>2 DEF Terms
  <2>5. c[i + 2 * l - 1] \in Int /\ c[i + 2 * l] \in Int
    BY <1>1, <2>2
  <2> QED
    BY <2>1, <2>3, <2>4, <2>5
<1>4. t \in [1 .. n -> Int]
  <2>1. t = [l \in 1 .. n |-> t[l]]
    BY <1>2 DEF Madd
  <2> HIDE DEF t
  <2> QED
    BY <1>3, <2>1
<1>5. IsPairs(t, c, i, n)
  BY <1>3 DEF IsPairs
<1>6. SumTo(t, n) = PartialSum(c, size)[i + m] - PartialSum(c, size)[i]
  <2> HIDE DEF t, c
  <2>1. i + 2 * n <= size
    OBVIOUS
  <2>2. SumTo(t, n) = PartialSum(c, size)[i + 2 * n] - PartialSum(c, size)[i]
    <3> HIDE DEF size
    <3> QED
      BY <1>1, <1>4, <1>5, <2>1, PairSum
  <2> QED
    BY <2>2
<1> QED
  BY <1>4, <1>6 DEF Prefix, IsTerm

LEMMA DpbusdTotal ==
  ASSUME NEW a, NEW b, NEW S, IsInput(a, b), NEW i \in Nat, NEW n \in Nat, NEW m \in Nat, m = 4 * n,
         i + m <= Size(a), Covers(S, i, m)
  PROVE  IsTerm(Dpbusd(a, b, i, m), n, a, b, S, i, m)
<1> DEFINE c == Terms(a, b, S)
           size == Size(a)
           t == Dpbusd(a, b, i, m)
<1>1. size \in Nat /\ c \in [1 .. size -> Int]
  BY SizeType, TermsType
<1>2. m \div 4 = n
  OBVIOUS
<1>3. ASSUME NEW l \in 1 .. n
      PROVE  t[l] \in Int /\ t[l] = c[i + 4 * l - 3] + c[i + 4 * l - 2] + c[i + 4 * l - 1] + c[i + 4 * l]
  <2>1. t[l] = Product(a, b, i + 4 * l - 4) + Product(a, b, i + 4 * l - 3)
             + Product(a, b, i + 4 * l - 2) + Product(a, b, i + 4 * l - 1)
    BY <1>2 DEF Dpbusd
  <2>2. /\ i + 4 * l - 3 \in 1 .. size /\ (i + 4 * l - 3) - 1 = i + 4 * l - 4 /\ i + 4 * l - 4 \in S
        /\ i + 4 * l - 2 \in 1 .. size /\ (i + 4 * l - 2) - 1 = i + 4 * l - 3 /\ i + 4 * l - 3 \in S
        /\ i + 4 * l - 1 \in 1 .. size /\ (i + 4 * l - 1) - 1 = i + 4 * l - 2 /\ i + 4 * l - 2 \in S
        /\ i + 4 * l \in 1 .. size /\ (i + 4 * l) - 1 = i + 4 * l - 1 /\ i + 4 * l - 1 \in S
    BY <1>1 DEF Covers
  <2>3. c[i + 4 * l - 3] = Product(a, b, i + 4 * l - 4)
    BY <2>2 DEF Terms
  <2>4. c[i + 4 * l - 2] = Product(a, b, i + 4 * l - 3)
    BY <2>2 DEF Terms
  <2>5. c[i + 4 * l - 1] = Product(a, b, i + 4 * l - 2)
    BY <2>2 DEF Terms
  <2>6. c[i + 4 * l] = Product(a, b, i + 4 * l - 1)
    BY <2>2 DEF Terms
  <2>7. c[i + 4 * l - 3] \in Int /\ c[i + 4 * l - 2] \in Int /\ c[i + 4 * l - 1] \in Int /\ c[i + 4 * l] \in Int
    BY <1>1, <2>2
  <2> HIDE DEF c, t
  <2>8. t[l] = c[i + 4 * l - 3] + c[i + 4 * l - 2] + c[i + 4 * l - 1] + c[i + 4 * l]
    BY <2>1, <2>3, <2>4, <2>5, <2>6
  <2> QED
    BY <2>7, <2>8
<1>4. t \in [1 .. n -> Int]
  <2>1. t = [l \in 1 .. n |-> t[l]]
    BY <1>2 DEF Dpbusd
  <2> HIDE DEF t
  <2> QED
    BY <1>3, <2>1
<1>5. IsQuads(t, c, i, n)
  BY <1>3 DEF IsQuads
<1>6. SumTo(t, n) = PartialSum(c, size)[i + m] - PartialSum(c, size)[i]
  <2> HIDE DEF t, c
  <2>1. i + 4 * n <= size
    OBVIOUS
  <2>2. SumTo(t, n) = PartialSum(c, size)[i + 4 * n] - PartialSum(c, size)[i]
    <3> HIDE DEF size
    <3> QED
      BY <1>1, <1>4, <1>5, <2>1, QuadSum
  <2> QED
    BY <2>2
<1> QED
  BY <1>4, <1>6 DEF Prefix, IsTerm

----------------------------------------------------------------------------
(* A kernel adds the products of step positions at a time ...               *)
IsKernel(term, lanes, n, a, b, S, step) ==
  /\ step * n = Size(a)
  /\ term = [k \in 1 .. n |-> term[k]]
  /\ \A k \in 1 .. n : /\ term[k] \in [1 .. lanes -> Int]
                       /\ SumTo(term[k], lanes) = Prefix(a, b, S)[step * k] - Prefix(a, b, S)[step * (k - 1)]

LEMMA KernelResult ==
  ASSUME NEW a, NEW b, NEW S, IsInput(a, b), NEW step \in {16, 32, 64}, NEW n \in Nat, NEW lanes \in Nat,
         NEW term, IsKernel(term, lanes, n, a, b, S, step)
  PROVE  Accumulated(term, lanes, n) = Dot(a, b, S)
<1> DEFINE s == Prefix(a, b, S)
           z == [k \in 0 .. n |-> s[step * k]]
<1>1. s \in [0 .. Size(a) -> Int] /\ s[0] = 0 /\ Dot(a, b, S) = Wrap(s[Size(a)])
  BY PrefixFacts
<1>2. Size(a) \in Nat /\ step * n = Size(a) /\ step * 0 = 0
  BY SizeType DEF IsKernel
<1>3. ASSUME NEW k \in 0 .. n PROVE step * k \in 0 .. Size(a)
  BY <1>2
<1>4. term \in [1 .. n -> [1 .. lanes -> Int]]
  BY DEF IsKernel
<1>5. ASSUME NEW k \in 1 .. n PROVE SumTo(term[k], lanes) = s[step * k] - s[step * (k - 1)]
  BY DEF IsKernel
<1> HIDE DEF s
<1>6. IsTotal(z, term, lanes, n)
  <2>1. z \in [0 .. n -> Int]
    BY <1>1, <1>3
  <2>2. z[0] = 0
    BY <1>1, <1>2
  <2>3. ASSUME NEW k \in 1 .. n PROVE z[k] = z[k - 1] + SumTo(term[k], lanes)
    <3>1. k \in 0 .. n /\ k - 1 \in 0 .. n
      OBVIOUS
    <3>2. z[k] = s[step * k] /\ z[k - 1] = s[step * (k - 1)] /\ z[k] \in Int /\ z[k - 1] \in Int
      BY <2>1, <3>1
    <3> HIDE DEF z
    <3> QED
      BY <1>5, <3>2
  <2> HIDE DEF z
  <2> QED
    BY <2>1, <2>2, <2>3 DEF IsTotal
<1>7. Accumulated(term, lanes, n) = Wrap(z[n])
  <2> HIDE DEF z
  <2> QED
    BY <1>4, <1>6, AccumulatedIs
<1>8. z[n] = s[Size(a)]
  BY <1>2
<1> QED
  BY <1>1, <1>7, <1>8

LEMMA RoundsExact ==
  ASSUME NEW a, NEW b, IsInput(a, b)
  PROVE  /\ Size(a) \in Nat
         /\ Rounds(Size(a), 16) \in Nat /\ 16 * Rounds(Size(a), 16) = Size(a)
         /\ Rounds(Size(a), 32) \in Nat /\ 32 * Rounds(Size(a), 32) = Size(a)
         /\ Rounds(Size(a), 64) \in Nat /\ 64 * Rounds(Size(a), 64) = Size(a)
<1>1. Size(a) \in Nat /\ Size(a) % 64 = 0
  BY SizeType DEF IsInput
<1>2. PICK q \in Nat : Size(a) = 64 * q
  <2>1. Size(a) \div 64 \in Nat /\ Size(a) = 64 * (Size(a) \div 64)
    BY <1>1
  <2> QED
    BY <2>1
<1>3. (64 * q + 16 - 1) \div 16 = 4 * q
  OBVIOUS
<1>4. (64 * q + 32 - 1) \div 32 = 2 * q
  OBVIOUS
<1>5. (64 * q + 64 - 1) \div 64 = q
  OBVIOUS
<1> QED
  BY <1>2, <1>3, <1>4, <1>5 DEF Rounds

(* ... and so computes the dot product; the SSE kernel that of the lower    *)
(* halves of its steps.                                                     *)
LEMMA VnniResult ==
  ASSUME NEW a, NEW b, IsInput(a, b)
  PROVE  dot_product_vnni(a, b) = Dot(a, b, All(a))
<1> DEFINE n == Rounds(Size(a), 64)
           term == [k \in 1 .. n |-> Dpbusd(a, b, 64 * (k - 1), 64)]
<1>1. Size(a) \in Nat /\ n \in Nat /\ 64 * n = Size(a)
  BY RoundsExact
<1> HIDE DEF n
<1>2. ASSUME NEW k \in 1 .. n
      PROVE  IsTerm(term[k], 16, a, b, All(a), 64 * (k - 1), 64) /\ 64 * (k - 1) + 64 = 64 * k
  <2> DEFINE i == 64 * (k - 1)
  <2>1. i \in Nat /\ i + 64 <= Size(a) /\ Covers(All(a), i, 64) /\ 64 = 4 * 16 /\ i + 64 = 64 * k
    BY <1>1 DEF All, Covers
  <2>2. term[k] = Dpbusd(a, b, i, 64)
    OBVIOUS
  <2> HIDE DEF i, term
  <2>3. IsTerm(Dpbusd(a, b, i, 64), 16, a, b, All(a), i, 64)
    BY <2>1, DpbusdTotal
  <2> QED
    BY <2>1, <2>2, <2>3 DEF i
<1>3. term = [k \in 1 .. n |-> term[k]]
  OBVIOUS
<1>4. dot_product_vnni(a, b) = Accumulated(term, 16, n)
  BY DEF dot_product_vnni, n
<1> HIDE DEF term
<1>5. IsKernel(term, 16, n, a, b, All(a), 64)
  BY <1>1, <1>2, <1>3 DEF IsKernel, IsTerm
<1> QED
  BY <1>1, <1>4, <1>5, KernelResult

LEMMA Avx512Result ==
  ASSUME NEW a, NEW b, IsInput(a, b)
  PROVE  dot_product_avx512f(a, b) = Dot(a, b, All(a))
<1> DEFINE n == 2 * Rounds(Size(a), 64)
           term == [k \in 1 .. n |-> Madd(a, b, 32 * (k - 1), 32)]
<1>1. Size(a) \in Nat /\ n \in Nat /\ 32 * n = Size(a)
  <2> DEFINE r == Rounds(Size(a), 64)
  <2>1. Size(a) \in Nat /\ r \in Nat /\ 64 * r = Size(a)
    BY RoundsExact
  <2>2. n = 2 * r
    OBVIOUS
  <2> HIDE DEF r, n
  <2> QED
    BY <2>1, <2>2
<1> HIDE DEF n
<1>2. ASSUME NEW k \in 1 .. n
      PROVE  IsTerm(term[k], 16, a, b, All(a), 32 * (k - 1), 32) /\ 32 * (k - 1) + 32 = 32 * k
  <2> DEFINE i == 32 * (k - 1)
  <2>1. i \in Nat /\ i + 32 <= Size(a) /\ Covers(All(a), i, 32) /\ 32 = 2 * 16 /\ i + 32 = 32 * k
    BY <1>1 DEF All, Covers
  <2>2. term[k] = Madd(a, b, i, 32)
    OBVIOUS
  <2> HIDE DEF i, term
  <2>3. IsTerm(Madd(a, b, i, 32), 16, a, b, All(a), i, 32)
    BY <2>1, MaddTotal
  <2> QED
    BY <2>1, <2>2, <2>3 DEF i
<1>3. term = [k \in 1 .. n |-> term[k]]
  OBVIOUS
<1>4. dot_product_avx512f(a, b) = Accumulated(term, 16, n)
  BY DEF dot_product_avx512f, n
<1> HIDE DEF term
<1>5. IsKernel(term, 16, n, a, b, All(a), 32)
  BY <1>1, <1>2, <1>3 DEF IsKernel, IsTerm
<1> QED
  BY <1>1, <1>4, <1>5, KernelResult

LEMMA Avx2Result ==
  ASSUME NEW a, NEW b, IsInput(a, b)
  PROVE  dot_product_avx2(a, b) = Dot(a, b, All(a))
<1> DEFINE n == 2 * Rounds(Size(a), 32)
           term == [k \in 1 .. n |-> Madd(a, b, 16 * (k - 1), 16)]
<1>1. Size(a) \in Nat /\ n \in Nat /\ 16 * n = Size(a)
  <2> DEFINE r == Rounds(Size(a), 32)
  <2>1. Size(a) \in Nat /\ r \in Nat /\ 32 * r = Size(a)
    BY RoundsExact
  <2>2. n = 2 * r
    OBVIOUS
  <2> HIDE DEF r, n
  <2> QED
    BY <2>1, <2>2
<1> HIDE DEF n
<1>2. ASSUME NEW k \in 1 .. n
      PROVE  IsTerm(term[k], 8, a, b, All(a), 16 * (k - 1), 16) /\ 16 * (k - 1) + 16 = 16 * k
  <2> DEFINE i == 16 * (k - 1)
  <2>1. i \in Nat /\ i + 16 <= Size(a) /\ Covers(All(a), i, 16) /\ 16 = 2 * 8 /\ i + 16 = 16 * k
    BY <1>1 DEF All, Covers
  <2>2. term[k] = Madd(a, b, i, 16)
    OBVIOUS
  <2> HIDE DEF i, term
  <2>3. IsTerm(Madd(a, b, i, 16), 8, a, b, All(a), i, 16)
    BY <2>1, MaddTotal
  <2> QED
    BY <2>1, <2>2, <2>3 DEF i
<1>3. term = [k \in 1 .. n |-> term[k]]
  OBVIOUS
<1>4. dot_product_avx2(a, b) = Accumulated(term, 8, n)
  BY DEF dot_product_avx2, n
<1> HIDE DEF term
<1>5. IsKernel(term, 8, n, a, b, All(a), 16)
  BY <1>1, <1>2, <1>3 DEF IsKernel, IsTerm
<1> QED
  BY <1>1, <1>4, <1>5, KernelResult

(* The upper half of a step adds nothing to the sum over the lower halves.  *)
LEMMA UpperHalf ==
  ASSUME NEW a, NEW b, IsInput(a, b), NEW i \in Nat, i % 16 = 8, i + 8 <= Size(a)
  PROVE  Prefix(a, b, LowHalves(a))[i + 8] = Prefix(a, b, LowHalves(a))[i]
<1> DEFINE c == Terms(a, b, LowHalves(a))
           size == Size(a)
           s == PartialSum(c, size)
<1>1. size \in Nat /\ c \in [1 .. size -> Int]
  BY SizeType, TermsType
<1>2. ASSUME NEW j \in 1 .. 8 PROVE s[i + j] = s[i + j - 1] /\ i + j \in 1 .. size
  <2>1. i + j \in 1 .. size /\ (i + j) - 1 \notin LowHalves(a)
    BY <1>1 DEF LowHalves, All
  <2>2. c[i + j] = 0
    BY <2>1 DEF Terms
  <2>3. s[i + j] = s[(i + j) - 1] + c[i + j]
    <3> HIDE DEF c, size
    <3> QED
      BY <1>1, <2>1, IntegerStep
  <2>4. s[(i + j) - 1] \in Int
    <3>1. (i + j) - 1 \in 0 .. size
      BY <2>1, <1>1
    <3>2. s \in [0 .. size -> Int]
      <4> HIDE DEF c, size
      <4> QED
        BY <1>1, IntegerSums
    <3> QED
      BY <3>1, <3>2
  <2> QED
    BY <2>1, <2>2, <2>3, <2>4
<1> HIDE DEF s
<1>3. \A j \in Nat : j \in 1 .. 8 => s[i + j] = s[i + j - 1]
  BY <1>2
<1>4. s[i + 8] = s[i]
  <2>1. s[i + 1] = s[i]
    BY <1>3
  <2>2. s[i + 2] = s[i + 1]
    BY <1>3
  <2>3. s[i + 3] = s[i + 2]
    BY <1>3
  <2>4. s[i + 4] = s[i + 3]
    BY <1>3
  <2>5. s[i + 5] = s[i + 4]
    BY <1>3
  <2>6. s[i + 6] = s[i + 5]
    BY <1>3
  <2>7. s[i + 7] = s[i + 6]
    BY <1>3
  <2>8. s[i + 8] = s[i + 7]
    BY <1>3
  <2> QED
    BY <2>1, <2>2, <2>3, <2>4, <2>5, <2>6, <2>7, <2>8
<1> QED
  BY <1>4 DEF Prefix, s

LEMMA SseResult ==
  ASSUME NEW a, NEW b, IsInput(a, b)
  PROVE  dot_product_sse(a, b) = Dot(a, b, LowHalves(a))
<1> DEFINE n == Rounds(Size(a), 16)
           S == LowHalves(a)
           term == [k \in 1 .. n |-> Madd(a, b, 16 * (k - 1), 8)]
<1>1. Size(a) \in Nat /\ n \in Nat /\ 16 * n = Size(a)
  BY RoundsExact
<1> HIDE DEF n
<1>2. ASSUME NEW k \in 1 .. n
      PROVE  /\ term[k] \in [1 .. 4 -> Int]
             /\ SumTo(term[k], 4) = Prefix(a, b, S)[16 * k] - Prefix(a, b, S)[16 * (k - 1)]
  <2> DEFINE i == 16 * (k - 1)
  <2>1. i \in Nat /\ i + 16 <= Size(a) /\ i + 8 <= Size(a) /\ i % 16 = 0 /\ (i + 8) % 16 = 8 /\ i + 16 = 16 * k
    BY <1>1
  <2>2. Covers(S, i, 8)
    <3> HIDE DEF i
    <3> QED
      BY <1>1, <2>1 DEF LowHalves, All, Covers
  <2>3. term[k] = Madd(a, b, i, 8)
    OBVIOUS
  <2> HIDE DEF i, term, S
  <2>4. IsTerm(Madd(a, b, i, 8), 4, a, b, S, i, 8)
    <3>1. 8 = 2 * 4
      OBVIOUS
    <3> QED
      BY <2>1, <2>2, <3>1, MaddTotal
  <2>5. Prefix(a, b, S)[(i + 8) + 8] = Prefix(a, b, S)[i + 8]
    BY <2>1, UpperHalf DEF S
  <2>6. (i + 8) + 8 = 16 * k
    BY <2>1
  <2> QED
    BY <2>3, <2>4, <2>5, <2>6 DEF i, IsTerm
<1>3. term = [k \in 1 .. n |-> term[k]]
  OBVIOUS
<1>4. dot_product_sse(a, b) = Accumulated(term, 4, n)
  BY DEF dot_product_sse, n
<1> HIDE DEF term, S
<1>5. IsKernel(term, 4, n, a, b, S, 16)
  BY <1>1, <1>2, <1>3 DEF IsKernel
<1> QED
  BY <1>1, <1>4, <1>5, KernelResult DEF S

----------------------------------------------------------------------------
(* There are vectors only when a kernel has been chosen.                    *)
ResultInv == (data # <<>> => kernel # 0) /\ ResultExact

LEMMA DotProductResult ==
  ASSUME WorkInv, DotProduct
  PROVE  ResultInv'
<1>1. kernel \in DOMAIN Kernels["int8dot"] /\ kernel' = kernel
  BY DEF WorkInv, ChosenInv, DotProduct, Active
<1>2. kernel \in 1..4
  BY <1>1 DEF Kernels, int8dot
<1>3. data' \in Inputs /\ result' = dot_product(data'[1], data'[2])
  BY DEF DotProduct
<1> DEFINE a == data'[1]
           b == data'[2]
<1>4. IsInput(a, b)
  BY <1>3, InputsAssumption DEF IsInput
<1> HIDE DEF a, b
<1>5. dot_product(a, b) = Dot(a, b, IF kernel = 4 THEN LowHalves(a) ELSE All(a))
  <2>1. CASE kernel = 1
    BY <1>4, <2>1, VnniResult DEF dot_product
  <2>2. CASE kernel = 2
    BY <1>4, <2>2, Avx512Result DEF dot_product
  <2>3. CASE kernel = 3
    BY <1>4, <2>3, Avx2Result DEF dot_product
  <2>4. CASE kernel = 4
    BY <1>4, <2>4, SseResult DEF dot_product
  <2> QED
    BY <1>2, <2>1, <2>2, <2>3, <2>4
<1> QED
  BY <1>1, <1>2, <1>3, <1>5 DEF ResultInv, ResultExact, a, b

LEMMA ResultInvStep == WorkInv /\ ResultInv /\ [Next]_vars => ResultInv'
<1> SUFFICES ASSUME WorkInv, ResultInv, [Next]_vars
             PROVE  ResultInv'
  OBVIOUS
<1>1. CASE Detect
  <2>1. kernel = 0 /\ data' = data
    BY <1>1 DEF WorkInv, ChosenInv, Detect, Active, int8dotVars
  <2> QED
    BY <2>1 DEF ResultInv, ResultExact
<1>2. CASE DotProduct
  BY <1>2, DotProductResult
<1>3. CASE PrintResult
  BY <1>3 DEF PrintResult, ResultInv, ResultExact
<1>4. CASE UNCHANGED <<data, result, kernel>>
  BY <1>4 DEF ResultInv, ResultExact
<1>5. CASE Compute \/ Map \/ WriteBefore \/ WriteDuring \/ WriteAfter \/ Read \/ Close
  <2>1. UNCHANGED <<data, result, kernel>>
    BY <1>5 DEF Compute, Map, WriteBefore, WriteDuring, WriteAfter, Write, Read, Close, int8dotVars
  <2> QED
    BY <1>4, <2>1
<1>6. CASE pkey_alloc \/ pkey_mprotect \/ protect \/ unprotect
  <2>1. UNCHANGED <<data, result, kernel>>
    BY <1>6 DEF pkey_alloc, pkey_mprotect, protect, unprotect, pkey_set, mprotect, int8dotVars
  <2> QED
    BY <1>4, <2>1
<1>7. CASE (\E d \in Hosts : Migrate(d)) \/ Poll \/ UNCHANGED vars
  <2>1. UNCHANGED <<data, result, kernel>>
    BY <1>7 DEF Migrate, Poll, vars, int8dotVars
  <2> QED
    BY <1>4, <2>1
<1> QED
  BY <1>1, <1>2, <1>3, <1>5, <1>6, <1>7 DEF Next

(* Whichever kernel a host has, int8dot prints the dot product of its       *)
(* vectors modulo 2^32 - of their lower halves where it has only SSE - for  *)
(* vectors of any length that the steps divide.                             *)
THEOREM ResultExactHolds == Spec => []ResultExact
<1>1. Init => ResultInv
  BY DEF Init, ResultInv, ResultExact
<1>2. ResultInv => ResultExact
  BY DEF ResultInv
<1> QED
  BY <1>1, <1>2, WorkInvariance, ResultInvStep, PTL DEF Spec

----------------------------------------------------------------------------
(* The array has an entry as soon as it is allocated.                       *)
Room == count <= max_count /\ (max_count > 0 => count > 0)

(* A call that waits has no position in the array, which may change before  *)
(* it goes on.                                                              *)
WaitInv == \A k \in 1..(Len(calls) - 1) : calls[k].pc = "create"

(* The entries before start are before the line, the one at end is not, and *)
(* mid is next to where the search will stop, or has not moved yet.         *)
SearchInv ==
  Bisecting =>
    /\ max_count > 0
    /\ 0 <= Adding.start /\ Adding.start <= Adding.end
    /\ Adding.end \in Position
    /\ Adding.mid \in Position
    /\ Adding.line <= entries[Adding.end].line
    /\ \A i \in Position : i < Adding.start => entries[i].line < Adding.line
    /\ \/ Adding.mid = Adding.end
       \/ Adding.mid = Adding.start - 1
       \/ Adding.mid = 0 /\ Adding.start = 0

(* What is inserted is a code object.                                       *)
CodeInv == calls # <<>> /\ Adding.pc \in {"insert", "inserting", "frame"} => Adding.code \in Codes

CacheInv == CacheTypeOK /\ Ascending /\ Room /\ WaitInv /\ SearchInv /\ CodeInv

----------------------------------------------------------------------------
LEMMA FrontFacts ==
  ASSUME NEW S, NEW s \in Seq(S), NEW n \in Nat, n <= Len(s)
  PROVE  /\ SubSeq(s, 1, n) \in Seq(S)
         /\ Len(SubSeq(s, 1, n)) = n
         /\ \A k \in 1..n : SubSeq(s, 1, n)[k] = s[k]
<1>1. \A k \in 1..n : s[k] \in S
  OBVIOUS
<1>2. SubSeq(s, 1, n) \in Seq(S)
  BY <1>1, SubSeqProperties
<1>3. Len(SubSeq(s, 1, n)) = n
  BY <1>1
<1>4. \A k \in 1..n : SubSeq(s, 1, n)[k] = s[k]
  BY <1>1
<1> QED
  BY <1>2, <1>3, <1>4

LEMMA AddingFacts ==
  ASSUME CacheInv, calls # <<>>
  PROVE  /\ Len(calls) \in Nat \ {0}
         /\ Adding \in Calls
         /\ Adding.line \in Lines /\ Adding.line \in Int
         /\ Waiting \in Seq(Calls)
         /\ Len(Waiting) = Len(calls) - 1
         /\ \A k \in 1..Len(Waiting) : Waiting[k] = calls[k]
<1>1. calls \in Seq(Calls) /\ Len(calls) \in Nat \ {0}
  BY DEF CacheInv, CacheTypeOK
<1>2. Adding \in Calls
  BY <1>1 DEF Adding
<1>3. Adding.line \in Lines
  BY <1>2 DEF Calls
<1>4. /\ Waiting \in Seq(Calls)
      /\ Len(Waiting) = Len(calls) - 1
      /\ \A k \in 1..Len(Waiting) : Waiting[k] = calls[k]
  <2> DEFINE n == Len(calls) - 1
  <2>1. n \in Nat /\ n <= Len(calls)
    BY <1>1
  <2> HIDE DEF n
  <2>2. /\ SubSeq(calls, 1, n) \in Seq(Calls)
        /\ Len(SubSeq(calls, 1, n)) = n
        /\ \A k \in 1..n : SubSeq(calls, 1, n)[k] = calls[k]
    BY <1>1, <2>1, FrontFacts, Zenon
  <2>3. Waiting = SubSeq(calls, 1, n)
    BY DEF Waiting, n
  <2> QED
    BY <2>2, <2>3 DEF n
<1> QED
  BY <1>1, <1>2, <1>3, <1>4, CacheAssumption

LEMMA EntryFacts ==
  ASSUME CacheInv, NEW i \in Position
  PROVE  /\ entries[i] \in [line : Lines, code : Codes]
         /\ entries[i].line \in Lines /\ entries[i].line \in Int
         /\ i \in Nat
<1>1. entries[i] \in [line : Lines, code : Codes]
  BY DEF CacheInv, CacheTypeOK
<1>2. entries[i].line \in Lines
  BY <1>1
<1>3. i \in Nat
  BY DEF Position, CacheInv, CacheTypeOK
<1> QED
  BY <1>1, <1>2, <1>3, CacheAssumption

(* What a call looks like when a search begins, and in each of its turns.   *)
LEMMA LookingFacts ==
  ASSUME CacheInv, calls # <<>>, NEW p \in {"finding", "inserting"}, NEW b \in Int, NEW m \in Int, NEW e \in Int
  PROVE  LET c == Looking(p, b, m, e)
         IN  /\ c \in Calls /\ c.pc = p /\ c.line = Adding.line /\ c.code = Adding.code
             /\ c.start = b /\ c.mid = m /\ c.end = e
<1>1. Adding.line \in Lines /\ Adding.code \in Codes \cup {NoCode}
  BY AddingFacts DEF Calls
<1> QED
  BY <1>1 DEF Looking, Calls

(* What a call's turn does to the stack of calls.                           *)
LEMMA TurnFacts ==
  ASSUME CacheInv, calls # <<>>, NEW c \in Calls, Turns(c)
  PROVE  /\ calls' \in Seq(Calls) /\ calls' # <<>>
         /\ Len(calls') = Len(calls)
         /\ Adding' = c
         /\ WaitInv'
<1>1. calls \in Seq(Calls) /\ Len(calls) \in Nat \ {0}
  BY AddingFacts DEF CacheInv, CacheTypeOK
<1>2. calls' \in Seq(Calls) /\ Len(calls') = Len(calls)
  BY <1>1 DEF Turns
<1>3. \A k \in 1..Len(calls) : calls'[k] = IF k = Len(calls) THEN c ELSE calls[k]
  BY <1>1 DEF Turns
<1> QED
  BY <1>1, <1>2, <1>3 DEF Adding, CacheInv, WaitInv

(* The loop's middle lies within the range.                                 *)
LEMMA MiddleFacts ==
  ASSUME CacheInv, Bisecting
  PROVE  /\ Middle \in Position
         /\ Adding.start <= Middle /\ Middle <= Adding.end
         /\ Adding.start < Adding.end => Middle < Adding.end
         /\ Adding.start \in Nat /\ Adding.end \in Nat /\ Adding.mid \in Nat /\ count \in Nat
<1>1. Adding \in Calls /\ count \in Nat
  BY AddingFacts DEF Bisecting, CacheInv, CacheTypeOK
<1>2. Adding.start \in Int /\ Adding.end \in Int /\ Adding.mid \in Int
  BY <1>1 DEF Calls
<1> QED
  BY <1>1, <1>2 DEF CacheInv, SearchInv, Middle, Position

(* The bisection finds the first entry that is not before the line.         *)
LEMMA FoundFacts ==
  ASSUME CacheInv, Bisecting, ~Searching
  PROVE  /\ Found \in Position
         /\ \A i \in Position : entries[i].line < Adding.line <=> i < Found
<1>1. Adding.line \in Int /\ \A i \in Position : entries[i].line \in Int /\ i \in Nat
  BY AddingFacts, EntryFacts DEF Bisecting
<1>2. Ascending /\ SearchInv
  BY DEF CacheInv
<1>3. CASE Adding.start < Adding.end
  <2>1. Found = Middle /\ Middle \in Position /\ entries[Middle].line = Adding.line
    BY <1>3, MiddleFacts DEF Found, Searching
  <2> QED
    BY <1>1, <1>2, <2>1 DEF Ascending
<1>4. CASE ~(Adding.start < Adding.end)
  <2>1. Adding.start = Adding.end
    BY <1>2, <1>4, MiddleFacts DEF SearchInv
  <2>2. Found = Adding.end
    BY <1>1, <1>2, <1>4, <2>1, MiddleFacts DEF SearchInv, Found
  <2> QED
    BY <1>1, <1>2, <2>1, <2>2 DEF SearchInv, Ascending
<1> QED
  BY <1>3, <1>4

LEMMA SearchCorrectFromInv == CacheInv => SearchCorrect
<1> SUFFICES ASSUME CacheInv PROVE SearchCorrect
  OBVIOUS
<1>1. Bisecting => Middle \in Position /\ Adding.mid \in Position
  BY MiddleFacts DEF CacheInv, SearchInv
<1>2. InBounds
  BY <1>1, FoundFacts DEF InBounds, CacheInv, Room
<1>3. SearchExact
  BY FoundFacts DEF SearchExact
<1> QED
  BY <1>2, <1>3 DEF SearchCorrect, CacheInv

----------------------------------------------------------------------------
LEMMA InitCacheInv == CacheInit => CacheInv
<1> SUFFICES ASSUME CacheInit PROVE CacheInv
  OBVIOUS
<1> USE DEF CacheInit
<1>1. Position = {} /\ ~Bisecting /\ Len(calls) = 0
  BY DEF Position, Bisecting
<1>2. CacheTypeOK
  BY <1>1 DEF CacheTypeOK
<1> QED
  BY <1>1, <1>2 DEF CacheInv, Ascending, Room, WaitInv, SearchInv, CodeInv

(* A turn that leaves the array alone and does not bisect.                  *)
LEMMA TurnKeepsInv ==
  ASSUME CacheInv, calls # <<>>, NEW c \in Calls, Turns(c), c.pc \notin {"finding", "inserting"},
         c.pc \in {"insert", "frame"} => c.code \in Codes,
         UNCHANGED <<entries, count, max_count>>, refs' \in [Codes -> Int]
  PROVE  CacheInv'
<1>1. calls' \in Seq(Calls) /\ Adding' = c /\ WaitInv'
  BY TurnFacts
<1>2. CacheTypeOK' /\ Ascending' /\ Room'
  BY <1>1 DEF CacheInv, CacheTypeOK, Ascending, Room, Position
<1>3. SearchInv' /\ CodeInv'
  BY <1>1 DEF SearchInv, Bisecting, CodeInv
<1> QED
  BY <1>1, <1>2, <1>3 DEF CacheInv

(* A call that ends, and the one that waited for it.                        *)
LEMMA PopKeepsInv ==
  ASSUME CacheInv, calls # <<>>, calls' = Waiting, UNCHANGED <<entries, count, max_count>>,
         refs' \in [Codes -> Int]
  PROVE  CacheInv'
<1>1. /\ calls' \in Seq(Calls) /\ Len(calls') = Len(calls) - 1 /\ Len(calls) \in Nat \ {0}
      /\ \A k \in 1..Len(calls') : calls'[k] = calls[k]
  BY AddingFacts
<1>2. CacheTypeOK' /\ Ascending' /\ Room'
  BY <1>1 DEF CacheInv, CacheTypeOK, Ascending, Room, Position
<1>3. \A k \in 1..Len(calls') : calls'[k].pc = "create"
  BY <1>1 DEF CacheInv, WaitInv
<1>4. calls' # <<>> => Adding'.pc = "create"
  <2> SUFFICES ASSUME calls' # <<>> PROVE Adding'.pc = "create"
    OBVIOUS
  <2>1. Len(calls') \in 1..Len(calls')
    BY <1>1
  <2> QED
    BY <1>3, <2>1 DEF Adding
<1>5. WaitInv' /\ SearchInv' /\ CodeInv'
  BY <1>1, <1>3, <1>4 DEF WaitInv, SearchInv, Bisecting, CodeInv
<1> QED
  BY <1>2, <1>5 DEF CacheInv

(* The search starts with the whole array, whose last entry is not before   *)
(* the line.                                                                *)
LEMMA BeginSearchInv ==
  ASSUME CacheInv, calls # <<>>, NEW p \in {"finding", "inserting"}, BeginSearch(p),
         max_count > 0, ~Beyond(Adding.line), p = "inserting" => Adding.code \in Codes,
         UNCHANGED <<entries, count, max_count, refs>>
  PROVE  CacheInv'
<1> DEFINE c == Looking(p, 0, 0, count - 1)
<1>1. count \in Nat /\ count > 0
  BY DEF CacheInv, CacheTypeOK, Room
<1>2. Adding \in Calls /\ Adding.line \in Int
  BY AddingFacts
<1>3. c \in Calls /\ c.pc = p /\ c.start = 0 /\ c.mid = 0 /\ c.end = count - 1 /\ c.line = Adding.line
      /\ c.code = Adding.code
  BY <1>1, LookingFacts
<1> HIDE DEF c
<1>4. Turns(c)
  BY DEF BeginSearch, c
<1>5. calls' \in Seq(Calls) /\ Adding' = c /\ WaitInv'
  BY <1>3, <1>4, TurnFacts
<1>6. CacheTypeOK' /\ Ascending' /\ Room'
  BY <1>5 DEF CacheInv, CacheTypeOK, Ascending, Room, Position
<1>7. entries[count - 1].line \in Int /\ Adding.line <= entries[count - 1].line
  BY <1>1, <1>2, EntryFacts DEF Beyond, Position
<1>8. SearchInv'
  BY <1>1, <1>3, <1>5, <1>7 DEF SearchInv, Position
<1>9. CodeInv'
  BY <1>3, <1>5 DEF CodeInv
<1> QED
  BY <1>5, <1>6, <1>8, <1>9 DEF CacheInv

(* Inserting a line where the entries before are smaller and those behind   *)
(* greater.                                                                 *)
LEMMA InsertedAtInv ==
  ASSUME CacheInv, calls # <<>>, Adding.code \in Codes, NEW pos \in 0..count, InsertedAt(pos), max_count > 0,
         \A i \in Position : i < pos => entries[i].line < Adding.line,
         \A i \in Position : i >= pos => entries[i].line > Adding.line
  PROVE  CacheInv'
<1> DEFINE c == [Adding EXCEPT !.pc = "frame"]
<1>1. count \in Nat /\ max_count \in Nat /\ Block \in Nat \ {0} /\ count <= max_count
  BY CacheAssumption DEF CacheInv, CacheTypeOK, Room
<1>2. Adding \in Calls /\ Adding.line \in Lines /\ Adding.line \in Int
  BY AddingFacts
<1>3. c \in Calls /\ c.pc = "frame" /\ c.code \in Codes
  BY <1>2 DEF Calls
<1> HIDE DEF c
<1>4. Turns(c)
  BY DEF InsertedAt, Framed, c
<1>5. refs' \in [Codes -> Int]
  BY DEF CacheInv, CacheTypeOK, InsertedAt
<1>6. CASE UNCHANGED <<entries, count, max_count>>
  BY <1>3, <1>4, <1>5, <1>6, TurnKeepsInv
<1>7. CASE ~(UNCHANGED <<entries, count, max_count>>)
  <2>1. /\ max_count' = IF count = max_count THEN max_count + Block ELSE max_count
        /\ count' = count + 1
        /\ entries' = [i \in 0..count |-> CASE i < pos -> entries[i]
                                            [] i = pos -> Entry
                                            [] i > pos -> entries[i - 1]]
    BY <1>7 DEF InsertedAt
  <2>2. Room' /\ max_count' \in Nat /\ count' \in Nat /\ Position' = 0..count
    BY <1>1, <2>1 DEF Room, Position
  <2>3. Entry \in [line : Lines, code : Codes] /\ Entry.line = Adding.line
    BY <1>2 DEF Entry
  <2>4. ASSUME NEW i \in 0..count
        PROVE  /\ entries'[i] \in [line : Lines, code : Codes]
               /\ entries'[i].line \in Int
               /\ i < pos => i \in Position /\ entries'[i] = entries[i]
               /\ i = pos => entries'[i] = Entry
               /\ i > pos => i - 1 \in Position /\ entries'[i] = entries[i - 1]
    <3>1. CASE i < pos
      <4>1. entries'[i] = entries[i] /\ i \in Position
        BY <1>1, <2>1, <3>1 DEF Position
      <4> QED
        BY <1>1, <3>1, <4>1, EntryFacts
    <3>2. CASE i = pos
      <4>1. entries'[i] = Entry
        BY <1>1, <2>1, <3>2
      <4> QED
        BY <1>1, <1>2, <2>3, <3>2, <4>1
    <3>3. CASE i > pos
      <4>1. entries'[i] = entries[i - 1] /\ i - 1 \in Position
        BY <1>1, <2>1, <3>3 DEF Position
      <4> QED
        BY <1>1, <3>3, <4>1, EntryFacts
    <3> QED
      BY <1>1, <3>1, <3>2, <3>3
  <2>5. entries' \in [0..count -> [line : Lines, code : Codes]]
    BY <2>1, <2>4
  <2>6. \A i \in Position : entries[i].line \in Int
    BY EntryFacts
  <2>7. ASSUME NEW i \in 0..count, NEW k \in 0..count, i < k
        PROVE  entries'[i].line < entries'[k].line
    <3>0. \A x, y \in Position : x < y => entries[x].line < entries[y].line
      BY DEF CacheInv, Ascending
    <3>1. CASE k < pos
      <4>1. entries'[i] = entries[i] /\ entries'[k] = entries[k] /\ i \in Position /\ k \in Position
        BY <1>1, <2>4, <2>7, <3>1
      <4> QED
        BY <2>7, <3>0, <4>1
    <3>2. CASE k = pos
      BY <1>1, <2>3, <2>4, <2>7, <3>2
    <3>3. CASE k > pos /\ i < pos
      <4>1. entries'[i] = entries[i] /\ entries'[k] = entries[k - 1] /\ i \in Position /\ k - 1 \in Position
        BY <1>1, <2>4, <2>7, <3>3
      <4> QED
        BY <1>1, <2>7, <3>0, <3>3, <4>1
    <3>4. CASE k > pos /\ i = pos
      <4>1. entries'[i] = Entry /\ entries'[k] = entries[k - 1] /\ k - 1 \in Position
        BY <1>1, <2>4, <2>7, <3>4
      <4> QED
        BY <1>1, <1>2, <2>3, <2>6, <3>4, <4>1
    <3>5. CASE k > pos /\ i > pos
      <4>1. entries'[i] = entries[i - 1] /\ entries'[k] = entries[k - 1] /\ i - 1 \in Position /\ k - 1 \in Position
        BY <1>1, <2>4, <2>7, <3>5
      <4> QED
        BY <1>1, <2>7, <3>0, <3>5, <4>1
    <3> QED
      BY <1>1, <3>1, <3>2, <3>3, <3>4, <3>5
  <2>8. calls' \in Seq(Calls) /\ Adding' = c /\ WaitInv'
    BY <1>3, <1>4, TurnFacts
  <2>9. CacheTypeOK' /\ Ascending'
    BY <1>5, <2>2, <2>5, <2>7, <2>8 DEF CacheTypeOK, Ascending
  <2>10. SearchInv' /\ CodeInv'
    BY <1>3, <2>8 DEF SearchInv, Bisecting, CodeInv
  <2> QED
    BY <2>2, <2>8, <2>9, <2>10 DEF CacheInv
<1> QED
  BY <1>6, <1>7

LEMMA BeginTracebackInv ==
  ASSUME CacheInv, NEW line \in Lines, BeginTraceback(line)
  PROVE  CacheInv'
<1> DEFINE c == [line |-> line, pc |-> "find", start |-> 0, mid |-> 0, end |-> 0, code |-> NoCode]
<1>1. calls \in Seq(Calls) /\ Len(calls) \in Nat
  BY DEF CacheInv, CacheTypeOK
<1>2. c \in Calls
  BY DEF Calls
<1>3. c.pc = "find"
  OBVIOUS
<1> HIDE DEF c
<1>4. calls' = Append(calls, c)
  BY DEF BeginTraceback, c
<1>5. /\ calls' \in Seq(Calls) /\ Len(calls') = Len(calls) + 1
      /\ \A k \in 1..Len(calls) : calls'[k] = calls[k]
      /\ calls'[Len(calls) + 1] = c
  BY <1>1, <1>2, <1>4
<1>6. Adding' = c
  BY <1>5 DEF Adding
<1>7. \A k \in 1..Len(calls) : calls[k].pc = "create"
  BY <1>1 DEF BeginTraceback, IsAt, Adding, CacheInv, WaitInv
<1>8. WaitInv'
  BY <1>1, <1>5, <1>7 DEF WaitInv
<1>9. SearchInv' /\ CodeInv'
  BY <1>3, <1>6 DEF SearchInv, Bisecting, CodeInv
<1>10. CacheTypeOK' /\ Ascending' /\ Room'
  BY <1>5 DEF BeginTraceback, CacheInv, CacheTypeOK, Ascending, Room, Position
<1> QED
  BY <1>8, <1>9, <1>10 DEF CacheInv

(* A turn of the bisection narrows the range towards the line.              *)
LEMMA BisectInv ==
  ASSUME CacheInv, Bisect
  PROVE  CacheInv'
<1> DEFINE left  == Looking(Adding.pc, Adding.start, Middle, Middle)
           right == Looking(Adding.pc, Middle + 1, Middle, Adding.end)
           c     == IF Adding.line < entries[Middle].line THEN left ELSE right
<1>1. Bisecting /\ Searching /\ calls # <<>> /\ Adding \in Calls /\ Adding.line \in Int
  BY AddingFacts DEF Bisect, Bisecting
<1>2. /\ Middle \in Position /\ Adding.start <= Middle /\ Middle < Adding.end /\ Middle \in Nat
      /\ Adding.start \in Nat /\ Adding.end \in Nat /\ count \in Nat
  BY <1>1, MiddleFacts, EntryFacts DEF Searching
<1>3. /\ left \in Calls /\ left.line = Adding.line /\ left.pc = Adding.pc /\ left.code = Adding.code
      /\ left.start = Adding.start /\ left.mid = Middle /\ left.end = Middle
  <2>1. Middle \in Int /\ Adding.start \in Int /\ Adding.pc \in {"finding", "inserting"}
    BY <1>1, <1>2 DEF Bisecting
  <2> QED
    BY <1>1, <2>1, LookingFacts
<1>4. /\ right \in Calls /\ right.line = Adding.line /\ right.pc = Adding.pc /\ right.code = Adding.code
      /\ right.start = Middle + 1 /\ right.mid = Middle /\ right.end = Adding.end
  <2>1. Middle + 1 \in Int /\ Middle \in Int /\ Adding.end \in Int /\ Adding.pc \in {"finding", "inserting"}
    BY <1>1, <1>2 DEF Bisecting
  <2> QED
    BY <1>1, <2>1, LookingFacts
<1>5. Turns(c)
  BY DEF Bisect
<1> HIDE DEF left, right
<1>6. c \in Calls /\ c.line = Adding.line /\ c.pc = Adding.pc /\ c.code = Adding.code
  BY <1>3, <1>4
<1> HIDE DEF c
<1>7. calls' \in Seq(Calls) /\ Adding' = c /\ WaitInv'
  BY <1>1, <1>5, <1>6, TurnFacts
<1>8. CacheTypeOK' /\ Ascending' /\ Room'
  BY <1>7 DEF Bisect, CacheInv, CacheTypeOK, Ascending, Room, Position
<1>9. CodeInv'
  BY <1>1, <1>6, <1>7 DEF CacheInv, CodeInv
<1>10. \A i \in Position : entries[i].line \in Int /\ i \in Nat
  BY EntryFacts
<1>11. \A i, k \in Position : i < k => entries[i].line < entries[k].line
  BY DEF CacheInv, Ascending
<1>12. SearchInv
  BY DEF CacheInv
<1>13. UNCHANGED <<entries, count, max_count>>
  BY DEF Bisect
<1>14. CASE Adding.line < entries[Middle].line
  <2>1. Adding' = left
    BY <1>7, <1>14 DEF c
  <2>2. Adding.line <= entries[Middle].line
    BY <1>1, <1>2, <1>10, <1>14
  <2> QED
    BY <1>1, <1>2, <1>3, <1>7, <1>8, <1>9, <1>12, <1>13, <2>1, <2>2 DEF CacheInv, SearchInv, Position
<1>15. CASE ~(Adding.line < entries[Middle].line)
  <2>1. Adding' = right
    BY <1>7, <1>15 DEF c
  <2>2. entries[Middle].line < Adding.line
    BY <1>1, <1>2, <1>10, <1>15 DEF Searching
  <2>3. \A i \in Position : i < Middle + 1 => entries[i].line < Adding.line
    BY <1>1, <1>2, <1>10, <1>11, <2>2
  <2>4. SearchInv'
    BY <1>1, <1>2, <1>4, <1>12, <1>13, <2>1, <2>3 DEF SearchInv, Position
  <2> QED
    BY <1>7, <1>8, <1>9, <2>4 DEF CacheInv
<1> QED
  BY <1>14, <1>15

----------------------------------------------------------------------------
(* A call that goes on to the step p with the code object o.                *)
LEMMA GoesOnInv ==
  ASSUME CacheInv, calls # <<>>, NEW p \in {"create", "insert", "frame"}, NEW o \in Codes \cup {NoCode},
         p # "create" => o \in Codes, Turns([Adding EXCEPT !.pc = p, !.code = o]),
         UNCHANGED <<entries, count, max_count>>, refs' \in [Codes -> Int]
  PROVE  CacheInv'
<1> DEFINE c == [Adding EXCEPT !.pc = p, !.code = o]
<1>1. Adding \in Calls
  BY AddingFacts
<1>2. c \in Calls /\ c.pc = p /\ c.code = o
  BY <1>1 DEF Calls
<1>3. Turns(c)
  OBVIOUS
<1> HIDE DEF c
<1> QED
  BY <1>2, <1>3, TurnKeepsInv

(* The first entry of the array.                                            *)
LEMMA FirstEntryInv ==
  ASSUME CacheInv, calls # <<>>, Adding.code \in Codes, Framed, refs' \in [Codes -> Int],
         max_count' = Block, count' = 1, entries' = [i \in {0} |-> Entry]
  PROVE  CacheInv'
<1> DEFINE c == [Adding EXCEPT !.pc = "frame"]
<1>1. Adding \in Calls /\ Adding.line \in Lines
  BY AddingFacts
<1>2. c \in Calls /\ c.pc = "frame" /\ c.code \in Codes
  BY <1>1 DEF Calls
<1>3. Turns(c)
  BY DEF Framed
<1> HIDE DEF c
<1>4. calls' \in Seq(Calls) /\ Adding' = c /\ WaitInv'
  BY <1>2, <1>3, TurnFacts
<1>5. Position' = {0}
  BY DEF Position
<1>6. Entry \in [line : Lines, code : Codes]
  BY <1>1 DEF Entry
<1>7. CacheTypeOK'
  BY <1>4, <1>5, <1>6, CacheAssumption DEF CacheTypeOK
<1>8. Ascending' /\ Room'
  BY <1>5, CacheAssumption DEF Ascending, Room
<1>9. SearchInv' /\ CodeInv'
  BY <1>2, <1>4 DEF SearchInv, Bisecting, CodeInv
<1> QED
  BY <1>4, <1>7, <1>8, <1>9 DEF CacheInv

(* The new object in the place of the old one keeps the lines.              *)
LEMMA ReplacedInv ==
  ASSUME CacheInv, calls # <<>>, Adding.code \in Codes, Found \in Position, Framed,
         entries[Found].line = Adding.line, entries' = [entries EXCEPT ![Found] = Entry],
         refs' = [refs EXCEPT ![entries[Found].code] = @ - 1], UNCHANGED <<count, max_count>>
  PROVE  CacheInv'
<1> DEFINE c == [Adding EXCEPT !.pc = "frame"]
<1>1. Adding \in Calls /\ Adding.line \in Lines
  BY AddingFacts
<1>2. c \in Calls /\ c.pc = "frame" /\ c.code \in Codes
  BY <1>1 DEF Calls
<1>3. Turns(c)
  BY DEF Framed
<1> HIDE DEF c
<1>4. calls' \in Seq(Calls) /\ Adding' = c /\ WaitInv'
  BY <1>2, <1>3, TurnFacts
<1>5. Position' = Position /\ entries \in [Position -> [line : Lines, code : Codes]]
  BY DEF Position, CacheInv, CacheTypeOK
<1>6. Entry \in [line : Lines, code : Codes] /\ Entry.line = Adding.line
  BY <1>1 DEF Entry
<1>7. entries' \in [Position' -> [line : Lines, code : Codes]]
  BY <1>5, <1>6
<1>8. \A i \in Position : entries'[i].line = entries[i].line
  BY <1>5, <1>6
<1>9. refs' \in [Codes -> Int]
  BY EntryFacts DEF CacheInv, CacheTypeOK
<1>10. CacheTypeOK'
  BY <1>4, <1>7, <1>9 DEF CacheInv, CacheTypeOK
<1>11. Ascending' /\ Room'
  BY <1>5, <1>8 DEF CacheInv, Ascending, Room
<1>12. SearchInv' /\ CodeInv'
  BY <1>2, <1>4 DEF SearchInv, Bisecting, CodeInv
<1> QED
  BY <1>4, <1>10, <1>11, <1>12 DEF CacheInv

LEMMA CacheInvStep == CacheInv /\ [CacheNext]_cacheVars => CacheInv'
<1> SUFFICES ASSUME CacheInv, [CacheNext]_cacheVars PROVE CacheInv'
  OBVIOUS
<1>a. refs \in [Codes -> Int] /\ max_count \in Nat /\ count \in Nat
  BY DEF CacheInv, CacheTypeOK
<1>b. calls # <<>> => /\ Adding \in Calls /\ Adding.line \in Int
                      /\ [Adding EXCEPT !.pc = "create"] = [Adding EXCEPT !.pc = "create", !.code = Adding.code]
                      /\ [Adding EXCEPT !.pc = "frame"] = [Adding EXCEPT !.pc = "frame", !.code = Adding.code]
                      /\ Adding.code \in Codes \cup {NoCode}
  BY AddingFacts DEF Calls
<1>c. \A o \in Codes : [refs EXCEPT ![o] = 1] \in [Codes -> Int]
  BY <1>a
<1>1. ASSUME NEW line \in Lines, BeginTraceback(line) PROVE CacheInv'
  BY <1>1, BeginTracebackInv
<1>2. CASE Bisect
  BY <1>2, BisectInv
<1>3. CASE Find
  <2> USE <1>3 DEF Find
  <2>1. calls # <<>> /\ UNCHANGED <<entries, count, max_count, refs>>
    BY DEF IsAt
  <2>2. CASE max_count = 0 \/ Beyond(Adding.line)
    BY <1>a, <1>b, <2>1, <2>2, GoesOnInv
  <2>3. CASE ~(max_count = 0 \/ Beyond(Adding.line))
    BY <1>a, <2>1, <2>3, BeginSearchInv
  <2> QED
    BY <2>2, <2>3
<1>4. CASE FindEnds
  <2> USE <1>4 DEF FindEnds
  <2>1. calls # <<>> /\ Bisecting /\ ~Searching /\ UNCHANGED <<entries, count, max_count>>
    BY DEF IsAt, Bisecting
  <2>2. refs' \in [Codes -> Int]
    BY <1>a
  <2>3. entries[Found].code \in Codes
    BY <2>1, FoundFacts, EntryFacts
  <2>4. CASE entries[Found].line = Adding.line
    BY <2>1, <2>2, <2>3, <2>4, GoesOnInv
  <2>5. CASE entries[Found].line # Adding.line
    BY <1>b, <2>1, <2>2, <2>5, GoesOnInv
  <2> QED
    BY <2>4, <2>5
<1>5. CASE Create
  <2> USE <1>5 DEF Create
  <2>0. calls # <<>> /\ UNCHANGED <<entries, count, max_count>>
    BY DEF IsAt
  <2>1. refs' \in [Codes -> Int]
    BY <1>a, <1>c
  <2>2. ASSUME NEW o \in Codes, Turns([Adding EXCEPT !.pc = "insert", !.code = o]) PROVE CacheInv'
    BY <2>0, <2>1, <2>2, GoesOnInv
  <2>3. CASE calls' = Waiting
    BY <2>0, <2>1, <2>3, PopKeepsInv
  <2> QED
    BY <2>2, <2>3
<1>6. CASE InsertFirst
  <2> USE <1>6 DEF InsertFirst
  <2>1. calls # <<>> /\ Adding.code \in Codes /\ Turns([Adding EXCEPT !.pc = "frame", !.code = Adding.code])
    BY <1>b DEF IsAt, CacheInv, CodeInv, Framed
  <2>2. refs' \in [Codes -> Int]
    BY <1>a, <2>1
  <2>3. CASE UNCHANGED <<entries, count, max_count>>
    BY <2>1, <2>2, <2>3, GoesOnInv
  <2>4. CASE max_count' = Block /\ count' = 1 /\ entries' = [i \in {0} |-> Entry]
    BY <2>1, <2>2, <2>4, FirstEntryInv DEF Framed
  <2> QED
    BY <2>3, <2>4
<1>7. CASE InsertSearch
  <2> USE <1>7 DEF InsertSearch
  <2>1. calls # <<>> /\ max_count > 0 /\ Adding.code \in Codes
    BY DEF IsAt, CacheInv, CodeInv
  <2>2. CASE Beyond(Adding.line)
    <3>1. count > 0 /\ count - 1 \in Position
      BY <1>a, <2>1 DEF CacheInv, Room, Position
    <3>2. \A i \in Position : entries[i].line < Adding.line /\ ~(i >= count)
      <4> SUFFICES ASSUME NEW i \in Position PROVE entries[i].line < Adding.line /\ ~(i >= count)
        OBVIOUS
      <4>1. i \in 0..(count - 1) /\ (i = count - 1 \/ i < count - 1)
        BY <1>a DEF Position
      <4>2. i < count - 1 => entries[i].line < entries[count - 1].line
        BY <3>1 DEF CacheInv, Ascending
      <4>3. entries[i].line \in Int /\ entries[count - 1].line \in Int /\ Adding.line > entries[count - 1].line
        BY <2>2, <3>1, EntryFacts DEF Beyond
      <4> QED
        BY <1>a, <1>b, <2>1, <4>1, <4>2, <4>3
    <3>3. InsertedAt(count) /\ count \in 0..count
      BY <1>a, <2>2
    <3> QED
      BY <2>1, <3>2, <3>3, InsertedAtInv
  <2>3. CASE ~Beyond(Adding.line)
    BY <2>1, <2>3, BeginSearchInv
  <2> QED
    BY <2>2, <2>3
<1>8. CASE InsertEnds
  <2> USE <1>8 DEF InsertEnds
  <2>1. /\ calls # <<>> /\ Bisecting /\ ~Searching /\ Adding.code \in Codes /\ max_count > 0
        /\ Found \in Position /\ Found \in 0..count
    <3>1. calls # <<>> /\ Bisecting /\ ~Searching /\ Adding.code \in Codes
      BY DEF IsAt, Bisecting, CacheInv, CodeInv
    <3>2. Found \in Position /\ max_count > 0
      BY <3>1, FoundFacts DEF CacheInv, SearchInv
    <3> QED
      BY <1>a, <3>1, <3>2 DEF Position
  <2>2. \A i \in Position : entries[i].line < Adding.line <=> i < Found
    BY <2>1, FoundFacts
  <2>3. \A i \in Position : entries[i].line \in Int /\ i \in Nat
    BY EntryFacts
  <2>4. CASE entries[Found].line = Adding.line
    BY <1>a, <2>1, <2>4, EntryFacts, ReplacedInv
  <2>5. CASE entries[Found].line # Adding.line
    <3>1. \A i \in Position : i >= Found => entries[i].line > Adding.line
      <4> SUFFICES ASSUME NEW i \in Position, i >= Found PROVE entries[i].line > Adding.line
        OBVIOUS
      <4>1. i > Found => entries[Found].line < entries[i].line
        BY <2>1 DEF CacheInv, Ascending
      <4>2. entries[Found].line > Adding.line
        BY <1>b, <2>1, <2>2, <2>3, <2>5
      <4> QED
        BY <1>b, <2>1, <2>3, <4>1, <4>2
    <3> QED
      BY <2>1, <2>2, <2>5, <3>1, InsertedAtInv
  <2> QED
    BY <2>4, <2>5
<1>9. CASE Finish
  <2>1. calls # <<>> /\ Adding.code \in Codes
    BY <1>9 DEF Finish, IsAt, CacheInv, CodeInv
  <2>2. refs' \in [Codes -> Int]
    BY <1>9, <1>a, <2>1 DEF Finish
  <2> QED
    BY <1>9, <2>1, <2>2, PopKeepsInv DEF Finish
<1>10. CASE UNCHANGED cacheVars
  BY <1>10 DEF cacheVars, CacheInv, CacheTypeOK, Ascending, Room, WaitInv, SearchInv, CodeInv, Position, Bisecting,
               Adding
<1> QED
  BY <1>1, <1>2, <1>3, <1>4, <1>5, <1>6, <1>7, <1>8, <1>9, <1>10 DEF CacheNext

(* The inductive invariant of the cache.                                    *)
THEOREM CacheInvariance == CacheSpec => []CacheInv
BY InitCacheInv, CacheInvStep, PTL DEF CacheSpec

(* Whatever lines are added, however tracebacks nest while code objects are *)
(* made and whichever allocations fail: the array stays sorted, is accessed *)
(* within its bounds, and the bisection finds the place of the line.        *)
THEOREM SearchCorrectHolds == CacheSpec => []SearchCorrect
BY CacheInvariance, SearchCorrectFromInv, PTL

----------------------------------------------------------------------------
(* The references to code objects. What a call is about to insert ...       *)
Inserts(call) == call.pc \in {"create", "insert", "inserting"}

(* ... was not replaced so far; the innermost call is undisturbed since it  *)
(* looked for its line, and what was replaced is still there to be found.   *)
UndisturbedInv ==
  /\ Len(calls) <= Nested + 1
  /\ \A k \in 1..Len(calls) : Inserts(calls[k]) => calls[k].line \notin uncounted
  /\ Len(calls) = Nested + 1 /\ calls # <<>> /\ Inserts(Adding) => \A i \in Position : entries[i].line # Adding.line
  /\ \A line \in uncounted : \E i \in Position : entries[i].line = line

(* A call has no code object before it has found or made one, but then it   *)
(* has one.                                                                 *)
Codeless(call) == call.pc \in {"find", "finding", "create"}

OwnedInv ==
  \A k \in 1..Len(calls) : IF Codeless(calls[k]) THEN calls[k].code = NoCode ELSE calls[k].code \in Codes

CountInv == CacheInv /\ UndisturbedInv /\ OwnedInv /\ CountsExact

(* Who is counted for a code object.                                        *)
Entries(c) == {i \in Position : entries[i].code = c /\ entries[i].line \notin uncounted}
Owners(c)  == {k \in 1..Len(calls) : calls[k].code = c}

LEMMA HoldersAre == \A c : Holders(c) = Cardinality(Entries(c)) + Cardinality(Owners(c))
BY DEF Holders, Entries, Owners

LEMMA HoldersFinite ==
  ASSUME CacheInv, NEW c
  PROVE  /\ IsFiniteSet(Entries(c)) /\ Cardinality(Entries(c)) \in Nat
         /\ IsFiniteSet(Owners(c)) /\ Cardinality(Owners(c)) \in Nat
<1>1. count - 1 \in Int /\ Len(calls) \in Int
  BY DEF CacheInv, CacheTypeOK
<1>2. IsFiniteSet(Position) /\ IsFiniteSet(1..Len(calls))
  BY <1>1, FS_Interval DEF Position
<1>3. Entries(c) \in SUBSET Position /\ Owners(c) \in SUBSET (1..Len(calls))
  BY DEF Entries, Owners
<1> QED
  BY <1>2, <1>3, FS_Subset, FS_CardinalityType

(* When a step changes the counted entries and calls of a code object by    *)
(* one each at most, what this does to their number.                        *)
LEMMA CountedStep ==
  ASSUME CountInv, NEW c \in Codes, NEW e, NEW k,
         \/ Entries(c)' = Entries(c) /\ refs'[c] = refs[c] + (Cardinality(Owners(c)') - Cardinality(Owners(c)))
         \/ Owners(c)' = Owners(c) /\ refs'[c] = refs[c] + (Cardinality(Entries(c)') - Cardinality(Entries(c))),
         Cardinality(Owners(c)') \in Int, Cardinality(Entries(c)') \in Int
  PROVE  refs'[c] = Holders(c)'
<1>1. refs[c] = Cardinality(Entries(c)) + Cardinality(Owners(c)) /\ refs[c] \in Int
  BY HoldersAre DEF CountInv, CountsExact, CacheInv, CacheTypeOK
<1>2. Holders(c)' = Cardinality(Entries(c)') + Cardinality(Owners(c)')
  BY DEF Holders, Entries, Owners
<1>3. Cardinality(Entries(c)) \in Nat /\ Cardinality(Owners(c)) \in Nat
  BY HoldersFinite DEF CountInv
<1> QED
  BY <1>1, <1>2, <1>3

LEMMA TopFacts ==
  ASSUME CountInv, calls # <<>>
  PROVE  /\ Len(calls) \in 1..Len(calls) /\ Adding = calls[Len(calls)] /\ Adding \in Calls
         /\ Inserts(Adding) => Adding.line \notin uncounted
         /\ IF Codeless(Adding) THEN Adding.code = NoCode ELSE Adding.code \in Codes
         /\ \A c \in Codes : Len(calls) \in Owners(c) <=> Adding.code = c
<1>1. Len(calls) \in Nat \ {0} /\ Adding \in Calls
  BY AddingFacts DEF CountInv
<1> QED
  BY <1>1 DEF CountInv, UndisturbedInv, OwnedInv, Adding, Owners

(* The stack of calls after a call's turn.                                  *)
LEMMA TurnedCalls ==
  ASSUME CacheInv, calls # <<>>, NEW t \in Calls, Turns(t)
  PROVE  /\ calls' \in Seq(Calls) /\ calls' # <<>> /\ Len(calls') = Len(calls) /\ Adding' = t
         /\ Len(calls) \in Nat \ {0}
         /\ \A k \in 1..Len(calls) : calls'[k] = IF k = Len(calls) THEN t ELSE calls[k]
<1>1. calls' \in Seq(Calls) /\ calls' # <<>> /\ Len(calls') = Len(calls) /\ Adding' = t
  BY TurnFacts
<1>2. calls \in Seq(Calls) /\ Len(calls) \in Nat \ {0}
  BY DEF CacheInv, CacheTypeOK
<1>3. \A k \in 1..Len(calls) : calls'[k] = IF k = Len(calls) THEN t ELSE calls[k]
  BY <1>2 DEF Turns
<1> QED
  BY <1>1, <1>2, <1>3

(* A call's turn that leaves the array alone.                               *)
LEMMA TurnCounts ==
  ASSUME CountInv, calls # <<>>, NEW t \in Calls, Turns(t), UNCHANGED <<entries, count, uncounted>>,
         Inserts(t) => /\ t.line \notin uncounted
                       /\ Len(calls) = Nested + 1 => \A i \in Position : entries[i].line # t.line,
         IF Codeless(t) THEN t.code = NoCode ELSE t.code \in Codes,
         \A c \in Codes : \/ (Adding.code = c <=> t.code = c) /\ refs'[c] = refs[c]
                          \/ Adding.code # c /\ t.code = c /\ refs'[c] = refs[c] + 1
  PROVE  UndisturbedInv' /\ OwnedInv' /\ CountsExact'
<1>1. /\ calls' \in Seq(Calls) /\ calls' # <<>> /\ Len(calls') = Len(calls) /\ Adding' = t
      /\ Len(calls) \in Nat \ {0}
      /\ \A k \in 1..Len(calls) : calls'[k] = IF k = Len(calls) THEN t ELSE calls[k]
  BY TurnedCalls DEF CountInv
<1>2. UndisturbedInv'
  <2>1. \A k \in 1..Len(calls') : Inserts(calls'[k]) => calls'[k].line \notin uncounted'
    BY <1>1 DEF CountInv, UndisturbedInv
  <2>2. Inserts(Adding') /\ Len(calls') = Nested + 1 => \A i \in Position : entries[i].line # Adding'.line
    BY <1>1
  <2>3. Position' = Position
    BY DEF Position
  <2> QED
    BY <1>1, <2>1, <2>2, <2>3 DEF CountInv, UndisturbedInv, Inserts
<1>3. OwnedInv'
  BY <1>1 DEF CountInv, OwnedInv
<1>4. ASSUME NEW c \in Codes PROVE refs'[c] = Holders(c)'
  <2>1. Entries(c)' = Entries(c)
    BY DEF Entries, Position
  <2>2. /\ IsFiniteSet(Owners(c)) /\ Cardinality(Owners(c)) \in Nat /\ Cardinality(Entries(c)) \in Nat
        /\ refs[c] \in Int
    BY HoldersFinite DEF CountInv, CacheInv, CacheTypeOK
  <2>3. CASE (Adding.code = c <=> t.code = c) /\ refs'[c] = refs[c]
    <3>1. Owners(c)' = Owners(c)
      BY <1>1, <2>3, TopFacts DEF Owners
    <3> QED
      BY <2>1, <2>2, <2>3, <3>1, CountedStep
  <2>4. CASE Adding.code # c /\ t.code = c /\ refs'[c] = refs[c] + 1
    <3>1. Owners(c)' = Owners(c) \cup {Len(calls)} /\ Len(calls) \notin Owners(c)
      BY <1>1, <2>4, TopFacts DEF Owners
    <3>2. Cardinality(Owners(c)') = Cardinality(Owners(c)) + 1
      BY <2>2, <3>1, FS_AddElement
    <3> QED
      BY <2>1, <2>2, <2>4, <3>2, CountedStep
  <2> QED
    BY <2>3, <2>4
<1> QED
  BY <1>2, <1>3, <1>4 DEF CountsExact

(* A call that ends gives its reference back.                               *)
LEMMA PopCounts ==
  ASSUME CountInv, calls # <<>>, calls' = Waiting, UNCHANGED <<entries, count, uncounted>>,
         \A c \in Codes : refs'[c] = IF Adding.code = c THEN refs[c] - 1 ELSE refs[c]
  PROVE  UndisturbedInv' /\ OwnedInv' /\ CountsExact'
<1>1. /\ calls' \in Seq(Calls) /\ Len(calls') = Len(calls) - 1 /\ Len(calls) \in Nat \ {0}
      /\ \A k \in 1..Len(calls') : calls'[k] = calls[k]
  BY AddingFacts DEF CountInv
<1>2. UndisturbedInv'
  <2>1. Len(calls') <= Nested + 1 /\ Len(calls') # Nested + 1
    BY <1>1, CacheAssumption DEF CountInv, UndisturbedInv
  <2>2. \A k \in 1..Len(calls') : Inserts(calls'[k]) => calls'[k].line \notin uncounted'
    BY <1>1 DEF CountInv, UndisturbedInv
  <2>3. Position' = Position
    BY DEF Position
  <2> QED
    BY <2>1, <2>2, <2>3 DEF CountInv, UndisturbedInv, Inserts
<1>3. OwnedInv'
  BY <1>1 DEF CountInv, OwnedInv
<1>4. ASSUME NEW c \in Codes PROVE refs'[c] = Holders(c)'
  <2>1. Entries(c)' = Entries(c)
    BY DEF Entries, Position
  <2>2. /\ IsFiniteSet(Owners(c)) /\ Cardinality(Owners(c)) \in Nat /\ Cardinality(Entries(c)) \in Nat
        /\ refs[c] \in Int
    BY HoldersFinite DEF CountInv, CacheInv, CacheTypeOK
  <2>3. Owners(c)' = Owners(c) \ {Len(calls)}
    BY <1>1 DEF Owners
  <2>4. Len(calls) \in Owners(c) <=> Adding.code = c
    BY TopFacts
  <2>5. Cardinality(Owners(c)') = Cardinality(Owners(c)) - (IF Adding.code = c THEN 1 ELSE 0)
    <3>1. CASE Adding.code = c
      BY <2>2, <2>3, <2>4, <3>1, FS_RemoveElement
    <3>2. CASE Adding.code # c
      <4>1. Owners(c)' = Owners(c)
        BY <2>3, <2>4, <3>2
      <4> QED
        BY <2>2, <3>2, <4>1
    <3> QED
      BY <3>1, <3>2
  <2> QED
    BY <2>1, <2>2, <2>5, CountedStep
<1> QED
  BY <1>2, <1>3, <1>4 DEF CountsExact

LEMMA BeginCounts ==
  ASSUME CountInv, NEW line \in Lines, BeginTraceback(line)
  PROVE  UndisturbedInv' /\ OwnedInv' /\ CountsExact'
<1> DEFINE t == [line |-> line, pc |-> "find", start |-> 0, mid |-> 0, end |-> 0, code |-> NoCode]
<1>1. calls \in Seq(Calls) /\ Len(calls) \in Nat
  BY DEF CountInv, CacheInv, CacheTypeOK
<1>2. t \in Calls /\ t.pc = "find" /\ t.code = NoCode
  BY DEF Calls
<1> HIDE DEF t
<1>3. calls' = Append(calls, t) /\ UNCHANGED <<entries, count, uncounted, refs>>
  BY DEF BeginTraceback, t
<1>4. /\ Len(calls') = Len(calls) + 1
      /\ \A k \in 1..Len(calls) : calls'[k] = calls[k]
      /\ calls'[Len(calls) + 1] = t
  BY <1>1, <1>2, <1>3
<1>5. Len(calls') <= Nested + 1
  BY <1>1, <1>4, CacheAssumption DEF BeginTraceback
<1>6. UndisturbedInv'
  BY <1>1, <1>2, <1>3, <1>4, <1>5 DEF CountInv, UndisturbedInv, Inserts, Position, Adding
<1>7. OwnedInv'
  BY <1>1, <1>2, <1>4 DEF CountInv, OwnedInv, Codeless
<1>8. ASSUME NEW c \in Codes PROVE refs'[c] = Holders(c)'
  <2>1. Entries(c)' = Entries(c) /\ Owners(c)' = Owners(c)
    BY <1>1, <1>2, <1>3, <1>4, CacheAssumption DEF Entries, Owners, Position
  <2> QED
    BY <1>3, <2>1, HoldersAre DEF CountInv, CountsExact, Holders, Entries, Owners
<1> QED
  BY <1>6, <1>7, <1>8 DEF CountsExact

(* A search that does not end at an entry of the line, or that does not     *)
(* begin, says that there is none.                                          *)
LEMMA SearchedAbsent ==
  ASSUME CacheInv, Bisecting, ~Searching, entries[Found].line # Adding.line
  PROVE  \A i \in Position : entries[i].line # Adding.line
<1>1. Found \in Position /\ \A i \in Position : entries[i].line < Adding.line <=> i < Found
  BY FoundFacts
<1>2. Adding.line \in Int /\ \A i \in Position : entries[i].line \in Int /\ i \in Nat
  BY AddingFacts, EntryFacts DEF Bisecting
<1>3. \A i \in Position : Found < i => entries[Found].line < entries[i].line
  BY <1>1 DEF CacheInv, Ascending
<1> QED
  BY <1>1, <1>2, <1>3

LEMMA BeyondAbsent ==
  ASSUME CacheInv, calls # <<>>, max_count = 0 \/ Beyond(Adding.line)
  PROVE  \A i \in Position : entries[i].line # Adding.line
<1> SUFFICES ASSUME NEW i \in Position PROVE entries[i].line # Adding.line
  OBVIOUS
<1>1. count \in Nat /\ max_count \in Nat /\ count <= max_count
  BY DEF CacheInv, CacheTypeOK, Room
<1>2. count - 1 \in Position /\ i \in Nat /\ i <= count - 1 /\ max_count # 0
  BY <1>1 DEF Position
<1>3. entries[i].line \in Int /\ entries[count - 1].line \in Int /\ Adding.line \in Int
  BY <1>2, AddingFacts, EntryFacts
<1>4. i < count - 1 => entries[i].line < entries[count - 1].line
  BY <1>2 DEF CacheInv, Ascending
<1> QED
  BY <1>1, <1>2, <1>3, <1>4 DEF Beyond

(* A call that has its code object now keeps it.                            *)
LEMMA FramedFacts ==
  ASSUME CountInv, calls # <<>>, Framed, Adding.code \in Codes
  PROVE  /\ Len(calls') = Len(calls) /\ ~Inserts(Adding')
         /\ \A k \in 1..Len(calls) : Inserts(calls'[k]) => Inserts(calls[k]) /\ calls'[k].line = calls[k].line
         /\ \A k \in 1..Len(calls) : k # Len(calls) => calls'[k] = calls[k]
         /\ OwnedInv'
         /\ \A c \in Codes : Owners(c)' = Owners(c)
<1> DEFINE t == [Adding EXCEPT !.pc = "frame"]
<1>1. Adding \in Calls /\ Adding = calls[Len(calls)] /\ CacheInv
  BY TopFacts DEF CountInv
<1>2. t \in Calls /\ t.pc = "frame" /\ t.code = Adding.code /\ t.line = Adding.line
  BY <1>1 DEF Calls
<1>3. Turns(t)
  BY DEF Framed
<1> HIDE DEF t
<1>4. /\ calls' \in Seq(Calls) /\ calls' # <<>> /\ Len(calls') = Len(calls) /\ Adding' = t
      /\ Len(calls) \in Nat \ {0}
      /\ \A k \in 1..Len(calls) : calls'[k] = IF k = Len(calls) THEN t ELSE calls[k]
  BY <1>1, <1>2, <1>3, TurnedCalls
<1>5. ~Inserts(t) /\ ~Codeless(t)
  BY <1>2 DEF Inserts, Codeless
<1>6. OwnedInv'
  BY <1>2, <1>4, <1>5 DEF CountInv, OwnedInv
<1>7. \A k \in 1..Len(calls) : calls'[k].code = calls[k].code
  BY <1>1, <1>2, <1>4
<1>8. \A c \in Codes : Owners(c)' = Owners(c)
  BY <1>4, <1>7 DEF Owners
<1> QED
  BY <1>4, <1>5, <1>6, <1>8

(* Positions that move up by one from a position on.                        *)
LEMMA ShiftedPositions ==
  ASSUME NEW S \in SUBSET Int, IsFiniteSet(S), NEW pos \in Int
  PROVE  LET T == {IF i < pos THEN i ELSE i + 1 : i \in S}
         IN  IsFiniteSet(T) /\ Cardinality(T) = Cardinality(S) /\ pos \notin T
<1> DEFINE T == {IF i < pos THEN i ELSE i + 1 : i \in S}
           f == [i \in S |-> IF i < pos THEN i ELSE i + 1]
<1>1. f \in [S -> T]
  OBVIOUS
<1>2. \A i, j \in S : f[i] = f[j] => i = j
  <2>1. \A i, j \in Int : (IF i < pos THEN i ELSE i + 1) = (IF j < pos THEN j ELSE j + 1) => i = j
    OBVIOUS
  <2> QED
    BY <2>1
<1>3. \A j \in T : \E i \in S : f[i] = j
  OBVIOUS
<1>4. pos \notin T
  <2>1. \A i \in Int : (IF i < pos THEN i ELSE i + 1) # pos
    OBVIOUS
  <2> QED
    BY <2>1
<1>5. DOMAIN f = S
  OBVIOUS
<1> HIDE DEF f, T
<1>6. f \in Bijection(S, T)
  BY <1>1, <1>2, <1>3, <1>5, Zenon DEF Bijection, Injection, Surjection, IsInjective
<1>7. ExistsBijection(S, T)
  BY <1>6 DEF ExistsBijection
<1>8. IsFiniteSet(T) /\ Cardinality(T) = Cardinality(S)
  BY <1>7, FS_Bijection
<1> QED
  BY <1>4, <1>8 DEF T

(* Where an entry is after another was inserted at pos.                     *)
Moved(i, pos) == IF i < pos THEN i ELSE i + 1

(* What an insertion does to the counts, whether the array had room, grew   *)
(* or was allocated: one more entry and one more reference.                 *)
LEMMA EnteredCounts ==
  ASSUME CountInv, calls # <<>>, Framed, Adding.code \in Codes, Inserts(Adding), NEW pos \in Int,
         UNCHANGED uncounted, refs' = [refs EXCEPT ![Adding.code] = @ + 1],
         pos \in Position', entries'[pos] = Entry,
         \A i \in Position : Moved(i, pos) \in Position' /\ entries'[Moved(i, pos)] = entries[i],
         \A j \in Position' : j = pos \/ \E i \in Position : j = Moved(i, pos)
  PROVE  UndisturbedInv' /\ OwnedInv' /\ CountsExact'
<1>1. /\ Len(calls') = Len(calls) /\ ~Inserts(Adding') /\ OwnedInv'
      /\ \A k \in 1..Len(calls) : Inserts(calls'[k]) => Inserts(calls[k]) /\ calls'[k].line = calls[k].line
      /\ \A c \in Codes : Owners(c)' = Owners(c)
  BY FramedFacts
<1>2. Adding.line \notin uncounted /\ Entry.line = Adding.line /\ Entry.code = Adding.code
  BY TopFacts DEF Entry
<1>3. UndisturbedInv'
  <2>1. \A line \in uncounted : \E i \in Position' : entries'[i].line = line
    <3> SUFFICES ASSUME NEW line \in uncounted PROVE \E i \in Position' : entries'[i].line = line
      OBVIOUS
    <3>1. PICK i \in Position : entries[i].line = line
      BY DEF CountInv, UndisturbedInv
    <3> QED
      BY <3>1
  <2>2. Len(calls) <= Nested + 1 /\ \A k \in 1..Len(calls) : Inserts(calls[k]) => calls[k].line \notin uncounted
    BY DEF CountInv, UndisturbedInv
  <2>3. \A k \in 1..Len(calls) : Inserts(calls'[k]) => calls'[k].line \notin uncounted
    BY <1>1, <2>2
  <2> QED
    BY <1>1, <2>1, <2>2, <2>3 DEF UndisturbedInv, Inserts
<1>4. ASSUME NEW c \in Codes PROVE refs'[c] = Holders(c)'
  <2> DEFINE S == Entries(c)
             T == {Moved(i, pos) : i \in S}
  <2>1. /\ IsFiniteSet(S) /\ Cardinality(S) \in Nat /\ IsFiniteSet(Owners(c)) /\ Cardinality(Owners(c)) \in Nat
        /\ refs \in [Codes -> Int]
    BY HoldersFinite DEF CountInv, CacheInv, CacheTypeOK
  <2>2. S \in SUBSET Int
    BY DEF Entries, Position
  <2>3. Entries(c)' = IF Adding.code = c THEN T \cup {pos} ELSE T
    <3>1. Entries(c)' = {j \in Position' : entries'[j].code = c /\ entries'[j].line \notin uncounted}
      BY DEF Entries
    <3>2. \A i \in S : Moved(i, pos) \in Entries(c)'
      BY <3>1 DEF Entries
    <3>3. pos \in Entries(c)' <=> Adding.code = c
      BY <1>2, <3>1
    <3>4. ASSUME NEW j \in Entries(c)', j # pos PROVE j \in T
      <4>1. PICK i \in Position : j = Moved(i, pos)
        BY <3>1, <3>4
      <4>2. i \in S
        BY <3>1, <4>1 DEF Entries
      <4> QED
        BY <4>1, <4>2
    <3> QED
      BY <2>2, <3>2, <3>3, <3>4 DEF Moved
  <2> HIDE DEF S
  <2>4. IsFiniteSet(T) /\ Cardinality(T) = Cardinality(S) /\ pos \notin T
    BY <2>1, <2>2, ShiftedPositions DEF Moved
  <2> HIDE DEF T
  <2>5. CASE Adding.code = c
    <3>1. Cardinality(Entries(c)') = Cardinality(S) + 1
      <4>1. Cardinality(T \cup {pos}) = Cardinality(T) + 1
        BY <2>4, FS_AddElement
      <4> QED
        BY <2>3, <2>4, <2>5, <4>1
    <3>2. refs'[c] = refs[c] + 1
      BY <2>1, <2>5
    <3>3. Owners(c)' = Owners(c) /\ Cardinality(Entries(c)) = Cardinality(S)
      BY <1>1 DEF S
    <3> QED
      BY <2>1, <3>1, <3>2, <3>3, CountedStep
  <2>6. CASE Adding.code # c
    <3>1. Cardinality(Entries(c)') = Cardinality(S)
      BY <2>3, <2>4, <2>6
    <3>2. refs'[c] = refs[c]
      BY <2>1, <2>6
    <3>3. Owners(c)' = Owners(c) /\ Cardinality(Entries(c)) = Cardinality(S)
      BY <1>1 DEF S
    <3> QED
      BY <2>1, <3>1, <3>2, <3>3, CountedStep
  <2> QED
    BY <2>5, <2>6
<1> QED
  BY <1>1, <1>3, <1>4 DEF CountsExact

(* Without memory for another entry the call goes on with its code object.  *)
LEMMA NotEnteredCounts ==
  ASSUME CountInv, calls # <<>>, Framed, Adding.code \in Codes, UNCHANGED <<entries, count, refs, uncounted>>
  PROVE  UndisturbedInv' /\ OwnedInv' /\ CountsExact'
<1> DEFINE t == [Adding EXCEPT !.pc = "frame"]
<1>1. Adding \in Calls
  BY TopFacts
<1>2. t \in Calls /\ t.pc = "frame" /\ t.code = Adding.code
  BY <1>1 DEF Calls
<1>3. Turns(t)
  BY DEF Framed
<1> HIDE DEF t
<1>4. ~Inserts(t) /\ ~Codeless(t)
  BY <1>2 DEF Inserts, Codeless
<1> QED
  BY <1>2, <1>3, <1>4, TurnCounts

LEMMA InsertedAtCounts ==
  ASSUME CountInv, calls # <<>>, Adding.code \in Codes, Inserts(Adding), NEW pos \in 0..count, InsertedAt(pos)
  PROVE  UndisturbedInv' /\ OwnedInv' /\ CountsExact'
<1>1. Framed /\ UNCHANGED uncounted
  BY DEF InsertedAt
<1>2. CASE UNCHANGED <<entries, count, refs, uncounted>>
  BY <1>1, <1>2, NotEnteredCounts
<1>3. CASE ~(UNCHANGED <<entries, count, refs, uncounted>>)
  <2>1. /\ count' = count + 1
        /\ entries' = [i \in 0..count |-> CASE i < pos -> entries[i]
                                            [] i = pos -> Entry
                                            [] i > pos -> entries[i - 1]]
        /\ refs' = [refs EXCEPT ![Adding.code] = @ + 1]
    BY <1>3 DEF InsertedAt
  <2>2. count \in Nat /\ pos \in Int
    BY DEF CountInv, CacheInv, CacheTypeOK
  <2>3. Position' = 0..count /\ Position = 0..(count - 1)
    BY <2>1, <2>2 DEF Position
  <2>4. entries'[pos] = Entry
    BY <2>1, <2>2
  <2>5. ASSUME NEW i \in Position PROVE Moved(i, pos) \in Position' /\ entries'[Moved(i, pos)] = entries[i]
    <3>1. CASE i < pos
      BY <2>1, <2>2, <2>3, <3>1 DEF Moved
    <3>2. CASE ~(i < pos)
      <4>1. Moved(i, pos) = i + 1 /\ i + 1 \in 0..count /\ i + 1 > pos /\ (i + 1) - 1 = i
        BY <2>2, <2>3, <3>2 DEF Moved
      <4> QED
        BY <2>1, <2>2, <2>3, <4>1
    <3> QED
      BY <3>1, <3>2
  <2>6. ASSUME NEW j \in Position', j # pos PROVE \E i \in Position : j = Moved(i, pos)
    <3>1. CASE j < pos
      <4>1. j \in Position /\ j = Moved(j, pos)
        BY <2>2, <2>3, <3>1 DEF Moved
      <4> QED
        BY <4>1
    <3>2. CASE ~(j < pos)
      <4>1. j - 1 \in Position /\ j = Moved(j - 1, pos)
        BY <2>2, <2>3, <2>6, <3>2 DEF Moved
      <4> QED
        BY <4>1
    <3> QED
      BY <3>1, <3>2
  <2> QED
    BY <1>1, <2>1, <2>2, <2>3, <2>4, <2>5, <2>6, EnteredCounts
<1> QED
  BY <1>2, <1>3

LEMMA InsertFirstCounts ==
  ASSUME CountInv, InsertFirst
  PROVE  UndisturbedInv' /\ OwnedInv' /\ CountsExact'
<1>1. calls # <<>> /\ Adding.pc = "insert" /\ Framed /\ max_count = 0 /\ UNCHANGED uncounted
  BY DEF InsertFirst, IsAt
<1>2. Adding.code \in Codes /\ Inserts(Adding)
  BY <1>1, TopFacts DEF Codeless, Inserts
<1>3. CASE UNCHANGED <<entries, count, refs, uncounted>>
  BY <1>1, <1>2, <1>3, NotEnteredCounts
<1>4. CASE ~(UNCHANGED <<entries, count, refs, uncounted>>)
  <2>1. count' = 1 /\ entries' = [i \in {0} |-> Entry] /\ refs' = [refs EXCEPT ![Adding.code] = @ + 1]
    BY <1>4 DEF InsertFirst
  <2>2. count = 0
    BY <1>1 DEF CountInv, CacheInv, CacheTypeOK, Room
  <2>3. Position' = {0} /\ Position = {}
    BY <2>1, <2>2 DEF Position
  <2>4. 0 \in Position' /\ entries'[0] = Entry /\ 0 \in Int
    BY <2>1, <2>3
  <2> QED
    BY <1>1, <1>2, <2>1, <2>3, <2>4, EnteredCounts
<1> QED
  BY <1>3, <1>4

(* A replaced entry gives up the reference to the old code object and has   *)
(* none to the new one. Only a call that another has disturbed replaces an  *)
(* entry: with one level of nesting there is no call inside it.             *)
LEMMA ReplacedCounts ==
  ASSUME Nested <= 1, CountInv, calls # <<>>, Framed, Inserts(Adding), Adding.code \in Codes,
         Found \in Position, entries[Found].line = Adding.line, entries' = [entries EXCEPT ![Found] = Entry],
         refs' = [refs EXCEPT ![entries[Found].code] = @ - 1], uncounted' = uncounted \cup {Adding.line},
         UNCHANGED count
  PROVE  UndisturbedInv' /\ OwnedInv' /\ CountsExact'
<1>1. /\ Len(calls') = Len(calls) /\ ~Inserts(Adding') /\ OwnedInv'
      /\ \A c \in Codes : Owners(c)' = Owners(c)
  BY FramedFacts
<1>2. /\ Adding.line \notin uncounted /\ Entry.line = Adding.line
      /\ entries \in [Position -> [line : Lines, code : Codes]]
      /\ refs \in [Codes -> Int] /\ Position' = Position
  BY TopFacts DEF Entry, CountInv, CacheInv, CacheTypeOK, Position
<1>3. \A i \in Position : /\ entries'[i] = IF i = Found THEN Entry ELSE entries[i]
                          /\ entries'[i].line = entries[i].line
                          /\ entries[i].line = Adding.line <=> i = Found
  <2>1. \A i, j \in Position : i < j => entries[i].line < entries[j].line
    BY DEF CountInv, CacheInv, Ascending
  <2>2. \A i \in Position : entries[i].line \in Int /\ i \in Int
    BY EntryFacts DEF CountInv
  <2>3. \A i \in Position : entries[i].line = Adding.line <=> i = Found
    BY <2>1, <2>2
  <2>4. \A i \in Position : entries'[i] = IF i = Found THEN Entry ELSE entries[i]
    BY <1>2
  <2> QED
    BY <1>2, <2>3, <2>4
<1>4. UndisturbedInv'
  <2>1. Len(calls) = 1
    <3>1. Len(calls) \in Nat \ {0}
      BY AddingFacts DEF CountInv
    <3>2. /\ Len(calls) <= Nested + 1
          /\ Len(calls) = Nested + 1 /\ calls # <<>> /\ Inserts(Adding) => \A i \in Position : entries[i].line # Adding.line
      BY DEF CountInv, UndisturbedInv
    <3>3. Len(calls) # Nested + 1
      BY <3>2
    <3>4. \A l \in Nat \ {0}, n \in Nat : n <= 1 /\ l <= n + 1 /\ l # n + 1 => l = 1
      OBVIOUS
    <3>5. Nested \in Nat
      BY CacheAssumption
    <3> QED
      BY <3>1, <3>2, <3>3, <3>4, <3>5
  <2>2. ~Inserts(calls'[1])
    BY <1>1, <2>1 DEF Adding
  <2>3. \A line \in uncounted' : \E i \in Position : entries'[i].line = line
    BY <1>2, <1>3 DEF CountInv, UndisturbedInv
  <2> QED
    BY <1>1, <1>2, <2>1, <2>2, <2>3, CacheAssumption DEF UndisturbedInv, Inserts
<1>5. ASSUME NEW c \in Codes PROVE refs'[c] = Holders(c)'
  <2>1. /\ IsFiniteSet(Entries(c)) /\ Cardinality(Entries(c)) \in Nat
        /\ Cardinality(Owners(c)) \in Nat /\ Owners(c)' = Owners(c)
    BY <1>1, HoldersFinite DEF CountInv
  <2>2. Entries(c)' = Entries(c) \ {Found}
    BY <1>2, <1>3 DEF Entries
  <2>3. Found \in Entries(c) <=> entries[Found].code = c
    BY <1>2 DEF Entries
  <2>4. Cardinality(Entries(c)') = IF Found \in Entries(c) THEN Cardinality(Entries(c)) - 1 ELSE Cardinality(Entries(c))
    BY <2>1, <2>2, FS_RemoveElement
  <2>5. refs'[c] = refs[c] + (Cardinality(Entries(c)') - Cardinality(Entries(c)))
    BY <1>2, <2>1, <2>3, <2>4
  <2> QED
    BY <2>1, <2>4, <2>5, CountedStep
<1> QED
  BY <1>1, <1>4, <1>5 DEF CountsExact

(* A call that goes on to p, with the code object that it had.              *)
LEMMA GoesOnCounts ==
  ASSUME CountInv, calls # <<>>, NEW t \in Calls, Turns(t), t.line = Adding.line, t.code = Adding.code,
         Codeless(t) <=> Codeless(Adding),
         Inserts(t) => \/ Inserts(Adding)
                       \/ \A i \in Position : entries[i].line # Adding.line,
         UNCHANGED <<entries, count, refs, uncounted>>
  PROVE  UndisturbedInv' /\ OwnedInv' /\ CountsExact'
<1>1. IF Codeless(t) THEN t.code = NoCode ELSE t.code \in Codes
  BY TopFacts
<1>2. Inserts(t) => /\ t.line \notin uncounted
                    /\ Len(calls) = Nested + 1 => \A i \in Position : entries[i].line # t.line
  <2>1. \A line \in uncounted : \E i \in Position : entries[i].line = line
    BY DEF CountInv, UndisturbedInv
  <2>2. Inserts(Adding) => /\ Adding.line \notin uncounted
                           /\ Len(calls) = Nested + 1 => \A i \in Position : entries[i].line # Adding.line
    BY TopFacts DEF CountInv, UndisturbedInv
  <2> QED
    BY <2>1, <2>2
<1> QED
  BY <1>1, <1>2, TurnCounts

LEMMA FindEndsCounts ==
  ASSUME CountInv, FindEnds
  PROVE  UndisturbedInv' /\ OwnedInv' /\ CountsExact'
<1>1. /\ calls # <<>> /\ Adding.pc = "finding" /\ Bisecting /\ ~Searching
      /\ UNCHANGED <<entries, count, uncounted>> /\ CacheInv
  BY DEF FindEnds, IsAt, Bisecting, CountInv
<1>2. Adding \in Calls /\ Adding.code = NoCode /\ Codeless(Adding)
  BY <1>1, TopFacts DEF Codeless
<1>3. CASE entries[Found].line = Adding.line
  <2> DEFINE o == entries[Found].code
             t == [Adding EXCEPT !.pc = "frame", !.code = o]
  <2>1. o \in Codes /\ refs \in [Codes -> Int]
    BY <1>1, FoundFacts, EntryFacts DEF CacheInv, CacheTypeOK
  <2>2. Turns(t) /\ refs' = [refs EXCEPT ![o] = @ + 1]
    BY <1>3 DEF FindEnds
  <2> HIDE DEF o
  <2>3. t \in Calls /\ t.pc = "frame" /\ t.code = o
    BY <1>2, <2>1 DEF Calls
  <2> HIDE DEF t
  <2>4. ~Inserts(t) /\ ~Codeless(t)
    BY <2>3 DEF Inserts, Codeless
  <2>5. \A c \in Codes : \/ (Adding.code = c <=> t.code = c) /\ refs'[c] = refs[c]
                         \/ Adding.code # c /\ t.code = c /\ refs'[c] = refs[c] + 1
    BY <1>2, <2>1, <2>2, <2>3, CacheAssumption
  <2> QED
    BY <1>1, <2>1, <2>2, <2>3, <2>4, <2>5, TurnCounts
<1>4. CASE entries[Found].line # Adding.line
  <2> DEFINE t == [Adding EXCEPT !.pc = "create"]
  <2>1. Turns(t) /\ UNCHANGED refs
    BY <1>4 DEF FindEnds
  <2>2. t \in Calls /\ t.pc = "create" /\ t.code = Adding.code /\ t.line = Adding.line
    BY <1>2 DEF Calls
  <2> HIDE DEF t
  <2>3. Codeless(t) /\ \A i \in Position : entries[i].line # Adding.line
    BY <1>1, <1>4, <2>2, SearchedAbsent DEF Codeless
  <2> QED
    BY <1>1, <1>2, <2>1, <2>2, <2>3, GoesOnCounts
<1> QED
  BY <1>3, <1>4

LEMMA CreateCounts ==
  ASSUME CountInv, Create
  PROVE  UndisturbedInv' /\ OwnedInv' /\ CountsExact'
<1>1. calls # <<>> /\ Adding.pc = "create" /\ UNCHANGED <<entries, count, uncounted>>
  BY DEF Create, IsAt
<1>2. Adding \in Calls /\ Adding.code = NoCode /\ Inserts(Adding) /\ refs \in [Codes -> Int]
  BY <1>1, TopFacts DEF Codeless, Inserts, CountInv, CacheInv, CacheTypeOK
<1>3. ASSUME NEW o \in Codes, refs[o] = 0, refs' = [refs EXCEPT ![o] = 1],
             Turns([Adding EXCEPT !.pc = "insert", !.code = o])
      PROVE  UndisturbedInv' /\ OwnedInv' /\ CountsExact'
  <2> DEFINE t == [Adding EXCEPT !.pc = "insert", !.code = o]
  <2>1. Turns(t)
    BY <1>3
  <2>2. t \in Calls /\ t.pc = "insert" /\ t.code = o /\ t.line = Adding.line
    BY <1>2 DEF Calls
  <2> HIDE DEF t
  <2>3. ~Codeless(t) /\ t.code \in Codes
    BY <2>2 DEF Codeless
  <2>4. /\ t.line \notin uncounted
        /\ Len(calls) = Nested + 1 => \A i \in Position : entries[i].line # t.line
    BY <1>1, <1>2, <2>2, TopFacts DEF CountInv, UndisturbedInv
  <2>5. \A c \in Codes : \/ (Adding.code = c <=> t.code = c) /\ refs'[c] = refs[c]
                         \/ Adding.code # c /\ t.code = c /\ refs'[c] = refs[c] + 1
    BY <1>2, <1>3, <2>2, CacheAssumption
  <2> QED
    BY <1>1, <2>1, <2>2, <2>3, <2>4, <2>5, TurnCounts
<1>4. CASE calls' = Waiting /\ UNCHANGED refs
  <2>1. \A c \in Codes : refs'[c] = IF Adding.code = c THEN refs[c] - 1 ELSE refs[c]
    BY <1>2, <1>4, CacheAssumption
  <2> QED
    BY <1>1, <1>4, <2>1, PopCounts
<1> QED
  BY <1>3, <1>4 DEF Create

(* Every step of the cache keeps the counts.                                *)
LEMMA CountInvStep ==
  ASSUME CountInv, [CacheNext]_cacheVars, Nested <= 1 \/ uncounted' = {}
  PROVE  CountInv'
<1>a. CacheInv /\ CacheInv'
  BY CacheInvStep DEF CountInv
<1> SUFFICES UndisturbedInv' /\ OwnedInv' /\ CountsExact'
  BY <1>a DEF CountInv
<1>1. ASSUME NEW line \in Lines, BeginTraceback(line) PROVE UndisturbedInv' /\ OwnedInv' /\ CountsExact'
  BY <1>1, BeginCounts
<1>2. CASE Bisect
  <2>1. Bisecting /\ calls # <<>> /\ UNCHANGED <<entries, count, refs, uncounted>>
    BY <1>2 DEF Bisect, Bisecting
  <2>2. PICK b \in Int, m \in Int, e \in Int : Turns(Looking(Adding.pc, b, m, e))
    <3>1. Middle \in Int /\ Adding.start \in Int /\ Adding.end \in Int
      BY <1>a, <2>1, MiddleFacts, EntryFacts
    <3>2. CASE Adding.line < entries[Middle].line
      BY <1>2, <3>1, <3>2 DEF Bisect
    <3>3. CASE ~(Adding.line < entries[Middle].line)
      <4>1. Turns(Looking(Adding.pc, Middle + 1, Middle, Adding.end))
        BY <1>2, <3>3 DEF Bisect
      <4>2. Middle + 1 \in Int
        BY <3>1
      <4> QED
        BY <3>1, <4>1, <4>2
    <3> QED
      BY <3>2, <3>3
  <2> DEFINE t == Looking(Adding.pc, b, m, e)
  <2>3. t \in Calls /\ t.pc = Adding.pc /\ t.line = Adding.line /\ t.code = Adding.code
    BY <1>a, <2>1, LookingFacts DEF Bisecting
  <2> HIDE DEF t
  <2>4. (Codeless(t) <=> Codeless(Adding)) /\ (Inserts(t) => Inserts(Adding))
    BY <2>3 DEF Codeless, Inserts
  <2>5. Turns(t)
    BY <2>2 DEF t
  <2> QED
    BY <2>1, <2>3, <2>4, <2>5, GoesOnCounts
<1>3. CASE Find
  <2>1. /\ calls # <<>> /\ Adding.pc = "find" /\ Codeless(Adding) /\ Adding \in Calls
        /\ UNCHANGED <<entries, count, refs, uncounted>>
    BY <1>3, TopFacts DEF Find, IsAt, Codeless
  <2>2. CASE max_count = 0 \/ Beyond(Adding.line)
    <3> DEFINE t == [Adding EXCEPT !.pc = "create"]
    <3>1. t \in Calls /\ t.pc = "create" /\ t.line = Adding.line /\ t.code = Adding.code
      BY <2>1 DEF Calls
    <3>2. Turns(t)
      BY <1>3, <2>2 DEF Find
    <3> HIDE DEF t
    <3>3. Codeless(t) /\ \A i \in Position : entries[i].line # Adding.line
      BY <1>a, <2>1, <2>2, <3>1, BeyondAbsent DEF Codeless
    <3> QED
      BY <2>1, <3>1, <3>2, <3>3, GoesOnCounts
  <2>3. CASE ~(max_count = 0 \/ Beyond(Adding.line))
    <3> DEFINE t == Looking("finding", 0, 0, count - 1)
    <3>1. count - 1 \in Int
      BY <1>a DEF CacheInv, CacheTypeOK
    <3>2. t \in Calls /\ t.pc = "finding" /\ t.line = Adding.line /\ t.code = Adding.code
      BY <2>1, <3>1 DEF Looking, Calls
    <3>3. Turns(t)
      BY <1>3, <2>3 DEF Find, BeginSearch
    <3> HIDE DEF t
    <3>4. Codeless(t) /\ ~Inserts(t)
      BY <3>2 DEF Codeless, Inserts
    <3> QED
      BY <2>1, <3>2, <3>3, <3>4, GoesOnCounts
  <2> QED
    BY <2>2, <2>3
<1>4. CASE FindEnds
  BY <1>4, FindEndsCounts
<1>5. CASE Create
  BY <1>5, CreateCounts
<1>6. CASE InsertFirst
  BY <1>6, InsertFirstCounts
<1>7. CASE InsertSearch
  <2>1. calls # <<>> /\ Adding.pc = "insert" /\ Inserts(Adding) /\ ~Codeless(Adding) /\ Adding.code \in Codes
    BY <1>7, TopFacts DEF InsertSearch, IsAt, Inserts, Codeless
  <2>2. count \in Nat /\ count - 1 \in Int /\ count \in 0..count
    BY <1>a DEF CacheInv, CacheTypeOK
  <2>3. CASE Beyond(Adding.line)
    BY <1>7, <2>1, <2>2, <2>3, InsertedAtCounts DEF InsertSearch
  <2>4. CASE ~Beyond(Adding.line)
    <3> DEFINE t == Looking("inserting", 0, 0, count - 1)
    <3>0. Adding.line \in Lines
      BY <1>a, <2>1, AddingFacts
    <3>1. t \in Calls /\ t.pc = "inserting" /\ t.line = Adding.line /\ t.code = Adding.code
      BY <2>1, <2>2, <3>0 DEF Looking, Calls
    <3>2. Turns(t) /\ UNCHANGED <<entries, count, refs, uncounted>>
      BY <1>7, <2>4 DEF InsertSearch, BeginSearch
    <3> HIDE DEF t
    <3>3. ~Codeless(t)
      BY <3>1 DEF Codeless
    <3> QED
      BY <2>1, <3>1, <3>2, <3>3, GoesOnCounts
  <2> QED
    BY <2>3, <2>4
<1>8. CASE InsertEnds
  <2>1. /\ calls # <<>> /\ Adding.pc = "inserting" /\ Inserts(Adding) /\ Adding.code \in Codes
        /\ Bisecting /\ ~Searching
    BY <1>8, TopFacts DEF InsertEnds, IsAt, Inserts, Codeless, Bisecting
  <2>2. count \in Nat /\ Found \in Position /\ Found \in 0..count
    BY <1>a, <2>1, FoundFacts DEF CacheInv, CacheTypeOK, Position
  <2>3. CASE entries[Found].line = Adding.line
    <3>1. Nested <= 1
      BY <1>8, <2>3 DEF InsertEnds
    <3> QED
      BY <1>8, <2>1, <2>2, <2>3, <3>1, ReplacedCounts DEF InsertEnds
  <2>4. CASE entries[Found].line # Adding.line
    BY <1>8, <2>1, <2>2, <2>4, InsertedAtCounts DEF InsertEnds
  <2> QED
    BY <2>3, <2>4
<1>9. CASE Finish
  <2>1. calls # <<>> /\ refs \in [Codes -> Int] /\ calls' = Waiting /\ UNCHANGED <<entries, count, uncounted>>
    BY <1>9, <1>a DEF Finish, IsAt, CacheInv, CacheTypeOK
  <2>2. \A c \in Codes : refs'[c] = IF Adding.code = c THEN refs[c] - 1 ELSE refs[c]
    BY <1>9, <2>1 DEF Finish
  <2> QED
    BY <2>1, <2>2, PopCounts
<1>10. CASE UNCHANGED cacheVars
  <2>1. UNCHANGED <<entries, count, refs, uncounted, calls>>
    BY <1>10 DEF cacheVars
  <2>2. Position' = Position /\ Adding' = Adding
    BY <2>1 DEF Position, Adding
  <2>3. UndisturbedInv' /\ OwnedInv'
    BY <2>1, <2>2 DEF CountInv, UndisturbedInv, OwnedInv
  <2>4. \A c \in Codes : Holders(c)' = Holders(c)
    BY <2>1, <2>2 DEF Holders
  <2> QED
    BY <2>1, <2>3, <2>4 DEF CountInv, CountsExact
<1> QED
  BY <1>1, <1>2, <1>3, <1>4, <1>5, <1>6, <1>7, <1>8, <1>9, <1>10 DEF CacheNext

LEMMA InitCountInv == CacheInit => CountInv
<1> SUFFICES ASSUME CacheInit PROVE CountInv
  OBVIOUS
<1>1. Len(calls) = 0 /\ calls = <<>> /\ uncounted = {} /\ Position = {} /\ refs = [c \in Codes |-> 0]
  BY DEF CacheInit, Position
<1>2. UndisturbedInv /\ OwnedInv
  BY <1>1, CacheAssumption DEF UndisturbedInv, OwnedInv
<1>3. ASSUME NEW c \in Codes PROVE refs[c] = Holders(c)
  <2>1. Entries(c) = {} /\ Owners(c) = {}
    BY <1>1 DEF Entries, Owners
  <2>2. Cardinality({}) = 0
    BY FS_EmptySet
  <2>3. Holders(c) = Cardinality(Entries(c)) + Cardinality(Owners(c))
    BY HoldersAre
  <2>4. refs[c] = 0
    BY <1>1
  <2> QED
    BY <2>1, <2>2, <2>3, <2>4
<1> QED
  BY <1>2, <1>3, InitCacheInv DEF CountInv, CountsExact

(* The one step that takes no reference for an entry replaces one: what was *)
(* replaced once stays in "uncounted".                                      *)
LEMMA UncountedGrows ==
  ASSUME [CacheNext]_cacheVars
  PROVE  uncounted \subseteq uncounted'
<1>1. CASE UNCHANGED uncounted
  BY <1>1
<1>2. CASE InsertEnds
  BY <1>2 DEF InsertEnds, InsertedAt
<1>3. CASE InsertFirst \/ InsertSearch
  BY <1>3 DEF InsertFirst, InsertSearch, InsertedAt
<1>4. (\E line \in Lines : BeginTraceback(line)) \/ Bisect \/ Find => UNCHANGED uncounted
  BY DEF BeginTraceback, Bisect, Find
<1>5. FindEnds \/ Create \/ Finish \/ UNCHANGED cacheVars => UNCHANGED uncounted
  BY DEF FindEnds, Create, Finish, cacheVars
<1> QED
  BY <1>1, <1>2, <1>3, <1>4, <1>5 DEF CacheNext

(* However deep tracebacks nest: as long as no entry was replaced, each code *)
(* object is counted once for every entry and once for every call that has  *)
(* it, on any lines and any array. When at most one traceback waits for     *)
(* another this goes on after a replacement, without the entries that took  *)
(* no reference. Beyond both it is false: an object whose entry was         *)
(* replaced without a reference may be found in the array after it was      *)
(* freed and its memory given to another.                                   *)
THEOREM CountsExactHolds == CacheSpec => [](Nested <= 1 \/ uncounted = {} => CountsExact)
<1> DEFINE Counted == Nested <= 1 \/ uncounted = {} => CountInv
<1>1. CacheInit => Counted
  BY InitCountInv
<1>2. Counted /\ [CacheNext]_cacheVars => Counted'
  BY CountInvStep, UncountedGrows
<1>3. Counted => (Nested <= 1 \/ uncounted = {} => CountsExact)
  BY DEF CountInv
<1> HIDE DEF Counted
<1> QED
  BY <1>1, <1>2, <1>3, PTL DEF CacheSpec

----------------------------------------------------------------------------
(* The functions of the module "sha", on the machine of References with any *)
(* number of failures, imports and calls. The inductive invariant says that *)
(* every function on the stack is at a point of its flow that knows the     *)
(* function's local variables, and that the point of the innermost knows    *)
(* the static ones and the error indicator. The points of a caller and of   *)
(* what it called fit by Serves, so the caller has a point to return to.    *)
FlowPoints == UNION { Flow[e] : e \in DOMAIN Flow }

LocalsMatch(d, a) == \A v \in Locals : mem[d + 1][v] \in a.known[v]

GlobalsMatch(a) == \A v \in Globals : mem[1][v] \in a.known[v]

(* The types, and that there is a level of memory for each function ...     *)
MemoryInv ==
  /\ stack \in Seq({ x.at : x \in FlowPoints })
  /\ mem \in Seq([Globals -> Status] \cup [Locals -> Status])
  /\ Len(mem) = Len(stack) + 1
  /\ mem[1] \in [Globals -> Status]
  /\ \A d \in 1..Len(stack) : mem[d + 1] \in [Locals -> Status]
  /\ exc \in BOOLEAN

(* ... the function at depth d, entered as es[d], is at the point xs[d] ... *)
CallsMatch(es, xs) ==
  /\ es[1].fn \in DOMAIN Roots
  /\ \A d \in 1..Len(stack) : xs[d] \in Flow[es[d]] /\ xs[d].at = stack[d] /\ LocalsMatch(d, xs[d].knows)
  /\ \A d \in 1..Len(stack) - 1 : StmtAt(stack[d]).op = "call" /\ Serves(es[d], xs[d], es[d + 1])
  /\ GlobalsMatch(xs[Len(stack)].knows) /\ exc = xs[Len(stack)].knows.exc

(* ... and while none runs, what is set up is what Between knows.            *)
FlowInv ==
  /\ MemoryInv
  /\ stack = <<>> => exc = FALSE /\ \E g \in Between : GlobalsMatch(g)
  /\ stack # <<>> => \E es \in [1..Len(stack) -> DOMAIN Flow], xs \in [1..Len(stack) -> FlowPoints] : CallsMatch(es, xs)

(* A memory m for n calls, the last of which knows a.                        *)
Fits(m, n, a) ==
  /\ m \in Seq([Globals -> Status] \cup [Locals -> Status])
  /\ Len(m) = n + 1
  /\ m[1] \in [Globals -> Status] /\ m[n + 1] \in [Locals -> Status]
  /\ \A v \in Globals : m[1][v] \in a.known[v]
  /\ \A v \in Locals : m[n + 1][v] \in a.known[v]

(* The memory m of n calls after the last one has set v.                     *)
Put(m, n, v, st) == [m EXCEPT ![Level(n, v)][v] = st]

(* A step that leaves the callers alone and then knows a.                   *)
Leads(a) == Fits(mem', Len(stack), a) /\ \A d \in 2..Len(stack) : mem'[d] = mem[d]

LEMMA Statuses == Live \subseteq Status /\ {"null", "own", "ref", "gone"} = Status /\ Live = {"own", "ref"}
BY DEF Live, Status

LEMMA Disjoint == \A v \in Locals : v \notin Globals
BY FlowTyped

LEMMA NoVars == \A v \in Vars : v \notin {"", "ok", "failed", "void"}
BY FlowTyped

LEMMA FlowPointTyped ==
  ASSUME NEW e \in DOMAIN Flow, NEW x \in Flow[e]
  PROVE  /\ x.knows \in Knowledge
         /\ x.knows.known \in [Vars -> SUBSET Status]
         /\ x.knows.exc \in BOOLEAN
         /\ x = Point(x.at, x.knows)
         /\ Operands(StmtAt(x.at))
         /\ x \in FlowPoints
BY FlowTyped DEF Knowledge, FlowPoints

LEMMA NowKnown ==
  ASSUME NEW a \in Knowledge, NEW v \in Vars, NEW S \in SUBSET Status
  PROVE  /\ Now(a, v, S) \in Knowledge
         /\ Now(a, v, S).known[v] = S
         /\ \A w \in Vars \ {v} : Now(a, v, S).known[w] = a.known[w]
         /\ Now(a, v, S).exc = a.exc
BY DEF Now, Knowledge

LEMMA PutFits ==
  ASSUME NEW n \in Nat, n >= 1, NEW a \in Knowledge, NEW m, Fits(m, n, a),
         NEW v \in Vars, NEW S \in SUBSET Status, NEW st \in S
  PROVE  Fits(Put(m, n, v, st), n, Now(a, v, S)) /\ \A d \in 2..n : Put(m, n, v, st)[d] = m[d]
<1> DEFINE i == Level(n, v)
<1>p. PICK p : p = Put(m, n, v, st)
  OBVIOUS
<1>1. DOMAIN m = 1..n + 1 /\ Len(m) = n + 1 /\ m \in Seq([Globals -> Status] \cup [Locals -> Status])
  BY DEF Fits
<1>2. i \in 1..n + 1 /\ (v \in Globals => i = 1) /\ (v \in Locals => i = n + 1 /\ i # 1) /\ (i # 1 => v \in Locals)
  <2>1. CASE v \in Globals
    BY <2>1, Disjoint DEF Level
  <2>2. CASE v \in Locals
    BY <2>2, Disjoint DEF Level
  <2> QED
    BY <2>1, <2>2 DEF Vars
<1>3. p = [m EXCEPT ![i] = [m[i] EXCEPT ![v] = st]]
  BY <1>p DEF Put
<1>4. m[i] \in (IF v \in Globals THEN [Globals -> Status] ELSE [Locals -> Status])
  BY <1>1, <1>2 DEF Fits, Vars
<1>5. [m[i] EXCEPT ![v] = st] \in (IF v \in Globals THEN [Globals -> Status] ELSE [Locals -> Status])
  BY <1>4 DEF Vars
<1>6. p \in Seq([Globals -> Status] \cup [Locals -> Status]) /\ Len(p) = n + 1
  <2>1. [m[i] EXCEPT ![v] = st] \in [Globals -> Status] \cup [Locals -> Status]
    BY <1>5
  <2> QED
    BY <1>1, <1>2, <1>3, <2>1, ExceptSeq
<1>7. \A d \in 1..n + 1 : p[d] = IF d = i THEN [m[i] EXCEPT ![v] = st] ELSE m[d]
  BY <1>1, <1>2, <1>3
<1>8. m[1] \in [Globals -> Status] /\ m[n + 1] \in [Locals -> Status]
  BY DEF Fits
<1>9. p[1] \in [Globals -> Status] /\ p[n + 1] \in [Locals -> Status] /\ \A d \in 2..n : p[d] = m[d]
  BY <1>2, <1>5, <1>7, <1>8 DEF Vars
<1>10. ASSUME NEW w \in Globals PROVE p[1][w] \in Now(a, v, S).known[w]
  <2>1. CASE w = v
    BY <1>2, <1>7, <1>8, <2>1, NowKnown
  <2>2. CASE w # v
    <3>1. p[1][w] = m[1][w]
      BY <1>2, <1>7, <1>8, <2>2
    <3> QED
      BY <2>2, <3>1, NowKnown DEF Fits, Vars
  <2> QED
    BY <2>1, <2>2
<1>11. ASSUME NEW w \in Locals PROVE p[n + 1][w] \in Now(a, v, S).known[w]
  <2>1. CASE w = v
    BY <1>2, <1>7, <1>8, <2>1, NowKnown
  <2>2. CASE w # v
    <3>1. p[n + 1][w] = m[n + 1][w]
      BY <1>2, <1>7, <1>8, <2>2
    <3> QED
      BY <2>2, <3>1, NowKnown DEF Fits, Vars
  <2> QED
    BY <2>1, <2>2
<1>12. Fits(p, n, Now(a, v, S))
  BY <1>6, <1>9, <1>10, <1>11 DEF Fits
<1> QED
  BY <1>p, <1>9, <1>12

LEMMA MemoryFits ==
  ASSUME MemoryInv, stack # <<>>, NEW a, GlobalsMatch(a), LocalsMatch(Len(stack), a)
  PROVE  Len(stack) \in Nat /\ Len(stack) >= 1 /\ Fits(mem, Len(stack), a)
<1>1. Len(stack) \in Nat /\ Len(stack) >= 1 /\ Len(stack) \in 1..Len(stack)
  BY DEF MemoryInv
<1>2. /\ mem \in Seq([Globals -> Status] \cup [Locals -> Status]) /\ Len(mem) = Len(stack) + 1
      /\ mem[1] \in [Globals -> Status] /\ mem[Len(stack) + 1] \in [Locals -> Status]
  BY <1>1 DEF MemoryInv
<1> QED
  BY <1>1, <1>2 DEF Fits, GlobalsMatch, LocalsMatch

LEMMA BecomesLeads ==
  ASSUME MemoryInv, stack # <<>>, NEW a \in Knowledge,
         GlobalsMatch(a), LocalsMatch(Len(stack), a),
         NEW v \in Vars, NEW S \in SUBSET Status, NEW st \in S, Becomes(v, st)
  PROVE  Leads(Now(a, v, S))
<1>1. PICK n : n = Len(stack)
  OBVIOUS
<1>2. n \in Nat /\ n >= 1 /\ Fits(mem, n, a)
  BY <1>1, MemoryFits
<1>3. mem' = Put(mem, n, v, st)
  BY <1>1 DEF Becomes, Put
<1>4. Fits(mem', n, Now(a, v, S)) /\ \A d \in 2..n : mem'[d] = mem[d]
  BY <1>2, <1>3, PutFits
<1> QED
  BY <1>1, <1>4 DEF Leads

LEMMA SameLeads ==
  ASSUME MemoryInv, stack # <<>>, NEW a, GlobalsMatch(a), LocalsMatch(Len(stack), a), UNCHANGED mem
  PROVE  Leads(a)
BY MemoryFits DEF Leads

LEMMA ErrorKnown ==
  ASSUME NEW a, NEW b
  PROVE  Error(a, b).known = a.known /\ Error(a, b).exc = b /\ (Leads(Error(a, b)) <=> Leads(a))
BY DEF Error, Leads, Fits

(* What is known of the function that runs, and a step it takes by itself.  *)
Describes(a) == a \in Knowledge /\ GlobalsMatch(a) /\ LocalsMatch(Len(stack), a) /\ exc = a.exc

Advances(o) == Leads(o[2]) /\ exc' = o[2].exc /\ Continue(o[1])

LEMMA TopDescribed ==
  ASSUME MemoryInv, stack # <<>>, NEW es \in [1..Len(stack) -> DOMAIN Flow], NEW xs \in [1..Len(stack) -> FlowPoints],
         CallsMatch(es, xs)
  PROVE  /\ Len(stack) \in Nat /\ Len(stack) \in 1..Len(stack)
         /\ es[Len(stack)] \in DOMAIN Flow /\ xs[Len(stack)] \in Flow[es[Len(stack)]]
         /\ xs[Len(stack)].at = stack[Len(stack)] /\ At = StmtAt(xs[Len(stack)].at)
         /\ Describes(xs[Len(stack)].knows)
         /\ Operands(At)
<1> DEFINE n == Len(stack)
<1>1. n \in Nat /\ n \in 1..n
  BY DEF MemoryInv
<1>2. es[n] \in DOMAIN Flow /\ xs[n] \in Flow[es[n]] /\ xs[n].at = stack[n] /\ LocalsMatch(n, xs[n].knows)
  BY <1>1 DEF CallsMatch
<1>3. xs[n].knows \in Knowledge /\ Operands(StmtAt(xs[n].at))
  BY <1>2, FlowPointTyped
<1>4. At = StmtAt(xs[n].at)
  BY <1>2 DEF At, Top, StmtAt
<1> QED
  BY <1>1, <1>2, <1>3, <1>4 DEF CallsMatch, Describes

LEMMA TopOperands ==
  ASSUME FlowInv, stack # <<>>
  PROVE  Operands(At)
BY TopDescribed DEF FlowInv

(* A step of one function keeps the invariant if what it does is an outcome *)
(* of its statement for everything that can be known there.                 *)
LEMMA StepFlow ==
  ASSUME FlowInv, stack # <<>>,
         \A a : Describes(a) => \E o \in Outcomes(At, a) : Advances(o)
  PROVE  FlowInv'
<1>n. PICK n \in Nat : n = Len(stack)
  BY DEF FlowInv, MemoryInv
<1>1. PICK es \in [1..n -> DOMAIN Flow], xs \in [1..n -> FlowPoints] : CallsMatch(es, xs)
  BY <1>n DEF FlowInv
<1>m. MemoryInv
  BY DEF FlowInv
<1>2. /\ n \in Nat /\ n \in 1..n /\ es[n] \in DOMAIN Flow /\ xs[n] \in Flow[es[n]]
      /\ xs[n].at = stack[n] /\ At = StmtAt(xs[n].at) /\ Describes(xs[n].knows)
  BY <1>n, <1>1, <1>m, TopDescribed
<1>3. PICK o \in Outcomes(At, xs[n].knows) : Advances(o)
  BY <1>2
<1>y. PICK y : y = Point(Goes(stack[n], o[1]), o[2])
  OBVIOUS
<1>ys. PICK ys : ys = [xs EXCEPT ![n] = y]
  OBVIOUS
<1>4. y \in Flow[es[n]]
  BY <1>2, <1>3, <1>y, FlowClosed
<1>5. y.at = Goes(stack[n], o[1]) /\ y.knows = o[2] /\ o[2] \in Knowledge /\ y \in FlowPoints
  BY <1>2, <1>4, <1>y, FlowPointTyped DEF Point
<1>6. stack' = [stack EXCEPT ![n] = y.at]
  BY <1>n, <1>3, <1>5 DEF Advances, Continue
<1>7. /\ Len(stack') = n /\ stack' \in Seq({ x.at : x \in FlowPoints }) /\ stack' # <<>>
      /\ stack'[n] = y.at /\ \A d \in 1..n - 1 : stack'[d] = stack[d]
  BY <1>n, <1>2, <1>5, <1>6, <1>m, ExceptSeq DEF MemoryInv
<1>8. Leads(o[2]) /\ exc' = o[2].exc
  BY <1>3 DEF Advances
<1>9. Len(mem) = n + 1 /\ \A d \in 1..n : mem[d + 1] \in [Locals -> Status]
  BY <1>n, <1>m DEF MemoryInv
<1>10. ASSUME NEW d \in 1..n, d # n PROVE mem'[d + 1] = mem[d + 1]
  BY <1>n, <1>2, <1>8, <1>10 DEF Leads, Fits
<1>11. MemoryInv'
  <2>1. \A d \in 1..n : mem'[d + 1] \in [Locals -> Status]
    BY <1>n, <1>2, <1>8, <1>9, <1>10 DEF Leads, Fits
  <2>2. o[2].exc \in BOOLEAN
    BY <1>5 DEF Knowledge
  <2> QED
    BY <1>n, <1>7, <1>8, <1>9, <2>1, <2>2 DEF MemoryInv, Leads, Fits
<1>12. ys \in [1..n -> FlowPoints] /\ ys[n] = y /\ \A d \in 1..n - 1 : ys[d] = xs[d]
  BY <1>2, <1>5, <1>ys, <1>1
<1>13. ASSUME NEW d \in 1..n
       PROVE  ys[d] \in Flow[es[d]] /\ ys[d].at = stack'[d] /\ LocalsMatch(d, ys[d].knows)'
  <2>1. CASE d = n
    BY <1>2, <1>4, <1>5, <1>7, <1>8, <1>12, <1>n, <2>1 DEF LocalsMatch, Leads, Fits
  <2>2. CASE d # n
    <3>1. d \in 1..n - 1
      BY <1>2, <2>2
    <3>2. ys[d] = xs[d] /\ stack'[d] = stack[d] /\ mem'[d + 1] = mem[d + 1]
      BY <1>7, <1>10, <1>12, <2>2, <3>1
    <3> QED
      BY <1>n, <1>1, <3>2 DEF CallsMatch, LocalsMatch
  <2> QED
    BY <2>1, <2>2
<1>14. ASSUME NEW d \in 1..n - 1
       PROVE  StmtAt(stack'[d]).op = "call" /\ Serves(es[d], ys[d], es[d + 1])
  BY <1>n, <1>1, <1>7, <1>12 DEF CallsMatch
<1>15. GlobalsMatch(ys[n].knows)' /\ exc' = ys[n].knows.exc
  BY <1>5, <1>8, <1>12 DEF GlobalsMatch, Leads, Fits
<1>16. es[1].fn \in DOMAIN Roots
  BY <1>1 DEF CallsMatch
<1>17. CallsMatch(es, ys)'
  BY <1>7, <1>13, <1>14, <1>15, <1>16 DEF CallsMatch
<1> QED
  BY <1>7, <1>11, <1>12, <1>17 DEF FlowInv

LEMMA ValueKnown ==
  ASSUME MemoryInv, stack # <<>>, NEW a, Describes(a), NEW v \in Vars
  PROVE  Value(v) \in a.known[v] /\ a.known[v] \in SUBSET Status
<1>1. a.known \in [Vars -> SUBSET Status]
  BY DEF Describes, Knowledge
<1>2. CASE v \in Globals
  BY <1>1, <1>2 DEF Value, Level, Describes, GlobalsMatch
<1>3. CASE v \in Locals
  BY <1>1, <1>3, Disjoint DEF Value, Level, Describes, LocalsMatch
<1> QED
  BY <1>2, <1>3 DEF Vars

LEMMA BecomesAdvances ==
  ASSUME MemoryInv, stack # <<>>, NEW a, Describes(a), NEW v \in Vars, NEW st \in Status, Becomes(v, st)
  PROVE  Leads(Now(a, v, {st})) /\ Now(a, v, {st}).exc = exc /\ \A b : Leads(Error(Now(a, v, {st}), b))
BY BecomesLeads, NowKnown, ErrorKnown DEF Describes

LEMMA StayAdvances ==
  ASSUME MemoryInv, stack # <<>>, NEW a, Describes(a), UNCHANGED mem
  PROVE  Leads(a) /\ a.exc = exc /\ \A b : Leads(Error(a, b))
BY SameLeads, ErrorKnown DEF Describes

LEMMA NewReferenceFlow ==
  ASSUME FlowInv, NewReference
  PROVE  FlowInv'
<1>1. MemoryInv /\ stack # <<>> /\ At.op = "new"
  BY DEF FlowInv, NewReference, Running
<1>2. At.var \in Vars
  BY <1>1, TopOperands DEF Operands
<1>3. ASSUME NEW a, Describes(a)
      PROVE  \E o \in Outcomes(At, a) : Advances(o)
  <2>1. Outcomes(At, a) = {<<"", Now(a, At.var, {"own"})>>, <<At.to, Error(Now(a, At.var, {"null"}), TRUE)>>}
    BY <1>1 DEF Outcomes
  <2>2. CASE Becomes(At.var, "own") /\ Continue("") /\ UNCHANGED exc
    <3>1. Advances(<<"", Now(a, At.var, {"own"})>>)
      BY <1>1, <1>2, <1>3, <2>2, BecomesAdvances, Statuses DEF Advances
    <3> QED
      BY <2>1, <3>1
  <2>3. CASE Becomes(At.var, "null") /\ Continue(At.to) /\ exc' = TRUE
    <3>1. Advances(<<At.to, Error(Now(a, At.var, {"null"}), TRUE)>>)
      BY <1>1, <1>2, <1>3, <2>3, BecomesAdvances, ErrorKnown, Statuses DEF Advances
    <3> QED
      BY <2>1, <3>1
  <2> QED
    BY <2>2, <2>3 DEF NewReference
<1> QED
  BY <1>1, <1>3, StepFlow

LEMMA AllocateFlow ==
  ASSUME FlowInv, Allocate
  PROVE  FlowInv'
<1>1. MemoryInv /\ stack # <<>> /\ At.op = "malloc"
  BY DEF FlowInv, Allocate, Running
<1>2. At.var \in Vars
  BY <1>1, TopOperands DEF Operands
<1>3. ASSUME NEW a, Describes(a)
      PROVE  \E o \in Outcomes(At, a) : Advances(o)
  <2>1. Outcomes(At, a) = {<<"", Now(a, At.var, {"own"})>>, <<"", Now(a, At.var, {"null"})>>}
    BY <1>1 DEF Outcomes
  <2>2. PICK st \in {"own", "null"} : Becomes(At.var, st)
    BY DEF Allocate
  <2>3. Advances(<<"", Now(a, At.var, {st})>>)
    BY <1>1, <1>2, <1>3, <2>2, BecomesAdvances, Statuses DEF Advances, Allocate
  <2> QED
    BY <2>1, <2>3
<1> QED
  BY <1>1, <1>3, StepFlow

LEMMA MustSucceedFlow ==
  ASSUME FlowInv, MustSucceed
  PROVE  FlowInv'
<1>1. MemoryInv /\ stack # <<>> /\ At.op = "must"
  BY DEF FlowInv, MustSucceed, Running
<1>2. ASSUME NEW a, Describes(a)
      PROVE  \E o \in Outcomes(At, a) : Advances(o)
  <2>1. Outcomes(At, a) = {<<"", a>>, <<At.to, Error(a, TRUE)>>}
    BY <1>1 DEF Outcomes
  <2>2. Leads(a) /\ a.exc = exc /\ Leads(Error(a, TRUE)) /\ Error(a, TRUE).exc = TRUE
    BY <1>1, <1>2, StayAdvances, ErrorKnown DEF MustSucceed
  <2>3. Advances(<<"", a>>) \/ Advances(<<At.to, Error(a, TRUE)>>)
    BY <2>2 DEF Advances, MustSucceed
  <2> QED
    BY <2>1, <2>3
<1> QED
  BY <1>1, <1>2, StepFlow

LEMMA SetErrorFlow ==
  ASSUME FlowInv, SetError
  PROVE  FlowInv'
<1>1. MemoryInv /\ stack # <<>> /\ At.op = "raise"
  BY DEF FlowInv, SetError, Running
<1>2. ASSUME NEW a, Describes(a)
      PROVE  \E o \in Outcomes(At, a) : Advances(o)
  <2>1. Outcomes(At, a) = {<<At.to, Error(a, TRUE)>>}
    BY <1>1 DEF Outcomes
  <2>2. Advances(<<At.to, Error(a, TRUE)>>)
    BY <1>1, <1>2, StayAdvances, ErrorKnown DEF Advances, SetError
  <2> QED
    BY <2>1, <2>2
<1> QED
  BY <1>1, <1>2, StepFlow

LEMMA ClearErrorFlow ==
  ASSUME FlowInv, ClearError
  PROVE  FlowInv'
<1>1. MemoryInv /\ stack # <<>> /\ At.op = "noerror"
  BY DEF FlowInv, ClearError, Running
<1>2. ASSUME NEW a, Describes(a)
      PROVE  \E o \in Outcomes(At, a) : Advances(o)
  <2>1. Outcomes(At, a) = {<<"", Error(a, FALSE)>>}
    BY <1>1 DEF Outcomes
  <2>2. Advances(<<"", Error(a, FALSE)>>)
    BY <1>1, <1>2, StayAdvances, ErrorKnown DEF Advances, ClearError
  <2> QED
    BY <2>1, <2>2
<1> QED
  BY <1>1, <1>2, StepFlow

LEMMA FetchErrorFlow ==
  ASSUME FlowInv, FetchError
  PROVE  FlowInv'
<1>1. MemoryInv /\ stack # <<>> /\ At.op = "fetch"
  BY DEF FlowInv, FetchError, Running
<1>2. At.var \in Vars
  BY <1>1, TopOperands DEF Operands
<1>3. ASSUME NEW a, Describes(a)
      PROVE  \E o \in Outcomes(At, a) : Advances(o)
  <2> DEFINE st == IF exc THEN "own" ELSE "null"
             S  == IF a.exc THEN {"own"} ELSE {"null"}
  <2>1. Outcomes(At, a) = {<<"", Error(Now(a, At.var, S), FALSE)>>}
    BY <1>1 DEF Outcomes
  <2>2. S = {st} /\ st \in Status
    BY <1>3, Statuses DEF Describes
  <2>3. Leads(Error(Now(a, At.var, {st}), FALSE))
    BY <1>1, <1>2, <1>3, <2>2, BecomesAdvances DEF FetchError
  <2>4. Advances(<<"", Error(Now(a, At.var, S), FALSE)>>)
    BY <2>2, <2>3, ErrorKnown DEF Advances, FetchError
  <2> QED
    BY <2>1, <2>4
<1> QED
  BY <1>1, <1>3, StepFlow

LEMMA RestoreErrorFlow ==
  ASSUME FlowInv, RestoreError
  PROVE  FlowInv'
<1>1. MemoryInv /\ stack # <<>> /\ At.op = "restore"
  BY DEF FlowInv, RestoreError, Running
<1>2. At.var \in Vars
  BY <1>1, TopOperands DEF Operands
<1>3. ASSUME NEW a, Describes(a)
      PROVE  \E o \in Outcomes(At, a) : Advances(o)
  <2> DEFINE o == <<"", Error(Now(a, At.var, {"null"}), Value(At.var) = "own")>>
  <2>1. o \in Outcomes(At, a)
    <3>1. Outcomes(At, a) = { <<"", Error(Now(a, At.var, {"null"}), st = "own")>> : st \in a.known[At.var] }
      BY <1>1 DEF Outcomes
    <3> QED
      BY <1>1, <1>2, <1>3, <3>1, ValueKnown
  <2>2. Advances(o)
    BY <1>1, <1>2, <1>3, BecomesAdvances, ErrorKnown, Statuses DEF Advances, RestoreError
  <2> QED
    BY <2>1, <2>2
<1> QED
  BY <1>1, <1>3, StepFlow

(* A variable whose status is looked at has that status from then on.       *)
LEMMA LookDescribed ==
  ASSUME MemoryInv, stack # <<>>, NEW a, Describes(a), NEW v \in Vars
  PROVE  Describes(Now(a, v, {Value(v)}))
<1> DEFINE b == Now(a, v, {Value(v)})
<1>1. Value(v) \in Status /\ a \in Knowledge
  BY ValueKnown DEF Describes
<1>2. b \in Knowledge /\ b.known[v] = {Value(v)} /\ b.exc = exc /\ \A w \in Vars \ {v} : b.known[w] = a.known[w]
  BY <1>1, NowKnown DEF Describes
<1>3. ASSUME NEW w \in Globals PROVE mem[1][w] \in b.known[w]
  <2>1. CASE w = v
    BY <1>2, <2>1 DEF Value, Level
  <2>2. CASE w # v
    BY <1>2, <2>2 DEF Describes, GlobalsMatch, Vars
  <2> QED
    BY <2>1, <2>2
<1>4. ASSUME NEW w \in Locals PROVE mem[Len(stack) + 1][w] \in b.known[w]
  <2>1. CASE w = v
    BY <1>2, <2>1, Disjoint DEF Value, Level
  <2>2. CASE w # v
    BY <1>2, <2>2 DEF Describes, LocalsMatch, Vars
  <2> QED
    BY <2>1, <2>2
<1> QED
  BY <1>2, <1>3, <1>4 DEF Describes, GlobalsMatch, LocalsMatch

LEMMA LookLeads ==
  ASSUME MemoryInv, stack # <<>>, NEW a, Describes(a), NEW v \in Vars, UNCHANGED mem
  PROVE  Leads(Now(a, v, {Value(v)})) /\ Now(a, v, {Value(v)}).exc = exc
BY LookDescribed, StayAdvances

LEMMA JumpFlow ==
  ASSUME FlowInv, Jump
  PROVE  FlowInv'
<1>1. MemoryInv /\ stack # <<>> /\ At.op \in {"goto", "if", "maybe", "ifnull", "ifexc"}
  BY DEF FlowInv, Jump, Running
<1>2. PICK l \in Jumps : Continue(l)
  BY DEF Jump
<1>3. UNCHANGED <<mem, exc>>
  BY DEF Jump
<1>4. ASSUME NEW a, Describes(a)
      PROVE  \E o \in Outcomes(At, a) : Advances(o)
  <2>1. Advances(<<l, a>>)
    BY <1>1, <1>2, <1>3, <1>4, StayAdvances DEF Advances
  <2>2. CASE At.op = "goto"
    <3>1. Outcomes(At, a) = {<<At.to, a>>} /\ Jumps = {At.to}
      BY <2>2 DEF Outcomes, Jumps
    <3> QED
      BY <1>2, <2>1, <3>1
  <2>3. CASE At.op \in {"if", "maybe"}
    <3>1. Outcomes(At, a) = {<<At.to, a>>, <<"", a>>}
      BY <2>3 DEF Outcomes
    <3>2. Jumps \subseteq {At.to, ""}
      BY <2>3 DEF Jumps
    <3> QED
      BY <1>2, <2>1, <3>1, <3>2
  <2>4. CASE At.op = "ifnull"
    <3> DEFINE b == Now(a, At.var, {Value(At.var)})
    <3>1. Outcomes(At, a) = { <<IF st = "null" THEN At.to ELSE "", Now(a, At.var, {st})>> : st \in a.known[At.var] }
      BY <2>4 DEF Outcomes
    <3>2. At.var \in Vars
      BY <1>1, <2>4, TopOperands DEF Operands
    <3>3. Leads(b) /\ b.exc = exc /\ Value(At.var) \in a.known[At.var]
      BY <1>1, <1>3, <1>4, <3>2, LookLeads, ValueKnown
    <3>4. l = IF Value(At.var) = "null" THEN At.to ELSE ""
      BY <1>2, <2>4 DEF Jumps
    <3>5. Advances(<<l, b>>)
      BY <1>2, <1>3, <3>3 DEF Advances
    <3> QED
      BY <3>1, <3>3, <3>4, <3>5
  <2>5. CASE At.op = "ifexc"
    <3>1. Outcomes(At, a) = {<<IF a.exc THEN At.to ELSE "", a>>} /\ Jumps = {IF exc THEN At.to ELSE ""}
      BY <2>5 DEF Outcomes, Jumps
    <3>2. a.exc = exc
      BY <1>4 DEF Describes
    <3> QED
      BY <1>2, <2>1, <3>1, <3>2
  <2> QED
    BY <1>1, <2>2, <2>3, <2>4, <2>5
<1> QED
  BY <1>1, <1>4, StepFlow

LEMMA UseFlow ==
  ASSUME FlowInv, Use
  PROVE  FlowInv'
<1>1. MemoryInv /\ stack # <<>> /\ At.op = "uses"
  BY DEF FlowInv, Use, Running
<1>2. At.var \in Vars
  BY <1>1, TopOperands DEF Operands
<1>3. ASSUME NEW a, Describes(a)
      PROVE  \E o \in Outcomes(At, a) : Advances(o)
  <2>1. Outcomes(At, a) = { <<"", Now(a, At.var, {st})>> : st \in a.known[At.var] \cap Live }
    BY <1>1 DEF Outcomes
  <2>2. Advances(<<"", Now(a, At.var, {Value(At.var)})>>)
    BY <1>1, <1>2, <1>3, LookLeads DEF Advances, Use
  <2> QED
    BY <1>1, <1>2, <1>3, <2>1, <2>2, ValueKnown DEF Use
<1> QED
  BY <1>1, <1>3, StepFlow

LEMMA ReleaseFlow ==
  ASSUME FlowInv, Release
  PROVE  FlowInv'
<1>1. MemoryInv /\ stack # <<>> /\ At.op \in {"drop", "clear", "xdrop", "xclear"}
  BY DEF FlowInv, Release, Running
<1>2. At.var \in Vars
  BY <1>1, TopOperands DEF Operands
<1>3. ASSUME NEW a, Describes(a)
      PROVE  \E o \in Outcomes(At, a) : Advances(o)
  <2> DEFINE new == IF At.op \in {"drop", "xdrop"} /\ Value(At.var) = "own" THEN "gone" ELSE "null"
             o   == <<"", Now(a, At.var, {new})>>
             Ok  == IF At.op \in {"drop", "clear"} THEN {"own"} ELSE {"own", "null"}
  <2>1. Value(At.var) \in a.known[At.var] \cap Ok
    BY <1>1, <1>2, <1>3, ValueKnown DEF Release
  <2>2. o \in Outcomes(At, a)
    <3>1. CASE At.op = "drop"
      <4>1. Outcomes(At, a) = { <<"", Now(a, At.var, {IF st = "own" THEN "gone" ELSE "null"})>> :
                                  st \in a.known[At.var] \cap {"own"} }
        BY <3>1 DEF Outcomes
      <4> QED
        BY <2>1, <3>1, <4>1
    <3>2. CASE At.op = "xdrop"
      <4>1. Outcomes(At, a) = { <<"", Now(a, At.var, {IF st = "own" THEN "gone" ELSE "null"})>> :
                                  st \in a.known[At.var] \cap {"own", "null"} }
        BY <3>2 DEF Outcomes
      <4> QED
        BY <2>1, <3>2, <4>1
    <3>3. CASE At.op = "clear"
      <4>1. Outcomes(At, a) = { <<"", Now(a, At.var, {"null"})>> : st \in a.known[At.var] \cap {"own"} }
        BY <3>3 DEF Outcomes
      <4> QED
        BY <2>1, <3>3, <4>1
    <3>4. CASE At.op = "xclear"
      <4>1. Outcomes(At, a) = { <<"", Now(a, At.var, {"null"})>> : st \in a.known[At.var] \cap {"own", "null"} }
        BY <3>4 DEF Outcomes
      <4> QED
        BY <2>1, <3>4, <4>1
    <3> QED
      BY <1>1, <3>1, <3>2, <3>3, <3>4
  <2>3. Leads(o[2]) /\ o[2].exc = exc
    <3>1. CASE Value(At.var) = "own" /\ Becomes(At.var, IF At.op \in {"drop", "xdrop"} THEN "gone" ELSE "null")
      <4>1. Becomes(At.var, new) /\ new \in Status
        BY <3>1, Statuses
      <4> QED
        BY <1>1, <1>2, <1>3, <4>1, BecomesAdvances
    <3>2. CASE Value(At.var) = "null" /\ UNCHANGED mem
      BY <1>1, <1>2, <1>3, <3>2, LookLeads
    <3> QED
      BY <3>1, <3>2 DEF Release
  <2>4. Advances(o)
    BY <2>3 DEF Advances, Release
  <2> QED
    BY <2>2, <2>4
<1> QED
  BY <1>1, <1>3, StepFlow

LEMMA BorrowFlow ==
  ASSUME FlowInv, BorrowReference
  PROVE  FlowInv'
<1>1. MemoryInv /\ stack # <<>> /\ At.op = "borrow"
  BY DEF FlowInv, BorrowReference, Running
<1>2. At.var \in Vars
  BY <1>1, TopOperands DEF Operands
<1>3. ASSUME NEW a, Describes(a)
      PROVE  \E o \in Outcomes(At, a) : Advances(o)
  <2>1. Outcomes(At, a) = {<<"", Now(a, At.var, {"ref"})>>}
    BY <1>1 DEF Outcomes
  <2>2. Advances(<<"", Now(a, At.var, {"ref"})>>)
    BY <1>1, <1>2, <1>3, BecomesAdvances, Statuses DEF Advances, BorrowReference
  <2> QED
    BY <2>1, <2>2
<1> QED
  BY <1>1, <1>3, StepFlow

LEMMA NewShareFlow ==
  ASSUME FlowInv, NewShare
  PROVE  FlowInv'
<1>1. MemoryInv /\ stack # <<>> /\ At.op = "incref" /\ Value(At.var) \in Live
  BY DEF FlowInv, NewShare, Running
<1>2. At.var \in Vars /\ At.to \in Vars
  BY <1>1, TopOperands DEF Operands
<1>3. ASSUME NEW a, Describes(a)
      PROVE  \E o \in Outcomes(At, a) : Advances(o)
  <2> DEFINE b == Now(a, At.var, {Value(At.var)})
             c == Now(b, At.to, {"own"})
  <2>1. Outcomes(At, a) = { <<"", Now(Now(a, At.var, {st}), At.to, {"own"})>> : st \in a.known[At.var] \cap Live }
    BY <1>1 DEF Outcomes
  <2>2. Describes(b)
    BY <1>1, <1>2, <1>3, LookDescribed
  <2>3. Leads(c) /\ c.exc = exc
    BY <1>1, <1>2, <2>2, BecomesAdvances, Statuses DEF NewShare
  <2>4. Advances(<<"", c>>)
    BY <2>3 DEF Advances, NewShare
  <2> QED
    BY <1>1, <1>2, <1>3, <2>1, <2>4, ValueKnown
<1> QED
  BY <1>1, <1>3, StepFlow
LEMMA MoveReferenceFlow ==
  ASSUME FlowInv, MoveReference
  PROVE  FlowInv'
<1>1. MemoryInv /\ stack # <<>> /\ At.op = "move"
  BY DEF FlowInv, MoveReference, Running
<1>2. At.var \in Vars /\ At.to \in Vars /\ At.to # At.var
  BY <1>1, TopOperands DEF Operands
<1>n. PICK n : n = Len(stack)
  OBVIOUS
<1>3. ASSUME NEW a, Describes(a)
      PROVE  \E o \in Outcomes(At, a) : Advances(o)
  <2>1. PICK S : S = a.known[At.var]
    OBVIOUS
  <2>2. Value(At.var) \in S /\ S \in SUBSET Status
    BY <1>1, <1>2, <1>3, <2>1, ValueKnown
  <2>3. PICK b : b = Now(a, At.to, S)
    OBVIOUS
  <2>4. PICK c : c = Now(b, At.var, {"null"})
    OBVIOUS
  <2>5. PICK m : m = Put(mem, n, At.to, Value(At.var))
    OBVIOUS
  <2>6. n \in Nat /\ n >= 1 /\ Fits(mem, n, a) /\ a \in Knowledge /\ a.exc = exc
    BY <1>1, <1>n, <1>3, MemoryFits DEF Describes
  <2>7. Fits(m, n, b) /\ \A d \in 2..n : m[d] = mem[d]
    BY <1>2, <2>2, <2>3, <2>5, <2>6, PutFits
  <2>8. b \in Knowledge /\ b.exc = exc
    BY <1>2, <2>2, <2>3, <2>6, NowKnown
  <2>9. mem' = Put(m, n, At.var, "null")
    BY <1>n, <2>5 DEF MoveReference, Put
  <2>10. Fits(mem', n, c) /\ \A d \in 2..n : mem'[d] = m[d]
    BY <1>2, <2>4, <2>6, <2>7, <2>8, <2>9, PutFits, Statuses
  <2>11. c.exc = exc
    BY <1>2, <2>4, <2>8, NowKnown, Statuses
  <2>12. Advances(<<"", c>>)
    BY <1>n, <2>7, <2>10, <2>11 DEF Advances, Leads, MoveReference
  <2>13. Outcomes(At, a) = {<<"", c>>}
    BY <1>1, <2>1, <2>3, <2>4 DEF Outcomes
  <2> QED
    BY <2>12, <2>13
<1> QED
  BY <1>1, <1>3, StepFlow

(* A call pushes a function that is at the entry of the flow that serves it; *)
(* the caller stays where it is until the callee returns.                   *)
LEMMA CallFunctionFlow ==
  ASSUME FlowInv, CallFunction
  PROVE  FlowInv'
<1>n. PICK n \in Nat : n = Len(stack)
  BY DEF FlowInv, MemoryInv
<1>m. MemoryInv /\ stack # <<>> /\ At.op = "call"
  BY DEF FlowInv, CallFunction, Running
<1>1. PICK es \in [1..n -> DOMAIN Flow], xs \in [1..n -> FlowPoints] : CallsMatch(es, xs)
  BY <1>n, <1>m DEF FlowInv
<1>2. /\ n \in Nat /\ n \in 1..n /\ es[n] \in DOMAIN Flow /\ xs[n] \in Flow[es[n]]
      /\ xs[n].at = stack[n] /\ At = StmtAt(xs[n].at) /\ Describes(xs[n].knows)
  BY <1>n, <1>1, <1>m, TopDescribed
<1>3. PICK c \in DOMAIN Flow : Serves(es[n], xs[n], c)
  BY <1>2, <1>m, FlowClosed
<1>4. c.fn = At.fn /\ Within(Outside(xs[n].knows), c.knows)
  BY <1>2, <1>3 DEF Serves
<1>y. PICK y : y = Point(Frame(c.fn), c.knows)
  OBVIOUS
<1>5. y \in Flow[c] /\ y.at = Frame(At.fn) /\ y.knows = c.knows
  BY <1>4, <1>y, FlowClosed DEF Point
<1>6. y \in FlowPoints
  BY <1>5, FlowPointTyped
<1>es. PICK fs : fs = [d \in 1..n + 1 |-> IF d = n + 1 THEN c ELSE es[d]]
  OBVIOUS
<1>xs. PICK ys : ys = [d \in 1..n + 1 |-> IF d = n + 1 THEN y ELSE xs[d]]
  OBVIOUS
<1>7. /\ fs \in [1..n + 1 -> DOMAIN Flow] /\ ys \in [1..n + 1 -> FlowPoints]
      /\ fs[n + 1] = c /\ ys[n + 1] = y /\ \A d \in 1..n : fs[d] = es[d] /\ ys[d] = xs[d]
  BY <1>1, <1>6, <1>es, <1>xs
<1>8. /\ stack' \in Seq({ x.at : x \in FlowPoints }) /\ stack' # <<>> /\ Len(stack') = n + 1
      /\ stack'[n + 1] = y.at /\ \A d \in 1..n : stack'[d] = stack[d]
  BY <1>n, <1>m, <1>5, <1>6, AppendProperties DEF MemoryInv, CallFunction
<1>9. NoLocals \in [Locals -> Status] /\ \A v \in Locals : NoLocals[v] = "null"
  BY DEF NoLocals, Status
<1>10. /\ mem' \in Seq([Globals -> Status] \cup [Locals -> Status]) /\ Len(mem') = n + 2
       /\ mem'[n + 2] = NoLocals /\ \A d \in 1..n + 1 : mem'[d] = mem[d]
  BY <1>n, <1>m, <1>9, AppendProperties DEF MemoryInv, CallFunction
<1>11. MemoryInv'
  BY <1>n, <1>m, <1>8, <1>9, <1>10 DEF MemoryInv, CallFunction
<1>12. ASSUME NEW v \in Vars
       PROVE  (IF v \in Locals THEN {"null"} ELSE xs[n].knows.known[v]) \subseteq c.knows.known[v]
  BY <1>4 DEF Within, Outside
<1>13. c.knows.exc = xs[n].knows.exc
  BY <1>4 DEF Within, Outside
<1>14. ASSUME NEW d \in 1..n + 1
       PROVE  ys[d] \in Flow[fs[d]] /\ ys[d].at = stack'[d] /\ LocalsMatch(d, ys[d].knows)'
  <2>1. CASE d = n + 1
    <3>1. LocalsMatch(d, ys[d].knows)'
      BY <1>5, <1>7, <1>9, <1>10, <1>12, <2>1 DEF LocalsMatch, Vars
    <3> QED
      BY <1>5, <1>7, <1>8, <2>1, <3>1
  <2>2. CASE d \in 1..n
    <3>1. mem'[d + 1] = mem[d + 1]
      BY <1>10, <2>2
    <3> QED
      BY <1>n, <1>1, <1>7, <1>8, <2>2, <3>1 DEF CallsMatch, LocalsMatch
  <2> QED
    BY <2>1, <2>2
<1>15. ASSUME NEW d \in 1..n
       PROVE  StmtAt(stack'[d]).op = "call" /\ Serves(fs[d], ys[d], fs[d + 1])
  <2>1. CASE d = n
    BY <1>m, <1>2, <1>3, <1>7, <1>8, <2>1
  <2>2. CASE d # n
    BY <1>n, <1>1, <1>7, <1>8, <2>2 DEF CallsMatch
  <2> QED
    BY <2>1, <2>2
<1>16. GlobalsMatch(ys[n + 1].knows)' /\ exc' = ys[n + 1].knows.exc
  <2>1. ASSUME NEW v \in Globals PROVE mem'[1][v] \in c.knows.known[v]
    <3>1. mem'[1] = mem[1] /\ mem[1][v] \in xs[n].knows.known[v]
      BY <1>2, <1>10 DEF Describes, GlobalsMatch
    <3>2. v \in Vars /\ v \notin Locals
      BY Disjoint DEF Vars
    <3> QED
      BY <1>12, <3>1, <3>2
  <2>2. exc' = c.knows.exc
    BY <1>2, <1>13 DEF Describes, CallFunction
  <2> QED
    BY <1>5, <1>7, <2>1, <2>2 DEF GlobalsMatch
<1>17. fs[1].fn \in DOMAIN Roots
  BY <1>1, <1>2, <1>7 DEF CallsMatch
<1>18. CallsMatch(fs, ys)'
  BY <1>8, <1>14, <1>15, <1>16, <1>17 DEF CallsMatch
<1> QED
  BY <1>7, <1>8, <1>11, <1>18 DEF FlowInv

(* What is returned is known where it is returned.                           *)
LEMMA ReturnedKnown ==
  ASSUME MemoryInv, stack # <<>>, At.op = "return", NEW y, y.at = Top, Operands(At), Describes(y.knows)
  PROVE  Returned \in Results(y)
<1>1. At = StmtAt(y.at)
  BY DEF At, StmtAt
<1>2. CASE At.var \in {"ok", "failed", "void"}
  BY <1>1, <1>2 DEF Returned, Results
<1>3. CASE At.var \notin {"ok", "failed", "void"}
  <2>1. At.var \in Vars
    BY <1>3 DEF Operands
  <2> QED
    BY <1>1, <1>3, <2>1, ValueKnown DEF Returned, Results
<1> QED
  BY <1>2, <1>3

(* What is known where x called, but for the variable that takes the result. *)
Resumed(x, y) == [known |-> [w \in Vars |-> IF w \in Globals THEN y.knows.known[w] ELSE x.knows.known[w]],
                  exc   |-> y.knows.exc]

(* What a call gives to the variable that takes its result, and the memory  *)
(* after it.                                                                *)
Given(r) == IF r \in Live THEN r ELSE "null"

Took(m, n, x, r) == IF StmtAt(x.at).var = "" THEN m ELSE Put(m, n, StmtAt(x.at).var, Given(r))

LEMMA SameFits ==
  ASSUME NEW n, NEW m, NEW a, NEW b, Fits(m, n, a), \A w \in Vars : b.known[w] = a.known[w]
  PROVE  Fits(m, n, b)
BY DEF Fits, Vars

LEMMA ResumeFits ==
  ASSUME NEW n \in Nat, n >= 1, NEW m, NEW x, NEW y, Resumed(x, y) \in Knowledge, Fits(m, n, Resumed(x, y)),
         NEW r, Operands(StmtAt(x.at)), StmtAt(x.at).op = "call"
  PROVE  Fits(Took(m, n, x, r), n, Back(x, y, r).knows) /\ \A d \in 2..n : Took(m, n, x, r)[d] = m[d]
<1>v. PICK v : v = StmtAt(x.at).var
  OBVIOUS
<1>st. PICK st : st = Given(r)
  OBVIOUS
<1>a. PICK a : a = Resumed(x, y)
  OBVIOUS
<1>b. PICK b : b = Back(x, y, r).knows
  OBVIOUS
<1>1. \A w \in Vars : b.known[w] = IF w = v THEN {st} ELSE a.known[w]
  <2>1. \A w \in Vars : Back(x, y, r).knows.known[w] = IF w = StmtAt(x.at).var THEN {Given(r)} ELSE Resumed(x, y).known[w]
    BY DEF Back, Point, Resumed, Given
  <2> QED
    BY <1>v, <1>st, <1>a, <1>b, <2>1
<1>2. a \in Knowledge /\ Fits(m, n, a)
  BY <1>a
<1>3. st \in Status
  BY <1>st, Statuses DEF Given
<1>4. CASE v = ""
  <2>1. \A w \in Vars : b.known[w] = a.known[w]
    BY <1>1, <1>4, NoVars
  <2>2. Took(m, n, x, r) = m
    BY <1>v, <1>4 DEF Took
  <2> QED
    BY <1>2, <1>b, <2>1, <2>2, SameFits
<1>5. CASE v # ""
  <2>1. v \in Vars
    BY <1>v, <1>5 DEF Operands
  <2>2. Took(m, n, x, r) = Put(m, n, v, st)
    BY <1>v, <1>st, <1>5 DEF Took
  <2>3. {st} \in SUBSET Status /\ st \in {st}
    BY <1>3
  <2>4. Fits(Put(m, n, v, st), n, Now(a, v, {st})) /\ \A d \in 2..n : Put(m, n, v, st)[d] = m[d]
    BY <1>2, <2>1, <2>3, PutFits
  <2>5. Now(a, v, {st}).known[v] = {st} /\ \A w \in Vars \ {v} : Now(a, v, {st}).known[w] = a.known[w]
    BY <1>2, <2>1, <2>3, NowKnown
  <2>6. \A w \in Vars : b.known[w] = Now(a, v, {st}).known[w]
    BY <1>1, <2>5
  <2> QED
    BY <1>b, <2>2, <2>4, <2>6, SameFits
<1> QED
  BY <1>4, <1>5

(* A return pops it, and the caller goes on at the point that Serves has for *)
(* this exit and this result.                                               *)
LEMMA ReturnFromCallFlow ==
  ASSUME FlowInv, ReturnFromCall
  PROVE  FlowInv'
<1>l. MemoryInv /\ stack # <<>> /\ At.op = "return" /\ Len(stack) > 1
  BY DEF FlowInv, ReturnFromCall, Running
<1>k. Len(stack) \in Nat
  BY <1>l DEF MemoryInv
<1>n. PICK n \in Nat : n = Len(stack) - 1 /\ n >= 1
  BY <1>k, <1>l
<1>m. MemoryInv /\ stack # <<>> /\ At.op = "return" /\ Len(stack) = n + 1
  BY <1>k, <1>l, <1>n
<1>1. PICK es \in [1..n + 1 -> DOMAIN Flow], xs \in [1..n + 1 -> FlowPoints] : CallsMatch(es, xs)
  BY <1>m DEF FlowInv
<1>2. /\ es[n + 1] \in DOMAIN Flow /\ xs[n + 1] \in Flow[es[n + 1]]
      /\ xs[n + 1].at = stack[n + 1] /\ At = StmtAt(xs[n + 1].at) /\ Describes(xs[n + 1].knows) /\ Operands(At)
  BY <1>1, <1>m, TopDescribed
<1>x. PICK x : x = xs[n]
  OBVIOUS
<1>3. /\ es[n] \in DOMAIN Flow /\ x \in Flow[es[n]] /\ x.at = stack[n] /\ LocalsMatch(n, x.knows)
      /\ StmtAt(x.at).op = "call" /\ Serves(es[n], x, es[n + 1])
  <2>1. n \in 1..Len(stack) /\ n \in 1..Len(stack) - 1 /\ n \in 1..n + 1
    BY <1>n, <1>m
  <2>2. xs[n] \in Flow[es[n]] /\ xs[n].at = stack[n] /\ LocalsMatch(n, xs[n].knows)
    BY <1>1, <2>1 DEF CallsMatch
  <2>3. StmtAt(stack[n]).op = "call" /\ Serves(es[n], xs[n], es[n + 1])
    BY <1>1, <2>1 DEF CallsMatch
  <2> QED
    BY <1>1, <1>x, <2>1, <2>2, <2>3
<1>y. PICK y : y = xs[n + 1]
  OBVIOUS
<1>4. y \in Exits(es[n + 1])
  BY <1>m, <1>2, <1>y DEF Exits
<1>r. PICK r : r = Returned
  OBVIOUS
<1>5. r \in Results(y)
  BY <1>m, <1>2, <1>y, <1>r, ReturnedKnown DEF Top
<1>z. PICK z : z = Back(x, y, r)
  OBVIOUS
<1>6. z \in Flow[es[n]]
  BY <1>3, <1>4, <1>5, <1>z DEF Serves
<1>7. z \in FlowPoints /\ z.knows.exc = y.knows.exc
  BY <1>3, <1>6, <1>z, FlowPointTyped DEF Back, Point
<1>g. z.at = Goes(x.at, IF Failed(r) THEN StmtAt(x.at).to ELSE "")
  BY <1>z DEF Back, Point
<1>8. x.knows \in Knowledge /\ y.knows \in Knowledge /\ Operands(StmtAt(x.at))
  BY <1>2, <1>3, <1>y, FlowPointTyped
<1>a. PICK a : a = Resumed(x, y)
  OBVIOUS
<1>9. a \in Knowledge /\ \A w \in Vars : a.known[w] = IF w \in Globals THEN y.knows.known[w] ELSE x.knows.known[w]
  BY <1>8, <1>a DEF Resumed, Knowledge
<1>f. PICK m : m = Front(mem)
  OBVIOUS
<1>10. /\ m \in Seq([Globals -> Status] \cup [Locals -> Status]) /\ Len(m) = n + 1
       /\ \A d \in 1..n + 1 : m[d] = mem[d]
  <2>1. Len(mem) = n + 2 /\ mem \in Seq([Globals -> Status] \cup [Locals -> Status])
    BY <1>m DEF MemoryInv
  <2>2. m = SubSeq(mem, 1, n + 1)
    BY <1>f, <2>1 DEF Front
  <2> QED
    BY <2>1, <2>2, FrontFacts
<1>11. Fits(m, n, a)
  <2>0. n \in 1..Len(stack) /\ n \in 1..n + 1 /\ n + 1 \in 1..n + 1 /\ 1 \in 1..n + 1
    BY <1>n, <1>m
  <2>1. mem[1] \in [Globals -> Status] /\ mem[n + 1] \in [Locals -> Status]
    BY <1>m, <2>0 DEF MemoryInv
  <2>2. m[1] = mem[1] /\ m[n + 1] = mem[n + 1]
    BY <1>10, <2>0
  <2>3. ASSUME NEW v \in Globals PROVE m[1][v] \in a.known[v]
    BY <1>2, <1>9, <1>y, <2>2 DEF Describes, GlobalsMatch, Vars
  <2>4. ASSUME NEW v \in Locals PROVE m[n + 1][v] \in a.known[v]
    BY <1>3, <1>9, <2>2, Disjoint DEF LocalsMatch, Vars
  <2> QED
    BY <1>10, <2>1, <2>2, <2>3, <2>4 DEF Fits
<1>12. mem' = Took(m, n, x, r)
  BY <1>n, <1>3, <1>r, <1>f DEF ReturnFromCall, StmtAt, Put, Took, Given
<1>13. Fits(mem', n, z.knows) /\ \A d \in 2..n : mem'[d] = m[d]
  <2>1. Resumed(x, y) \in Knowledge /\ Fits(m, n, Resumed(x, y)) /\ StmtAt(x.at).op = "call" /\ Operands(StmtAt(x.at))
    BY <1>3, <1>8, <1>9, <1>11, <1>a
  <2>2. Fits(mem', n, Back(x, y, r).knows) /\ \A d \in 2..n : mem'[d] = m[d]
    BY <1>n, <1>12, <2>1, ResumeFits
  <2> QED
    BY <1>z, <2>2
<1>14. stack' = [Front(stack) EXCEPT ![n] = z.at]
  <2>1. stack' = [Front(stack) EXCEPT ![n] = Goes(Front(stack)[n], IF Failed(r) THEN StmtAt(x.at).to ELSE "")]
    BY <1>n, <1>3, <1>r DEF ReturnFromCall, StmtAt
  <2>2. Front(stack)[n] = x.at
    BY <1>n, <1>m, <1>3, FrontFacts DEF Front, MemoryInv
  <2> QED
    BY <1>g, <2>1, <2>2
<1>15. /\ stack' \in Seq({ w.at : w \in FlowPoints }) /\ Len(stack') = n /\ stack' # <<>>
       /\ stack'[n] = z.at /\ \A d \in 1..n - 1 : stack'[d] = stack[d]
  <2>1. /\ Front(stack) \in Seq({ w.at : w \in FlowPoints }) /\ Len(Front(stack)) = n
        /\ \A d \in 1..n : Front(stack)[d] = stack[d]
    BY <1>n, <1>m, FrontFacts DEF Front, MemoryInv
  <2>2. n \in 1..n /\ z.at \in { w.at : w \in FlowPoints }
    BY <1>n, <1>7
  <2>3. stack' \in Seq({ w.at : w \in FlowPoints }) /\ Len(stack') = n
    BY <1>14, <2>1, <2>2, ExceptSeq
  <2>4. stack'[n] = z.at /\ \A d \in 1..n - 1 : stack'[d] = Front(stack)[d]
    BY <1>14, <2>1, <2>2
  <2>5. stack' # <<>>
    BY <1>n, <2>3
  <2> QED
    BY <2>1, <2>3, <2>4, <2>5
<1>es. PICK fs : fs = [d \in 1..n |-> es[d]]
  OBVIOUS
<1>xs. PICK ys : ys = [d \in 1..n |-> IF d = n THEN z ELSE xs[d]]
  OBVIOUS
<1>e. n \in 1..n /\ \A d \in 1..n : es[d] \in DOMAIN Flow /\ xs[d] \in FlowPoints
  BY <1>n, <1>1
<1>16. /\ fs \in [1..n -> DOMAIN Flow] /\ ys \in [1..n -> FlowPoints]
       /\ ys[n] = z /\ (\A d \in 1..n : fs[d] = es[d]) /\ \A d \in 1..n - 1 : ys[d] = xs[d]
  BY <1>7, <1>e, <1>es, <1>xs
<1>17. ASSUME NEW d \in 1..n - 1 PROVE mem'[d + 1] = mem[d + 1]
  BY <1>10, <1>13
<1>18. MemoryInv'
  <2>1. ASSUME NEW d \in 1..n PROVE mem'[d + 1] \in [Locals -> Status]
    <3>1. CASE d = n
      BY <1>13, <3>1 DEF Fits
    <3>2. CASE d # n
      BY <1>m, <1>17, <3>2 DEF MemoryInv
    <3> QED
      BY <3>1, <3>2
  <2>2. exc' \in BOOLEAN
    BY DEF ReturnFromCall, FlowInv, MemoryInv
  <2> QED
    BY <1>13, <1>15, <2>1, <2>2 DEF MemoryInv, Fits
<1>19. ASSUME NEW d \in 1..n
       PROVE  ys[d] \in Flow[fs[d]] /\ ys[d].at = stack'[d] /\ LocalsMatch(d, ys[d].knows)'
  <2>1. CASE d = n
    BY <1>6, <1>13, <1>15, <1>16, <2>1 DEF LocalsMatch, Fits
  <2>2. CASE d # n
    <3>1. d \in 1..n - 1 /\ d \in 1..n + 1
      BY <2>2
    <3>2. xs[d] \in Flow[es[d]] /\ xs[d].at = stack[d] /\ LocalsMatch(d, xs[d].knows)
      BY <1>m, <1>1, <3>1 DEF CallsMatch
    <3> QED
      BY <1>15, <1>16, <1>17, <3>1, <3>2 DEF LocalsMatch
  <2> QED
    BY <2>1, <2>2
<1>20. ASSUME NEW d \in 1..n - 1
       PROVE  StmtAt(stack'[d]).op = "call" /\ Serves(fs[d], ys[d], fs[d + 1])
  <2>1. StmtAt(stack[d]).op = "call" /\ Serves(es[d], xs[d], es[d + 1])
    BY <1>m, <1>1 DEF CallsMatch
  <2> QED
    BY <1>15, <1>16, <2>1
<1>21. GlobalsMatch(ys[n].knows)' /\ exc' = ys[n].knows.exc
  <2>1. exc' = z.knows.exc
    BY <1>2, <1>7, <1>y DEF Describes, ReturnFromCall
  <2> QED
    BY <1>13, <1>16, <2>1 DEF GlobalsMatch, Fits
<1>22. fs[1].fn \in DOMAIN Roots
  BY <1>n, <1>1, <1>16 DEF CallsMatch
<1>23. CallsMatch(fs, ys)'
  BY <1>15, <1>19, <1>20, <1>21, <1>22 DEF CallsMatch
<1> QED
  BY <1>15, <1>16, <1>18, <1>23 DEF FlowInv

(* Python gets back what Between knows, and calls from there.                *)
LEMMA AtRestFacts ==
  ASSUME stack = <<>>
  PROVE  MemoryInv <=> /\ mem \in Seq([Globals -> Status] \cup [Locals -> Status])
                       /\ Len(mem) = 1
                       /\ mem[1] \in [Globals -> Status]
                       /\ exc \in BOOLEAN
<1>1. Len(stack) = 0 /\ 1..Len(stack) = {} /\ Len(stack) + 1 = 1
  OBVIOUS
<1>2. stack \in Seq({ x.at : x \in FlowPoints })
  OBVIOUS
<1> QED
  BY <1>1, <1>2 DEF MemoryInv

LEMMA ReturnToPythonFlow ==
  ASSUME FlowInv, ReturnToPython
  PROVE  FlowInv'
<1>1. MemoryInv /\ stack # <<>> /\ At.op = "return" /\ Len(stack) = 1
  BY DEF FlowInv, ReturnToPython, Running
<1>2. PICK es \in [1..1 -> DOMAIN Flow], xs \in [1..1 -> FlowPoints] : CallsMatch(es, xs)
  BY <1>1 DEF FlowInv
<1>3. /\ es[1] \in DOMAIN Flow /\ xs[1] \in Flow[es[1]] /\ At = StmtAt(xs[1].at) /\ Describes(xs[1].knows)
      /\ es[1].fn \in DOMAIN Roots
  BY <1>1, <1>2, TopDescribed DEF CallsMatch
<1>4. PICK g \in Between : \A v \in Globals : xs[1].knows.known[v] \subseteq g.known[v]
  BY <1>1, <1>3, FlowClosed DEF Exits
<1>5. Len(mem) = 2 /\ mem \in Seq([Globals -> Status] \cup [Locals -> Status])
  BY <1>1 DEF MemoryInv
<1>6. mem' = SubSeq(mem, 1, 1)
  BY <1>5 DEF ReturnToPython, Front
<1>7. mem' \in Seq([Globals -> Status] \cup [Locals -> Status]) /\ Len(mem') = 1 /\ mem'[1] = mem[1]
  BY <1>5, <1>6, FrontFacts
<1>8. GlobalsMatch(g)'
  BY <1>3, <1>4, <1>7 DEF Describes, GlobalsMatch
<1>9. stack' = <<>> /\ exc' = FALSE
  BY DEF ReturnToPython
<1>10. MemoryInv'
  <2>1. mem'[1] \in [Globals -> Status] /\ exc' \in BOOLEAN
    BY <1>1, <1>7, <1>9 DEF MemoryInv
  <2>2. (stack = <<>>)' => (MemoryInv <=> /\ mem \in Seq([Globals -> Status] \cup [Locals -> Status])
                                         /\ Len(mem) = 1
                                         /\ mem[1] \in [Globals -> Status]
                                         /\ exc \in BOOLEAN)'
    BY AtRestFacts, PTL
  <2> QED
    BY <1>7, <1>9, <2>1, <2>2
<1> QED
  BY <1>8, <1>9, <1>10 DEF FlowInv

LEMMA EnterFromPythonFlow ==
  ASSUME FlowInv, EnterFromPython
  PROVE  FlowInv'
<1>1. MemoryInv /\ stack = <<>> /\ exc = FALSE
  BY DEF FlowInv, EnterFromPython
<1>2. PICK g \in Between : GlobalsMatch(g)
  BY <1>1 DEF FlowInv
<1>3. PICK f \in DOMAIN Roots : (f \in DOMAIN Needs => mem[1][Needs[f]] \in Live) /\ stack' = <<Frame(f)>>
  BY DEF EnterFromPython
<1>4. f \in DOMAIN Needs => g.known[Needs[f]] \cap Live # {}
  BY <1>2, <1>3, FlowTyped DEF GlobalsMatch
<1>5. PICK c \in DOMAIN Flow : c.fn = f /\ Within(Error(Outside(g), FALSE), c.knows)
  BY <1>4, FlowClosed
<1>y. PICK y : y = Point(Frame(c.fn), c.knows)
  OBVIOUS
<1>6. y \in Flow[c] /\ y.at = Frame(f) /\ y.knows = c.knows
  BY <1>5, <1>y, FlowClosed DEF Point
<1>7. y \in FlowPoints
  BY <1>6, FlowPointTyped
<1>es. PICK es : es = [d \in 1..1 |-> c]
  OBVIOUS
<1>xs. PICK xs : xs = [d \in 1..1 |-> y]
  OBVIOUS
<1>8. es \in [1..1 -> DOMAIN Flow] /\ xs \in [1..1 -> FlowPoints] /\ es[1] = c /\ xs[1] = y
  BY <1>7, <1>es, <1>xs
<1>9. /\ stack' \in Seq({ x.at : x \in FlowPoints }) /\ stack' # <<>> /\ Len(stack') = 1 /\ stack'[1] = y.at
  BY <1>3, <1>6, <1>7
<1>10. NoLocals \in [Locals -> Status] /\ \A v \in Locals : NoLocals[v] = "null"
  BY DEF NoLocals, Status
<1>11. /\ mem' \in Seq([Globals -> Status] \cup [Locals -> Status]) /\ Len(mem') = 2
       /\ mem'[2] = NoLocals /\ mem'[1] = mem[1]
  <2>1. mem \in Seq([Globals -> Status] \cup [Locals -> Status]) /\ Len(mem) = 1
    BY <1>1, AtRestFacts DEF MemoryInv
  <2>2. mem' = Append(mem, NoLocals)
    BY DEF EnterFromPython
  <2>3. NoLocals \in [Globals -> Status] \cup [Locals -> Status]
    BY <1>10
  <2> QED
    <3>1. /\ Append(mem, NoLocals) \in Seq([Globals -> Status] \cup [Locals -> Status])
          /\ Len(Append(mem, NoLocals)) = Len(mem) + 1
          /\ \A d \in 1..Len(mem) : Append(mem, NoLocals)[d] = mem[d]
          /\ Append(mem, NoLocals)[Len(mem) + 1] = NoLocals
      <4>1. PICK S : S = [Globals -> Status] \cup [Locals -> Status]
        OBVIOUS
      <4>2. mem \in Seq(S) /\ NoLocals \in S
        BY <2>1, <2>3, <4>1
      <4> QED
        BY <4>1, <4>2, AppendProperties
    <3>2. Len(mem) + 1 = 2 /\ 1 \in 1..Len(mem)
      BY <2>1
    <3> QED
      BY <2>2, <3>1, <3>2
<1>12. exc' = FALSE
  BY <1>1 DEF EnterFromPython
<1>13. MemoryInv'
  <2>1. mem'[1] \in [Globals -> Status]
    BY <1>1, <1>11 DEF MemoryInv
  <2>2. \A d \in 1..1 : mem'[d + 1] \in [Locals -> Status]
    <3>1. 1..1 = {1}
      OBVIOUS
    <3> QED
      BY <1>10, <1>11, <3>1
  <2> QED
    <3>1. 1..Len(stack') = 1..1 /\ Len(mem') = Len(stack') + 1
      BY <1>9, <1>11
    <3>2. exc' \in BOOLEAN
      BY <1>12
    <3> QED
      BY <1>9, <1>11, <2>1, <2>2, <3>1, <3>2, Zenon DEF MemoryInv
<1>14. ASSUME NEW v \in Vars
       PROVE  (IF v \in Locals THEN {"null"} ELSE g.known[v]) \subseteq c.knows.known[v]
  BY <1>5 DEF Within, Outside, Error
<1>15. c.knows.exc = FALSE
  BY <1>5 DEF Within, Error
<1>16. LocalsMatch(1, y.knows)'
  BY <1>6, <1>10, <1>11, <1>14 DEF LocalsMatch, Vars
<1>17. GlobalsMatch(y.knows)'
  <2>1. ASSUME NEW v \in Globals PROVE mem'[1][v] \in c.knows.known[v]
    <3>1. v \in Vars /\ v \notin Locals
      BY Disjoint DEF Vars
    <3> QED
      BY <1>2, <1>11, <1>14, <3>1 DEF GlobalsMatch
  <2> QED
    BY <1>6, <2>1 DEF GlobalsMatch
<1>18. CallsMatch(es, xs)'
  <2>1. 1..1 = {1} /\ 1..0 = {} /\ 1..Len(stack') - 1 = {}
    BY <1>9
  <2>2. \A d \in 1..1 : xs[d] \in Flow[es[d]] /\ xs[d].at = stack'[d] /\ LocalsMatch(d, xs[d].knows)'
    <3>1. xs[1] \in Flow[es[1]] /\ xs[1].at = stack'[1] /\ LocalsMatch(1, xs[1].knows)'
      BY <1>6, <1>8, <1>9, <1>16
    <3> QED
      BY <2>1, <3>1
  <2>3. GlobalsMatch(xs[1].knows)' /\ exc' = xs[1].knows.exc /\ es[1].fn \in DOMAIN Roots
    BY <1>5, <1>6, <1>8, <1>12, <1>15, <1>17
  <2> QED
    BY <1>9, <2>1, <2>2, <2>3 DEF CallsMatch
<1> QED
  BY <1>8, <1>9, <1>13, <1>18 DEF FlowInv

LEMMA InitFlow == RefInit => FlowInv
<1> SUFFICES ASSUME RefInit PROVE FlowInv
  OBVIOUS
<1>1. PICK s \in Statics : mem = <<s>>
  BY DEF RefInit
<1>2. s \in [Globals -> Status] /\ \E g \in Between : \A v \in Globals : s[v] \in g.known[v]
  BY <1>1, FlowClosed
<1>3. stack = <<>> /\ exc = FALSE
  BY DEF RefInit
<1>4. MemoryInv
  <2>1. mem \in Seq([Globals -> Status] \cup [Locals -> Status]) /\ Len(mem) = 1 /\ mem[1] \in [Globals -> Status]
    BY <1>1, <1>2
  <2> QED
    BY <1>3, <2>1, AtRestFacts
<1>5. \E g \in Between : GlobalsMatch(g)
  BY <1>1, <1>2 DEF GlobalsMatch
<1> QED
  BY <1>3, <1>4, <1>5 DEF FlowInv

LEMMA FlowStep == FlowInv /\ [RefNext]_refVars => FlowInv'
<1> SUFFICES ASSUME FlowInv, [RefNext]_refVars PROVE FlowInv'
  OBVIOUS
<1>1. CASE NewReference \/ Allocate \/ MustSucceed \/ SetError \/ ClearError
  BY <1>1, NewReferenceFlow, AllocateFlow, MustSucceedFlow, SetErrorFlow, ClearErrorFlow
<1>2. CASE FetchError \/ RestoreError \/ Jump \/ Use
  BY <1>2, FetchErrorFlow, RestoreErrorFlow, JumpFlow, UseFlow
<1>3. CASE Release \/ NewShare \/ BorrowReference \/ MoveReference
  BY <1>3, ReleaseFlow, NewShareFlow, BorrowFlow, MoveReferenceFlow
<1>4. CASE CallFunction \/ ReturnFromCall \/ ReturnToPython \/ EnterFromPython
  BY <1>4, CallFunctionFlow, ReturnFromCallFlow, ReturnToPythonFlow, EnterFromPythonFlow
<1>5. CASE UNCHANGED refVars
  <2>1. stack' = stack /\ mem' = mem /\ exc' = exc
    BY <1>5 DEF refVars
  <2>2. MemoryInv' /\ \A a : GlobalsMatch(a)' <=> GlobalsMatch(a)
    BY <2>1 DEF FlowInv, MemoryInv, GlobalsMatch
  <2>3. \A es, xs : CallsMatch(es, xs) => CallsMatch(es, xs)'
    BY <2>1 DEF CallsMatch, GlobalsMatch, LocalsMatch
  <2> QED
    BY <2>1, <2>2, <2>3 DEF FlowInv
<1> QED
  BY <1>1, <1>2, <1>3, <1>4, <1>5 DEF RefNext

(* In every behaviour of the module, whatever library calls fail and however *)
(* often it is imported and called, each function is at a point of its flow  *)
(* and its variables are what that point knows.                              *)
THEOREM FlowInvariance == RefSpec => []FlowInv
<1>1. RefInit => FlowInv
  BY InitFlow
<1>2. FlowInv /\ [RefNext]_refVars => FlowInv'
  BY FlowStep
<1> QED
  BY <1>1, <1>2, PTL DEF RefSpec

(* The function that runs is at a point of the flow, where FlowSafe holds.   *)
LEMMA TopSafe ==
  ASSUME FlowInv, stack # <<>>
  PROVE  \E y \in FlowPoints : /\ y.at = Top /\ At = StmtAt(y.at) /\ Operands(At) /\ Describes(y.knows)
                              /\ NoFaultAt(y) /\ NoLeakAt(y) /\ ErrorsAt(y)
<1>n. PICK n \in Nat : n = Len(stack)
  BY DEF FlowInv, MemoryInv
<1>1. PICK es \in [1..n -> DOMAIN Flow], xs \in [1..n -> FlowPoints] : CallsMatch(es, xs)
  BY <1>n DEF FlowInv
<1>2. /\ es[n] \in DOMAIN Flow /\ xs[n] \in Flow[es[n]] /\ xs[n].at = stack[n] /\ At = StmtAt(xs[n].at)
      /\ Describes(xs[n].knows) /\ Operands(At)
  BY <1>n, <1>1, TopDescribed DEF FlowInv
<1>3. NoFaultAt(xs[n]) /\ NoLeakAt(xs[n]) /\ ErrorsAt(xs[n])
  BY <1>2, FlowSafe
<1>4. xs[n] \in FlowPoints
  BY <1>2, FlowPointTyped
<1> QED
  BY <1>n, <1>2, <1>3, <1>4 DEF Top

LEMMA StaticNames == ModuleVariables \subseteq Globals /\ Fields \subseteq Globals /\ "function" \in Globals
                     /\ "sha256_hash" \in Globals /\ "m" \in Globals /\ Strings \subseteq Globals
<1>1. ModuleVariables \subseteq Globals /\ Fields \subseteq Globals /\ "function" \in Globals
  BY FlowSafe
<1>2. "sha256_hash" \in ModuleVariables /\ "m" \in ModuleVariables /\ Strings \subseteq ModuleVariables
  BY DEF ModuleVariables
<1> QED
  BY <1>1, <1>2

LEMMA FaultsFlow == FlowInv => OnlyKnownFaults
<1> SUFFICES ASSUME FlowInv, NEW x \in Faults PROVE x = <<"pf_sha256_hash", "hash">> \/ x[2] \in Strings
  BY DEF OnlyKnownFaults
<1>1. PICK w \in Vars :
        /\ x = <<Top.fn, w>>
        /\ stack # <<>>
        /\ At.var = w
        /\ \/ At.op \in {"uses", "incref"} /\ Value(w) \notin Live
           \/ At.op \in {"drop", "clear"} /\ Value(w) # "own"
           \/ At.op \in {"xdrop", "xclear"} /\ Value(w) \notin {"own", "null"}
           \/ At.op = "return" /\ Value(w) = "gone"
  BY DEF Faults, Vars
<1>2. PICK y \in FlowPoints : y.at = Top /\ At = StmtAt(y.at) /\ Describes(y.knows) /\ NoFaultAt(y)
  BY <1>1, TopSafe
<1>3. Value(w) \in y.knows.known[w]
  BY <1>1, <1>2, ValueKnown DEF FlowInv
<1>4. CASE <<Top.fn, w>> # <<"pf_sha256_hash", "hash">> /\ w \notin Strings
  <2>1. /\ At.op \in {"uses", "incref"} => y.knows.known[w] \subseteq Live
        /\ At.op \in {"drop", "clear"} => y.knows.known[w] \subseteq {"own"}
        /\ At.op \in {"xdrop", "xclear"} => y.knows.known[w] \subseteq {"own", "null"}
        /\ At.op = "return" => "gone" \notin y.knows.known[w]
    BY <1>1, <1>2, <1>4 DEF NoFaultAt
  <2> QED
    BY <1>1, <1>3, <2>1
<1> QED
  BY <1>1, <1>4

LEMMA LeaksFlow == FlowInv => OnlyKnownLeaks
<1> SUFFICES ASSUME FlowInv PROVE OnlyKnownLeaks
  OBVIOUS
<1>1. Forgets \subseteq {<<"pf_sha256_hash", "hash">>}
  <2> SUFFICES ASSUME NEW x \in Forgets PROVE x = <<"pf_sha256_hash", "hash">>
    OBVIOUS
  <2>1. PICK w \in Locals : x = <<Top.fn, w>> /\ Running("return") /\ w # At.var /\ mem[Len(mem)][w] = "own"
    BY DEF Forgets
  <2>2. PICK y \in FlowPoints : y.at = Top /\ At = StmtAt(y.at) /\ Describes(y.knows) /\ NoLeakAt(y)
    BY <2>1, TopSafe DEF Running
  <2>3. "own" \in y.knows.known[w]
    <3>1. Len(mem) = Len(stack) + 1
      BY DEF FlowInv, MemoryInv
    <3> QED
      BY <2>1, <2>2, <3>1 DEF Describes, LocalsMatch
  <2> QED
    BY <2>1, <2>2, <2>3 DEF NoLeakAt, Running
<1>2. ASSUME NEW x \in Overwrites
      PROVE  \/ x \in SetAgain /\ mem[1]["sha256_hash"] = "null"
             \/ x \in ({"init_defaults"} \X {"defaults_tuple", "defaults_kwdict"}) \ SetAgain
  <2>1. PICK w \in Vars : x = <<Top.fn, w>> /\ stack # <<>> /\ Target = w /\ Value(w) = "own"
    BY DEF Overwrites, Vars
  <2>2. PICK y \in FlowPoints : y.at = Top /\ At = StmtAt(y.at) /\ Describes(y.knows) /\ NoLeakAt(y)
    BY <2>1, TopSafe
  <2>3. "own" \in y.knows.known[w]
    BY <2>1, <2>2, ValueKnown DEF FlowInv
  <2>4. TargetOf(StmtAt(y.at)) = w
    BY <2>1, <2>2 DEF Target, TargetOf
  <2>5. \/ <<y.at.fn, w>> \in SetAgain /\ y.knows.known["sha256_hash"] = {"null"}
        \/ <<y.at.fn, w>> \in ({"init_defaults"} \X {"defaults_tuple", "defaults_kwdict"}) \ SetAgain
    BY <2>2, <2>3, <2>4 DEF NoLeakAt
  <2>6. mem[1]["sha256_hash"] \in y.knows.known["sha256_hash"]
    BY <2>2, StaticNames DEF Describes, GlobalsMatch
  <2> QED
    BY <2>1, <2>2, <2>5, <2>6
<1>3. FieldsReleased
  <2> SUFFICES ASSUME mem[1]["function"] = "null", stack = <<>>, NEW f \in Fields PROVE mem[1][f] = "null"
    BY DEF FieldsReleased
  <2>1. PICK g \in Between : GlobalsMatch(g)
    BY DEF FlowInv
  <2>2. "null" \in g.known["function"] /\ mem[1][f] \in g.known[f]
    BY <2>1, StaticNames DEF GlobalsMatch
  <2>3. g.known[f] = {"null"}
    BY <2>2, FlowSafe DEF ReadyAt
  <2> QED
    BY <2>2, <2>3
<1> QED
  BY <1>1, <1>2, <1>3 DEF OnlyKnownLeaks

LEMMA ErrorsFlow == FlowInv => ErrorProtocol
<1> SUFFICES ASSUME FlowInv, Running("return")
             PROVE  /\ Failed(Returned) => exc \/ Top.fn \in MayFindNothing
                    /\ Returned \in Live \cup {"ok"} =>
                         ~exc \/ Top.fn \in {"find_code_object", "set_defaults", "set_kwdefaults"} \/ HiddenFailure
                    /\ Top.fn \in SetException => exc
  BY DEF ErrorProtocol
<1>1. MemoryInv /\ stack # <<>> /\ At.op = "return"
  BY DEF FlowInv, Running
<1>2. PICK y \in FlowPoints : /\ y.at = Top /\ At = StmtAt(y.at) /\ Operands(At) /\ Describes(y.knows)
                              /\ ErrorsAt(y)
  BY <1>1, TopSafe
<1>3. Returned \in Results(y)
  BY <1>1, <1>2, ReturnedKnown
<1>4. exc = y.knows.exc
  BY <1>2 DEF Describes
<1>5. HiddenAt(y) => HiddenFailure
  <2> SUFFICES ASSUME HiddenAt(y) PROVE HiddenFailure
    OBVIOUS
  <2>1. PICK v \in Strings : y.knows.known[v] = {"null"} /\ y.knows.known["m"] = {"own"}
    BY DEF HiddenAt
  <2>2. mem[1][v] \in y.knows.known[v] /\ mem[1]["m"] \in y.knows.known["m"]
    BY <1>2, StaticNames DEF Describes, GlobalsMatch
  <2> QED
    BY <2>1, <2>2 DEF HiddenFailure
<1>6. /\ Failed(Returned) => y.knows.exc \/ y.at.fn \in MayFindNothing
      /\ Returned \in Live \cup {"ok"} =>
           ~y.knows.exc \/ y.at.fn \in {"find_code_object", "set_defaults", "set_kwdefaults"} \/ HiddenAt(y)
      /\ y.at.fn \in SetException => y.knows.exc
  BY <1>1, <1>2, <1>3 DEF ErrorsAt
<1> QED
  BY <1>2, <1>4, <1>5, <1>6

LEMMA ReadyFlow == FlowInv => ReadyWhenReached
<1> SUFFICES ASSUME FlowInv, mem[1]["sha256_hash"] = "own", stack = <<>>, NEW v \in ModuleVariables \ {"cache_entry"}
             PROVE  mem[1][v] \in Live
  BY DEF ReadyWhenReached
<1>1. PICK g \in Between : GlobalsMatch(g)
  BY DEF FlowInv
<1>2. "own" \in g.known["sha256_hash"] /\ mem[1][v] \in g.known[v]
  BY <1>1, StaticNames DEF GlobalsMatch
<1>3. g.known[v] \subseteq Live
  BY <1>2, FlowSafe DEF ReadyAt
<1> QED
  BY <1>2, <1>3

(* No function of sha256_hash.c uses a reference that is not there or        *)
(* releases one that it does not own, but for the digest's buffer when       *)
(* malloc fails and the strings whose creation nobody looks at: for any      *)
(* number of failures, imports and calls.                                    *)
THEOREM OnlyKnownFaultsHolds == RefSpec => []OnlyKnownFaults
BY FlowInvariance, FaultsFlow, PTL

(* No function forgets or overwrites a reference that it owns, but for that  *)
(* buffer, what a failed import had set up when it is tried again, and the   *)
(* defaults of a function object; and an object that is gone holds none.     *)
THEOREM OnlyKnownLeaksHolds == RefSpec => []OnlyKnownLeaks
BY FlowInvariance, LeaksFlow, PTL

(* A function that returns a failure has set an exception, one that returns  *)
(* a result has not, and what is there to set one does, with the named       *)
(* exceptions.                                                               *)
THEOREM ErrorProtocolHolds == RefSpec => []ErrorProtocol
BY FlowInvariance, ErrorsFlow, PTL

(* Whenever Python can reach sha256_hash, all that its calls read is set up, *)
(* after any number of imports that failed at any point.                     *)
THEOREM ReadyWhenReachedHolds == RefSpec => []ReadyWhenReached
BY FlowInvariance, ReadyFlow, PTL
============================================================================
