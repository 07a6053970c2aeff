--------------------------- MODULE ExecPathTracking ---------------------------
(***************************************************************************)
(* gdb_script_exepath_tracking.py: from main, and for Python workloads the *)
(* native functions bytecode tracking found, disassemble every function    *)
(* once, decode its instructions with XED and follow its direct calls and  *)
(* jumps; then write the ISA sets found to isa_set.csv.                    *)
(*                                                                         *)
(* An instruction is a record: its mnemonic, its encoding, what dis_func   *)
(* reads in its last token and its offset ("plain", "minus" for a '-' in   *)
(* hot code, "cold" for a cold part), its ISA set, and the function its    *)
(* target address belongs to, if address_calculation finds one.            *)
(***************************************************************************)
EXTENDS Integers, Sequences, SequencesExt, FiniteSetsExt

CONSTANTS
  Func,       \* addresses, as the script spells them
  NoFunc,     \* no target, or one that cannot be resolved
  Special,    \* transfer_instructions and lea: decoded every time
  Insn,       \* the instructions programs are made of
  Programs,   \* the programs: functions in [Func -> Seq(Insn)]
  Roots,      \* what list_tracking_functions may start with
  Unreadable  \* functions dis_func returns None for: gdb cannot disassemble
              \* them, or they are glibc's lock elision and that is off

ASSUME TrackingAssumption ==
  /\ NoFunc \notin Func
  /\ Programs \subseteq [Func -> Seq(Insn)]
  /\ Roots \subseteq Seq(Func)
  /\ \A i \in Insn : /\ i.target \in Func \cup {NoFunc}
                     /\ i.target # NoFunc => i.mnemonic \in Special
  /\ Unreadable \subseteq Func

VARIABLES
  code,   \* the workload's machine code
  roots,  \* list_tracking_functions when the loop starts
  list,   \* list_tracking_functions
  seen,   \* tracking_functions
  at,     \* the index of the loop over list (counted from 1)
  known,  \* tracked_instructions: mnemonics not to be decoded again
  func,   \* lines of the current function whose entry is still to be visited
  found,  \* the ISA sets in executable_instructions
  tsx,    \* is_tsx_run
  xtest,  \* xtest_enable
  csv,    \* the ISA sets of isa_set.csv
  pc

vars == <<code, roots, list, seen, at, known, func, found, tsx, xtest, csv, pc>>

Lines(f) == DOMAIN code[f]
Current == list[at]

-----------------------------------------------------------------------------
(* dis_func.                                                               *)

\* Only special instructions and the first one of each mnemonic get past
\* tracked_instructions, which an instruction joins before the cold filter.
Fresh(f, k) ==
  \/ code[f][k].mnemonic \in Special
  \/ /\ code[f][k].mnemonic \notin known
     /\ \A l \in Lines(f) : l < k => code[f][l].mnemonic # code[f][k].mnemonic

\* "exclude cold functions": by a '-' or ".cold" in the last token or the offset.
Hot(i) == i.token = "plain"

\* Variant: transfer instructions are deduplicated like all others.
Kept_NoSpecial(f) ==
  {k \in Lines(f) : /\ code[f][k].mnemonic \notin known
                    /\ \A l \in Lines(f) :
                         l < k => code[f][l].mnemonic # code[f][k].mnemonic
                    /\ Hot(code[f][k])}

\* Variant: cold parts are not excluded.
Kept_Cold(f) == {k \in Lines(f) : Fresh(f, k)}

Kept(f) == {k \in Lines(f) : Fresh(f, k) /\ Hot(code[f][k])}

\* func is a dict keyed by the encoding: the last entry stays.
Entries(f) ==
  {k \in Kept(f) : \A l \in Kept(f) : l > k => code[f][l].enc # code[f][k].enc}

Mnemonics(f, K) == {code[f][k].mnemonic : k \in K}

-----------------------------------------------------------------------------
Init ==
  /\ code \in Programs
  /\ roots \in Roots
  /\ list = roots
  /\ seen = Range(roots)
  /\ at = 1
  /\ known = {}
  /\ func = {}
  /\ found = << >>
  /\ tsx = FALSE /\ xtest = FALSE
  /\ csv = {}
  /\ pc = "function"

\* dis_func returns None before it reads an instruction.
CannotDisassemble ==
  /\ pc = "function" /\ at <= Len(list)
  /\ Current \in Unreadable
  /\ at' = at + 1
  /\ UNCHANGED <<code, roots, list, seen, known, func, found, tsx, xtest, csv, pc>>

dis_func ==
  /\ pc = "function" /\ at <= Len(list)
  /\ Current \notin Unreadable
  /\ known' = known \cup (Mnemonics(Current, Lines(Current)) \ Special)
  /\ func' = Entries(Current)
  /\ tsx' = (tsx \/ Mnemonics(Current, Kept(Current)) \cap {"xbegin", "xend"} # {})
  /\ xtest' = (xtest \/ "xtest" \in Mnemonics(Current, Kept(Current)))
  /\ pc' = "instruction"
  /\ UNCHANGED <<code, roots, list, seen, at, found, csv>>

\* Variant: address_calculation returns addresses that are already tracked.
New_Always(f) == {f} \ {NoFunc}

\* address_calculation returns None for an address that is already tracked.
New(f) == {f} \ (seen \cup {NoFunc})

\* One turn of the loop over func.items(), in any order: XED decodes the
\* encoding, and a new target joins both the set and the list.
Decode ==
  /\ pc = "instruction"
  /\ \E k \in func :
       LET i == code[Current][k] IN
       /\ func' = func \ {k}
       /\ found' = Append(found, i.isa)
       /\ seen' = seen \cup New(i.target)
       /\ list' = IF New(i.target) = {} THEN list ELSE Append(list, i.target)
  /\ UNCHANGED <<code, roots, at, known, tsx, xtest, csv, pc>>

NextFunction ==
  /\ pc = "instruction"
  /\ func = {}
  /\ at' = at + 1
  /\ pc' = "function"
  /\ UNCHANGED <<code, roots, list, seen, known, func, found, tsx, xtest, csv>>

\* gdb.execute raises inside address_calculation, which nobody catches: the
\* script ends and writes no CSV.
Raises ==
  /\ pc = "instruction"
  /\ \E k \in func : code[Current][k].mnemonic \in Special
  /\ pc' = "raised"
  /\ UNCHANGED <<code, roots, list, seen, at, known, func, found, tsx, xtest, csv>>

-----------------------------------------------------------------------------
(* utils.create_csv.                                                       *)

\* Variant: drop_duplicates drops every row that has a duplicate.
FirstRows_KeepNone ==
  {k \in DOMAIN found : \A l \in DOMAIN found : l # k => found[l] # found[k]}

\* drop_duplicates(subset='ISA_SET') keeps the first row of each set, under its
\* old label.
FirstRows == {k \in DOMAIN found : \A l \in DOMAIN found : l < k => found[l] # found[k]}

\* glibc's RTM code is not evidence of RTM in the workload.
Rows == IF tsx THEN FirstRows ELSE {k \in FirstRows : found[k] # "RTM"}

\* loc[len(workload_df)] = XTEST adds a row, or overwrites the one that has
\* len(workload_df) as its label.
Overwritten == IF xtest THEN {Cardinality(Rows) + 1} ELSE {}

create_csv ==
  /\ pc = "function" /\ at > Len(list)
  /\ csv' = {found[k] : k \in Rows \ Overwritten}
              \cup (IF xtest THEN {"XTEST"} ELSE {})
  /\ pc' = "done"
  /\ UNCHANGED <<code, roots, list, seen, at, known, func, found, tsx, xtest>>

\* exit().
Finished == pc \in {"done", "raised"} /\ UNCHANGED vars

Next ==
  \/ CannotDisassemble \/ dis_func \/ Decode \/ NextFunction \/ Raises
  \/ create_csv \/ Finished

Spec == Init /\ [][Next]_vars

-----------------------------------------------------------------------------
(* What the script is meant to compute.                                    *)

\* The functions that hot code of f calls or jumps to.
Succ(f) ==
  IF f \in Unreadable THEN {}
  ELSE {code[f][k].target : k \in {l \in Lines(f) : /\ code[f][l].mnemonic \in Special
                                                     /\ Hot(code[f][l])}} \ {NoFunc}

Closed(S) == Range(roots) \subseteq S /\ \A f \in S : Succ(f) \subseteq S

\* The least set that holds the roots and is closed under Succ.
Reachable == {f \in Func : \A S \in SUBSET Func : Closed(S) => f \in S}

\* No function has two instructions of the same encoding and different targets
\* (a relative call encodes a distance, so two of them can).
Unambiguous ==
  \A f \in Func : \A k, l \in Lines(f) :
    code[f][k].enc = code[f][l].enc => code[f][k] = code[f][l]

IsaOf(f) == IF f \in Unreadable THEN {} ELSE {code[f][k].isa : k \in Lines(f)}

-----------------------------------------------------------------------------
(* Properties.                                                             *)

TypeOK ==
  /\ code \in [Func -> Seq(Insn)]
  /\ roots \in Seq(Func)
  /\ list \in Seq(Func)
  /\ seen \subseteq Func
  /\ at \in Nat \ {0}
  /\ func \subseteq Nat
  /\ found \in Seq({i.isa : i \in Insn})
  /\ tsx \in BOOLEAN /\ xtest \in BOOLEAN
  /\ pc \in {"function", "instruction", "done", "raised"}

\* No function is tracked that main, or a root, cannot reach through direct
\* calls of hot code: the analysis never takes in the rest of a library.
OnlyReachable == seen \subseteq Reachable

\* When the script is done it has tracked all of them, whatever recursion there
\* is in the call graph and although other mnemonics are read once only.
AllReachable == pc = "done" /\ Unambiguous => Reachable \subseteq seen

\* Recursion cannot keep the loop going: a function joins the list once (but main
\* is added to the roots even when bytecode tracking has found it, too).
EachOnce == IsInjective(roots) => IsInjective(list)

\* The inductive invariant behind the theorems of ExecPathTracking_proofs.tla:
\* what the loop has passed is closed under Succ, up to the entries of the current
\* function that are still to be visited.
LoopInv ==
  /\ seen = Range(list)
  /\ Range(roots) \subseteq seen
  /\ at <= Len(list) + 1
  /\ pc = "done" => at = Len(list) + 1
  /\ pc = "instruction" =>
       /\ at <= Len(list)
       /\ Current \notin Unreadable
       /\ func \subseteq {k \in Lines(Current) : Hot(code[Current][k])}
       /\ Unambiguous =>
            Succ(Current) \subseteq seen \cup {code[Current][k].target : k \in func}
  /\ Unambiguous => \A j \in 1 .. at - 1 : Succ(list[j]) \subseteq seen

TInv == TypeOK /\ LoopInv /\ OnlyReachable /\ EachOnce

\* Every ISA set that is reported stems from a function that is reachable.
FoundInReachable ==
  Range(found) \subseteq UNION {IsaOf(f) : f \in Reachable}

\* The CSV lacks at most one of the ISA sets that were found: RTM aside, only the
\* XTEST row can take another row's place.
LosesAtMostOneRow ==
  pc = "done" =>
    Cardinality(Range(found) \ (csv \cup {"RTM"})) <= IF xtest THEN 1 ELSE 0

=============================================================================
