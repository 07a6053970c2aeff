---------------------------- MODULE BytecodeStack ----------------------------
(***************************************************************************)
(* The symbolic stack of bytecode_tracking/bcode_parser.py: parse_def goes *)
(* over the instructions of a function once, in the order of their         *)
(* offsets, keeps the stack an execution would have (LOAD), and records    *)
(* the function it finds under the arguments of every call.  What a jump   *)
(* leaves on the stack is captured at the jump and restored at its target. *)
(*                                                                         *)
(* An instruction is a record: op, its opcode; name, what it loads; n, its *)
(* count of arguments; to, how far it jumps.  Values are sequences: a name *)
(* and the attributes taken from it.  What a call or an operator leaves is *)
(* Result, whatever the code writes into that string.                      *)
(***************************************************************************)
EXTENDS Integers, Sequences, FiniteSets, SequencesExt

CONSTANTS
  Name,     \* names and constants that instructions load
  Programs, \* the functions to parse: sequences of instructions
  Result    \* the value of a call or an operator

Value == Seq(Name \cup {Result})

\* What STORE_FAST, STORE_NAME, POP_TOP and RETURN_VALUE do to the stack.
Discards == {"STORE_FAST", "POP_TOP", "RETURN_VALUE"}

\* BINARY_*, INPLACE_*, COMPARE_OP and IS_OP.
Combines == {"BINARY_ADD", "COMPARE_OP"}

\* Opcodes that no branch of the parser mentions.
Unhandled == {"POP_JUMP_IF_TRUE", "JUMP_IF_TRUE_OR_POP", "CONTAINS_OP"}

Jumps == {"POP_JUMP_IF_FALSE", "JUMP_IF_FALSE_OR_POP", "JUMP_FORWARD",
          "POP_JUMP_IF_TRUE", "JUMP_IF_TRUE_OR_POP"}

Op == Discards \cup Combines \cup Unhandled \cup Jumps \cup
      {"LOAD_FAST", "LOAD_ATTR", "CALL_FUNCTION", "CALL_METHOD"}

Instruction == [op : Op, name : Name, n : Nat, to : Int]

ASSUME StackAssumption ==
  /\ Programs \subseteq Seq(Instruction)
  /\ Result \notin Name

VARIABLES
  prog,           \* byte_code
  at,             \* offset
  LOAD,           \* shared_variables.LOAD, the top of the stack first
  stack_cap,      \* captures, each with the target it was made for (history)
  branch_targets, \* offsets that captures are restored at
  called_objs,    \* the values found to be called
  raised          \* whether an IndexError has left parse_def

vars == <<prog, at, LOAD, stack_cap, branch_targets, called_objs, raised>>

Init ==
  /\ prog \in Programs
  /\ at = 1
  /\ LOAD = << >>
  /\ stack_cap = << >>
  /\ branch_targets = {}
  /\ called_objs = {}
  /\ raised = FALSE

Parsing == at <= Len(prog) /\ ~raised
Parsed == at = Len(prog) + 1

Instr == prog[at]
Target(k) == k + prog[k].to

-----------------------------------------------------------------------------
(* parse_branch_instructions.                                              *)

IsTarget == at \in branch_targets

\* The stack an instruction is interpreted on: at a target, the last capture.
Stack == IF IsTarget THEN Last(stack_cap).stack ELSE LOAD

\* Variant: the capture that has been restored stays on stack_cap.
Captures_Kept == stack_cap

\* Variant: a target forgets the captures of the branches around it as well.
Captures_Cleared == IF IsTarget THEN << >> ELSE stack_cap

Captures == IF IsTarget THEN Front(stack_cap) ELSE stack_cap

Capture(s) == [stack |-> s, target |-> Target(at)]

Pop(s) == IF s = << >> THEN s ELSE Tail(s)

Push(v, s) == <<v>> \o s

\* The stack without its k topmost values.
Drop(k, s) == SubSeq(s, k + 1, Len(s))

Advance ==
  /\ at' = at + 1
  /\ UNCHANGED <<prog, raised>>

\* Every other instruction than a call: the stack becomes s.
Becomes(s) ==
  /\ LOAD' = s
  /\ stack_cap' = Captures
  /\ Advance
  /\ UNCHANGED <<branch_targets, called_objs>>

\* A conditional jump: the stack becomes s, and capture at the target.
Branches(s, capture) ==
  /\ LOAD' = s
  /\ stack_cap' = Append(stack_cap, Capture(capture))
  /\ branch_targets' = branch_targets \cup {Target(at)}
  /\ Advance
  /\ UNCHANGED called_objs

\* Variant: the condition is captured as well.
POP_JUMP_IF_FALSE_CapturesFirst ==
  /\ Parsing /\ ~IsTarget
  /\ Instr.op = "POP_JUMP_IF_FALSE"
  /\ Branches(Pop(LOAD), LOAD)

POP_JUMP_IF_FALSE ==
  /\ Parsing /\ ~IsTarget
  /\ Instr.op = "POP_JUMP_IF_FALSE"
  /\ Branches(Pop(LOAD), Pop(LOAD))

\* Variant: what is captured lacks the condition.
JUMP_IF_FALSE_OR_POP_CapturesLast ==
  /\ Parsing /\ ~IsTarget
  /\ Instr.op = "JUMP_IF_FALSE_OR_POP"
  /\ Branches(Pop(LOAD), Pop(LOAD))

\* The condition stays on the stack where the jump is taken.
JUMP_IF_FALSE_OR_POP ==
  /\ Parsing /\ ~IsTarget
  /\ Instr.op = "JUMP_IF_FALSE_OR_POP"
  /\ Branches(Pop(LOAD), LOAD)

(***************************************************************************)
(* JUMP_FORWARD only adds to jp_offset, which nothing reads.  An opcode    *)
(* that no branch mentions changes nothing, nor does a jump that is itself *)
(* a target: parse_branch_instructions has returned before it looks.       *)
(***************************************************************************)
NoEffect ==
  /\ Parsing
  /\ \/ Instr.op \in Unhandled \cup {"JUMP_FORWARD"}
     \/ IsTarget /\ Instr.op \in Jumps
  /\ Becomes(Stack)

-----------------------------------------------------------------------------
(* parse_shared_instructions.                                              *)

Load ==
  /\ Parsing
  /\ Instr.op = "LOAD_FAST"
  /\ Becomes(Push(<<Instr.name>>, Stack))

\* LOAD_ATTR and LOAD_METHOD: the attribute of the topmost value takes its place.
LoadAttr ==
  /\ Parsing
  /\ Instr.op = "LOAD_ATTR"
  /\ Stack # << >>
  /\ Becomes(Push(Append(Head(Stack), Instr.name), Tail(Stack)))

Discard ==
  /\ Parsing
  /\ Instr.op \in Discards
  /\ Becomes(Pop(Stack))

pop2_push1 ==
  /\ Parsing
  /\ Instr.op \in Combines
  /\ Len(Stack) >= 2
  /\ Becomes(Push(<<Result>>, Drop(2, Stack)))

-----------------------------------------------------------------------------
(* parse_def.                                                              *)

\* Variant: the function is looked for among its arguments.
Callee_OffByOne == Stack[Instr.n]

\* The value under the arguments.
Callee == Stack[Instr.n + 1]

\* CALL_FUNCTION and CALL_METHOD: the callee is recorded, and it and its
\* arguments make way for the result.
Call ==
  /\ Parsing
  /\ Instr.op \in {"CALL_FUNCTION", "CALL_METHOD"}
  /\ Len(Stack) > Instr.n
  /\ called_objs' = called_objs \cup {Callee}
  /\ LOAD' = Push(<<Result>>, Drop(Instr.n + 1, Stack))
  /\ stack_cap' = Captures
  /\ Advance
  /\ UNCHANGED branch_targets

\* LOAD.pop(0) on an empty list, or LOAD[n] beyond its end: nobody catches it.
Raises ==
  /\ Parsing
  /\ \/ Instr.op = "LOAD_ATTR" /\ Stack = << >>
     \/ Instr.op \in Combines /\ Len(Stack) < 2
     \/ Instr.op \in {"CALL_FUNCTION", "CALL_METHOD"} /\ Len(Stack) <= Instr.n
  /\ raised' = TRUE
  /\ UNCHANGED <<prog, at, LOAD, stack_cap, branch_targets, called_objs>>

parse_def ==
  \/ POP_JUMP_IF_FALSE \/ JUMP_IF_FALSE_OR_POP \/ NoEffect
  \/ Load \/ LoadAttr \/ Discard \/ pop2_push1 \/ Call \/ Raises

Spec == Init /\ [][parse_def]_vars

-----------------------------------------------------------------------------
(* Properties.                                                             *)

TypeOK ==
  /\ prog \in Seq(Instruction)
  /\ at \in 1 .. Len(prog) + 1
  /\ LOAD \in Seq(Value)
  /\ stack_cap \in Seq([stack : Seq(Value), target : Int])
  /\ branch_targets \subseteq Int
  /\ called_objs \subseteq Value
  /\ raised \in BOOLEAN
  /\ \A k \in DOMAIN stack_cap : stack_cap[k].target \in branch_targets

\* The targets that are still to come.
Pending == {t \in branch_targets : t >= at}

\* stack_cap[-1] never fails: whatever the program, however its jumps cross or
\* share their targets, there is a capture left for every target to come.
EnoughCaptures == Cardinality(Pending) <= Len(stack_cap)

\* The jumps that the parser captures a stack for.
Captured(p) ==
  {k \in DOMAIN p : p[k].op \in {"POP_JUMP_IF_FALSE", "JUMP_IF_FALSE_OR_POP"}}

\* No two conditions jump to the same place, as those of "b and c" do.
TargetsDiffer(p) ==
  \A j, k \in Captured(p) : j + p[j].to = k + p[k].to => j = k

\* No loop tests its condition at its end, with a jump back.
JumpsForward(p) ==
  \A k \in Captured(p) : p[k].to > 0 /\ k + p[k].to <= Len(p)

\* Every capture is restored once: none is left for a later branch to mistake
\* for its own.
CapturesUsedUp ==
  TargetsDiffer(prog) /\ JumpsForward(prog) /\ Parsed => stack_cap = << >>

\* The inductive invariants of BytecodeStack_proofs.tla.
SInv == TypeOK /\ IsFiniteSet(branch_targets) /\ EnoughCaptures

CapturesMatch ==
  TargetsDiffer(prog) /\ JumpsForward(prog) =>
    /\ Len(stack_cap) = Cardinality(Pending)
    /\ \A t \in branch_targets :
         \E k \in Captured(prog) : k < at /\ t = k + prog[k].to

=============================================================================
