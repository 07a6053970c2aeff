------------------------- MODULE BytecodeStack_proofs -------------------------
(***************************************************************************)
(* Proofs about the captures of parse_def, for every function whose        *)
(* instructions are well formed, wherever its jumps lead; and about its    *)
(* stack compared with the interpreter's, for every function that          *)
(* CompilerAssumption describes.                                           *)
(***************************************************************************)
EXTENDS BytecodeCalls, Lemmas, FiniteSetTheorems

CaptureRecord == [stack : Seq(Value), target : Int]

-----------------------------------------------------------------------------
(* Facts about the definitions.                                            *)

\* The instruction at hand, and where it leads.
LEMMA InstrFacts ==
  ASSUME TypeOK, Parsing
  PROVE  /\ at \in 1 .. Len(prog) /\ Len(prog) \in Nat
         /\ Instr \in Instruction
         /\ Target(at) \in Int
<1>1. prog \in Seq(Instruction) /\ at \in 1 .. Len(prog) + 1 /\ at <= Len(prog)
  BY DEF TypeOK, Parsing
<1>2. Len(prog) \in Nat /\ at \in 1 .. Len(prog)
  BY <1>1
<1>3. prog[at] \in Instruction
  BY <1>1, <1>2
<1>4. prog[at].to \in Int
  BY <1>3 DEF Instruction
<1> QED
  BY <1>2, <1>3, <1>4 DEF Instr, Target

\* A set grows by one element at most.
LEMMA AddAtMostOne ==
  ASSUME NEW S, IsFiniteSet(S), NEW x
  PROVE  /\ IsFiniteSet(S \cup {x})
         /\ Cardinality(S \cup {x}) <= Cardinality(S) + 1
<1>1. Cardinality(S) \in Nat
  BY FS_CardinalityType
<1>2. Cardinality(S \cup {x}) = IF x \in S THEN Cardinality(S) ELSE Cardinality(S) + 1
  BY FS_AddElement, Zenon
<1>3. IsFiniteSet(S \cup {x})
  BY FS_AddElement, Zenon
<1> QED
  BY <1>1, <1>2, <1>3

\* The set of targets to come is finite.
LEMMA PendingFinite ==
  ASSUME SInv
  PROVE  IsFiniteSet(Pending) /\ Cardinality(Pending) \in Nat
<1>1. IsFiniteSet(branch_targets) /\ Pending \in SUBSET branch_targets
  BY DEF SInv, Pending
<1> QED
  BY <1>1, FS_Subset, FS_CardinalityType

\* At a target there is a capture to restore.
LEMMA TargetHasCapture ==
  ASSUME SInv, Parsing, IsTarget
  PROVE  Len(stack_cap) \in Nat /\ Len(stack_cap) >= 1
<1>1. at \in Pending
  BY DEF IsTarget, Pending, SInv, TypeOK
<1>2. Cardinality(Pending) # 0
  BY <1>1, PendingFinite, FS_EmptySet
<1>3. Cardinality(Pending) <= Len(stack_cap) /\ stack_cap \in Seq(CaptureRecord)
  BY DEF SInv, EnoughCaptures, TypeOK, CaptureRecord
<1> QED
  BY <1>2, <1>3, PendingFinite

\* The stack that is interpreted, and the captures that are left.
LEMMA StackType ==
  ASSUME SInv, Parsing
  PROVE  /\ Stack \in Seq(Value)
         /\ Captures \in Seq(CaptureRecord)
         /\ Len(Captures) = IF IsTarget THEN Len(stack_cap) - 1 ELSE Len(stack_cap)
         /\ \A k \in DOMAIN Captures : Captures[k].target \in branch_targets
<1>1. /\ LOAD \in Seq(Value) /\ stack_cap \in Seq(CaptureRecord)
      /\ \A k \in DOMAIN stack_cap : stack_cap[k].target \in branch_targets
  BY DEF SInv, TypeOK, CaptureRecord
<1>2. CASE ~IsTarget
  BY <1>1, <1>2 DEF Stack, Captures
<1>3. CASE IsTarget
  <2> DEFINE n == Len(stack_cap)
  <2>1. n \in Nat /\ n >= 1
    BY <1>3, TargetHasCapture
  <2>2. stack_cap[n] \in CaptureRecord
    BY <1>1, <2>1
  <2>3. Stack \in Seq(Value)
    BY <1>3, <2>2 DEF Stack, Last, CaptureRecord
  <2>4. /\ SubSeq(stack_cap, 1, n - 1) \in Seq(CaptureRecord)
        /\ Len(SubSeq(stack_cap, 1, n - 1)) = n - 1
        /\ \A k \in 1 .. n - 1 : SubSeq(stack_cap, 1, n - 1)[k] = stack_cap[k]
    <3>1. \A k \in 1 .. n - 1 : stack_cap[k] \in CaptureRecord
      BY <1>1, <2>1
    <3>2. /\ SubSeq(stack_cap, 1, n - 1) \in Seq(CaptureRecord)
          /\ Len(SubSeq(stack_cap, 1, n - 1)) = IF 1 <= n - 1 THEN n - 1 - 1 + 1 ELSE 0
          /\ \A k \in 1 .. n - 1 - 1 + 1 :
               SubSeq(stack_cap, 1, n - 1)[k] = stack_cap[1 + k - 1]
      BY <2>1, <3>1, SubSeqProperties
    <3> HIDE DEF n
    <3> QED
      BY <2>1, <3>2
  <2>5. Captures = SubSeq(stack_cap, 1, n - 1)
    BY <1>3 DEF Captures, Front
  <2>6. \A k \in DOMAIN Captures : Captures[k].target \in branch_targets
    <3>1. \A k \in 1 .. n - 1 : stack_cap[k].target \in branch_targets
      BY <1>1, <2>1
    <3>2. DOMAIN Captures = 1 .. n - 1
      BY <2>1, <2>4, <2>5
    <3> QED
      BY <2>4, <2>5, <3>1, <3>2
  <2> QED
    BY <1>3, <2>3, <2>4, <2>5, <2>6
<1> QED
  BY <1>2, <1>3

\* A stack without its k topmost values, and with a value on top of it.
LEMMA StackOperations ==
  ASSUME NEW s \in Seq(Value)
  PROVE  /\ Pop(s) \in Seq(Value)
         /\ \A v \in Value : Push(v, s) \in Seq(Value)
         /\ \A k \in Nat : Drop(k, s) \in Seq(Value)
<1>1. Pop(s) \in Seq(Value)
  BY HeadTailProperties DEF Pop
<1>2. \A v \in Value : Push(v, s) \in Seq(Value)
  <2> SUFFICES ASSUME NEW v \in Value PROVE Push(v, s) \in Seq(Value)
    OBVIOUS
  <2>1. <<v>> \in Seq(Value)
    OBVIOUS
  <2> QED
    BY <2>1, ConcatProperties DEF Push
<1>3. ASSUME NEW k \in Nat PROVE Drop(k, s) \in Seq(Value)
  <2>1. \A i \in k + 1 .. Len(s) : s[i] \in Value
    OBVIOUS
  <2> QED
    BY <2>1, SubSeqProperties DEF Drop
<1> QED
  BY <1>1, <1>2, <1>3

\* Names and results are values, and so are the attributes of a value.
LEMMA ValueFacts ==
  /\ \A x \in Name : <<x>> \in Value
  /\ <<Result>> \in Value
  /\ \A v \in Value, x \in Name : Append(v, x) \in Value
BY DEF Value

\* Past a target, one target less is to come.
LEMMA PendingPassed ==
  ASSUME SInv, Parsing
  PROVE  LET rest == {t \in branch_targets : t >= at + 1}
         IN  /\ IsFiniteSet(rest)
             /\ Cardinality(rest) \in Nat
             /\ Cardinality(rest) = IF IsTarget THEN Cardinality(Pending) - 1
                                                ELSE Cardinality(Pending)
<1> DEFINE rest == {t \in branch_targets : t >= at + 1}
<1>1. at \in Int /\ branch_targets \subseteq Int
  BY DEF SInv, TypeOK
<1>2. rest = Pending \ {at}
  <2>1. \A t \in branch_targets : t >= at + 1 <=> t >= at /\ t # at
    BY <1>1
  <2> QED
    BY <2>1 DEF Pending
<1>3. IsTarget <=> at \in Pending
  BY <1>1 DEF IsTarget, Pending
<1>4. IsFiniteSet(rest) /\ Cardinality(rest) \in Nat
  BY <1>2, PendingFinite, FS_RemoveElement, FS_CardinalityType
<1>5. Cardinality(rest) = IF at \in Pending THEN Cardinality(Pending) - 1
                                            ELSE Cardinality(Pending)
  BY <1>2, PendingFinite, FS_RemoveElement
<1> QED
  BY <1>3, <1>4, <1>5

-----------------------------------------------------------------------------
(* Each kind of step preserves the invariant.                              *)

\* The captures that are left suffice for the targets that are left.
LEMMA CapturesSuffice ==
  ASSUME SInv, Parsing
  PROVE  Cardinality({t \in branch_targets : t >= at + 1}) <= Len(Captures)
<1>1. Cardinality(Pending) \in Nat /\ Cardinality(Pending) <= Len(stack_cap)
  BY PendingFinite DEF SInv, EnoughCaptures
<1>2. stack_cap \in Seq(CaptureRecord)
  BY DEF SInv, TypeOK, CaptureRecord
<1> QED
  BY <1>1, <1>2, PendingPassed, StackType

\* Instructions that change the stack only.
LEMMA BecomesPreserves ==
  ASSUME SInv, Parsing, NEW s \in Seq(Value), Becomes(s)
  PROVE  SInv'
<1> USE DEF Becomes, Advance
<1>1. TypeOK'
  <2>1. at' \in 1 .. Len(prog') + 1
    BY InstrFacts DEF SInv
  <2>2. /\ stack_cap' \in Seq(CaptureRecord)
        /\ \A k \in DOMAIN stack_cap' : stack_cap'[k].target \in branch_targets'
    BY StackType
  <2> QED
    BY <2>1, <2>2 DEF SInv, TypeOK, CaptureRecord
<1>2. EnoughCaptures'
  BY CapturesSuffice DEF EnoughCaptures, Pending
<1> QED
  BY <1>1, <1>2 DEF SInv

\* Conditional jumps: one capture more, and at most one target more.
LEMMA BranchesPreserves ==
  ASSUME SInv, Parsing, ~IsTarget,
         NEW s \in Seq(Value), NEW c \in Seq(Value), Branches(s, c)
  PROVE  SInv'
<1> USE DEF Branches, Advance
<1> DEFINE rest == {t \in branch_targets : t >= at + 1}
<1>1. /\ stack_cap \in Seq(CaptureRecord) /\ Len(stack_cap) \in Nat
      /\ \A k \in DOMAIN stack_cap : stack_cap[k].target \in branch_targets
  BY DEF SInv, TypeOK, CaptureRecord
<1>2. Capture(c) \in CaptureRecord /\ Capture(c).target = Target(at)
  BY InstrFacts DEF SInv, Capture, CaptureRecord
<1>3. /\ stack_cap' \in Seq(CaptureRecord)
      /\ Len(stack_cap') = Len(stack_cap) + 1
  BY <1>1, <1>2, AppendProperties
<1>4. \A k \in DOMAIN stack_cap' : stack_cap'[k].target \in branch_targets'
  <2> SUFFICES ASSUME NEW k \in DOMAIN stack_cap'
               PROVE  stack_cap'[k].target \in branch_targets'
    OBVIOUS
  <2>1. k \in 1 .. Len(stack_cap) + 1
    BY <1>3
  <2>2. stack_cap'[k] = IF k <= Len(stack_cap) THEN stack_cap[k] ELSE Capture(c)
    BY <1>1, <1>2, <2>1, AppendProperties
  <2> QED
    BY <1>1, <1>2, <2>1, <2>2
<1>5. TypeOK'
  <2>1. at' \in 1 .. Len(prog') + 1
    BY InstrFacts DEF SInv
  <2>2. branch_targets' \subseteq Int
    BY InstrFacts DEF SInv, TypeOK
  <2> QED
    BY <1>3, <1>4, <2>1, <2>2 DEF SInv, TypeOK, CaptureRecord
<1>6. IsFiniteSet(branch_targets')
  BY FS_AddElement DEF SInv
<1>7. EnoughCaptures'
  <2>1. IsFiniteSet(rest) /\ Cardinality(rest) \in Nat
    BY PendingPassed
  <2>2. Cardinality(rest) <= Len(stack_cap)
    BY CapturesSuffice DEF Captures
  <2>3. Pending' \in SUBSET (rest \cup {Target(at)})
    BY DEF Pending
  <2>4. /\ IsFiniteSet(rest \cup {Target(at)})
        /\ Cardinality(rest \cup {Target(at)}) <= Cardinality(rest) + 1
    BY <2>1, AddAtMostOne, Zenon
  <2>5. /\ Cardinality(Pending') <= Cardinality(rest \cup {Target(at)})
        /\ Cardinality(Pending') \in Nat
        /\ Cardinality(rest \cup {Target(at)}) \in Nat
    BY <2>3, <2>4, FS_Subset, FS_CardinalityType
  <2> HIDE DEF rest
  <2> QED
    BY <1>1, <1>3, <2>1, <2>2, <2>4, <2>5 DEF EnoughCaptures
<1> QED
  BY <1>5, <1>6, <1>7 DEF SInv

\* Calls.
LEMMA CallPreserves ==
  ASSUME SInv, Call
  PROVE  SInv'
<1> USE DEF Call, Advance
<1>1. Stack \in Seq(Value) /\ Instr.n \in Nat /\ Len(Stack) > Instr.n
  BY StackType, InstrFacts DEF SInv, Instruction
<1>2. Callee \in Value
  BY <1>1 DEF Callee
<1>3. LOAD' \in Seq(Value)
  <2>1. Instr.n + 1 \in Nat
    BY <1>1
  <2>2. Drop(Instr.n + 1, Stack) \in Seq(Value)
    BY <1>1, <2>1, StackOperations
  <2> QED
    BY <2>2, StackOperations, ValueFacts
<1>4. TypeOK'
  <2>1. at' \in 1 .. Len(prog') + 1
    BY InstrFacts DEF SInv
  <2>2. /\ stack_cap' \in Seq(CaptureRecord)
        /\ \A k \in DOMAIN stack_cap' : stack_cap'[k].target \in branch_targets'
    BY StackType
  <2> QED
    BY <1>2, <1>3, <2>1, <2>2 DEF SInv, TypeOK, CaptureRecord
<1>5. EnoughCaptures'
  BY CapturesSuffice DEF EnoughCaptures, Pending
<1> QED
  BY <1>4, <1>5 DEF SInv

-----------------------------------------------------------------------------
(* The invariant.                                                          *)

LEMMA InitSInv ==
  ASSUME Init
  PROVE  SInv
<1>1. TypeOK
  <2>1. prog \in Seq(Instruction) /\ Len(prog) \in Nat
    BY StackAssumption DEF Init
  <2>2. LOAD \in Seq(Value) /\ stack_cap \in Seq(CaptureRecord) /\ DOMAIN stack_cap = {}
    BY DEF Init
  <2>3. at \in 1 .. Len(prog) + 1
    BY <2>1 DEF Init
  <2>4. branch_targets \subseteq Int /\ called_objs \subseteq Value /\ raised \in BOOLEAN
    BY DEF Init
  <2> QED
    BY <2>1, <2>2, <2>3, <2>4 DEF TypeOK, CaptureRecord
<1>2. IsFiniteSet(branch_targets) /\ EnoughCaptures
  <2>1. Pending = {} /\ Len(stack_cap) = 0
    BY DEF Init, Pending
  <2> QED
    BY <2>1, FS_EmptySet DEF Init, EnoughCaptures
<1> QED
  BY <1>1, <1>2 DEF SInv

LEMMA NextSInv ==
  ASSUME SInv, [parse_def]_vars
  PROVE  SInv'
<1>1. CASE POP_JUMP_IF_FALSE
  <2>1. LOAD \in Seq(Value)
    BY DEF SInv, TypeOK
  <2> QED
    BY <1>1, <2>1, StackOperations, BranchesPreserves DEF POP_JUMP_IF_FALSE
<1>2. CASE JUMP_IF_FALSE_OR_POP
  <2>1. LOAD \in Seq(Value)
    BY DEF SInv, TypeOK
  <2> QED
    BY <1>2, <2>1, StackOperations, BranchesPreserves DEF JUMP_IF_FALSE_OR_POP
<1>3. CASE NoEffect
  BY <1>3, StackType, BecomesPreserves DEF NoEffect
<1>4. CASE Load
  <2>1. Parsing /\ Becomes(Push(<<Instr.name>>, Stack)) /\ Instr.name \in Name
    BY <1>4, InstrFacts DEF Load, Instruction, SInv
  <2>2. Push(<<Instr.name>>, Stack) \in Seq(Value)
    BY <2>1, ValueFacts, StackType, StackOperations
  <2> QED
    BY <2>1, <2>2, BecomesPreserves
<1>5. CASE LoadAttr
  <2>1. /\ Parsing /\ Stack # << >> /\ Instr.name \in Name
        /\ Becomes(Push(Append(Head(Stack), Instr.name), Tail(Stack)))
    BY <1>5, InstrFacts DEF LoadAttr, Instruction, SInv
  <2>2. Head(Stack) \in Value /\ Tail(Stack) \in Seq(Value)
    BY <2>1, StackType, HeadTailProperties
  <2>3. Push(Append(Head(Stack), Instr.name), Tail(Stack)) \in Seq(Value)
    BY <2>1, <2>2, ValueFacts, StackOperations
  <2> QED
    BY <2>1, <2>3, BecomesPreserves
<1>6. CASE Discard
  BY <1>6, StackType, StackOperations, BecomesPreserves DEF Discard
<1>7. CASE pop2_push1
  <2>1. Parsing /\ Becomes(Push(<<Result>>, Drop(2, Stack)))
    BY <1>7 DEF pop2_push1
  <2>2. Drop(2, Stack) \in Seq(Value)
    BY <2>1, StackType, StackOperations
  <2>3. Push(<<Result>>, Drop(2, Stack)) \in Seq(Value)
    BY <2>2, ValueFacts, StackOperations
  <2> QED
    BY <2>1, <2>3, BecomesPreserves
<1>8. CASE Call
  BY <1>8, CallPreserves
<1>9. CASE Raises
  BY <1>9 DEF Raises, SInv, TypeOK, EnoughCaptures, Pending
<1>10. CASE UNCHANGED vars
  BY <1>10 DEF vars, SInv, TypeOK, EnoughCaptures, Pending
<1> QED
  BY <1>1, <1>2, <1>3, <1>4, <1>5, <1>6, <1>7, <1>8, <1>9, <1>10 DEF parse_def

\* parse_def's stack and captures are well formed and every target to come has a
\* capture, for any set of functions.
THEOREM StackInvariance == Spec => []SInv
<1>1. Init => SInv
  BY InitSInv
<1>2. SInv /\ [parse_def]_vars => SInv'
  BY NextSInv
<1> QED
  BY <1>1, <1>2, PTL DEF Spec

\* Type correctness of parse_def's variables.
THEOREM StackTypeCorrect == Spec => []TypeOK
<1>1. SInv => TypeOK
  BY DEF SInv
<1> QED
  BY <1>1, StackInvariance, PTL

\* parse_branch_instructions never takes stack_cap[-1] of an empty list.
THEOREM EnoughCapturesHolds == Spec => []EnoughCaptures
<1>1. SInv => EnoughCaptures
  BY DEF SInv
<1> QED
  BY <1>1, StackInvariance, PTL

-----------------------------------------------------------------------------
(* Captures and targets match one to one when no two jumps share a target. *)

\* An instruction that is no conditional jump: a capture goes where a target is
\* passed.
LEMMA PassingKeepsMatch ==
  ASSUME SInv, CapturesMatch, Parsing,
         Advance, stack_cap' = Captures, branch_targets' = branch_targets
  PROVE  CapturesMatch'
<1> USE DEF Advance
<1> DEFINE rest == {t \in branch_targets : t >= at + 1}
<1>1. Pending' = rest
  BY DEF Pending
<1>2. SUFFICES ASSUME TargetsDiffer(prog), JumpsForward(prog)
               PROVE  /\ Len(Captures) = Cardinality(rest)
                      /\ \A t \in branch_targets :
                           \E k \in Captured(prog) : k < at + 1 /\ t = k + prog[k].to
  BY <1>1 DEF CapturesMatch, TargetsDiffer, JumpsForward, Captured
<1>3. /\ Len(stack_cap) = Cardinality(Pending)
      /\ \A t \in branch_targets :
           \E k \in Captured(prog) : k < at /\ t = k + prog[k].to
  BY <1>2 DEF CapturesMatch
<1>4. Len(Captures) = Cardinality(rest)
  BY <1>3, StackType, PendingPassed
<1>5. ASSUME NEW t \in branch_targets
      PROVE  \E k \in Captured(prog) : k < at + 1 /\ t = k + prog[k].to
  <2>1. PICK k \in Captured(prog) : k < at /\ t = k + prog[k].to
    BY <1>3
  <2>2. k \in Int /\ at \in Int
    BY InstrFacts DEF SInv, TypeOK, Captured
  <2> QED
    BY <2>1, <2>2
<1> QED
  BY <1>4, <1>5

\* A conditional jump: its target is new, so it adds one to both.
LEMMA BranchKeepsMatch ==
  ASSUME SInv, CapturesMatch, Parsing, ~IsTarget, at \in Captured(prog),
         NEW s, NEW c \in Seq(Value), Branches(s, c)
  PROVE  CapturesMatch'
<1> USE DEF Branches, Advance
<1> DEFINE rest == {t \in branch_targets : t >= at + 1}
<1>1. SUFFICES ASSUME TargetsDiffer(prog), JumpsForward(prog)
               PROVE  /\ Len(stack_cap') = Cardinality(Pending')
                      /\ \A t \in branch_targets' :
                           \E k \in Captured(prog) : k < at + 1 /\ t = k + prog[k].to
  BY DEF CapturesMatch, TargetsDiffer, JumpsForward, Captured
<1>2. /\ Len(stack_cap) = Cardinality(Pending)
      /\ \A t \in branch_targets :
           \E k \in Captured(prog) : k < at /\ t = k + prog[k].to
  BY <1>1 DEF CapturesMatch
<1>3. /\ at \in Int /\ prog[at].to \in Int /\ prog[at].to > 0
      /\ Target(at) = at + prog[at].to
  BY <1>1, InstrFacts DEF SInv, Instr, Instruction, JumpsForward, Target
<1>4. Target(at) \notin branch_targets
  <2> SUFFICES ASSUME Target(at) \in branch_targets PROVE FALSE
    OBVIOUS
  <2>1. PICK k \in Captured(prog) : k < at /\ Target(at) = k + prog[k].to
    BY <1>2
  <2>2. k = at
    BY <1>1, <1>3, <2>1 DEF TargetsDiffer
  <2> QED
    BY <1>3, <2>1, <2>2
<1>5. Pending' = rest \cup {Target(at)} /\ Target(at) \notin rest
  <2>1. Target(at) >= at + 1
    BY <1>3
  <2> QED
    BY <1>4, <2>1 DEF Pending
<1>6. Cardinality(Pending') = Cardinality(Pending) + 1
  <2>1. IsFiniteSet(rest) /\ Cardinality(rest) = Cardinality(Pending)
    BY PendingPassed
  <2> HIDE DEF rest
  <2>2. Cardinality(rest \cup {Target(at)}) =
          IF Target(at) \in rest THEN Cardinality(rest) ELSE Cardinality(rest) + 1
    BY <2>1, FS_AddElement, Zenon
  <2> QED
    BY <1>5, <2>1, <2>2
<1>7. Len(stack_cap') = Len(stack_cap) + 1
  <2>1. stack_cap \in Seq(CaptureRecord) /\ Capture(c) \in CaptureRecord
    BY InstrFacts DEF SInv, TypeOK, Capture, CaptureRecord
  <2> QED
    BY <2>1, AppendProperties
<1>8. ASSUME NEW t \in branch_targets'
      PROVE  \E k \in Captured(prog) : k < at + 1 /\ t = k + prog[k].to
  <2>1. CASE t = Target(at)
    BY <1>3, <2>1
  <2>2. CASE t \in branch_targets
    <3>1. PICK k \in Captured(prog) : k < at /\ t = k + prog[k].to
      BY <1>2, <2>2
    <3>2. k \in Int
      BY InstrFacts DEF SInv, TypeOK, Captured
    <3> QED
      BY <1>3, <3>1, <3>2
  <2> QED
    BY <2>1, <2>2
<1> QED
  BY <1>2, <1>6, <1>7, <1>8

LEMMA InitMatch ==
  ASSUME Init
  PROVE  CapturesMatch
<1>1. Pending = {} /\ Len(stack_cap) = 0 /\ branch_targets = {}
  BY DEF Init, Pending
<1> QED
  BY <1>1, FS_EmptySet DEF CapturesMatch

LEMMA NextMatch ==
  ASSUME SInv, CapturesMatch, [parse_def]_vars
  PROVE  CapturesMatch'
<1>1. CASE POP_JUMP_IF_FALSE
  <2>1. LOAD \in Seq(Value) /\ Parsing /\ at \in Captured(prog)
    BY <1>1, InstrFacts DEF SInv, TypeOK, POP_JUMP_IF_FALSE, Captured, Instr
  <2> QED
    BY <1>1, <2>1, StackOperations, BranchKeepsMatch DEF POP_JUMP_IF_FALSE
<1>2. CASE JUMP_IF_FALSE_OR_POP
  <2>1. LOAD \in Seq(Value) /\ Parsing /\ at \in Captured(prog)
    BY <1>2, InstrFacts DEF SInv, TypeOK, JUMP_IF_FALSE_OR_POP, Captured, Instr
  <2> QED
    BY <1>2, <2>1, BranchKeepsMatch DEF JUMP_IF_FALSE_OR_POP
<1>3. CASE NoEffect \/ Load \/ LoadAttr \/ Discard \/ pop2_push1
  <2>1. CASE NoEffect \/ Load \/ LoadAttr
    BY <2>1, PassingKeepsMatch DEF NoEffect, Load, LoadAttr, Becomes, Advance
  <2>2. CASE Discard \/ pop2_push1
    BY <2>2, PassingKeepsMatch DEF Discard, pop2_push1, Becomes, Advance
  <2> QED
    BY <1>3, <2>1, <2>2
<1>4. CASE Call
  BY <1>4, PassingKeepsMatch DEF Call
<1>5. CASE Raises \/ UNCHANGED vars
  <2>1. UNCHANGED <<prog, at, stack_cap, branch_targets>>
    BY <1>5 DEF Raises, vars
  <2>2. /\ TargetsDiffer(prog)' <=> TargetsDiffer(prog)
        /\ JumpsForward(prog)' <=> JumpsForward(prog)
        /\ Captured(prog)' = Captured(prog)
    BY <2>1 DEF TargetsDiffer, JumpsForward, Captured
  <2>3. Pending' = Pending
    BY <2>1, <2>2 DEF Pending
  <2> QED
    BY <2>1, <2>2, <2>3 DEF CapturesMatch
<1> QED
  BY <1>1, <1>2, <1>3, <1>4, <1>5 DEF parse_def

\* When all is parsed every target has been passed.
LEMMA MatchUsedUp ==
  ASSUME SInv, CapturesMatch
  PROVE  CapturesUsedUp
<1> SUFFICES ASSUME TargetsDiffer(prog), JumpsForward(prog), Parsed
             PROVE  stack_cap = << >>
  BY DEF CapturesUsedUp
<1>1. /\ Len(stack_cap) = Cardinality(Pending)
      /\ \A t \in branch_targets :
           \E k \in Captured(prog) : k < at /\ t = k + prog[k].to
  BY DEF CapturesMatch
<1>2. Len(prog) \in Nat /\ at = Len(prog) + 1
  BY DEF SInv, TypeOK, Parsed
<1>3. \A t \in branch_targets : t <= Len(prog)
  BY <1>1 DEF JumpsForward
<1>4. Pending = {}
  <2>1. \A t \in branch_targets : t \in Int /\ ~(t >= at)
    BY <1>2, <1>3 DEF SInv, TypeOK
  <2> QED
    BY <2>1 DEF Pending
<1>5. stack_cap \in Seq(CaptureRecord) /\ Len(stack_cap) = 0
  BY <1>1, <1>4, FS_EmptySet DEF SInv, TypeOK, CaptureRecord
<1> QED
  BY <1>5, EmptySeq

\* In a function whose conditional jumps lead forward, to different targets, every
\* capture has been restored, once, when parse_def returns.
THEOREM CapturesUsedUpHolds == Spec => []CapturesUsedUp
<1>1. Init => CapturesMatch
  BY InitMatch
<1>2. SInv /\ CapturesMatch /\ [parse_def]_vars => CapturesMatch'
  BY NextMatch
<1>3. SInv /\ CapturesMatch => CapturesUsedUp
  BY MatchUsedUp
<1> QED
  BY <1>1, <1>2, <1>3, StackInvariance, PTL DEF Spec

-----------------------------------------------------------------------------
(* The parser and the interpreter.                                         *)

\* What fits an expectation fits a weaker one.
LEMMA FitsTrans ==
  ASSUME NEW s \in Seq(Value), NEW t \in Seq(Value), NEW u \in Seq(Value),
         Fits(s, t), Fits(t, u)
  PROVE  Fits(s, u)
BY DEF Fits

\* A push on a stack, and what is expected of it.
LEMMA PushFacts ==
  ASSUME NEW s \in Seq(Value), NEW v \in Value
  PROVE  /\ Push(v, s) \in Seq(Value)
         /\ Len(Push(v, s)) = Len(s) + 1
         /\ \A i \in 1 .. Len(s) + 1 : Push(v, s)[i] = IF i = 1 THEN v ELSE s[i - 1]
<1>1. /\ <<v>> \in Seq(Value) /\ Len(<<v>>) = 1 /\ <<v>>[1] = v
      /\ Len(s) \in Nat
  OBVIOUS
<1>2. /\ <<v>> \o s \in Seq(Value)
      /\ Len(<<v>> \o s) = Len(<<v>>) + Len(s)
      /\ \A i \in 1 .. Len(<<v>>) + Len(s) :
           (<<v>> \o s)[i] = IF i <= Len(<<v>>) THEN <<v>>[i] ELSE s[i - Len(<<v>>)]
  BY <1>1, ConcatProperties
<1>3. ASSUME NEW i \in 1 .. Len(s) + 1
      PROVE  (<<v>> \o s)[i] = IF i = 1 THEN v ELSE s[i - 1]
  <2>1. i \in 1 .. Len(<<v>>) + Len(s) /\ (i <= 1 <=> i = 1)
    BY <1>1
  <2> QED
    BY <1>1, <1>2, <2>1
<1> QED
  BY <1>1, <1>2, <1>3 DEF Push

LEMMA FitsPush ==
  ASSUME NEW s \in Seq(Value), NEW t \in Seq(Value), Fits(s, t),
         NEW v \in Value, NEW w \in Value, w \in {Varies, v}
  PROVE  Fits(Push(v, s), Push(w, t))
<1>1. Len(s) = Len(t) /\ Len(t) \in Nat /\ \A i \in 1 .. Len(t) : t[i] \in {Varies, s[i]}
  BY DEF Fits
<1>2. /\ Len(Push(v, s)) = Len(t) + 1 /\ Len(Push(w, t)) = Len(t) + 1
      /\ DOMAIN Push(w, t) = 1 .. Len(t) + 1
  BY <1>1, PushFacts
<1>3. ASSUME NEW i \in 1 .. Len(t) + 1
      PROVE  Push(w, t)[i] \in {Varies, Push(v, s)[i]}
  <2>1. CASE i = 1
    BY <1>1, <2>1, PushFacts
  <2>2. CASE i # 1
    <3>1. i - 1 \in 1 .. Len(t)
      BY <1>1, <2>2
    <3>2. \A j \in 1 .. Len(t) + 1 : Push(w, t)[j] = IF j = 1 THEN w ELSE t[j - 1]
      BY PushFacts, Zenon
    <3>3. \A j \in 1 .. Len(s) + 1 : Push(v, s)[j] = IF j = 1 THEN v ELSE s[j - 1]
      BY PushFacts, Zenon
    <3>4. i \in 1 .. Len(s) + 1
      BY <1>1
    <3> QED
      BY <1>1, <2>2, <3>1, <3>2, <3>3, <3>4
  <2> QED
    BY <2>1, <2>2
<1> QED
  BY <1>2, <1>3 DEF Fits

\* A stack without its k topmost values.
LEMMA DropFacts ==
  ASSUME NEW s \in Seq(Value), NEW k \in Nat, k <= Len(s)
  PROVE  /\ Drop(k, s) \in Seq(Value)
         /\ Len(Drop(k, s)) = Len(s) - k
         /\ \A i \in 1 .. Len(s) - k : Drop(k, s)[i] = s[i + k]
<1>1. Len(s) \in Nat /\ \A i \in k + 1 .. Len(s) : s[i] \in Value
  OBVIOUS
<1>2. /\ Drop(k, s) \in Seq(Value)
      /\ Len(Drop(k, s)) = IF k + 1 <= Len(s) THEN Len(s) - (k + 1) + 1 ELSE 0
      /\ \A i \in 1 .. Len(s) - (k + 1) + 1 : Drop(k, s)[i] = s[k + 1 + i - 1]
  BY <1>1, SubSeqProperties DEF Drop
<1> QED
  BY <1>1, <1>2

LEMMA FitsDrop ==
  ASSUME NEW s \in Seq(Value), NEW t \in Seq(Value), Fits(s, t),
         NEW k \in Nat, k <= Len(t)
  PROVE  Fits(Drop(k, s), Drop(k, t))
<1>1. Len(s) = Len(t) /\ Len(t) \in Nat /\ \A i \in 1 .. Len(t) : t[i] \in {Varies, s[i]}
  BY DEF Fits
<1>2. /\ Len(Drop(k, s)) = Len(t) - k /\ Len(Drop(k, t)) = Len(t) - k
      /\ DOMAIN Drop(k, t) = 1 .. Len(t) - k
  BY <1>1, DropFacts
<1>3. ASSUME NEW i \in 1 .. Len(t) - k
      PROVE  Drop(k, t)[i] \in {Varies, Drop(k, s)[i]}
  <2>1. i + k \in 1 .. Len(t)
    BY <1>1
  <2> QED
    BY <1>1, <2>1, DropFacts
<1> QED
  BY <1>2, <1>3 DEF Fits

LEMMA TailFacts ==
  ASSUME NEW s \in Seq(Value), s # << >>
  PROVE  /\ Tail(s) \in Seq(Value) /\ Len(Tail(s)) = Len(s) - 1
         /\ Len(s) \in Nat /\ Len(s) >= 1
         /\ Head(s) \in Value /\ Head(s) = s[1]
         /\ \A i \in 1 .. Len(s) - 1 : Tail(s)[i] = s[i + 1]
<1>1. Len(s) \in Nat \ {0}
  BY EmptySeq
<1> QED
  BY <1>1, HeadTailProperties

LEMMA FitsTail ==
  ASSUME NEW s \in Seq(Value), NEW t \in Seq(Value), Fits(s, t), t # << >>
  PROVE  s # << >> /\ Fits(Tail(s), Tail(t)) /\ Head(t) \in {Varies, Head(s)}
<1>1. Len(s) = Len(t) /\ \A i \in 1 .. Len(t) : t[i] \in {Varies, s[i]}
  BY DEF Fits
<1>2. Len(t) \in Nat /\ Len(t) >= 1 /\ s # << >>
  BY <1>1, TailFacts
<1>3. /\ Len(Tail(s)) = Len(t) - 1 /\ Len(Tail(t)) = Len(t) - 1
      /\ DOMAIN Tail(t) = 1 .. Len(t) - 1
  BY <1>1, <1>2, TailFacts
<1>4. ASSUME NEW i \in 1 .. Len(t) - 1
      PROVE  Tail(t)[i] \in {Varies, Tail(s)[i]}
  <2>1. i + 1 \in 1 .. Len(t)
    BY <1>2
  <2>2. Tail(t)[i] = t[i + 1] /\ Tail(s)[i] = s[i + 1]
    BY <1>1, <1>2, TailFacts
  <2> QED
    BY <1>1, <2>1, <2>2
<1>5. Head(t) \in {Varies, Head(s)}
  BY <1>1, <1>2, TailFacts
<1> QED
  BY <1>2, <1>3, <1>4, <1>5 DEF Fits

\* The same of a stack that may be too deep.
LEMMA CoversLater ==
  ASSUME NEW s \in Seq(Value), NEW t \in Seq(Value), NEW u \in Seq(Value),
         Covers(s, t), Fits(t, u)
  PROVE  Covers(s, u)
<1>1. Len(s) >= Len(u)
  BY DEF Covers, Fits
<1>2. Supported(prog) => Fits(s, u)
  BY FitsTrans DEF Covers
<1> QED
  BY <1>1, <1>2 DEF Covers

LEMMA CoversPush ==
  ASSUME NEW s \in Seq(Value), NEW t \in Seq(Value), Covers(s, t),
         NEW v \in Value, NEW w \in Value, Supported(prog) => w \in {Varies, v}
  PROVE  Covers(Push(v, s), Push(w, t))
<1>1. Len(Push(v, s)) >= Len(Push(w, t))
  BY PushFacts DEF Covers
<1>2. Supported(prog) => Fits(Push(v, s), Push(w, t))
  BY FitsPush DEF Covers
<1> QED
  BY <1>1, <1>2 DEF Covers

LEMMA CoversDrop ==
  ASSUME NEW s \in Seq(Value), NEW t \in Seq(Value), Covers(s, t),
         NEW k \in Nat, k <= Len(t)
  PROVE  Covers(Drop(k, s), Drop(k, t)) /\ k <= Len(s)
<1>1. Len(s) >= Len(t) /\ Len(s) \in Nat /\ Len(t) \in Nat
  BY DEF Covers
<1>2. Len(Drop(k, s)) = Len(s) - k /\ Len(Drop(k, t)) = Len(t) - k
  <2>1. k <= Len(s)
    BY <1>1
  <2> QED
    BY <2>1, DropFacts
<1>3. Supported(prog) => Fits(Drop(k, s), Drop(k, t))
  BY FitsDrop DEF Covers
<1> QED
  BY <1>1, <1>2, <1>3 DEF Covers

LEMMA CoversTail ==
  ASSUME NEW s \in Seq(Value), NEW t \in Seq(Value), Covers(s, t), t # << >>
  PROVE  /\ s # << >> /\ Covers(Tail(s), Tail(t))
         /\ Supported(prog) => Head(t) \in {Varies, Head(s)}
<1>1. /\ Len(s) >= Len(t) /\ Len(t) >= 1 /\ Len(t) \in Nat /\ Len(s) \in Nat
      /\ Len(Tail(t)) = Len(t) - 1
  BY TailFacts DEF Covers
<1>2. s # << >> /\ Len(Tail(s)) = Len(s) - 1
  BY <1>1, TailFacts, EmptySeq
<1>3. Supported(prog) => Fits(Tail(s), Tail(t)) /\ Head(t) \in {Varies, Head(s)}
  BY FitsTail DEF Covers
<1> QED
  BY <1>1, <1>2, <1>3 DEF Covers

\* What the compiler guarantees of the function at hand.
LEMMA Guarantees ==
  ASSUME CallsInv, TargetsDiffer(prog)
  PROVE  /\ Typed(prog, Expected[prog]) /\ Structured(prog, Expected[prog])
         /\ Supported(prog) => CalleesKnown(prog, Expected[prog])
         /\ SInv /\ NestedCaptures /\ ParserInv /\ SeenInv /\ MachineInv
         /\ Len(prog) \in Nat
         /\ \A k \in 1 .. Len(prog) + 1 : Expect(k) \in Seq(Value)
         /\ DOMAIN Expected[prog] = 1 .. Len(prog) + 1
         /\ \A k \in 1 .. Len(prog) : prog[k] \in Instruction
         /\ \A k \in Captured(prog) :
              /\ k \in 1 .. Len(prog) /\ prog[k].to \in Int
              /\ k < Target(k) /\ Target(k) <= Len(prog)
<1>1. /\ SInv /\ prog \in Programs
      /\ NestedCaptures /\ ParserInv /\ SeenInv /\ MachineInv
  BY DEF CallsInv
<1>2. /\ Typed(prog, Expected[prog]) /\ Structured(prog, Expected[prog])
      /\ Supported(prog) => CalleesKnown(prog, Expected[prog])
  BY <1>1, CompilerAssumption
<1>3. Len(prog) \in Nat /\ \A k \in 1 .. Len(prog) : prog[k] \in Instruction
  BY <1>1 DEF SInv, TypeOK
<1>4. Expected[prog] \in [1 .. Len(prog) + 1 -> Seq(Value)]
  BY <1>2 DEF Typed
<1>5. ASSUME NEW k \in Captured(prog)
      PROVE  /\ k \in 1 .. Len(prog) /\ prog[k].to \in Int
             /\ k < Target(k) /\ Target(k) <= Len(prog)
  <2>1. k \in 1 .. Len(prog)
    BY <1>1 DEF SInv, TypeOK, Captured
  <2>2. prog[k].to \in Int
    BY <1>3, <2>1 DEF Instruction
  <2>3. prog[k].to > 0 /\ k + prog[k].to <= Len(prog)
    BY <1>2 DEF Structured, JumpsForward
  <2> QED
    BY <2>1, <2>2, <2>3 DEF Target
<1> QED
  BY <1>1, <1>2, <1>3, <1>4, <1>5 DEF Expect

\* At a target its own capture is the last one.
LEMMA OwnCapture ==
  ASSUME CallsInv, TargetsDiffer(prog), Parsing, IsTarget
  PROVE  /\ Len(stack_cap) \in Nat /\ Len(stack_cap) >= 1
         /\ stack_cap[Len(stack_cap)].target = at
<1>1. SInv /\ NestedCaptures
  BY Guarantees
<1> DEFINE n == Len(stack_cap)
<1>2. /\ n \in Nat /\ DOMAIN stack_cap = 1 .. n
      /\ \A i \in 1 .. n : stack_cap[i].target \in Int
      /\ at \in Int
  <2>1. stack_cap \in Seq(CaptureRecord) /\ at \in Int
    BY <1>1, InstrFacts DEF SInv, TypeOK, CaptureRecord
  <2>2. \A i \in 1 .. n : stack_cap[i] \in CaptureRecord
    BY <2>1
  <2> QED
    BY <2>1, <2>2 DEF CaptureRecord
<1>3. PICK i \in 1 .. n : stack_cap[i].target = at
  BY <1>1, <1>2 DEF NestedCaptures, IsTarget
<1> HIDE DEF n
<1>4. i = n
  <2> SUFFICES ASSUME i # n PROVE FALSE
    OBVIOUS
  <2>1. n \in 1 .. n /\ i < n
    BY <1>2
  <2>2. stack_cap[i].target > stack_cap[n].target /\ stack_cap[n].target >= at
    BY <1>1, <1>2, <2>1 DEF NestedCaptures
  <2> QED
    BY <1>2, <1>3, <2>1, <2>2
<1> QED
  BY <1>2, <1>3, <1>4 DEF n

\* So the stack an instruction is interpreted on is what it expects, and no jump that
\* captures is passed over.
LEMMA StackAtHand ==
  ASSUME CallsInv, TargetsDiffer(prog), Parsing
  PROVE  /\ at \in 1 .. Len(prog) /\ at + 1 \in 1 .. Len(prog) + 1
         /\ Instr = prog[at] /\ Instr \in Instruction
         /\ Stack \in Seq(Value)
         /\ Expect(at) \in Seq(Value) /\ Expect(at + 1) \in Seq(Value)
         /\ Covers(Stack, Expect(at))
         /\ IsTarget => at \notin Captured(prog)
         /\ LeavesNext(Instr, Expect(at), Expect(at + 1))
<1>1. SInv /\ NestedCaptures /\ ParserInv
  BY Guarantees
<1>2. /\ at \in 1 .. Len(prog) /\ at + 1 \in 1 .. Len(prog) + 1
      /\ Instr = prog[at] /\ Instr \in Instruction
  BY <1>1, InstrFacts DEF SInv, Instr
<1>3. Stack \in Seq(Value)
  BY <1>1, StackType
<1>4. Expect(at) \in Seq(Value) /\ Expect(at + 1) \in Seq(Value)
  BY <1>2, Guarantees
<1>5. Covers(Stack, Expect(at))
  <2>1. CASE ~IsTarget
    BY <1>1, <2>1 DEF ParserInv, Stack
  <2>2. CASE IsTarget
    <3>1. Stack = stack_cap[Len(stack_cap)].stack
      BY <2>2 DEF Stack, Last
    <3>2. /\ Len(stack_cap) \in DOMAIN stack_cap
          /\ stack_cap[Len(stack_cap)].target = at
      BY <1>1, <2>2, OwnCapture DEF SInv, TypeOK
    <3> QED
      BY <1>1, <3>1, <3>2 DEF NestedCaptures
  <2> QED
    BY <2>1, <2>2
<1>6. ASSUME IsTarget PROVE at \notin Captured(prog)
  <2>1. at \in Passed(prog)
    BY <1>1, <1>6 DEF NestedCaptures, IsTarget, Passed, Target
  <2>2. Captured(prog) \cap Passed(prog) = {}
    BY Guarantees DEF Structured
  <2> QED
    BY <2>1, <2>2
<1>7. LeavesNext(Instr, Expect(at), Expect(at + 1))
  <2>1. at \in DOMAIN prog
    BY <1>1, <1>2 DEF SInv, TypeOK
  <2>2. Typed(prog, Expected[prog])
    BY Guarantees
  <2> QED
    BY <1>2, <2>1, <2>2 DEF Typed, Expect
<1> QED
  BY <1>2, <1>3, <1>4, <1>5, <1>6, <1>7

\* What the parser has seen stays as expected when one more is added.
LEMMA SeenGrows ==
  ASSUME CallsInv, TargetsDiffer(prog), Parsing, Advance,
         seen' = Append(seen, Stack), called_objs \subseteq called_objs',
         Instr.op \in {"CALL_FUNCTION", "CALL_METHOD"} => Callee \in called_objs'
  PROVE  SeenInv'
<1>1. /\ seen \in Seq(Seq(Value)) /\ Len(seen) = at - 1
      /\ \A k \in 1 .. at - 1 :
           /\ Covers(seen[k], Expect(k))
           /\ prog[k].op \in {"CALL_FUNCTION", "CALL_METHOD"} =>
                seen[k][prog[k].n + 1] \in called_objs
  BY Guarantees DEF SeenInv
<1>2. /\ at \in 1 .. Len(prog) /\ Len(prog) \in Nat
      /\ Stack \in Seq(Value) /\ Covers(Stack, Expect(at)) /\ Instr = prog[at]
  BY StackAtHand, Guarantees
<1>3. prog' = prog /\ at' = at + 1
  BY DEF Advance
<1>4. /\ seen' \in Seq(Seq(Value)) /\ Len(seen') = at
      /\ \A k \in 1 .. at : seen'[k] = IF k <= at - 1 THEN seen[k] ELSE Stack
  <2>1. /\ seen' \in Seq(Seq(Value)) /\ Len(seen') = Len(seen) + 1
        /\ \A k \in 1 .. Len(seen) + 1 :
             seen'[k] = IF k <= Len(seen) THEN seen[k] ELSE Stack
    BY <1>1, <1>2, AppendProperties
  <2> QED
    BY <1>1, <1>2, <2>1
<1>5. \A t, u : Covers(t, u)' <=> Covers(t, u)
  BY <1>3 DEF Covers
<1>6. \A k : Expect(k)' = Expect(k)
  BY <1>3 DEF Expect
<1>7. ASSUME NEW k \in 1 .. at
      PROVE  /\ Covers(seen'[k], Expect(k))
             /\ prog[k].op \in {"CALL_FUNCTION", "CALL_METHOD"} =>
                  seen'[k][prog[k].n + 1] \in called_objs'
  <2>1. CASE k <= at - 1
    <3>1. k \in 1 .. at - 1 /\ seen'[k] = seen[k]
      BY <1>2, <1>4, <2>1
    <3> QED
      BY <1>1, <3>1
  <2>2. CASE k = at
    <3>1. seen'[k] = Stack
      BY <1>2, <1>4, <2>2
    <3> QED
      BY <1>2, <2>2, <3>1 DEF Callee
  <2>3. k <= at - 1 \/ k = at
    BY <1>2
  <2> QED
    BY <2>1, <2>2, <2>3
<1>8. at' - 1 = at
  BY <1>2, <1>3
<1> QED
  BY <1>3, <1>4, <1>5, <1>6, <1>7, <1>8 DEF SeenInv

\* While the parser runs, the interpreter has not begun.
LEMMA MachineWaits ==
  ASSUME CallsInv, TargetsDiffer(prog), Parsing, UNCHANGED machine
  PROVE  MachineInv'
<1>1. at <= Len(prog) /\ Len(prog) \in Nat /\ MachineInv
  BY Guarantees DEF Parsing
<1>2. ~Parsed
  BY <1>1 DEF Parsed
<1> QED
  BY <1>1, <1>2 DEF MachineInv, machine

\* An instruction that does not capture takes the stack from what is expected before
\* it to what is expected behind it, unless a target follows.
LEMMA PassingKeepsCalls ==
  ASSUME CallsInv, TargetsDiffer(prog), Parsing, Advance,
         NEW s \in Seq(Value), LOAD' = s,
         stack_cap' = Captures, branch_targets' = branch_targets,
         at \notin Captured(prog),
         Covers(s, Expect(at + 1)) \/ at + 1 \in Passed(prog)
  PROVE  NestedCaptures' /\ ParserInv'
<1>1. SInv /\ NestedCaptures /\ ParserInv
  BY Guarantees
<1>2. prog' = prog /\ at' = at + 1 /\ raised' = raised
  BY DEF Advance
<1>3. /\ \A t, u : Covers(t, u)' <=> Covers(t, u)
      /\ \A k : Expect(k)' = Expect(k)
      /\ Captured(prog)' = Captured(prog)
      /\ \A k : Target(k)' = Target(k)
  BY <1>2 DEF Covers, Expect, Captured, Target
<1>4. at \in 1 .. Len(prog) /\ Captured(prog) \subseteq Nat
  BY StackAtHand, Guarantees
<1>5. branch_targets' = {Target(k) : k \in {j \in Captured(prog) : j < at + 1}}
  <2>1. {j \in Captured(prog) : j < at + 1} = {j \in Captured(prog) : j < at}
    BY <1>4
  <2> QED
    BY <1>1, <2>1 DEF NestedCaptures
<1> DEFINE n == Len(stack_cap)
<1>6. /\ n \in Nat /\ DOMAIN stack_cap = 1 .. n
      /\ \A i \in 1 .. n : stack_cap[i].target \in branch_targets
      /\ branch_targets \subseteq Int
  BY <1>1 DEF SInv, TypeOK
<1>7. /\ DOMAIN stack_cap' = 1 .. (IF IsTarget THEN n - 1 ELSE n)
      /\ \A i \in DOMAIN stack_cap' : i \in 1 .. n /\ stack_cap'[i] = stack_cap[i]
  <2>1. CASE ~IsTarget
    BY <1>6, <2>1 DEF Captures
  <2>2. CASE IsTarget
    <3>1. n >= 1 /\ stack_cap' = SubSeq(stack_cap, 1, n - 1)
      BY <2>2, OwnCapture DEF Captures, Front
    <3>2. /\ Len(SubSeq(stack_cap, 1, n - 1)) = n - 1
          /\ \A i \in 1 .. n - 1 : SubSeq(stack_cap, 1, n - 1)[i] = stack_cap[i]
      BY <1>6, <3>1
    <3> HIDE DEF n
    <3> QED
      BY <1>6, <2>2, <3>1, <3>2
  <2> QED
    BY <2>1, <2>2
<1>8. \A i \in DOMAIN stack_cap' : stack_cap[i].target >= at + 1
  <2> SUFFICES ASSUME NEW i \in DOMAIN stack_cap' PROVE stack_cap[i].target >= at + 1
    OBVIOUS
  <2>1. i \in 1 .. n /\ stack_cap[i].target >= at /\ stack_cap[i].target \in Int
    BY <1>1, <1>6, <1>7 DEF NestedCaptures
  <2>2. stack_cap[i].target # at
    <3>1. CASE ~IsTarget
      BY <1>6, <2>1, <3>1 DEF IsTarget
    <3>2. CASE IsTarget
      <4>1. stack_cap[n].target = at /\ n \in 1 .. n /\ i < n
        BY <1>6, <1>7, <2>1, <3>2, OwnCapture
      <4>2. stack_cap[i].target > stack_cap[n].target
        BY <1>1, <1>6, <2>1, <4>1 DEF NestedCaptures
      <4> QED
        BY <1>4, <2>1, <4>1, <4>2
    <3> QED
      BY <3>1, <3>2
  <2> QED
    BY <1>4, <2>1, <2>2
<1>9. ASSUME NEW t \in branch_targets', t >= at + 1
      PROVE  \E i \in DOMAIN stack_cap' : stack_cap'[i].target = t
  <2>1. t >= at /\ t \in Int /\ t # at
    BY <1>4, <1>6, <1>9
  <2>2. PICK i \in 1 .. n : stack_cap[i].target = t
    BY <1>1, <1>6, <2>1 DEF NestedCaptures
  <2>3. i \in DOMAIN stack_cap'
    <3>1. CASE ~IsTarget
      BY <1>7, <3>1
    <3>2. CASE IsTarget
      <4>1. i # n
        BY <2>1, <2>2, <3>2, OwnCapture
      <4>2. n \in Nat /\ i \in 1 .. n
        BY <1>6
      <4> HIDE DEF n
      <4>3. i \in 1 .. n - 1
        BY <4>1, <4>2
      <4> QED
        BY <1>7, <3>2, <4>3
    <3> QED
      BY <3>1, <3>2
  <2> QED
    BY <1>7, <2>2, <2>3
<1> HIDE DEF n
<1>10. ASSUME NEW i \in DOMAIN stack_cap'
       PROVE  /\ stack_cap'[i].target >= at + 1
              /\ Covers(stack_cap'[i].stack, Expect(stack_cap'[i].target))
  BY <1>1, <1>6, <1>7, <1>8 DEF NestedCaptures
<1>11. \A i, j \in DOMAIN stack_cap' :
         i < j => stack_cap'[i].target > stack_cap'[j].target
  BY <1>1, <1>6, <1>7 DEF NestedCaptures
<1>12. NestedCaptures'
  BY <1>2, <1>3, <1>5, <1>9, <1>10, <1>11 DEF NestedCaptures
<1>13. IsTarget' \/ Covers(LOAD, Expect(at))'
  <2>1. CASE Covers(s, Expect(at + 1))
    BY <1>2, <1>3, <2>1 DEF Expect, Covers
  <2>2. CASE at + 1 \in Passed(prog)
    <3>1. PICK k \in Captured(prog) : at + 1 = Target(k)
      BY <2>2 DEF Passed, Target
    <3>2. k < at + 1
      BY <3>1, Guarantees
    <3> QED
      BY <1>2, <1>5, <3>1, <3>2 DEF IsTarget
  <2> QED
    BY <2>1, <2>2
<1> QED
  BY <1>1, <1>2, <1>12, <1>13 DEF ParserInv

\* A conditional jump adds a capture with the stack expected at its target, which is
\* not beyond the target of any condition around it.
LEMMA BranchingKeepsCalls ==
  ASSUME CallsInv, TargetsDiffer(prog), Parsing, ~IsTarget, at \in Captured(prog),
         NEW s \in Seq(Value), NEW c \in Seq(Value), Branches(s, c),
         Covers(s, Expect(at + 1)), Covers(c, Expect(Target(at)))
  PROVE  NestedCaptures' /\ ParserInv'
<1>1. SInv /\ NestedCaptures /\ ParserInv
  BY Guarantees
<1>2. /\ prog' = prog /\ at' = at + 1 /\ raised' = raised /\ LOAD' = s
      /\ stack_cap' = Append(stack_cap, Capture(c))
      /\ branch_targets' = branch_targets \cup {Target(at)}
  BY DEF Branches, Advance
<1>3. /\ \A t, u : Covers(t, u)' <=> Covers(t, u)
      /\ \A k : Expect(k)' = Expect(k)
      /\ Captured(prog)' = Captured(prog)
      /\ \A k : Target(k)' = Target(k)
  BY <1>2 DEF Covers, Expect, Captured, Target
<1>4. /\ at \in 1 .. Len(prog) /\ Captured(prog) \subseteq Nat
      /\ Target(at) \in Int /\ Target(at) >= at + 1
  BY StackAtHand, Guarantees, InstrFacts DEF SInv
<1>5. branch_targets' = {Target(k) : k \in {j \in Captured(prog) : j < at + 1}}
  <2>1. {j \in Captured(prog) : j < at + 1} = {j \in Captured(prog) : j < at} \cup {at}
    BY <1>4
  <2> QED
    BY <1>1, <1>2, <2>1 DEF NestedCaptures
<1> DEFINE n == Len(stack_cap)
<1>6. /\ n \in Nat /\ DOMAIN stack_cap = 1 .. n
      /\ \A i \in 1 .. n : stack_cap[i].target \in branch_targets
      /\ branch_targets \subseteq Int
  BY <1>1 DEF SInv, TypeOK
<1>7. /\ DOMAIN stack_cap' = 1 .. n + 1
      /\ \A i \in 1 .. n : stack_cap'[i] = stack_cap[i]
      /\ stack_cap'[n + 1].stack = c /\ stack_cap'[n + 1].target = Target(at)
  <2>1. stack_cap \in Seq(CaptureRecord) /\ Capture(c) \in CaptureRecord
    BY <1>1, <1>4 DEF SInv, TypeOK, Capture, CaptureRecord
  <2>2. /\ Len(stack_cap') = n + 1 /\ stack_cap' \in Seq(CaptureRecord)
        /\ \A i \in 1 .. n + 1 :
             stack_cap'[i] = IF i <= n THEN stack_cap[i] ELSE Capture(c)
    BY <1>2, <2>1, AppendProperties
  <2>3. Capture(c).stack = c /\ Capture(c).target = Target(at)
    BY DEF Capture
  <2>4. stack_cap'[n + 1] = Capture(c)
    <3> HIDE DEF n
    <3> QED
      BY <1>6, <2>2
  <2>5. DOMAIN stack_cap' = 1 .. n + 1 /\ \A i \in 1 .. n : stack_cap'[i] = stack_cap[i]
    <3>1. DOMAIN stack_cap' = 1 .. Len(stack_cap')
      BY <2>2
    <3> HIDE DEF n
    <3> QED
      BY <1>6, <2>2, <3>1
  <2> QED
    BY <2>3, <2>4, <2>5
<1>8. ASSUME NEW i \in 1 .. n
      PROVE  stack_cap[i].target >= at + 1 /\ stack_cap[i].target > Target(at)
  <2>1. /\ stack_cap[i].target >= at /\ stack_cap[i].target \in branch_targets
        /\ stack_cap[i].target \in Int
    BY <1>1, <1>6 DEF NestedCaptures
  <2>2. stack_cap[i].target # at
    BY <2>1 DEF IsTarget
  <2>3. PICK k \in Captured(prog) : k < at /\ stack_cap[i].target = Target(k)
    BY <1>1, <2>1 DEF NestedCaptures
  <2>4. k < at /\ at < Target(k) /\ Target(k) \in Int
    BY <1>4, <2>1, <2>2, <2>3
  <2>5. Target(at) <= Target(k)
    <3>1. Structured(prog, Expected[prog])
      BY Guarantees
    <3> QED
      BY <2>3, <2>4, <3>1 DEF Structured, Target
  <2>6. Target(at) # Target(k)
    <3>1. k # at
      BY <1>4, <2>4
    <3> QED
      BY <2>3, <3>1 DEF TargetsDiffer, Target
  <2> QED
    BY <1>4, <2>1, <2>3, <2>4, <2>5, <2>6
<1>9. ASSUME NEW t \in branch_targets', t >= at + 1
      PROVE  \E i \in DOMAIN stack_cap' : stack_cap'[i].target = t
  <2>1. CASE t = Target(at)
    <3>1. n + 1 \in DOMAIN stack_cap'
      BY <1>6, <1>7
    <3> QED
      BY <1>7, <2>1, <3>1
  <2>2. CASE t \in branch_targets
    <3>1. t >= at
      BY <1>4, <1>6, <1>9, <2>2
    <3>2. PICK i \in 1 .. n : stack_cap[i].target = t
      BY <1>1, <1>6, <2>2, <3>1 DEF NestedCaptures
    <3>3. i \in DOMAIN stack_cap'
      <4>1. n \in Nat /\ DOMAIN stack_cap' = 1 .. n + 1
        BY <1>6, <1>7
      <4> HIDE DEF n
      <4> QED
        BY <4>1
    <3> QED
      BY <1>7, <3>2, <3>3
  <2> QED
    BY <1>2, <2>1, <2>2
<1>10. /\ n \in Nat /\ DOMAIN stack_cap' = 1 .. n + 1
       /\ \A i \in 1 .. n : stack_cap'[i] = stack_cap[i]
       /\ stack_cap'[n + 1].stack = c /\ stack_cap'[n + 1].target = Target(at)
       /\ \A i \in 1 .. n : Covers(stack_cap[i].stack, Expect(stack_cap[i].target))
       /\ \A i, j \in 1 .. n : i < j => stack_cap[i].target > stack_cap[j].target
  BY <1>1, <1>6, <1>7 DEF NestedCaptures
<1> HIDE DEF n
<1>11. ASSUME NEW i \in DOMAIN stack_cap'
       PROVE  /\ stack_cap'[i].target >= at + 1
              /\ Covers(stack_cap'[i].stack, Expect(stack_cap'[i].target))
  <2>1. CASE i \in 1 .. n
    BY <1>8, <1>10, <2>1
  <2>2. CASE i = n + 1
    BY <1>4, <1>10, <2>2
  <2> QED
    BY <1>10, <2>1, <2>2
<1>12. ASSUME NEW i \in DOMAIN stack_cap', NEW j \in DOMAIN stack_cap', i < j
       PROVE  stack_cap'[i].target > stack_cap'[j].target
  <2>1. i \in 1 .. n
    BY <1>10, <1>12
  <2>2. CASE j \in 1 .. n
    BY <1>10, <1>12, <2>1, <2>2
  <2>3. CASE j = n + 1
    BY <1>8, <1>10, <2>1, <2>3
  <2> QED
    BY <1>10, <2>2, <2>3
<1>13. NestedCaptures'
  BY <1>2, <1>3, <1>5, <1>9, <1>11, <1>12 DEF NestedCaptures
<1>14. Covers(LOAD, Expect(at))'
  BY <1>2, <1>3 DEF Expect, Covers
<1> QED
  BY <1>1, <1>2, <1>13, <1>14 DEF ParserInv

\* The parser never needs more of its stack than there is.
LEMMA NothingRaises ==
  ASSUME CallsInv, TargetsDiffer(prog), Raises
  PROVE  FALSE
<1> DEFINE t == Expect(at)
<1>1. Parsing
  BY DEF Raises
<1>2. /\ Stack \in Seq(Value) /\ t \in Seq(Value) /\ Instr \in Instruction
      /\ Covers(Stack, t) /\ LeavesNext(Instr, t, Expect(at + 1))
  BY <1>1, StackAtHand
<1>3. Len(Stack) >= Len(t) /\ Len(Stack) \in Nat /\ Len(t) \in Nat /\ Instr.n \in Nat
  BY <1>2 DEF Covers, Instruction
<1>4. CASE Instr.op = "LOAD_ATTR" /\ Stack = << >>
  <2>1. t # << >>
    BY <1>2, <1>4 DEF LeavesNext
  <2> QED
    BY <1>2, <1>4, <2>1, CoversTail
<1>5. CASE Instr.op \in Combines /\ Len(Stack) < 2
  <2>1. Len(t) >= 2
    BY <1>2, <1>5 DEF LeavesNext
  <2> QED
    BY <1>3, <1>5, <2>1
<1>6. CASE Instr.op \in {"CALL_FUNCTION", "CALL_METHOD"} /\ Len(Stack) <= Instr.n
  <2>1. Len(t) > Instr.n
    BY <1>2, <1>6 DEF LeavesNext
  <2> QED
    BY <1>3, <1>6, <2>1
<1> QED
  BY <1>4, <1>5, <1>6 DEF Raises

\* An instruction the parser does not interpret leaves the stack no less deep than it
\* should be.
LEMMA PassedOver ==
  ASSUME CallsInv, TargetsDiffer(prog), NoEffect
  PROVE  /\ at \notin Captured(prog)
         /\ Covers(Stack, Expect(at + 1)) \/ at + 1 \in Passed(prog)
<1> DEFINE t    == Expect(at)
           next == Expect(at + 1)
<1>1. Parsing
  BY DEF NoEffect
<1>2. /\ at \in 1 .. Len(prog) /\ Instr = prog[at]
      /\ Stack \in Seq(Value) /\ t \in Seq(Value) /\ next \in Seq(Value)
      /\ Covers(Stack, t) /\ LeavesNext(Instr, t, next)
      /\ IsTarget => at \notin Captured(prog)
  BY <1>1, StackAtHand
<1>3. at \in DOMAIN prog
  BY <1>2, Guarantees DEF SInv, TypeOK
<1> HIDE DEF t, next
<1>4. Instr.op \in Unhandled \cup {"JUMP_FORWARD"} /\ at \notin Captured(prog)
  BY <1>2, <1>3 DEF NoEffect, Captured, Jumps, Unhandled
<1>5. Len(Stack) >= Len(t) /\ Len(Stack) \in Nat /\ Len(t) \in Nat /\ Len(next) \in Nat
  BY <1>2 DEF Covers
<1>6. CASE Instr.op \in Unhandled
  <2>1. ~Supported(prog)
    BY <1>2, <1>3, <1>6 DEF Supported
  <2>2. CASE Instr.op \in {"POP_JUMP_IF_TRUE", "JUMP_IF_TRUE_OR_POP"}
    <3>1. t # << >> /\ Fits(Tail(t), next)
      BY <1>2, <2>2 DEF LeavesNext, Jumps
    <3>2. Len(next) = Len(t) - 1
      BY <1>2, <3>1, TailFacts DEF Fits
    <3> QED
      BY <1>4, <1>5, <2>1, <3>2 DEF Covers, next
  <2>3. CASE Instr.op = "CONTAINS_OP"
    <3>1. Len(t) >= 2 /\ Fits(Push(<<Result>>, Drop(2, t)), next)
      BY <1>2, <2>3 DEF LeavesNext
    <3>2. Drop(2, t) \in Seq(Value) /\ Len(Drop(2, t)) = Len(t) - 2
      BY <1>2, <3>1, DropFacts
    <3>3. Len(next) = Len(t) - 1
      <4>1. Len(Push(<<Result>>, Drop(2, t))) = Len(t) - 2 + 1
        BY <3>2, PushFacts, ValueFacts
      <4> QED
        BY <1>5, <3>1, <4>1 DEF Fits
    <3> QED
      BY <1>4, <1>5, <2>1, <3>3 DEF Covers, next
  <2> QED
    BY <1>6, <2>2, <2>3 DEF Unhandled
<1>7. CASE Instr.op = "JUMP_FORWARD"
  <2>1. \/ at + 1 \in Passed(prog)
        \/ ~Supported(prog) /\ Len(next) <= Len(t)
    BY <1>2, <1>3, <1>7, Guarantees DEF Structured, Expect, t, next
  <2> QED
    BY <1>4, <1>5, <2>1 DEF Covers, next
<1> QED
  BY <1>4, <1>6, <1>7 DEF next

\* Every instruction but a conditional jump, interpreted on a stack that covers what is
\* expected, leaves one that covers what is expected next.
LEMMA InterpretedWell ==
  ASSUME CallsInv, TargetsDiffer(prog), Parsing
  PROVE  /\ Load => Covers(Push(<<Instr.name>>, Stack), Expect(at + 1))
         /\ LoadAttr => Covers(Push(Append(Head(Stack), Instr.name), Tail(Stack)), Expect(at + 1))
         /\ Discard => Covers(Pop(Stack), Expect(at + 1))
         /\ pop2_push1 => Covers(Push(<<Result>>, Drop(2, Stack)), Expect(at + 1))
         /\ Call => Covers(Push(<<Result>>, Drop(Instr.n + 1, Stack)), Expect(at + 1))
<1> DEFINE t    == Expect(at)
           next == Expect(at + 1)
<1>1. /\ Stack \in Seq(Value) /\ t \in Seq(Value) /\ next \in Seq(Value)
      /\ Instr.name \in Name /\ Instr.n \in Nat
      /\ Covers(Stack, t) /\ LeavesNext(Instr, t, next)
  BY StackAtHand DEF Instruction
<1>2. ASSUME NEW v \in Value, NEW w \in Value, Supported(prog) => w \in {Varies, v},
             NEW s \in Seq(Value), NEW u \in Seq(Value), Covers(s, u),
             Fits(Push(w, u), next)
      PROVE  Covers(Push(v, s), next)
  <2>1. Push(v, s) \in Seq(Value) /\ Push(w, u) \in Seq(Value)
    BY PushFacts
  <2>2. Covers(Push(v, s), Push(w, u))
    BY <1>2, CoversPush
  <2> QED
    BY <1>1, <1>2, <2>1, <2>2, CoversLater
<1>3. ASSUME Load PROVE Covers(Push(<<Instr.name>>, Stack), next)
  <2>1. Fits(Push(<<Instr.name>>, t), next) /\ <<Instr.name>> \in Value
    BY <1>1, <1>3, ValueFacts DEF Load, LeavesNext
  <2> QED
    BY <1>1, <1>2, <2>1
<1>4. ASSUME LoadAttr
      PROVE  Covers(Push(Append(Head(Stack), Instr.name), Tail(Stack)), next)
  <2>1. t # << >> /\ Fits(Push(Attribute(Head(t), Instr.name), Tail(t)), next)
    BY <1>1, <1>4 DEF LoadAttr, LeavesNext
  <2>2. /\ Stack # << >> /\ Covers(Tail(Stack), Tail(t))
        /\ Supported(prog) => Head(t) \in {Varies, Head(Stack)}
    BY <1>1, <2>1, CoversTail
  <2>3. /\ Tail(Stack) \in Seq(Value) /\ Tail(t) \in Seq(Value)
        /\ Head(Stack) \in Value /\ Head(t) \in Value
    BY <1>1, <2>1, <2>2, TailFacts
  <2>4. Append(Head(Stack), Instr.name) \in Value
    BY <1>1, <2>3, ValueFacts
  <2>5. Attribute(Head(t), Instr.name) \in Value
    BY <1>1, <2>3, ValueFacts DEF Attribute, Varies
  <2>6. Supported(prog) => Attribute(Head(t), Instr.name)
                             \in {Varies, Append(Head(Stack), Instr.name)}
    BY <2>2 DEF Attribute
  <2> QED
    BY <1>2, <2>1, <2>2, <2>3, <2>4, <2>5, <2>6
<1>5. ASSUME Discard PROVE Covers(Pop(Stack), next)
  <2>1. t # << >> /\ Fits(Tail(t), next)
    BY <1>1, <1>5 DEF Discard, LeavesNext
  <2>2. Stack # << >> /\ Covers(Tail(Stack), Tail(t))
    BY <1>1, <2>1, CoversTail
  <2>3. Tail(Stack) \in Seq(Value) /\ Tail(t) \in Seq(Value) /\ Pop(Stack) = Tail(Stack)
    BY <1>1, <2>1, <2>2, TailFacts DEF Pop
  <2> QED
    BY <1>1, <2>1, <2>2, <2>3, CoversLater
<1>6. ASSUME NEW k \in Nat, k <= Len(t), Fits(Push(<<Result>>, Drop(k, t)), next)
      PROVE  Covers(Push(<<Result>>, Drop(k, Stack)), next)
  <2>1. Covers(Drop(k, Stack), Drop(k, t)) /\ k <= Len(Stack)
    BY <1>1, <1>6, CoversDrop
  <2>2. Drop(k, Stack) \in Seq(Value) /\ Drop(k, t) \in Seq(Value)
    BY <1>1, <1>6, <2>1, DropFacts
  <2> QED
    BY <1>2, <1>6, <2>1, <2>2, ValueFacts
<1>7. ASSUME pop2_push1 PROVE Covers(Push(<<Result>>, Drop(2, Stack)), next)
  <2>1. Len(t) >= 2 /\ Fits(Push(<<Result>>, Drop(2, t)), next)
    BY <1>1, <1>7 DEF pop2_push1, LeavesNext
  <2> QED
    BY <1>6, <2>1
<1>8. ASSUME Call PROVE Covers(Push(<<Result>>, Drop(Instr.n + 1, Stack)), next)
  <2>1. Len(t) > Instr.n /\ Fits(Push(<<Result>>, Drop(Instr.n + 1, t)), next)
    BY <1>1, <1>8 DEF Call, LeavesNext
  <2>2. Instr.n + 1 \in Nat /\ Instr.n + 1 <= Len(t)
    BY <1>1, <2>1
  <2> QED
    BY <1>6, <2>1, <2>2
<1> QED
  BY <1>3, <1>4, <1>5, <1>7, <1>8

\* Every step of the parser keeps the four parts of the invariant.
LEMMA ParseKeepsCalls ==
  ASSUME CallsInv, TargetsDiffer(prog), Parse
  PROVE  NestedCaptures' /\ ParserInv' /\ SeenInv' /\ MachineInv'
<1>1. parse_def /\ seen' = Append(seen, Stack) /\ UNCHANGED machine /\ ~Raises
  BY NothingRaises DEF Parse
<1>2. Parsing
  BY <1>1 DEF parse_def, POP_JUMP_IF_FALSE, JUMP_IF_FALSE_OR_POP, NoEffect, Load, LoadAttr,
              Discard, pop2_push1, Call
<1>3. /\ SInv /\ Stack \in Seq(Value) /\ Instr = prog[at] /\ Instr \in Instruction
      /\ at \in DOMAIN prog /\ Covers(Stack, Expect(at))
      /\ Expect(at) \in Seq(Value) /\ Expect(at + 1) \in Seq(Value)
      /\ LeavesNext(Instr, Expect(at), Expect(at + 1))
  BY <1>2, StackAtHand, Guarantees DEF SInv, TypeOK
<1>4. ASSUME NEW s \in Seq(Value), Becomes(s),
             ~(Instr.op \in {"CALL_FUNCTION", "CALL_METHOD"}),
             at \notin Captured(prog),
             Covers(s, Expect(at + 1)) \/ at + 1 \in Passed(prog)
      PROVE  NestedCaptures' /\ ParserInv' /\ SeenInv' /\ MachineInv'
  <2>1. NestedCaptures' /\ ParserInv'
    BY <1>2, <1>4, PassingKeepsCalls DEF Becomes
  <2>2. SeenInv' /\ MachineInv'
    BY <1>1, <1>2, <1>4, SeenGrows, MachineWaits DEF Becomes
  <2> QED
    BY <2>1, <2>2
<1>5. ASSUME NEW s \in Seq(Value), NEW c \in Seq(Value), Branches(s, c), ~IsTarget,
             Instr.op \in {"POP_JUMP_IF_FALSE", "JUMP_IF_FALSE_OR_POP"},
             Covers(s, Expect(at + 1)), Covers(c, Expect(Target(at)))
      PROVE  NestedCaptures' /\ ParserInv' /\ SeenInv' /\ MachineInv'
  <2>1. at \in Captured(prog)
    BY <1>3, <1>5 DEF Captured
  <2>2. NestedCaptures' /\ ParserInv'
    BY <1>2, <1>5, <2>1, BranchingKeepsCalls
  <2>3. SeenInv' /\ MachineInv'
    BY <1>1, <1>2, <1>5, SeenGrows, MachineWaits DEF Branches
  <2> QED
    BY <2>2, <2>3
<1>6. CASE NoEffect
  <2>1. Becomes(Stack) /\ ~(Instr.op \in {"CALL_FUNCTION", "CALL_METHOD"})
    BY <1>6 DEF NoEffect, Unhandled, Jumps
  <2> QED
    BY <1>3, <1>4, <1>6, <2>1, PassedOver
<1>7. CASE Load \/ LoadAttr \/ Discard \/ pop2_push1
  <2>1. /\ ~(Instr.op \in {"CALL_FUNCTION", "CALL_METHOD"})
        /\ at \notin Captured(prog)
    BY <1>3, <1>7 DEF Load, LoadAttr, Discard, pop2_push1, Captured, Discards, Combines
  <2>2. PICK s \in Seq(Value) : Becomes(s) /\ Covers(s, Expect(at + 1))
    <3>1. Instr.name \in Name
      BY <1>3 DEF Instruction
    <3>2. CASE Load
      <4>1. Push(<<Instr.name>>, Stack) \in Seq(Value)
        BY <1>3, <3>1, PushFacts, ValueFacts
      <4> QED
        BY <1>2, <3>2, <4>1, InterpretedWell DEF Load
    <3>3. CASE LoadAttr
      <4>1. /\ Head(Stack) \in Value /\ Tail(Stack) \in Seq(Value)
        BY <1>3, <3>3, TailFacts DEF LoadAttr
      <4>2. Push(Append(Head(Stack), Instr.name), Tail(Stack)) \in Seq(Value)
        BY <3>1, <4>1, PushFacts, ValueFacts
      <4> QED
        BY <1>2, <3>3, <4>2, InterpretedWell DEF LoadAttr
    <3>4. CASE Discard
      BY <1>2, <1>3, <3>4, StackOperations, InterpretedWell DEF Discard
    <3>5. CASE pop2_push1
      <4>1. Push(<<Result>>, Drop(2, Stack)) \in Seq(Value)
        BY <1>3, StackOperations, ValueFacts
      <4> QED
        BY <1>2, <3>5, <4>1, InterpretedWell DEF pop2_push1
    <3> QED
      BY <1>7, <3>2, <3>3, <3>4, <3>5
  <2> QED
    BY <1>4, <2>1, <2>2
<1>8. CASE Call
  <2> DEFINE s == Push(<<Result>>, Drop(Instr.n + 1, Stack))
  <2>1. /\ LOAD' = s /\ stack_cap' = Captures /\ Advance
        /\ branch_targets' = branch_targets /\ called_objs' = called_objs \cup {Callee}
        /\ Instr.op \in {"CALL_FUNCTION", "CALL_METHOD"}
    BY <1>8 DEF Call
  <2>2. s \in Seq(Value)
    <3>1. Instr.n + 1 \in Nat
      BY <1>3 DEF Instruction
    <3> QED
      BY <1>3, <3>1, StackOperations, ValueFacts
  <2>3. Covers(s, Expect(at + 1))
    BY <1>2, <1>8, InterpretedWell
  <2>4. at \notin Captured(prog)
    BY <1>3, <2>1 DEF Captured
  <2> HIDE DEF s
  <2>5. NestedCaptures' /\ ParserInv'
    BY <1>2, <2>1, <2>2, <2>3, <2>4, PassingKeepsCalls
  <2>6. SeenInv' /\ MachineInv'
    BY <1>1, <1>2, <2>1, SeenGrows, MachineWaits
  <2> QED
    BY <2>5, <2>6
<1>9. ASSUME POP_JUMP_IF_FALSE \/ JUMP_IF_FALSE_OR_POP
      PROVE  NestedCaptures' /\ ParserInv' /\ SeenInv' /\ MachineInv'
  <2> DEFINE t == Expect(at)
  <2>1. /\ Instr.op \in {"POP_JUMP_IF_FALSE", "JUMP_IF_FALSE_OR_POP"}
        /\ ~IsTarget /\ Stack = LOAD
    BY <1>9 DEF POP_JUMP_IF_FALSE, JUMP_IF_FALSE_OR_POP, Stack
  <2>2. t # << >> /\ Fits(Tail(t), Expect(at + 1))
    BY <1>3, <2>1 DEF LeavesNext, Jumps
  <2>3. Expect(Target(at)) \in Seq(Value) /\ LeavesAtTarget(Instr, t, Expect(Target(at)))
    <3>1. Typed(prog, Expected[prog]) /\ Instr.op \in Jumps
      BY <2>1, Guarantees DEF Jumps
    <3> QED
      BY <1>3, <3>1, Guarantees DEF Typed, Expect, Target
  <2>4. /\ Pop(LOAD) = Tail(LOAD) /\ Tail(LOAD) \in Seq(Value) /\ Tail(t) \in Seq(Value)
        /\ Covers(Tail(LOAD), Tail(t))
    BY <1>3, <2>1, <2>2, CoversTail, TailFacts DEF Pop
  <2>5. Covers(Pop(LOAD), Expect(at + 1))
    BY <1>3, <2>2, <2>4, CoversLater
  <2>6. CASE POP_JUMP_IF_FALSE
    <3>1. Fits(Tail(t), Expect(Target(at)))
      BY <2>3, <2>6 DEF POP_JUMP_IF_FALSE, LeavesAtTarget
    <3>2. Covers(Pop(LOAD), Expect(Target(at)))
      BY <2>3, <2>4, <3>1, CoversLater
    <3> QED
      BY <1>5, <2>1, <2>4, <2>5, <2>6, <3>2 DEF POP_JUMP_IF_FALSE
  <2>7. CASE JUMP_IF_FALSE_OR_POP
    <3>1. Fits(t, Expect(Target(at)))
      BY <2>3, <2>7 DEF JUMP_IF_FALSE_OR_POP, LeavesAtTarget
    <3>2. Covers(LOAD, Expect(Target(at)))
      BY <1>3, <2>1, <2>3, <3>1, CoversLater
    <3> QED
      BY <1>3, <1>5, <2>1, <2>4, <2>5, <2>7, <3>2 DEF JUMP_IF_FALSE_OR_POP
  <2> QED
    BY <1>9, <2>6, <2>7
<1> QED
  BY <1>1, <1>6, <1>7, <1>8, <1>9 DEF parse_def

\* A step of the interpreter finds the operands it needs, and leaves what the compiler
\* expects where it goes on.
LEMMA ExecuteKeepsCalls ==
  ASSUME CallsInv, TargetsDiffer(prog), Execute
  PROVE  MachineInv'
<1> DEFINE t == Expect(pc)
<1>1. /\ Running /\ prog' = prog /\ at' = at /\ raised' = raised
      /\ Evaluate \/ Jump
  BY DEF Execute, vars
<1>2. /\ stack \in Seq(Value) /\ Parsed /\ Fits(stack, t)
      /\ pc \in 1 .. Len(prog) /\ Len(prog) \in Nat
  <2>1. pc # 0 /\ pc \in 1 .. Len(prog) /\ Len(prog) \in Nat
    BY <1>1, Guarantees DEF Running
  <2> QED
    BY <2>1, Guarantees DEF MachineInv
<1>3. /\ Executed \in Instruction /\ Executed = prog[pc]
      /\ Executed.name \in Name /\ Executed.n \in Nat
      /\ t \in Seq(Value)
  BY <1>2, Guarantees DEF Executed, Instruction
<1>4. /\ LeavesNext(Executed, t, Expect(pc + 1))
      /\ Executed.op \in Jumps =>
           /\ Target(pc) \in 1 .. Len(prog) + 1
           /\ LeavesAtTarget(Executed, t, Expect(Target(pc)))
  <2>1. pc \in DOMAIN prog
    BY <1>2, Guarantees DEF SInv, TypeOK
  <2>2. Typed(prog, Expected[prog]) /\ DOMAIN Expected[prog] = 1 .. Len(prog) + 1
    BY Guarantees
  <2> QED
    BY <1>3, <2>1, <2>2 DEF Typed, Expect, Target
<1>5. ASSUME NEW s \in Seq(Value), NEW k \in 1 .. Len(prog) + 1, Fits(s, Expect(k)),
             pc' = k, stack' = s
      PROVE  MachineInv'
  <2>1. Parsed' /\ Expect(k)' = Expect(k)
    BY <1>1, <1>2 DEF Parsed, Expect
  <2>2. Fits(stack, Expect(pc))'
    BY <1>1, <1>5 DEF Expect
  <2> QED
    BY <1>1, <1>5, <2>1, <2>2 DEF MachineInv
<1>6. pc + 1 \in 1 .. Len(prog) + 1 /\ Expect(pc + 1) \in Seq(Value)
  <2>1. pc + 1 \in 1 .. Len(prog) + 1
    BY <1>2
  <2> QED
    BY <2>1, Guarantees
<1>7. ASSUME NEW v \in Value, NEW w \in Value, w \in {Varies, v},
             NEW s \in Seq(Value), NEW u \in Seq(Value), Fits(s, u),
             Fits(Push(w, u), Expect(pc + 1)), Continue(Push(v, s))
      PROVE  MachineInv'
  <2>1. Push(v, s) \in Seq(Value) /\ Push(w, u) \in Seq(Value)
    BY PushFacts
  <2>2. Fits(Push(v, s), Expect(pc + 1))
    BY <1>6, <1>7, <2>1, FitsPush, FitsTrans
  <2> QED
    BY <1>5, <1>6, <1>7, <2>1, <2>2 DEF Continue
<1>8. ASSUME t # << >>
      PROVE  /\ stack # << >> /\ Fits(Tail(stack), Tail(t))
             /\ Head(t) \in {Varies, Head(stack)}
             /\ Tail(stack) \in Seq(Value) /\ Tail(t) \in Seq(Value)
             /\ Head(stack) \in Value /\ Head(t) \in Value
  BY <1>2, <1>3, <1>8, FitsTail, TailFacts
<1>9. ASSUME t # << >>, Fits(Tail(t), Expect(pc + 1)), Continue(Tail(stack))
      PROVE  MachineInv'
  <2>1. Fits(Tail(stack), Expect(pc + 1)) /\ Tail(stack) \in Seq(Value)
    BY <1>6, <1>8, <1>9, FitsTrans
  <2> QED
    BY <1>5, <1>6, <1>9, <2>1 DEF Continue
<1>10. ASSUME NEW k \in Nat, k <= Len(t), Fits(Push(<<Result>>, Drop(k, t)), Expect(pc + 1)),
              Continue(Push(<<Result>>, Drop(k, stack)))
       PROVE  MachineInv'
  <2>1. k <= Len(stack)
    BY <1>2, <1>10 DEF Fits
  <2>2. Drop(k, stack) \in Seq(Value) /\ Drop(k, t) \in Seq(Value)
    BY <1>2, <1>3, <1>10, <2>1, DropFacts
  <2>3. Fits(Drop(k, stack), Drop(k, t))
    BY <1>2, <1>3, <1>10, FitsDrop
  <2> QED
    BY <1>7, <1>10, <2>2, <2>3, ValueFacts
<1>11. CASE Evaluate
  <2>1. CASE Executed.op = "LOAD_FAST" /\ Continue(Push(<<Executed.name>>, stack))
    <3>1. Fits(Push(<<Executed.name>>, t), Expect(pc + 1)) /\ <<Executed.name>> \in Value
      BY <1>3, <1>4, <2>1, ValueFacts DEF LeavesNext
    <3> QED
      BY <1>2, <1>3, <1>7, <2>1, <3>1
  <2>2. CASE /\ Executed.op = "LOAD_ATTR"
             /\ Continue(Push(Append(Head(stack), Executed.name), Tail(stack)))
    <3>1. t # << >> /\ Fits(Push(Attribute(Head(t), Executed.name), Tail(t)), Expect(pc + 1))
      BY <1>4, <2>2 DEF LeavesNext
    <3>2. /\ Append(Head(stack), Executed.name) \in Value
          /\ Attribute(Head(t), Executed.name) \in Value
          /\ Attribute(Head(t), Executed.name) \in {Varies, Append(Head(stack), Executed.name)}
      BY <1>3, <1>8, <3>1, ValueFacts DEF Attribute, Varies
    <3> QED
      BY <1>7, <1>8, <2>2, <3>1, <3>2
  <2>3. CASE Executed.op \in Discards /\ Continue(Tail(stack))
    <3>1. t # << >> /\ Fits(Tail(t), Expect(pc + 1))
      BY <1>4, <2>3 DEF LeavesNext
    <3> QED
      BY <1>9, <2>3, <3>1
  <2>4. CASE /\ Executed.op \in Combines \cup {"CONTAINS_OP"}
             /\ Continue(Push(<<Result>>, Drop(2, stack)))
    <3>1. Len(t) >= 2 /\ Fits(Push(<<Result>>, Drop(2, t)), Expect(pc + 1))
      BY <1>4, <2>4 DEF LeavesNext
    <3> QED
      BY <1>10, <2>4, <3>1
  <2>5. CASE /\ Executed.op \in {"CALL_FUNCTION", "CALL_METHOD"}
             /\ Continue(Push(<<Result>>, Drop(Executed.n + 1, stack)))
    <3>1. Len(t) > Executed.n /\ Fits(Push(<<Result>>, Drop(Executed.n + 1, t)), Expect(pc + 1))
      BY <1>4, <2>5 DEF LeavesNext
    <3>2. Executed.n + 1 \in Nat /\ Executed.n + 1 <= Len(t)
      BY <1>3, <3>1
    <3> QED
      BY <1>10, <2>5, <3>1, <3>2
  <2> QED
    BY <1>11, <2>1, <2>2, <2>3, <2>4, <2>5 DEF Evaluate
<1>12. CASE Jump
  <2>1. Executed.op \in Jumps
    BY <1>12 DEF Jump, Jumps
  <2>2. /\ Target(pc) \in 1 .. Len(prog) + 1 /\ Expect(Target(pc)) \in Seq(Value)
        /\ LeavesAtTarget(Executed, t, Expect(Target(pc)))
    BY <1>4, <2>1, Guarantees
  <2>3. ASSUME Executed.op # "JUMP_FORWARD"
        PROVE  t # << >> /\ Fits(Tail(t), Expect(pc + 1))
    BY <1>4, <2>1, <2>3 DEF LeavesNext
  <2>4. ASSUME Executed.op # "JUMP_FORWARD", Continue(Tail(stack))
        PROVE  MachineInv'
    BY <1>9, <2>3, <2>4
  <2>5. ASSUME Executed.op \in {"POP_JUMP_IF_FALSE", "POP_JUMP_IF_TRUE"}, JumpTo(Tail(stack))
        PROVE  MachineInv'
    <3>1. t # << >> /\ Fits(Tail(t), Expect(Target(pc)))
      BY <2>2, <2>3, <2>5 DEF LeavesAtTarget
    <3>2. Fits(Tail(stack), Expect(Target(pc))) /\ Tail(stack) \in Seq(Value)
      BY <1>8, <2>2, <3>1, FitsTrans
    <3> QED
      BY <1>5, <2>2, <2>5, <3>2 DEF JumpTo
  <2>6. ASSUME ~(Executed.op \in {"POP_JUMP_IF_FALSE", "POP_JUMP_IF_TRUE"}), JumpTo(stack)
        PROVE  MachineInv'
    <3>1. Fits(t, Expect(Target(pc)))
      BY <2>2, <2>6 DEF LeavesAtTarget
    <3>2. Fits(stack, Expect(Target(pc)))
      BY <1>2, <1>3, <2>2, <3>1, FitsTrans
    <3> QED
      BY <1>2, <1>5, <2>2, <2>6, <3>2 DEF JumpTo
  <2> QED
    BY <1>12, <2>4, <2>5, <2>6 DEF Jump
<1> QED
  BY <1>1, <1>11, <1>12

\* What the interpreter does leaves the parser's part of the invariant alone.
LEMMA ParserPartKept ==
  ASSUME CallsInv, TargetsDiffer(prog), UNCHANGED <<vars, seen>>
  PROVE  NestedCaptures' /\ ParserInv' /\ SeenInv'
<1>1. NestedCaptures /\ ParserInv /\ SeenInv
  BY Guarantees
<1>2. /\ prog' = prog /\ at' = at /\ LOAD' = LOAD /\ stack_cap' = stack_cap
      /\ branch_targets' = branch_targets /\ called_objs' = called_objs
      /\ raised' = raised /\ seen' = seen
  BY DEF vars
<1>3. /\ \A t, u : Covers(t, u)' <=> Covers(t, u)
      /\ \A k : Expect(k)' = Expect(k)
      /\ Captured(prog)' = Captured(prog)
      /\ \A k : Target(k)' = Target(k)
  BY <1>2 DEF Covers, Expect, Captured, Target
<1>4. NestedCaptures'
  BY <1>1, <1>2, <1>3 DEF NestedCaptures
<1>5. ParserInv'
  BY <1>1, <1>2, <1>3 DEF ParserInv, IsTarget
<1>6. SeenInv'
  BY <1>1, <1>2, <1>3 DEF SeenInv
<1> QED
  BY <1>4, <1>5, <1>6

LEMMA InitCalls ==
  ASSUME CInit
  PROVE  CallsInv
<1>1. /\ prog \in Programs /\ at = 1 /\ LOAD = << >> /\ stack_cap = << >>
      /\ branch_targets = {} /\ ~raised /\ seen = << >> /\ pc = 0 /\ stack = << >>
  BY DEF CInit, Init
<1>2. SInv
  BY InitSInv DEF CInit
<1>3. Len(prog) \in Nat /\ Captured(prog) \subseteq Nat \ {0}
  <2>1. prog \in Seq(Instruction)
    BY <1>2 DEF SInv, TypeOK
  <2>2. DOMAIN prog = 1 .. Len(prog) /\ Len(prog) \in Nat
    BY <2>1
  <2> QED
    BY <2>2 DEF Captured
<1>4. NestedCaptures
  <2>1. {j \in Captured(prog) : j < at} = {}
    BY <1>1, <1>3
  <2>2. DOMAIN stack_cap = {}
    BY <1>1
  <2> QED
    BY <1>1, <2>1, <2>2 DEF NestedCaptures
<1>5. ASSUME TargetsDiffer(prog) PROVE ParserInv
  <2>1. Expect(1) = << >>
    BY <1>1, <1>5, CompilerAssumption DEF Typed, Expect
  <2>2. Covers(LOAD, Expect(at))
    BY <1>1, <2>1 DEF Covers, Fits
  <2> QED
    BY <1>1, <2>2 DEF ParserInv
<1>6. SeenInv /\ MachineInv
  <2>1. seen \in Seq(Seq(Value)) /\ Len(seen) = at - 1 /\ 1 .. at - 1 = {}
    BY <1>1
  <2>2. stack \in Seq(Value)
    BY <1>1
  <2> QED
    BY <1>1, <2>1, <2>2 DEF SeenInv, MachineInv
<1> QED
  BY <1>1, <1>2, <1>4, <1>5, <1>6 DEF CallsInv

LEMMA NextCalls ==
  ASSUME CallsInv, [CNext]_allVars
  PROVE  CallsInv'
<1>1. [parse_def]_vars /\ prog' = prog
  BY DEF CNext, Parse, Begin, Execute, allVars, vars, parse_def, POP_JUMP_IF_FALSE,
         JUMP_IF_FALSE_OR_POP, NoEffect, Load, LoadAttr, Discard, pop2_push1, Call, Raises,
         Becomes, Branches, Advance
<1>2. SInv' /\ (prog \in Programs)'
  BY <1>1, NextSInv DEF CallsInv
<1>3. SUFFICES ASSUME TargetsDiffer(prog)
               PROVE  NestedCaptures' /\ ParserInv' /\ SeenInv' /\ MachineInv'
  BY <1>1, <1>2 DEF CallsInv, TargetsDiffer, Captured
<1>4. CASE Parse
  BY <1>3, <1>4, ParseKeepsCalls
<1>5. CASE Begin
  <2>1. Parsed /\ pc = 0 /\ pc' = 1 /\ stack' = stack /\ UNCHANGED <<vars, seen>>
    BY <1>5 DEF Begin
  <2>2. stack = << >> /\ stack \in Seq(Value)
    BY <1>3, <2>1, Guarantees DEF MachineInv
  <2>3. Expect(1) = << >> /\ 1 \in 1 .. Len(prog) + 1
    BY <1>3, Guarantees DEF Typed, Expect
  <2>4. Expect(pc)' = << >> /\ Parsed'
    BY <2>1, <2>3 DEF Expect, Parsed, vars
  <2>5. MachineInv'
    BY <1>1, <2>1, <2>2, <2>3, <2>4 DEF MachineInv, Fits
  <2> QED
    BY <1>3, <2>1, <2>5, ParserPartKept
<1>6. CASE Execute
  <2>1. UNCHANGED <<vars, seen>>
    BY <1>6 DEF Execute
  <2> QED
    BY <1>3, <1>6, <2>1, ExecuteKeepsCalls, ParserPartKept
<1>7. CASE UNCHANGED allVars
  <2>1. UNCHANGED <<vars, seen>> /\ pc' = pc /\ stack' = stack
    BY <1>7 DEF allVars, machine
  <2>2. MachineInv'
    <3>1. MachineInv
      BY <1>3, Guarantees
    <3> QED
      BY <2>1, <3>1 DEF MachineInv, Parsed, Expect, vars
  <2> QED
    BY <1>3, <2>1, <2>2, ParserPartKept
<1> QED
  BY <1>4, <1>5, <1>6, <1>7 DEF CNext

\* The parser's stacks and captures are what the compiler of the function expects, at
\* every instruction before the one at hand, and so is the interpreter's.
THEOREM CallsInvariance == CSpec => []CallsInv
<1>1. CInit => CallsInv
  BY InitCalls
<1>2. CallsInv /\ [CNext]_allVars => CallsInv'
  BY NextCalls
<1> QED
  BY <1>1, <1>2, PTL DEF CSpec

\* What the interpreter executes the parser has seen.
LEMMA ExecutedWasSeen ==
  ASSUME CallsInv, TargetsDiffer(prog), Running
  PROVE  /\ pc \in 1 .. at - 1 /\ Executed = prog[pc] /\ Executed.n \in Nat
         /\ stack \in Seq(Value) /\ Expect(pc) \in Seq(Value)
         /\ Fits(stack, Expect(pc)) /\ Covers(seen[pc], Expect(pc))
         /\ LeavesNext(Executed, Expect(pc), Expect(pc + 1))
<1>1. pc \in 1 .. Len(prog) /\ Len(prog) \in Nat /\ pc # 0
  BY Guarantees DEF Running
<1>2. Parsed /\ Fits(stack, Expect(pc)) /\ stack \in Seq(Value)
  BY <1>1, Guarantees DEF MachineInv
<1>3. pc \in 1 .. at - 1
  BY <1>1, <1>2 DEF Parsed
<1>4. Expect(pc) \in Seq(Value)
  BY <1>1, Guarantees
<1>5. Covers(seen[pc], Expect(pc))
  BY <1>3, Guarantees DEF SeenInv
<1>6. Executed = prog[pc] /\ Executed.n \in Nat
  BY <1>1, Guarantees DEF Executed, Instruction
<1>7. LeavesNext(Executed, Expect(pc), Expect(pc + 1))
  <2>1. pc \in DOMAIN prog /\ Typed(prog, Expected[prog])
    BY <1>1, Guarantees DEF SInv, TypeOK
  <2> QED
    BY <1>6, <2>1 DEF Typed, Expect
<1> QED
  BY <1>2, <1>3, <1>4, <1>5, <1>6, <1>7

\* No LOAD.pop(0) of an empty list and no LOAD[n] beyond its end, in any structured
\* function whose conditions have targets of their own.
THEOREM NeverShortHolds == CSpec => []NeverShort
<1>1. ASSUME CallsInv PROVE NeverShort
  <2> SUFFICES ASSUME TargetsDiffer(prog)
               PROVE  ~raised /\ (Running => Len(seen[pc]) >= Len(stack))
    BY DEF NeverShort
  <2>1. ~raised
    BY <1>1, Guarantees DEF ParserInv
  <2>2. ASSUME Running PROVE Len(seen[pc]) >= Len(stack)
    BY <1>1, <2>2, ExecutedWasSeen DEF Fits, Covers
  <2> QED
    BY <2>1, <2>2
<1> QED
  BY <1>1, CallsInvariance, PTL

\* If the parser interprets all its opcodes, its stack is as deep as an execution's.
THEOREM SameDepthHolds == CSpec => []SameDepth
<1>1. ASSUME CallsInv PROVE SameDepth
  <2> SUFFICES ASSUME Supported(prog), Running
               PROVE  Len(seen[pc]) = Len(stack)
    BY DEF SameDepth
  <2>1. TargetsDiffer(prog)
    BY DEF Supported
  <2> QED
    BY <1>1, <2>1, ExecutedWasSeen DEF Fits, Covers
<1> QED
  BY <1>1, CallsInvariance, PTL

\* And every function that an execution calls has been recorded.
THEOREM EveryCallFoundHolds == CSpec => []EveryCallFound
<1>1. ASSUME CallsInv PROVE EveryCallFound
  <2> SUFFICES ASSUME Supported(prog), Running,
                      Executed.op \in {"CALL_FUNCTION", "CALL_METHOD"}
               PROVE  stack[Executed.n + 1] \in called_objs
    BY DEF EveryCallFound
  <2> DEFINE t == Expect(pc)
             i == Executed.n + 1
  <2>1. TargetsDiffer(prog)
    BY DEF Supported
  <2>2. /\ pc \in 1 .. at - 1 /\ Executed = prog[pc] /\ Executed.n \in Nat
        /\ t \in Seq(Value) /\ Fits(stack, t) /\ Fits(seen[pc], t)
        /\ LeavesNext(Executed, t, Expect(pc + 1))
    BY <1>1, <2>1, ExecutedWasSeen DEF Covers
  <2>3. i \in DOMAIN t
    <3>1. Len(t) > Executed.n
      BY <2>2 DEF LeavesNext
    <3> QED
      BY <2>2, <3>1
  <2>4. t[i] # Varies
    <3>1. pc \in DOMAIN prog
      BY <1>1, <2>1, Guarantees DEF SInv, TypeOK, Running
    <3> QED
      BY <1>1, <2>1, <2>2, <3>1, Guarantees DEF CalleesKnown, Expect
  <2>5. stack[i] = seen[pc][i]
    BY <2>2, <2>3, <2>4 DEF Fits
  <2>6. seen[pc][i] \in called_objs
    BY <1>1, <2>1, <2>2, Guarantees DEF SeenInv
  <2> QED
    BY <2>5, <2>6
<1> QED
  BY <1>1, CallsInvariance, PTL

=============================================================================
