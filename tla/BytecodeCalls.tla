---------------------------- MODULE BytecodeCalls ----------------------------
(***************************************************************************)
(* The parser of BytecodeStack, and then the interpreter that executes     *)
(* the same function with any outcome of its conditions.  The interpreter  *)
(* is CPython 3.10's, so not part of the repository; it is here to say     *)
(* what the parser's stack is supposed to be.                              *)
(***************************************************************************)
EXTENDS BytecodeStack

CONSTANT
  Expected   \* for each function the stack its compiler expects at each offset

-----------------------------------------------------------------------------
(***************************************************************************)
(* What a compiler of structured code guarantees.  A stack it expects has  *)
(* a known depth, and at each place the one value that execution leaves    *)
(* there whatever way it takes, or Varies.                                 *)
(***************************************************************************)
Varies == << >>

\* The stack s is as t expects it.
Fits(s, t) == Len(s) = Len(t) /\ \A i \in DOMAIN t : t[i] \in {Varies, s[i]}

Attribute(v, x) == IF v = Varies THEN Varies ELSE Append(v, x)

\* What the instruction i leaves for the next one, of a stack that t expects.
LeavesNext(i, t, next) ==
  /\ i.op = "LOAD_FAST" => Fits(Push(<<i.name>>, t), next)
  /\ i.op = "LOAD_ATTR" =>
       t # << >> /\ Fits(Push(Attribute(Head(t), i.name), Tail(t)), next)
  /\ i.op \in Discards \cup (Jumps \ {"JUMP_FORWARD"}) =>
       /\ t # << >>
       /\ Fits(Tail(t), next)
  /\ i.op \in Combines \cup {"CONTAINS_OP"} =>
       Len(t) >= 2 /\ Fits(Push(<<Result>>, Drop(2, t)), next)
  /\ i.op \in {"CALL_FUNCTION", "CALL_METHOD"} =>
       Len(t) > i.n /\ Fits(Push(<<Result>>, Drop(i.n + 1, t)), next)

\* What it leaves where it jumps to.
LeavesAtTarget(i, t, there) ==
  IF i.op \in {"POP_JUMP_IF_FALSE", "POP_JUMP_IF_TRUE"} THEN Fits(Tail(t), there)
                                                        ELSE Fits(t, there)

Supported(p) == TargetsDiffer(p) /\ \A k \in DOMAIN p : p[k].op \notin Unhandled

Passed(p) == {k + p[k].to : k \in Captured(p)}

\* The compiler expects stacks T of the function p, ...
Typed(p, T) ==
  /\ T \in [1 .. Len(p) + 1 -> Seq(Value)]
  /\ T[1] = << >>
  /\ \A k \in DOMAIN p :
       /\ LeavesNext(p[k], T[k], T[k + 1])
       /\ p[k].op \in Jumps => /\ k + p[k].to \in DOMAIN T
                               /\ LeavesAtTarget(p[k], T[k], T[k + p[k].to])

\* ... its conditions are nested, no jump leads to another one (the compiler leads it
\* further), and after JUMP_FORWARD comes code that some jump leads to.
Structured(p, T) ==
  /\ JumpsForward(p)
  /\ \A j, k \in Captured(p) :
       j < k /\ k < j + p[j].to => k + p[k].to <= j + p[j].to
  /\ Captured(p) \cap Passed(p) = {}
  /\ \A k \in DOMAIN p :
       p[k].op = "JUMP_FORWARD" =>
         \/ k + 1 \in Passed(p)
         \/ ~Supported(p) /\ Len(T[k + 1]) <= Len(T[k])

\* Which function a supported one calls does not depend on the way there.
CalleesKnown(p, T) ==
  \A k \in DOMAIN p :
    p[k].op \in {"CALL_FUNCTION", "CALL_METHOD"} => T[k][p[k].n + 1] # Varies

\* What CPython's compiler makes of expressions and of conditions without loops.
ASSUME CompilerAssumption ==
  \A p \in Programs :
    TargetsDiffer(p) =>
      /\ Typed(p, Expected[p])
      /\ Structured(p, Expected[p])
      /\ Supported(p) => CalleesKnown(p, Expected[p])

-----------------------------------------------------------------------------
VARIABLES
  seen,   \* history: the stack the parser interpreted each instruction on
  pc,     \* the next instruction the interpreter executes; 0 before it starts
  stack   \* its value stack, the top first

machine == <<pc, stack>>
allVars == <<vars, seen, machine>>

CInit ==
  /\ Init
  /\ seen = << >>
  /\ pc = 0
  /\ stack = << >>

Parse ==
  /\ parse_def
  /\ seen' = Append(seen, Stack)
  /\ UNCHANGED machine

Begin ==
  /\ Parsed /\ pc = 0
  /\ pc' = 1
  /\ UNCHANGED <<vars, seen, stack>>

-----------------------------------------------------------------------------
(* The interpreter.                                                        *)

Running == pc \in 1 .. Len(prog)
Executed == prog[pc]

Continue(s) == pc' = pc + 1 /\ stack' = s
JumpTo(s) == pc' = Target(pc) /\ stack' = s

Evaluate ==
  \/ /\ Executed.op = "LOAD_FAST"
     /\ Continue(Push(<<Executed.name>>, stack))
  \/ /\ Executed.op = "LOAD_ATTR"
     /\ Continue(Push(Append(Head(stack), Executed.name), Tail(stack)))
  \/ /\ Executed.op \in Discards
     /\ Continue(Tail(stack))
  \/ /\ Executed.op \in Combines \cup {"CONTAINS_OP"}
     /\ Continue(Push(<<Result>>, Drop(2, stack)))
  \/ /\ Executed.op \in {"CALL_FUNCTION", "CALL_METHOD"}
     /\ Continue(Push(<<Result>>, Drop(Executed.n + 1, stack)))

Jump ==
  \/ /\ Executed.op \in {"POP_JUMP_IF_FALSE", "POP_JUMP_IF_TRUE"}
     /\ Continue(Tail(stack)) \/ JumpTo(Tail(stack))
  \/ /\ Executed.op \in {"JUMP_IF_FALSE_OR_POP", "JUMP_IF_TRUE_OR_POP"}
     /\ Continue(Tail(stack)) \/ JumpTo(stack)
  \/ /\ Executed.op = "JUMP_FORWARD"
     /\ JumpTo(stack)

Execute ==
  /\ Running
  /\ Evaluate \/ Jump
  /\ UNCHANGED <<vars, seen>>

Ended == raised \/ (Parsed /\ pc > Len(prog))

CNext == Parse \/ Begin \/ Execute \/ (Ended /\ UNCHANGED allVars)

CSpec == CInit /\ [][CNext]_allVars

-----------------------------------------------------------------------------
(* Properties.                                                             *)

\* An opcode the parser passes over only ever leaves too much on its stack: no
\* index of LOAD is out of range, as an execution finds no more there.
NeverShort ==
  TargetsDiffer(prog) =>
    /\ ~raised
    /\ Running => Len(seen[pc]) >= Len(stack)

\* In a supported function the parser's stack is as deep as the interpreter's,
\* whatever way the execution has taken, through however many nested branches.
SameDepth ==
  Supported(prog) /\ Running => Len(seen[pc]) = Len(stack)

\* In a supported function, every function an execution calls has been found.
EveryCallFound ==
  Supported(prog) /\ Running /\ Executed.op \in {"CALL_FUNCTION", "CALL_METHOD"}
    => stack[Executed.n + 1] \in called_objs

\* The comment at the head of parse_branch_instructions: rolling back to the last
\* capture keeps "else" from failing on a stack that is not its own.
NeverRaises == ~raised

-----------------------------------------------------------------------------
(* The inductive invariant of BytecodeStack_proofs.tla.                    *)

\* What is expected before the instruction k.
Expect(k) == Expected[prog][k]

\* s has what t expects; too much, where the parser has passed over an opcode.
Covers(s, t) == Len(s) >= Len(t) /\ (Supported(prog) => Fits(s, t))

\* Captures lie as the conditions do, the innermost on top.
NestedCaptures ==
  /\ branch_targets = {Target(k) : k \in {j \in Captured(prog) : j < at}}
  /\ \A t \in branch_targets :
       t >= at => \E i \in DOMAIN stack_cap : stack_cap[i].target = t
  /\ \A i \in DOMAIN stack_cap :
       /\ stack_cap[i].target >= at
       /\ Covers(stack_cap[i].stack, Expect(stack_cap[i].target))
  /\ \A i, j \in DOMAIN stack_cap :
       i < j => stack_cap[i].target > stack_cap[j].target

\* Unless a capture takes its place, the stack has what the next instruction expects.
ParserInv ==
  /\ ~raised
  /\ IsTarget \/ Covers(LOAD, Expect(at))

\* So it was for every instruction before, and the calls among them are recorded.
SeenInv ==
  /\ seen \in Seq(Seq(Value))
  /\ Len(seen) = at - 1
  /\ \A k \in 1 .. at - 1 :
       /\ Covers(seen[k], Expect(k))
       /\ prog[k].op \in {"CALL_FUNCTION", "CALL_METHOD"} =>
            seen[k][prog[k].n + 1] \in called_objs

\* The interpreter's stack is what the compiler expects.
MachineInv ==
  /\ stack \in Seq(Value)
  /\ \/ pc = 0 /\ stack = << >>
     \/ Parsed /\ pc \in 1 .. Len(prog) + 1 /\ Fits(stack, Expect(pc))

CallsInv ==
  /\ SInv /\ prog \in Programs
  /\ TargetsDiffer(prog) => NestedCaptures /\ ParserInv /\ SeenInv /\ MachineInv

=============================================================================
