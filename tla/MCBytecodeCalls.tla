--------------------------- MODULE MCBytecodeCalls ---------------------------
(***************************************************************************)
(* Functions for BytecodeCalls, as CPython 3.10 compiles them: jumps of a  *)
(* conditional expression and of "and" and "or", in a condition and as a   *)
(* value.                                                                  *)
(***************************************************************************)
EXTENDS BytecodeCalls

CONSTANTS f, g, h, a, b, c, m, result

MCName == {f, g, h, a, b, c, m}

\* One instruction; fields an opcode has no use for are filled in.
I(op, name, n, to) == <<[op |-> op, name |-> name, n |-> n, to |-> to]>>
Plain(op) == I(op, a, 0, 0)
JumpBy(op, to) == I(op, a, 0, to)

Var(x) == I("LOAD_FAST", x, 0, 0)
Call1(x, e) == Var(x) \o e \o I("CALL_FUNCTION", a, 1, 0)
Call2(x, d, e) == Var(x) \o d \o e \o I("CALL_FUNCTION", a, 2, 0)
Method(x, e) == Var(x) \o I("LOAD_ATTR", m, 0, 0) \o e \o I("CALL_METHOD", a, 1, 0)
Operator(op, d, e) == d \o e \o Plain(op)

\* d and e, d or e as values.
And(d, e) == d \o JumpBy("JUMP_IF_FALSE_OR_POP", Len(e) + 1) \o e
Or(d, e) == d \o JumpBy("JUMP_IF_TRUE_OR_POP", Len(e) + 1) \o e

\* A condition in front of `then', which it leaves out by jumping over it.
IfVar(x, then) == Var(x) \o JumpBy("POP_JUMP_IF_FALSE", Len(then) + 1)
IfNotVar(x, then) == Var(x) \o JumpBy("POP_JUMP_IF_TRUE", Len(then) + 1)
IfCompares(x, y, then) ==
  Operator("COMPARE_OP", Var(x), Var(y)) \o JumpBy("POP_JUMP_IF_FALSE", Len(then) + 1)
IfBoth(x, y, then) ==
  Var(x) \o JumpBy("POP_JUMP_IF_FALSE", Len(then) + 3) \o IfVar(y, then)
IfEither(x, y, then) == Var(x) \o JumpBy("POP_JUMP_IF_TRUE", 3) \o IfVar(y, then)
Conditions(then) == {IfVar(b, then), IfCompares(b, c, then), IfBoth(b, c, then),
                     IfEither(b, c, then), IfNotVar(b, then)}

\* d if condition else e, for every form of condition.
IfExps(d, e) ==
  LET then == d \o JumpBy("JUMP_FORWARD", Len(e) + 1)
  IN  {cond \o then \o e : cond \in Conditions(then)}

Simple ==
  {Var(a), Operator("BINARY_ADD", Var(a), Var(b)), Operator("CONTAINS_OP", Var(a), Var(b))}
    \cup IfExps(Var(a), Var(c))

\* In a chain of "and" every jump leads to its end.
Chain(x, y, e) ==
  Var(x) \o JumpBy("JUMP_IF_FALSE_OR_POP", Len(e) + 3) \o And(Var(y), e)

Inner == Simple \cup {And(Var(a), Var(b)), Or(Var(a), Var(b)), Chain(a, b, Var(c))}

Calls == {Call1(f, e) : e \in Inner} \cup {Method(a, e) : e \in Inner}

Middle == Inner \cup Calls

\* Calls within conditional expressions, "and" and "or".
Outer ==
  UNION {IfExps(d, e) : d \in Middle, e \in {Var(c), Call1(h, Var(c))}}
    \cup {And(d, Call1(h, Var(c))) : d \in Simple \cup Calls}
    \cup {Chain(a, b, d) : d \in Middle}

MCPrograms ==
  {Call1(g, e) \o Plain("RETURN_VALUE") : e \in Middle \cup Outer} \cup
  {Call2(g, d, e) \o Plain("RETURN_VALUE") : d \in Middle, e \in Inner} \cup
  {Call1(g, d) \o Plain("STORE_FAST") \o Call1(h, e) \o Plain("POP_TOP") :
     d \in Inner, e \in Inner}

-----------------------------------------------------------------------------
(* The stacks that the compiler expects, from the first offset to the last. *)

\* The values that all of the stacks S have.
Common(S) ==
  LET s == CHOOSE s \in S : TRUE
  IN  [k \in DOMAIN s |-> IF \A u \in S : u[k] = s[k] THEN s[k] ELSE Varies]

LeftNext(i, t) ==
  CASE i.op = "LOAD_FAST" -> Push(<<i.name>>, t)
    [] i.op = "LOAD_ATTR" -> Push(Attribute(Head(t), i.name), Tail(t))
    [] i.op \in Combines \cup {"CONTAINS_OP"} -> Push(<<result>>, Drop(2, t))
    [] i.op \in {"CALL_FUNCTION", "CALL_METHOD"} -> Push(<<result>>, Drop(i.n + 1, t))
    [] OTHER -> Tail(t)

LeftAtTarget(i, t) ==
  IF i.op \in {"POP_JUMP_IF_FALSE", "POP_JUMP_IF_TRUE"} THEN Tail(t) ELSE t

\* T are the stacks up to the instruction i.
WithNext(p, T, i) ==
  LET k     == Len(T)
      after == IF i.op = "JUMP_FORWARD" THEN {} ELSE {LeftNext(i, T[k])}
      jumps == {j \in 1 .. k : p[j].op \in Jumps /\ j + p[j].to = k + 1}
  IN  Append(T, Common(after \cup {LeftAtTarget(p[j], T[j]) : j \in jumps}))

MCExpected ==
  [p \in MCPrograms |-> FoldLeft(LAMBDA T, i : WithNext(p, T, i), << << >> >>, p)]

=============================================================================
