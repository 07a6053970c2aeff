------------------------- MODULE MCExecPathTracking -------------------------
(***************************************************************************)
(* Small programs for TLC: every assignment of a few function bodies to    *)
(* three functions, so that the call graph may be recursive, disconnected  *)
(* or ambiguous.                                                           *)
(***************************************************************************)
EXTENDS ExecPathTracking, TLC

CONSTANTS main, f, g, elision

MCFunc == {main, f, g, elision}
MCUnreadable == {elision}
MCSpecial == {"call"}

Op(m, e, t, i) ==
  [mnemonic |-> m, enc |-> e, token |-> t, isa |-> i, target |-> NoFunc]
Call(e, t, to) ==
  [mnemonic |-> "call", enc |-> e, token |-> t, isa |-> "I86", target |-> to]

callMain == Call("e8 01", "plain", main)
callF    == Call("e8 02", "plain", f)
callG    == Call("e8 03", "plain", g)
coldCall == Call("e8 04", "cold", g)
sameHex  == Call("e8 02", "plain", g)  \* callF at another address
callRax  == Call("ff d0", "plain", NoFunc)
callElision == Call("e8 05", "plain", elision)
\* movLocal has an operand at a negative offset from rbp.
mov      == Op("vmovups", "c5", "plain", "AVX")
mov512   == Op("vmovups", "62", "plain", "AVX512")
movLocal == Op("vmovups", "c5 f8", "minus", "AVX")
xbegin   == Op("xbegin", "c7 f8", "plain", "RTM")
xtestOp  == Op("xtest", "0f 01", "plain", "RTM")

MCInsn == {callMain, callF, callG, coldCall, sameHex, callRax, callElision,
           mov, mov512, movLocal, xbegin, xtestOp}

MCBodies == {
  << callF, mov, callRax >>,
  << mov512, callG, callMain >>,
  << callF, sameHex, xtestOp >>,
  << coldCall, callElision, xbegin >>,
  << movLocal, xtestOp, callRax >> }

MCPrograms ==
  {p \in [MCFunc -> MCBodies \cup {<< >>}] : \A x \in MCFunc : p[x] = << >> <=> x = elision}

\* A native workload, and a Python one.
MCRoots == {<< main >>, << g, main >>}

=============================================================================
