----------------------- MODULE ExecPathTracking_proofs -----------------------
(***************************************************************************)
(* Proofs about execution path tracking, for every program and every set   *)
(* of roots: the functions tracked are those that are reachable.           *)
(***************************************************************************)
EXTENDS ExecPathTracking, Lemmas

-----------------------------------------------------------------------------
(* Facts about the definitions.                                            *)

\* Instructions of a program, and their targets.
LEMMA LineFacts ==
  ASSUME TypeOK, NEW f \in Func, NEW k \in Lines(f)
  PROVE  /\ k \in Nat
         /\ code[f][k] \in Insn
         /\ code[f][k].target \in Func \cup {NoFunc}
         /\ code[f][k].target # NoFunc => code[f][k].mnemonic \in Special
<1>1. code[f] \in Seq(Insn)
  BY DEF TypeOK
<1>2. k \in 1 .. Len(code[f]) /\ Len(code[f]) \in Nat
  BY <1>1 DEF Lines
<1>3. code[f][k] \in Insn
  BY <1>1, <1>2
<1>4. k \in Nat
  BY <1>2
<1>5. \A i \in Insn : /\ i.target \in Func \cup {NoFunc}
                      /\ i.target # NoFunc => i.mnemonic \in Special
  BY TrackingAssumption
<1>6. /\ code[f][k].target \in Func \cup {NoFunc}
      /\ code[f][k].target # NoFunc => code[f][k].mnemonic \in Special
  BY <1>3, <1>5, Zenon
<1> QED
  BY <1>3, <1>4, <1>6

\* Successors are functions.
LEMMA SuccType ==
  ASSUME TypeOK, NEW f \in Func
  PROVE  Succ(f) \subseteq Func
BY LineFacts DEF Succ

\* The target of hot code of a readable function is one of its successors.
LEMMA TargetIsSucc ==
  ASSUME TypeOK, NEW f \in Func, f \notin Unreadable,
         NEW k \in Lines(f), Hot(code[f][k]), code[f][k].target # NoFunc
  PROVE  code[f][k].target \in Succ(f)
BY LineFacts DEF Succ

\* Every finite nonempty set of line numbers has a greatest element.
LEMMA LastLine ==
  ASSUME NEW n \in Nat, NEW K, K \subseteq 1 .. n, K # {}
  PROVE  \E k \in K : \A l \in K : l <= k
<1> DEFINE T == {m \in Nat : n - m \in K}
<1>1. PICK k \in K : TRUE
  OBVIOUS
<1>2. n - k \in T
  <2>1. k \in Int /\ k <= n /\ n - (n - k) = k
    OBVIOUS
  <2>2. n - k \in Nat
    BY <2>1
  <2>3. n - (n - k) \in K
    BY <2>1
  <2> QED
    BY <2>2, <2>3
<1>3. PICK m \in T : \A x \in T : m <= x
  BY <1>2, LeastNat
<1>4. \A l \in K : l <= n - m
  <2> TAKE l \in K
  <2>1. l \in Int /\ l <= n /\ n - (n - l) = l
    OBVIOUS
  <2>2. n - l \in Nat /\ n - (n - l) \in K
    BY <2>1
  <2>3. n - l \in T
    BY <2>2
  <2>4. m <= n - l /\ m \in Nat
    BY <2>3, <1>3
  <2> QED
    BY <2>1, <2>4
<1> QED
  BY <1>3, <1>4

\* Where encodings determine instructions, keying the dict by the encoding loses
\* no successor: an equal instruction further down stands for the one replaced.
LEMMA EntriesCoverSucc ==
  ASSUME TypeOK, Unambiguous, NEW f \in Func, NEW g \in Succ(f)
  PROVE  \E k \in Entries(f) : code[f][k].target = g
<1>1. PICK l \in Lines(f) : /\ code[f][l].mnemonic \in Special
                            /\ Hot(code[f][l])
                            /\ code[f][l].target = g
  BY DEF Succ
<1> DEFINE K == {k \in Kept(f) : code[f][k].enc = code[f][l].enc}
<1>2. l \in K
  BY <1>1 DEF Kept, Fresh
<1>3. code[f] \in Seq(Insn)
  BY DEF TypeOK
<1>4. K \subseteq 1 .. Len(code[f]) /\ Len(code[f]) \in Nat
  BY <1>3 DEF Kept, Lines
<1>5. PICK k \in K : \A j \in K : j <= k
  BY <1>2, <1>4, LastLine
<1>6. k \in Entries(f)
  <2> SUFFICES ASSUME NEW j \in Kept(f), j > k
               PROVE  code[f][j].enc # code[f][k].enc
    BY <1>5 DEF Entries
  <2>1. j \notin K
    BY <1>4, <1>5
  <2> QED
    BY <2>1, <1>5
<1>7. code[f][k] = code[f][l]
  BY <1>1, <1>5 DEF Unambiguous, Kept
<1> QED
  BY <1>1, <1>6, <1>7

\* The roots are reachable, and what a reachable function calls is.
LEMMA ReachableClosed ==
  ASSUME TypeOK
  PROVE  /\ Range(roots) \subseteq Reachable
         /\ \A f \in Reachable : Succ(f) \subseteq Reachable
<1>1. Range(roots) \subseteq Func
  BY DEF TypeOK, Range
<1>2. Range(roots) \subseteq Reachable
  BY <1>1 DEF Reachable, Closed
<1>3. ASSUME NEW f \in Reachable, NEW g \in Succ(f) PROVE g \in Reachable
  <2>1. f \in Func /\ g \in Func
    BY <1>3, SuccType DEF Reachable
  <2> SUFFICES ASSUME NEW S \in SUBSET Func, Closed(S) PROVE g \in S
    BY <2>1 DEF Reachable
  <2>2. f \in S
    BY <1>3 DEF Reachable
  <2> QED
    BY <2>2, <1>3 DEF Closed
<1> QED
  BY <1>2, <1>3

\* Reachable is the least closed set.
LEMMA ReachableLeast ==
  ASSUME NEW S \in SUBSET Func, Closed(S)
  PROVE  Reachable \subseteq S
BY DEF Reachable

-----------------------------------------------------------------------------
(* The inductive invariant TInv.                                           *)

\* The program under analysis and the roots never change.
LEMMA SameProgram ==
  ASSUME [Next]_vars
  PROVE  /\ code' = code /\ roots' = roots
         /\ Reachable' = Reachable
         /\ Unambiguous' = Unambiguous
         /\ \A f : Succ(f)' = Succ(f)
<1>1. code' = code /\ roots' = roots
  BY DEF Next, vars, CannotDisassemble, dis_func, Decode, NextFunction, Raises,
         create_csv, Finished
<1> QED
  BY <1>1 DEF Reachable, Closed, Succ, Lines, Hot, Unambiguous

\* What appending a new element to a sequence does to its range.
LEMMA AppendFacts ==
  ASSUME NEW S, NEW s \in Seq(S), NEW e \in S
  PROVE  /\ Append(s, e) \in Seq(S)
         /\ Len(Append(s, e)) = Len(s) + 1
         /\ \A j \in 1 .. Len(s) : Append(s, e)[j] = s[j]
         /\ Range(Append(s, e)) = Range(s) \cup {e}
         /\ IsInjective(s) /\ e \notin Range(s) => IsInjective(Append(s, e))
<1> DEFINE t == Append(s, e)
<1>1. /\ t \in Seq(S) /\ Len(t) = Len(s) + 1 /\ Len(s) \in Nat
      /\ \A j \in 1 .. Len(s) : t[j] = s[j]
      /\ t[Len(s) + 1] = e
      /\ DOMAIN s = 1 .. Len(s) /\ DOMAIN t = 1 .. Len(s) + 1
  OBVIOUS
<1>2. Range(t) = Range(s) \cup {e}
  BY <1>1 DEF Range
<1>3. ASSUME IsInjective(s), e \notin Range(s) PROVE IsInjective(t)
  <2> SUFFICES ASSUME NEW j \in DOMAIN t, NEW k \in DOMAIN t, t[j] = t[k]
               PROVE  j = k
    BY DEF IsInjective
  <2>1. CASE j \in DOMAIN s /\ k \in DOMAIN s
    BY <1>1, <1>3, <2>1 DEF IsInjective
  <2>2. CASE j = Len(s) + 1 \/ k = Len(s) + 1
    BY <1>1, <1>3, <2>2 DEF Range
  <2> QED
    BY <1>1, <2>1, <2>2
<1> QED
  BY <1>1, <1>2, <1>3

LEMMA InitTInv == Init => TInv
<1> SUFFICES ASSUME Init PROVE TInv
  OBVIOUS
<1>1. code \in [Func -> Seq(Insn)] /\ roots \in Seq(Func)
  BY TrackingAssumption DEF Init
<1>2. TypeOK
  <2>1. Range(roots) \subseteq Func
    BY <1>1 DEF Range
  <2>2. \A S : << >> \in Seq(S)
    OBVIOUS
  <2>3. found \in Seq({i.isa : i \in Insn})
    BY <2>2 DEF Init
  <2>4. tsx \in BOOLEAN /\ xtest \in BOOLEAN
    BY DEF Init
  <2>5. list \in Seq(Func) /\ seen \subseteq Func /\ at \in Nat \ {0} /\ func \subseteq Nat
    BY <1>1, <2>1 DEF Init
  <2>6. pc \in {"function", "instruction", "done", "raised"}
    BY DEF Init
  <2> QED
    BY <1>1, <2>3, <2>4, <2>5, <2>6, Zenon DEF TypeOK
<1>3. LoopInv
  BY <1>1 DEF Init, LoopInv
<1>4. OnlyReachable
  BY <1>2, ReachableClosed DEF Init, OnlyReachable
<1>5. EachOnce
  BY DEF Init, EachOnce
<1> QED
  BY <1>2, <1>3, <1>4, <1>5 DEF TInv

LEMMA CannotDisassembleStep == TInv /\ CannotDisassemble => TInv'
<1> SUFFICES ASSUME TInv, CannotDisassemble PROVE TInv'
  OBVIOUS
<1> USE DEF CannotDisassemble
<1>1. [Next]_vars
  BY DEF Next
<1>2. TypeOK'
  BY DEF TInv, TypeOK
<1>3. LoopInv'
  <2>1. at \in Nat \ {0} /\ Len(list) \in Nat /\ at <= Len(list)
    BY DEF TInv, TypeOK
  <2>2. Succ(Current) = {}
    BY DEF Succ
  <2>3. ASSUME Unambiguous, NEW j \in 1 .. at' - 1 PROVE Succ(list[j]) \subseteq seen
    <3>1. CASE j = at
      BY <3>1, <2>2 DEF Current
    <3>2. CASE j # at
      BY <2>1, <2>3, <3>2 DEF TInv, LoopInv
    <3> QED
      BY <3>1, <3>2
  <2> QED
    BY <1>1, <2>1, <2>3, SameProgram DEF TInv, LoopInv
<1>4. OnlyReachable' /\ EachOnce'
  BY <1>1, SameProgram DEF TInv, OnlyReachable, EachOnce
<1> QED
  BY <1>2, <1>3, <1>4 DEF TInv

LEMMA DisFuncStep == TInv /\ dis_func => TInv'
<1> SUFFICES ASSUME TInv, dis_func PROVE TInv'
  OBVIOUS
<1> USE DEF dis_func
<1>1. [Next]_vars
  BY DEF Next
<1>2. Current \in Func /\ at \in Nat \ {0} /\ Len(list) \in Nat
  BY DEF TInv, TypeOK, Current
<1>3. Entries(Current) \subseteq {k \in Lines(Current) : Hot(code[Current][k])}
  BY DEF Entries, Kept
<1>4. TypeOK'
  <2>1. Entries(Current) \subseteq Nat
    BY <1>2, <1>3, LineFacts DEF TInv
  <2>2. tsx' \in BOOLEAN
    OBVIOUS
  <2>3. xtest' \in BOOLEAN
    OBVIOUS
  <2> QED
    BY <2>1, <2>2, <2>3 DEF TInv, TypeOK
<1>5. Unambiguous =>
        Succ(Current) \subseteq {code[Current][k].target : k \in Entries(Current)}
  BY <1>2, EntriesCoverSucc DEF TInv
<1>6. LoopInv'
  <2>1. Current' = Current
    BY DEF Current
  <2>2. func' \subseteq {k \in Lines(Current) : Hot(code[Current][k])}'
    BY <1>3, <2>1 DEF Lines, Hot
  <2> QED
    BY <1>1, <1>2, <1>5, <2>1, <2>2, SameProgram DEF TInv, LoopInv
<1>7. OnlyReachable' /\ EachOnce'
  BY <1>1, SameProgram DEF TInv, OnlyReachable, EachOnce
<1> QED
  BY <1>4, <1>6, <1>7 DEF TInv

\* What one turn of the loop over func.items() does, for the entry k it takes.
LEMMA DecodeFacts ==
  ASSUME TInv, NEW k \in func, pc = "instruction"
  PROVE  /\ Current \in Func /\ Current \notin Unreadable
         /\ at \in 1 .. Len(list) /\ Len(list) \in Nat
         /\ k \in Lines(Current) /\ Hot(code[Current][k])
         /\ code[Current][k] \in Insn
         /\ New(code[Current][k].target) \subseteq Succ(Current)
         /\ Succ(Current) \subseteq Func
<1>1. at \in 1 .. Len(list) /\ Len(list) \in Nat /\ Current \notin Unreadable
  BY DEF TInv, TypeOK, LoopInv
<1>2. Current \in Func
  BY <1>1 DEF TInv, TypeOK, Current
<1>3. k \in Lines(Current) /\ Hot(code[Current][k])
  BY DEF TInv, LoopInv
<1>4. TypeOK
  BY DEF TInv
<1>5. New(code[Current][k].target) \subseteq Succ(Current)
  BY <1>1, <1>2, <1>3, <1>4, TargetIsSucc DEF New
<1> QED
  BY <1>1, <1>2, <1>3, <1>4, <1>5, SuccType, LineFacts

LEMMA DecodeStep == TInv /\ Decode => TInv'
<1> SUFFICES ASSUME TInv, Decode PROVE TInv'
  OBVIOUS
<1>1. [Next]_vars
  BY DEF Next
<1> DEFINE target(k) == code[Current][k].target
<1>2. PICK k \in func :
        /\ func' = func \ {k}
        /\ found' = Append(found, code[Current][k].isa)
        /\ seen' = seen \cup New(target(k))
        /\ list' = IF New(target(k)) = {} THEN list ELSE Append(list, target(k))
  BY DEF Decode
<1>3. /\ pc = "instruction" /\ pc' = pc /\ at' = at /\ known' = known
      /\ tsx' = tsx /\ xtest' = xtest /\ csv' = csv
      /\ code' = code /\ roots' = roots
  BY DEF Decode
<1>4. /\ Current \in Func /\ Current \notin Unreadable
      /\ at \in 1 .. Len(list) /\ Len(list) \in Nat
      /\ code[Current][k] \in Insn
      /\ New(target(k)) \subseteq Succ(Current)
      /\ Succ(Current) \subseteq Func
  BY <1>3, DecodeFacts
<1>5. list \in Seq(Func) /\ seen = Range(list)
  BY DEF TInv, TypeOK, LoopInv
<1>6. /\ list' \in Seq(Func)
      /\ Len(list') \in Nat /\ Len(list') >= Len(list)
      /\ \A j \in 1 .. Len(list) : list'[j] = list[j]
      /\ seen' = Range(list')
      /\ IsInjective(list) => IsInjective(list')
  <2>1. CASE New(target(k)) = {}
    BY <1>2, <1>4, <1>5, <2>1
  <2>2. CASE New(target(k)) # {}
    <3>1. New(target(k)) = {target(k)} /\ target(k) \notin seen
      BY <2>2 DEF New
    <3>2. target(k) \in Func
      BY <1>4, <3>1
    <3>3. list' = Append(list, target(k))
      BY <1>2, <2>2
    <3>4. seen' = seen \cup {target(k)}
      BY <1>2, <3>1
    <3> HIDE DEF target
    <3>5. target(k) \notin Range(list)
      BY <3>1, <1>5
    <3> QED
      BY <1>4, <1>5, <3>2, <3>3, <3>4, <3>5, AppendFacts
  <2> QED
    BY <2>1, <2>2
<1>7. TypeOK'
  <2>1. found' \in Seq({i.isa : i \in Insn})
    BY <1>2, <1>4 DEF TInv, TypeOK
  <2>2. seen' \subseteq Func
    BY <1>2, <1>4 DEF TInv, TypeOK
  <2> QED
    BY <1>2, <1>3, <1>6, <2>1, <2>2 DEF TInv, TypeOK
<1>8. LoopInv'
  <2>1. Range(roots') \subseteq seen'
    BY <1>2, <1>3 DEF TInv, LoopInv
  <2>2. Current' = Current
    BY <1>3, <1>4, <1>6 DEF Current
  <2>3. func' \subseteq {l \in Lines(Current) : Hot(code[Current][l])}'
    BY <1>2, <1>3, <2>2 DEF TInv, LoopInv, Lines, Hot
  <2>4. ASSUME Unambiguous
        PROVE  Succ(Current) \subseteq seen' \cup {target(l) : l \in func'}
    <3>1. Succ(Current) \subseteq seen \cup {target(l) : l \in func}
      BY <1>3, <2>4 DEF TInv, LoopInv
    <3>2. ASSUME NEW h \in Succ(Current) PROVE h \in seen' \cup {target(l) : l \in func'}
      <4>1. h # NoFunc
        BY <1>4, TrackingAssumption
      <4>2. CASE h \in seen
        BY <1>2, <4>2
      <4>3. CASE h \notin seen
        <5>1. PICK l \in func : h = target(l)
          BY <3>1, <4>3
        <5>2. CASE l = k
          BY <1>2, <4>1, <4>3, <5>1, <5>2 DEF New
        <5> QED
          BY <1>2, <5>1, <5>2
      <4> QED
        BY <4>2, <4>3
    <3> QED
      BY <3>2
  <2>5. ASSUME Unambiguous, NEW j \in 1 .. at - 1 PROVE Succ(list'[j]) \subseteq seen'
    BY <1>2, <1>4, <1>6, <2>5 DEF TInv, LoopInv
  <2>6. at' <= Len(list')
    BY <1>3, <1>4, <1>6
  <2>7. at' <= Len(list') + 1
    BY <1>3, <1>4, <1>6
  <2>8. {code[Current][l].target : l \in func}' = {target(l) : l \in func'}
    BY <1>3, <2>2
  <2> HIDE DEF target
  <2> QED
    BY <1>1, <1>3, <1>4, <1>6, <2>1, <2>2, <2>3, <2>4, <2>5, <2>6, <2>7, <2>8, SameProgram
    DEF LoopInv
<1>9. OnlyReachable'
  <2>1. Current \in Reachable
    <3>1. Current \in Range(list)
      BY <1>4, <1>5 DEF Current, Range
    <3> QED
      BY <1>5, <3>1 DEF TInv, OnlyReachable
  <2>2. Succ(Current) \subseteq Reachable
    BY <2>1, ReachableClosed DEF TInv
  <2> QED
    BY <1>1, <1>2, <1>4, <2>2, SameProgram DEF TInv, OnlyReachable
<1>10. EachOnce'
  BY <1>1, <1>6, SameProgram DEF TInv, EachOnce
<1> QED
  BY <1>7, <1>8, <1>9, <1>10 DEF TInv

LEMMA NextFunctionStep == TInv /\ NextFunction => TInv'
<1> SUFFICES ASSUME TInv, NextFunction PROVE TInv'
  OBVIOUS
<1> USE DEF NextFunction
<1>1. [Next]_vars
  BY DEF Next
<1>2. TypeOK'
  BY DEF TInv, TypeOK
<1>3. LoopInv'
  <2>1. at \in Nat \ {0} /\ Len(list) \in Nat /\ at <= Len(list)
    BY DEF TInv, TypeOK, LoopInv
  <2>2. ASSUME Unambiguous, NEW j \in 1 .. at' - 1 PROVE Succ(list[j]) \subseteq seen
    <3>1. CASE j = at
      BY <2>2, <3>1 DEF TInv, LoopInv, Current
    <3>2. CASE j # at
      BY <2>1, <2>2, <3>2 DEF TInv, LoopInv
    <3> QED
      BY <3>1, <3>2
  <2> QED
    BY <1>1, <2>1, <2>2, SameProgram DEF TInv, LoopInv
<1>4. OnlyReachable' /\ EachOnce'
  BY <1>1, SameProgram DEF TInv, OnlyReachable, EachOnce
<1> QED
  BY <1>2, <1>3, <1>4 DEF TInv

LEMMA EndStep == TInv /\ (Raises \/ create_csv \/ UNCHANGED vars) => TInv'
<1> SUFFICES ASSUME TInv, Raises \/ create_csv \/ UNCHANGED vars PROVE TInv'
  OBVIOUS
<1>1. [Next]_vars
  BY DEF Next
<1>2. /\ list' = list /\ seen' = seen /\ at' = at /\ func' = func /\ found' = found
      /\ tsx' = tsx /\ xtest' = xtest /\ code' = code /\ roots' = roots
      /\ pc' = pc \/ pc' = "raised" \/ (pc' = "done" /\ at > Len(list))
  BY DEF Raises, create_csv, vars
<1>3. TypeOK'
  BY <1>2 DEF TInv, TypeOK
<1>4. LoopInv'
  <2>1. at \in Nat \ {0} /\ Len(list) \in Nat
    BY DEF TInv, TypeOK
  <2>2. pc' = "done" => at = Len(list) + 1
    BY <1>2, <2>1 DEF TInv, LoopInv
  <2>3. pc' = "instruction" => pc = "instruction"
    BY <1>2
  <2>4. Current' = Current
    BY <1>2 DEF Current
  <2>5. {k \in Lines(Current) : Hot(code[Current][k])}' =
          {k \in Lines(Current) : Hot(code[Current][k])}
    BY <1>2, <2>4 DEF Lines, Hot
  <2> QED
    BY <1>1, <1>2, <2>2, <2>3, <2>4, <2>5, SameProgram DEF TInv, LoopInv
<1>5. OnlyReachable' /\ EachOnce'
  BY <1>1, <1>2, SameProgram DEF TInv, OnlyReachable, EachOnce
<1> QED
  BY <1>3, <1>4, <1>5 DEF TInv

\* The invariant of the loop holds throughout.
THEOREM TrackingInvariance == Spec => []TInv
<1>1. Init => TInv
  BY InitTInv
<1>2. TInv /\ [Next]_vars => TInv'
  BY CannotDisassembleStep, DisFuncStep, DecodeStep, NextFunctionStep, EndStep
  DEF Next, Finished
<1> QED
  BY <1>1, <1>2, PTL DEF Spec

-----------------------------------------------------------------------------
(* What follows from it.                                                   *)

\* The script's variables keep their types.
THEOREM TrackingTypeCorrect == Spec => []TypeOK
<1>1. TInv => TypeOK
  BY DEF TInv
<1> QED
  BY <1>1, TrackingInvariance, PTL

\* Nothing but reachable functions is tracked, in any workload.
THEOREM OnlyReachableHolds == Spec => []OnlyReachable
<1>1. TInv => OnlyReachable
  BY DEF TInv
<1> QED
  BY <1>1, TrackingInvariance, PTL

\* No function is disassembled twice, in any workload.
THEOREM EachOnceHolds == Spec => []EachOnce
<1>1. TInv => EachOnce
  BY DEF TInv
<1> QED
  BY <1>1, TrackingInvariance, PTL

\* When the script is done, every reachable function has been tracked: the set of
\* tracked functions is closed under Succ, and Reachable is the least such set.
THEOREM AllReachableHolds == Spec => []AllReachable
<1>1. TInv => AllReachable
  <2> SUFFICES ASSUME TInv, pc = "done", Unambiguous PROVE Reachable \subseteq seen
    BY DEF AllReachable
  <2>1. seen \in SUBSET Func /\ seen = Range(list) /\ at = Len(list) + 1 /\ Len(list) \in Nat
    BY DEF TInv, TypeOK, LoopInv
  <2>2. ASSUME NEW f \in seen PROVE Succ(f) \subseteq seen
    <3>1. PICK j \in 1 .. Len(list) : list[j] = f
      BY <2>1, <2>2 DEF TInv, TypeOK, Range
    <3> QED
      BY <2>1, <3>1 DEF TInv, LoopInv
  <2>3. Closed(seen)
    BY <2>2 DEF TInv, LoopInv, Closed
  <2> QED
    BY <2>1, <2>3, ReachableLeast
<1> QED
  BY <1>1, TrackingInvariance, PTL

\* Every ISA set found is that of an instruction of a reachable function.
THEOREM FoundInReachableHolds == Spec => []FoundInReachable
<1>1. Init => FoundInReachable
  BY DEF Init, FoundInReachable, Range
<1>2. TInv /\ FoundInReachable /\ [Next]_vars => FoundInReachable'
  <2> SUFFICES ASSUME TInv, FoundInReachable, [Next]_vars PROVE FoundInReachable'
    OBVIOUS
  <2>1. code' = code /\ Reachable' = Reachable
    BY SameProgram
  <2>2. \A f : IsaOf(f)' = IsaOf(f)
    BY <2>1 DEF IsaOf, Lines
  <2>3. CASE Decode
    <3>1. PICK k \in func : found' = Append(found, code[Current][k].isa)
      BY <2>3 DEF Decode
    <3>2. /\ Current \in Func /\ Current \notin Unreadable
          /\ at \in 1 .. Len(list) /\ k \in Lines(Current) /\ code[Current][k] \in Insn
      BY <2>3, <3>1, DecodeFacts DEF Decode
    <3>3. Current \in Reachable
      <4>1. Current \in Range(list)
        BY <3>2 DEF Current, Range, TInv, TypeOK
      <4> QED
        BY <4>1 DEF TInv, LoopInv, OnlyReachable
    <3>4. code[Current][k].isa \in IsaOf(Current)
      BY <3>2 DEF IsaOf
    <3>5. Range(found') = Range(found) \cup {code[Current][k].isa}
      <4>1. found \in Seq({i.isa : i \in Insn})
        BY DEF TInv, TypeOK
      <4>2. code[Current][k].isa \in {i.isa : i \in Insn}
        BY <3>2
      <4> HIDE DEF TInv
      <4>3. \A S, e : found \in Seq(S) /\ e \in S => Range(Append(found, e)) = Range(found) \cup {e}
        BY AppendFacts
      <4> QED
        BY <3>1, <4>1, <4>2, <4>3, Zenon
    <3> QED
      BY <2>1, <2>2, <3>3, <3>4, <3>5 DEF FoundInReachable
  <2>4. CASE found' = found
    BY <2>1, <2>2, <2>4 DEF FoundInReachable
  <2>5. Decode \/ found' = found
    BY DEF Next, vars, CannotDisassemble, dis_func, NextFunction, Raises, create_csv,
           Finished
  <2> QED
    BY <2>3, <2>4, <2>5
<1> QED
  BY <1>1, <1>2, TrackingInvariance, PTL DEF Spec

\* The first row of each ISA set other than RTM is kept, and only the one that
\* XTEST overwrites is missing.
LEMMA LostRow ==
  ASSUME TypeOK, create_csv
  PROVE  /\ Range(found) \ (csv' \cup {"RTM"}) \subseteq {found[Cardinality(Rows) + 1]}
         /\ ~xtest => Range(found) \ (csv' \cup {"RTM"}) = {}
<1>1. DOMAIN found \subseteq Nat
  BY DEF TypeOK
<1>2. ASSUME NEW x \in Range(found) \ {"RTM"}
      PROVE  \E k \in Rows : found[k] = x
  <2> DEFINE T == {k \in DOMAIN found : found[k] = x}
  <2>1. T \subseteq Nat /\ T # {}
    BY <1>1 DEF Range
  <2>2. PICK k \in T : \A l \in T : k <= l
    BY <2>1, LeastNat
  <2>3. k \in FirstRows
    BY <1>1, <2>1, <2>2 DEF FirstRows
  <2> QED
    BY <2>3 DEF Rows
<1>3. \A k \in Rows \ Overwritten : found[k] \in csv'
  BY DEF create_csv
<1>4. \A k \in Rows : k \notin Overwritten \/ (xtest /\ k = Cardinality(Rows) + 1)
  BY DEF Overwritten
<1> QED
  BY <1>2, <1>3, <1>4

\* pandas drops duplicates under the old labels, so that XTEST may take another
\* row's place: it takes one place, and only when there is an XTEST.
THEOREM LosesAtMostOneRowHolds == Spec => []LosesAtMostOneRow
<1>1. Init => LosesAtMostOneRow
  BY DEF Init, LosesAtMostOneRow
<1>2. TInv /\ LosesAtMostOneRow /\ [Next]_vars => LosesAtMostOneRow'
  <2> SUFFICES ASSUME TInv, LosesAtMostOneRow, [Next]_vars PROVE LosesAtMostOneRow'
    OBVIOUS
  <2>1. CASE create_csv
    <3> DEFINE S == Range(found) \ (csv' \cup {"RTM"})
               x == found[Cardinality(Rows) + 1]
    <3>1. S \subseteq {x} /\ (~xtest => S = {})
      BY <2>1, LostRow DEF TInv
    <3>2. Cardinality(S) <= IF xtest THEN 1 ELSE 0
      <4> HIDE DEF S, x
      <4>1. Cardinality({}) = 0 /\ Cardinality({x}) = 1
        BY FS_EmptySet, FS_Singleton
      <4>2. S = {} \/ (S = {x} /\ xtest)
        BY <3>1
      <4> QED
        BY <4>1, <4>2
    <3>3. found' = found /\ xtest' = xtest
      BY <2>1 DEF create_csv
    <3>4. Range(found)' = Range(found)
      BY <3>3
    <3> QED
      BY <3>2, <3>3, <3>4 DEF LosesAtMostOneRow
  <2>2. CASE ~create_csv
    <3>1. pc' = "done" => UNCHANGED vars
      BY <2>2 DEF Next, CannotDisassemble, dis_func, Decode, NextFunction, Raises, Finished, vars
    <3>2. UNCHANGED vars => (LosesAtMostOneRow' <=> LosesAtMostOneRow)
      BY DEF vars, LosesAtMostOneRow, Range
    <3> QED
      BY <3>1, <3>2 DEF LosesAtMostOneRow
  <2> QED
    BY <2>1, <2>2
<1> QED
  BY <1>1, <1>2, TrackingInvariance, PTL DEF Spec

=============================================================================
