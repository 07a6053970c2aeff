------------------------ MODULE ModuleWorklist_proofs ------------------------
(***************************************************************************)
(* Proofs about the worklist of modules, for any modules, functions and    *)
(* scripts: what it finds is what can be called.                           *)
(***************************************************************************)
EXTENDS ModuleWorklist, Lemmas

Module == Python \cup {Main}

-----------------------------------------------------------------------------
(* What can be called is the least set that holds the top level of the     *)
(* script and, with a function, what it calls.                             *)

\* What the functions U of a module make it call.
LEMMA ScriptFacts ==
  ASSUME NEW s \in Scripts, NEW m \in Module
  PROVE  /\ Own \notin DOMAIN s[m].imports
         /\ \A a \in DOMAIN s[m].imports : s[m].imports[a] \in Python \cup Native
         /\ \A a \in DOMAIN s[m].imports : <<a, s[m].imports[a]>> \in Imports(s)
         /\ \A c \in s[m].top : c[1] \in DOMAIN s[m].imports \cup {Own} /\ c[2] \in Function
         /\ \A f \in DOMAIN s[m].defs : \A c \in s[m].defs[f] :
              c[1] \in DOMAIN s[m].imports \cup {Own} /\ c[2] \in Function
<1>1. /\ DOMAIN s[m].imports \subseteq Alias
      /\ \A a \in DOMAIN s[m].imports : s[m].imports[a] \in Python \cup Native
      /\ \A c \in s[m].top \cup UNION { s[m].defs[f] : f \in DOMAIN s[m].defs } :
           c[1] \in DOMAIN s[m].imports \cup {Own} /\ c[2] \in Function
  BY ScriptsAssumption DEF Module
<1>2. Own \notin DOMAIN s[m].imports
  BY <1>1, ScriptsAssumption
<1>3. \A a \in DOMAIN s[m].imports : <<a, s[m].imports[a]>> \in Imports(s)
  BY DEF Imports, Module
<1>4. \A f \in DOMAIN s[m].defs : \A c \in s[m].defs[f] :
        c \in UNION { s[m].defs[g] : g \in DOMAIN s[m].defs }
  OBVIOUS
<1> QED
  BY <1>1, <1>2, <1>3, <1>4

LEMMA CalleeType ==
  ASSUME NEW s \in Scripts, NEW m \in Module, NEW c,
         c[1] \in DOMAIN s[m].imports \cup {Own}, c[2] \in Function
  PROVE  Callee(s, m, c) \in Node
<1>1. CASE c[1] = Own
  BY <1>1 DEF Callee, Node, Module
<1>2. CASE c[1] # Own
  <2>1. s[m].imports[c[1]] \in Python \cup Native
    BY <1>2, ScriptFacts
  <2> QED
    BY <1>2, <2>1 DEF Callee, Node
<1> QED
  BY <1>1, <1>2

LEMMA SuccessorsType ==
  ASSUME NEW s \in Scripts, NEW n \in Node
  PROVE  Successors(s, n) \subseteq Node
<1>1. CASE n[1] \in Native
  BY <1>1 DEF Successors
<1>2. CASE n[1] \notin Native
  <2>1. n[1] \in Module
    BY <1>2 DEF Node, Module
  <2>2. \A c \in s[n[1]].top : Callee(s, n[1], c) \in Node
    BY <2>1, ScriptFacts, CalleeType
  <2>3. \A f \in DOMAIN s[n[1]].defs : \A c \in s[n[1]].defs[f] : Callee(s, n[1], c) \in Node
    BY <2>1, ScriptFacts, CalleeType
  <2>4. \A a \in DOMAIN s[n[1]].imports : <<s[n[1]].imports[a], Own>> \in Node
    BY <2>1, ScriptFacts DEF Node
  <2>5. CASE n[2] = Own
    BY <1>2, <2>2, <2>4, <2>5 DEF Successors
  <2>6. CASE n[2] # Own
    BY <1>2, <2>3, <2>6 DEF Successors
  <2> QED
    BY <2>5, <2>6
<1> QED
  BY <1>1, <1>2

Closed(s, S) == \A n \in S : Successors(s, n) \subseteq S

IsWithin(W, s, N) ==
  W = [k \in 0 .. N |->
         IF k = 0 THEN {<<Main, Own>>} ELSE W[k - 1] \cup UNION { Successors(s, n) : n \in W[k - 1] }]

\* The recursive definition has a solution.
LEMMA WithinExists ==
  ASSUME NEW s \in Scripts, NEW N \in Nat
  PROVE  \E W : W \in [0 .. N -> SUBSET Node] /\ IsWithin(W, s, N)
<1> DEFINE T == { m \in Nat : \E W : W \in [0 .. m -> SUBSET Node] /\ IsWithin(W, s, m) }
<1>1. 0 \in T
  <2> DEFINE W == [k \in 0 .. 0 |-> {<<Main, Own>>}]
  <2>1. W \in [0 .. 0 -> SUBSET Node]
    BY DEF Node
  <2>2. IsWithin(W, s, 0)
    BY DEF IsWithin
  <2> QED
    BY <2>1, <2>2
<1>2. ASSUME NEW m \in Nat, m \in T PROVE m + 1 \in T
  <2>1. PICK W : W \in [0 .. m -> SUBSET Node] /\ IsWithin(W, s, m)
    BY <1>2
  <2> DEFINE Bound == W[m] \cup UNION { Successors(s, n) : n \in W[m] }
             V == [k \in 0 .. m + 1 |-> IF k = m + 1 THEN Bound ELSE W[k]]
  <2>2. W[m] \subseteq Node
    BY <2>1
  <2>3. Bound \subseteq Node
    BY <2>2, SuccessorsType
  <2> HIDE DEF Bound
  <2>4. V \in [0 .. m + 1 -> SUBSET Node]
    BY <2>1, <2>3
  <2>5. ASSUME NEW k \in 0 .. m + 1
        PROVE  V[k] = IF k = 0 THEN {<<Main, Own>>} ELSE V[k - 1] \cup UNION { Successors(s, n) : n \in V[k - 1] }
    <3>1. CASE k = m + 1
      <4>1. k # 0 /\ k - 1 = m /\ V[k] = Bound /\ V[k - 1] = W[m]
        BY <3>1
      <4> QED
        BY <4>1 DEF Bound
    <3>2. CASE k = 0
      <4>1. V[k] = W[k] /\ k \in 0 .. m
        BY <3>2
      <4> QED
        BY <2>1, <3>2, <4>1 DEF IsWithin
    <3>3. CASE k # m + 1 /\ k # 0
      <4>1. V[k] = W[k] /\ V[k - 1] = W[k - 1] /\ k \in 0 .. m
        BY <3>3
      <4>2. W[k] = W[k - 1] \cup UNION { Successors(s, n) : n \in W[k - 1] }
        BY <2>1, <3>3, <4>1 DEF IsWithin
      <4> QED
        BY <3>3, <4>1, <4>2
    <3> QED
      BY <3>1, <3>2, <3>3
  <2> HIDE DEF V
  <2>6. IsWithin(V, s, m + 1)
    BY <2>4, <2>5 DEF IsWithin
  <2> QED
    BY <2>4, <2>6
<1>3. Nat \subseteq T
  <2> HIDE DEF T
  <2> QED
    BY <1>1, <1>2, SetInduction
<1> QED
  BY <1>3

LEMMA NodeFinite == IsFiniteSet(Node)
<1>1. IsFiniteSet({Main}) /\ IsFiniteSet({Own})
  BY FS_Singleton
<1>2. IsFiniteSet(Python \cup {Main} \cup Native)
  BY <1>1, ScriptsAssumption, FS_Union
<1>3. IsFiniteSet(Function \cup {Own})
  BY <1>1, ScriptsAssumption, FS_Union
<1> QED
  BY <1>2, <1>3, FS_Product DEF Node

\* A step of the recursion adds a node, unless the set is closed.
LEMMA WithinStep ==
  ASSUME NEW s \in Scripts, NEW A \in SUBSET Node, NEW B, B = A \cup UNION { Successors(s, n) : n \in A }
  PROVE  /\ B \in SUBSET Node
         /\ Closed(s, A) => B = A
         /\ ~ Closed(s, A) => Cardinality(B) >= Cardinality(A) + 1
<1>1. B \in SUBSET Node
  BY SuccessorsType
<1>2. Closed(s, A) => B = A
  BY DEF Closed
<1>3. ASSUME ~ Closed(s, A) PROVE Cardinality(B) >= Cardinality(A) + 1
  <2>1. PICK x \in B : x \notin A
    BY <1>3 DEF Closed
  <2>2. IsFiniteSet(A) /\ IsFiniteSet(B)
    BY <1>1, NodeFinite, FS_Subset
  <2>3. A \cup {x} \subseteq B
    BY <2>1
  <2>4. Cardinality(A \cup {x}) = Cardinality(A) + 1
    BY <2>1, <2>2, FS_AddElement
  <2>5. Cardinality(A \cup {x}) <= Cardinality(B)
    BY <2>2, <2>3, FS_Subset
  <2>6. Cardinality(A) \in Nat /\ Cardinality(B) \in Nat
    BY <2>2, FS_CardinalityType
  <2> QED
    BY <2>4, <2>5, <2>6
<1> QED
  BY <1>1, <1>2, <1>3

\* The nodes found after as many steps as there are nodes: no step adds one.
LEMMA ReachableFacts ==
  ASSUME NEW s \in Scripts
  PROVE  /\ Reachable(s) \in SUBSET Node
         /\ <<Main, Own>> \in Reachable(s)
         /\ Closed(s, Reachable(s))
         /\ \A S : <<Main, Own>> \in S /\ Closed(s, S) => Reachable(s) \subseteq S
<1> DEFINE N == Cardinality(Node)
<1>1. N \in Nat
  BY NodeFinite, FS_CardinalityType
<1> HIDE DEF N
<1> DEFINE W == CHOOSE V : IsWithin(V, s, N)
<1>2. IsWithin(W, s, N)
  <2>1. \E V : IsWithin(V, s, N)
    BY <1>1, WithinExists
  <2> QED
    BY <2>1
<1>3. Reachable(s) = W[N]
  BY DEF Reachable, IsWithin, N
<1> HIDE DEF W
<1>4. /\ W[0] = {<<Main, Own>>}
      /\ \A k \in Nat : k + 1 \in 0 .. N => W[k + 1] = W[k] \cup UNION { Successors(s, n) : n \in W[k] }
  <2>1. 0 \in 0 .. N
    BY <1>1
  <2>2. W[0] = {<<Main, Own>>}
    BY <1>2, <2>1 DEF IsWithin
  <2>3. ASSUME NEW k \in Nat, k + 1 \in 0 .. N
        PROVE  W[k + 1] = W[k] \cup UNION { Successors(s, n) : n \in W[k] }
    <3>1. k + 1 # 0 /\ (k + 1) - 1 = k
      OBVIOUS
    <3> QED
      BY <1>2, <2>3, <3>1 DEF IsWithin
  <2> QED
    BY <2>2, <2>3
<1> DEFINE Good(k) == /\ W[k] \in SUBSET Node /\ <<Main, Own>> \in W[k]
                      /\ Closed(s, W[k]) \/ Cardinality(W[k]) >= k + 1
<1>5. Good(N)
  <2> DEFINE T == { k \in Nat : k <= N => Good(k) }
  <2>1. 0 \in T
    <3>1. W[0] \in SUBSET Node /\ <<Main, Own>> \in W[0]
      BY <1>4 DEF Node
    <3>2. Cardinality(W[0]) = 1
      BY <1>4, FS_Singleton
    <3> QED
      BY <3>1, <3>2
  <2>2. ASSUME NEW k \in Nat, k \in T PROVE k + 1 \in T
    <3> SUFFICES ASSUME k + 1 <= N PROVE Good(k + 1)
      OBVIOUS
    <3>1. k <= N /\ k + 1 \in 0 .. N
      BY <1>1
    <3>2. Good(k)
      BY <2>2, <3>1
    <3>3. W[k + 1] = W[k] \cup UNION { Successors(s, n) : n \in W[k] }
      BY <1>4, <3>1
    <3>4. /\ W[k + 1] \in SUBSET Node
          /\ Closed(s, W[k]) => W[k + 1] = W[k]
          /\ ~ Closed(s, W[k]) => Cardinality(W[k + 1]) >= Cardinality(W[k]) + 1
      BY <3>2, <3>3, WithinStep
    <3>5. <<Main, Own>> \in W[k + 1]
      BY <3>2, <3>3
    <3>6. CASE Closed(s, W[k])
      BY <3>4, <3>5, <3>6
    <3>7. CASE ~ Closed(s, W[k])
      <4>1. IsFiniteSet(W[k]) /\ IsFiniteSet(W[k + 1])
        BY <3>2, <3>4, NodeFinite, FS_Subset
      <4>2. Cardinality(W[k]) \in Nat /\ Cardinality(W[k + 1]) \in Nat
        BY <4>1, FS_CardinalityType
      <4>3. Cardinality(W[k + 1]) >= k + 1 + 1
        BY <3>2, <3>4, <3>7, <4>2
      <4> QED
        BY <3>4, <3>5, <4>3
    <3> QED
      BY <3>6, <3>7
  <2>3. Nat \subseteq T
    <3> HIDE DEF T
    <3> QED
      BY <2>1, <2>2, SetInduction
  <2>4. N \in T /\ N <= N
    <3> HIDE DEF T
    <3> QED
      BY <1>1, <2>3
  <2> HIDE DEF Good
  <2> QED
    BY <2>4
<1>6. /\ W[N] \in SUBSET Node /\ <<Main, Own>> \in W[N]
      /\ Closed(s, W[N]) \/ Cardinality(W[N]) >= N + 1
  BY <1>5
<1>7. Cardinality(W[N]) <= N /\ Cardinality(W[N]) \in Nat
  <2>1. IsFiniteSet(W[N]) /\ Cardinality(W[N]) <= N
    <3>1. W[N] \subseteq Node
      BY <1>6
    <3> QED
      BY <3>1, NodeFinite, FS_Subset, Zenon DEF N
  <2>2. Cardinality(W[N]) \in Nat
    BY <2>1, FS_CardinalityType
  <2> QED
    BY <2>1, <2>2
<1>8. Closed(s, W[N])
  BY <1>1, <1>6, <1>7
<1>9. ASSUME NEW S, <<Main, Own>> \in S, Closed(s, S) PROVE W[N] \subseteq S
  <2> DEFINE T == { k \in Nat : k <= N => W[k] \subseteq S }
  <2>1. 0 \in T
    BY <1>4, <1>9
  <2>2. ASSUME NEW k \in Nat, k \in T PROVE k + 1 \in T
    <3> SUFFICES ASSUME k + 1 <= N PROVE W[k + 1] \subseteq S
      OBVIOUS
    <3>1. k <= N /\ k + 1 \in 0 .. N
      BY <1>1
    <3>2. W[k] \subseteq S
      BY <2>2, <3>1
    <3>3. W[k + 1] = W[k] \cup UNION { Successors(s, n) : n \in W[k] }
      BY <1>4, <3>1
    <3> QED
      BY <1>9, <3>2, <3>3 DEF Closed
  <2>3. Nat \subseteq T
    <3> HIDE DEF T
    <3> QED
      BY <2>1, <2>2, SetInduction
  <2> QED
    BY <1>1, <2>3
<1> QED
  BY <1>3, <1>6, <1>8, <1>9

-----------------------------------------------------------------------------
(* The maps.                                                               *)

Entry == [origin_name : Python \cup Native, called : SUBSET Function]

IsMerged(A, B, M) ==
  /\ DOMAIN M = DOMAIN A \cup DOMAIN B
  /\ M = [a \in DOMAIN M |-> M[a]]
  /\ \A a \in DOMAIN B \ DOMAIN A : M[a] = B[a]
  /\ \A a \in DOMAIN A \ DOMAIN B : M[a] = A[a]
  /\ \A a \in DOMAIN A \cap DOMAIN B :
       M[a] = IF A[a].origin_name # B[a].origin_name THEN B[a]
              ELSE [A[a] EXCEPT !.called = A[a].called \cup B[a].called]

LEMMA MergedValue ==
  ASSUME NEW A, NEW B
  PROVE  IsMerged(A, B, Merged(A, B))
<1>1. DOMAIN Merged(A, B) = DOMAIN A \cup DOMAIN B
  BY DEF Merged
<1>2. \A a \in DOMAIN B \ DOMAIN A : Merged(A, B)[a] = B[a]
  BY DEF Merged
<1>3. \A a \in DOMAIN A \ DOMAIN B : Merged(A, B)[a] = A[a]
  BY DEF Merged
<1>4. ASSUME NEW a \in DOMAIN A \cap DOMAIN B
      PROVE  Merged(A, B)[a] = IF A[a].origin_name # B[a].origin_name THEN B[a]
                               ELSE [A[a] EXCEPT !.called = A[a].called \cup B[a].called]
  <2>1. a \in DOMAIN A /\ a \in DOMAIN B
    OBVIOUS
  <2>2. CASE A[a].origin_name # B[a].origin_name
    BY <2>1, <2>2 DEF Merged
  <2>3. CASE A[a].origin_name = B[a].origin_name
    BY <2>1, <2>3 DEF Merged
  <2> QED
    BY <2>2, <2>3
<1>5. Merged(A, B) = [a \in DOMAIN Merged(A, B) |-> Merged(A, B)[a]]
  BY DEF Merged
<1> QED
  BY <1>1, <1>2, <1>3, <1>4, <1>5, Zenon DEF IsMerged

LEMMA IsMapEntry ==
  ASSUME NEW s, NEW M, IsMap(s, M)
  PROVE  \A a \in DOMAIN M : M[a] \in Entry /\ <<a, M[a].origin_name>> \in Imports(s)
BY DEF IsMap, Entry

\* What Merged returns: a map again, ...
LEMMA MergedType ==
  ASSUME NEW s, NEW A, NEW B, IsMap(s, A), IsMap(s, B)
  PROVE  IsMap(s, Merged(A, B))
<1> DEFINE M == Merged(A, B)
<1>1. IsMerged(A, B, M)
  BY MergedValue
<1> HIDE DEF M
<1>3. \A a \in DOMAIN A : A[a] \in Entry /\ <<a, A[a].origin_name>> \in Imports(s)
  BY IsMapEntry
<1>4. \A a \in DOMAIN B : B[a] \in Entry /\ <<a, B[a].origin_name>> \in Imports(s)
  BY IsMapEntry
<1>5. ASSUME NEW a \in DOMAIN M
      PROVE  M[a] \in Entry /\ <<a, M[a].origin_name>> \in Imports(s)
  <2>1. CASE a \in DOMAIN B \ DOMAIN A
    BY <1>1, <1>4, <2>1 DEF IsMerged
  <2>2. CASE a \in DOMAIN A \ DOMAIN B
    BY <1>1, <1>3, <2>2 DEF IsMerged
  <2>3. CASE a \in DOMAIN A \cap DOMAIN B
    <3>1. CASE A[a].origin_name # B[a].origin_name
      BY <1>1, <1>4, <2>3, <3>1 DEF IsMerged
    <3>2. CASE A[a].origin_name = B[a].origin_name
      <4>1. M[a] = [A[a] EXCEPT !.called = A[a].called \cup B[a].called]
        BY <1>1, <2>3, <3>2 DEF IsMerged
      <4> QED
        BY <1>3, <1>4, <2>3, <4>1 DEF Entry
    <3> QED
      BY <3>1, <3>2
  <2> QED
    BY <1>1, <2>1, <2>2, <2>3 DEF IsMerged
<1>6. M = [a \in DOMAIN M |-> M[a]]
  BY <1>1 DEF IsMerged
<1> QED
  BY <1>5, <1>6 DEF IsMap, Entry, M

Agree(A, B) == \A a \in DOMAIN A \cap DOMAIN B : A[a].origin_name = B[a].origin_name

IsJoin(A, B, M) ==
  /\ DOMAIN M = DOMAIN A \cup DOMAIN B
  /\ \A a \in DOMAIN A : M[a].origin_name = A[a].origin_name /\ A[a].called \subseteq M[a].called
  /\ \A a \in DOMAIN B : M[a].origin_name = B[a].origin_name /\ B[a].called \subseteq M[a].called
  /\ \A a \in DOMAIN M : \A f \in M[a].called :
       (a \in DOMAIN A /\ f \in A[a].called) \/ (a \in DOMAIN B /\ f \in B[a].called)

\* ... with the entries of both, where they agree.
LEMMA MergedJoin ==
  ASSUME NEW s, NEW A, NEW B, IsMap(s, A), IsMap(s, B), Agree(A, B)
  PROVE  IsJoin(A, B, Merged(A, B))
<1> DEFINE M == Merged(A, B)
<1>1. IsMerged(A, B, M)
  BY MergedValue
<1> HIDE DEF M
<1>2. ASSUME NEW a \in DOMAIN A \cap DOMAIN B
      PROVE  /\ M[a].origin_name = A[a].origin_name
             /\ M[a].origin_name = B[a].origin_name
             /\ M[a].called = A[a].called \cup B[a].called
  <2>1. A[a].origin_name = B[a].origin_name
    BY DEF Agree
  <2>2. M[a] = [A[a] EXCEPT !.called = A[a].called \cup B[a].called]
    BY <1>1, <2>1 DEF IsMerged
  <2>3. A[a] \in Entry
    BY IsMapEntry
  <2> QED
    BY <2>1, <2>2, <2>3 DEF Entry
<1>3. \A a \in DOMAIN B \ DOMAIN A : M[a] = B[a]
  BY <1>1 DEF IsMerged
<1>4. \A a \in DOMAIN A \ DOMAIN B : M[a] = A[a]
  BY <1>1 DEF IsMerged
<1>5. ASSUME NEW a \in DOMAIN A
      PROVE  M[a].origin_name = A[a].origin_name /\ A[a].called \subseteq M[a].called
  <2>1. CASE a \in DOMAIN B
    BY <1>2, <2>1
  <2>2. CASE a \notin DOMAIN B
    BY <1>4, <2>2
  <2> QED
    BY <2>1, <2>2
<1>6. ASSUME NEW a \in DOMAIN B
      PROVE  M[a].origin_name = B[a].origin_name /\ B[a].called \subseteq M[a].called
  <2>1. CASE a \in DOMAIN A
    BY <1>2, <2>1
  <2>2. CASE a \notin DOMAIN A
    BY <1>3, <2>2
  <2> QED
    BY <2>1, <2>2
<1>7. ASSUME NEW a \in DOMAIN A \cup DOMAIN B, NEW f \in M[a].called
      PROVE  (a \in DOMAIN A /\ f \in A[a].called) \/ (a \in DOMAIN B /\ f \in B[a].called)
  <2>1. CASE a \in DOMAIN A \cap DOMAIN B
    BY <1>2, <1>7, <2>1
  <2>2. CASE a \notin DOMAIN A
    BY <1>3, <1>7, <2>2
  <2>3. CASE a \notin DOMAIN B
    BY <1>4, <1>7, <2>3
  <2> QED
    BY <2>1, <2>2, <2>3
<1> QED
  BY <1>1, <1>5, <1>6, <1>7 DEF M, IsMerged, IsJoin

\* Modules and aliases correspond, so that maps always agree.
LEMMA MapsAgree ==
  ASSUME Unambiguous, NEW A, NEW B, IsMap(script, A), IsMap(script, B)
  PROVE  /\ Agree(A, B)
         /\ \A a \in DOMAIN A, b \in DOMAIN B : A[a].origin_name = B[b].origin_name => a = b
<1>1. ASSUME NEW a \in DOMAIN A, NEW b \in DOMAIN B
      PROVE  a = b <=> A[a].origin_name = B[b].origin_name
  <2>1. <<a, A[a].origin_name>> \in Imports(script) /\ <<b, B[b].origin_name>> \in Imports(script)
    BY IsMapEntry
  <2> DEFINE x == <<a, A[a].origin_name>>
             y == <<b, B[b].origin_name>>
  <2>2. x[1] = y[1] <=> x[2] = y[2]
    BY <2>1 DEF Unambiguous
  <2> QED
    BY <2>2
<1> QED
  BY <1>1 DEF Agree

LEMMA CallsFacts ==
  ASSUME NEW cs, NEW a
  PROVE  \A f : f \in Calls(cs, a) <=> \E c \in cs : c[1] = a /\ c[2] = f
BY DEF Calls

LEMMA OriginsFacts ==
  ASSUME NEW M
  PROVE  \A m : m \in Origins(M) <=> \E a \in DOMAIN M : M[a].origin_name = m
BY DEF Origins

-----------------------------------------------------------------------------
(* What a module calls.                                                    *)

\* What the functions U of a module and its top level call.
LEMMA MadeFacts ==
  ASSUME NEW s \in Scripts, NEW m \in Module, NEW U
  PROVE  /\ \A c \in Made(s, m, U) : c[1] \in DOMAIN s[m].imports \cup {Own} /\ c[2] \in Function
         /\ s[m].top \subseteq Made(s, m, U)
         /\ \A f \in U \cap DOMAIN s[m].defs : s[m].defs[f] \subseteq Made(s, m, U)
         /\ \A c \in Made(s, m, U) : c \in s[m].top \/ \E f \in U \cap DOMAIN s[m].defs : c \in s[m].defs[f]
<1>1. s[m].top \subseteq Made(s, m, U)
  BY DEF Made
<1>2. \A f \in U \cap DOMAIN s[m].defs : s[m].defs[f] \subseteq Made(s, m, U)
  BY DEF Made
<1>3. \A c \in Made(s, m, U) : c \in s[m].top \/ \E f \in U \cap DOMAIN s[m].defs : c \in s[m].defs[f]
  BY DEF Made
<1>4. \A c \in Made(s, m, U) : c[1] \in DOMAIN s[m].imports \cup {Own} /\ c[2] \in Function
  BY <1>3, ScriptFacts
<1> QED
  BY <1>1, <1>2, <1>3, <1>4

LEMMA TrackedFacts ==
  ASSUME script \in Scripts, NEW m \in Module
  PROVE  /\ NewTracked(m) \subseteq Made(script, m, user_def)
         /\ \A c \in NewTracked(m) : c[1] \in DOMAIN script[m].imports \cup {Own} /\ c[2] \in Function
         /\ NewTracked(m) = {} =>
              \A c \in Made(script, m, user_def) :
                \/ c \in script[m].top
                \/ IF c[1] = Own THEN c[2] \in user_def ELSE c[2] \in parsed[c[1]].called
<1>1. Chains(m) \subseteq Made(script, m, user_def)
  BY DEF Chains, Made
<1>2. NewTracked(m) \subseteq Made(script, m, user_def)
  BY <1>1 DEF NewTracked
<1>3. \A c \in NewTracked(m) : c[1] \in DOMAIN script[m].imports \cup {Own} /\ c[2] \in Function
  BY <1>2, MadeFacts
<1>4. \A c \in Made(script, m, user_def) : c \in script[m].top \/ c \in Chains(m)
  BY DEF Chains, Made
<1>5. NewTracked(m) = {} =>
        \A c \in Chains(m) : IF c[1] = Own THEN c[2] \in user_def ELSE c[2] \in parsed[c[1]].called
  BY DEF NewTracked
<1> QED
  BY <1>2, <1>3, <1>4, <1>5

LEMMA ImportedFacts ==
  ASSUME script \in Scripts, NEW m \in Module, NEW cs, \A c \in cs : c[2] \in Function
  PROVE  /\ IsMap(script, Imported(m, cs))
         /\ DOMAIN Imported(m, cs) = DOMAIN script[m].imports
         /\ \A a \in DOMAIN script[m].imports :
              Imported(m, cs)[a].origin_name = script[m].imports[a] /\ Imported(m, cs)[a].called = Calls(cs, a)
<1>1. \A a : Calls(cs, a) \subseteq Function
  BY CallsFacts
<1>2. DOMAIN Imported(m, cs) = DOMAIN script[m].imports
  BY DEF Imported
<1>3. \A a \in DOMAIN script[m].imports :
        Imported(m, cs)[a] = [origin_name |-> script[m].imports[a], called |-> Calls(cs, a)]
  BY DEF Imported
<1>4. \A a \in DOMAIN script[m].imports :
        script[m].imports[a] \in Python \cup Native /\ <<a, script[m].imports[a]>> \in Imports(script)
  BY ScriptFacts
<1>5. Imported(m, cs) = [a \in DOMAIN Imported(m, cs) |-> Imported(m, cs)[a]]
  BY DEF Imported
<1> DEFINE M == Imported(m, cs)
<1>6. ASSUME NEW a \in DOMAIN M
      PROVE  M[a] \in Entry /\ <<a, M[a].origin_name>> \in Imports(script)
  <2>1. M[a] = [origin_name |-> script[m].imports[a], called |-> Calls(cs, a)]
    BY <1>2, <1>3
  <2>2. script[m].imports[a] \in Python \cup Native /\ <<a, script[m].imports[a]>> \in Imports(script)
    BY <1>2, <1>4
  <2>3. Calls(cs, a) \in SUBSET Function
    BY <1>1
  <2> HIDE DEF M
  <2> QED
    BY <2>1, <2>2, <2>3 DEF Entry
<1> HIDE DEF M
<1>7. IsMap(script, M)
  BY <1>5, <1>6 DEF IsMap, Entry, M
<1>8. ASSUME NEW a \in DOMAIN script[m].imports
      PROVE  M[a].origin_name = script[m].imports[a] /\ M[a].called = Calls(cs, a)
  <2> DEFINE o == script[m].imports[a]
             f == Calls(cs, a)
  <2>1. M[a] = [origin_name |-> o, called |-> f]
    BY <1>3 DEF M
  <2> HIDE DEF o, f
  <2>2. M[a].origin_name = o /\ M[a].called = f
    BY <2>1
  <2> QED
    BY <2>2 DEF o, f
<1> HIDE DEF Imported
<1> QED
  BY <1>2, <1>7, <1>8 DEF M

LEMMA EmptyMap ==
  ASSUME NEW s
  PROVE  IsMap(s, [a \in {} |-> {}]) /\ DOMAIN [a \in {} |-> {}] = {}
BY DEF IsMap

LEMMA OriginsType ==
  ASSUME NEW s, NEW M, IsMap(s, M)
  PROVE  Origins(M) \subseteq Python \cup Native
<1>1. \A a \in DOMAIN M : M[a] \in Entry
  BY IsMapEntry
<1> QED
  BY <1>1, OriginsFacts DEF Entry

\* The next round's map is part of what the last one found.
LEMMA NextTracking ==
  ASSUME NEW s, IsMap(s, new_called_map)
  PROVE  /\ IsMap(s, next_tracking)
         /\ DOMAIN next_tracking = Unique
         /\ Unique \subseteq DOMAIN new_called_map
         /\ \A a \in Unique : next_tracking[a] = new_called_map[a]
<1>1. Unique \subseteq DOMAIN new_called_map
  BY DEF Unique
<1>2. DOMAIN next_tracking = Unique /\ \A a \in Unique : next_tracking[a] = new_called_map[a]
  BY DEF next_tracking
<1>3. next_tracking = [a \in DOMAIN next_tracking |-> next_tracking[a]]
  BY DEF next_tracking
<1>4. \A a \in Unique : next_tracking[a] \in Entry /\ <<a, next_tracking[a].origin_name>> \in Imports(s)
  BY <1>1, <1>2, IsMapEntry
<1>5. IsMap(s, next_tracking)
  BY <1>2, <1>3, <1>4, Zenon DEF IsMap, Entry
<1> QED
  BY <1>1, <1>2, <1>5

-----------------------------------------------------------------------------
(* Types.                                                                  *)

LEMMA InitType == Init => TypeOK
<1> SUFFICES ASSUME Init PROVE TypeOK
  OBVIOUS
<1>1. script \in Scripts /\ Main \in Module
  BY DEF Init, Module
<1>2. \A c \in script[Main].top : c[2] \in Function
  BY <1>1, ScriptFacts
<1>3. IsMap(script, parsed)
  BY <1>1, <1>2, ImportedFacts DEF Init
<1>4. Origins(parsed) \subseteq Python \cup Native
  BY <1>3, OriginsType
<1>5. /\ IsMap(script, called_map) /\ IsMap(script, new_called_map) /\ IsMap(script, tracking)
  BY EmptyMap DEF Init
<1>6. user_def \subseteq Function
  BY <1>2, CallsFacts DEF Init
<1>7. called_func \in [Python -> SUBSET Function]
  BY DEF Init
<1> QED
  BY <1>1, <1>3, <1>4, <1>5, <1>6, <1>7 DEF Init, TypeOK

LEMMA NextType ==
  ASSUME TypeOK, [Next]_vars
  PROVE  TypeOK'
<1>1. ASSUME NEW m \in Python, ParseModule(m) PROVE TypeOK'
  <2>1. m \in Module /\ script \in Scripts
    BY DEF Module, TypeOK
  <2>2. \A c \in script[m].top : c[2] \in Function
    BY <2>1, ScriptFacts
  <2>3. IsMap(script, parsed')
    BY <1>1, <2>1, <2>2, ImportedFacts DEF ParseModule
  <2>4. PICK a \in AliasesOf(m) : called_func' = [called_func EXCEPT ![m] = @ \cup tracking[a].called]
    BY <1>1 DEF ParseModule
  <2>5. a \in DOMAIN tracking
    BY DEF AliasesOf
  <2>6. tracking[a].called \subseteq Function
    BY <2>5, IsMapEntry DEF TypeOK, Entry
  <2>7. called_func' \in [Python -> SUBSET Function]
    BY <2>4, <2>6 DEF TypeOK
  <2>8. Calls(script[m].top, Own) \subseteq Function
    BY <2>2, CallsFacts
  <2>9. user_def' \subseteq Function
    BY <1>1, <2>7, <2>8 DEF ParseModule
  <2> QED
    BY <1>1, <2>3, <2>7, <2>9 DEF ParseModule, TypeOK
<1>2. ASSUME UserDefTracking PROVE TypeOK'
  <2>1. module \in Module /\ script \in Scripts
    BY <1>2 DEF Module, TypeOK, UserDefTracking
  <2>2. \A c \in NewTracked(module) : c[2] \in Function
    BY <2>1, TrackedFacts
  <2>3. IsMap(script, Imported(module, NewTracked(module)))
    BY <2>1, <2>2, ImportedFacts
  <2>4. IsMap(script, parsed')
    BY <1>2, <2>3, MergedType DEF UserDefTracking, TypeOK
  <2>5. Calls(NewTracked(module), Own) \subseteq Function
    BY <2>2, CallsFacts
  <2>6. user_def' \subseteq Function
    BY <1>2, <2>5 DEF UserDefTracking, TypeOK
  <2> QED
    BY <1>2, <2>4, <2>6 DEF UserDefTracking, TypeOK
<1>3. ASSUME EndModule PROVE TypeOK'
  <2>1. IsMap(script, Merged(new_called_map, parsed))
    BY MergedType DEF TypeOK
  <2>2. CASE module = Main
    BY <1>3, <2>2 DEF EndModule, TypeOK
  <2>3. CASE module # Main
    BY <1>3, <2>1, <2>3 DEF EndModule, TypeOK
  <2> QED
    BY <2>2, <2>3
<1>4. ASSUME EndRound PROVE TypeOK'
  BY <1>4 DEF EndRound, TypeOK
<1>5. ASSUME NextRound PROVE TypeOK'
  <2>1. IsMap(script, next_tracking)
    BY NextTracking DEF TypeOK
  <2>2. Origins(next_tracking) \subseteq Python \cup Native
    BY <2>1, OriginsType
  <2>3. IsMap(script, called_map')
    BY <1>5, MergedType DEF NextRound, TypeOK
  <2>4. IsMap(script, new_called_map')
    BY <1>5, EmptyMap DEF NextRound
  <2> QED
    BY <1>5, <2>1, <2>2, <2>3, <2>4 DEF NextRound, TypeOK
<1>6. ASSUME Stop PROVE TypeOK'
  BY <1>6 DEF Stop, TypeOK
<1>7. ASSUME UNCHANGED vars PROVE TypeOK'
  BY <1>7 DEF vars, TypeOK
<1> QED
  BY <1>1, <1>2, <1>3, <1>4, <1>5, <1>6, <1>7 DEF Next

-----------------------------------------------------------------------------
(* Rounds.                                                                 *)

\* The script is neither another module nor none.
LEMMA ModuleFacts ==
  /\ Main \in Module /\ Python \subseteq Module
  /\ Main \notin Python /\ Main # "none" /\ "none" \notin Python
  /\ \A m \in Module : m \notin Native
BY ScriptsAssumption DEF Module

\* What a turn of user_def_tracking adds.
LEMMA TurnFacts ==
  ASSUME TypeOK, Unambiguous, ParsedInv, UserDefTracking
  PROVE  /\ module \in Module
         /\ DOMAIN parsed' = DOMAIN parsed
         /\ \A a \in DOMAIN parsed : /\ parsed'[a].origin_name = parsed[a].origin_name
                                     /\ parsed[a].called \subseteq parsed'[a].called
<1>1. module \in Module /\ script \in Scripts /\ module # "none"
  BY DEF TypeOK, Module, UserDefTracking
<1>2. \A c \in NewTracked(module) : c[2] \in Function
  BY <1>1, TrackedFacts
<1> DEFINE B == Imported(module, NewTracked(module))
<1>3. IsMap(script, B) /\ DOMAIN B = DOMAIN script[module].imports
  BY <1>1, <1>2, ImportedFacts
<1>4. parsed' = Merged(parsed, B)
  BY DEF UserDefTracking
<1> HIDE DEF B
<1>5. IsMap(script, parsed) /\ Agree(parsed, B)
  BY <1>3, MapsAgree DEF TypeOK
<1>6. DOMAIN parsed = DOMAIN B
  BY <1>1, <1>3 DEF ParsedInv
<1>7. IsJoin(parsed, B, parsed')
  BY <1>3, <1>4, <1>5, MergedJoin
<1> QED
  BY <1>1, <1>6, <1>7 DEF IsJoin

LEMMA InitRound == Init => RoundInv
<1> SUFFICES ASSUME Init PROVE RoundInv
  OBVIOUS
<1>1. DOMAIN called_map = {} /\ DOMAIN new_called_map = {}
  BY DEF Init
<1>2. Origins(called_map) = {}
  BY <1>1, OriginsFacts
<1> QED
  BY <1>1, <1>2, ModuleFacts DEF Init, RoundInv

LEMMA NextRoundInv ==
  ASSUME TypeOK, Unambiguous, RoundInv, ParsedInv, [Next]_vars
  PROVE  RoundInv'
<1>1. ASSUME NEW m \in Python, ParseModule(m) PROVE RoundInv'
  <2>1. module' # Main /\ pc' = "module" /\ module # Main
    BY <1>1, ModuleFacts DEF ParseModule
  <2>2. pycaches' \subseteq Origins(tracking)
    BY <1>1, <2>1 DEF ParseModule, RoundInv
  <2>3. Origins(called_map) \cap Python \subseteq modules_info
    BY DEF RoundInv
  <2> QED
    BY <1>1, <2>1, <2>2, <2>3 DEF ParseModule, RoundInv, Origins
<1>2. ASSUME UserDefTracking PROVE RoundInv'
  <2>1. Origins(parsed') = Origins(parsed)
    BY <1>2, TurnFacts DEF Origins
  <2> QED
    BY <1>2, <2>1 DEF UserDefTracking, RoundInv, Origins
<1>3. ASSUME EndModule PROVE RoundInv'
  <2>1. module' # Main /\ pc' = "module"
    BY <1>3, ModuleFacts DEF EndModule
  <2>2. CASE module = Main
    <3>1. called_map' = parsed /\ tracking' = parsed
      BY <1>3, <2>2 DEF EndModule
    <3>2. pycaches = Origins(parsed) /\ modules_info = Origins(parsed)
      BY <2>2 DEF RoundInv
    <3>3. pycaches' = Origins(tracking') /\ Origins(called_map') = modules_info'
      BY <1>3, <3>1, <3>2 DEF EndModule, Origins
    <3> QED
      BY <2>1, <3>3 DEF RoundInv
  <2>3. CASE module # Main
    <3>1. pycaches \subseteq Origins(tracking) /\ Origins(called_map) \cap Python \subseteq modules_info
      BY <2>3 DEF RoundInv
    <3> QED
      BY <1>3, <2>1, <2>3, <3>1 DEF EndModule, RoundInv, Origins
  <2> QED
    BY <2>2, <2>3
<1>4. ASSUME EndRound PROVE RoundInv'
  BY <1>4 DEF EndRound, RoundInv, Origins
<1>5. ASSUME NextRound PROVE RoundInv'
  <2>1. module' = "none" /\ pc' = "module" /\ module' # Main
    BY <1>5, ModuleFacts DEF NextRound, RoundInv
  <2>2. pycaches' = Origins(tracking')
    BY <1>5 DEF NextRound, Origins
  <2>3. ASSUME NEW m \in Origins(called_map'), m \in Python PROVE m \in modules_info'
    <3>1. PICK a \in DOMAIN called_map' : called_map'[a].origin_name = m
      BY <2>3 DEF Origins
    <3>2. /\ IsMap(script, called_map) /\ IsMap(script, new_called_map)
          /\ Agree(called_map, new_called_map)
      BY MapsAgree DEF TypeOK
    <3>3. called_map' = Merged(called_map, new_called_map)
      BY <1>5 DEF NextRound
    <3>4. /\ a \in DOMAIN called_map \cup DOMAIN new_called_map
          /\ a \in DOMAIN called_map => called_map[a].origin_name = m
          /\ a \in DOMAIN new_called_map => new_called_map[a].origin_name = m
      <4>1. IsJoin(called_map, new_called_map, called_map')
        BY <3>2, <3>3, MergedJoin
      <4> QED
        BY <3>1, <4>1 DEF IsJoin
    <3>5. CASE a \in DOMAIN called_map
      <4>1. m \in Origins(called_map)
        BY <3>4, <3>5, OriginsFacts
      <4> QED
        BY <1>5, <2>3, <4>1 DEF RoundInv, NextRound
    <3>6. CASE a \notin DOMAIN called_map
      <4>1. a \in Unique
        BY <3>4, <3>6 DEF Unique
      <4>2. a \in DOMAIN next_tracking /\ next_tracking[a].origin_name = m
        BY <3>4, <4>1, <3>2, NextTracking
      <4>3. m \in Origins(next_tracking)
        BY <4>2, OriginsFacts
      <4> QED
        BY <1>5, <4>3 DEF NextRound
    <3> QED
      BY <3>5, <3>6
  <2>4. (Origins(called_map) \cap Python \subseteq modules_info)'
    BY <2>3 DEF Origins
  <2> QED
    BY <2>1, <2>2, <2>4 DEF RoundInv, Origins
<1>6. ASSUME Stop PROVE RoundInv'
  BY <1>6 DEF Stop, RoundInv, Origins
<1>7. ASSUME UNCHANGED vars PROVE RoundInv'
  BY <1>7 DEF vars, RoundInv, Origins
<1> QED
  BY <1>1, <1>2, <1>3, <1>4, <1>5, <1>6, <1>7 DEF Next

LEMMA InitParsed == Init => ParsedInv
<1> SUFFICES ASSUME Init PROVE ParsedInv
  OBVIOUS
<1>1. script \in Scripts /\ module = Main
  BY DEF Init
<1>2. \A c \in script[Main].top : c[2] \in Function
  BY <1>1, ModuleFacts, ScriptFacts
<1> QED
  BY <1>1, <1>2, ImportedFacts, ModuleFacts DEF Init, ParsedInv

LEMMA NextParsed ==
  ASSUME TypeOK, Unambiguous, RoundInv, ParsedInv, [Next]_vars
  PROVE  ParsedInv'
<1>1. ASSUME NEW m \in Python, ParseModule(m) PROVE ParsedInv'
  <2>1. m \in Module /\ script \in Scripts
    BY ModuleFacts DEF TypeOK
  <2>2. \A c \in script[m].top : c[2] \in Function
    BY <2>1, ScriptFacts
  <2>3. /\ DOMAIN parsed' = DOMAIN script[m].imports
        /\ \A a \in DOMAIN script[m].imports : /\ parsed'[a].origin_name = script[m].imports[a]
                                               /\ parsed'[a].called = Calls(script[m].top, a)
    BY <1>1, <2>1, <2>2, ImportedFacts DEF ParseModule
  <2>4. /\ Calls(script[m].top, Own) \subseteq user_def'
        /\ called_func'[m] \cap DOMAIN script[m].defs \subseteq user_def'
    BY <1>1 DEF ParseModule
  <2> QED
    BY <1>1, <2>3, <2>4 DEF ParseModule, ParsedInv
<1>2. ASSUME UserDefTracking PROVE ParsedInv'
  <2>1. /\ DOMAIN parsed' = DOMAIN parsed
        /\ \A a \in DOMAIN parsed : /\ parsed'[a].origin_name = parsed[a].origin_name
                                    /\ parsed[a].called \subseteq parsed'[a].called
    BY <1>2, TurnFacts
  <2>2. module # "none" /\ user_def \subseteq user_def'
    BY <1>2 DEF UserDefTracking
  <2> QED
    BY <1>2, <2>1, <2>2 DEF UserDefTracking, ParsedInv
<1>3. ASSUME EndModule PROVE ParsedInv'
  BY <1>3 DEF EndModule, ParsedInv
<1>4. ASSUME EndRound PROVE ParsedInv'
  BY <1>4 DEF EndRound, ParsedInv
<1>5. ASSUME NextRound PROVE ParsedInv'
  BY <1>5 DEF NextRound, ParsedInv, RoundInv
<1>6. ASSUME Stop PROVE ParsedInv'
  BY <1>6 DEF Stop, ParsedInv
<1>7. ASSUME UNCHANGED vars PROVE ParsedInv'
  BY <1>7 DEF vars, ParsedInv
<1> QED
  BY <1>1, <1>2, <1>3, <1>4, <1>5, <1>6, <1>7 DEF Next

-----------------------------------------------------------------------------
(* Soundness: only what can be called is tracked.                          *)

\* The calls of a module that can be imported, and of a function that can be called.
LEMMA CallReachable ==
  ASSUME NEW s \in Scripts, NEW m \in Module
  PROVE  /\ <<m, Own>> \in Reachable(s) =>
              /\ \A c \in s[m].top : Callee(s, m, c) \in Reachable(s)
              /\ \A a \in DOMAIN s[m].imports : <<s[m].imports[a], Own>> \in Reachable(s)
         /\ \A f \in Function \cap DOMAIN s[m].defs :
              <<m, f>> \in Reachable(s) => \A c \in s[m].defs[f] : Callee(s, m, c) \in Reachable(s)
<1>1. Closed(s, Reachable(s))
  BY ReachableFacts
<1>2. m \notin Native
  BY ModuleFacts
<1>3. ASSUME <<m, Own>> \in Reachable(s)
      PROVE  /\ \A c \in s[m].top : Callee(s, m, c) \in Reachable(s)
             /\ \A a \in DOMAIN s[m].imports : <<s[m].imports[a], Own>> \in Reachable(s)
  <2> DEFINE n == <<m, Own>>
  <2>1. n[1] = m /\ n[2] = Own
    OBVIOUS
  <2>2. Successors(s, n) \subseteq Reachable(s)
    BY <1>1, <1>3 DEF Closed
  <2> HIDE DEF n
  <2>3. Successors(s, n) = { Callee(s, m, c) : c \in s[m].top } \cup { <<s[m].imports[a], Own>> : a \in DOMAIN s[m].imports }
    BY <1>2, <2>1 DEF Successors
  <2> QED
    BY <2>2, <2>3
<1>4. ASSUME NEW f \in Function \cap DOMAIN s[m].defs, <<m, f>> \in Reachable(s)
      PROVE  \A c \in s[m].defs[f] : Callee(s, m, c) \in Reachable(s)
  <2> DEFINE n == <<m, f>>
  <2>1. n[1] = m /\ n[2] = f /\ f # Own
    BY ScriptsAssumption
  <2>2. Successors(s, n) \subseteq Reachable(s)
    BY <1>1, <1>4 DEF Closed
  <2> HIDE DEF n
  <2>3. Successors(s, n) = { Callee(s, m, c) : c \in s[m].defs[f] }
    BY <1>2, <2>1 DEF Successors
  <2> QED
    BY <2>2, <2>3
<1> QED
  BY <1>3, <1>4

LEMMA ReachableEntry ==
  ASSUME NEW s, NEW M
  PROVE  OnlyReachable(s, M) <=>
           \A a \in DOMAIN M : /\ <<M[a].origin_name, Own>> \in Reachable(s)
                               /\ \A f \in M[a].called : <<M[a].origin_name, f>> \in Reachable(s)
<1>1. ASSUME NEW a \in DOMAIN M
      PROVE  {M[a].origin_name} \X (M[a].called \cup {Own}) \subseteq Reachable(s)
               <=> /\ <<M[a].origin_name, Own>> \in Reachable(s)
                   /\ \A f \in M[a].called : <<M[a].origin_name, f>> \in Reachable(s)
  <2> DEFINE o == M[a].origin_name
             F == M[a].called
  <2> HIDE DEF o, F
  <2>1. ASSUME NEW R
        PROVE  {o} \X (F \cup {Own}) \subseteq R <=> <<o, Own>> \in R /\ \A f \in F : <<o, f>> \in R
    OBVIOUS
  <2> QED
    BY <2>1 DEF o, F
<1> QED
  BY <1>1, Zenon DEF OnlyReachable

LEMMA ImportedReachable ==
  ASSUME script \in Scripts, NEW m \in Module, <<m, Own>> \in Reachable(script), NEW cs,
         \A c \in cs : /\ c[1] \in DOMAIN script[m].imports \cup {Own} /\ c[2] \in Function
                       /\ Callee(script, m, c) \in Reachable(script)
  PROVE  /\ OnlyReachable(script, Imported(m, cs))
         /\ \A f \in Calls(cs, Own) : <<m, f>> \in Reachable(script)
<1>1. ASSUME NEW c \in cs
      PROVE  Callee(script, m, c) = IF c[1] = Own THEN <<m, c[2]>> ELSE <<script[m].imports[c[1]], c[2]>>
  BY DEF Callee
<1>2. \A f \in Calls(cs, Own) : <<m, f>> \in Reachable(script)
  BY <1>1, CallsFacts
<1>3. ASSUME NEW a \in DOMAIN script[m].imports
      PROVE  /\ <<script[m].imports[a], Own>> \in Reachable(script)
             /\ \A f \in Calls(cs, a) : <<script[m].imports[a], f>> \in Reachable(script)
  <2>1. a # Own
    BY ScriptFacts
  <2>2. \A f \in Calls(cs, a) : <<script[m].imports[a], f>> \in Reachable(script)
    BY <1>1, <2>1, CallsFacts
  <2> QED
    BY <2>2, CallReachable
<1>4. /\ DOMAIN Imported(m, cs) = DOMAIN script[m].imports
      /\ \A a \in DOMAIN script[m].imports :
           Imported(m, cs)[a].origin_name = script[m].imports[a] /\ Imported(m, cs)[a].called = Calls(cs, a)
  BY ImportedFacts
<1>5. OnlyReachable(script, Imported(m, cs))
  BY <1>3, <1>4, ReachableEntry
<1> QED
  BY <1>2, <1>5

LEMMA MergedReachable ==
  ASSUME NEW s, NEW A, NEW B, IsMap(s, A), IsMap(s, B), Agree(A, B), OnlyReachable(s, A), OnlyReachable(s, B)
  PROVE  OnlyReachable(s, Merged(A, B))
<1> DEFINE M == Merged(A, B)
<1>1. IsJoin(A, B, M)
  BY MergedJoin
<1> HIDE DEF M
<1>2. ASSUME NEW a \in DOMAIN M
      PROVE  <<M[a].origin_name, Own>> \in Reachable(s)
  BY <1>1, ReachableEntry DEF IsJoin
<1>3. ASSUME NEW a \in DOMAIN M, NEW f \in M[a].called
      PROVE  <<M[a].origin_name, f>> \in Reachable(s)
  <2>1. CASE a \in DOMAIN A /\ f \in A[a].called
    BY <1>1, <2>1, ReachableEntry DEF IsJoin
  <2>2. CASE a \in DOMAIN B /\ f \in B[a].called
    BY <1>1, <2>2, ReachableEntry DEF IsJoin
  <2> QED
    BY <1>1, <1>3, <2>1, <2>2 DEF IsJoin
<1> QED
  BY <1>2, <1>3, ReachableEntry DEF M

LEMMA InitSound == Init => SoundInv
<1> SUFFICES ASSUME Init PROVE SoundInv
  OBVIOUS
<1>1. script \in Scripts /\ module = Main /\ Main \in Module
  BY ModuleFacts DEF Init
<1>2. \A c \in script[Main].top : c[1] \in DOMAIN script[Main].imports \cup {Own} /\ c[2] \in Function
  BY <1>1, ScriptFacts
<1>3. <<Main, Own>> \in Reachable(script)
  BY <1>1, ReachableFacts
<1>4. \A c \in script[Main].top : Callee(script, Main, c) \in Reachable(script)
  BY <1>1, <1>3, CallReachable
<1>5. /\ OnlyReachable(script, parsed)
      /\ \A f \in user_def : <<Main, f>> \in Reachable(script)
  BY <1>1, <1>2, <1>3, <1>4, ImportedReachable DEF Init
<1>6. DOMAIN called_map = {} /\ DOMAIN new_called_map = {} /\ DOMAIN tracking = {}
  BY DEF Init
<1>7. OnlyReachable(script, called_map) /\ OnlyReachable(script, new_called_map) /\ OnlyReachable(script, tracking)
  BY <1>6, ReachableEntry
<1>8. \A m \in Python : called_func[m] = {}
  BY DEF Init
<1> QED
  BY <1>1, <1>3, <1>5, <1>7, <1>8 DEF SoundInv

LEMMA NextSound ==
  ASSUME TypeOK, Unambiguous, RoundInv, ParsedInv, SoundInv, [Next]_vars
  PROVE  SoundInv'
<1>0. script \in Scripts
  BY DEF TypeOK
<1>1. ASSUME NEW m \in Python, ParseModule(m) PROVE SoundInv'
  <2>1. m \in Module
    BY ModuleFacts
  <2>2. PICK a \in AliasesOf(m) : called_func' = [called_func EXCEPT ![m] = @ \cup tracking[a].called]
    BY <1>1 DEF ParseModule
  <2>3. a \in DOMAIN tracking /\ tracking[a].origin_name = m
    BY DEF AliasesOf
  <2>4. <<m, Own>> \in Reachable(script) /\ \A f \in tracking[a].called : <<m, f>> \in Reachable(script)
    BY <2>3, ReachableEntry DEF SoundInv
  <2>5. called_func'[m] = called_func[m] \cup tracking[a].called
    BY <2>2 DEF TypeOK
  <2>6. \A p \in Python \ {m} : called_func'[p] = called_func[p]
    BY <2>2 DEF TypeOK
  <2>7. \A f \in called_func'[m] : <<m, f>> \in Reachable(script)
    BY <2>4, <2>5 DEF SoundInv
  <2>8. \A c \in script[m].top : /\ c[1] \in DOMAIN script[m].imports \cup {Own} /\ c[2] \in Function
                                 /\ Callee(script, m, c) \in Reachable(script)
    BY <1>0, <2>1, <2>4, ScriptFacts, CallReachable
  <2>9. /\ OnlyReachable(script, Imported(m, script[m].top))
        /\ \A f \in Calls(script[m].top, Own) : <<m, f>> \in Reachable(script)
    BY <1>0, <2>1, <2>4, <2>8, ImportedReachable
  <2>10. /\ module' = m /\ script' = script /\ parsed' = Imported(m, script[m].top)
         /\ user_def' = Calls(script[m].top, Own) \cup (called_func'[m] \cap DOMAIN script[m].defs)
         /\ UNCHANGED <<called_map, new_called_map, tracking>>
    BY <1>1 DEF ParseModule
  <2>11. {m} \X (user_def' \cup {Own}) \subseteq Reachable(script)
    BY <2>4, <2>7, <2>9, <2>10
  <2>12. \A p \in Python : {p} \X called_func'[p] \subseteq Reachable(script)
    BY <2>6, <2>7 DEF SoundInv
  <2> QED
    BY <2>9, <2>10, <2>11, <2>12 DEF SoundInv
<1>2. ASSUME UserDefTracking PROVE SoundInv'
  <2>1. module \in Module /\ module # "none"
    BY <1>2, TurnFacts DEF UserDefTracking
  <2>2. <<module, Own>> \in Reachable(script) /\ \A f \in user_def : <<module, f>> \in Reachable(script)
    BY <2>1 DEF SoundInv
  <2>3. ASSUME NEW c \in NewTracked(module)
        PROVE  /\ c[1] \in DOMAIN script[module].imports \cup {Own} /\ c[2] \in Function
               /\ Callee(script, module, c) \in Reachable(script)
    <3>1. c[1] \in DOMAIN script[module].imports \cup {Own} /\ c[2] \in Function
      BY <1>0, <2>1, TrackedFacts
    <3>2. PICK f \in user_def \cap DOMAIN script[module].defs : c \in script[module].defs[f]
      BY DEF NewTracked, Chains
    <3>3. f \in Function \cap DOMAIN script[module].defs
      BY DEF TypeOK
    <3> QED
      BY <1>0, <2>1, <2>2, <3>1, <3>2, <3>3, CallReachable
  <2> DEFINE cs == NewTracked(module)
             B == Imported(module, cs)
  <2>4. OnlyReachable(script, B) /\ \A f \in Calls(cs, Own) : <<module, f>> \in Reachable(script)
    BY <1>0, <2>1, <2>2, <2>3, ImportedReachable
  <2>5. IsMap(script, B)
    BY <1>0, <2>1, <2>3, ImportedFacts
  <2>6. parsed' = Merged(parsed, B) /\ user_def' = user_def \cup Calls(cs, Own)
    BY <1>2 DEF UserDefTracking
  <2> HIDE DEF B, cs
  <2>7. IsMap(script, parsed) /\ Agree(parsed, B) /\ OnlyReachable(script, parsed)
    BY <2>5, MapsAgree DEF TypeOK, SoundInv
  <2>8. OnlyReachable(script, parsed')
    BY <2>4, <2>5, <2>6, <2>7, MergedReachable
  <2>9. {module} \X (user_def' \cup {Own}) \subseteq Reachable(script)
    BY <2>2, <2>4, <2>6
  <2> QED
    BY <1>2, <2>8, <2>9 DEF UserDefTracking, SoundInv
<1>3. ASSUME EndModule PROVE SoundInv'
  <2>1. IsMap(script, parsed) /\ IsMap(script, new_called_map) /\ Agree(new_called_map, parsed)
    BY MapsAgree DEF TypeOK
  <2>2. OnlyReachable(script, Merged(new_called_map, parsed))
    BY <2>1, MergedReachable DEF SoundInv
  <2>3. CASE module = Main
    BY <1>3, <2>3 DEF EndModule, SoundInv
  <2>4. CASE module # Main
    BY <1>3, <2>2, <2>4 DEF EndModule, SoundInv
  <2> QED
    BY <2>3, <2>4
<1>4. ASSUME EndRound PROVE SoundInv'
  BY <1>4 DEF EndRound, SoundInv
<1>5. ASSUME NextRound PROVE SoundInv'
  <2>1. IsMap(script, called_map) /\ IsMap(script, new_called_map) /\ Agree(called_map, new_called_map)
    BY MapsAgree DEF TypeOK
  <2>2. OnlyReachable(script, called_map')
    BY <1>5, <2>1, MergedReachable DEF SoundInv, NextRound
  <2>3. DOMAIN new_called_map' = {}
    BY <1>5 DEF NextRound
  <2>4. OnlyReachable(script, new_called_map')
    BY <2>3, ReachableEntry
  <2>5. \A a \in DOMAIN next_tracking : a \in DOMAIN new_called_map /\ next_tracking[a] = new_called_map[a]
    BY <2>1, NextTracking
  <2>6. OnlyReachable(script, next_tracking)
    BY <2>5, ReachableEntry DEF SoundInv
  <2> QED
    BY <1>5, <2>2, <2>4, <2>6 DEF NextRound, SoundInv
<1>6. ASSUME Stop PROVE SoundInv'
  BY <1>6 DEF Stop, SoundInv
<1>7. ASSUME UNCHANGED vars PROVE SoundInv'
  BY <1>7 DEF vars, SoundInv
<1> QED
  BY <1>1, <1>2, <1>3, <1>4, <1>5, <1>6, <1>7 DEF Next

-----------------------------------------------------------------------------
(* Completeness: what is not in the maps is still to be found.             *)

Known == Merged(called_map, new_called_map)

Below(M, N) == \A a \in DOMAIN M : a \in DOMAIN N /\ M[a].called \subseteq N[a].called

LEMMA MergedAbove ==
  ASSUME NEW s, NEW A, NEW B, IsMap(s, A), IsMap(s, B), Agree(A, B)
  PROVE  Below(A, Merged(A, B)) /\ Below(B, Merged(A, B))
<1>1. IsJoin(A, B, Merged(A, B))
  BY MergedJoin
<1> QED
  BY <1>1 DEF IsJoin, Below

LEMMA ExploredGrows ==
  ASSUME NEW s, NEW m, NEW U, NEW M, NEW N, ExploredWith(s, m, U, M), Below(M, N)
  PROVE  ExploredWith(s, m, U, N)
<1>1. ASSUME NEW a \in DOMAIN s[m].imports
      PROVE  a \in DOMAIN N /\ Calls(Made(s, m, U), a) \subseteq N[a].called
  <2>1. a \in DOMAIN M /\ Calls(Made(s, m, U), a) \subseteq M[a].called
    BY DEF ExploredWith
  <2> QED
    BY <2>1 DEF Below
<1> QED
  BY <1>1 DEF ExploredWith

LEMMA ExploredStep ==
  ASSUME NEW m, Explored(m), script' = script, m \in Python => called_func'[m] = called_func[m],
         Below(Known, Known')
  PROVE  Explored(m)'
<1>1. PICK U \in SUBSET Function : Wanted(m) \subseteq U /\ ExploredWith(script, m, U, Known)
  BY DEF Explored, Known
<1>2. Wanted(m)' \subseteq U
  BY <1>1 DEF Wanted
<1>3. ExploredWith(script, m, U, Known')
  BY <1>1, ExploredGrows
<1> QED
  BY <1>1, <1>2, <1>3 DEF Explored, Known

\* A module is left when nothing is new.
LEMMA EndModuleFacts ==
  ASSUME TypeOK, ParsedInv, EndModule
  PROVE  /\ module \in Module /\ user_def \in SUBSET Function
         /\ Wanted(module) \subseteq user_def
         /\ ExploredWith(script, module, user_def, parsed)
<1>1. module \in Module /\ module # "none" /\ script \in Scripts /\ NewTracked(module) = {}
  BY DEF TypeOK, Module, EndModule
<1>2. user_def \in SUBSET Function
  BY DEF TypeOK
<1>3. Wanted(module) \subseteq user_def
  BY <1>1 DEF Wanted, ParsedInv
<1> DEFINE cs == Made(script, module, user_def)
<1>4. \A c \in cs : \/ c \in script[module].top
                    \/ IF c[1] = Own THEN c[2] \in user_def ELSE c[2] \in parsed[c[1]].called
  BY <1>1, TrackedFacts
<1> HIDE DEF cs
<1>5. /\ DOMAIN parsed = DOMAIN script[module].imports
      /\ \A a \in DOMAIN parsed : Calls(script[module].top, a) \subseteq parsed[a].called
      /\ Calls(script[module].top, Own) \subseteq user_def
  BY <1>1 DEF ParsedInv
<1>6. Calls(cs, Own) \subseteq user_def
  BY <1>4, <1>5, CallsFacts
<1>7. ASSUME NEW a \in DOMAIN script[module].imports
      PROVE  Calls(cs, a) \subseteq parsed[a].called
  <2>1. a # Own
    BY <1>1, ScriptFacts
  <2> QED
    BY <1>4, <1>5, <2>1, CallsFacts
<1> QED
  BY <1>1, <1>2, <1>3, <1>5, <1>6, <1>7 DEF ExploredWith, cs

LEMMA KnownFacts ==
  ASSUME TypeOK, Unambiguous
  PROVE  /\ IsMap(script, Known)
         /\ DOMAIN Known = DOMAIN called_map \cup DOMAIN new_called_map
         /\ Below(called_map, Known) /\ Below(new_called_map, Known)
         /\ \A a \in DOMAIN Known : \A f \in Known[a].called :
              \/ a \in DOMAIN called_map /\ f \in called_map[a].called
              \/ a \in DOMAIN new_called_map /\ f \in new_called_map[a].called
<1>1. /\ IsMap(script, called_map) /\ IsMap(script, new_called_map)
      /\ Agree(called_map, new_called_map)
  BY MapsAgree DEF TypeOK
<1>2. IsMap(script, Known)
  BY <1>1, MergedType DEF Known
<1>3. IsJoin(called_map, new_called_map, Known)
  BY <1>1, MergedJoin DEF Known
<1> QED
  BY <1>2, <1>3 DEF IsJoin, Below

\* What is known is not forgotten.
LEMMA KnownGrows ==
  ASSUME TypeOK, Unambiguous, RoundInv, [Next]_vars
  PROVE  /\ script' = script
         /\ module # Main => Below(Known, Known')
         /\ EndModule => Below(parsed, Known')
<1>1. script' = script
  BY DEF Next, vars, ParseModule, UserDefTracking, EndModule, EndRound, NextRound, Stop
<1>2. TypeOK' /\ Unambiguous'
  BY <1>1, NextType DEF Unambiguous
<1>3. Below(Known, Known)
  BY DEF Below
<1>4. CASE UNCHANGED <<called_map, new_called_map>> /\ ~ EndModule
  BY <1>1, <1>3, <1>4 DEF Known
<1>5. CASE EndModule
  <2>1. IsMap(script, parsed) /\ IsMap(script, new_called_map) /\ IsMap(script, called_map)
    BY DEF TypeOK
  <2>2. CASE module = Main
    <3>1. called_map' = parsed /\ new_called_map' = new_called_map
      BY <1>5, <2>2 DEF EndModule
    <3>2. Agree(parsed, new_called_map)
      BY <2>1, MapsAgree
    <3>3. Below(parsed, Merged(parsed, new_called_map))
      BY <2>1, <3>2, MergedAbove
    <3> QED
      BY <1>1, <2>2, <3>1, <3>3 DEF Known
  <2>3. CASE module # Main
    <3> DEFINE N == Merged(new_called_map, parsed)
    <3>1. called_map' = called_map /\ new_called_map' = N
      BY <1>5, <2>3 DEF EndModule
    <3>2. Agree(new_called_map, parsed)
      BY <2>1, MapsAgree
    <3>3. IsMap(script, N) /\ Below(new_called_map, N) /\ Below(parsed, N)
      BY <2>1, <3>2, MergedType, MergedAbove
    <3> HIDE DEF N
    <3>4. Agree(called_map, N)
      BY <2>1, <3>3, MapsAgree
    <3>5. Below(called_map, Merged(called_map, N)) /\ Below(N, Merged(called_map, N))
      BY <2>1, <3>3, <3>4, MergedAbove
    <3>6. Known' = Merged(called_map, N)
      BY <3>1 DEF Known
    <3>7. Below(called_map, Known') /\ Below(new_called_map, Known') /\ Below(parsed, Known')
      BY <3>3, <3>5, <3>6 DEF Below
    <3>8. Below(Known, Known')
      BY <3>7, KnownFacts DEF Below
    <3> QED
      BY <1>1, <3>7, <3>8
  <2> QED
    BY <2>2, <2>3
<1>6. CASE NextRound
  <2> DEFINE E == new_called_map'
  <2>1. called_map' = Known /\ DOMAIN E = {}
    BY <1>6 DEF NextRound, Known
  <2>2. IsMap(script, E) /\ IsMap(script, Known)
    BY <1>1, <1>2, KnownFacts DEF TypeOK
  <2> HIDE DEF E
  <2>3. Agree(Known, E)
    BY <2>1 DEF Agree
  <2>4. Below(Known, Merged(Known, E))
    BY <2>2, <2>3, MergedAbove
  <2>5. Known' = Merged(Known, E)
    BY <2>1 DEF Known, E
  <2>6. ~ EndModule
    BY <1>6 DEF EndModule, NextRound
  <2> QED
    BY <1>1, <2>4, <2>5, <2>6
<1> QED
  BY <1>4, <1>5, <1>6 DEF Next, vars, ParseModule, UserDefTracking, EndRound, Stop

LEMMA InitComplete == Init => CompleteInv
<1> SUFFICES ASSUME Init PROVE CompleteInv
  OBVIOUS
<1>1. DOMAIN called_map = {} /\ module = Main
  BY DEF Init
<1>2. Origins(called_map) = {}
  BY <1>1, OriginsFacts
<1> QED
  BY <1>1, <1>2 DEF CompleteInv

LEMMA NextAwaited ==
  ASSUME TypeOK, Unambiguous, RoundInv, CompleteInv, [Next]_vars
  PROVE  \A a \in DOMAIN called_map' : Awaited(a)'
<1>1. ASSUME NEW m \in Python, ParseModule(m), NEW a \in DOMAIN called_map' PROVE Awaited(a)'
  <2>1. PICK b \in AliasesOf(m) : called_func' = [called_func EXCEPT ![m] = @ \cup tracking[b].called]
    BY <1>1 DEF ParseModule
  <2>2. b \in DOMAIN tracking /\ tracking[b].origin_name = m
    BY DEF AliasesOf
  <2>3. called_func'[m] = called_func[m] \cup tracking[b].called
    BY <2>1 DEF TypeOK
  <2>4. UNCHANGED <<called_map, tracking>> /\ pycaches' = pycaches \ {m} /\ a \in DOMAIN called_map
    BY <1>1 DEF ParseModule
  <2>5. Awaited(a)
    BY <2>4 DEF CompleteInv, Awaited
  <2>6. CASE called_map[a].origin_name = m
    <3>1. a = b
      BY <2>2, <2>4, <2>6, MapsAgree DEF TypeOK
    <3>2. called_map[a].called \subseteq called_func[m] \cup tracking[b].called
      BY <2>5, <2>6, <3>1 DEF Awaited
    <3> QED
      BY <2>3, <2>4, <2>6, <3>2 DEF Awaited
  <2>7. CASE called_map[a].origin_name \in Python \ {m}
    <3>1. called_func'[called_map[a].origin_name] = called_func[called_map[a].origin_name]
      BY <2>1, <2>7 DEF TypeOK
    <3> QED
      BY <2>4, <2>5, <2>7, <3>1 DEF Awaited
  <2>8. CASE called_map[a].origin_name \notin Python
    BY <2>4, <2>8 DEF Awaited
  <2> QED
    BY <2>6, <2>7, <2>8
<1>2. ASSUME EndModule, module = Main, NEW a \in DOMAIN called_map' PROVE Awaited(a)'
  <2>1. called_map' = parsed /\ tracking' = parsed /\ pycaches' = Origins(parsed)
    BY <1>2 DEF EndModule, RoundInv
  <2>2. parsed[a].origin_name \in Origins(parsed)
    BY <1>2, <2>1, OriginsFacts
  <2> QED
    BY <1>2, <2>1, <2>2 DEF Awaited
<1>3. ASSUME NextRound, NEW a \in DOMAIN called_map', called_map'[a].origin_name \in Python PROVE Awaited(a)'
  <2> DEFINE m == called_map'[a].origin_name
  <2>1. called_map' = Known /\ tracking' = next_tracking /\ pycaches' = Origins(next_tracking) /\ called_func' = called_func
    BY <1>3 DEF NextRound, Known
  <2>2. /\ IsMap(script, called_map) /\ IsMap(script, new_called_map) /\ IsMap(script, Known)
        /\ a \in DOMAIN called_map \/ a \in DOMAIN new_called_map
        /\ \A f \in Known[a].called : \/ a \in DOMAIN called_map /\ f \in called_map[a].called
                                      \/ a \in DOMAIN new_called_map /\ f \in new_called_map[a].called
    BY <1>3, <2>1, KnownFacts DEF TypeOK
  <2>3. /\ a \in DOMAIN called_map => called_map[a].origin_name = m
        /\ a \in DOMAIN new_called_map => new_called_map[a].origin_name = m
    BY <1>3, <2>1, <2>2, MapsAgree DEF Agree
  <2>4. pycaches \cap Python = {}
    BY <1>3 DEF NextRound, RoundInv
  <2>5. a \in DOMAIN called_map => called_map[a].called \subseteq called_func[m]
    BY <1>3, <2>3, <2>4 DEF CompleteInv, Awaited
  <2> HIDE DEF m
  <2>6. CASE a \in Unique
    <3>1. a \in DOMAIN tracking' /\ tracking'[a] = new_called_map[a] /\ a \in DOMAIN new_called_map
      BY <2>1, <2>2, <2>6, NextTracking
    <3>2. m \in pycaches'
      BY <2>1, <2>3, <3>1, OriginsFacts
    <3>3. called_map'[a].called \subseteq called_func'[m] \cup tracking'[a].called
      BY <2>1, <2>2, <2>5, <3>1
    <3> QED
      BY <3>1, <3>2, <3>3 DEF Awaited, m
  <2>7. CASE a \notin Unique
    <3>1. a \in DOMAIN called_map
      BY <2>2, <2>7 DEF Unique
    <3>2. a \in DOMAIN new_called_map => new_called_map[a].called \subseteq called_map[a].called
      BY <2>7 DEF Unique
    <3>3. called_map'[a].called \subseteq called_func'[m]
      BY <2>1, <2>2, <2>5, <3>1, <3>2
    <3> QED
      BY <3>3 DEF Awaited, m
  <2> QED
    BY <2>6, <2>7
<1>4. ASSUME UNCHANGED <<called_map, called_func, tracking, pycaches>> PROVE \A a \in DOMAIN called_map' : Awaited(a)'
  BY <1>4 DEF CompleteInv, Awaited
<1>5. ASSUME NextRound PROVE \A a \in DOMAIN called_map' : Awaited(a)'
  BY <1>3, <1>5 DEF Awaited
<1>6. CASE EndModule
  <2>1. CASE module = Main
    BY <1>2, <1>6, <2>1
  <2>2. CASE module # Main
    BY <1>4, <1>6, <2>2 DEF EndModule
  <2> QED
    BY <2>1, <2>2
<1>7. CASE UserDefTracking \/ EndRound \/ Stop \/ UNCHANGED vars
  BY <1>4, <1>7 DEF vars, UserDefTracking, EndRound, Stop
<1>8. ASSUME NEW m \in Python, ParseModule(m) PROVE \A a \in DOMAIN called_map' : Awaited(a)'
  BY <1>1, <1>8
<1> QED
  BY <1>5, <1>6, <1>7, <1>8 DEF Next

LEMMA NextComplete ==
  ASSUME TypeOK, Unambiguous, RoundInv, ParsedInv, CompleteInv, [Next]_vars
  PROVE  CompleteInv'
<1>1. \A a \in DOMAIN called_map' : Awaited(a)'
  BY NextAwaited
<1>2. script' = script /\ (module # Main => Below(Known, Known')) /\ (EndModule => Below(parsed, Known'))
  BY KnownGrows
<1>3. Main \notin Python /\ Main # "none"
  BY ModuleFacts
<1>4. ASSUME module # Main PROVE Explored(Main)'
  <2>1. Explored(Main)
    BY <1>4 DEF CompleteInv
  <2> QED
    BY <1>2, <1>3, <1>4, <2>1, ExploredStep
<1>5. ASSUME EndModule, NEW m, m = module PROVE Explored(m)'
  <2>1. /\ user_def \in SUBSET Function /\ Wanted(m) \subseteq user_def
        /\ ExploredWith(script, m, user_def, parsed)
    BY <1>5, EndModuleFacts
  <2>2. ExploredWith(script, m, user_def, Known')
    BY <1>2, <1>5, <2>1, ExploredGrows
  <2>3. script' = script /\ called_func' = called_func
    BY <1>5 DEF EndModule
  <2>4. Wanted(m)' \subseteq user_def
    BY <2>1, <2>3 DEF Wanted
  <2> QED
    BY <2>1, <2>2, <2>3, <2>4 DEF Explored, Known
<1>6. ASSUME NEW m \in Python, Explored(m), called_func'[m] = called_func[m], module # Main PROVE Explored(m)'
  BY <1>2, <1>6, ExploredStep
<1>7. ASSUME module' # Main PROVE Explored(Main)'
  <2>1. CASE module = Main
    <3>1. EndModule \/ module' = module
      BY <2>1, <1>3 DEF Next, vars, ParseModule, UserDefTracking, EndRound, NextRound, Stop
    <3> QED
      BY <1>5, <1>7, <2>1, <3>1
  <2>2. CASE module # Main
    BY <1>4, <2>2
  <2> QED
    BY <2>1, <2>2
<1> DEFINE Pending(m) == m \in pycaches \/ m = module
<1>8. ASSUME NEW m \in Python, m \in Origins(called_map)', ~ Pending(m)' PROVE Explored(m)'
  <2>1. CASE \E n \in Python : ParseModule(n)
    <3>1. PICK n \in Python : ParseModule(n)
      BY <2>1
    <3>2. /\ module = "none" /\ module' = n /\ pycaches' = pycaches \ {n} /\ called_map' = called_map
          /\ \E b : called_func' = [called_func EXCEPT ![n] = b]
      BY <3>1 DEF ParseModule
    <3>3. m # n /\ m \notin pycaches /\ m # module /\ module # Main
      BY <1>3, <1>8, <3>2, ModuleFacts
    <3>4. m \in Origins(called_map)
      BY <1>8, <3>2 DEF Origins
    <3>5. Explored(m)
      BY <3>3, <3>4 DEF CompleteInv
    <3>6. called_func'[m] = called_func[m]
      BY <3>2, <3>3 DEF TypeOK
    <3> QED
      BY <1>6, <3>3, <3>5, <3>6
  <2>2. CASE EndModule
    <3>1. CASE module = Main
      <4>1. Origins(called_map)' = pycaches'
        BY <2>2, <3>1 DEF EndModule, RoundInv, Origins
      <4> QED
        BY <1>8, <4>1
    <3>2. CASE module # Main
      <4>1. pycaches' = pycaches /\ called_map' = called_map /\ called_func' = called_func
        BY <2>2, <3>2 DEF EndModule
      <4>2. m \in Origins(called_map) /\ m \notin pycaches
        BY <1>8, <4>1 DEF Origins
      <4>3. CASE m = module
        BY <1>5, <2>2, <4>3
      <4>4. CASE m # module
        <5>1. Explored(m)
          BY <4>2, <4>4 DEF CompleteInv
        <5> QED
          BY <1>6, <3>2, <4>1, <5>1
      <4> QED
        BY <4>3, <4>4
    <3> QED
      BY <3>1, <3>2
  <2>3. CASE NextRound
    <3>1. /\ module = "none" /\ pycaches \cap Python = {} /\ called_func' = called_func
          /\ called_map' = Known /\ pycaches' = Origins(next_tracking)
      BY <2>3 DEF NextRound, RoundInv, Known
    <3>2. m # module /\ m \notin pycaches /\ module # Main
      BY <1>3, <3>1, ModuleFacts
    <3>3. PICK a \in DOMAIN Known : Known[a].origin_name = m
      BY <1>8, <3>1 DEF Origins
    <3>4. /\ IsMap(script, called_map) /\ IsMap(script, new_called_map) /\ IsMap(script, Known)
          /\ a \in DOMAIN called_map \/ a \in DOMAIN new_called_map
      BY KnownFacts DEF TypeOK
    <3>5. /\ a \in DOMAIN called_map => called_map[a].origin_name = m
          /\ a \in DOMAIN new_called_map => new_called_map[a].origin_name = m
      BY <3>3, <3>4, MapsAgree DEF Agree
    <3>6. CASE a \in DOMAIN called_map
      <4>1. m \in Origins(called_map)
        BY <3>5, <3>6, OriginsFacts
      <4>2. Explored(m)
        BY <3>2, <4>1 DEF CompleteInv
      <4> QED
        BY <1>6, <3>1, <3>2, <4>2
    <3>7. CASE a \notin DOMAIN called_map
      <4>1. a \in Unique
        BY <3>4, <3>7 DEF Unique
      <4>2. a \in DOMAIN next_tracking /\ next_tracking[a].origin_name = m
        BY <3>4, <3>5, <4>1, NextTracking
      <4>3. m \in pycaches'
        BY <3>1, <4>2, OriginsFacts
      <4> QED
        BY <1>8, <4>3
    <3> QED
      BY <3>6, <3>7
  <2>4. CASE UserDefTracking \/ EndRound \/ Stop \/ UNCHANGED vars
    <3>1. UNCHANGED <<called_map, new_called_map, called_func, pycaches, module>>
      BY <2>4 DEF UserDefTracking, EndRound, Stop, vars
    <3>2. m \in Origins(called_map) /\ m \notin pycaches /\ m # module
      BY <1>8, <3>1 DEF Origins
    <3>3. Explored(m)
      BY <3>2 DEF CompleteInv
    <3>4. Below(Known, Known')
      BY <3>1 DEF Known, Below
    <3> QED
      BY <1>2, <3>1, <3>3, <3>4, ExploredStep
  <2> QED
    BY <2>1, <2>2, <2>3, <2>4 DEF Next
<1>9. (\A m \in Origins(called_map) \cap Python : m \notin pycaches /\ m # module => Explored(m))'
  BY <1>8
<1> QED
  BY <1>1, <1>7, <1>9 DEF CompleteInv

-----------------------------------------------------------------------------
(* The result.                                                             *)

\* When nothing is new, everything that can be called is in the map.
LEMMA ReachableKnown ==
  ASSUME TypeOK, Unambiguous, RoundInv, CompleteInv, pc = "round", Unique = {},
         NEW n \in Reachable(script), n[1] \in Native, n[2] # Own
  PROVE  \E a \in DOMAIN called_map : called_map[a].origin_name = n[1] /\ n[2] \in called_map[a].called
<1>1. script \in Scripts /\ module = "none" /\ pycaches \cap Python = {}
  BY DEF TypeOK, RoundInv
<1>2. Main \in Module /\ Main # "none" /\ Main \notin Python /\ module # Main /\ \A m \in Module : m \notin Native /\ m # "none"
  BY <1>1, ModuleFacts, ScriptsAssumption DEF Module
<1>3. Below(Known, called_map)
  <2>1. \A a \in DOMAIN new_called_map : a \in DOMAIN called_map /\ new_called_map[a].called \subseteq called_map[a].called
    BY DEF Unique
  <2> QED
    BY <2>1, KnownFacts DEF Below
<1> DEFINE Explores(m, U) == U \in SUBSET Function /\ Wanted(m) \subseteq U /\ ExploredWith(script, m, U, called_map)
           Tracked == { m \in Module : m = Main \/ m \in Origins(called_map) }
           Of == [m \in Tracked |-> CHOOSE U : Explores(m, U)]
<1>4. ASSUME NEW m \in Tracked PROVE Explores(m, Of[m])
  <2>1. Explored(m)
    BY <1>1, <1>2 DEF CompleteInv, Module
  <2>2. PICK U \in SUBSET Function : Wanted(m) \subseteq U /\ ExploredWith(script, m, U, Known)
    BY <2>1 DEF Explored, Known
  <2>3. Explores(m, U)
    BY <1>3, <2>2, ExploredGrows
  <2> QED
    BY <2>3
<1>5. \A a \in DOMAIN called_map : called_map[a].origin_name \in Python =>
        called_map[a].called \subseteq called_func[called_map[a].origin_name]
  BY <1>1 DEF CompleteInv, Awaited
<1> DEFINE InMap(m, f) == \E a \in DOMAIN called_map :
                            called_map[a].origin_name = m /\ (f = Own \/ f \in called_map[a].called)
           S == { x \in Node : \/ x = <<Main, Own>>
                               \/ InMap(x[1], x[2])
                               \/ x[1] \in Tracked /\ x[2] \in Of[x[1]] }
<1> HIDE DEF Explores, Of
<1>6. ASSUME NEW m \in Tracked
      PROVE  /\ Calls(Made(script, m, Of[m]), Own) \subseteq Of[m] /\ Of[m] \subseteq Function
             /\ Wanted(m) \subseteq Of[m]
             /\ \A a \in DOMAIN script[m].imports :
                  a \in DOMAIN called_map /\ Calls(Made(script, m, Of[m]), a) \subseteq called_map[a].called
             /\ \A a \in DOMAIN script[m].imports : called_map[a].origin_name = script[m].imports[a]
             /\ m \in Module
  <2>1. m \in Module /\ Explores(m, Of[m])
    BY <1>4
  <2>2. ASSUME NEW a \in DOMAIN script[m].imports, a \in DOMAIN called_map
        PROVE  called_map[a].origin_name = script[m].imports[a]
    <3> DEFINE x == <<a, called_map[a].origin_name>>
               y == <<a, script[m].imports[a]>>
    <3>1. x \in Imports(script) /\ y \in Imports(script)
      BY <1>1, <2>1, <2>2, ScriptFacts, IsMapEntry DEF TypeOK
    <3>2. x[1] = y[1] <=> x[2] = y[2]
      BY <3>1 DEF Unambiguous
    <3> QED
      BY <3>2
  <2> QED
    BY <2>1, <2>2 DEF ExploredWith, Explores
\* A call of a module whose functions are explored.
<1>7. ASSUME NEW m \in Tracked, NEW c \in Made(script, m, Of[m]) PROVE Callee(script, m, c) \in S
  <2>1. m \in Module /\ c[1] \in DOMAIN script[m].imports \cup {Own} /\ c[2] \in Function
    BY <1>1, <1>6, MadeFacts
  <2>2. Callee(script, m, c) \in Node
    BY <1>1, <2>1, CalleeType
  <2>3. CASE c[1] = Own
    <3>1. Callee(script, m, c) = <<m, c[2]>>
      BY <2>3 DEF Callee
    <3>2. c[2] \in Of[m]
      BY <1>6, <2>3, CallsFacts
    <3> QED
      BY <2>2, <3>1, <3>2
  <2>4. CASE c[1] # Own
    <3>1. Callee(script, m, c) = <<script[m].imports[c[1]], c[2]>>
      BY <2>4 DEF Callee
    <3>2. c[1] \in DOMAIN script[m].imports /\ c[2] \in Calls(Made(script, m, Of[m]), c[1])
      BY <2>1, <2>4, CallsFacts
    <3>3. InMap(script[m].imports[c[1]], c[2])
      BY <1>6, <3>2
    <3> QED
      BY <2>2, <3>1, <3>3
  <2> QED
    BY <2>3, <2>4
<1>8. ASSUME NEW m \in Tracked
      PROVE  /\ \A c \in script[m].top : Callee(script, m, c) \in S
             /\ \A a \in DOMAIN script[m].imports : <<script[m].imports[a], Own>> \in S
             /\ \A f \in Of[m] \cap DOMAIN script[m].defs : \A c \in script[m].defs[f] : Callee(script, m, c) \in S
  <2>1. m \in Module
    OBVIOUS
  <2>2. /\ script[m].top \subseteq Made(script, m, Of[m])
        /\ \A f \in Of[m] \cap DOMAIN script[m].defs : script[m].defs[f] \subseteq Made(script, m, Of[m])
    BY <1>1, <2>1, MadeFacts
  <2>3. ASSUME NEW a \in DOMAIN script[m].imports PROVE <<script[m].imports[a], Own>> \in S
    <3>1. script[m].imports[a] \in Python \cup Native
      BY <1>1, <2>1, ScriptFacts
    <3>2. InMap(script[m].imports[a], Own)
      BY <1>6
    <3> QED
      BY <3>1, <3>2 DEF Node
  <2> QED
    BY <1>7, <2>2, <2>3
<1>9. Closed(script, S)
  <2> SUFFICES ASSUME NEW x \in S PROVE Successors(script, x) \subseteq S
    BY DEF Closed
  <2>1. CASE x[1] \in Native
    BY <2>1 DEF Successors
  <2>2. CASE x[1] \notin Native
    <3>1. x[1] \in Tracked /\ x[1] \in Module
      <4>1. x[1] \in Module
        BY <2>2 DEF Node, Module
      <4>2. x[1] = Main \/ x[1] \in Origins(called_map)
        BY OriginsFacts
      <4> QED
        BY <4>1, <4>2
    <3>2. CASE x[2] = Own
      <4>1. Successors(script, x) =
              { Callee(script, x[1], c) : c \in script[x[1]].top }
                \cup { <<script[x[1]].imports[a], Own>> : a \in DOMAIN script[x[1]].imports }
        BY <2>2, <3>2 DEF Successors
      <4> HIDE DEF S
      <4> QED
        BY <1>8, <3>1, <4>1
    <3>3. CASE x[2] # Own /\ x[2] \in DOMAIN script[x[1]].defs
      <4>1. Successors(script, x) = { Callee(script, x[1], c) : c \in script[x[1]].defs[x[2]] }
        BY <2>2, <3>3 DEF Successors
      <4>2. x[2] \in Of[x[1]]
        <5>1. CASE InMap(x[1], x[2])
          <6>1. PICK a \in DOMAIN called_map : called_map[a].origin_name = x[1] /\ x[2] \in called_map[a].called
            BY <3>3, <5>1
          <6>2. x[1] \in Python
            <7>1. called_map[a].origin_name \in Python \cup Native
              BY <1>1, IsMapEntry DEF TypeOK, Entry
            <7> QED
              BY <2>2, <6>1, <7>1
          <6>3. x[2] \in called_func[x[1]]
            BY <1>5, <6>1, <6>2
          <6>4. x[2] \in Wanted(x[1])
            BY <3>3, <6>2, <6>3 DEF Wanted
          <6> QED
            BY <1>6, <3>1, <6>4
        <5>2. CASE x = <<Main, Own>>
          BY <3>3, <5>2
        <5> QED
          BY <5>1, <5>2
      <4> HIDE DEF S
      <4> QED
        BY <1>8, <3>1, <3>3, <4>1, <4>2
    <3>4. CASE x[2] # Own /\ x[2] \notin DOMAIN script[x[1]].defs
      BY <2>2, <3>4 DEF Successors
    <3> QED
      BY <3>2, <3>3, <3>4
  <2> QED
    BY <2>1, <2>2
<1>10. <<Main, Own>> \in S
  BY DEF Node
<1>11. n \in S
  BY <1>1, <1>9, <1>10, ReachableFacts
<1>12. n[1] \notin Tracked
  BY <1>2
<1>13. InMap(n[1], n[2])
  BY <1>11, <1>12
<1> QED
  BY <1>13

LEMMA StopResult ==
  ASSUME TypeOK, Unambiguous, RoundInv, SoundInv, CompleteInv, Stop
  PROVE  c_functions' = CallableC
<1>1. PICK last \in [CModules -> DOMAIN called_map] :
        /\ \A m \in CModules : called_map[last[m]].origin_name = m /\ called_map[last[m]].called # {}
        /\ c_functions' = UNION { {m} \X called_map[last[m]].called : m \in CModules }
  BY DEF Stop
<1>2. IsMap(script, called_map) /\ script \in Scripts
  BY DEF TypeOK
<1>3. \A m : m \in CModules <=> /\ \E a \in DOMAIN called_map : called_map[a].origin_name = m /\ called_map[a].called # {}
                                /\ m \notin modules_info \ Native
  BY DEF CModules, Origins
<1>4. CModules \subseteq Native
  <2> SUFFICES ASSUME NEW m \in CModules PROVE m \in Native
    OBVIOUS
  <2>1. PICK a \in DOMAIN called_map : called_map[a].origin_name = m
    BY <1>3
  <2>2. m \in Python \cup Native
    BY <1>2, <2>1, IsMapEntry DEF Entry
  <2>3. m \in Python => m \in modules_info
    BY <2>1, OriginsFacts DEF RoundInv
  <2> QED
    BY <1>3, <2>2, <2>3
\* Of a module there is one alias.
<1>5. \A m \in CModules : \A a \in DOMAIN called_map : called_map[a].origin_name = m => a = last[m]
  <2>1. \A a, b \in DOMAIN called_map : called_map[a].origin_name = called_map[b].origin_name => a = b
    BY <1>2, MapsAgree
  <2>2. \A m \in CModules : last[m] \in DOMAIN called_map /\ called_map[last[m]].origin_name = m
    BY <1>1
  <2> QED
    BY <2>1, <2>2
<1>6. ASSUME NEW n \in c_functions' PROVE n \in CallableC
  <2>1. PICK m \in CModules : n \in {m} \X called_map[last[m]].called
    BY <1>1
  <2>2. last[m] \in DOMAIN called_map /\ called_map[last[m]].origin_name = m
    BY <1>1
  <2>3. n = <<m, n[2]>> /\ n[1] = m /\ n[2] \in called_map[last[m]].called
    BY <2>1
  <2>4. n[2] \in Function /\ n[2] # Own
    BY <1>2, <2>2, <2>3, IsMapEntry, ScriptsAssumption DEF Entry
  <2>5. n \in Reachable(script)
    <3>1. OnlyReachable(script, called_map)
      BY DEF SoundInv
    <3>2. \A f \in called_map[last[m]].called : <<m, f>> \in Reachable(script)
      BY <2>2, <3>1, ReachableEntry
    <3> QED
      BY <2>3, <3>2
  <2> QED
    BY <1>4, <2>3, <2>4, <2>5 DEF CallableC
<1>7. ASSUME NEW n \in CallableC PROVE n \in c_functions'
  <2>1. n \in Reachable(script) /\ n[1] \in Native /\ n[2] # Own
    BY DEF CallableC
  <2>2. PICK a \in DOMAIN called_map : called_map[a].origin_name = n[1] /\ n[2] \in called_map[a].called
    BY <2>1, ReachableKnown DEF Stop
  <2>3. n[1] \in CModules
    BY <1>3, <2>1, <2>2
  <2>4. n[2] \in called_map[last[n[1]]].called
    BY <1>5, <2>2, <2>3
  <2>5. n = <<n[1], n[2]>>
    <3>1. n \in Node
      BY <1>2, <2>1, ReachableFacts
    <3> QED
      BY <3>1 DEF Node
  <2>6. n \in {n[1]} \X called_map[last[n[1]]].called
    BY <2>4, <2>5
  <2> QED
    BY <1>1, <2>3, <2>6
<1> QED
  BY <1>6, <1>7

\* The reference does not change: it is about the script alone.
LEMMA NextResult ==
  ASSUME TypeOK, Unambiguous, RoundInv, SoundInv, CompleteInv, ResultInv, [Next]_vars
  PROVE  ResultInv'
<1>1. script' = script
  BY KnownGrows
<1>2. CallableC' = CallableC
  BY <1>1 DEF CallableC
<1>3. CASE Stop
  BY <1>2, <1>3, StopResult DEF ResultInv
<1>4. CASE pc' = "done" /\ ~ Stop
  <2>1. UNCHANGED <<pc, c_functions>>
    BY <1>4 DEF Next, vars, ParseModule, UserDefTracking, EndModule, EndRound, NextRound
  <2> QED
    BY <1>2, <2>1 DEF ResultInv
<1> QED
  BY <1>3, <1>4 DEF ResultInv

-----------------------------------------------------------------------------
(* The theorem.                                                            *)

LEMMA InitIInv == Init => IInv
BY InitType, InitRound, InitParsed, InitSound, InitComplete DEF IInv, ResultInv, Init

LEMMA NextIInv == IInv /\ [Next]_vars => IInv'
<1> SUFFICES ASSUME IInv, [Next]_vars PROVE IInv'
  OBVIOUS
<1>1. TypeOK /\ TypeOK'
  BY NextType DEF IInv
<1>2. script' = script
  BY DEF Next, vars, ParseModule, UserDefTracking, EndModule, EndRound, NextRound, Stop
<1>3. Unambiguous' = Unambiguous
  BY <1>2 DEF Unambiguous
<1>4. ASSUME Unambiguous PROVE (RoundInv /\ ParsedInv /\ SoundInv /\ CompleteInv /\ ResultInv)'
  BY <1>1, <1>4, NextRoundInv, NextParsed, NextSound, NextComplete, NextResult DEF IInv
<1> QED
  BY <1>1, <1>3, <1>4 DEF IInv

\* The maps name only what can be called, and what they do not name yet is
\* still to be found.
THEOREM WorklistInvariance == Spec => []IInv
<1> QED
  BY InitIInv, NextIInv, PTL DEF Spec

\* At the end the C functions that were found are those that the script can
\* reach, for any modules that call one another in any way, provided that
\* aliases and modules correspond.
THEOREM AllFoundHolds == Spec => []AllFound
<1>1. IInv => AllFound
  BY DEF IInv, ResultInv, AllFound
<1> QED
  BY <1>1, WorklistInvariance, PTL

=============================================================================
