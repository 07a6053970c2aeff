------------------------------ MODULE ShaFlow -------------------------------
(* What may be known at every statement of the functions of ShaModule,       *)
(* whatever fails and however often they are called: for every variable the  *)
(* statuses that it may have there, and whether the error indicator is set.  *)
(* FlowClosed says that no step leads from what is known to what is not, and *)
(* FlowSafe that nothing that is known breaks a property of ShaModule. Both  *)
(* are about the functions and not about a behaviour, so TLC evaluates them. *)
EXTENDS ShaModule

CONSTANTS Flow,     \* how a function may be entered -> the points it may reach from there
          Between   \* what may be known while no call runs

Vars == Globals \cup Locals

Knowledge == [known : [Vars -> SUBSET Status], exc : BOOLEAN]

(* What a describes, b describes.                                            *)
Within(a, b) == a.exc = b.exc /\ \A v \in Vars : a.known[v] \subseteq b.known[v]

Now(a, v, S)  == [known |-> [a.known EXCEPT ![v] = S], exc |-> a.exc]
Error(a, b)   == [known |-> a.known, exc |-> b]
Point(p, a)   == [at |-> p, knows |-> a]
StmtAt(p)     == Code[p.fn][p.label][p.k]

----------------------------------------------------------------------------
(* A step of the function that runs, unless it is a call or a return: the    *)
(* labels to go on at, with what is known then.                              *)
Outcomes(s, a) ==
  LET v == s.var
      K == a.known[v] IN
  CASE s.op = "new"     -> {<<"", Now(a, v, {"own"})>>, <<s.to, Error(Now(a, v, {"null"}), TRUE)>>}
    [] s.op = "malloc"  -> {<<"", Now(a, v, {"own"})>>, <<"", Now(a, v, {"null"})>>}
    [] s.op = "must"    -> {<<"", a>>, <<s.to, Error(a, TRUE)>>}
    [] s.op = "raise"   -> {<<s.to, Error(a, TRUE)>>}
    [] s.op = "noerror" -> {<<"", Error(a, FALSE)>>}
    [] s.op = "fetch"   -> {<<"", Error(Now(a, v, IF a.exc THEN {"own"} ELSE {"null"}), FALSE)>>}
    [] s.op = "restore" -> { <<"", Error(Now(a, v, {"null"}), st = "own")>> : st \in K }
    [] s.op = "goto"    -> {<<s.to, a>>}
    [] s.op \in {"if", "maybe"} -> {<<s.to, a>>, <<"", a>>}
    [] s.op = "ifnull"  -> { <<IF st = "null" THEN s.to ELSE "", Now(a, v, {st})>> : st \in K }
    [] s.op = "ifexc"   -> {<<IF a.exc THEN s.to ELSE "", a>>}
    [] s.op = "uses"    -> { <<"", Now(a, v, {st})>> : st \in K \cap Live }
    [] s.op \in {"drop", "xdrop"}   -> { <<"", Now(a, v, {IF st = "own" THEN "gone" ELSE "null"})>> :
                                           st \in K \cap (IF s.op = "drop" THEN {"own"} ELSE {"own", "null"}) }
    [] s.op \in {"clear", "xclear"} -> { <<"", Now(a, v, {"null"})>> :
                                           st \in K \cap (IF s.op = "clear" THEN {"own"} ELSE {"own", "null"}) }
    [] s.op = "incref"  -> { <<"", Now(Now(a, v, {st}), s.to, {"own"})>> : st \in K \cap Live }
    [] s.op = "borrow"  -> {<<"", Now(a, v, {"ref"})>>}
    [] s.op = "move"    -> {<<"", Now(Now(a, s.to, K), v, {"null"})>>}
    [] OTHER            -> {}

(* A call begins with the static variables as they are, and no locals.       *)
Outside(a) == [known |-> [v \in Vars |-> IF v \in Locals THEN {"null"} ELSE a.known[v]], exc |-> a.exc]

Results(x) == LET v == StmtAt(x.at).var IN IF v \in {"ok", "failed", "void"} THEN {v} ELSE x.knows.known[v]

Exits(c) == { y \in Flow[c] : StmtAt(y.at).op = "return" }

(* What is known where x called, when the callee has returned r at y.        *)
Back(x, y, r) ==
  LET s == StmtAt(x.at) IN
  Point(Goes(x.at, IF Failed(r) THEN s.to ELSE ""),
        [known |-> [v \in Vars |-> IF v = s.var THEN {IF r \in Live THEN r ELSE "null"}
                                   ELSE IF v \in Globals THEN y.knows.known[v] ELSE x.knows.known[v]],
         exc   |-> y.knows.exc])

(* The call at x, in a function entered as e, is one entered as c.           *)
Serves(e, x, c) ==
  /\ c.fn = StmtAt(x.at).fn
  /\ Within(Outside(x.knows), c.knows)
  /\ \A y \in Exits(c) : \A r \in Results(y) : Back(x, y, r) \in Flow[e]

----------------------------------------------------------------------------
Operands(s) ==
  /\ s.op \in {"new", "malloc", "fetch", "restore", "ifnull", "uses", "drop", "clear", "xdrop", "xclear", "incref",
               "borrow", "move"} => s.var \in Vars
  /\ s.op \in {"incref", "move"} => s.to \in Vars /\ s.to # s.var
  /\ s.op = "call" => s.var \in Vars \cup {""}
  /\ s.op = "return" => s.var \in Vars \cup {"ok", "failed", "void"}

ASSUME FlowTyped ==
  /\ Globals \cap Locals = {}
  /\ {"", "ok", "failed", "void"} \cap Vars = {}
  /\ \A f \in DOMAIN Needs : Needs[f] \in Globals
  /\ Between \subseteq Knowledge
  /\ \A e \in DOMAIN Flow : \A x \in Flow[e] :
       x = Point(x.at, x.knows) /\ x.knows \in Knowledge /\ Operands(StmtAt(x.at))

ASSUME FlowClosed ==
  /\ \A s \in Statics : s \in [Globals -> Status] /\ \E g \in Between : \A v \in Globals : s[v] \in g.known[v]
  /\ \A g \in Between : \A f \in DOMAIN Roots :
       (f \in DOMAIN Needs => g.known[Needs[f]] \cap Live # {})
         => \E c \in DOMAIN Flow : c.fn = f /\ Within(Error(Outside(g), FALSE), c.knows)
  /\ \A e \in DOMAIN Flow :
       /\ Point(Frame(e.fn), e.knows) \in Flow[e]
       /\ \A x \in Flow[e] :
            /\ \A o \in Outcomes(StmtAt(x.at), x.knows) : Point(Goes(x.at, o[1]), o[2]) \in Flow[e]
            /\ StmtAt(x.at).op = "call" => \E c \in DOMAIN Flow : Serves(e, x, c)
       /\ e.fn \in DOMAIN Roots =>
            \A y \in Exits(e) : \E g \in Between : \A v \in Globals : y.knows.known[v] \subseteq g.known[v]

----------------------------------------------------------------------------
(* What is known keeps to OnlyKnownFaults ...                                *)
NoFaultAt(x) ==
  LET s == StmtAt(x.at)
      K == x.knows.known[s.var] IN
  s.var \in Vars /\ <<x.at.fn, s.var>> # <<"pf_sha256_hash", "hash">> /\ s.var \notin Strings =>
    /\ s.op \in {"uses", "incref"} => K \subseteq Live
    /\ s.op \in {"drop", "clear"} => K \subseteq {"own"}
    /\ s.op \in {"xdrop", "xclear"} => K \subseteq {"own", "null"}
    /\ s.op = "return" => "gone" \notin K

(* ... to OnlyKnownLeaks ...                                                 *)
TargetOf(s) == CASE s.op \in {"new", "malloc", "borrow", "fetch", "call"} -> s.var
                 [] s.op \in {"incref", "move"} -> s.to
                 [] OTHER -> ""

NoLeakAt(x) ==
  LET s == StmtAt(x.at)
      w == TargetOf(s)
      K == x.knows.known IN
  /\ w \in Vars /\ "own" \in K[w] =>
       \/ <<x.at.fn, w>> \in SetAgain /\ K["sha256_hash"] = {"null"}
       \/ <<x.at.fn, w>> \in ({"init_defaults"} \X {"defaults_tuple", "defaults_kwdict"}) \ SetAgain
  /\ s.op = "return" => \A v \in Locals \ {s.var} : "own" \in K[v] => <<x.at.fn, v>> = <<"pf_sha256_hash", "hash">>

(* ... to ErrorProtocol ...                                                  *)
HiddenAt(x) == x.knows.known["m"] = {"own"} /\ \E v \in Strings : x.knows.known[v] = {"null"}

ErrorsAt(x) ==
  StmtAt(x.at).op = "return" =>
    /\ \A r \in Results(x) :
         /\ Failed(r) => x.knows.exc \/ x.at.fn \in MayFindNothing
         /\ r \in Live \cup {"ok"} =>
              ~x.knows.exc \/ x.at.fn \in {"find_code_object", "set_defaults", "set_kwdefaults"} \/ HiddenAt(x)
    /\ x.at.fn \in SetException => x.knows.exc

(* ... and between calls to ReadyWhenReached and FieldsReleased.             *)
ReadyAt(g) ==
  /\ "own" \in g.known["sha256_hash"] => \A v \in ModuleVariables \ {"cache_entry"} : g.known[v] \subseteq Live
  /\ "null" \in g.known["function"] => \A f \in Fields : g.known[f] = {"null"}

ASSUME FlowSafe ==
  /\ ModuleVariables \cup Fields \cup {"function"} \subseteq Globals
  /\ \A e \in DOMAIN Flow : \A x \in Flow[e] : NoFaultAt(x) /\ NoLeakAt(x) /\ ErrorsAt(x)
  /\ \A g \in Between : ReadyAt(g)
=============================================================================
