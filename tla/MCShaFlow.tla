----------------------------- MODULE MCShaFlow ------------------------------
(* The flow of ShaFlow for TLC, computed from the functions: from what may   *)
(* be known between calls, all points that can be reached. It is not part of *)
(* what is proved; that it is a flow is what TLC evaluates.                  *)
EXTENDS ShaFlow, MCSha

Idle(status(_)) == [known |-> [v \in Vars |-> IF v \in Locals THEN {"null"} ELSE status(v)], exc |-> FALSE]

NotImported(v) == CASE v = "process"                                -> {"own"}
                    [] v = "main_interpreter"                       -> {"null", "ref"}
                    [] v \in ModuleVariables \ {"m", "sha256_hash"} -> {"null", "own"}
                    [] OTHER                                        -> {"null"}

Imported(v) == CASE v = "main_interpreter"                -> {"ref"}
                 [] v = "cache_entry"                     -> {"null", "own"}
                 [] v \in ModuleVariables \cup {"process"} -> {"own"}
                 [] OTHER                                 -> {"null"}

Object(v) == CASE v \in {"function", "m_module", "func_qualname", "func_globals"} -> {"own"}
               [] v \in Fields -> {"null", "own"}
               [] OTHER        -> {"null"}

Gone(v) == {"null"}

OnlyCache(v) == IF v = "cache" THEN {"own"} ELSE {"null"}

MCBetween == {Idle(NotImported), Idle(Imported), Idle(Object), Idle(Gone), Idle(OnlyCache)}

(* Tracebacks of a failed import need only to know that "d" is there.        *)
Forgotten == ModuleVariables \ {"main_interpreter", "d", "m", "sha256_hash"}

EntryOf(x) ==
  LET f == StmtAt(x.at).fn
      a == Outside(x.knows) IN
  [fn    |-> f,
   knows |-> IF f = "AddTraceback" /\ a.known["sha256_hash"] = {"null"}
             THEN [a EXCEPT !.known = [v \in Vars |-> IF v \in Forgotten THEN {"null", "own"} ELSE @[v]]]
             ELSE a]

Entered(e) == [of |-> e, point |-> Point(Frame(e.fn), e.knows)]

Begun == UNION { { Entered([fn |-> f, knows |-> g]) : f \in { h \in DOMAIN Roots : g.known[Needs[h]] \cap Live # {} } } :
                   g \in MCBetween }

AtOp(X, op) == { z \in X : StmtAt(z.point.at).op = op }

Stepped(X) == UNION { { [of |-> z.of, point |-> Point(Goes(z.point.at, o[1]), o[2])] :
                          o \in Outcomes(StmtAt(z.point.at), z.point.knows) } : z \in X }

Returns(calls, ends) ==
  UNION { LET c == EntryOf(z.point) IN
          UNION { { [of |-> z.of, point |-> Back(z.point, y.point, r)] : r \in Results(y.point) } :
                    y \in { w \in ends : w.of = c } } : z \in calls }

(* Everything reached so far, the part of it that is new, and the calls and  *)
(* returns in it.                                                            *)
RECURSIVE Reach(_, _, _, _)
Reach(all, new, calls, ends) ==
  IF new = {} THEN all
  ELSE LET nc   == AtOp(new, "call")
           ne   == AtOp(new, "return")
           next == Stepped(new) \cup { Entered(EntryOf(z.point)) : z \in nc }
                   \cup Returns(nc, ends \cup ne) \cup Returns(calls, ne) IN
       Reach(all \cup new, next \ (all \cup new), calls \cup nc, ends \cup ne)

Reached == Reach({}, Begun, {}, {})

MCFlow == LET all == Reached IN
          [e \in { z.of : z \in all } |-> { z.point : z \in { w \in all : w.of = e } }]
=============================================================================
