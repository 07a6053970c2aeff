-------------------------- MODULE MCModuleWorklist --------------------------
(* A script, two modules of two functions that may call one another, and a   *)
(* C module. Every function calls at most one other, the top level of the    *)
(* script one or two; or some modules share an alias.                        *)
EXTENDS ModuleWorklist

Plain == [x \in {"a", "b", "c"} |-> x]

None == [x \in {} |-> x]

Body(m) == {{}} \cup { {c} : c \in ({Own} \X {"f", "g"}) \cup ((({"a", "b"} \ {m}) \X {"f", "g"}) \cup {<<"c", "f">>}) }

Defs(m) == { [f |-> x, g |-> y] : x \in Body(m), y \in Body(m) }

Top == { {<<"a", "f">>}, {<<"a", "g">>, <<"b", "f">>}, {<<"a", "f">>, <<"c", "g">>} }

Distinct == { [main |-> [imports |-> Plain, top |-> t, defs |-> None],
              a    |-> [imports |-> [x \in {"b", "c"} |-> x], top |-> {}, defs |-> da],
              b    |-> [imports |-> [x \in {"a", "c"} |-> x], top |-> tb, defs |-> db]] :
               t \in Top, tb \in {{}, {<<"c", "g">>}}, da \in Defs("a"), db \in Defs("b") }

(* The modules import each other as m.                                       *)
Shared == { [main |-> [imports |-> [m |-> "a"], top |-> {<<"m", "f">>}, defs |-> None],
             a    |-> [imports |-> [m |-> "b"], top |-> {}, defs |-> [f |-> {<<"m", "g">>}]],
             b    |-> [imports |-> [m |-> "a"], top |-> {}, defs |-> [g |-> {<<"m", "f">>}]]] }

(* Two modules import a third one under different names.                     *)
Twice == { [main |-> [imports |-> [x \in {"a", "b"} |-> x], top |-> {<<"a", "f">>, <<"b", "f">>}, defs |-> None],
            a    |-> [imports |-> [m |-> "c"], top |-> {}, defs |-> [f |-> {<<"m", "f">>}]],
            b    |-> [imports |-> [c |-> "c"], top |-> {}, defs |-> [f |-> {<<"c", "g">>}]]] }

MCScripts == Distinct \cup Shared \cup Twice
=============================================================================
