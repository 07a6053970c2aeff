--------------------------- MODULE ModuleWorklist ---------------------------
(* btracking.main: which functions of C modules a Python script may call.    *)
(* The script is parsed, then every module it calls, with the functions of   *)
(* it that somebody calls, then what those call, until nothing is new. What  *)
(* is known is a map from the aliases that modules are imported as: one map  *)
(* for all importers. Functions imported by name, decorators and packages    *)
(* are left out.                                                             *)
EXTENDS Integers, FiniteSets

CONSTANTS Main,      \* the script
          Python,    \* modules with byte code
          Native,    \* modules without: '__not_pymodule'
          Function,  \* the names of functions
          Alias,
          Scripts    \* the script and the modules it may import

(* A script gives every module its imports, from aliases to modules, what    *)
(* its top level calls and what each of its functions calls. A call is       *)
(* <<alias, function>>, or <<Own, function>> within the module.              *)
Own == "__user_def"

ASSUME ScriptsAssumption ==
  /\ IsFiniteSet(Python) /\ IsFiniteSet(Native) /\ IsFiniteSet(Function)
  /\ Main \notin Python /\ (Python \cup {Main}) \cap Native = {}
  /\ "none" \notin Python \cup {Main}
  /\ Own \notin Alias \cup Function
  /\ \A s \in Scripts : \A m \in Python \cup {Main} :
       /\ DOMAIN s[m].imports \subseteq Alias
       /\ \A a \in DOMAIN s[m].imports : s[m].imports[a] \in Python \cup Native
       /\ \A c \in s[m].top \cup UNION { s[m].defs[f] : f \in DOMAIN s[m].defs } :
            c[1] \in DOMAIN s[m].imports \cup {Own} /\ c[2] \in Function

VARIABLES script,
          called_map,      \* alias -> origin_name and called, for all modules passed
          new_called_map,  \* the same for the modules of this round
          tracking,        \* next_tracking: what this round was begun for
          pycaches,        \* the modules of this round that are still to be tracked
          called_func,     \* module -> the functions of it that somebody was seen to call
          module,          \* the module that is being tracked, or "none"
          parsed,          \* its own called_map ...
          user_def,        \* ... and the functions of its own that are called
          modules_info,    \* every module that was ever looked up
          c_functions,     \* the result: <<module, function>>
          pc               \* "module", "round" or "done"

vars == <<script, called_map, new_called_map, tracking, pycaches, called_func, module, parsed, user_def,
          modules_info, c_functions, pc>>

----------------------------------------------------------------------------
(* merge_dictionaries, for the entries of modules: the functions called join *)
(* those of the same alias, unless it names another module: then the entry   *)
(* is replaced, and what was known is lost.                                  *)
Merged(A, B) ==
  [a \in DOMAIN A \cup DOMAIN B |->
     CASE a \notin DOMAIN A -> B[a]
       [] a \notin DOMAIN B -> A[a]
       [] a \in DOMAIN A \cap DOMAIN B /\ A[a].origin_name # B[a].origin_name -> B[a]
       [] OTHER -> [A[a] EXCEPT !.called = @ \cup B[a].called]]

(* create_call_map: what the top level of a module calls.                    *)
Calls(cs, a) == { c[2] : c \in { d \in cs : d[1] = a } }

Imported(m, cs) ==
  [a \in DOMAIN script[m].imports |-> [origin_name |-> script[m].imports[a], called |-> Calls(cs, a)]]

(* One turn of user_def_tracking: what the functions called so far call.     *)
Chains(m) == UNION { script[m].defs[f] : f \in user_def \cap DOMAIN script[m].defs }

NewTracked(m) == { c \in Chains(m) : IF c[1] = Own THEN c[2] \notin user_def ELSE c[2] \notin parsed[c[1]].called }

(* search_module_path                                                        *)
Origins(map) == { map[a].origin_name : a \in DOMAIN map }

Init ==
  /\ script \in Scripts
  /\ module = Main
  /\ parsed = Imported(Main, script[Main].top)
  /\ user_def = Calls(script[Main].top, Own)
  /\ modules_info = Origins(parsed)
  /\ pycaches = Origins(parsed)
  /\ called_map = [a \in {} |-> {}]
  /\ new_called_map = [a \in {} |-> {}]
  /\ tracking = [a \in {} |-> {}]
  /\ called_func = [m \in Python |-> {}]
  /\ c_functions = {}
  /\ pc = "module"

----------------------------------------------------------------------------
(* module_tracking takes up a module. Of its aliases only the first one in   *)
(* the map counts, whichever that is. The functions that other modules call  *)
(* are tracked if it defines them.                                           *)
AliasesOf(m) == { a \in DOMAIN tracking : tracking[a].origin_name = m }

ParseModule(m) ==
  /\ pc = "module" /\ module = "none"
  /\ m \in pycaches \cap Python
  /\ \E a \in AliasesOf(m) : called_func' = [called_func EXCEPT ![m] = @ \cup tracking[a].called]
  /\ module' = m
  /\ parsed' = Imported(m, script[m].top)
  /\ user_def' = Calls(script[m].top, Own) \cup (called_func'[m] \cap DOMAIN script[m].defs)
  /\ pycaches' = pycaches \ {m}
  /\ UNCHANGED <<script, called_map, new_called_map, tracking, modules_info, c_functions, pc>>

UserDefTracking ==
  /\ pc = "module" /\ module # "none"
  /\ NewTracked(module) # {}
  /\ user_def' = user_def \cup Calls(NewTracked(module), Own)
  /\ parsed' = Merged(parsed, Imported(module, NewTracked(module)))
  /\ UNCHANGED <<script, called_map, new_called_map, tracking, pycaches, called_func, module, modules_info,
                 c_functions, pc>>

(* Nothing is new. What the script itself calls starts the first round.      *)
EndModule ==
  /\ pc = "module" /\ module # "none"
  /\ NewTracked(module) = {}
  /\ module' = "none"
  /\ IF module = Main
     THEN called_map' = parsed /\ tracking' = parsed /\ UNCHANGED new_called_map
     ELSE new_called_map' = Merged(new_called_map, parsed) /\ UNCHANGED <<called_map, tracking>>
  /\ UNCHANGED <<script, pycaches, called_func, parsed, user_def, modules_info, c_functions, pc>>

(* Modules without byte code are passed over.                                *)
EndRound ==
  /\ pc = "module" /\ module = "none"
  /\ pycaches \cap Python = {}
  /\ pc' = "round"
  /\ UNCHANGED <<script, called_map, new_called_map, tracking, pycaches, called_func, module, parsed, user_def,
                 modules_info, c_functions>>

(* find_unique_keys_values, without what called_map has already: a module    *)
(* that is not there, or functions that are not there.                       *)
Unique_OnlyModules == { a \in DOMAIN new_called_map : a \notin DOMAIN called_map }

Unique_Unequal == { a \in DOMAIN new_called_map : a \in DOMAIN called_map => new_called_map[a] # called_map[a] }

Unique ==
  { a \in DOMAIN new_called_map : ~ (/\ a \in DOMAIN called_map
                                     /\ new_called_map[a].called \subseteq called_map[a].called) }

next_tracking == [a \in Unique |-> new_called_map[a]]

NextRound ==
  /\ pc = "round"
  /\ Unique # {}
  /\ tracking' = next_tracking
  /\ pycaches' = Origins(next_tracking)
  /\ modules_info' = modules_info \cup pycaches'
  /\ called_map' = Merged(called_map, new_called_map)
  /\ new_called_map' = [a \in {} |-> {}]
  /\ pc' = "module"
  /\ UNCHANGED <<script, called_func, module, parsed, user_def, c_functions>>

(* extract_c_func: what is called of the modules that have not been looked   *)
(* up as Python ones. Of two aliases of a module one overwrites the other.   *)
CModules == Origins([a \in { b \in DOMAIN called_map : called_map[b].called # {} } |-> called_map[a]])
              \ (modules_info \ Native)

Stop ==
  /\ pc = "round"
  /\ Unique = {}
  /\ \E last \in [CModules -> DOMAIN called_map] :
       /\ \A m \in CModules : called_map[last[m]].origin_name = m /\ called_map[last[m]].called # {}
       /\ c_functions' = UNION { {m} \X called_map[last[m]].called : m \in CModules }
  /\ pc' = "done"
  /\ UNCHANGED <<script, called_map, new_called_map, tracking, pycaches, called_func, module, parsed, user_def,
                 modules_info>>

Next == \/ \E m \in Python : ParseModule(m)
        \/ UserDefTracking \/ EndModule \/ EndRound \/ NextRound \/ Stop

Spec == Init /\ [][Next]_vars /\ WF_vars(Next)

----------------------------------------------------------------------------
(* The reference: what can be called, over all modules. <<m, Own>> is the    *)
(* top level of m, which runs when m is imported.                            *)
Node == (Python \cup {Main} \cup Native) \X (Function \cup {Own})

Callee(s, m, c) == IF c[1] = Own THEN <<m, c[2]>> ELSE <<s[m].imports[c[1]], c[2]>>

Successors(s, n) ==
  CASE n[1] \in Native -> {}
    [] n[1] \notin Native /\ n[2] = Own ->
         { Callee(s, n[1], c) : c \in s[n[1]].top } \cup { <<s[n[1]].imports[a], Own>> : a \in DOMAIN s[n[1]].imports }
    [] OTHER -> IF n[2] \in DOMAIN s[n[1]].defs THEN { Callee(s, n[1], c) : c \in s[n[1]].defs[n[2]] } ELSE {}

Reachable(s) ==
  LET Within[k \in 0..Cardinality(Node)] ==
        IF k = 0 THEN {<<Main, Own>>} ELSE LET W == Within[k - 1] IN W \cup UNION { Successors(s, n) : n \in W }
  IN  Within[Cardinality(Node)]

CallableC == { n \in Reachable(script) : n[1] \in Native /\ n[2] # Own }

(* No two modules are imported under one alias, and none under two.          *)
Imports(s) == UNION { { <<a, s[m].imports[a]>> : a \in DOMAIN s[m].imports } : m \in Python \cup {Main} }

Unambiguous == \A x, y \in Imports(script) : x[1] = y[1] <=> x[2] = y[2]

(* At the end the map names exactly the functions of C modules that a call   *)
(* of the script can lead to, over any number of modules that call one       *)
(* another in circles, found in any order, provided that modules and aliases *)
(* correspond: of a module with two aliases only one counts, and of an alias *)
(* with two modules the later one (bcode_utils.py:213).                      *)
AllFound == pc = "done" /\ Unambiguous => c_functions = CallableC

(* The rounds end although modules import one another, as the same called    *)
(* functions are not tracked twice. With an alias for two modules they need  *)
(* not: each replaces the other's entry for ever.                            *)
RoundsEnd == Unambiguous ~> (pc = "done")

----------------------------------------------------------------------------
(* The inductive invariant behind AllFound: the maps name only what can be   *)
(* called, and what is not in them yet is still to be found by a module that *)
(* is being tracked or waits for its turn.                                   *)
IsMap(s, M) ==
  /\ M \in [DOMAIN M -> [origin_name : Python \cup Native, called : SUBSET Function]]
  /\ \A a \in DOMAIN M : <<a, M[a].origin_name>> \in Imports(s)

TypeOK ==
  /\ script \in Scripts
  /\ IsMap(script, called_map) /\ IsMap(script, new_called_map)
  /\ IsMap(script, tracking) /\ IsMap(script, parsed)
  /\ pycaches \subseteq Python \cup Native
  /\ modules_info \subseteq Python \cup Native
  /\ called_func \in [Python -> SUBSET Function]
  /\ module \in Python \cup {Main, "none"}
  /\ user_def \subseteq Function
  /\ pc \in {"module", "round", "done"}

(* What the rounds have looked up, and what is still to be tracked.          *)
RoundInv ==
  /\ pc # "module" => module = "none" /\ pycaches \cap Python = {}
  /\ module = Main => /\ pycaches = Origins(parsed) /\ modules_info = Origins(parsed)
                      /\ DOMAIN called_map = {} /\ DOMAIN new_called_map = {}
  /\ module # Main => pycaches \subseteq Origins(tracking)
  /\ Origins(called_map) \cap Python \subseteq modules_info

(* The module that is being tracked.                                         *)
ParsedInv ==
  module # "none" =>
    /\ DOMAIN parsed = DOMAIN script[module].imports
    /\ \A a \in DOMAIN parsed : /\ parsed[a].origin_name = script[module].imports[a]
                               /\ Calls(script[module].top, a) \subseteq parsed[a].called
    /\ Calls(script[module].top, Own) \subseteq user_def
    /\ module \in Python => called_func[module] \cap DOMAIN script[module].defs \subseteq user_def

(* Nothing is tracked that cannot be called.                                 *)
OnlyReachable(s, M) ==
  \A a \in DOMAIN M : {M[a].origin_name} \X (M[a].called \cup {Own}) \subseteq Reachable(s)

SoundInv ==
  /\ OnlyReachable(script, called_map) /\ OnlyReachable(script, new_called_map)
  /\ OnlyReachable(script, tracking) /\ OnlyReachable(script, parsed)
  /\ module # "none" => {module} \X (user_def \cup {Own}) \subseteq Reachable(script)
  /\ \A m \in Python : {m} \X called_func[m] \subseteq Reachable(script)

(* Everything the functions U of m lead to is known to M, or is among U.     *)
Made(s, m, U) == s[m].top \cup UNION { s[m].defs[f] : f \in U \cap DOMAIN s[m].defs }

ExploredWith(s, m, U, M) ==
  /\ Calls(Made(s, m, U), Own) \subseteq U
  /\ \A a \in DOMAIN s[m].imports : a \in DOMAIN M /\ Calls(Made(s, m, U), a) \subseteq M[a].called

Wanted(m) == IF m \in Python THEN called_func[m] \cap DOMAIN script[m].defs ELSE {}

Explored(m) ==
  \E U \in SUBSET Function : Wanted(m) \subseteq U /\ ExploredWith(script, m, U, Merged(called_map, new_called_map))

(* What is called of a module was tracked, or this round was begun for it.   *)
Awaited(a) ==
  LET m == called_map[a].origin_name IN
  m \in Python => \/ called_map[a].called \subseteq called_func[m]
                 \/ /\ m \in pycaches /\ a \in DOMAIN tracking
                    /\ called_map[a].called \subseteq called_func[m] \cup tracking[a].called

(* Every module that is known and does not wait for its turn is explored.    *)
CompleteInv ==
  /\ module # Main => Explored(Main)
  /\ \A m \in Origins(called_map) \cap Python : m \notin pycaches /\ m # module => Explored(m)
  /\ \A a \in DOMAIN called_map : Awaited(a)

ResultInv == pc = "done" => c_functions = CallableC

IInv == TypeOK /\ (Unambiguous => RoundInv /\ ParsedInv /\ SoundInv /\ CompleteInv /\ ResultInv)
=============================================================================
