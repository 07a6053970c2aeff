----------------------------- MODULE References -----------------------------
(* The ownership of references in C code of a Python extension: a function  *)
(* is a sequence of statements under every label, and this module is the    *)
(* machine that runs them, with each fallible statement failing or not.     *)
(* What CPython itself does is external; the functions are in ShaModule.    *)
EXTENDS Integers, Sequences, SequencesExt

CONSTANTS Code,        \* function -> label -> statements; execution starts at "entry"
          Globals,     \* static variables
          Locals,      \* local variables, of all functions
          Roots,       \* the functions that Python calls -> what may hold of a call
          Needs,       \* root -> the static variable without which Python cannot call it
          Statics,     \* what the static variables may be to begin with
          MaxFailures  \* how many library calls may fail in one behaviour

VARIABLES stack,    \* the functions of the running call, outermost first
          mem,      \* mem[1][v]: static variables; mem[d + 1][v]: locals at depth d
          facts,    \* what holds of the arguments of the running call
          exc,      \* is the error indicator set?
          failures  \* how many library calls have failed

refVars == <<stack, mem, facts, exc, failures>>

(* A variable is NULL, owns a reference, borrows one, or still points to     *)
(* what it has released.                                                     *)
Status == {"null", "own", "ref", "gone"}

Live == {"own", "ref"}

----------------------------------------------------------------------------
(* Statements. "to" is the label of the error path; "" is the next statement.*)
Stmt(op, var, to) == [op |-> op, var |-> var, to |-> to]

New(v, l)      == Stmt("new", v, l)        \* v = f(...); if (!v) goto l
Malloc(v)      == Stmt("malloc", v, "")    \* v = malloc(...), no exception
Must(l)        == Stmt("must", "", l)      \* if (f(...) < 0) goto l
Raise(l)       == Stmt("raise", "", l)     \* PyErr_SetString(...); goto l
Goto(l)        == Stmt("goto", "", l)
If(fact, l)    == Stmt("if", fact, l)      \* if the call's arguments are such
Maybe(l)       == Stmt("maybe", "", l)     \* if something of the environment is so
IfNull(v, l)   == Stmt("ifnull", v, l)
IfExc(l)       == Stmt("ifexc", "", l)     \* if (PyErr_Occurred()) goto l
Uses(v)        == Stmt("uses", v, "")      \* a call that dereferences v
Drop(v)        == Stmt("drop", v, "")      \* Py_DECREF(v)
Clear(v)       == Stmt("clear", v, "")     \* Py_DECREF(v); v = 0
XDrop(v)       == Stmt("xdrop", v, "")     \* Py_XDECREF(v), or free(v)
XClear(v)      == Stmt("xclear", v, "")    \* Py_CLEAR(v)
Incref(v, w)   == Stmt("incref", v, w)     \* Py_INCREF(v); w = v
Borrow(v)      == Stmt("borrow", v, "")    \* v = a borrowed reference
Move(v, w)     == Stmt("move", v, w)       \* w = v; v = 0
Call(f, v, l)  == [op |-> "call", var |-> v, to |-> l, fn |-> f]
NoError        == Stmt("noerror", "", "")  \* PyErr_Clear()
Fetch(v)       == Stmt("fetch", v, "")     \* PyErr_Fetch(&v, ...)
Restore(v)     == Stmt("restore", v, "")   \* PyErr_Restore(v, ...)
Return(v)      == Stmt("return", v, "")    \* return v
Succeed        == Stmt("return", "ok", "") \* return 0
Fail           == Stmt("return", "failed", "")
Void           == Stmt("return", "void", "")

----------------------------------------------------------------------------
Frame(f) == [fn |-> f, label |-> "entry", k |-> 1]

Top == stack[Len(stack)]
At  == Code[Top.fn][Top.label][Top.k]

Running(op) == stack # <<>> /\ At.op = op

(* The top function goes on at label l or with the next statement.           *)
Goes(frame, l) == IF l = "" THEN [frame EXCEPT !.k = @ + 1]
                            ELSE [frame EXCEPT !.label = l, !.k = 1]

Continue(l) == stack' = [stack EXCEPT ![Len(stack)] = Goes(@, l)]

Level(d, v) == IF v \in Globals THEN 1 ELSE d + 1

Value(v) == mem[Level(Len(stack), v)][v]

Becomes(v, s) == mem' = [mem EXCEPT ![Level(Len(stack), v)][v] = s]

Fails == failures < MaxFailures /\ failures' = failures + 1

----------------------------------------------------------------------------
NewReference ==
  /\ Running("new")
  /\ \/ Becomes(At.var, "own") /\ Continue("") /\ UNCHANGED <<exc, failures>>
     \/ Fails /\ Becomes(At.var, "null") /\ Continue(At.to) /\ exc' = TRUE
  /\ UNCHANGED facts

Allocate ==
  /\ Running("malloc")
  /\ \/ Becomes(At.var, "own") /\ UNCHANGED failures
     \/ Fails /\ Becomes(At.var, "null")
  /\ Continue("")
  /\ UNCHANGED <<facts, exc>>

MustSucceed ==
  /\ Running("must")
  /\ \/ Continue("") /\ UNCHANGED <<exc, failures>>
     \/ Fails /\ Continue(At.to) /\ exc' = TRUE
  /\ UNCHANGED <<mem, facts>>

SetError ==
  /\ Running("raise")
  /\ exc' = TRUE
  /\ Continue(At.to)
  /\ UNCHANGED <<mem, facts, failures>>

ClearError ==
  /\ Running("noerror")
  /\ exc' = FALSE
  /\ Continue("")
  /\ UNCHANGED <<mem, facts, failures>>

(* The pending exception is taken out of the error indicator, or put back    *)
(* into it in place of another one.                                          *)
FetchError ==
  /\ Running("fetch")
  /\ Becomes(At.var, IF exc THEN "own" ELSE "null")
  /\ exc' = FALSE
  /\ Continue("")
  /\ UNCHANGED <<facts, failures>>

RestoreError ==
  /\ Running("restore")
  /\ exc' = (Value(At.var) = "own")
  /\ Becomes(At.var, "null")
  /\ Continue("")
  /\ UNCHANGED <<facts, failures>>

Jumps == CASE At.op = "goto"   -> {At.to}
           [] At.op = "if"     -> {IF At.var \in facts THEN At.to ELSE ""}
           [] At.op = "maybe"  -> {At.to, ""}
           [] At.op = "ifnull" -> {IF Value(At.var) = "null" THEN At.to ELSE ""}
           [] At.op = "ifexc"  -> {IF exc THEN At.to ELSE ""}

Jump ==
  /\ \E op \in {"goto", "if", "maybe", "ifnull", "ifexc"} : Running(op)
  /\ \E l \in Jumps : Continue(l)
  /\ UNCHANGED <<mem, facts, exc, failures>>

Use ==
  /\ Running("uses")
  /\ Value(At.var) \in Live
  /\ Continue("")
  /\ UNCHANGED <<mem, facts, exc, failures>>

(* A reference is released once, and only by its owner.                      *)
Release ==
  /\ \E op \in {"drop", "clear", "xdrop", "xclear"} : Running(op)
  /\ \/ /\ Value(At.var) = "own"
        /\ Becomes(At.var, IF At.op \in {"drop", "xdrop"} THEN "gone" ELSE "null")
     \/ Value(At.var) = "null" /\ At.op \in {"xdrop", "xclear"} /\ UNCHANGED mem
  /\ Continue("")
  /\ UNCHANGED <<facts, exc, failures>>

NewShare ==
  /\ Running("incref")
  /\ Value(At.var) \in Live
  /\ Becomes(At.to, "own")
  /\ Continue("")
  /\ UNCHANGED <<facts, exc, failures>>

BorrowReference ==
  /\ Running("borrow")
  /\ Becomes(At.var, "ref")
  /\ Continue("")
  /\ UNCHANGED <<facts, exc, failures>>

MoveReference ==
  /\ Running("move")
  /\ LET d == Len(stack) IN
     mem' = [mem EXCEPT ![Level(d, At.to)][At.to] = Value(At.var), ![Level(d, At.var)][At.var] = "null"]
  /\ Continue("")
  /\ UNCHANGED <<facts, exc, failures>>

NoLocals == [v \in Locals |-> "null"]

CallFunction ==
  /\ Running("call")
  /\ stack' = Append(stack, Frame(At.fn))
  /\ mem' = Append(mem, NoLocals)
  /\ UNCHANGED <<facts, exc, failures>>

----------------------------------------------------------------------------
(* A function returns a reference, or says whether it has failed.            *)
Returned == IF At.var \in {"ok", "failed", "void"} THEN At.var ELSE Value(At.var)

Failed(r) == r \in {"null", "failed"}

ReturnFromCall ==
  /\ Running("return")
  /\ Len(stack) > 1
  /\ LET d      == Len(stack) - 1
         caller == stack[d]
         call   == Code[caller.fn][caller.label][caller.k] IN
     /\ stack' = [Front(stack) EXCEPT ![d] = Goes(@, IF Failed(Returned) THEN call.to ELSE "")]
     /\ mem' = IF call.var = "" THEN Front(mem)
               ELSE [Front(mem) EXCEPT ![Level(d, call.var)][call.var] =
                       IF Returned \in Live THEN Returned ELSE "null"]
  /\ UNCHANGED <<facts, exc, failures>>

(* Python takes what a root returns, and catches the exception if there is   *)
(* one.                                                                      *)
ReturnToPython ==
  /\ Running("return")
  /\ Len(stack) = 1
  /\ stack' = <<>>
  /\ mem' = Front(mem)
  /\ facts' = {}
  /\ exc' = FALSE
  /\ UNCHANGED failures

EnterFromPython ==
  /\ stack = <<>>
  /\ \E f \in DOMAIN Roots : \E fs \in Roots[f] :
       /\ f \in DOMAIN Needs => mem[1][Needs[f]] \in Live
       /\ stack' = <<Frame(f)>>
       /\ facts' = fs
  /\ mem' = Append(mem, NoLocals)
  /\ UNCHANGED <<exc, failures>>

----------------------------------------------------------------------------
RefInit ==
  /\ stack = <<>>
  /\ mem \in { <<s>> : s \in Statics }
  /\ facts = {}
  /\ exc = FALSE
  /\ failures = 0

RefNext ==
  \/ NewReference \/ Allocate \/ MustSucceed \/ SetError \/ ClearError
  \/ FetchError \/ RestoreError \/ Jump \/ Use
  \/ Release \/ NewShare \/ BorrowReference \/ MoveReference
  \/ CallFunction \/ ReturnFromCall \/ ReturnToPython \/ EnterFromPython

RefSpec == RefInit /\ [][RefNext]_refVars

----------------------------------------------------------------------------
(* What may go wrong with the next statement, as <<function, variable>>. It  *)
(* uses a reference that is not there, or releases one it does not own ...   *)
Faults == { <<Top.fn, v>> : v \in { w \in Globals \cup Locals :
              /\ stack # <<>>
              /\ At.var = w
              /\ \/ At.op \in {"uses", "incref"} /\ Value(w) \notin Live
                 \/ At.op \in {"drop", "clear"} /\ Value(w) # "own"
                 \/ At.op \in {"xdrop", "xclear"} /\ Value(w) \notin {"own", "null"}
                 \/ At.op = "return" /\ Value(w) = "gone" } }

(* ... it overwrites the only reference to something ...                     *)
Target == CASE At.op \in {"new", "malloc", "borrow", "fetch", "call"} -> At.var
            [] At.op \in {"incref", "move"} -> At.to
            [] OTHER -> ""

Overwrites == { <<Top.fn, v>> : v \in { w \in Globals \cup Locals :
                  stack # <<>> /\ Target = w /\ Value(w) = "own" } }

(* ... or it returns while a local variable still owns something.            *)
Forgets == { <<Top.fn, v>> : v \in { w \in Locals :
               Running("return") /\ w # At.var /\ mem[Len(mem)][w] = "own" } }
=============================================================================
