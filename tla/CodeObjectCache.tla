-------------------------- MODULE CodeObjectCache ---------------------------
(* The cache of code objects in sha256_hash.c: a sorted array from lines to  *)
(* the code objects made for tracebacks, searched by bisection. To add a     *)
(* traceback is to find the line's code object, or to make one and insert    *)
(* it. Making one allocates, so the garbage collector may run a finalizer    *)
(* that adds a traceback of its own before the first one goes on: "calls" is *)
(* the stack of those. Positions count from 0, as in the code.               *)
EXTENDS Integers, Sequences, FiniteSets

CONSTANTS Lines,      \* the lines that tracebacks are added for: -c_line, or py_line
          Codes,      \* code objects
          NoCode,     \* NULL
          Block,      \* the entries by which the array grows
          Nested      \* how many tracebacks may wait for others

ASSUME CacheAssumption ==
  /\ Lines \subseteq Int \ {0}
  /\ NoCode \notin Codes
  /\ Block \in Nat \ {0}
  /\ Nested \in Nat

VARIABLES entries,   \* 0..count - 1 -> the line and the code object of an entry
          count,
          max_count, \* how many entries the array has room for; 0: not allocated
          refs,      \* code object -> how many references there are to it
          uncounted, \* the lines whose entry was replaced and holds no reference of its own
          calls      \* the tracebacks being added, outermost first

cacheVars == <<entries, count, max_count, refs, uncounted, calls>>

Position == 0..(count - 1)

(* The search of a call is between start and end; mid is where it last       *)
(* looked. A call is at "find" or "insert" before and "finding" or           *)
(* "inserting" during the bisection, at "create" while its code object is    *)
(* made, and at "frame" when it has one.                                     *)
Calls == [line : Lines, pc : {"find", "finding", "create", "insert", "inserting", "frame"},
          start : Int, mid : Int, end : Int, code : Codes \cup {NoCode}]

CacheInit ==
  /\ entries = [i \in {} |-> NoCode]
  /\ count = 0
  /\ max_count = 0
  /\ refs = [c \in Codes |-> 0]
  /\ uncounted = {}
  /\ calls = <<>>

Adding  == calls[Len(calls)]
Waiting == SubSeq(calls, 1, Len(calls) - 1)

IsAt(pc) == calls # <<>> /\ Adding.pc = pc

Turns(call) == calls' = [calls EXCEPT ![Len(calls)] = call]

----------------------------------------------------------------------------
(* AddTraceback is called, by Python or out of a finalizer.                  *)
BeginTraceback(line) ==
  /\ calls # <<>> => IsAt("create") /\ Len(calls) <= Nested
  /\ calls' = Append(calls, [line |-> line, pc |-> "find", start |-> 0, mid |-> 0, end |-> 0, code |-> NoCode])
  /\ UNCHANGED <<entries, count, max_count, refs, uncounted>>

----------------------------------------------------------------------------
(* bisect_code_objects: a line beyond the last entry is at its end ...       *)
Beyond(line) == line > entries[count - 1].line

Looking(pc, start, mid, end) ==
  [line |-> Adding.line, pc |-> pc, start |-> start, mid |-> mid, end |-> end, code |-> Adding.code]

BeginSearch(pc) == Turns(Looking(pc, 0, 0, count - 1))

(* ... and otherwise every turn of the loop halves the range, unless it      *)
(* looks at the line itself.                                                 *)
Middle == Adding.start + (Adding.end - Adding.start) \div 2

Searching == Adding.start < Adding.end /\ Adding.line # entries[Middle].line

Bisecting == calls # <<>> /\ Adding.pc \in {"finding", "inserting"}

Bisect ==
  /\ Bisecting
  /\ Searching
  /\ Turns(IF Adding.line < entries[Middle].line
           THEN Looking(Adding.pc, Adding.start, Middle, Middle)
           ELSE Looking(Adding.pc, Middle + 1, Middle, Adding.end))
  /\ UNCHANGED <<entries, count, max_count, refs, uncounted>>

(* The position that the search ends with. A code object found there is dead *)
(* when nobody has a reference to it: to use it is undefined, and ends the   *)
(* behaviour.                                                                *)
Found_AtMid == IF Adding.start < Adding.end THEN Middle ELSE Adding.mid

Found == IF Adding.start < Adding.end THEN Middle
         ELSE IF Adding.line <= entries[Adding.mid].line THEN Adding.mid ELSE Adding.mid + 1

----------------------------------------------------------------------------
(* find_code_object.                                                         *)
Find ==
  /\ IsAt("find")
  /\ IF max_count = 0 \/ Beyond(Adding.line) THEN Turns([Adding EXCEPT !.pc = "create"])
                                           ELSE BeginSearch("finding")
  /\ UNCHANGED <<entries, count, max_count, refs, uncounted>>

FindEnds ==
  /\ IsAt("finding")
  /\ ~Searching
  /\ IF entries[Found].line = Adding.line
     THEN /\ refs[entries[Found].code] > 0
          /\ Turns([Adding EXCEPT !.pc = "frame", !.code = entries[Found].code])
          /\ refs' = [refs EXCEPT ![entries[Found].code] = @ + 1]
     ELSE Turns([Adding EXCEPT !.pc = "create"]) /\ UNCHANGED refs
  /\ UNCHANGED <<entries, count, max_count, uncounted>>

(* CreateCodeObjectForTraceback: a new object, or no memory and no entry.    *)
Create ==
  /\ IsAt("create")
  /\ \/ \E c \in Codes :
          /\ refs[c] = 0
          /\ refs' = [refs EXCEPT ![c] = 1]
          /\ Turns([Adding EXCEPT !.pc = "insert", !.code = c])
     \/ calls' = Waiting /\ UNCHANGED refs
  /\ UNCHANGED <<entries, count, max_count, uncounted>>

----------------------------------------------------------------------------
(* insert_code_object: the array is allocated with the first entry ...       *)
Entry == [line |-> Adding.line, code |-> Adding.code]

Framed == Turns([Adding EXCEPT !.pc = "frame"])

InsertFirst ==
  /\ IsAt("insert")
  /\ max_count = 0
  /\ Framed
  /\ \/ /\ max_count' = Block
        /\ count' = 1
        /\ entries' = [i \in {0} |-> Entry]
        /\ refs' = [refs EXCEPT ![Adding.code] = @ + 1]
        /\ UNCHANGED uncounted
     \/ UNCHANGED <<entries, count, max_count, refs, uncounted>>

(* ... grows by a block when it is full, or else keeps what it has ...       *)
InsertedAt_NoIncref(pos) ==
  /\ Framed
  /\ \/ /\ max_count' = IF count = max_count THEN max_count + Block ELSE max_count
        /\ count' = count + 1
        /\ entries' = [i \in 0..count |-> CASE i < pos -> entries[i]
                                            [] i = pos -> Entry
                                            [] i > pos -> entries[i - 1]]
        /\ UNCHANGED <<refs, uncounted>>
     \/ count = max_count /\ UNCHANGED <<entries, count, max_count, refs, uncounted>>

InsertedAt(pos) ==
  /\ Framed
  /\ \/ /\ max_count' = IF count = max_count THEN max_count + Block ELSE max_count
        /\ count' = count + 1
        /\ entries' = [i \in 0..count |-> CASE i < pos -> entries[i]
                                            [] i = pos -> Entry
                                            [] i > pos -> entries[i - 1]]
        /\ refs' = [refs EXCEPT ![Adding.code] = @ + 1]
        /\ UNCHANGED uncounted
     \/ count = max_count /\ UNCHANGED <<entries, count, max_count, refs, uncounted>>

InsertSearch ==
  /\ IsAt("insert")
  /\ max_count > 0
  /\ IF Beyond(Adding.line) THEN InsertedAt(count)
     ELSE BeginSearch("inserting") /\ UNCHANGED <<entries, count, max_count, refs, uncounted>>

(* ... and an entry of the line itself gets the new object, in place of the  *)
(* reference to the old one.                                                 *)
InsertEnds ==
  /\ IsAt("inserting")
  /\ ~Searching
  /\ IF entries[Found].line = Adding.line
     THEN /\ refs[entries[Found].code] > 0
          /\ entries' = [entries EXCEPT ![Found] = Entry]
          /\ refs' = [refs EXCEPT ![entries[Found].code] = @ - 1]
          /\ uncounted' = uncounted \cup {Adding.line}
          /\ Framed
          /\ UNCHANGED <<count, max_count>>
     ELSE InsertedAt(Found)

(* PyFrame_New and the end of AddTraceback: the call's reference is given    *)
(* back. Python's traceback may hold one too; at the earliest it is already  *)
(* gone.                                                                     *)
Finish ==
  /\ IsAt("frame")
  /\ calls' = Waiting
  /\ refs' = [refs EXCEPT ![Adding.code] = @ - 1]
  /\ UNCHANGED <<entries, count, max_count, uncounted>>

CacheNext ==
  \/ \E line \in Lines : BeginTraceback(line)
  \/ Bisect \/ Find \/ FindEnds \/ Create \/ InsertFirst \/ InsertSearch \/ InsertEnds \/ Finish

CacheSpec == CacheInit /\ [][CacheNext]_cacheVars

----------------------------------------------------------------------------
CacheTypeOK ==
  /\ count \in Nat
  /\ max_count \in Nat
  /\ entries \in [Position -> [line : Lines, code : Codes]]
  /\ refs \in [Codes -> Int]
  /\ calls \in Seq(Calls)

(* Whatever tracebacks wait for whatever others while code objects are made: *)
(* the lines of the array are strictly ascending, without which bisection    *)
(* finds nothing; nothing beyond what was allocated is read or written (the  *)
(* search of an array without entries would read its first one); and the     *)
(* bisection, though it stops at "mid" and not at "start", ends at the first *)
(* entry that is not before the line: bisect_code_objects and its callers.   *)
Ascending == \A i, j \in Position : i < j => entries[i].line < entries[j].line

InBounds ==
  /\ count <= max_count
  /\ max_count > 0 => count > 0
  /\ Bisecting => Middle \in Position /\ Adding.mid \in Position
  /\ Bisecting /\ ~Searching => Found \in Position

SearchExact ==
  Bisecting /\ ~Searching => \A i \in Position : entries[i].line < Adding.line <=> i < Found

SearchCorrect == Ascending /\ InBounds /\ SearchExact

(* A code object is counted once for each entry and once for each call that  *)
(* has it, so that the cache's objects are alive. The branch that replaces   *)
(* an entry takes no reference; it is taken only when a finalizer has added  *)
(* the same line while the object was made (sha256_hash.c:5490).             *)
Holders(c) == Cardinality({i \in Position : entries[i].code = c /\ entries[i].line \notin uncounted})
            + Cardinality({k \in 1..Len(calls) : calls[k].code = c})

CountsExact == \A c \in Codes : refs[c] = Holders(c)
=============================================================================
