---------------------------- MODULE QuotaManager ----------------------------
(***************************************************************************)
(* The quota monitor of experiment/main.go: a queue of instance lines, the *)
(* remaining vCPUs of every spot quota pattern, and MAX_THREADS goroutines *)
(* that take a line whose vCPUs fit, process it, and return the vCPUs.     *)
(*                                                                         *)
(* The mutex is explicit: a goroutine scans the queue one line per step    *)
(* while it holds the lock, and every other goroutine that is not inside   *)
(* the monitor runs in between.  processInstance is one step here, with    *)
(* its two results; ExperimentRunner.tla refines it.                       *)
(***************************************************************************)
EXTENDS Integers, Sequences, SequencesExt, FiniteSets, Sums

CONSTANTS
  MAX_THREADS,  \* number of goroutines
  Line,         \* the lines of instance.txt that main puts in the queue
  InitialQueue, \* their order in the file
  Type,         \* instance types
  TypeOf,       \* the type a line names
  VCPU,         \* default vCPUs of a type (DescribeInstanceTypes)
  Pattern,      \* the quota patterns, keys of instanceTypeLimit
  Match,        \* the patterns that match a type
  Quota,        \* instanceTypeLimit when the goroutines start
  Flaky,        \* types whose DescribeInstanceTypes call may fail
  Sticky        \* types whose instance may fail to terminate

Worker == 1 .. MAX_THREADS
None == 0

ASSUME MonitorAssumption ==
  /\ MAX_THREADS \in Nat \ {0}
  /\ InitialQueue \in Seq(Line)
  /\ IsInjective(InitialQueue)
  /\ TypeOf \in [Line -> Type]
  /\ VCPU \in [Type -> Nat \ {0}]
  /\ IsFiniteSet(Pattern)
  /\ Match \in [Type -> SUBSET Pattern]
  /\ Quota \in [Pattern -> Nat]
  /\ Flaky \subseteq Type
  /\ Sticky \subseteq Type
  /\ None \notin Line

VARIABLES
  queue,   \* quotaManager.queue
  limit,   \* experimentManager.instanceTypeLimit
  cache,   \* keys of experimentManager.vCPUCache
  lock,    \* the goroutine that holds quotaManager.lock, or None
  pc,      \* where each goroutine is
  cursor,  \* the loop variable i of getInstance (counted from 1)
  held,    \* the line a goroutine processes, or None
  lost     \* history: vCPUs that were never returned, under a pattern of their line

vars == <<queue, limit, cache, lock, pc, cursor, held, lost>>

PC == {"getInstance", "scan", "wait", "process", "release", "done"}

-----------------------------------------------------------------------------
(* What the monitor calls.                                                 *)

\* getInstanceFamily ranges over a Go map: any matching pattern may come first.
Families(v) == Match[TypeOf[v]]

\* getInstanceVCPU succeeds from the cache, and otherwise when AWS answers.
Lookups(v) ==
  IF TypeOf[v] \in Flaky /\ TypeOf[v] \notin cache THEN BOOLEAN ELSE {TRUE}

\* Variant: batchGetVCPUs does not store what it fetched.
Cached_Forgets(v) == cache

Cached(v) == cache \cup {TypeOf[v]}

Need(v) == VCPU[TypeOf[v]]

\* Variant: any remaining quota is taken for enough.
Fits_Positive(v, f) == limit[f] > 0

\* Variant: a line that would use up the quota does not fit.
Fits_Strict(v, f) == limit[f] > Need(v)

Fits(v, f) == limit[f] >= Need(v)

Waiting == {w \in Worker : pc[w] = "wait"}

\* Variant: wake somebody only when there is a line left to take.
Woken_NotWhenEmpty ==
  IF queue = << >> \/ Waiting = {} THEN {{}} ELSE {{x} : x \in Waiting}

\* Broadcast wakes every waiter; Signal wakes one, if there is one.
Woken ==
  IF queue = << >> \/ Waiting = {} THEN {Waiting} ELSE {{x} : x \in Waiting}

-----------------------------------------------------------------------------
Init ==
  /\ queue = InitialQueue
  /\ limit = Quota
  /\ cache = {}
  /\ lock = None
  /\ pc = [w \in Worker |-> "getInstance"]
  /\ cursor = [w \in Worker |-> 1]
  /\ held = [w \in Worker |-> None]
  /\ lost = [f \in Pattern |-> 0]

(***************************************************************************)
(* getInstance: lock, then either return nil on an empty queue or start a  *)
(* scan.  A goroutine woken from Wait comes back here.                     *)
(***************************************************************************)
ReturnNil(w) ==
  /\ pc[w] = "getInstance"
  /\ lock = None
  /\ queue = << >>
  /\ pc' = [pc EXCEPT ![w] = "done"]
  /\ UNCHANGED <<queue, limit, cache, lock, cursor, held, lost>>

StartScan(w) ==
  /\ pc[w] = "getInstance"
  /\ lock = None
  /\ queue # << >>
  /\ lock' = w
  /\ pc' = [pc EXCEPT ![w] = "scan"]
  /\ cursor' = [cursor EXCEPT ![w] = 1]
  /\ UNCHANGED <<queue, limit, cache, held, lost>>

Scanning(w) == pc[w] = "scan" /\ cursor[w] <= Len(queue)

Candidate(w) == queue[cursor[w]]

\* Variant: the head of the queue is removed whatever line is returned.
Dequeued_Head(w) == Tail(queue)

\* append(queue[:i], queue[i+1:]...)
Dequeued(w) == RemoveAt(queue, cursor[w])

\* No pattern matches the line: it leaves the queue for good.
DropUnknown(w) ==
  /\ Scanning(w)
  /\ Families(Candidate(w)) = {}
  /\ queue' = Dequeued(w)
  /\ UNCHANGED <<limit, cache, lock, pc, cursor, held, lost>>

\* Its vCPUs cannot be looked up: it leaves the queue for good as well.
DropUnresolved(w) ==
  /\ Scanning(w)
  /\ Families(Candidate(w)) # {}
  /\ FALSE \in Lookups(Candidate(w))
  /\ queue' = Dequeued(w)
  /\ UNCHANGED <<limit, cache, lock, pc, cursor, held, lost>>

\* The pattern has room: debit it and return the line.
Take(w) ==
  /\ Scanning(w)
  /\ \E f \in Families(Candidate(w)) :
       /\ Fits(Candidate(w), f)
       /\ limit' = [limit EXCEPT ![f] = @ - Need(Candidate(w))]
  /\ cache' = Cached(Candidate(w))
  /\ queue' = Dequeued(w)
  /\ held' = [held EXCEPT ![w] = Candidate(w)]
  /\ pc' = [pc EXCEPT ![w] = "process"]
  /\ lock' = None
  /\ UNCHANGED <<cursor, lost>>

\* Variant: a line without room is dropped like an unknown one.
Skip_Drops(w) ==
  /\ Scanning(w)
  /\ \E f \in Families(Candidate(w)) : ~Fits(Candidate(w), f)
  /\ cache' = Cached(Candidate(w))
  /\ queue' = Dequeued(w)
  /\ UNCHANGED <<limit, lock, pc, cursor, held, lost>>

\* The pattern has no room: look at the next line.
Skip(w) ==
  /\ Scanning(w)
  /\ \E f \in Families(Candidate(w)) : ~Fits(Candidate(w), f)
  /\ cache' = Cached(Candidate(w))
  /\ cursor' = [cursor EXCEPT ![w] = @ + 1]
  /\ UNCHANGED <<queue, limit, lock, pc, held, lost>>

\* cond.Wait at the end of the scan, whatever is left in the queue.
Wait(w) ==
  /\ pc[w] = "scan"
  /\ cursor[w] > Len(queue)
  /\ pc' = [pc EXCEPT ![w] = "wait"]
  /\ lock' = None
  /\ UNCHANGED <<queue, limit, cache, cursor, held, lost>>

(***************************************************************************)
(* run: processInstance says whether the quota may be released.  When it   *)
(* may not, the goroutine goes straight back to getInstance.               *)
(***************************************************************************)
ProcessTrue(w) ==
  /\ pc[w] = "process"
  /\ pc' = [pc EXCEPT ![w] = "release"]
  /\ UNCHANGED <<queue, limit, cache, lock, cursor, held, lost>>

ProcessFalse(w) ==
  /\ pc[w] = "process"
  /\ TypeOf[held[w]] \in Sticky
  /\ \E f \in Families(held[w]) : lost' = [lost EXCEPT ![f] = @ + Need(held[w])]
  /\ pc' = [pc EXCEPT ![w] = "getInstance"]
  /\ held' = [held EXCEPT ![w] = None]
  /\ UNCHANGED <<queue, limit, cache, lock, cursor>>

(***************************************************************************)
(* releaseInstance: looks the pattern and the vCPUs up again; when either  *)
(* is missing it returns without touching the quota and wakes nobody.      *)
(***************************************************************************)
releaseInstance(w) ==
  /\ pc[w] = "release"
  /\ lock = None
  /\ \E ok \in Lookups(held[w]) :
       IF ok /\ Families(held[w]) # {}
       THEN \E f \in Families(held[w]), woken \in Woken :
              /\ limit' = [limit EXCEPT ![f] = @ + Need(held[w])]
              /\ cache' = Cached(held[w])
              /\ pc' = [x \in Worker |->
                          IF x \in woken \cup {w} THEN "getInstance" ELSE pc[x]]
              /\ UNCHANGED lost
       ELSE /\ pc' = [pc EXCEPT ![w] = "getInstance"]
            /\ UNCHANGED <<limit, cache, lost>>
  /\ held' = [held EXCEPT ![w] = None]
  /\ UNCHANGED <<queue, lock, cursor>>

\* The monitor's steps, shared with the module that refines processInstance.
MonitorStep(w) ==
  \/ ReturnNil(w)
  \/ StartScan(w)
  \/ DropUnknown(w)
  \/ DropUnresolved(w)
  \/ Take(w)
  \/ Skip(w)
  \/ Wait(w)
  \/ releaseInstance(w)

run(w) == MonitorStep(w) \/ ProcessTrue(w) \/ ProcessFalse(w)

AllDone == \A w \in Worker : pc[w] = "done"

\* wg.Wait returns: nothing else happens in the monitor.
Finished == AllDone /\ UNCHANGED vars

Next == (\E w \in Worker : run(w)) \/ Finished

Spec == Init /\ [][Next]_vars

\* Every goroutine that can move is scheduled, and every wait inside
\* processInstance has a timeout.
FairSpec == Spec /\ \A w \in Worker : WF_vars(run(w))

-----------------------------------------------------------------------------
(* Properties.                                                             *)

TypeOK ==
  /\ queue \in Seq(Line)
  /\ limit \in [Pattern -> Nat]
  /\ cache \subseteq Type
  /\ lock \in Worker \cup {None}
  /\ pc \in [Worker -> PC]
  /\ cursor \in [Worker -> Nat \ {0}]
  /\ held \in [Worker -> Line \cup {None}]
  /\ lost \in [Pattern -> Nat]

Busy(w) == pc[w] \in {"process", "release"}

\* No line is processed by two goroutines, and none is processed while it is
\* still in the queue: append(queue[:i], queue[i+1:]...) removes what is returned.
NothingTwice ==
  /\ IsInjective(queue)
  /\ \A w \in Worker : Busy(w) => held[w] \notin Range(queue)
  /\ \A w, x \in Worker : Busy(w) /\ Busy(x) /\ w # x => held[w] # held[x]

\* A type may match several patterns (main.go:397 builds "i" and "inf"), of which
\* getInstance debits one and releaseInstance credits one, perhaps another.  What
\* can be said of quotas is said of sets of patterns that no type straddles.
Closed ==
  {F \in SUBSET Pattern :
     \A t \in Type : Match[t] \cap F # {} => Match[t] \subseteq F}

\* The vCPUs of the patterns F that goroutine w holds.
Charge(w, F) ==
  IF Busy(w) /\ Families(held[w]) \cap F # {} THEN Need(held[w]) ELSE 0

Charges(F) == [w \in Worker |-> Charge(w, F)]

\* Every vCPU of the quotas is free, held by a goroutine or withheld after a failed
\* termination: getInstance and releaseInstance move the same amount, though not
\* always between the same entries of instanceTypeLimit.  A pattern that shares no
\* type with another is a set of its own, and its vCPUs stay its own.
QuotaConserved ==
  \A F \in Closed :
    SetSum(limit, F) + SumTo(Charges(F), MAX_THREADS) + SetSum(lost, F) = SetSum(Quota, F)

\* The error returns of releaseInstance, which keep the quota and wake nobody,
\* are never taken: what getInstance looked up stays looked up.
ReleaseCannotFail ==
  \A w \in Worker :
    Busy(w) => Families(held[w]) # {} /\ TypeOf[held[w]] \in cache

\* No such set of patterns is believed to have more room than AWS granted; one
\* pattern among several of a type may be (README section 6).
QuotaBounded == \A F \in Closed : SetSum(limit, F) <= SetSum(Quota, F)

\* A line that lacks room on a pattern that may be chosen for it.
Blocked(v) == \E f \in Families(v) : limit[f] < Need(v)

\* When every goroutine has returned or sleeps in cond.Wait, no line is left
\* that fits: a wakeup that Signal gives to one goroutine only is never missed.
NoLostWakeup ==
  (\A w \in Worker : pc[w] \in {"wait", "done"})
    => \A k \in DOMAIN queue : Blocked(queue[k])

\* getInstance takes the first line that fits: a line is only overtaken by a
\* later one while it lacks room.
NoOvertaking ==
  [][\A w \in Worker :
       pc[w] = "scan" /\ pc'[w] = "process"
         => \A k \in 1 .. cursor[w] - 1 : Blocked(queue[k])]_vars

\* The inductive invariant behind the theorems of ExperimentRunner_proofs.tla: only
\* the scanning goroutine holds the lock, and what it has scanned lacks room.
ScanInv ==
  /\ \A w \in Worker : pc[w] = "scan" <=> lock = w
  /\ \A w \in Worker : Busy(w) => held[w] \in Line
  /\ \A w \in Worker :
       pc[w] = "scan" =>
         /\ cursor[w] <= Len(queue) + 1
         /\ \A k \in 1 .. cursor[w] - 1 : Blocked(queue[k])

IInv == TypeOK /\ ScanInv /\ NothingTwice /\ ReleaseCannotFail /\ NoLostWakeup

\* wg.Wait returns: every goroutine leaves run.
AllReturn == <>AllDone

Withheld == \E f \in Pattern : lost[f] > 0

\* The same, unless a quota was withheld: the wakeups that releaseInstance gives
\* out one at a time reach everybody in the end.
AllReturnOrWithheld == <>(AllDone \/ Withheld)

\* Every line that names a known type is processed by some goroutine, however
\* often others overtake it, unless a quota was withheld.  With overlapping
\* patterns this needs room for what is credited to another one than was debited.
EveryLineProcessed ==
  \A v \in Line :
    Families(v) # {} /\ TypeOf[v] \notin Flaky
      => <>(Withheld \/ \E w \in Worker : pc[w] = "process" /\ held[w] = v)

=============================================================================
