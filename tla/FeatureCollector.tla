--------------------------- MODULE FeatureCollector ---------------------------
(***************************************************************************)
(* cpu_feature_collector/run/main.go: goroutines that start one spot       *)
(* instance per type, fetch the CSV its ./collector prints and write it to *)
(* result/.  The monitor looks like the experiment's but differs where it  *)
(* matters: a line is dropped once its CSV exists, its vCPUs come from the *)
(* crawler's JSON, and the quota is returned on every path, before the     *)
(* instance has terminated.  The program may be killed and run again: only *)
(* the CSVs survive that.                                                  *)
(***************************************************************************)
EXTENDS Integers, Sequences, SequencesExt, FiniteSets, Sums

CONSTANTS
  MAX_THREADS,  \* number of goroutines
  Line,         \* the instances of cpu-instance.json
  Orders,       \* the orders in which ranging over the JSON's map yields them
  VCPU,         \* the vCPUs the JSON gives a line
  Pattern,      \* the regular expressions of instanceTypeLimit
  PatternOf,    \* getInstanceType: the one that matches a line, or NoPattern
  NoPattern,
  Quota         \* instanceTypeLimit at the start

Worker == 1 .. MAX_THREADS
None == 0

ASSUME CollectorAssumption ==
  /\ MAX_THREADS \in Nat \ {0}
  /\ IsFiniteSet(Line)
  /\ \A q \in Orders : q \in Seq(Line) /\ IsInjective(q)
  /\ VCPU \in [Line -> Nat \ {0}]
  /\ PatternOf \in [Line -> Pattern \cup {NoPattern}]
  /\ NoPattern \notin Pattern
  /\ Quota \in [Pattern -> Nat]
  /\ None \notin Line

VARIABLES
  main,    \* where main is: "workers" while it waits for its goroutines
  queue,   \* queue
  limit,   \* instanceTypeLimit
  lock,    \* the goroutine that holds lock, or None
  pc,      \* where each goroutine is
  cursor,  \* the loop variable i of getInstance (counted from 1)
  held,    \* the line a goroutine works on, or None
  body,    \* outputContent
  csv,     \* result/<instance>.csv
  ec2,     \* external: the instance or spot request of this run for each line
  givenUp  \* history: instances run moved on from without terminating them

monitor == <<queue, limit, lock, cursor>>
vars == <<main, monitor, pc, held, body, csv, ec2, givenUp>>

Live(v) == ec2[v] \in {"running", "shutting-down"}

Goto(w, l) == pc' = [pc EXCEPT ![w] = l]
At(w, l) == main = "workers" /\ pc[w] = l

-----------------------------------------------------------------------------
(* main.                                                                   *)

Stopped(how) ==
  /\ main' = how
  /\ queue' = << >>
  /\ limit' = Quota
  /\ lock' = None
  /\ cursor' = [w \in Worker |-> 1]
  /\ pc' = [w \in Worker |-> "done"]
  /\ held' = [w \in Worker |-> None]
  /\ body' = [w \in Worker |-> "nil"]

Init ==
  /\ main = "exited"
  /\ queue = << >> /\ limit = Quota /\ lock = None
  /\ cursor = [w \in Worker |-> 1]
  /\ pc = [w \in Worker |-> "done"]
  /\ held = [w \in Worker |-> None]
  /\ body = [w \in Worker |-> "nil"]
  /\ csv = [v \in Line |-> "absent"]
  /\ ec2 = [v \in Line |-> "none"]
  /\ givenUp = {}

\* The queue is filled from the JSON, unfiltered, and the security group of
\* this run created.  Instances an earlier run left are not looked at again.
Start ==
  /\ main # "workers"
  /\ main' = "workers"
  /\ queue' \in Orders
  /\ pc' = [w \in Worker |-> "getInstance"]
  /\ ec2' = [v \in Line |-> "none"]
  /\ givenUp' = {}
  /\ UNCHANGED <<limit, lock, cursor, held, body, csv>>

\* A signal or a panic.
Crash ==
  /\ main = "workers"
  /\ Stopped("exited")
  /\ UNCHANGED <<csv, ec2, givenUp>>

\* wg.Wait returns and the deferred DeleteSecurityGroup runs at once; EC2
\* refuses it while an instance uses the group, and main panics.
WaitGroupDone ==
  /\ main = "workers"
  /\ \A w \in Worker : pc[w] = "done"
  /\ Stopped(IF \E v \in Line : Live(v) THEN "panicked" ELSE "exited")
  /\ UNCHANGED <<csv, ec2, givenUp>>

-----------------------------------------------------------------------------
(* getInstance: one line of the queue per step, under the lock.            *)

ReturnNil(w) ==
  /\ At(w, "getInstance") /\ lock = None
  /\ queue = << >>
  /\ Goto(w, "done")
  /\ UNCHANGED <<main, monitor, held, body, csv, ec2, givenUp>>

StartScan(w) ==
  /\ At(w, "getInstance") /\ lock = None
  /\ queue # << >>
  /\ lock' = w
  /\ cursor' = [cursor EXCEPT ![w] = 1]
  /\ Goto(w, "scan")
  /\ UNCHANGED <<main, queue, limit, held, body, csv, ec2, givenUp>>

Scanning(w) == At(w, "scan") /\ cursor[w] <= Len(queue)
Candidate(w) == queue[cursor[w]]

\* Variant: any remaining quota is taken for enough.
Leaves_Positive(v) == \A f \in {PatternOf[v]} \ {NoPattern} : limit[f] > 0

\* "instanceType == nil || instanceTypeLimit[instanceType] >= v.vcpu"
Leaves(v) == \A f \in {PatternOf[v]} \ {NoPattern} : limit[f] >= VCPU[v]

\* Variant: os.Stat is not consulted.
Collected_Never(v) == FALSE

\* os.Stat finds the CSV: "already collected".
Collected(v) == csv[v] # "absent"

Takeable(v) == Leaves(v) /\ ~Collected(v) /\ PatternOf[v] # NoPattern

\* Already collected, or of an unknown type.
Drop(w) ==
  /\ Scanning(w)
  /\ Leaves(Candidate(w)) /\ ~Takeable(Candidate(w))
  /\ queue' = RemoveAt(queue, cursor[w])
  /\ UNCHANGED <<main, limit, lock, cursor, pc, held, body, csv, ec2, givenUp>>

Take(w) ==
  /\ Scanning(w)
  /\ Takeable(Candidate(w))
  /\ limit' = [limit EXCEPT ![PatternOf[Candidate(w)]] = @ - VCPU[Candidate(w)]]
  /\ queue' = RemoveAt(queue, cursor[w])
  /\ held' = [held EXCEPT ![w] = Candidate(w)]
  /\ lock' = None
  /\ Goto(w, "request")
  /\ UNCHANGED <<main, cursor, body, csv, ec2, givenUp>>

Skip(w) ==
  /\ Scanning(w)
  /\ ~Leaves(Candidate(w))
  /\ cursor' = [cursor EXCEPT ![w] = @ + 1]
  /\ UNCHANGED <<main, queue, limit, lock, pc, held, body, csv, ec2, givenUp>>

\* cond.Wait, also when the scan has just emptied the queue.
Wait(w) ==
  /\ At(w, "scan") /\ cursor[w] > Len(queue)
  /\ lock' = None
  /\ Goto(w, "wait")
  /\ UNCHANGED <<main, queue, limit, cursor, held, body, csv, ec2, givenUp>>

-----------------------------------------------------------------------------
(* run.                                                                    *)

\* RequestSpotInstances fails.
RequestFails(w) ==
  /\ At(w, "request")
  /\ Goto(w, "release")
  /\ UNCHANGED <<main, monitor, held, body, csv, ec2, givenUp>>

Requests(w) ==
  /\ At(w, "request")
  /\ ec2' = [ec2 EXCEPT ![held[w]] = "open"]
  /\ Goto(w, "fulfil")
  /\ UNCHANGED <<main, monitor, held, body, csv, givenUp>>

\* The waiter sees the request fulfilled and the describe gives the instance.
Fulfilled(w) ==
  /\ At(w, "fulfil")
  /\ ec2[held[w]] \in {"running", "terminated"}
  /\ Goto(w, "fetch")
  /\ UNCHANGED <<main, monitor, held, body, csv, ec2, givenUp>>

\* The waiter times out, possibly as the request is fulfilled, or the describe
\* fails: the request is neither cancelled nor its instance terminated.
GivesUp(w) ==
  /\ At(w, "fulfil")
  /\ givenUp' = givenUp \cup {held[w]}
  /\ Goto(w, "release")
  /\ UNCHANGED <<main, monitor, held, body, csv, ec2>>

\* io.ReadAll fails half way: what it read stays in outputContent, and the next
\* of the 30 attempts replaces it only if it gets as far.
ReadBreaks(w) ==
  /\ At(w, "fetch")
  /\ ec2[held[w]] = "running"
  /\ \E b \in {"empty", "part"} : body' = [body EXCEPT ![w] = b]
  /\ UNCHANGED <<main, monitor, pc, held, csv, ec2, givenUp>>

Fetches(w) ==
  /\ At(w, "fetch")
  /\ ec2[held[w]] = "running"
  /\ body' = [body EXCEPT ![w] = "whole"]
  /\ Goto(w, "terminate")
  /\ UNCHANGED <<main, monitor, held, csv, ec2, givenUp>>

\* Variant: only a fetched result reaches TerminateInstances.
StopsFetching_NoDefer(w) ==
  /\ At(w, "fetch")
  /\ Goto(w, "write")
  /\ UNCHANGED <<main, monitor, held, body, csv, ec2, givenUp>>

\* Not running in time, not described, or 30 attempts without a result.
StopsFetching(w) ==
  /\ At(w, "fetch")
  /\ Goto(w, "terminate")
  /\ UNCHANGED <<main, monitor, held, body, csv, ec2, givenUp>>

\* The deferred TerminateInstances; its error is only logged, and nobody waits
\* for the instance to terminate.
Terminates(w) ==
  /\ At(w, "terminate")
  /\ \/ /\ ec2' = [ec2 EXCEPT ![held[w]] = IF Live(held[w]) THEN "shutting-down" ELSE @]
        /\ UNCHANGED givenUp
     \/ /\ givenUp' = givenUp \cup {held[w]}
        /\ UNCHANGED ec2
  /\ Goto(w, "write")
  /\ UNCHANGED <<main, monitor, held, body, csv>>

\* len(featureResult) is 0.
NothingToWrite(w) ==
  /\ At(w, "write")
  /\ body[w] \in {"nil", "empty"}
  /\ Goto(w, "release")
  /\ UNCHANGED <<main, monitor, held, body, csv, ec2, givenUp>>

\* os.WriteFile creates the file, then fills it; its error is ignored.
CreatesFile(w) ==
  /\ At(w, "write")
  /\ body[w] \in {"part", "whole"}
  /\ csv' = [csv EXCEPT ![held[w]] = "partial"]
  /\ Goto(w, "fill")
  /\ UNCHANGED <<main, monitor, held, body, ec2, givenUp>>

FillsFile(w) ==
  /\ At(w, "fill")
  /\ \/ UNCHANGED csv
     \/ body[w] = "whole" /\ csv' = [csv EXCEPT ![held[w]] = "complete"]
  /\ Goto(w, "release")
  /\ UNCHANGED <<main, monitor, held, body, ec2, givenUp>>

Waiting == {w \in Worker : pc[w] = "wait"}

\* Broadcast on an empty queue, otherwise Signal.
Woken ==
  IF queue = << >> \/ Waiting = {} THEN {Waiting} ELSE {{x} : x \in Waiting}

\* Variant: the quota comes back only when a CSV was fetched.
Returned_IfFetched(w) ==
  IF body[w] = "whole" THEN [limit EXCEPT ![PatternOf[held[w]]] = @ + VCPU[held[w]]] ELSE limit

Returned(w) == [limit EXCEPT ![PatternOf[held[w]]] = @ + VCPU[held[w]]]

\* Its panic on a type without pattern cannot happen: only lines with one are taken.
releaseInstance(w) ==
  /\ At(w, "release") /\ lock = None
  /\ limit' = Returned(w)
  /\ \E woken \in Woken :
       pc' = [x \in Worker |-> IF x \in woken \cup {w} THEN "getInstance" ELSE pc[x]]
  /\ held' = [held EXCEPT ![w] = None]
  /\ body' = [body EXCEPT ![w] = "nil"]
  /\ UNCHANGED <<main, queue, lock, cursor, csv, ec2, givenUp>>

getInstance(w) ==
  ReturnNil(w) \/ StartScan(w) \/ Drop(w) \/ Take(w) \/ Skip(w) \/ Wait(w)

run(w) ==
  \/ getInstance(w)
  \/ RequestFails(w) \/ Requests(w) \/ Fulfilled(w) \/ GivesUp(w)
  \/ ReadBreaks(w) \/ Fetches(w) \/ StopsFetching(w) \/ Terminates(w)
  \/ NothingToWrite(w) \/ CreatesFile(w) \/ FillsFile(w)
  \/ releaseInstance(w)

-----------------------------------------------------------------------------
(* EC2 itself.                                                             *)

Moves(v, from, to) ==
  /\ ec2[v] \in from
  /\ ec2' = [ec2 EXCEPT ![v] = to]
  /\ UNCHANGED <<main, monitor, pc, held, body, csv, givenUp>>

\* A request is fulfilled as long as the security group exists.
Fulfil(v) == main = "workers" /\ Moves(v, {"open"}, "running")

\* ValidUntil passes.
Expire(v) == Moves(v, {"open"}, "none")

\* A spot interruption, or the end of shutting down.
End(v) == Moves(v, {"running", "shutting-down"}, "terminated")

EC2 == \E v \in Line : Fulfil(v) \/ Expire(v) \/ End(v)

-----------------------------------------------------------------------------
Next == Start \/ Crash \/ WaitGroupDone \/ EC2 \/ \E w \in Worker : run(w)

Spec == Init /\ [][Next]_vars

\* The scheduler runs every goroutine, and a fetch makes at most 30 attempts:
\* it cannot break for ever.
FairSpec ==
  /\ Spec
  /\ WF_vars(WaitGroupDone)
  /\ \A w \in Worker : WF_vars(run(w)) /\ WF_vars(StopsFetching(w))

-----------------------------------------------------------------------------
(* Properties.                                                             *)

\* The vCPUs of pattern f that goroutine w has taken.
Charge(w, f) == IF held[w] # None /\ PatternOf[held[w]] = f THEN VCPU[held[w]] ELSE 0

Charges(f) == [w \in Worker |-> Charge(w, f)]

\* Whatever fails in run, releaseInstance gives back to a pattern exactly what
\* getInstance took from it: the vCPUs of the lines being worked on are missing,
\* and no more than the quota is ever taken.
QuotaConserved ==
  \A f \in Pattern :
    limit[f] >= 0 /\ limit[f] + SumTo(Charges(f), MAX_THREADS) = Quota[f]

\* What AWS counts against pattern f for this run: its requests and instances,
\* except those that run has given up and those it has told to terminate.
Counted(f) ==
  {v \in Line \ givenUp : PatternOf[v] = f /\ ec2[v] \in {"open", "running"}}

\* They never need more vCPUs than AWS granted, although the quota is debited
\* before the request is made and credited when other steps may have failed: while
\* a request or an instance is there, so is the goroutine whose debit covers it.
WithinQuota ==
  main = "workers" =>
    \A f \in Pattern : SetSum(VCPU, Counted(f)) <= Quota[f]

\* A request or an instance of this run that may still cost money belongs to a
\* goroutine that is going to terminate it, or is one of those given up.
OwnedOrGivenUp ==
  main = "workers" =>
    \A v \in Line :
      ec2[v] \in {"open", "running"} =>
        \/ v \in givenUp
        \/ \E w \in Worker : held[w] = v /\ pc[w] \in {"fulfil", "fetch", "terminate"}

\* A CSV that is complete is never written again, by this run or a later one.
CollectedOnce ==
  [][\A v \in Line : csv[v] = "complete" => csv'[v] = "complete"]_vars

(***************************************************************************)
(* The inductive invariant behind FeatureCollector_proofs.tla.             *)
(***************************************************************************)
\* Between getInstance and releaseInstance a goroutine is at one of these.
Unwritten == {"request", "fulfil", "fetch", "terminate", "write"}
Holding == Unwritten \cup {"fill", "release"}

TypeOK ==
  /\ main \in {"exited", "workers", "panicked"}
  /\ queue \in Seq(Line)
  /\ limit \in [Pattern -> Nat]
  /\ lock \in Worker \cup {None}
  /\ pc \in [Worker -> Holding \cup {"getInstance", "scan", "wait", "done"}]
  /\ cursor \in [Worker -> Nat \ {0}]
  /\ held \in [Worker -> Line \cup {None}]
  /\ body \in [Worker -> {"nil", "empty", "part", "whole"}]
  /\ csv \in [Line -> {"absent", "partial", "complete"}]
  /\ ec2 \in [Line -> {"none", "open", "running", "shutting-down", "terminated"}]
  /\ givenUp \subseteq Line

\* Only the scanning goroutine has the lock, a goroutine has a line exactly
\* between getInstance and releaseInstance, and without main there is none.
Control ==
  /\ \A w \in Worker : pc[w] = "scan" <=> lock = w
  /\ \A w \in Worker : held[w] # None <=> pc[w] \in Holding
  /\ main # "workers" => \A w \in Worker : pc[w] = "done"

\* A line is in the queue, with one goroutine, or gone.
NothingTwice ==
  /\ IsInjective(queue)
  /\ \A w \in Worker : held[w] \notin Range(queue)
  /\ \A w, x \in Worker : held[w] # None /\ w # x => held[w] # held[x]

\* The lines that goroutines work on have a pattern.
HeldKnown == \A w \in Worker : held[w] # None => PatternOf[held[w]] # NoPattern

\* What a goroutine knows of its line's CSV and instance, read long before.
StillTrue ==
  \A w \in Worker :
    /\ pc[w] \in Unwritten => csv[held[w]] = "absent"
    /\ pc[w] \in {"fetch", "terminate"} => ec2[held[w]] # "open"

IInv ==
  /\ TypeOK /\ Control /\ NothingTwice /\ StillTrue
  /\ HeldKnown /\ OwnedOrGivenUp

\* The one way for a run to hang: a scan emptied the queue by dropping lines, the
\* goroutine called cond.Wait all the same, and nobody is left to wake it.
SleepsAlone ==
  /\ queue = << >>
  /\ \E w \in Waiting : cursor[w] = 1
  /\ \A w \in Worker : pc[w] \in {"wait", "done"}

\* A run ends, however its instances fail, unless it sleeps over an empty queue.
\* It holds where every type's vCPUs are within its pattern's quota, as in
\* MCFeatureCollector: getInstance would wait for ever for a larger one.
CollectionEnds == main = "workers" ~> main # "workers" \/ SleepsAlone

=============================================================================
