----------------------- MODULE FeatureCollector_proofs -----------------------
(***************************************************************************)
(* Proofs about the feature collector, for any number of goroutines and    *)
(* lines, any orders of the JSON's map and any quotas.                     *)
(***************************************************************************)
EXTENDS FeatureCollector, Lemmas

\* run between getInstance and releaseInstance: the line stays with w.
Works(w) ==
  \/ RequestFails(w) \/ Requests(w) \/ Fulfilled(w) \/ GivesUp(w)
  \/ ReadBreaks(w) \/ Fetches(w) \/ StopsFetching(w) \/ Terminates(w)
  \/ NothingToWrite(w) \/ CreatesFile(w) \/ FillsFile(w)

-----------------------------------------------------------------------------
(* What the operators return.                                              *)

LEMMA NoneNotWorker == \A w \in Worker : w # None
BY DEF Worker, None

LEMMA ScanFacts ==
  ASSUME TypeOK, NEW w \in Worker, Scanning(w)
  PROVE  /\ cursor[w] \in 1 .. Len(queue)
         /\ Candidate(w) \in Line
         /\ RemoveAt(queue, cursor[w]) \in Seq(Line)
         /\ Len(RemoveAt(queue, cursor[w])) = Len(queue) - 1
         /\ \A k \in 1 .. Len(queue) - 1 :
              RemoveAt(queue, cursor[w])[k] = IF k < cursor[w] THEN queue[k] ELSE queue[k + 1]
<1>1. cursor[w] \in 1 .. Len(queue) /\ queue \in Seq(Line)
  BY DEF TypeOK, Scanning
<1>2. Candidate(w) \in Line
  BY <1>1 DEF Candidate
<1> QED
  BY <1>1, <1>2, RemoveAtProperties

\* What a removal leaves of a queue without repetitions.
LEMMA RemovalFacts ==
  ASSUME TypeOK, IsInjective(queue), NEW w \in Worker, Scanning(w)
  PROVE  /\ IsInjective(RemoveAt(queue, cursor[w]))
         /\ Range(RemoveAt(queue, cursor[w])) \subseteq Range(queue)
         /\ Candidate(w) \in Range(queue)
         /\ Candidate(w) \notin Range(RemoveAt(queue, cursor[w]))
<1>1. queue \in Seq(Line) /\ cursor[w] \in 1 .. Len(queue)
  BY ScanFacts DEF TypeOK
<1> QED
  BY <1>1, RemoveAtInjective DEF Candidate

LEMMA WokenFacts ==
  ASSUME NEW woken \in Woken
  PROVE  woken \subseteq Waiting
BY DEF Woken

\* A pattern a held line is charged to, and how much.
LEMMA HeldFacts ==
  ASSUME TypeOK, HeldKnown, NEW w \in Worker, held[w] # None
  PROVE  held[w] \in Line /\ PatternOf[held[w]] \in Pattern /\ VCPU[held[w]] \in Nat
BY CollectorAssumption DEF TypeOK, HeldKnown

\* Such a step moves only w, and w keeps its line.
LEMMA WorksFrame ==
  ASSUME TypeOK, NEW w \in Worker, Works(w)
  PROVE  /\ main = "workers" /\ pc[w] \in Holding /\ pc[w] # "release"
         /\ pc'[w] \in Holding /\ pc' \in [Worker -> Holding \cup {"getInstance", "scan", "wait", "done"}]
         /\ \A x \in Worker : x # w => pc'[x] = pc[x]
         /\ UNCHANGED <<main, queue, limit, lock, cursor, held>>
BY DEF Works, RequestFails, Requests, Fulfilled, GivesUp, ReadBreaks, Fetches, StopsFetching,
       Terminates, NothingToWrite, CreatesFile, FillsFile, At, Goto, monitor, TypeOK,
       Holding, Unwritten

\* Whatever main was doing, nothing of it is left.
LEMMA StoppedFacts ==
  ASSUME NEW how \in {"exited", "panicked"}, Stopped(how)
  PROVE  /\ main' = how /\ queue' = << >> /\ limit' = Quota /\ lock' = None
         /\ \A w \in Worker : pc'[w] = "done" /\ held'[w] = None
BY DEF Stopped

-----------------------------------------------------------------------------
(* The inductive invariant, one conjunct at a time.                        *)

LEMMA InitIInv == Init => IInv
<1> SUFFICES ASSUME Init PROVE IInv
  OBVIOUS
<1> USE CollectorAssumption DEF Init
<1>1. TypeOK
  BY DEF TypeOK, Worker, None
<1>2. Control
  BY NoneNotWorker DEF Control, Holding, Unwritten
<1>3. NothingTwice
  BY DEF NothingTwice, IsInjective, Range, None
<1>4. StillTrue
  BY DEF StillTrue, Unwritten
<1>5. HeldKnown /\ OwnedOrGivenUp
  BY DEF HeldKnown, OwnedOrGivenUp
<1> QED
  BY <1>1, <1>2, <1>3, <1>4, <1>5 DEF IInv

LEMMA TypeOKStep == IInv /\ [Next]_vars => TypeOK'
<1> SUFFICES ASSUME IInv, [Next]_vars PROVE TypeOK'
  OBVIOUS
<1>1. TypeOK /\ Control /\ HeldKnown
  BY DEF IInv
<1>2. ASSUME Start PROVE TypeOK'
  BY <1>1, <1>2, CollectorAssumption DEF Start, TypeOK
<1>3. ASSUME Crash \/ WaitGroupDone PROVE TypeOK'
  <2>1. PICK how \in {"exited", "panicked"} : Stopped(how)
    BY <1>3 DEF Crash, WaitGroupDone
  <2>2. UNCHANGED <<csv, ec2, givenUp>>
    BY <1>3 DEF Crash, WaitGroupDone
  <2>3. Quota \in [Pattern -> Nat]
    BY CollectorAssumption
  <2>4. /\ queue' \in Seq(Line) /\ limit' \in [Pattern -> Nat] /\ lock' = None
        /\ main' \in {"exited", "panicked"}
    BY <2>1, <2>3 DEF Stopped
  <2>5. /\ pc' = [w \in Worker |-> "done"] /\ cursor' = [w \in Worker |-> 1]
        /\ held' = [w \in Worker |-> None] /\ body' = [w \in Worker |-> "nil"]
    BY <2>1 DEF Stopped
  <2>6. /\ pc' \in [Worker -> Holding \cup {"getInstance", "scan", "wait", "done"}]
        /\ cursor' \in [Worker -> Nat \ {0}]
    BY <2>5
  <2>7. /\ held' \in [Worker -> Line \cup {None}]
        /\ body' \in [Worker -> {"nil", "empty", "part", "whole"}]
    BY <2>5
  <2>8. /\ csv' \in [Line -> {"absent", "partial", "complete"}]
        /\ ec2' \in [Line -> {"none", "open", "running", "shutting-down", "terminated"}]
        /\ givenUp' \subseteq Line
    BY <1>1, <2>2 DEF TypeOK
  <2>9. /\ main' \in {"exited", "workers", "panicked"}
        /\ lock' \in Worker \cup {None}
    BY <2>4
  <2> QED
    BY <2>4, <2>6, <2>7, <2>8, <2>9, Zenon DEF TypeOK
<1>4. ASSUME EC2 PROVE TypeOK'
  BY <1>1, <1>4 DEF EC2, Fulfil, Expire, End, Moves, monitor, TypeOK
<1>5. ASSUME NEW w \in Worker, ReturnNil(w) \/ StartScan(w) \/ Skip(w) \/ Wait(w) PROVE TypeOK'
  <2>1. CASE ReturnNil(w) \/ Wait(w)
    BY <1>1, <2>1 DEF ReturnNil, Wait, Goto, monitor, TypeOK
  <2>2. CASE StartScan(w)
    BY <1>1, <2>2 DEF StartScan, Goto, monitor, TypeOK
  <2>3. CASE Skip(w)
    BY <1>1, <2>3 DEF Skip, TypeOK
  <2> QED
    BY <1>5, <2>1, <2>2, <2>3
<1>6. ASSUME NEW w \in Worker, Drop(w) PROVE TypeOK'
  BY <1>1, <1>6, ScanFacts DEF Drop, TypeOK
<1>7. ASSUME NEW w \in Worker, Take(w) PROVE TypeOK'
  <2>1. Scanning(w) /\ Takeable(Candidate(w)) /\ Candidate(w) \in Line
    BY <1>1, <1>7, ScanFacts DEF Take
  <2>2. limit' \in [Pattern -> Nat]
    <3>1. PatternOf[Candidate(w)] \in Pattern /\ VCPU[Candidate(w)] \in Nat
      BY <2>1, CollectorAssumption DEF Takeable
    <3>2. limit[PatternOf[Candidate(w)]] >= VCPU[Candidate(w)]
      BY <2>1, <3>1 DEF Takeable, Leaves
    <3> QED
      BY <1>1, <1>7, <3>1, <3>2 DEF Take, TypeOK
  <2> QED
    BY <1>1, <1>7, <2>1, <2>2, ScanFacts DEF Take, Goto, TypeOK, Holding, Unwritten
<1>8. ASSUME NEW w \in Worker, Works(w) PROVE TypeOK'
  <2>1. held[w] \in Line
    BY <1>1, <1>8, WorksFrame DEF TypeOK, Control
  <2>2. body' \in [Worker -> {"nil", "empty", "part", "whole"}]
    <3>1. \/ body' = body
          \/ \E b \in {"empty", "part", "whole"} : body' = [body EXCEPT ![w] = b]
      BY <1>8 DEF Works, RequestFails, Requests, Fulfilled, GivesUp, ReadBreaks, Fetches,
         StopsFetching, Terminates, NothingToWrite, CreatesFile, FillsFile
    <3> QED
      BY <1>1, <3>1 DEF TypeOK
  <2>4. givenUp' \subseteq Line
    BY <1>1, <1>8, <2>1 DEF Works, RequestFails, Requests, Fulfilled, GivesUp, ReadBreaks, Fetches,
       StopsFetching, Terminates, NothingToWrite, CreatesFile, FillsFile, TypeOK
  <2>3. /\ csv' \in [Line -> {"absent", "partial", "complete"}]
        /\ ec2' \in [Line -> {"none", "open", "running", "shutting-down", "terminated"}]
    BY <1>1, <1>8, <2>1 DEF Works, RequestFails, Requests, Fulfilled, GivesUp, ReadBreaks, Fetches,
       StopsFetching, Terminates, NothingToWrite, CreatesFile, FillsFile, TypeOK
  <2> QED
    BY <1>1, <1>8, <2>2, <2>3, <2>4, WorksFrame DEF TypeOK
<1>9. ASSUME NEW w \in Worker, releaseInstance(w) PROVE TypeOK'
  <2>1. held[w] # None
    BY <1>1, <1>9 DEF releaseInstance, At, Control, Holding
  <2>2. limit' \in [Pattern -> Nat]
    BY <1>1, <1>9, <2>1, HeldFacts DEF releaseInstance, Returned, TypeOK
  <2> QED
    BY <1>1, <1>9, <2>2 DEF releaseInstance, TypeOK
<1>10. ASSUME UNCHANGED vars PROVE TypeOK'
  BY <1>1, <1>10 DEF vars, monitor, TypeOK
<1> QED
  BY <1>2, <1>3, <1>4, <1>5, <1>6, <1>7, <1>8, <1>9, <1>10 DEF Next, run, getInstance, Works

\* The steps of getInstance that leave the queue alone.
Looks(w) == ReturnNil(w) \/ StartScan(w) \/ Skip(w) \/ Wait(w)

LEMMA ControlStep == IInv /\ [Next]_vars => Control'
<1> SUFFICES ASSUME IInv, [Next]_vars PROVE Control'
  OBVIOUS
<1>1. TypeOK /\ Control
  BY DEF IInv
<1> USE NoneNotWorker
<1>2. ASSUME Start PROVE Control'
  BY <1>1, <1>2 DEF Start, Control, Holding, Unwritten
<1>3. ASSUME Crash \/ WaitGroupDone PROVE Control'
  <2>1. PICK how \in {"exited", "panicked"} : Stopped(how)
    BY <1>3 DEF Crash, WaitGroupDone
  <2> QED
    BY <2>1, StoppedFacts DEF Control, Holding, Unwritten
<1>4. ASSUME EC2 PROVE Control'
  BY <1>1, <1>4 DEF EC2, Fulfil, Expire, End, Moves, monitor, Control
<1>5. ASSUME NEW w \in Worker, getInstance(w) PROVE Control'
  <2>1. main' = "workers"
    BY <1>5 DEF getInstance, ReturnNil, StartScan, Drop, Take, Skip, Wait, Scanning, At
  <2>2. CASE ReturnNil(w) \/ Wait(w)
    <3>1. /\ pc'[w] \in {"done", "wait"} /\ lock' = None /\ held' = held
          /\ pc[w] \in {"getInstance", "scan"} /\ (lock = None \/ lock = w)
          /\ \A x \in Worker : x # w => pc'[x] = pc[x]
      BY <1>1, <2>2 DEF ReturnNil, Wait, At, Goto, monitor, TypeOK, Control
    <3>2. \A x \in Worker : pc'[x] # "scan"
      BY <1>1, <3>1 DEF Control
    <3> QED
      BY <1>1, <2>1, <3>1, <3>2 DEF Control, Holding, Unwritten
  <2>3. CASE StartScan(w)
    <3>1. \A x \in Worker : pc[x] # "scan"
      BY <1>1, <2>3 DEF StartScan, Control
    <3>2. /\ pc[w] = "getInstance" /\ pc'[w] = "scan" /\ lock' = w /\ held' = held
          /\ \A x \in Worker : x # w => pc'[x] = pc[x]
      BY <1>1, <2>3 DEF StartScan, At, Goto, TypeOK
    <3> QED
      BY <1>1, <2>1, <3>1, <3>2 DEF Control, Holding, Unwritten
  <2>4. CASE Drop(w) \/ Skip(w)
    BY <1>1, <2>1, <2>4 DEF Drop, Skip, Control
  <2>5. CASE Take(w)
    <3>1. Candidate(w) # None /\ lock = w
      BY <1>1, <2>5, ScanFacts, CollectorAssumption DEF Take, Scanning, At, Control
    <3>2. /\ held'[w] = Candidate(w) /\ pc'[w] = "request" /\ lock' = None
          /\ \A x \in Worker : x # w => held'[x] = held[x] /\ pc'[x] = pc[x]
      BY <1>1, <2>5 DEF Take, Goto, TypeOK
    <3> QED
      BY <1>1, <2>1, <3>1, <3>2 DEF Control, Holding, Unwritten
  <2> QED
    BY <1>5, <2>2, <2>3, <2>4, <2>5 DEF getInstance
<1>6. ASSUME NEW w \in Worker, Works(w) PROVE Control'
  BY <1>1, <1>6, WorksFrame DEF Control, Holding, Unwritten
<1>7. ASSUME NEW w \in Worker, releaseInstance(w) PROVE Control'
  <2>1. PICK woken \in Woken :
          pc' = [x \in Worker |-> IF x \in woken \cup {w} THEN "getInstance" ELSE pc[x]]
    BY <1>7 DEF releaseInstance
  <2>2. woken \subseteq Waiting
    BY WokenFacts
  <2>3. \A x \in Worker : (held[x] # None /\ x # w) <=> pc'[x] \in Holding
    BY <1>1, <2>1, <2>2 DEF Control, Waiting, Holding, Unwritten
  <2>4. \A x \in Worker : pc'[x] # "scan"
    BY <1>1, <1>7, <2>1 DEF releaseInstance, Control
  <2> QED
    BY <1>1, <1>7, <2>3, <2>4 DEF releaseInstance, At, TypeOK, Control
<1>8. ASSUME UNCHANGED vars PROVE Control'
  BY <1>1, <1>8 DEF vars, monitor, Control
<1> QED
  BY <1>2, <1>3, <1>4, <1>5, <1>6, <1>7, <1>8 DEF Next, run, Works

LEMMA NothingTwiceStep == IInv /\ [Next]_vars => NothingTwice'
<1> SUFFICES ASSUME IInv, [Next]_vars PROVE NothingTwice'
  OBVIOUS
<1>1. TypeOK /\ Control /\ NothingTwice
  BY DEF IInv
\* Nothing new is in the queue and nobody has a new line.
<1>2. ASSUME IsInjective(queue'), Range(queue') \subseteq Range(queue),
             \A x \in Worker : held'[x] # None => held'[x] = held[x],
             None \notin Range(queue')
      PROVE  NothingTwice'
  BY <1>1, <1>2 DEF NothingTwice
<1>3. None \notin Range(queue)
  BY <1>1, CollectorAssumption DEF TypeOK, Range
<1>4. ASSUME Start PROVE NothingTwice'
  <2>1. IsInjective(queue') /\ queue' \in Seq(Line)
    BY <1>4, CollectorAssumption DEF Start
  <2>2. \A x \in Worker : held'[x] = None
    BY <1>1, <1>4 DEF Start, Control, Holding, Unwritten
  <2> QED
    BY <2>1, <2>2, CollectorAssumption DEF NothingTwice, Range
<1>5. ASSUME Crash \/ WaitGroupDone PROVE NothingTwice'
  <2>1. PICK how \in {"exited", "panicked"} : Stopped(how)
    BY <1>5 DEF Crash, WaitGroupDone
  <2> QED
    BY <2>1, StoppedFacts DEF NothingTwice, Range, IsInjective
<1>6. ASSUME UNCHANGED <<queue, held>> PROVE NothingTwice'
  BY <1>1, <1>6 DEF NothingTwice
<1>7. ASSUME EC2 PROVE NothingTwice'
  BY <1>6, <1>7 DEF EC2, Fulfil, Expire, End, Moves, monitor
<1>8. ASSUME NEW w \in Worker, Works(w) \/ Looks(w) PROVE NothingTwice'
  BY <1>1, <1>6, <1>8, WorksFrame DEF Looks, ReturnNil, StartScan, Skip, Wait, monitor
<1>9. ASSUME NEW w \in Worker, Drop(w) PROVE NothingTwice'
  <2>1. Scanning(w) /\ queue' = RemoveAt(queue, cursor[w]) /\ held' = held
    BY <1>9 DEF Drop
  <2> QED
    BY <1>1, <1>2, <1>3, <2>1, RemovalFacts DEF NothingTwice
<1>10. ASSUME NEW w \in Worker, Take(w) PROVE NothingTwice'
  <2>1. /\ Scanning(w) /\ queue' = RemoveAt(queue, cursor[w])
        /\ held' = [held EXCEPT ![w] = Candidate(w)]
    BY <1>10 DEF Take
  <2>2. /\ IsInjective(queue') /\ Range(queue') \subseteq Range(queue)
        /\ Candidate(w) \in Range(queue) /\ Candidate(w) \notin Range(queue')
    BY <1>1, <2>1, RemovalFacts DEF NothingTwice
  <2>3. held'[w] = Candidate(w) /\ \A x \in Worker : x # w => held'[x] = held[x]
    BY <1>1, <2>1 DEF TypeOK
  <2> QED
    BY <1>1, <2>2, <2>3 DEF NothingTwice
<1>11. ASSUME NEW w \in Worker, releaseInstance(w) PROVE NothingTwice'
  <2>1. queue' = queue /\ \A x \in Worker : held'[x] # None => held'[x] = held[x]
    BY <1>1, <1>11 DEF releaseInstance, TypeOK
  <2> QED
    BY <1>1, <1>2, <1>3, <2>1 DEF NothingTwice
<1>12. ASSUME UNCHANGED vars PROVE NothingTwice'
  BY <1>6, <1>12 DEF vars, monitor
<1> QED
  BY <1>4, <1>5, <1>7, <1>8, <1>9, <1>10, <1>11, <1>12
     DEF Next, run, getInstance, Works, Looks

LEMMA HeldKnownStep == IInv /\ [Next]_vars => HeldKnown'
<1> SUFFICES ASSUME IInv, [Next]_vars PROVE HeldKnown'
  OBVIOUS
<1>1. TypeOK /\ Control /\ HeldKnown
  BY DEF IInv
<1>2. ASSUME \A x \in Worker : held'[x] # None => held'[x] = held[x]
      PROVE  HeldKnown'
  BY <1>1, <1>2 DEF HeldKnown
<1>3. ASSUME Start \/ EC2 \/ UNCHANGED vars PROVE HeldKnown'
  BY <1>2, <1>3 DEF Start, EC2, Fulfil, Expire, End, Moves, vars
<1>4. ASSUME Crash \/ WaitGroupDone PROVE HeldKnown'
  BY <1>2, <1>4, StoppedFacts DEF Crash, WaitGroupDone
<1>5. ASSUME NEW w \in Worker, Works(w) \/ Looks(w) \/ Drop(w) PROVE HeldKnown'
  BY <1>1, <1>2, <1>5, WorksFrame DEF Looks, ReturnNil, StartScan, Skip, Wait, Drop
<1>6. ASSUME NEW w \in Worker, Take(w) PROVE HeldKnown'
  <2>1. PatternOf[Candidate(w)] # NoPattern /\ held' = [held EXCEPT ![w] = Candidate(w)]
    BY <1>6 DEF Take, Takeable
  <2> QED
    BY <1>1, <2>1 DEF HeldKnown, TypeOK
<1>7. ASSUME NEW w \in Worker, releaseInstance(w) PROVE HeldKnown'
  BY <1>1, <1>2, <1>7 DEF releaseInstance, TypeOK
<1> QED
  BY <1>3, <1>4, <1>5, <1>6, <1>7 DEF Next, run, getInstance, Works, Looks

\* What a goroutine's own steps do to its line's CSV and instance.
LEMMA WorksEffect ==
  ASSUME TypeOK, Control, NEW w \in Worker, Works(w)
  PROVE  /\ held[w] \in Line
         /\ \A v \in Line : v # held[w] => csv'[v] = csv[v] /\ ec2'[v] = ec2[v]
         /\ pc'[w] \in Unwritten => csv' = csv /\ pc[w] \in Unwritten
         /\ pc'[w] \in {"fetch", "terminate"} =>
              /\ ec2' = ec2
              /\ pc[w] \in {"fetch", "terminate"} \/ ec2[held[w]] # "open"
<1>1. held[w] \in Line
  BY WorksFrame DEF TypeOK, Control
<1>2. pc[w] \in Unwritten \cup {"fill"}
  BY WorksFrame DEF Holding
<1> USE DEF Works, RequestFails, Requests, Fulfilled, GivesUp, ReadBreaks, Fetches,
       StopsFetching, Terminates, NothingToWrite, CreatesFile, FillsFile
<1>3. \A v \in Line : v # held[w] => csv'[v] = csv[v] /\ ec2'[v] = ec2[v]
  BY <1>1 DEF TypeOK
<1>4. pc'[w] \in Unwritten => csv' = csv /\ pc[w] \in Unwritten
  BY <1>2 DEF At, Goto, TypeOK, Unwritten
<1>5. pc'[w] \in {"fetch", "terminate"} =>
        ec2' = ec2 /\ (pc[w] \in {"fetch", "terminate"} \/ ec2[held[w]] # "open")
  BY <1>1 DEF At, Goto, TypeOK
<1> QED
  BY <1>1, <1>3, <1>4, <1>5

LEMMA StillTrueStep == IInv /\ [Next]_vars => StillTrue'
<1> SUFFICES ASSUME IInv, [Next]_vars PROVE StillTrue'
  OBVIOUS
<1>1. TypeOK /\ Control /\ NothingTwice /\ StillTrue
  BY DEF IInv
\* A goroutine that does not move keeps its line's CSV and instance.
<1>2. ASSUME NEW x \in Worker, pc'[x] = pc[x], held'[x] = held[x],
             held[x] # None => csv'[held[x]] = csv[held[x]]
                               /\ (ec2'[held[x]] = "open" => ec2[held[x]] = "open")
      PROVE  /\ pc'[x] \in Unwritten => csv'[held'[x]] = "absent"
             /\ pc'[x] \in {"fetch", "terminate"} => ec2'[held'[x]] # "open"
  BY <1>1, <1>2 DEF StillTrue, Control, Holding, Unwritten
<1>3. ASSUME \A x \in Worker : pc'[x] \notin Unwritten PROVE StillTrue'
  BY <1>3 DEF StillTrue, Unwritten
<1>4. ASSUME Start PROVE StillTrue'
  BY <1>3, <1>4 DEF Start, Unwritten
<1>5. ASSUME Crash \/ WaitGroupDone PROVE StillTrue'
  BY <1>3, <1>5, StoppedFacts DEF Crash, WaitGroupDone, Unwritten
<1>6. ASSUME EC2 PROVE StillTrue'
  <2>1. UNCHANGED <<pc, held, csv>>
    BY <1>6 DEF EC2, Fulfil, Expire, End, Moves
  <2>2. \A v \in Line : ec2'[v] = "open" => ec2[v] = "open"
    BY <1>1, <1>6 DEF EC2, Fulfil, Expire, End, Moves, TypeOK
  <2> QED
    BY <1>1, <1>2, <2>1, <2>2 DEF StillTrue, TypeOK
<1>7. ASSUME NEW w \in Worker, Looks(w) \/ Drop(w) PROVE StillTrue'
  <2>1. /\ pc'[w] \notin Unwritten /\ UNCHANGED <<held, csv, ec2>>
        /\ \A x \in Worker : x # w => pc'[x] = pc[x]
    BY <1>1, <1>7 DEF Looks, ReturnNil, StartScan, Skip, Wait, Drop, Scanning, At, Goto,
                      TypeOK, Unwritten
  <2> QED
    BY <1>1, <2>1 DEF StillTrue, Unwritten
<1>8. ASSUME NEW w \in Worker, Take(w) PROVE StillTrue'
  <2>1. csv[Candidate(w)] = "absent" /\ UNCHANGED <<csv, ec2>>
    BY <1>8 DEF Take, Takeable, Collected
  <2>2. /\ held'[w] = Candidate(w) /\ pc'[w] = "request"
        /\ \A x \in Worker : x # w => held'[x] = held[x] /\ pc'[x] = pc[x]
    BY <1>1, <1>8 DEF Take, Goto, TypeOK
  <2> QED
    BY <1>1, <2>1, <2>2 DEF StillTrue
<1>9. ASSUME NEW w \in Worker, Works(w) PROVE StillTrue'
  <2> SUFFICES ASSUME NEW x \in Worker
               PROVE  /\ pc'[x] \in Unwritten => csv'[held'[x]] = "absent"
                      /\ pc'[x] \in {"fetch", "terminate"} => ec2'[held'[x]] # "open"
    BY DEF StillTrue
  <2>1. CASE x = w
    BY <1>1, <1>9, <2>1, WorksEffect, WorksFrame DEF StillTrue
  <2>2. CASE x # w
    <3>1. pc'[x] = pc[x] /\ held'[x] = held[x]
      BY <1>1, <1>9, <2>2, WorksFrame
    <3>2. held[x] # None => held[x] \in Line /\ held[x] # held[w]
      BY <1>1, <2>2 DEF NothingTwice, TypeOK
    <3>3. held[x] # None => csv'[held[x]] = csv[held[x]] /\ ec2'[held[x]] = ec2[held[x]]
      BY <1>1, <1>9, <3>2, WorksEffect
    <3> QED
      BY <1>2, <3>1, <3>3
  <2> QED
    BY <2>1, <2>2
<1>10. ASSUME NEW w \in Worker, releaseInstance(w) PROVE StillTrue'
  <2>1. UNCHANGED <<csv, ec2>>
    BY <1>10 DEF releaseInstance
  <2>2. \A x \in Worker : pc'[x] = "getInstance" \/ (pc'[x] = pc[x] /\ x # w)
    <3>1. PICK woken \in Woken :
            pc' = [x \in Worker |-> IF x \in woken \cup {w} THEN "getInstance" ELSE pc[x]]
      BY <1>10 DEF releaseInstance
    <3> QED
      BY <3>1
  <2>3. \A x \in Worker : x # w => held'[x] = held[x]
    BY <1>1, <1>10 DEF releaseInstance, TypeOK
  <2>4. \A x \in Worker :
          pc'[x] \in Unwritten => pc'[x] = pc[x] /\ held'[x] = held[x]
    BY <2>2, <2>3 DEF Unwritten
  <2> QED
    BY <1>1, <2>1, <2>4 DEF StillTrue, Unwritten
<1>11. ASSUME UNCHANGED vars PROVE StillTrue'
  BY <1>1, <1>11 DEF vars, StillTrue
<1> QED
  BY <1>4, <1>5, <1>6, <1>7, <1>8, <1>9, <1>10, <1>11
     DEF Next, run, getInstance, Works, Looks

Owned(v) == \E w \in Worker : held[w] = v /\ pc[w] \in {"fulfil", "fetch", "terminate"}

LEMMA OwnedOrGivenUpStep == IInv /\ [Next]_vars => OwnedOrGivenUp'
<1> SUFFICES ASSUME IInv, [Next]_vars,
                    main' = "workers", NEW v \in Line, ec2'[v] \in {"open", "running"}
             PROVE  v \in givenUp' \/ Owned(v)'
  BY DEF OwnedOrGivenUp, Owned
<1>1. TypeOK /\ Control /\ NothingTwice /\ StillTrue
  BY DEF IInv
<1>2. ASSUME main = "workers", ec2[v] \in {"open", "running"}
      PROVE  v \in givenUp \/ Owned(v)
  BY <1>2 DEF IInv, OwnedOrGivenUp, Owned
\* What is owned stays so while its goroutine stands still.
<1>3. ASSUME main = "workers", ec2[v] \in {"open", "running"}, givenUp' = givenUp,
             \A x \in Worker : pc[x] \in {"fulfil", "fetch", "terminate"}
                                => pc'[x] = pc[x] /\ held'[x] = held[x]
      PROVE  v \in givenUp' \/ Owned(v)'
  BY <1>2, <1>3 DEF Owned
<1>4. ASSUME Start PROVE FALSE
  BY <1>4 DEF Start
<1>5. ASSUME Crash \/ WaitGroupDone PROVE FALSE
  BY <1>5, StoppedFacts DEF Crash, WaitGroupDone
<1>6. ASSUME EC2 PROVE v \in givenUp' \/ Owned(v)'
  BY <1>1, <1>3, <1>6 DEF EC2, Fulfil, Expire, End, Moves, TypeOK
<1>7. ASSUME NEW w \in Worker, getInstance(w) PROVE v \in givenUp' \/ Owned(v)'
  <2>1. main = "workers" /\ ec2' = ec2 /\ givenUp' = givenUp
    BY <1>7 DEF getInstance, ReturnNil, StartScan, Drop, Take, Skip, Wait, Scanning, At
  <2>2. \A x \in Worker : pc[x] \in {"fulfil", "fetch", "terminate"}
                            => pc'[x] = pc[x] /\ held'[x] = held[x]
    BY <1>1, <1>7 DEF getInstance, ReturnNil, StartScan, Drop, Take, Skip, Wait, Scanning,
                      At, Goto, TypeOK
  <2> QED
    BY <1>3, <2>1, <2>2
<1>8. ASSUME NEW w \in Worker, releaseInstance(w) PROVE v \in givenUp' \/ Owned(v)'
  <2>1. main = "workers" /\ ec2' = ec2 /\ givenUp' = givenUp /\ pc[w] = "release"
    BY <1>8 DEF releaseInstance, At
  <2>2. \A x \in Worker : pc[x] \in {"fulfil", "fetch", "terminate"}
                            => pc'[x] = pc[x] /\ held'[x] = held[x]
    BY <1>1, <1>8, <2>1, WokenFacts DEF releaseInstance, Waiting, TypeOK
  <2> QED
    BY <1>3, <2>1, <2>2
<1>9. ASSUME NEW w \in Worker, Works(w) PROVE v \in givenUp' \/ Owned(v)'
  <2>1. /\ main = "workers" /\ held[w] \in Line /\ held' = held
        /\ \A x \in Worker : x # w => pc'[x] = pc[x]
    BY <1>1, <1>9, WorksFrame, WorksEffect
  <2>2. givenUp \subseteq givenUp'
    BY <1>9 DEF Works, RequestFails, Requests, Fulfilled, GivesUp, ReadBreaks, Fetches,
       StopsFetching, Terminates, NothingToWrite, CreatesFile, FillsFile
  \* Another goroutine's line.
  <2>3. CASE v # held[w]
    BY <1>1, <1>2, <1>9, <2>1, <2>2, <2>3, WorksEffect DEF Owned
  <2>4. CASE v = held[w] /\ pc'[w] \in {"fulfil", "fetch", "terminate"}
    BY <2>1, <2>4 DEF Owned
  \* Its own line, which it is about to leave.
  <2>5. CASE v = held[w] /\ pc'[w] \notin {"fulfil", "fetch", "terminate"}
    <3>1. \A x \in Worker : held[x] = v => x = w
      BY <1>1, <2>1, <2>5, CollectorAssumption DEF NothingTwice
    <3>2. CASE pc[w] \in {"fulfil", "fetch", "terminate"}
      <4>1. GivesUp(w) \/ Terminates(w)
        BY <1>1, <1>9, <2>5, <3>2 DEF Works, RequestFails, Requests, Fulfilled, ReadBreaks,
           Fetches, StopsFetching, NothingToWrite, CreatesFile, FillsFile, At, Goto, TypeOK
      <4>2. CASE GivesUp(w)
        BY <2>5, <4>2 DEF GivesUp
      <4>3. CASE Terminates(w)
        <5>1. pc[w] = "terminate" /\ ec2[v] # "open"
          BY <1>1, <2>5, <4>3 DEF Terminates, At, StillTrue
        <5>2. v \in givenUp' \/ ec2'[v] = IF Live(v) THEN "shutting-down" ELSE ec2[v]
          BY <1>1, <2>5, <4>3 DEF Terminates, TypeOK
        <5> QED
          BY <5>1, <5>2 DEF Live
      <4> QED
        BY <4>1, <4>2, <4>3
    <3>3. CASE pc[w] \notin {"fulfil", "fetch", "terminate"}
      <4>1. ec2' = ec2
        BY <1>1, <1>9, <2>5, <3>3 DEF Works, RequestFails, Requests, Fulfilled, GivesUp, ReadBreaks,
           Fetches, StopsFetching, Terminates, NothingToWrite, CreatesFile, FillsFile,
           At, Goto, TypeOK
      <4> QED
        BY <1>2, <2>1, <2>2, <3>1, <3>3, <4>1 DEF Owned
    <3> QED
      BY <3>2, <3>3
  <2> QED
    BY <2>3, <2>4, <2>5
<1>10. ASSUME UNCHANGED vars PROVE v \in givenUp' \/ Owned(v)'
  BY <1>3, <1>10 DEF vars
<1> QED
  BY <1>4, <1>5, <1>6, <1>7, <1>8, <1>9, <1>10 DEF Next, run, Works

-----------------------------------------------------------------------------
(* Theorems.                                                               *)

\* The inductive invariant holds in every reachable state.
THEOREM Invariance == Spec => []IInv
<1>1. IInv /\ [Next]_vars => IInv'
  BY TypeOKStep, ControlStep, NothingTwiceStep, StillTrueStep, HeldKnownStep,
     OwnedOrGivenUpStep
     DEF IInv
<1> QED
  BY InitIInv, <1>1, PTL DEF Spec

\* Every live request or instance of a run has a goroutine that will terminate
\* it or is one that run gave up, across crashes and restarts of the program.
THEOREM OwnedOrGivenUpHolds == Spec => []OwnedOrGivenUp
<1>1. IInv => OwnedOrGivenUp
  BY DEF IInv
<1> QED
  BY Invariance, <1>1, PTL

\* No line is worked on twice: it is in the queue, with one goroutine, or gone.
THEOREM NothingTwiceHolds == Spec => []NothingTwice
<1>1. IInv => NothingTwice
  BY DEF IInv
<1> QED
  BY Invariance, <1>1, PTL

\* A complete CSV is never opened for writing again: the os.Stat that found none
\* is still right when the file is written, however long the fetch took.
THEOREM CollectedOnceHolds == Spec => CollectedOnce
<1> DEFINE A == \A v \in Line : csv[v] = "complete" => csv'[v] = "complete"
<1>1. IInv /\ [Next]_vars => A
  <2> SUFFICES ASSUME IInv, [Next]_vars, NEW v \in Line, csv[v] = "complete"
               PROVE  csv'[v] = "complete"
    OBVIOUS
  <2>1. TypeOK /\ Control /\ StillTrue
    BY DEF IInv
  <2>2. ASSUME NEW w \in Worker, CreatesFile(w) PROVE csv'[v] = "complete"
    <3>1. csv[held[w]] = "absent"
      BY <2>1, <2>2 DEF CreatesFile, At, StillTrue, Unwritten
    <3> QED
      BY <2>1, <2>2, <3>1 DEF CreatesFile, TypeOK
  <2>3. ASSUME NEW w \in Worker, FillsFile(w) PROVE csv'[v] = "complete"
    BY <2>1, <2>3 DEF FillsFile, TypeOK
  <2>4. ASSUME csv' = csv PROVE csv'[v] = "complete"
    BY <2>4
  <2> QED
    BY <2>2, <2>3, <2>4 DEF Next, Start, Crash, WaitGroupDone, EC2, Fulfil, Expire, End, Moves,
       run, getInstance, ReturnNil, StartScan, Drop, Take, Skip, Wait, RequestFails, Requests,
       Fulfilled, GivesUp, ReadBreaks, Fetches, StopsFetching, Terminates, NothingToWrite,
       releaseInstance, vars
<1>2. Spec => [][A]_vars
  BY Invariance, <1>1, PTL DEF Spec
<1> QED
  BY <1>2 DEF CollectedOnce

-----------------------------------------------------------------------------
(* Conservation of the quota.                                              *)

LEMMA ChargeType ==
  ASSUME TypeOK, HeldKnown, NEW f \in Pattern
  PROVE  Charges(f) \in [1 .. MAX_THREADS -> Nat]
BY HeldFacts DEF Charges, Charge, Worker

\* When one goroutine's charge changes, the sum changes by the difference.
LEMMA ChargeUpdate ==
  ASSUME TypeOK, HeldKnown, NEW f \in Pattern, NEW w \in Worker, NEW v \in Nat,
         Charge(w, f)' = v,
         \A x \in Worker : x # w => Charge(x, f)' = Charge(x, f)
  PROVE  SumTo(Charges(f), MAX_THREADS)' =
           SumTo(Charges(f), MAX_THREADS) - Charge(w, f) + v
<1>1. Charges(f)' = [Charges(f) EXCEPT ![w] = v]
  BY DEF Charges
<1>2. Charges(f)[w] = Charge(w, f)
  BY DEF Charges
<1>3. MAX_THREADS \in Nat /\ w \in 1 .. MAX_THREADS
  BY CollectorAssumption DEF Worker
<1>4. SumTo([Charges(f) EXCEPT ![w] = v], MAX_THREADS)
        = SumTo(Charges(f), MAX_THREADS) - Charges(f)[w] + v
  BY <1>3, ChargeType, SumToUpdate
<1>5. SumTo(Charges(f), MAX_THREADS)' = SumTo(Charges(f)', MAX_THREADS)
  BY DEF SumTo, PartialSum
<1> QED
  BY <1>1, <1>2, <1>4, <1>5

LEMMA SameCharges ==
  ASSUME NEW f \in Pattern, held' = held
  PROVE  SumTo(Charges(f), MAX_THREADS)' = SumTo(Charges(f), MAX_THREADS)
<1>1. Charges(f)' = Charges(f)
  BY DEF Charges, Charge
<1>2. SumTo(Charges(f), MAX_THREADS)' = SumTo(Charges(f)', MAX_THREADS)
  BY DEF SumTo, PartialSum
<1> QED
  BY <1>1, <1>2

\* While nobody holds a line the whole quota is there.
LEMMA NothingHeld ==
  ASSUME NEW f \in Pattern, \A w \in Worker : held[w] = None
  PROVE  SumTo(Charges(f), MAX_THREADS) = 0
<1>1. Charges(f) = [w \in 1 .. MAX_THREADS |-> 0]
  BY DEF Charges, Charge, Worker
<1> QED
  BY <1>1, SumToZero, CollectorAssumption

LEMMA InitConserved == Init => QuotaConserved
BY NothingHeld, CollectorAssumption DEF Init, QuotaConserved

LEMMA ConservedStep == IInv /\ QuotaConserved /\ [Next]_vars => QuotaConserved'
<1> SUFFICES ASSUME IInv, QuotaConserved, [Next]_vars, NEW f \in Pattern
             PROVE  (limit[f] + SumTo(Charges(f), MAX_THREADS) = Quota[f])'
  BY TypeOKStep DEF QuotaConserved, TypeOK
<1> DEFINE total == SumTo(Charges(f), MAX_THREADS)
<1>1. TypeOK /\ Control /\ HeldKnown
  BY DEF IInv
<1>2. total \in Nat /\ limit[f] \in Nat
  BY <1>1, ChargeType, SumToType, CollectorAssumption DEF TypeOK
<1>3. limit[f] + total = Quota[f]
  BY DEF QuotaConserved
<1> HIDE DEF total
<1>4. ASSUME UNCHANGED <<limit, held>> PROVE (limit[f] + total = Quota[f])'
  BY <1>3, <1>4, SameCharges DEF total
<1>5. ASSUME Crash \/ WaitGroupDone PROVE (limit[f] + total = Quota[f])'
  <2>1. limit' = Quota /\ \A w \in Worker : held'[w] = None
    BY <1>5, StoppedFacts DEF Crash, WaitGroupDone
  <2>2. Charges(f)' = [w \in 1 .. MAX_THREADS |-> 0]
    BY <2>1 DEF Charges, Charge, Worker
  <2>3. total' = SumTo(Charges(f)', MAX_THREADS)
    BY DEF total, SumTo, PartialSum
  <2>4. total' = 0
    BY <2>2, <2>3, SumToZero, CollectorAssumption
  <2> QED
    BY <2>1, <2>4, CollectorAssumption
<1>6. ASSUME NEW w \in Worker, Take(w) PROVE (limit[f] + total = Quota[f])'
  <2> DEFINE c == Candidate(w)
             n == IF PatternOf[c] = f THEN VCPU[c] ELSE 0
  <2>1. /\ c \in Line /\ PatternOf[c] \in Pattern /\ VCPU[c] \in Nat /\ c # None
        /\ limit' = [limit EXCEPT ![PatternOf[c]] = @ - VCPU[c]]
        /\ held' = [held EXCEPT ![w] = c]
    BY <1>1, <1>6, ScanFacts, CollectorAssumption DEF Take, Takeable
  <2>2. held[w] = None
    BY <1>1, <1>6 DEF Take, Scanning, At, Control, Holding, Unwritten
  <2> HIDE DEF c
  <2>3. held'[w] = c /\ \A x \in Worker : x # w => held'[x] = held[x]
    BY <1>1, <2>1 DEF TypeOK
  <2>4. /\ Charge(w, f) = 0 /\ Charge(w, f)' = n
        /\ \A x \in Worker : x # w => Charge(x, f)' = Charge(x, f)
    BY <2>1, <2>2, <2>3 DEF Charge
  <2>5. n \in Nat
    BY <2>1
  <2>6. total' = total + n
    <3>1. total' = total - Charge(w, f) + n
      BY <1>1, <2>4, <2>5, ChargeUpdate DEF total
    <3> QED
      BY <1>2, <2>4, <2>5, <3>1
  <2>7. limit'[f] = limit[f] - n
    BY <1>1, <1>2, <2>1 DEF TypeOK
  <2> HIDE DEF n
  <2> QED
    BY <1>2, <1>3, <2>5, <2>6, <2>7
<1>7. ASSUME NEW w \in Worker, releaseInstance(w) PROVE (limit[f] + total = Quota[f])'
  <2> DEFINE c == held[w]
             n == IF PatternOf[c] = f THEN VCPU[c] ELSE 0
  <2>1. c # None
    BY <1>1, <1>7 DEF releaseInstance, At, Control, Holding
  <2>2. c \in Line /\ PatternOf[c] \in Pattern /\ VCPU[c] \in Nat
    BY <1>1, <2>1, HeldFacts
  <2>3. /\ limit' = [limit EXCEPT ![PatternOf[c]] = @ + VCPU[c]]
        /\ held'[w] = None /\ \A x \in Worker : x # w => held'[x] = held[x]
    BY <1>1, <1>7 DEF releaseInstance, Returned, TypeOK
  <2>4. /\ Charge(w, f) = n /\ Charge(w, f)' = 0
        /\ \A x \in Worker : x # w => Charge(x, f)' = Charge(x, f)
    BY <2>1, <2>3 DEF Charge
  <2> HIDE DEF c
  <2>5. n \in Nat
    BY <2>2
  <2>6. total' = total - n
    <3>1. total' = total - Charge(w, f) + 0
      BY <1>1, <2>4, ChargeUpdate DEF total
    <3> QED
      BY <1>2, <2>4, <2>5, <3>1
  <2>7. limit'[f] = limit[f] + n
    BY <1>1, <1>2, <2>2, <2>3 DEF TypeOK
  <2> HIDE DEF n
  <2> QED
    BY <1>2, <1>3, <2>5, <2>6, <2>7
<1>8. ASSUME NEW w \in Worker, Works(w) \/ Looks(w) \/ Drop(w)
      PROVE  (limit[f] + total = Quota[f])'
  <2>1. UNCHANGED <<limit, held>>
    BY <1>1, <1>8, WorksFrame DEF Looks, ReturnNil, StartScan, Skip, Wait, Drop, monitor
  <2> QED
    BY <1>4, <2>1
<1>9. ASSUME Start \/ EC2 \/ UNCHANGED vars PROVE (limit[f] + total = Quota[f])'
  <2>1. UNCHANGED <<limit, held>>
    BY <1>9 DEF Start, EC2, Fulfil, Expire, End, Moves, monitor, vars
  <2> QED
    BY <1>4, <2>1
<1> QED
  BY <1>5, <1>6, <1>7, <1>8, <1>9 DEF Next, run, getInstance, Works, Looks, total

\* Every vCPU of a quota is free or held by a goroutine at every moment, through
\* every failure of run and every restart; none is ever taken that is not there.
THEOREM QuotaConservedHolds == Spec => []QuotaConserved
<1>1. IInv /\ QuotaConserved /\ [Next]_vars => QuotaConserved'
  BY ConservedStep
<1> QED
  BY Invariance, InitConserved, <1>1, PTL DEF Spec

-----------------------------------------------------------------------------
(* What AWS counts.                                                        *)

\* Every line that is counted is charged to the goroutine that holds it.
LEMMA CountedCharged ==
  ASSUME IInv, main = "workers", NEW f \in Pattern
  PROVE  /\ \A v \in Counted(f) : \E w \in Worker : held[w] = v
         /\ \A w \in Worker : held[w] \in Counted(f) => VCPU[held[w]] <= Charges(f)[w]
<1>1. \A v \in Counted(f) : \E w \in Worker : held[w] = v
  BY DEF IInv, OwnedOrGivenUp, Counted
<1>2. ASSUME NEW w \in Worker, held[w] \in Counted(f) PROVE VCPU[held[w]] <= Charges(f)[w]
  <2>1. held[w] \in Line /\ held[w] # None /\ PatternOf[held[w]] = f
    BY <1>2, CollectorAssumption DEF Counted
  <2>2. Charges(f)[w] = VCPU[held[w]] /\ VCPU[held[w]] \in Nat
    BY <2>1, CollectorAssumption DEF Charges, Charge
  <2> QED
    BY <2>2
<1> QED
  BY <1>1, <1>2

\* The requests and instances of a run, except those it has given up or told to
\* terminate, never need more vCPUs than AWS granted their pattern, whatever fails:
\* each has a goroutine, no goroutine has two, and their debits fit the quota.
THEOREM WithinQuotaHolds == Spec => []WithinQuota
<1>1. IInv /\ QuotaConserved => WithinQuota
  <2> SUFFICES ASSUME IInv, QuotaConserved, main = "workers", NEW f \in Pattern
               PROVE  SetSum(VCPU, Counted(f)) <= Quota[f]
    BY DEF WithinQuota
  <2> DEFINE total == SumTo(Charges(f), MAX_THREADS)
             counted == SetSum(VCPU, Counted(f))
  <2>1. Charges(f) \in [1 .. MAX_THREADS -> Nat] /\ MAX_THREADS \in Nat /\ Worker = 1 .. MAX_THREADS
    BY ChargeType, CollectorAssumption DEF IInv, Worker
  <2>2. IsFiniteSet(Line) /\ VCPU \in [Line -> Nat] /\ Counted(f) \in SUBSET Line
    BY CollectorAssumption DEF Counted
  <2>3. counted <= total
    <3>1. \A v \in Counted(f) : \E w \in 1 .. MAX_THREADS : held[w] = v
      BY <2>1, CountedCharged
    <3>2. \A w \in 1 .. MAX_THREADS : held[w] \in Counted(f) => VCPU[held[w]] <= Charges(f)[w]
      BY <2>1, CountedCharged
    <3> QED
      BY <2>1, <2>2, <3>1, <3>2, CoveredSum
  <2>4. total \in Nat /\ counted \in Nat
    BY <2>1, <2>2, SumToType, SetSumType
  <2>5. limit[f] \in Nat /\ limit[f] + total = Quota[f]
    BY DEF IInv, TypeOK, QuotaConserved
  <2> HIDE DEF total, counted
  <2>6. counted <= Quota[f]
    BY <2>3, <2>4, <2>5
  <2> QED
    BY <2>6 DEF counted
<1> QED
  BY Invariance, QuotaConservedHolds, <1>1, PTL

=============================================================================
