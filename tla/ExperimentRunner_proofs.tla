----------------------- MODULE ExperimentRunner_proofs -----------------------
(***************************************************************************)
(* Proofs about the quota monitor by itself, for any number of goroutines  *)
(* and lines, and then about the whole program: its goroutines, its        *)
(* instances and its restarts, for any number of each. The first part      *)
(* assumes nothing of ExperimentRunner; the second one cites its steps for *)
(* what the goroutines do inside the monitor.                              *)
(***************************************************************************)
EXTENDS ExperimentRunner, Lemmas

-----------------------------------------------------------------------------
(* Part one: QuotaManager.                                                 *)

(* The inductive invariant, one conjunct at a time.                        *)

\* The types of what an action looks up.
LEMMA LineFacts ==
  ASSUME NEW v \in Line
  PROVE  /\ TypeOf[v] \in Type
         /\ Need(v) \in Nat \ {0}
         /\ Families(v) \subseteq Pattern
BY MonitorAssumption DEF Need, Families

LEMMA ScanFacts ==
  ASSUME TypeOK, NEW w \in Worker, Scanning(w)
  PROVE  /\ cursor[w] \in 1 .. Len(queue)
         /\ Candidate(w) \in Line
         /\ Dequeued(w) \in Seq(Line)
         /\ Len(Dequeued(w)) = Len(queue) - 1
         /\ \A k \in 1 .. Len(queue) - 1 :
              Dequeued(w)[k] = IF k < cursor[w] THEN queue[k] ELSE queue[k + 1]
<1>1. cursor[w] \in 1 .. Len(queue)
  BY DEF TypeOK, Scanning
<1>2. queue \in Seq(Line)
  BY DEF TypeOK
<1>3. Candidate(w) \in Line
  BY <1>1, <1>2 DEF Candidate
<1> QED
  BY <1>1, <1>2, <1>3, RemoveAtProperties DEF Dequeued

LEMMA WokenFacts ==
  ASSUME NEW woken \in Woken
  PROVE  woken \subseteq Waiting
BY DEF Woken

LEMMA InitIInv == Init => IInv
<1> SUFFICES ASSUME Init PROVE IInv
  OBVIOUS
<1> USE MonitorAssumption DEF Init
<1>1. TypeOK
  BY DEF TypeOK, PC, Worker, None
<1>2. ScanInv
  BY DEF ScanInv, Busy, Worker, None
<1>3. NothingTwice
  BY DEF NothingTwice, Busy
<1>4. ReleaseCannotFail
  BY DEF ReleaseCannotFail, Busy
<1>5. NoLostWakeup
  <2>1. 1 \in Worker
    BY DEF Worker
  <2> QED
    BY <2>1 DEF NoLostWakeup
<1> QED
  BY <1>1, <1>2, <1>3, <1>4, <1>5 DEF IInv

LEMMA TypeOKStep == IInv /\ [Next]_vars => TypeOK'
<1> SUFFICES ASSUME IInv, [Next]_vars PROVE TypeOK'
  OBVIOUS
<1> USE DEF IInv
<1>1. TypeOK
  OBVIOUS
<1>2. ASSUME NEW w \in Worker, ReturnNil(w) PROVE TypeOK'
  BY <1>1, <1>2 DEF ReturnNil, TypeOK, PC
<1>3. ASSUME NEW w \in Worker, StartScan(w) PROVE TypeOK'
  BY <1>1, <1>3 DEF StartScan, TypeOK, PC
<1>4. ASSUME NEW w \in Worker, DropUnknown(w) \/ DropUnresolved(w) PROVE TypeOK'
  <2>1. Dequeued(w) \in Seq(Line)
    BY <1>1, <1>4, ScanFacts DEF DropUnknown, DropUnresolved
  <2> QED
    BY <1>1, <1>4, <2>1 DEF DropUnknown, DropUnresolved, TypeOK
<1>5. ASSUME NEW w \in Worker, Take(w) PROVE TypeOK'
  <2>1. Dequeued(w) \in Seq(Line) /\ Candidate(w) \in Line
    BY <1>1, <1>5, ScanFacts DEF Take
  <2>2. limit' \in [Pattern -> Nat]
    <3>1. PICK f \in Families(Candidate(w)) :
            /\ Fits(Candidate(w), f)
            /\ limit' = [limit EXCEPT ![f] = @ - Need(Candidate(w))]
      BY <1>5 DEF Take
    <3>2. f \in Pattern /\ Need(Candidate(w)) \in Nat
      BY <2>1, LineFacts
    <3> QED
      BY <1>1, <3>1, <3>2 DEF TypeOK, Fits
  <2>3. cache' \subseteq Type
    BY <1>1, <1>5, <2>1, LineFacts DEF Take, Cached, TypeOK
  <2> QED
    BY <1>1, <1>5, <2>1, <2>2, <2>3 DEF Take, TypeOK, PC
<1>6. ASSUME NEW w \in Worker, Skip(w) PROVE TypeOK'
  <2>1. cache' \subseteq Type
    BY <1>1, <1>6, ScanFacts, LineFacts DEF Skip, Cached, TypeOK
  <2> QED
    BY <1>1, <1>6, <2>1 DEF Skip, TypeOK
<1>7. ASSUME NEW w \in Worker, Wait(w) PROVE TypeOK'
  BY <1>1, <1>7 DEF Wait, TypeOK, PC
<1>8. ASSUME NEW w \in Worker, ProcessTrue(w) PROVE TypeOK'
  BY <1>1, <1>8 DEF ProcessTrue, TypeOK, PC
<1>9. ASSUME NEW w \in Worker, ProcessFalse(w) PROVE TypeOK'
  <2>1. held[w] \in Line
    BY <1>9 DEF ProcessFalse, ScanInv, Busy
  <2>2. PICK f \in Families(held[w]) : lost' = [lost EXCEPT ![f] = @ + Need(held[w])]
    BY <1>9 DEF ProcessFalse
  <2>3. f \in Pattern /\ Need(held[w]) \in Nat
    BY <2>1, LineFacts
  <2>4. lost' \in [Pattern -> Nat]
    BY <1>1, <2>2, <2>3 DEF TypeOK
  <2> QED
    BY <1>1, <1>9, <2>4 DEF ProcessFalse, TypeOK, PC
<1>10. ASSUME NEW w \in Worker, releaseInstance(w) PROVE TypeOK'
  <2>1. held[w] \in Line
    BY <1>10 DEF releaseInstance, ScanInv, Busy
  <2>2. limit' \in [Pattern -> Nat]
    <3>1. \/ limit' = limit
          \/ \E f \in Families(held[w]) : limit' = [limit EXCEPT ![f] = @ + Need(held[w])]
      BY <1>10 DEF releaseInstance
    <3>2. Families(held[w]) \subseteq Pattern /\ Need(held[w]) \in Nat
      BY <2>1, LineFacts
    <3> QED
      BY <1>1, <3>1, <3>2 DEF TypeOK
  <2>4. cache' \subseteq Type /\ lost' = lost
    BY <1>1, <1>10, <2>1, LineFacts DEF releaseInstance, TypeOK, Cached
  <2>3. pc' \in [Worker -> PC]
    BY <1>1, <1>10 DEF releaseInstance, TypeOK, PC
  <2> QED
    BY <1>1, <1>10, <2>2, <2>3, <2>4 DEF releaseInstance, TypeOK
<1>11. ASSUME UNCHANGED vars PROVE TypeOK'
  BY <1>1, <1>11 DEF vars, TypeOK
<1> QED
  BY <1>2, <1>3, <1>4, <1>5, <1>6, <1>7, <1>8, <1>9, <1>10, <1>11
     DEF Next, run, MonitorStep, Finished

LEMMA ScanInvStep == IInv /\ [Next]_vars => ScanInv'
<1> SUFFICES ASSUME IInv, [Next]_vars PROVE ScanInv'
  OBVIOUS
<1>1. TypeOK /\ ScanInv
  BY DEF IInv
<1>n. \A w \in Worker : w # None
  BY DEF Worker, None
<1>b. limit' = limit => \A v : Blocked(v)' <=> Blocked(v)
  BY DEF Blocked
\* While the lock is free nobody scans, so only the worker that moves matters.
<1>f. ASSUME lock = None PROVE \A x \in Worker : pc[x] # "scan"
  BY <1>1, <1>f, <1>n DEF ScanInv
<1>2. ASSUME NEW w \in Worker, ReturnNil(w) PROVE ScanInv'
  BY <1>1, <1>2, <1>f, <1>n DEF ReturnNil, ScanInv, Busy, TypeOK
<1>3. ASSUME NEW w \in Worker, StartScan(w) PROVE ScanInv'
  <2>1. \A x \in Worker : pc'[x] = "scan" <=> x = w
    BY <1>1, <1>3, <1>f DEF StartScan, TypeOK
  <2>2. cursor'[w] = 1 /\ lock' = w /\ Len(queue) \in Nat /\ queue' = queue
    BY <1>1, <1>3 DEF StartScan, TypeOK
  <2>3. \A x \in Worker : Busy(x)' => Busy(x) /\ held'[x] = held[x]
    BY <1>1, <1>3 DEF StartScan, TypeOK, Busy
  <2> QED
    BY <1>1, <2>1, <2>2, <2>3 DEF ScanInv
<1>4. ASSUME NEW w \in Worker, DropUnknown(w) \/ DropUnresolved(w) PROVE ScanInv'
  <2>0. Scanning(w) /\ queue' = Dequeued(w) /\ UNCHANGED <<limit, lock, pc, cursor, held>>
    BY <1>4 DEF DropUnknown, DropUnresolved
  <2>1. /\ cursor[w] \in 1 .. Len(queue)
        /\ Len(queue') = Len(queue) - 1
        /\ \A k \in 1 .. Len(queue) - 1 :
             queue'[k] = IF k < cursor[w] THEN queue[k] ELSE queue[k + 1]
    BY <1>1, <2>0, ScanFacts
  <2>2. \A x \in Worker : pc[x] = "scan" => x = w
    BY <1>1, <2>0 DEF Scanning, ScanInv
  <2>3. \A k \in 1 .. cursor[w] - 1 : Blocked(queue[k])'
    <3> SUFFICES ASSUME NEW k \in 1 .. cursor[w] - 1 PROVE Blocked(queue[k])'
      OBVIOUS
    <3>1. queue'[k] = queue[k]
      BY <2>1
    <3>2. pc[w] = "scan"
      BY <2>0 DEF Scanning
    <3>3. Blocked(queue[k])
      BY <1>1, <3>2 DEF ScanInv
    <3> QED
      BY <2>0, <3>1, <3>3 DEF Blocked
  <2> QED
    BY <1>1, <2>0, <2>1, <2>2, <2>3 DEF ScanInv, Busy
<1>5. ASSUME NEW w \in Worker, Take(w) PROVE ScanInv'
  <2>1. Scanning(w) /\ Candidate(w) \in Line
    BY <1>1, <1>5, ScanFacts DEF Take
  <2>2. \A x \in Worker : pc'[x] # "scan"
    BY <1>1, <1>5, <2>1 DEF Take, ScanInv, Scanning, TypeOK
  <2> QED
    BY <1>1, <1>5, <1>n, <2>1, <2>2 DEF Take, ScanInv, Busy, TypeOK
<1>6. ASSUME NEW w \in Worker, Skip(w) PROVE ScanInv'
  <2>0. Scanning(w) /\ Blocked(Candidate(w)) /\ cursor' = [cursor EXCEPT ![w] = @ + 1]
        /\ UNCHANGED <<queue, limit, lock, pc, held>>
    <3>1. PICK f \in Families(Candidate(w)) : ~Fits(Candidate(w), f)
      BY <1>6 DEF Skip
    <3>2. limit[f] \in Nat /\ Need(Candidate(w)) \in Nat
      BY <1>1, <1>6, <3>1, ScanFacts, LineFacts DEF TypeOK, Skip
    <3>3. Blocked(Candidate(w))
      BY <3>1, <3>2 DEF Fits, Blocked
    <3> QED
      BY <1>6, <3>3 DEF Skip
  <2>1. cursor[w] \in 1 .. Len(queue) /\ cursor'[w] = cursor[w] + 1
    BY <1>1, <2>0, ScanFacts DEF TypeOK
  <2>2. \A x \in Worker : pc[x] = "scan" => x = w
    BY <1>1, <2>0 DEF Scanning, ScanInv
  <2>3. \A k \in 1 .. cursor'[w] - 1 : Blocked(queue[k])
    <3> SUFFICES ASSUME NEW k \in 1 .. cursor'[w] - 1 PROVE Blocked(queue[k])
      OBVIOUS
    <3>1. k = cursor[w] \/ k \in 1 .. cursor[w] - 1
      BY <2>1
    <3> QED
      BY <1>1, <2>0, <3>1 DEF ScanInv, Scanning, Candidate
  <2>4. \A k \in 1 .. cursor'[w] - 1 : Blocked(queue[k])'
    BY <2>0, <2>3 DEF Blocked
  <2> QED
    BY <1>1, <2>0, <2>1, <2>2, <2>4 DEF ScanInv, Busy, Scanning
<1>7. ASSUME NEW w \in Worker, Wait(w) PROVE ScanInv'
  BY <1>1, <1>7, <1>n DEF Wait, ScanInv, Busy, TypeOK
<1>8. ASSUME NEW w \in Worker, ProcessTrue(w) \/ ProcessFalse(w) PROVE ScanInv'
  <2>1. /\ pc[w] = "process" /\ UNCHANGED <<queue, limit, lock, cursor>>
        /\ \A x \in Worker : x # w => pc'[x] = pc[x] /\ held'[x] = held[x]
        /\ pc'[w] # "scan"
        /\ Busy(w)' => held'[w] = held[w]
    BY <1>1, <1>8 DEF ProcessTrue, ProcessFalse, TypeOK, Busy
  <2>2. \A x \in Worker : pc'[x] = "scan" => pc[x] = "scan"
    BY <2>1
  <2>3. \A x \in Worker : Busy(x)' => Busy(x) /\ held'[x] = held[x]
    BY <2>1 DEF Busy
  <2> QED
    BY <1>1, <1>b, <2>1, <2>2, <2>3 DEF ScanInv
<1>9. ASSUME NEW w \in Worker, releaseInstance(w) PROVE ScanInv'
  <2>1. lock = None /\ lock' = None
    BY <1>9 DEF releaseInstance
  <2>2. \A x \in Worker : pc'[x] = pc[x] \/ pc'[x] = "getInstance"
    BY <1>1, <1>9 DEF releaseInstance, TypeOK
  <2>3. \A x \in Worker : Busy(x)' => Busy(x) /\ held'[x] = held[x]
    BY <1>1, <1>9 DEF releaseInstance, TypeOK, Busy
  <2> QED
    BY <1>1, <1>f, <1>n, <2>1, <2>2, <2>3 DEF ScanInv
<1>10. ASSUME UNCHANGED vars PROVE ScanInv'
  BY <1>1, <1>b, <1>10 DEF vars, ScanInv, Busy
<1> QED
  BY <1>2, <1>3, <1>4, <1>5, <1>6, <1>7, <1>8, <1>9, <1>10
     DEF Next, run, MonitorStep, Finished

\* What a removal leaves of a queue without repetitions.
LEMMA DequeuedFacts ==
  ASSUME TypeOK, IsInjective(queue), NEW w \in Worker, Scanning(w)
  PROVE  /\ IsInjective(Dequeued(w))
         /\ Range(Dequeued(w)) \subseteq Range(queue)
         /\ Candidate(w) \in Range(queue)
         /\ Candidate(w) \notin Range(Dequeued(w))
<1>1. cursor[w] \in 1 .. Len(queue) /\ queue \in Seq(Line)
  BY ScanFacts DEF TypeOK
<1> QED
  BY <1>1, RemoveAtInjective DEF Dequeued, Candidate

LEMMA NothingTwiceStep == IInv /\ [Next]_vars => NothingTwice'
<1> SUFFICES ASSUME IInv, [Next]_vars PROVE NothingTwice'
  OBVIOUS
<1>1. TypeOK /\ NothingTwice
  BY DEF IInv
\* Nothing new is in the queue and nobody is newly busy.
<1>2. ASSUME IsInjective(queue'), Range(queue') \subseteq Range(queue),
             \A x \in Worker : Busy(x)' => Busy(x) /\ held'[x] = held[x]
      PROVE  NothingTwice'
  BY <1>1, <1>2 DEF NothingTwice
<1>3. ASSUME NEW w \in Worker,
             ReturnNil(w) \/ StartScan(w) \/ Skip(w) \/ Wait(w)
               \/ ProcessTrue(w) \/ ProcessFalse(w) \/ releaseInstance(w)
      PROVE  NothingTwice'
  <2>1. queue' = queue
    BY <1>3 DEF ReturnNil, StartScan, Skip, Wait, ProcessTrue, ProcessFalse, releaseInstance
  <2>2. \A x \in Worker : Busy(x)' => Busy(x) /\ held'[x] = held[x]
    BY <1>1, <1>3 DEF ReturnNil, StartScan, Skip, Wait, ProcessTrue, ProcessFalse,
                      releaseInstance, Busy, TypeOK
  <2> QED
    BY <1>1, <1>2, <2>1, <2>2 DEF NothingTwice
<1>4. ASSUME NEW w \in Worker, DropUnknown(w) \/ DropUnresolved(w) PROVE NothingTwice'
  <2>1. Scanning(w) /\ queue' = Dequeued(w) /\ UNCHANGED <<pc, held>>
    BY <1>4 DEF DropUnknown, DropUnresolved
  <2>2. IsInjective(queue') /\ Range(queue') \subseteq Range(queue)
    BY <1>1, <2>1, DequeuedFacts DEF NothingTwice
  <2> QED
    BY <1>2, <2>1, <2>2 DEF Busy
<1>5. ASSUME NEW w \in Worker, Take(w) PROVE NothingTwice'
  <2>1. /\ Scanning(w) /\ queue' = Dequeued(w)
        /\ held' = [held EXCEPT ![w] = Candidate(w)]
        /\ pc' = [pc EXCEPT ![w] = "process"]
    BY <1>5 DEF Take
  <2>2. /\ IsInjective(queue') /\ Range(queue') \subseteq Range(queue)
        /\ Candidate(w) \in Range(queue) /\ Candidate(w) \notin Range(queue')
    BY <1>1, <2>1, DequeuedFacts DEF NothingTwice
  <2>3. \A x \in Worker : x # w => (Busy(x)' => Busy(x) /\ held'[x] = held[x])
    BY <1>1, <2>1 DEF TypeOK, Busy
  <2>4. held'[w] = Candidate(w)
    BY <1>1, <2>1 DEF TypeOK
  <2> QED
    BY <1>1, <2>2, <2>3, <2>4 DEF NothingTwice
<1>6. ASSUME UNCHANGED vars PROVE NothingTwice'
  BY <1>1, <1>6 DEF vars, NothingTwice, Busy
<1> QED
  BY <1>3, <1>4, <1>5, <1>6 DEF Next, run, MonitorStep, Finished

LEMMA ReleaseCannotFailStep == IInv /\ [Next]_vars => ReleaseCannotFail'
<1> SUFFICES ASSUME IInv, [Next]_vars PROVE ReleaseCannotFail'
  OBVIOUS
<1>1. TypeOK /\ ReleaseCannotFail
  BY DEF IInv
<1>c. cache \subseteq cache'
  BY DEF Next, run, MonitorStep, Finished, ReturnNil, StartScan, DropUnknown,
         DropUnresolved, Take, Skip, Wait, ProcessTrue, ProcessFalse,
         releaseInstance, Cached, vars
<1>2. ASSUME \A x \in Worker : Busy(x)' => Busy(x) /\ held'[x] = held[x]
      PROVE  ReleaseCannotFail'
  BY <1>1, <1>2, <1>c DEF ReleaseCannotFail, Families
<1>3. ASSUME NEW w \in Worker, run(w), ~Take(w) PROVE ReleaseCannotFail'
  <2>1. \A x \in Worker : Busy(x)' => Busy(x) /\ held'[x] = held[x]
    BY <1>1, <1>3 DEF run, MonitorStep, ReturnNil, StartScan, DropUnknown, DropUnresolved,
                      Skip, Wait, ProcessTrue, ProcessFalse, releaseInstance, Busy, TypeOK
  <2> QED
    BY <1>2, <2>1
<1>4. ASSUME NEW w \in Worker, Take(w) PROVE ReleaseCannotFail'
  <2>1. /\ Families(Candidate(w)) # {} /\ TypeOf[Candidate(w)] \in cache'
        /\ held' = [held EXCEPT ![w] = Candidate(w)]
        /\ pc' = [pc EXCEPT ![w] = "process"]
    BY <1>4 DEF Take, Cached
  <2>2. \A x \in Worker : x # w => (Busy(x)' => Busy(x) /\ held'[x] = held[x])
    BY <1>1, <2>1 DEF TypeOK, Busy
  <2>3. held'[w] = Candidate(w)
    BY <1>1, <2>1 DEF TypeOK
  <2> QED
    BY <1>1, <1>c, <2>1, <2>2, <2>3 DEF ReleaseCannotFail, Families
<1>5. ASSUME UNCHANGED vars PROVE ReleaseCannotFail'
  BY <1>2, <1>5 DEF vars, Busy
<1> QED
  BY <1>3, <1>4, <1>5 DEF Next, Finished

LEMMA NoLostWakeupStep == IInv /\ [Next]_vars => NoLostWakeup'
<1> SUFFICES ASSUME IInv, [Next]_vars PROVE NoLostWakeup'
  OBVIOUS
<1>1. TypeOK /\ ScanInv /\ NoLostWakeup
  BY DEF IInv
\* A step after which its goroutine neither sleeps nor has returned.
<1>2. ASSUME NEW w \in Worker, run(w), ~ReturnNil(w), ~Wait(w) PROVE NoLostWakeup'
  <2>1. pc'[w] \notin {"wait", "done"}
    BY <1>1, <1>2 DEF run, MonitorStep, StartScan, DropUnknown, DropUnresolved, Take, Skip,
                      ProcessTrue, ProcessFalse, releaseInstance, Scanning, TypeOK
  <2> QED
    BY <2>1 DEF NoLostWakeup
<1>3. ASSUME NEW w \in Worker, ReturnNil(w) PROVE NoLostWakeup'
  <2>1. DOMAIN queue' = {}
    BY <1>3 DEF ReturnNil
  <2> QED
    BY <2>1 DEF NoLostWakeup
<1>4. ASSUME NEW w \in Worker, Wait(w) PROVE NoLostWakeup'
  <2>1. pc[w] = "scan" /\ cursor[w] > Len(queue) /\ UNCHANGED <<queue, limit>>
    BY <1>4 DEF Wait
  <2>2. DOMAIN queue = 1 .. Len(queue) /\ cursor[w] \in Nat /\ Len(queue) \in Nat
    BY <1>1 DEF TypeOK
  <2>3. \A k \in DOMAIN queue : Blocked(queue[k])
    BY <1>1, <2>1, <2>2 DEF ScanInv
  <2> QED
    BY <2>1, <2>3 DEF NoLostWakeup, Blocked
<1>5. ASSUME UNCHANGED vars PROVE NoLostWakeup'
  BY <1>1, <1>5 DEF vars, NoLostWakeup, Blocked
<1> QED
  BY <1>2, <1>3, <1>4, <1>5 DEF Next, Finished

LEMMA IInvStep == IInv /\ [Next]_vars => IInv'
BY TypeOKStep, ScanInvStep, NothingTwiceStep, ReleaseCannotFailStep, NoLostWakeupStep
   DEF IInv

-----------------------------------------------------------------------------
(* Theorems.                                                               *)

\* The inductive invariant holds in every reachable state.
THEOREM Invariance == Spec => []IInv
BY InitIInv, IInvStep, PTL DEF Spec

\* The variables keep their types; in particular no pattern's quota goes
\* below zero, whatever types, patterns and failures there are.
THEOREM TypeCorrect == Spec => []TypeOK
<1>1. IInv => TypeOK
  BY DEF IInv
<1> QED
  BY Invariance, <1>1, PTL

\* No line of instance.txt is processed twice, by any number of goroutines.
THEOREM NothingTwiceHolds == Spec => []NothingTwice
<1>1. IInv => NothingTwice
  BY DEF IInv
<1> QED
  BY Invariance, <1>1, PTL

\* The error returns of releaseInstance are dead code.
THEOREM ReleaseCannotFailHolds == Spec => []ReleaseCannotFail
<1>1. IInv => ReleaseCannotFail
  BY DEF IInv
<1> QED
  BY Invariance, <1>1, PTL

\* All goroutines asleep or returned means that nothing left in the queue fits.
THEOREM NoLostWakeupHolds == Spec => []NoLostWakeup
<1>1. IInv => NoLostWakeup
  BY DEF IInv
<1> QED
  BY Invariance, <1>1, PTL

\* A goroutine never takes a line past an earlier one that has room.
THEOREM NoOvertakingHolds == Spec => NoOvertaking
<1> DEFINE A == \A w \in Worker :
                  pc[w] = "scan" /\ pc'[w] = "process"
                    => \A k \in 1 .. cursor[w] - 1 : Blocked(queue[k])
<1>1. IInv => A
  BY DEF IInv, ScanInv
<1>2. Spec => [][A]_vars
  BY Invariance, <1>1, PTL DEF Spec
<1> QED
  BY <1>2 DEF NoOvertaking

-----------------------------------------------------------------------------
(* Conservation of the quota.                                              *)

\* A line's patterns are all in a closed set or all outside it.
LEMMA ClosedFacts ==
  ASSUME NEW F \in Closed
  PROVE  /\ F \in SUBSET Pattern
         /\ \A v \in Line : \A g \in Families(v) : g \in F <=> Families(v) \cap F # {}
BY MonitorAssumption DEF Closed, Families

LEMMA ChargesType ==
  ASSUME TypeOK, ScanInv, NEW F \in Closed
  PROVE  Charges(F) \in [1 .. MAX_THREADS -> Nat]
<1>1. ASSUME NEW w \in Worker PROVE Charge(w, F) \in Nat
  BY LineFacts DEF Charge, ScanInv
<1> QED
  BY <1>1 DEF Charges, Worker

\* When one goroutine's charge changes, the sum changes by the difference.
LEMMA ChargeUpdate ==
  ASSUME TypeOK, ScanInv, NEW F \in Closed, NEW w \in Worker, NEW v \in Nat,
         Charge(w, F)' = v,
         \A x \in Worker : x # w => Charge(x, F)' = Charge(x, F)
  PROVE  SumTo(Charges(F), MAX_THREADS)' =
           SumTo(Charges(F), MAX_THREADS) - Charge(w, F) + v
<1>1. Charges(F)' = [Charges(F) EXCEPT ![w] = v]
  BY DEF Charges
<1>2. Charges(F)[w] = Charge(w, F)
  BY DEF Charges
<1>3. MAX_THREADS \in Nat /\ w \in 1 .. MAX_THREADS
  BY MonitorAssumption DEF Worker
<1>4. SumTo([Charges(F) EXCEPT ![w] = v], MAX_THREADS)
        = SumTo(Charges(F), MAX_THREADS) - Charges(F)[w] + v
  BY <1>3, ChargesType, SumToUpdate
<1>5. SumTo(Charges(F), MAX_THREADS)' = SumTo(Charges(F)', MAX_THREADS)
  BY DEF SumTo, PartialSum
<1> QED
  BY <1>1, <1>2, <1>4, <1>5

LEMMA SameCharges ==
  ASSUME NEW F \in Closed,
         \A x \in Worker : Charge(x, F)' = Charge(x, F)
  PROVE  SumTo(Charges(F), MAX_THREADS)' = SumTo(Charges(F), MAX_THREADS)
<1>1. Charges(F)' = Charges(F)
  BY DEF Charges
<1>2. SumTo(Charges(F), MAX_THREADS)' = SumTo(Charges(F)', MAX_THREADS)
  BY DEF SumTo, PartialSum
<1> QED
  BY <1>1, <1>2

\* What changes by n under one pattern changes by n in the sets that hold it.
LEMMA PatternUpdate ==
  ASSUME NEW c \in [Pattern -> Nat], NEW d \in [Pattern -> Nat], NEW F \in SUBSET Pattern,
         NEW g \in Pattern, NEW n \in Int,
         d[g] = c[g] + n, \A f \in Pattern : f # g => d[f] = c[f]
  PROVE  /\ SetSum(c, F) \in Nat /\ SetSum(d, F) \in Nat
         /\ SetSum(d, F) = SetSum(c, F) + (IF g \in F THEN n ELSE 0)
<1>1. /\ SetSum(c, F) \in Nat /\ SetSum(d, F) \in Nat
      /\ SetSum(d, F) = IF g \in F THEN SetSum(c, F) - c[g] + d[g] ELSE SetSum(c, F)
  <2>1. IsFiniteSet(Pattern)
    BY MonitorAssumption
  <2>2. \A f \in Pattern : f # g => d[f] = c[f]
    OBVIOUS
  <2> QED
    BY <2>1, <2>2, SetSumUpdate
<1>2. c[g] \in Nat
  OBVIOUS
<1> QED
  BY <1>1, <1>2

LEMMA InitConserved == Init => QuotaConserved
<1> SUFFICES ASSUME Init, NEW F \in Closed
             PROVE  SetSum(limit, F) + SumTo(Charges(F), MAX_THREADS) + SetSum(lost, F)
                      = SetSum(Quota, F)
  BY DEF QuotaConserved
<1>1. Charges(F) = [w \in 1 .. MAX_THREADS |-> 0]
  BY DEF Init, Charges, Charge, Busy, Worker
<1>2. SumTo(Charges(F), MAX_THREADS) = 0
  BY <1>1, SumToZero, MonitorAssumption
<1>3. F \in SUBSET Pattern /\ IsFiniteSet(Pattern) /\ Quota \in [Pattern -> Nat]
  BY ClosedFacts, MonitorAssumption
<1>4. SetSum(lost, F) = 0
  BY <1>3, SetSumZero DEF Init
<1>5. SetSum(Quota, F) \in Nat /\ limit = Quota
  BY <1>3, SetSumType DEF Init
<1> QED
  BY <1>2, <1>4, <1>5

LEMMA ConservedStep ==
  ASSUME IInv, QuotaConserved, [Next]_vars
  PROVE  QuotaConserved'
<1> SUFFICES ASSUME NEW F \in Closed
             PROVE  SetSum(limit', F) + SumTo(Charges(F), MAX_THREADS)' + SetSum(lost', F)
                      = SetSum(Quota, F)
  BY DEF QuotaConserved
<1> DEFINE free == SetSum(limit, F)
           total == SumTo(Charges(F), MAX_THREADS)
           withheld == SetSum(lost, F)
           freed == SetSum(limit', F)
           withheldNow == SetSum(lost', F)
           Conserved == freed + total' + withheldNow = SetSum(Quota, F)
<1>1. TypeOK /\ ScanInv /\ ReleaseCannotFail
  BY DEF IInv
<1>0. F \in SUBSET Pattern /\ IsFiniteSet(Pattern)
  BY ClosedFacts, MonitorAssumption
<1>t. limit' \in [Pattern -> Nat] /\ lost' \in [Pattern -> Nat]
  BY TypeOKStep DEF TypeOK
<1>2. free \in Nat /\ total \in Nat /\ withheld \in Nat
  <2>1. total \in Nat
    BY <1>1, ChargesType, SumToType, MonitorAssumption
  <2>2. free \in Nat /\ withheld \in Nat
    BY <1>0, <1>1, SetSumType DEF TypeOK
  <2> QED
    BY <2>1, <2>2
<1>3. free + total + withheld = SetSum(Quota, F)
  BY DEF QuotaConserved
<1> HIDE DEF total
<1>4. ASSUME limit' = limit, lost' = lost,
             \A x \in Worker : Charge(x, F)' = Charge(x, F)
      PROVE  Conserved
  <2>1. total' = total
    BY <1>4, SameCharges DEF total
  <2> QED
    BY <1>3, <1>4, <2>1
<1>5. ASSUME NEW w \in Worker,
             ReturnNil(w) \/ StartScan(w) \/ DropUnknown(w) \/ DropUnresolved(w)
               \/ Skip(w) \/ Wait(w) \/ ProcessTrue(w)
      PROVE  Conserved
  <2>1. limit' = limit /\ lost' = lost /\ held' = held
    BY <1>5 DEF ReturnNil, StartScan, DropUnknown, DropUnresolved, Skip, Wait, ProcessTrue
  <2>2. \A x \in Worker : Busy(x)' <=> Busy(x)
    BY <1>1, <1>5 DEF ReturnNil, StartScan, DropUnknown, DropUnresolved, Skip, Wait,
                      ProcessTrue, Busy, TypeOK
  <2>3. \A x \in Worker : Charge(x, F)' = Charge(x, F)
    BY <2>1, <2>2 DEF Charge, Families, Need
  <2> QED
    BY <1>4, <2>1, <2>3
<1>6. ASSUME NEW w \in Worker, Take(w)
      PROVE  Conserved
  <2> DEFINE c == Candidate(w)
             d == IF Families(c) \cap F # {} THEN Need(c) ELSE 0
  <2>1. PICK g \in Families(c) : Fits(c, g) /\ limit' = [limit EXCEPT ![g] = @ - Need(c)]
    BY <1>6 DEF Take
  <2>2. /\ Scanning(w) /\ lost' = lost
        /\ held' = [held EXCEPT ![w] = c] /\ pc' = [pc EXCEPT ![w] = "process"]
    BY <1>6 DEF Take
  <2>3. c \in Line
    BY <1>1, <2>2, ScanFacts
  <2> HIDE DEF c
  <2>4. /\ held'[w] = c /\ Busy(w)' /\ ~Busy(w)
        /\ \A x \in Worker : x # w => held'[x] = held[x] /\ (Busy(x)' <=> Busy(x))
    BY <1>1, <2>2 DEF TypeOK, Busy, Scanning
  <2>5. Need(c) \in Nat /\ g \in Pattern /\ d \in Nat
    BY <2>3, LineFacts
  <2>6. Charge(w, F) = 0 /\ \A x \in Worker : x # w => Charge(x, F)' = Charge(x, F)
    BY <2>4 DEF Charge, Families, Need
  <2>7. Charge(w, F)' = d
    BY <2>4 DEF Charge, Families, Need
  <2>8. d = IF g \in F THEN Need(c) ELSE 0
    BY <2>1, <2>3, ClosedFacts
  <2>9. total' = total + d
    <3> HIDE DEF d
    <3>1. total' = total - Charge(w, F) + d
      BY <1>1, <2>5, <2>6, <2>7, ChargeUpdate DEF total
    <3> QED
      BY <1>2, <2>5, <2>6, <3>1
  <2>10. freed = free - d
    <3> DEFINE n == 0 - Need(c)
    <3>1. n \in Int /\ limit'[g] = limit[g] + n /\ \A f \in Pattern : f # g => limit'[f] = limit[f]
      BY <1>1, <2>1, <2>5 DEF TypeOK
    <3>2. (IF g \in F THEN n ELSE 0) = 0 - d
      BY <2>5, <2>8
    <3> HIDE DEF n, d
    <3>3. freed = free + (IF g \in F THEN n ELSE 0)
      <4>1. limit \in [Pattern -> Nat]
        BY <1>1 DEF TypeOK
      <4> QED
        BY <1>0, <1>t, <2>5, <3>1, <4>1, PatternUpdate
    <3> QED
      BY <1>2, <2>5, <3>2, <3>3
  <2> HIDE DEF d
  <2>11. withheldNow = withheld
    BY <2>2
  <2> HIDE DEF free, freed, withheld, withheldNow
  <2> QED
    BY <1>2, <1>3, <2>5, <2>9, <2>10, <2>11
\* A goroutine gives up its line: the vCPUs go to limit or to lost.
<1>7. ASSUME NEW w \in Worker, Busy(w), ~Busy(w)',
             \A x \in Worker : x # w => held'[x] = held[x] /\ (Busy(x)' <=> Busy(x)),
             NEW g \in Families(held[w]),
             \/ /\ limit' = [limit EXCEPT ![g] = @ + Need(held[w])]
                /\ lost' = lost
             \/ /\ lost' = [lost EXCEPT ![g] = @ + Need(held[w])]
                /\ limit' = limit
      PROVE  Conserved
  <2> DEFINE v == held[w]
             d == IF Families(v) \cap F # {} THEN Need(v) ELSE 0
  <2>1. v \in Line
    BY <1>1, <1>7 DEF ScanInv
  <2>2. Need(v) \in Nat /\ g \in Pattern /\ d \in Nat
    BY <1>7, <2>1, LineFacts
  <2>3. d = IF g \in F THEN Need(v) ELSE 0
    BY <1>7, <2>1, ClosedFacts
  <2>4. Charge(w, F) = d /\ Charge(w, F)' = 0
    BY <1>7 DEF Charge
  <2>5. \A x \in Worker : x # w => Charge(x, F)' = Charge(x, F)
    BY <1>7 DEF Charge, Families, Need
  <2>6. total' = total - d
    <3>1. total' = total - Charge(w, F) + 0
      BY <1>1, <2>4, <2>5, ChargeUpdate DEF total
    <3> HIDE DEF d
    <3> QED
      BY <1>2, <2>2, <2>4, <3>1
  <2>7. \/ freed = free + d /\ withheldNow = withheld
        \/ withheldNow = withheld + d /\ freed = free
    <3> HIDE DEF d, v
    <3>0. limit \in [Pattern -> Nat] /\ lost \in [Pattern -> Nat]
      BY <1>1 DEF TypeOK
    <3>1. CASE limit' = [limit EXCEPT ![g] = @ + Need(v)] /\ lost' = lost
      <4>1. limit'[g] = limit[g] + Need(v) /\ \A f \in Pattern : f # g => limit'[f] = limit[f]
        BY <2>2, <3>0, <3>1
      <4>2. freed = free + (IF g \in F THEN Need(v) ELSE 0)
        BY <1>0, <1>t, <2>2, <3>0, <4>1, PatternUpdate
      <4> QED
        BY <2>3, <3>1, <4>2
    <3>2. CASE lost' = [lost EXCEPT ![g] = @ + Need(v)] /\ limit' = limit
      <4>1. lost'[g] = lost[g] + Need(v) /\ \A f \in Pattern : f # g => lost'[f] = lost[f]
        BY <2>2, <3>0, <3>2
      <4>2. withheldNow = withheld + (IF g \in F THEN Need(v) ELSE 0)
        <5> DEFINE a == lost
                   b == lost'
        <5>1. /\ a \in [Pattern -> Nat] /\ b \in [Pattern -> Nat] /\ Need(v) \in Int
              /\ b[g] = a[g] + Need(v) /\ \A f \in Pattern : f # g => b[f] = a[f]
          BY <1>t, <2>2, <3>0, <4>1
        <5> HIDE DEF a, b
        <5>2. SetSum(b, F) = SetSum(a, F) + (IF g \in F THEN Need(v) ELSE 0)
          BY <1>0, <2>2, <5>1, PatternUpdate
        <5> QED
          BY <5>2 DEF a, b
      <4> QED
        BY <2>3, <3>2, <4>2
    <3> QED
      BY <1>7, <3>1, <3>2 DEF v
  <2> HIDE DEF d, free, freed, withheld, withheldNow
  <2> QED
    BY <1>2, <1>3, <2>2, <2>6, <2>7
<1>8. ASSUME NEW w \in Worker, ProcessFalse(w)
      PROVE  Conserved
  <2>1. PICK g \in Families(held[w]) : lost' = [lost EXCEPT ![g] = @ + Need(held[w])]
    BY <1>8 DEF ProcessFalse
  <2>2. /\ Busy(w) /\ ~Busy(w)' /\ limit' = limit
        /\ \A x \in Worker : x # w => held'[x] = held[x] /\ (Busy(x)' <=> Busy(x))
    BY <1>1, <1>8 DEF ProcessFalse, Busy, TypeOK
  <2> QED
    BY <1>7, <2>1, <2>2
<1>9. ASSUME NEW w \in Worker, releaseInstance(w)
      PROVE  Conserved
  <2>1. Busy(w)
    BY <1>9 DEF releaseInstance, Busy
  <2>2. Lookups(held[w]) = {TRUE} /\ Families(held[w]) # {}
    BY <1>1, <2>1 DEF ReleaseCannotFail, Lookups
  <2>3. PICK g \in Families(held[w]), woken \in Woken :
          /\ limit' = [limit EXCEPT ![g] = @ + Need(held[w])]
          /\ pc' = [x \in Worker |->
                      IF x \in woken \cup {w} THEN "getInstance" ELSE pc[x]]
          /\ lost' = lost
    BY <1>9, <2>2 DEF releaseInstance
  <2>4. woken \subseteq Waiting /\ held' = [held EXCEPT ![w] = None]
    BY <1>9, <2>3, WokenFacts DEF releaseInstance
  <2>5. /\ ~Busy(w)'
        /\ \A x \in Worker : x # w => held'[x] = held[x] /\ (Busy(x)' <=> Busy(x))
    BY <1>1, <2>3, <2>4 DEF Busy, Waiting, TypeOK
  <2> QED
    BY <1>7, <2>1, <2>3, <2>5
<1>10. ASSUME UNCHANGED vars PROVE Conserved
  <2>1. \A x \in Worker : Charge(x, F)' = Charge(x, F)
    BY <1>10 DEF vars, Charge, Busy, Families, Need
  <2> QED
    BY <1>4, <1>10, <2>1 DEF vars
<1>11. Conserved
  BY <1>5, <1>6, <1>8, <1>9, <1>10 DEF Next, run, MonitorStep, Finished
<1> QED
  BY <1>11 DEF total

\* Every vCPU of the quotas is free, held, or withheld after a failed termination,
\* however many goroutines there are and however the patterns overlap: what one
\* pattern gains another of the same types loses.
THEOREM QuotaConservedHolds == Spec => []QuotaConserved
<1>1. IInv /\ QuotaConserved /\ [Next]_vars => QuotaConserved'
  BY ConservedStep
<1> QED
  BY Invariance, InitConserved, <1>1, PTL DEF Spec

\* So the program never believes that patterns which share types with no others
\* have more room than AWS granted them together.
THEOREM QuotaBoundedHolds == Spec => []QuotaBounded
<1>1. IInv /\ QuotaConserved => QuotaBounded
  <2> SUFFICES ASSUME IInv, QuotaConserved, NEW F \in Closed
               PROVE  SetSum(limit, F) <= SetSum(Quota, F)
    BY DEF QuotaBounded
  <2>1. SumTo(Charges(F), MAX_THREADS) \in Nat
    BY ChargesType, SumToType, MonitorAssumption DEF IInv
  <2>2. SetSum(limit, F) \in Nat /\ SetSum(lost, F) \in Nat
    <3>1. F \in SUBSET Pattern /\ IsFiniteSet(Pattern)
      BY ClosedFacts, MonitorAssumption
    <3> QED
      BY <3>1, SetSumType DEF IInv, TypeOK
  <2>3. SetSum(limit, F) + SumTo(Charges(F), MAX_THREADS) + SetSum(lost, F) = SetSum(Quota, F)
    BY DEF QuotaConserved
  <2> QED
    BY <2>1, <2>2, <2>3
<1> QED
  BY Invariance, QuotaConservedHolds, <1>1, PTL

-----------------------------------------------------------------------------
(* Part two: ExperimentRunner.                                             *)

(* Instances and sums over them.                                           *)

LEMMA RunFacts ==
  /\ Run = 1 .. MaxRuns /\ MaxRuns \in Nat \ {0} /\ IsFiniteSet(Line)
  /\ \A w \in Worker : w # None
BY RunnerAssumption DEF Run, Worker, None

\* An instance is a line, a kind and a run.
LEMMA InstanceFacts ==
  /\ \A v \in Line, k \in Kind, r \in Run : <<v, k, r>> \in Instance
  /\ \A i \in Instance : i[1] \in Line /\ i[2] \in Kind /\ i[3] \in Run /\ i = <<i[1], i[2], i[3]>>
BY DEF Instance

LEMMA InstancesFinite == IsFiniteSet(Instance)
<1> DEFINE P == (Line \X Kind) \X Run
           f == [i \in Instance |-> <<<<i[1], i[2]>>, i[3]>>]
<1>1. IsFiniteSet(Kind)
  <2>1. Kind = {"spot"} \cup {"onDemand"}
    BY DEF Kind
  <2> QED
    BY <2>1, FS_Singleton, FS_AddElement
<1>2. IsFiniteSet(Line \X Kind)
  BY <1>1, RunFacts, FS_Product
<1>3. IsFiniteSet(Run)
  BY RunFacts, FS_Interval
<1>4. IsFiniteSet(P)
  BY <1>2, <1>3, FS_Product
<1>5. f \in [Instance -> P]
  BY InstanceFacts
<1>6. \A i, j \in Instance : f[i] = f[j] => i = j
  BY InstanceFacts
<1>7. f \in Injection(Instance, P)
  BY <1>5, <1>6 DEF Injection, IsInjective
<1> QED
  BY <1>4, <1>7, FS_Injection

LEMMA NeedsType == Needs \in [Instance -> Nat]
BY InstanceFacts, LineFacts DEF Needs

LEMMA NeedsFacts ==
  ASSUME NEW R \in SUBSET Instance
  PROVE  /\ SetSum(Needs, R) \in Nat
         /\ \A Q \in SUBSET R : SetSum(Needs, Q) <= SetSum(Needs, R)
         /\ \A x \in Instance : \A Q \in SUBSET (R \cup {x}) :
              SetSum(Needs, Q) <= SetSum(Needs, R) + Need(x[1])
<1>1. \A x \in Instance : Needs[x] = Need(x[1])
  BY DEF Needs
<1> QED
  BY <1>1, InstancesFinite, NeedsType, SetSumType, SetSumMono, SetSumAdd

\* subtractRunningSpotInstances leaves what a quota can be: its clamp is needed.
LEMMA SubtractedFacts ==
  ASSUME NEW p \in Charged
  PROVE  /\ Subtracted(p) \in [Pattern -> Nat]
         /\ \A f \in Pattern : Subtracted(p)[f] <= Quota[f]
<1>1. ASSUME NEW f \in Pattern PROVE SetSum(Needs, Used(p, f)) \in Nat
  <2>1. Used(p, f) \in SUBSET Instance
    BY DEF Used, RunningSpot
  <2> QED
    BY <2>1, NeedsFacts
<1> QED
  BY <1>1, MonitorAssumption DEF Subtracted

LEMMA FilteredFacts ==
  /\ Filtered \in Seq(Line)
  /\ IsInjective(Filtered)
  /\ Range(Filtered) \subseteq Range(InitialQueue)
  /\ \A v \in Range(Filtered) : ~Processed(v)
BY MonitorAssumption, SelectedProperties DEF Filtered

-----------------------------------------------------------------------------
(* main.                                                                   *)

LEMMA NoneKnownReleased ==
  tracked = {} /\ lost \in [Pattern -> Nat] => ReleasedOnlyWhenTerminated
<1> SUFFICES ASSUME tracked = {}, lost \in [Pattern -> Nat], NEW F \in Closed
             PROVE  SetSum(Needs, Unheld(F)) <= SetSum(lost, F)
  BY DEF ReleasedOnlyWhenTerminated
<1>1. SetSum(Needs, {}) = 0
  BY InstancesFinite, NeedsType, SetSumEmpty
<1>2. Unheld(F) = {}
  BY DEF Unheld
<1>3. SetSum(lost, F) \in Nat
  BY ClosedFacts, MonitorAssumption, SetSumType
<1> QED
  BY <1>1, <1>2, <1>3

\* What NotRunning leaves: as before the first run.
Emptied ==
  /\ queue = << >> /\ limit = Quota /\ cache = {} /\ lock = None
  /\ pc = [w \in Worker |-> "done"] /\ cursor = [w \in Worker |-> 1]
  /\ held = [w \in Worker |-> None] /\ lost = [f \in Pattern |-> 0]
  /\ step = [w \in Worker |-> "request"] /\ kind = [w \in Worker |-> "spot"]
  /\ tracked = {} /\ main \in Stopped /\ runNo \in 0 .. MaxRuns
  /\ ec2 \in [Instance -> Ec2State]
  /\ results \in [Type -> {"absent", "partial", "complete"}]
  /\ sg \in [Run -> {"none", "created", "deleted"}]

LEMMA EmptiedInv == Emptied => RInv
<1> SUFFICES ASSUME Emptied PROVE RInv
  OBVIOUS
<1> USE DEF Emptied
<1>1. TypeOK
  BY MonitorAssumption DEF TypeOK, PC, None
<1>2. RunnerTypeOK
  BY <1>1 DEF RunnerTypeOK, Kind
<1>3. ReleasedOnlyWhenTerminated
  BY <1>1, NoneKnownReleased DEF TypeOK
<1>4. Outside /\ Created /\ Started /\ Known
  BY DEF Outside, Created, Started, Known, Stopped
<1>5. \A w \in Worker : Owned(w)
  BY DEF Owned, Busy
<1> QED
  BY <1>2, <1>3, <1>4, <1>5 DEF RInv, Stopped

LEMMA InitRInv == RunnerInit => RInv
<1> SUFFICES ASSUME RunnerInit PROVE RInv
  OBVIOUS
<1>1. ec2 \in [Instance -> Ec2State]
  BY DEF RunnerInit, Ec2State
<1> QED
  BY <1>1, RunFacts, EmptiedInv DEF RunnerInit, Emptied, Stopped

LEMMA NotRunningInv ==
  ASSUME RInv, NotRunning, main' \in Stopped, runNo' = runNo, ec2' = ec2, results' = results,
         sg' \in [Run -> {"none", "created", "deleted"}]
  PROVE  RInv'
<1>1. Emptied'
  BY DEF Emptied, NotRunning, RInv, RunnerTypeOK
<1>2. (Emptied => RInv)'
  BY EmptiedInv, PTL
<1> QED
  BY <1>1, <1>2

LEMMA StartInv ==
  ASSUME RInv, Start
  PROVE  RInv'
<1>0. limit' \in [Pattern -> Nat] /\ \A f \in Pattern : limit'[f] <= Quota[f]
  <2>1. CASE \E p \in Charged : limit' = Subtracted(p)
    BY <2>1, SubtractedFacts
  <2>2. CASE limit' = Quota
    BY <2>2, MonitorAssumption
  <2> QED
    BY <2>1, <2>2 DEF Start
<1> USE DEF Start, goroutine, aws
<1>1. TypeOK'
  <2>1. TypeOK
    BY DEF RInv, RunnerTypeOK
  <2>2. limit' \in [Pattern -> Nat]
    BY <1>0
  <2>3. cache' \subseteq Type
    BY InstanceFacts, LineFacts DEF RunningSpot
  <2> QED
    BY <2>1, <2>2, <2>3, FilteredFacts DEF TypeOK
<1>2. RunnerTypeOK'
  BY <1>1, RunFacts DEF RInv, RunnerTypeOK, Stopped
<1>3. Outside'
  BY DEF RInv, Outside, Stopped
<1>4. Created'
  BY <1>0, FilteredFacts DEF Created
<1>5. Started' /\ Known'
  BY RunFacts DEF RInv, RunnerTypeOK, Started, Known, Stopped
<1>6. \A w \in Worker : Owned(w)'
  BY DEF RInv, Outside, Owned, Busy, Stopped
<1>7. ReleasedOnlyWhenTerminated'
  <2>1. (tracked = {} /\ lost \in [Pattern -> Nat] => ReleasedOnlyWhenTerminated)'
    BY NoneKnownReleased, PTL
  <2> QED
    BY <1>1, <2>1 DEF TypeOK
<1>8. main' # "workers"
  OBVIOUS
<1> QED
  BY <1>2, <1>3, <1>4, <1>5, <1>6, <1>7, <1>8 DEF RInv

LEMMA BegunInv ==
  ASSUME RInv, createSecurityGroup
  PROVE  Begun'
BY DEF RInv, Created, Outside, createSecurityGroup, Begun

LEMMA CreateInv ==
  ASSUME RInv, createSecurityGroup
  PROVE  RInv'
<1> USE DEF createSecurityGroup, goroutine
<1>0. Begun' /\ tracked = {}
  BY BegunInv DEF RInv, Known
<1>1. TypeOK'
  BY DEF RInv, RunnerTypeOK, TypeOK, PC
<1>2. RunnerTypeOK'
  BY <1>1 DEF RInv, RunnerTypeOK
<1>3. IInv'
  <2>1. ScanInv' /\ NothingTwice' /\ ReleaseCannotFail'
    BY <1>0, RunFacts DEF Begun, ScanInv, NothingTwice, ReleaseCannotFail, Busy
  <2>2. 1 \in Worker
    BY MonitorAssumption DEF Worker
  <2>3. NoLostWakeup'
    BY <1>0, <2>2 DEF Begun, NoLostWakeup
  <2> QED
    BY <1>1, <2>1, <2>3 DEF IInv
<1>4. Outside' /\ Created' /\ Started'
  BY DEF RInv, Outside, Created, Started, Stopped
<1>5. Known' /\ \A w \in Worker : Owned(w)'
  BY <1>0 DEF RInv, Known, Outside, Owned, Busy, Stopped
<1>6. ReleasedOnlyWhenTerminated'
  <2>1. (tracked = {} /\ lost \in [Pattern -> Nat] => ReleasedOnlyWhenTerminated)'
    BY NoneKnownReleased, PTL
  <2> QED
    BY <1>0, <1>1, <2>1 DEF TypeOK
<1> QED
  BY <1>2, <1>3, <1>4, <1>5, <1>6 DEF RInv

LEMMA MainInv ==
  ASSUME RInv, Crash \/ deleteSecurityGroupSafely
  PROVE  RInv'
<1>1. sg' \in [Run -> {"none", "created", "deleted"}]
  <2>1. sg' \in {sg, [sg EXCEPT ![runNo] = "deleted"]}
    BY DEF Crash, deleteSecurityGroupSafely, Deleted, aws
  <2> QED
    BY <2>1 DEF RInv, RunnerTypeOK
<1>2. NotRunning /\ main' \in Stopped /\ runNo' = runNo /\ ec2' = ec2 /\ results' = results
  BY DEF Crash, deleteSecurityGroupSafely, aws, Stopped
<1> QED
  BY <1>1, <1>2, NotRunningInv

-----------------------------------------------------------------------------
(* Steps that the monitor does not see.                                    *)

LEMMA UnseenKeepsIInv ==
  ASSUME RInv, UNCHANGED vars, main' = main
  PROVE  main' = "workers" => IInv'
BY IInvStep DEF RInv

\* The vCPUs that are not held only become fewer.
LEMMA FewerUnheld ==
  ASSUME ReleasedOnlyWhenTerminated, lost \in [Pattern -> Nat], lost' = lost,
         tracked \subseteq Instance, \A F \in Closed : Unheld(F)' \subseteq Unheld(F)
  PROVE  ReleasedOnlyWhenTerminated'
<1> SUFFICES ASSUME NEW F \in Closed PROVE SetSum(Needs, Unheld(F)') <= SetSum(lost, F)
  BY DEF ReleasedOnlyWhenTerminated
<1> DEFINE a == Unheld(F)
           b == Unheld(F)'
           n == SetSum(lost, F)
<1>1. n \in Nat
  BY ClosedFacts, MonitorAssumption, SetSumType
<1>2. a \in SUBSET Instance /\ b \in SUBSET a /\ b \in SUBSET Instance
  BY DEF Unheld
<1>3. SetSum(Needs, a) <= n
  BY DEF ReleasedOnlyWhenTerminated
<1> HIDE DEF a, b, n
<1>4. SetSum(Needs, b) <= SetSum(Needs, a) /\ SetSum(Needs, a) \in Nat /\ SetSum(Needs, b) \in Nat
  BY <1>2, NeedsFacts
<1>5. SetSum(Needs, b) <= n
  BY <1>1, <1>3, <1>4
<1> QED
  BY <1>5 DEF b, n

\* What EC2 does to an instance of its own accord.
LEMMA MovesInv ==
  ASSUME RInv, NEW i \in Instance, NEW from, NEW to \in Ec2State, Moves(i, from, to),
         \/ from = {"open"}
         \/ from \subseteq {"running", "shutting-down"} /\ to = "terminated"
  PROVE  RInv'
<1> USE DEF Moves, Becomes, goroutine
<1>1. RunnerTypeOK /\ Known
  BY DEF RInv
<1>2. /\ ec2' \in [Instance -> Ec2State] /\ ec2'[i] = to /\ ec2[i] \in from
      /\ \A j \in Instance : j # i => ec2'[j] = ec2[j]
  BY <1>1 DEF RunnerTypeOK
<1>3. \A j \in tracked : /\ j \in Instance
                         /\ \/ ec2'[j] = ec2[j]
                            \/ ec2[j] \in {"running", "shutting-down"} /\ ec2'[j] = "terminated"
  BY <1>1, <1>2 DEF RunnerTypeOK, Known
<1>4. RunnerTypeOK'
  BY <1>1, <1>2 DEF RunnerTypeOK, TypeOK, vars
<1>5. main' = "workers" => IInv'
  BY UnseenKeepsIInv
<1>6. Outside' /\ Created' /\ Started'
  BY DEF RInv, Outside, Created, Started, vars
<1>7. Known'
  BY <1>1, <1>3 DEF Known, vars
<1>8. \A w \in Worker : Owned(w)'
  BY <1>3 DEF RInv, Owned, Busy, Mine, Requested, vars
<1>9. ReleasedOnlyWhenTerminated'
  <2>1. \A F \in Closed : Unheld(F)' \subseteq Unheld(F)
    BY <1>3 DEF Unheld, Live, Busy, vars
  <2> QED
    BY <1>1, <2>1, FewerUnheld DEF RInv, RunnerTypeOK, TypeOK, vars
<1> QED
  BY <1>4, <1>5, <1>6, <1>7, <1>8, <1>9 DEF RInv

LEMMA EC2Inv ==
  ASSUME RInv, EC2
  PROVE  RInv'
<1>1. PICK i \in Instance : Fulfil(i) \/ Expire(i) \/ Interrupt(i) \/ ShutDown(i)
  BY DEF EC2
<1>2. {"running", "none", "terminated"} \subseteq Ec2State
  BY DEF Ec2State
<1> QED
  BY <1>1, <1>2, MovesInv DEF Fulfil, Expire, Interrupt, ShutDown

LEMMA WaitGroupDoneInv ==
  ASSUME RInv, WaitGroupDone
  PROVE  RInv'
<1> USE DEF WaitGroupDone, goroutine, aws, vars
<1>1. RunnerTypeOK'
  BY DEF RInv, RunnerTypeOK, TypeOK
<1>2. Outside'
  <2>1. \A w \in Worker : pc[w] = "done" /\ step[w] = "request"
    BY DEF AllDone, RInv, Owned
  <2>2. IInv
    BY DEF RInv
  <2>3. lock = None
    BY <2>1, <2>2 DEF IInv, TypeOK, ScanInv
  <2>4. \A w \in Worker : held[w] = None
    BY <2>1 DEF RInv, Owned, Busy
  <2> QED
    BY <2>1, <2>3, <2>4 DEF Outside
<1>3. Created' /\ Started' /\ Known'
  BY DEF RInv, Created, Started, Known, Stopped
<1>4. \A w \in Worker : Owned(w)'
  BY DEF RInv, Owned, Busy, Mine, Requested
<1>5. ReleasedOnlyWhenTerminated'
  <2>1. \A F \in Closed : Unheld(F)' \subseteq Unheld(F)
    BY DEF Unheld, Live, Busy
  <2> QED
    BY <2>1, FewerUnheld DEF RInv, RunnerTypeOK, TypeOK
<1> QED
  BY <1>1, <1>2, <1>3, <1>4, <1>5 DEF RInv

-----------------------------------------------------------------------------
(* processInstance.                                                        *)

\* The instances of the line that a goroutine processes.
OfLine(w) == {i \in Instance : i[1] = held[w]}

LEMMA ProcessFacts ==
  ASSUME RInv, main = "workers", NEW w \in Worker, pc[w] = "process"
  PROVE  /\ Busy(w) /\ IInv /\ RunnerTypeOK /\ Known /\ Owned(w)
         /\ held[w] \in Line /\ held[w] \notin Range(queue)
         /\ runNo \in Run /\ kind[w] \in Kind
         /\ \A k \in Kind : Requested(w, k) \in OfLine(w) /\ Requested(w, k)[3] = runNo
         /\ Mine(w) \in OfLine(w) /\ Mine(w)[3] = runNo
         /\ \A x \in Worker : x # w /\ Busy(x) => held[x] # held[w]
<1>1. Busy(w) /\ IInv /\ RunnerTypeOK /\ Known /\ Owned(w)
  BY DEF RInv, Busy
<1>2. held[w] \in Line /\ held[w] \notin Range(queue) /\ \A x \in Worker : x # w /\ Busy(x) => held[x] # held[w]
  BY <1>1 DEF IInv, ScanInv, NothingTwice
<1>3. runNo \in Run /\ kind[w] \in Kind
  BY <1>1 DEF RInv, Started, RunnerTypeOK, Stopped
<1>4. \A k \in Kind : Requested(w, k) \in OfLine(w) /\ Requested(w, k)[3] = runNo
  BY <1>2, <1>3, InstanceFacts DEF Requested, OfLine
<1> QED
  BY <1>1, <1>2, <1>3, <1>4 DEF Mine

\* A step of processInstance that stays in it and only works with instances of
\* its own line.
LEMMA InnerInv ==
  ASSUME RInv, main = "workers", NEW w \in Worker, pc[w] = "process",
         UNCHANGED <<vars, main, runNo, sg>>, RunnerTypeOK', Known', Owned(w)',
         \A x \in Worker : x # w => step'[x] = step[x] /\ kind'[x] = kind[x],
         \A i \in tracked' : i \in tracked \/ i \in OfLine(w),
         \A i \in tracked : i \in tracked',
         \A i \in Instance : i \notin OfLine(w) => ec2'[i] = ec2[i]
  PROVE  RInv'
<1> USE DEF vars
<1>0. /\ Busy(w) /\ RunnerTypeOK /\ Known
      /\ \A x \in Worker : x # w /\ Busy(x) => held[x] # held[w]
  BY ProcessFacts
<1>1. main' = "workers" => IInv'
  BY UnseenKeepsIInv
<1>2. Outside' /\ Created' /\ Started'
  BY DEF RInv, Outside, Created, Started
<1>3. ASSUME NEW x \in Worker, x # w PROVE Owned(x)'
  <2>1. Owned(x) /\ (Busy(x) => held[x] # held[w])
    BY <1>0, <1>3 DEF RInv
  <2>2. Busy(x) => \A i \in tracked' : i[1] = held[x] => i \in tracked /\ ec2'[i] = ec2[i]
    BY <1>0, <2>1 DEF OfLine, RunnerTypeOK
  <2>3. Busy(x)' = Busy(x) /\ Mine(x)' = Mine(x) /\ step'[x] = step[x] /\ pc'[x] = pc[x] /\ held'[x] = held[x]
    BY <1>3 DEF Busy, Mine, Requested
  <2> QED
    BY <2>1, <2>2, <2>3 DEF Owned, Busy
<1>4. ReleasedOnlyWhenTerminated'
  <2>1. \A F \in Closed : Unheld(F)' \subseteq Unheld(F)
    <3> SUFFICES ASSUME NEW F \in Closed, NEW i \in Unheld(F)' PROVE i \in Unheld(F)
      OBVIOUS
    <3>1. i \in tracked' /\ Live(i)' /\ Families(i[1]) \cap F # {} /\ ~\E x \in Worker : Busy(x) /\ held[x] = i[1]
      BY DEF Unheld, Busy
    <3>2. i \in tracked /\ i \notin OfLine(w)
      BY <1>0, <3>1 DEF OfLine
    <3> QED
      BY <1>0, <3>1, <3>2 DEF Unheld, Live, RunnerTypeOK
  <2> QED
    BY <1>0, <2>1, FewerUnheld DEF RInv, RunnerTypeOK, TypeOK
<1> QED
  BY <1>1, <1>2, <1>3, <1>4 DEF RInv

Steps == {"request", "fulfil", "cancel", "onDemand", "download", "extract", "terminate", "terminated"}

\* It may do anything to its instances as long as it knows none, or keeps the
\* one it knows what it was: an instance that has run.
LEMMA SameInstancesInv ==
  ASSUME RInv, NEW w \in Worker, At(w, step[w]), NEW l \in Steps, Goto(w, l),
         step[w] \in Starting <=> l \in Starting,
         UNCHANGED <<vars, main, runNo, kind, sg, tracked>>,
         results' \in [Type -> {"absent", "partial", "complete"}],
         ec2' \in [Instance -> Ec2State],
         \A i \in Instance : i \notin OfLine(w) => ec2'[i] = ec2[i],
         \A i \in tracked : ec2'[i] \in {"running", "shutting-down", "terminated"}
  PROVE  RInv'
<1> USE DEF At, Goto, vars
<1>1. /\ RunnerTypeOK /\ Known /\ Owned(w) /\ Busy(w)
  BY ProcessFacts
<1>2. /\ step' \in [Worker -> Steps] /\ step'[w] = l
      /\ \A x \in Worker : x # w => step'[x] = step[x]
  BY <1>1 DEF RunnerTypeOK, Steps
<1>3. RunnerTypeOK'
  BY <1>1, <1>2 DEF RunnerTypeOK, TypeOK, Steps
<1>4. Known'
  BY <1>1 DEF Known
<1>5. Owned(w)'
  BY <1>1, <1>2 DEF Owned, Mine, Requested, Busy
<1> QED
  BY <1>2, <1>3, <1>4, <1>5, InnerInv

\* Or it gets to know the first instance of its line.
LEMMA FoundInstanceInv ==
  ASSUME RInv, NEW w \in Worker, At(w, step[w]), step[w] \in Starting, NEW k \in Kind,
         Goto(w, "download"), Chooses(w, k), tracked' = tracked \cup {Requested(w, k)},
         UNCHANGED <<vars, main, runNo, sg, results>>,
         ec2' \in [Instance -> Ec2State],
         \A i \in Instance : i # Requested(w, k) => ec2'[i] = ec2[i],
         ec2'[Requested(w, k)] \in {"running", "terminated"}
  PROVE  RInv'
<1> USE DEF At, Goto, Chooses, vars
<1>1. /\ RunnerTypeOK /\ Known /\ Owned(w) /\ Busy(w)
      /\ Requested(w, k) \in OfLine(w) /\ Requested(w, k)[3] = runNo /\ held[w] \notin Range(queue)
  BY ProcessFacts
<1>2. /\ step' \in [Worker -> Steps] /\ step'[w] = "download"
      /\ \A x \in Worker : x # w => step'[x] = step[x]
  BY <1>1 DEF RunnerTypeOK, Steps
<1>3. /\ kind' \in [Worker -> Kind] /\ kind'[w] = k
      /\ \A x \in Worker : x # w => kind'[x] = kind[x]
  BY <1>1 DEF RunnerTypeOK
<1>4. RunnerTypeOK'
  BY <1>1, <1>2, <1>3 DEF RunnerTypeOK, TypeOK, Steps, OfLine
<1>5. \A i \in tracked : i[1] # held[w] /\ i \in Instance
  BY <1>1 DEF Owned, RunnerTypeOK
<1>6. \A i \in tracked : ec2'[i] = ec2[i]
  BY <1>1, <1>5 DEF OfLine
<1>7. Known'
  BY <1>1, <1>5, <1>6 DEF Known, OfLine, At, Stopped
<1>8. Owned(w)'
  BY <1>1, <1>2, <1>3 DEF Owned, Mine, Requested, Busy, Starting
<1> QED
  BY <1>1, <1>2, <1>3, <1>4, <1>7, <1>8, InnerInv

Inner(w) ==
  \/ SpotRefused(w) \/ SpotRequested(w) \/ SpotFulfilled(w) \/ SpotNotDescribed(w)
  \/ SpotTimesOut(w) \/ Cancel(w) \/ OnDemandStarts(w)
  \/ GivesUp(w) \/ Downloads(w) \/ Extracts(w) \/ ExtractFails(w) \/ Terminates(w)

Returns(w) ==
  OnDemandRefused(w) \/ TerminateFails(w) \/ TerminationSeen(w) \/ TerminationTimesOut(w)

LEMMA InnerStepInv ==
  ASSUME RInv, NEW w \in Worker, Inner(w)
  PROVE  RInv'
<1>0. /\ main = "workers" /\ pc[w] = "process" /\ At(w, step[w])
      /\ RunnerTypeOK /\ Known /\ Owned(w)
      /\ Requested(w, "spot") \in OfLine(w) /\ Requested(w, "onDemand") \in OfLine(w) /\ Mine(w) \in OfLine(w)
  <2>1. main = "workers" /\ pc[w] = "process"
    BY DEF Inner, SpotRefused, SpotRequested, SpotFulfilled, SpotNotDescribed, SpotTimesOut, Cancel,
           OnDemandStarts, GivesUp, Downloads, Extracts, ExtractFails, Terminates, At
  <2>2. "spot" \in Kind /\ "onDemand" \in Kind
    BY DEF Kind
  <2> QED
    BY <2>1, <2>2, ProcessFacts DEF At
<1>1. /\ ec2 \in [Instance -> Ec2State]
      /\ results \in [Type -> {"absent", "partial", "complete"}]
      /\ \A i \in tracked : i \in Instance /\ ec2[i] \in {"running", "shutting-down", "terminated"}
  BY <1>0 DEF RunnerTypeOK, Known
<1>2. step[w] \in Starting => \A i \in tracked : i \notin OfLine(w)
  BY <1>0 DEF Owned, OfLine
<1> USE DEF aws
\* Only the program's own state changes.
<1>3. ASSUME NEW l \in Steps, Goto(w, l), step[w] \in Starting <=> l \in Starting,
             UNCHANGED <<vars, main, runNo, kind, sg, tracked, ec2>>,
             results' \in [Type -> {"absent", "partial", "complete"}]
      PROVE  RInv'
  BY <1>0, <1>1, <1>3, SameInstancesInv
<1>4. CASE SpotRefused(w) \/ SpotNotDescribed(w) \/ SpotTimesOut(w)
  BY <1>1, <1>3, <1>4 DEF SpotRefused, SpotNotDescribed, SpotTimesOut, At, Steps, Starting
<1>5. CASE GivesUp(w) \/ Downloads(w) \/ Extracts(w) \/ ExtractFails(w)
  BY <1>1, <1>3, <1>5 DEF GivesUp, Downloads, Extracts, ExtractFails, At, Steps, Starting
<1>6. CASE SpotRequested(w)
  <2> USE <1>6 DEF SpotRequested, Becomes
  <2>1. step[w] \in Starting /\ "fulfil" \in Starting /\ "fulfil" \in Steps
    BY DEF At, Starting, Steps
  <2>2. /\ ec2' \in [Instance -> Ec2State]
        /\ \A i \in Instance : i \notin OfLine(w) => ec2'[i] = ec2[i]
    BY <1>0, <1>1 DEF Ec2State
  <2>3. \A i \in tracked : ec2'[i] = ec2[i]
    BY <1>1, <1>2, <2>1, <2>2
  <2> QED
    BY <1>0, <1>1, <2>1, <2>2, <2>3, SameInstancesInv
<1>7. CASE Cancel(w)
  <2> USE <1>7 DEF Cancel, Becomes
  <2>1. step[w] \in Starting /\ "onDemand" \in Starting /\ "onDemand" \in Steps
    BY DEF At, Starting, Steps
  <2>2. /\ ec2' \in [Instance -> Ec2State]
        /\ \A i \in Instance : i \notin OfLine(w) => ec2'[i] = ec2[i]
    BY <1>0, <1>1 DEF Ec2State
  <2>3. \A i \in tracked : ec2'[i] = ec2[i]
    BY <1>1, <1>2, <2>1, <2>2
  <2> QED
    BY <1>0, <1>1, <2>1, <2>2, <2>3, SameInstancesInv
<1>8. CASE Terminates(w)
  <2> DEFINE m == Mine(w)
  <2>1. /\ step[w] \notin Starting /\ "terminated" \notin Starting /\ "terminated" \in Steps
        /\ Goto(w, "terminated") /\ UNCHANGED <<vars, main, runNo, kind, sg, tracked, results>>
        /\ ec2' = ec2 \/ ec2' = [ec2 EXCEPT ![m] = "shutting-down"]
    BY <1>8 DEF Terminates, Becomes, At, Starting, Steps
  <2>2. m \in Instance /\ m \in OfLine(w)
    BY <1>0 DEF OfLine
  <2> HIDE DEF m
  <2>3. /\ ec2' \in [Instance -> Ec2State]
        /\ \A i \in Instance : ec2'[i] = ec2[i] \/ (i = m /\ ec2'[i] = "shutting-down")
    BY <1>1, <2>1, <2>2 DEF Ec2State
  <2>4. \A i \in Instance : i \notin OfLine(w) => ec2'[i] = ec2[i]
    BY <2>2, <2>3
  <2>5. \A i \in tracked : ec2'[i] \in {"running", "shutting-down", "terminated"}
    BY <1>1, <2>3
  <2> QED
    BY <1>0, <1>1, <2>1, <2>3, <2>4, <2>5, SameInstancesInv
<1>9. CASE SpotFulfilled(w)
  <2> USE <1>9 DEF SpotFulfilled
  <2>1. step[w] \in Starting /\ "spot" \in Kind
    BY DEF At, Starting, Kind
  <2> QED
    BY <1>0, <1>1, <2>1, FoundInstanceInv
<1>10. CASE OnDemandStarts(w)
  <2> USE <1>10 DEF OnDemandStarts, Becomes
  <2>1. step[w] \in Starting /\ "onDemand" \in Kind
    BY DEF At, Starting, Kind
  <2>2. /\ ec2' \in [Instance -> Ec2State] /\ ec2'[Requested(w, "onDemand")] = "running"
        /\ \A i \in Instance : i # Requested(w, "onDemand") => ec2'[i] = ec2[i]
    BY <1>0, <1>1 DEF Ec2State, OfLine
  <2> QED
    BY <1>0, <1>1, <2>1, <2>2, FoundInstanceInv
<1> QED
  BY <1>4, <1>5, <1>6, <1>7, <1>8, <1>9, <1>10 DEF Inner

\* processInstance returns true only when it knows no instance that may run.
LEMMA ReturnFacts ==
  ASSUME RInv, NEW w \in Worker, Returns(w)
  PROVE  /\ main = "workers" /\ pc[w] = "process" /\ UNCHANGED aws
         /\ \/ /\ Return(w, TRUE)
               /\ \A i \in tracked : i[1] = held[w] => ec2[i] = "terminated"
            \/ Return(w, FALSE) /\ Mine(w) \in tracked
<1>1. main = "workers" /\ pc[w] = "process" /\ UNCHANGED aws
  BY DEF Returns, OnDemandRefused, TerminateFails, TerminationSeen, TerminationTimesOut, At
<1>2. Known /\ Owned(w) /\ Mine(w) \in OfLine(w)
  BY <1>1, ProcessFacts
<1>3. CASE OnDemandRefused(w)
  <2>1. Return(w, TRUE) /\ step[w] \in Starting
    BY <1>3 DEF OnDemandRefused, At, Starting
  <2> QED
    BY <1>1, <1>2, <2>1 DEF Owned
<1>4. CASE TerminateFails(w) \/ TerminationTimesOut(w)
  <2>1. Return(w, FALSE) /\ step[w] \notin Starting
    BY <1>4 DEF TerminateFails, TerminationTimesOut, At, Starting
  <2> QED
    BY <1>1, <1>2, <2>1 DEF Owned
<1>5. CASE TerminationSeen(w)
  <2>1. Return(w, TRUE) /\ step[w] \notin Starting /\ ec2[Mine(w)] = "terminated"
    BY <1>5 DEF TerminationSeen, At, Starting
  <2>2. \A i \in tracked : i[1] = held[w] => i = Mine(w)
    BY <1>1, <1>2, <2>1 DEF Owned, Known, OfLine
  <2> QED
    BY <1>1, <2>1, <2>2
<1> QED
  BY <1>3, <1>4, <1>5 DEF Returns

\* What a failed termination withholds is at least what is no longer held.
LEMMA WithheldReleased ==
  ASSUME RInv, main = "workers", NEW w \in Worker, pc[w] = "process", Mine(w) \in tracked,
         ProcessFalse(w), UNCHANGED <<tracked, ec2>>
  PROVE  ReleasedOnlyWhenTerminated'
<1>0. /\ RunnerTypeOK /\ Known /\ held[w] \in Line /\ Mine(w) \in OfLine(w) /\ Mine(w) \in Instance
  BY ProcessFacts DEF OfLine
<1>1. PICK f \in Families(held[w]) : lost' = [lost EXCEPT ![f] = @ + Need(held[w])]
  BY DEF ProcessFalse
<1>2. f \in Pattern /\ Need(held[w]) \in Nat
  BY <1>0, <1>1, LineFacts
<1>3. \A x \in Worker : x # w => Busy(x)' = Busy(x) /\ held'[x] = held[x]
  BY <1>0 DEF RunnerTypeOK, TypeOK, ProcessFalse, Busy
<1>4. lost \in [Pattern -> Nat] /\ lost' \in [Pattern -> Nat]
  BY <1>0, <1>1, <1>2 DEF RunnerTypeOK, TypeOK
<1>5. ASSUME NEW F \in Closed, NEW i \in Unheld(F)', i \notin Unheld(F) PROVE i = Mine(w) /\ f \in F
  <2>1. i \in tracked /\ Live(i) /\ Families(i[1]) \cap F # {} /\ \A x \in Worker : Busy(x)' => held'[x] # i[1]
    BY DEF Unheld, Live
  <2>2. \E x \in Worker : Busy(x) /\ held[x] = i[1]
    BY <1>5, <2>1 DEF Unheld
  <2>3. i[1] = held[w]
    BY <1>3, <2>1, <2>2
  <2>4. i = Mine(w)
    BY <1>0, <2>1, <2>3 DEF Known, OfLine
  <2>5. f \in F
    BY <1>0, <1>1, <2>1, <2>3, ClosedFacts
  <2> QED
    BY <2>4, <2>5
<1> SUFFICES ASSUME NEW F \in Closed PROVE SetSum(Needs, Unheld(F)') <= SetSum(lost', F)
  BY DEF ReleasedOnlyWhenTerminated
<1> DEFINE a == Unheld(F)
           b == Unheld(F)'
           m == Mine(w)
           n == Need(held[w])
           before == SetSum(lost, F)
           after == SetSum(lost', F)
<1>6. a \in SUBSET Instance /\ m \in Instance /\ Need(m[1]) = n /\ n \in Nat
  BY <1>0, <1>2 DEF Unheld, RunnerTypeOK, OfLine
<1>7. SetSum(Needs, a) <= before
  BY DEF RInv, ReleasedOnlyWhenTerminated
<1>8. b \in SUBSET (a \cup {m}) /\ (f \notin F => b \in SUBSET a)
  BY <1>5
<1>9. /\ before \in Nat /\ after \in Nat
      /\ after = before + (IF f \in F THEN n ELSE 0)
  <2>1. F \in SUBSET Pattern /\ n \in Int
    BY <1>2, ClosedFacts
  <2>2. lost'[f] = lost[f] + n /\ \A g \in Pattern : g # f => lost'[g] = lost[g]
    BY <1>1, <1>2, <1>4
  <2> HIDE DEF n
  <2> QED
    BY <1>2, <1>4, <2>1, <2>2, PatternUpdate
<1> HIDE DEF a, b, m, n, before, after
<1>10. b \in SUBSET Instance
  BY <1>6, <1>8
<1>11. /\ SetSum(Needs, a) \in Nat /\ SetSum(Needs, b) \in Nat
       /\ SetSum(Needs, b) <= SetSum(Needs, a) + n
       /\ f \notin F => SetSum(Needs, b) <= SetSum(Needs, a)
  BY <1>6, <1>8, <1>10, NeedsFacts
<1>12. SetSum(Needs, b) <= after
  BY <1>6, <1>7, <1>9, <1>11
<1> QED
  BY <1>12 DEF b, after

LEMMA ReturnInv ==
  ASSUME RInv, NEW w \in Worker, Returns(w)
  PROVE  RInv'
<1>0. /\ main = "workers" /\ pc[w] = "process" /\ UNCHANGED <<ec2, sg, tracked, results, main, runNo>>
      /\ RunnerTypeOK /\ Known /\ IInv /\ Busy(w)
  BY ReturnFacts, ProcessFacts DEF Return, aws
<1>1. PICK ok \in BOOLEAN : /\ Return(w, ok)
                            /\ ok => \A i \in tracked : i[1] = held[w] => ec2[i] = "terminated"
                            /\ ~ok => Mine(w) \in tracked
  BY ReturnFacts
<1>2. ProcessTrue(w) \/ ProcessFalse(w)
  BY <1>1 DEF Return
<1>3. IInv'
  BY <1>0, <1>2, IInvStep DEF Next, run
<1>4. /\ step' = [step EXCEPT ![w] = "request"]
      /\ kind' = [kind EXCEPT ![w] = "spot"]
  BY <1>1 DEF Return, Goto, Chooses
<1>5. RunnerTypeOK'
  BY <1>0, <1>3, <1>4 DEF RunnerTypeOK, IInv, Kind
<1>6. Outside' /\ Created' /\ Started'
  BY <1>0 DEF RInv, Outside, Created, Started
<1>7. Known'
  BY <1>0, <1>2 DEF Known, ProcessTrue, ProcessFalse
<1>8. ASSUME NEW x \in Worker, x # w PROVE Owned(x)'
  <2>1. Owned(x) /\ pc'[x] = pc[x] /\ held'[x] = held[x] /\ step'[x] = step[x] /\ kind'[x] = kind[x]
    BY <1>0, <1>2, <1>4, <1>8 DEF RInv, RunnerTypeOK, TypeOK, ProcessTrue, ProcessFalse
  <2> QED
    BY <1>0, <2>1 DEF Owned, Mine, Requested, Busy
<1>9. step'[w] = "request"
  BY <1>0, <1>4 DEF RunnerTypeOK
<1>10. CASE ok
  <2>1. ProcessTrue(w)
    BY <1>1, <1>10 DEF Return
  <2>2. pc'[w] = "release" /\ held' = held /\ lost' = lost /\ \A x \in Worker : Busy(x)' = Busy(x)
    BY <1>0, <2>1 DEF RunnerTypeOK, TypeOK, ProcessTrue, Busy
  <2>3. Owned(w)'
    BY <1>0, <1>1, <1>9, <1>10, <2>2 DEF Owned, Busy
  <2>4. \A F \in Closed : Unheld(F)' \subseteq Unheld(F)
    BY <1>0, <2>2 DEF Unheld, Live
  <2>5. ReleasedOnlyWhenTerminated'
    BY <1>0, <2>2, <2>4, FewerUnheld DEF RInv, RunnerTypeOK, TypeOK
  <2> QED
    BY <1>3, <1>5, <1>6, <1>7, <1>8, <2>3, <2>5 DEF RInv
<1>11. CASE ~ok
  <2>1. ProcessFalse(w) /\ Mine(w) \in tracked
    BY <1>1, <1>11 DEF Return
  <2>2. pc'[w] = "getInstance" /\ held'[w] = None
    BY <1>0, <2>1 DEF RunnerTypeOK, TypeOK, ProcessFalse
  <2>3. Owned(w)'
    BY <1>9, <2>2 DEF Owned, Busy
  <2>4. ReleasedOnlyWhenTerminated'
    BY <1>0, <2>1, WithheldReleased
  <2> QED
    BY <1>3, <1>5, <1>6, <1>7, <1>8, <2>3, <2>4 DEF RInv
<1> QED
  BY <1>10, <1>11

-----------------------------------------------------------------------------
(* getInstance and releaseInstance.                                        *)

\* What a step of the monitor means for a goroutine: nothing for what it
\* processes, or it is given a line of the queue, or has released its quota.
Keeps(x) == held'[x] = held[x] /\ (pc'[x] = pc[x] \/ (~Busy(x) /\ ~Busy(x)'))
Takes(x) == ~Busy(x) /\ pc'[x] = "process" /\ held'[x] \in Range(queue)
Gives(x) == pc[x] = "release" /\ ~Busy(x)' /\ held'[x] = None

LEMMA MonitorFacts ==
  ASSUME IInv, NEW w \in Worker, MonitorStep(w)
  PROVE  /\ Range(queue') \subseteq Range(queue) /\ lost' = lost
         /\ \A x \in Worker : \/ Keeps(x)
                              \/ Takes(x) /\ held'[x] \notin Range(queue')
                              \/ Gives(x)
<1>1. TypeOK /\ NothingTwice /\ IsInjective(queue)
  BY DEF IInv, NothingTwice
<1>2. CASE ReturnNil(w) \/ StartScan(w) \/ Skip(w) \/ Wait(w)
  <2>1. queue' = queue /\ lost' = lost
    BY <1>2 DEF ReturnNil, StartScan, Skip, Wait
  <2>2. ASSUME NEW x \in Worker PROVE Keeps(x)
    BY <1>1, <1>2 DEF ReturnNil, StartScan, Skip, Wait, TypeOK, Keeps, Busy, Scanning
  <2> QED
    BY <2>1, <2>2
<1>3. CASE DropUnknown(w) \/ DropUnresolved(w)
  <2>1. Scanning(w) /\ queue' = Dequeued(w) /\ lost' = lost /\ pc' = pc /\ held' = held
    BY <1>3 DEF DropUnknown, DropUnresolved
  <2> QED
    BY <1>1, <2>1, DequeuedFacts DEF Keeps
<1>4. CASE Take(w)
  <2>1. /\ Scanning(w) /\ queue' = Dequeued(w) /\ lost' = lost
        /\ held' = [held EXCEPT ![w] = Candidate(w)] /\ pc' = [pc EXCEPT ![w] = "process"]
    BY <1>4 DEF Take
  <2>2. /\ Range(queue') \subseteq Range(queue)
        /\ Candidate(w) \in Range(queue) /\ Candidate(w) \notin Range(queue')
    BY <1>1, <2>1, DequeuedFacts
  <2>3. Takes(w) /\ held'[w] \notin Range(queue')
    BY <1>1, <2>1, <2>2 DEF Takes, Busy, Scanning, TypeOK
  <2>4. \A x \in Worker : x # w => Keeps(x)
    BY <1>1, <2>1 DEF Keeps, TypeOK
  <2> QED
    BY <2>1, <2>2, <2>3, <2>4
<1>5. CASE releaseInstance(w)
  <2>1. ReleaseCannotFail /\ Busy(w)
    BY <1>5 DEF releaseInstance, Busy, IInv
  <2>2. PICK awake : /\ pc' = [x \in Worker |-> IF x \in awake \cup {w} THEN "getInstance" ELSE pc[x]]
                     /\ awake \subseteq Waiting
    <3>1. CASE \E woken \in Woken :
                 pc' = [x \in Worker |-> IF x \in woken \cup {w} THEN "getInstance" ELSE pc[x]]
      BY <3>1, WokenFacts
    <3>2. CASE pc' = [pc EXCEPT ![w] = "getInstance"]
      <4> DEFINE nobody == {}
      <4>1. nobody \subseteq Waiting /\ \A x : x \in nobody \cup {w} <=> x = w
        OBVIOUS
      <4> HIDE DEF nobody
      <4>2. pc' = [x \in Worker |-> IF x \in nobody \cup {w} THEN "getInstance" ELSE pc[x]]
        BY <1>1, <3>2, <4>1 DEF TypeOK
      <4> QED
        BY <4>1, <4>2
    <3> QED
      BY <1>5, <3>1, <3>2 DEF releaseInstance
  <2>3. \A x \in awake : x \in Worker /\ pc[x] = "wait"
    BY <2>2 DEF Waiting
  <2>4. pc[w] = "release" /\ held' = [held EXCEPT ![w] = None] /\ queue' = queue /\ lost' = lost
    BY <1>5, <2>1 DEF releaseInstance, ReleaseCannotFail, Lookups
  <2>5. Gives(w)
    BY <1>1, <2>2, <2>4 DEF Gives, Busy, TypeOK
  <2>6. \A x \in Worker : x # w => Keeps(x)
    BY <1>1, <2>2, <2>3, <2>4 DEF Keeps, Busy, TypeOK
  <2> QED
    BY <2>4, <2>5, <2>6
<1> QED
  BY <1>2, <1>3, <1>4, <1>5 DEF MonitorStep

LEMMA MonitorInv ==
  ASSUME RInv, NEW w \in Worker, Monitor(w)
  PROVE  RInv'
<1> USE DEF rvars
<1>0. /\ main = "workers" /\ MonitorStep(w) /\ IInv /\ RunnerTypeOK /\ Known
      /\ UNCHANGED <<main, runNo, step, kind, ec2, tracked, results, sg>>
  BY DEF Monitor, RInv
<1>1. IInv'
  BY <1>0, IInvStep DEF Next, run
<1>2. RunnerTypeOK'
  BY <1>0, <1>1 DEF RunnerTypeOK, IInv
<1>3. Outside' /\ Created' /\ Started'
  BY <1>0 DEF RInv, Outside, Created, Started
<1>4. Range(queue') \subseteq Range(queue) /\ lost' = lost
  BY <1>0, MonitorFacts
<1>5. Known'
  BY <1>0, <1>4 DEF Known
<1>6. ASSUME NEW x \in Worker PROVE Owned(x)'
  <2>1. Owned(x)
    BY DEF RInv
  <2>2. Keeps(x) \/ Takes(x) \/ Gives(x)
    BY <1>0, MonitorFacts
  <2>3. CASE Keeps(x)
    BY <1>0, <2>1, <2>3 DEF Keeps, Owned, Busy, Mine, Requested
  <2>4. CASE Takes(x)
    <3>1. step[x] = "request" /\ pc'[x] = "process" /\ \A i \in tracked : i[1] # held'[x]
      BY <1>0, <2>1, <2>4 DEF Takes, Owned, Busy, Known
    <3> QED
      BY <1>0, <3>1 DEF Owned, Busy, Starting
  <2>5. CASE Gives(x)
    BY <1>0, <2>1, <2>5 DEF Gives, Owned, Busy
  <2> QED
    BY <2>2, <2>3, <2>4, <2>5
<1>7. ReleasedOnlyWhenTerminated'
  <2>1. ASSUME NEW F \in Closed, NEW i \in Unheld(F)' PROVE i \in Unheld(F)
    <3>1. i \in tracked /\ Live(i) /\ Families(i[1]) \cap F # {} /\ \A x \in Worker : Busy(x)' => held'[x] # i[1]
      BY <1>0 DEF Unheld, Live
    <3>2. ASSUME NEW x \in Worker, Busy(x), held[x] = i[1] PROVE FALSE
      <4>1. Keeps(x) \/ Gives(x)
        BY <1>0, <3>2, MonitorFacts DEF Takes
      <4>2. Busy(x)' \/ Gives(x)
        BY <3>2, <4>1 DEF Keeps, Busy
      <4>3. Gives(x)
        BY <3>1, <3>2, <4>1, <4>2 DEF Keeps, Gives
      <4> QED
        BY <3>1, <3>2, <4>3 DEF Gives, RInv, Owned, Live
    <3> QED
      BY <3>1, <3>2 DEF Unheld
  <2>2. \A F \in Closed : Unheld(F)' \subseteq Unheld(F)
    BY <2>1
  <2> QED
    BY <1>0, <1>4, <2>2, FewerUnheld DEF RInv, RunnerTypeOK, TypeOK
<1> QED
  BY <1>1, <1>2, <1>3, <1>5, <1>6, <1>7 DEF RInv

-----------------------------------------------------------------------------
(* Theorems.                                                               *)

LEMMA RInvStep == RInv /\ [RunnerNext]_allVars => RInv'
<1> SUFFICES ASSUME RInv, [RunnerNext]_allVars PROVE RInv'
  OBVIOUS
<1>1. CASE Main
  BY <1>1, StartInv, CreateInv, WaitGroupDoneInv, MainInv DEF Main
<1>2. CASE Crash
  BY <1>2, MainInv
<1>3. CASE EC2
  BY <1>3, EC2Inv
<1>4. ASSUME NEW w \in Worker, Goroutine(w) PROVE RInv'
  <2>1. processInstance(w) => Inner(w) \/ Returns(w)
    BY DEF processInstance, Inner, Returns
  <2> QED
    BY <1>4, <2>1, InnerStepInv, ReturnInv, MonitorInv DEF Goroutine
<1>5. CASE UNCHANGED allVars
  <2> USE <1>5 DEF allVars, vars, rvars
  <2>1. main' = "workers" => IInv'
    BY UnseenKeepsIInv
  <2>2. RunnerTypeOK' /\ Outside' /\ Created' /\ Started' /\ Known'
    BY DEF RInv, RunnerTypeOK, TypeOK, Outside, Created, Started, Known
  <2>3. \A w \in Worker : Owned(w)'
    BY DEF RInv, Owned, Busy, Mine, Requested
  <2>4. \A F \in Closed : Unheld(F)' \subseteq Unheld(F)
    BY DEF Unheld, Live, Busy
  <2>5. ReleasedOnlyWhenTerminated'
    BY <2>4, FewerUnheld DEF RInv, RunnerTypeOK, TypeOK
  <2> QED
    BY <2>1, <2>2, <2>3, <2>5 DEF RInv
<1> QED
  BY <1>1, <1>2, <1>3, <1>4, <1>5 DEF RunnerNext

\* The inductive invariant: while there are goroutines the monitor's own
\* invariant holds, and a goroutine knows the only instance of its line.
THEOREM RunnerInvariance == RunnerSpec => []RInv
BY InitRInv, RInvStep, PTL DEF RunnerSpec

\* The program's state is well formed through failures, crashes and restarts;
\* no quota it starts with, or ever has, is below zero.
THEOREM RunnerTypeCorrect == RunnerSpec => []RunnerTypeOK
<1>1. RInv => RunnerTypeOK
  BY DEF RInv
<1> QED
  BY <1>1, RunnerInvariance, PTL

\* The vCPUs of a tracked instance that may still run are not back in the quota:
\* processInstance returns true only when the instances it has recorded are
\* terminated. A spot instance whose wait was given up is not recorded.
THEOREM ReleasedOnlyWhenTerminatedHolds == RunnerSpec => []ReleasedOnlyWhenTerminated
<1>1. RInv => ReleasedOnlyWhenTerminated
  BY DEF RInv
<1> QED
  BY <1>1, RunnerInvariance, PTL

\* While the goroutines run, the monitor's properties hold of the program.
THEOREM RunnerKeepsMonitor ==
  RunnerSpec => [](main = "workers" => NothingTwice /\ ReleaseCannotFail /\ NoLostWakeup)
<1>1. RInv => (main = "workers" => NothingTwice /\ ReleaseCannotFail /\ NoLostWakeup)
  BY DEF RInv, IInv
<1> QED
  BY <1>1, RunnerInvariance, PTL

\* The goroutines implement QuotaManager: main leaves them a monitor as it
\* starts there, and all they do to it is what run does.
THEOREM RunnerImplementsMonitor == RunnerSpec => ImplementsMonitor
<1> DEFINE A == main' = "workers" =>
                  IF main = "workers" THEN (\E w \in Worker : run(w)) \/ UNCHANGED vars ELSE Begun'
<1>1. RInv /\ [RunnerNext]_allVars => [A]_allVars
  <2> SUFFICES ASSUME RInv, RunnerNext, main' = "workers"
               PROVE  IF main = "workers" THEN (\E w \in Worker : run(w)) \/ UNCHANGED vars ELSE Begun'
    OBVIOUS
  <2>1. CASE Main
    BY <2>1, BegunInv DEF Main, Start, createSecurityGroup, WaitGroupDone, deleteSecurityGroupSafely
  <2>2. CASE Crash
    BY <2>2 DEF Crash
  <2>3. CASE EC2
    <3>1. UNCHANGED vars /\ main' = main
      BY <2>3 DEF EC2, Fulfil, Expire, Interrupt, ShutDown, Moves
    <3> QED
      BY <3>1
  <2>4. ASSUME NEW w \in Worker, Goroutine(w) PROVE main = "workers" /\ (run(w) \/ UNCHANGED vars)
    <3>1. CASE Monitor(w)
      BY <3>1 DEF Monitor, run
    <3>2. CASE Returns(w)
      BY <3>2, ReturnFacts DEF Return, run
    <3>3. CASE Inner(w)
      BY <3>3 DEF Inner, SpotRefused, SpotRequested, SpotFulfilled, SpotNotDescribed, SpotTimesOut,
         Cancel, OnDemandStarts, GivesUp, Downloads, Extracts, ExtractFails, Terminates, At
    <3> QED
      BY <2>4, <3>1, <3>2, <3>3 DEF Goroutine, processInstance, Inner, Returns
  <2> QED
    BY <2>1, <2>2, <2>3, <2>4 DEF RunnerNext
<1> QED
  BY <1>1, RunnerInvariance, PTL DEF RunnerSpec, ImplementsMonitor

-----------------------------------------------------------------------------
(* Results.                                                                *)

LEMMA DistinctFacts ==
  ASSUME DistinctTypes, NEW u \in Range(InitialQueue), NEW v \in Range(InitialQueue), u # v
  PROVE  TypeOf[u] # TypeOf[v]
BY DEF DistinctTypes, Range

\* What a step of processInstance does to the results: the download makes its
\* type's partial, the extraction complete.
LEMMA ResultFacts ==
  ASSUME RInv, NEW w \in Worker, Inner(w)
  PROVE  /\ main = "workers" /\ main' = main /\ UNCHANGED vars /\ pc[w] = "process"
         /\ ResultOf(w) \in Type
         /\ \A x \in Worker : x # w => step'[x] = step[x]
         /\ \/ /\ results' = results /\ step'[w] # "extract"
               /\ step'[w] \in Starting \cup {"download"} => step[w] \in Starting
            \/ /\ results' = [results EXCEPT ![ResultOf(w)] = "partial"]
               /\ step[w] = "download" /\ step'[w] = "extract"
            \/ /\ results' = [results EXCEPT ![ResultOf(w)] = "complete"]
               /\ step[w] = "extract" /\ step'[w] = "terminate"
<1>1. main = "workers" /\ main' = main /\ UNCHANGED vars /\ pc[w] = "process"
  BY DEF Inner, SpotRefused, SpotRequested, SpotFulfilled, SpotNotDescribed, SpotTimesOut, Cancel,
         OnDemandStarts, GivesUp, Downloads, Extracts, ExtractFails, Terminates, At
<1>2. RunnerTypeOK /\ held[w] \in Line
  BY <1>1, ProcessFacts
<1>3. ResultOf(w) \in Type
  BY <1>2, LineFacts DEF ResultOf
<1>4. ASSUME NEW l, Goto(w, l)
      PROVE  step'[w] = l /\ \A x \in Worker : x # w => step'[x] = step[x]
  BY <1>2, <1>4 DEF Goto, RunnerTypeOK
<1>5. CASE \/ SpotRefused(w) \/ SpotRequested(w) \/ SpotFulfilled(w) \/ SpotNotDescribed(w)
           \/ SpotTimesOut(w) \/ Cancel(w) \/ OnDemandStarts(w)
  <2>1. /\ results' = results /\ step[w] \in Starting
        /\ \E l \in {"fulfil", "cancel", "onDemand", "download"} : Goto(w, l)
    BY <1>5 DEF SpotRefused, SpotRequested, SpotFulfilled, SpotNotDescribed, SpotTimesOut, Cancel,
                OnDemandStarts, At, Starting
  <2> QED
    BY <1>1, <1>3, <1>4, <2>1
<1>6. CASE GivesUp(w) \/ ExtractFails(w) \/ Terminates(w)
  <2>1. results' = results /\ \E l \in {"terminate", "terminated"} : Goto(w, l)
    BY <1>6 DEF GivesUp, ExtractFails, Terminates
  <2> QED
    BY <1>1, <1>3, <1>4, <2>1 DEF Starting
<1>7. CASE Downloads(w)
  BY <1>1, <1>3, <1>4, <1>7 DEF Downloads, At
<1>8. CASE Extracts(w)
  BY <1>1, <1>3, <1>4, <1>8 DEF Extracts, At
<1> QED
  BY <1>5, <1>6, <1>7, <1>8 DEF Inner

LEMMA UnprocessedStep ==
  ASSUME DistinctTypes
  PROVE  RInv /\ Unprocessed /\ [RunnerNext]_allVars => Unprocessed'
<1> SUFFICES ASSUME RInv, Unprocessed, [RunnerNext]_allVars, main' \notin Stopped PROVE Unprocessed'
  BY DEF Unprocessed
<1>1. CASE Start
  <2>1. \A x \in Worker : pc'[x] = "done"
    BY <1>1 DEF Start, RInv, Outside, Stopped
  <2> QED
    BY <1>1, <2>1, FilteredFacts DEF Start, Unprocessed, Processed
<1>2. CASE createSecurityGroup
  BY <1>2 DEF createSecurityGroup, Unprocessed, Processed, Stopped
<1>3. CASE WaitGroupDone \/ EC2 \/ UNCHANGED allVars
  <2>1. UNCHANGED <<vars, step, results>> /\ (main' = main \/ main \notin Stopped)
    BY <1>3 DEF WaitGroupDone, EC2, Fulfil, Expire, Interrupt, ShutDown, Moves, goroutine, allVars, rvars, Stopped
  <2> QED
    BY <2>1 DEF Unprocessed, Processed, ResultOf, vars
<1>4. CASE Crash \/ deleteSecurityGroupSafely
  BY <1>4 DEF Crash, deleteSecurityGroupSafely, Stopped
<1>5. ASSUME NEW w \in Worker, Monitor(w) PROVE Unprocessed'
  <2>1. main = "workers" /\ MonitorStep(w) /\ IInv /\ UNCHANGED <<main, step, results>>
    BY <1>5 DEF Monitor, rvars, RInv
  <2>2. /\ Range(queue') \subseteq Range(queue)
        /\ \A x \in Worker : Keeps(x) \/ Takes(x) \/ Gives(x)
    BY <2>1, MonitorFacts
  <2>3. ASSUME NEW x \in Worker, pc'[x] = "process"
        PROVE  \/ pc[x] = "process" /\ held'[x] = held[x]
               \/ step[x] = "request" /\ held'[x] \in Range(queue)
    BY <2>2, <2>3 DEF Keeps, Takes, Gives, Busy, RInv, Owned
  <2> QED
    BY <2>1, <2>2, <2>3 DEF Unprocessed, Processed, ResultOf
<1>6. ASSUME NEW w \in Worker, Returns(w) PROVE Unprocessed'
  <2>1. /\ main = "workers" /\ RunnerTypeOK /\ UNCHANGED <<main, results, queue>>
        /\ ProcessTrue(w) \/ ProcessFalse(w)
        /\ step' = [step EXCEPT ![w] = "request"]
    BY <1>6, ReturnFacts DEF Return, Goto, ProcessTrue, ProcessFalse, RInv
  <2>2. \A x \in Worker : pc'[x] = "process" =>
          x # w /\ pc[x] = "process" /\ held'[x] = held[x] /\ step'[x] = step[x]
    BY <2>1 DEF RunnerTypeOK, TypeOK, ProcessTrue, ProcessFalse
  <2> QED
    BY <2>1, <2>2 DEF Unprocessed, Processed, ResultOf
<1>7. ASSUME NEW w \in Worker, Inner(w) PROVE Unprocessed'
  <2>1. main = "workers" /\ UNCHANGED vars /\ pc[w] = "process" /\ ResultOf(w) \in Type
    BY <1>7, ResultFacts
  <2>2. held[w] \notin Range(queue) /\ \A x \in Worker : x # w /\ Busy(x) => held[x] # held[w]
    BY <2>1, ProcessFacts
  <2>3. results \in [Type -> {"absent", "partial", "complete"}]
    BY DEF RInv, RunnerTypeOK
  <2>4. \A v \in Range(InitialQueue) : v # held[w] => results'[TypeOf[v]] = results[TypeOf[v]]
    <3> SUFFICES ASSUME NEW v \in Range(InitialQueue), v # held[w]
                 PROVE  results'[TypeOf[v]] = results[TypeOf[v]]
      OBVIOUS
    <3>1. held[w] \in Range(InitialQueue)
      BY <2>1 DEF Unprocessed, Stopped
    <3>2. TypeOf[v] # ResultOf(w)
      BY <3>1, DistinctFacts DEF ResultOf
    <3>3. \/ results' = results
          \/ results' = [results EXCEPT ![ResultOf(w)] = "partial"]
          \/ results' = [results EXCEPT ![ResultOf(w)] = "complete"]
      BY <1>7, ResultFacts
    <3>4. TypeOf[v] \in Type
      BY MonitorAssumption DEF Range
    <3> QED
      BY <2>1, <2>3, <3>2, <3>3, <3>4
  <2>5. \A v \in Range(queue)' : v \in Range(InitialQueue) /\ ~Processed(v)'
    BY <2>1, <2>2, <2>4 DEF Unprocessed, Processed, Stopped, vars
  <2>6. ASSUME NEW x \in Worker, pc'[x] = "process"
        PROVE  /\ held'[x] \in Range(InitialQueue)
               /\ step'[x] \in Starting \cup {"download"} => ~Processed(held[x])'
               /\ step'[x] = "extract" => results'[TypeOf[held[x]]] = "partial"
    <3>1. /\ pc[x] = "process" /\ held'[x] = held[x] /\ held[x] \in Range(InitialQueue) /\ Busy(x)
          /\ step[x] \in Starting \cup {"download"} => results[TypeOf[held[x]]] = "absent"
          /\ step[x] = "extract" => results[TypeOf[held[x]]] = "partial"
      BY <2>1, <2>6 DEF Unprocessed, Processed, ResultOf, Busy, Stopped, vars
    <3>2. CASE x # w
      <4>1. step'[x] = step[x] /\ results'[TypeOf[held[x]]] = results[TypeOf[held[x]]]
        BY <1>7, <2>2, <2>4, <3>1, <3>2, ResultFacts
      <4> QED
        BY <3>1, <4>1 DEF Processed
    <3>3. CASE x = w
      <4>1. \/ /\ results' = results /\ step'[w] # "extract"
               /\ step'[w] \in Starting \cup {"download"} => step[w] \in Starting
            \/ results'[TypeOf[held[w]]] = "partial" /\ step'[w] = "extract"
            \/ step'[w] = "terminate"
        BY <1>7, <2>1, <2>3, ResultFacts DEF ResultOf
      <4> QED
        BY <2>1, <3>1, <3>3, <4>1 DEF Processed, Starting, vars
    <3> QED
      BY <3>2, <3>3
  <2> QED
    BY <2>1, <2>5, <2>6 DEF Unprocessed, ResultOf, Range, vars
<1>8. ASSUME NEW w \in Worker, processInstance(w) PROVE Unprocessed'
  BY <1>6, <1>7, <1>8 DEF processInstance, Inner, Returns
<1> QED
  BY <1>1, <1>2, <1>3, <1>4, <1>5, <1>8 DEF RunnerNext, Main, Goroutine

LEMMA InitUnprocessed == RunnerInit => Unprocessed
BY DEF RunnerInit, Unprocessed, Stopped

\* When instance.txt names no type twice, as README.md:44 describes it, complete
\* results are never written again, through failures, crashes and restarts.
THEOREM ResultsKeptHolds ==
  ASSUME DistinctTypes
  PROVE  RunnerSpec => ResultsKept
<1> DEFINE A == \A t \in Type : results[t] = "complete" => results'[t] = "complete"
<1>1. RunnerSpec => [](RInv /\ Unprocessed)
  <2>1. RInv /\ Unprocessed /\ [RunnerNext]_allVars => Unprocessed'
    BY UnprocessedStep
  <2> QED
    BY <2>1, InitRInv, InitUnprocessed, RInvStep, PTL DEF RunnerSpec
<1>2. RInv /\ Unprocessed /\ [RunnerNext]_allVars => [A]_allVars
  <2> SUFFICES ASSUME RInv, Unprocessed, RunnerNext, NEW t \in Type, results[t] = "complete"
               PROVE  results'[t] = "complete"
    OBVIOUS
  <2>1. results \in [Type -> {"absent", "partial", "complete"}]
    BY DEF RInv, RunnerTypeOK
  <2>2. ASSUME NEW w \in Worker, Inner(w) PROVE results'[t] = "complete"
    <3>1. main = "workers" /\ pc[w] = "process" /\ ResultOf(w) \in Type
      BY <2>2, ResultFacts
    <3>2. step[w] = "download" => results[ResultOf(w)] = "absent"
      BY <3>1 DEF Unprocessed, Processed, ResultOf, Stopped
    <3> QED
      BY <2>1, <2>2, <3>1, <3>2, ResultFacts
  <2>3. ASSUME NEW w \in Worker, Returns(w) PROVE results' = results
    BY <2>3, ReturnFacts DEF Return
  <2>4. CASE Main \/ Crash \/ EC2 \/ \E w \in Worker : Monitor(w)
    BY <2>4 DEF Main, Start, createSecurityGroup, WaitGroupDone, deleteSecurityGroupSafely, Crash,
       EC2, Fulfil, Expire, Interrupt, ShutDown, Moves, Monitor, rvars
  <2> QED
    BY <2>2, <2>3, <2>4 DEF RunnerNext, Goroutine, processInstance, Inner, Returns
<1> QED
  BY <1>1, <1>2, PTL DEF RunnerSpec, ResultsKept

=============================================================================
