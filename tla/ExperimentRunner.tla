-------------------------- MODULE ExperimentRunner --------------------------
(***************************************************************************)
(* experiment/main.go as a whole: main, its goroutines and the EC2         *)
(* instances they start.  QuotaManager's processInstance is refined into   *)
(* its AWS calls, each of which may fail or time out, and the program may  *)
(* be killed and started again: result/, instances and spot requests       *)
(* survive, everything in memory does not.                                 *)
(***************************************************************************)
EXTENDS QuotaManager, FiniteSets

CONSTANT MaxRuns  \* bound: how often the program is started

ASSUME RunnerAssumption ==
  /\ MaxRuns \in Nat \ {0}
  /\ IsFiniteSet(Line)

Run == 1 .. MaxRuns
Kind == {"spot", "onDemand"}

\* An instance is named by the line it was started for, how it was requested
\* and the run of the program that did it.
Instance == Line \X Kind \X Run

VARIABLES
  main,     \* where main is
  runNo,    \* which run of the program this is; 0 before the first
  step,     \* where processInstance is
  kind,     \* how processInstance got its instanceID
  ec2,      \* external: the state of every instance or spot request
  tracked,  \* experimentManager.allInstanceIDs
  results,  \* result/<script>/<type>: absent, partial or complete
  sg        \* external: the security group of each run

aws == <<ec2, sg>>
goroutine == <<step, kind>>
rvars == <<main, runNo, step, kind, ec2, tracked, results, sg>>
allVars == <<vars, rvars>>

Ec2State == {"none", "open", "running", "shutting-down", "terminated"}
Live(i) == ec2[i] \in {"running", "shutting-down"}
Ends(i) == ec2[i] \in {"none", "terminated"}

\* The instance goroutine w is about to request, or works with.
Requested(w, k) == <<held[w], k, runNo>>
Mine(w) == Requested(w, kind[w])
ResultOf(w) == TypeOf[held[w]]

-----------------------------------------------------------------------------
(* main, up to the start of the goroutines.                                *)

\* The program is not running: main has returned, or something killed it.
Stopped == {"exited", "killed"}

\* Nothing of an earlier run is left in memory.
NotRunning ==
  /\ queue' = << >>
  /\ limit' = Quota
  /\ cache' = {}
  /\ lock' = None
  /\ pc' = [w \in Worker |-> "done"]
  /\ cursor' = [w \in Worker |-> 1]
  /\ held' = [w \in Worker |-> None]
  /\ lost' = [f \in Pattern |-> 0]
  /\ step' = [w \in Worker |-> "request"]
  /\ kind' = [w \in Worker |-> "spot"]
  /\ tracked' = {}

RunnerInit ==
  /\ queue = << >> /\ limit = Quota /\ cache = {} /\ lock = None
  /\ pc = [w \in Worker |-> "done"]
  /\ cursor = [w \in Worker |-> 1]
  /\ held = [w \in Worker |-> None]
  /\ lost = [f \in Pattern |-> 0]
  /\ main = "exited" /\ runNo = 0
  /\ step = [w \in Worker |-> "request"]
  /\ kind = [w \in Worker |-> "spot"]
  /\ ec2 = [i \in Instance |-> "none"]
  /\ tracked = {}
  /\ results = [t \in Type |-> "absent"]
  /\ sg = [r \in Run |-> "none"]

\* main's filter: a line whose result directory exists is already processed.
Processed(v) == results[TypeOf[v]] # "absent"

\* Variant: the queue is not filtered.
Filtered_Not == InitialQueue

Filtered == Selected(InitialQueue, {v \in Line : ~Processed(v)})

\* The spot instances DescribeInstances lists as running or pending.
RunningSpot ==
  {i \in Instance : i[2] = "spot" /\ ec2[i] = "running" /\ Families(i[1]) # {}}

\* The pattern each of them counts for: getInstanceFamily may choose any it matches.
Charged == {p \in [RunningSpot -> Pattern] : \A i \in RunningSpot : p[i] \in Families(i[1])}

Used(p, f) == {i \in RunningSpot : p[i] = f}

\* The vCPUs of an instance are those of its line.
Needs == [i \in Instance |-> Need(i[1])]

\* Variant: the subtraction is not clamped.
Subtracted_Unclamped(p) ==
  [f \in Pattern |-> Quota[f] - SetSum(Needs, Used(p, f))]

\* subtractRunningSpotInstances, clamped at zero.
Subtracted(p) ==
  [f \in Pattern |->
     LET used == SetSum(Needs, Used(p, f))
     IN  IF Quota[f] >= used THEN Quota[f] - used ELSE 0]

\* The lookup fills the cache; when it fails, main only warns and the quotas
\* stay as AWS granted them.
Start ==
  /\ main \in Stopped
  /\ runNo < MaxRuns
  /\ runNo' = runNo + 1
  /\ queue' = Filtered
  /\ \/ /\ \E p \in Charged : limit' = Subtracted(p)
        /\ cache' = {TypeOf[i[1]] : i \in RunningSpot}
     \/ /\ limit' = Quota
        /\ cache' = {}
  /\ main' = IF Filtered = << >> THEN "exited" ELSE "createSecurityGroup"
  /\ lost' = [f \in Pattern |-> 0]
  /\ tracked' = {}
  /\ UNCHANGED <<lock, pc, cursor, held, goroutine, aws, results>>

createSecurityGroup ==
  /\ main = "createSecurityGroup"
  /\ main' = "workers"
  /\ sg' = [sg EXCEPT ![runNo] = "created"]
  /\ pc' = [w \in Worker |-> "getInstance"]
  /\ UNCHANGED <<queue, limit, cache, lock, cursor, held, lost,
                 runNo, goroutine, ec2, tracked, results>>

\* A signal, a panic, or log.Fatalf when the group cannot be created.
Crash ==
  /\ main \notin Stopped
  /\ NotRunning
  /\ main' = "killed"
  /\ UNCHANGED <<runNo, aws, results>>

-----------------------------------------------------------------------------
(* processInstance.                                                        *)

At(w, l) == main = "workers" /\ pc[w] = "process" /\ step[w] = l
Goto(w, l) == step' = [step EXCEPT ![w] = l]
Chooses(w, k) == kind' = [kind EXCEPT ![w] = k]
Becomes(i, s) == ec2' = [ec2 EXCEPT ![i] = s]

\* requestSpotInstance fails: fall back to on-demand.
SpotRefused(w) ==
  /\ At(w, "request")
  /\ Goto(w, "onDemand")
  /\ UNCHANGED <<vars, main, runNo, kind, aws, tracked, results>>

SpotRequested(w) ==
  /\ At(w, "request")
  /\ Goto(w, "fulfil")
  /\ Becomes(Requested(w, "spot"), "open")
  /\ UNCHANGED <<vars, main, runNo, kind, sg, tracked, results>>

\* The waiter sees the request fulfilled, and DescribeSpotInstanceRequests
\* gives its instance, which AddInstanceID records.
SpotFulfilled(w) ==
  /\ At(w, "fulfil")
  /\ ec2[Requested(w, "spot")] \in {"running", "terminated"}
  /\ Chooses(w, "spot")
  /\ tracked' = tracked \cup {Requested(w, "spot")}
  /\ Goto(w, "download")
  /\ UNCHANGED <<vars, main, runNo, aws, results>>

\* The describe after a successful wait fails: no cancel, fall back.
SpotNotDescribed(w) ==
  /\ At(w, "fulfil")
  /\ ec2[Requested(w, "spot")] \in {"running", "terminated"}
  /\ Goto(w, "onDemand")
  /\ UNCHANGED <<vars, main, runNo, kind, aws, tracked, results>>

\* INSTANCE_START_TIMEOUT, which a fulfilment may race.
SpotTimesOut(w) ==
  /\ At(w, "fulfil")
  /\ Goto(w, "cancel")
  /\ UNCHANGED <<vars, main, runNo, kind, aws, tracked, results>>

\* CancelSpotInstanceRequests: stops a request that is still open, not the
\* instance it has started; an error is only logged.
Cancel(w) ==
  /\ At(w, "cancel")
  /\ Goto(w, "onDemand")
  /\ \/ ec2' = ec2
     \/ /\ ec2[Requested(w, "spot")] = "open"
        /\ Becomes(Requested(w, "spot"), "none")
  /\ UNCHANGED <<vars, main, runNo, kind, sg, tracked, results>>

OnDemandStarts(w) ==
  /\ At(w, "onDemand")
  /\ Becomes(Requested(w, "onDemand"), "running")
  /\ Chooses(w, "onDemand")
  /\ tracked' = tracked \cup {Requested(w, "onDemand")}
  /\ Goto(w, "download")
  /\ UNCHANGED <<vars, main, runNo, sg, results>>

\* Variant: run goes back to getInstance without releaseInstance.
Return_NoRelease(w, ok) ==
  /\ pc' = [pc EXCEPT ![w] = "getInstance"]
  /\ held' = [held EXCEPT ![w] = None]
  /\ Goto(w, "request")
  /\ Chooses(w, "spot")
  /\ UNCHANGED <<queue, limit, cache, lock, cursor, lost, main, runNo, tracked, results>>

\* processInstance returns: true lets run release the quota.
Return(w, ok) ==
  /\ IF ok THEN ProcessTrue(w) ELSE ProcessFalse(w)
  /\ Goto(w, "request")
  /\ Chooses(w, "spot")
  /\ UNCHANGED <<main, runNo, tracked, results>>

\* "return true // No instance was created."
OnDemandRefused(w) ==
  /\ At(w, "onDemand")
  /\ Return(w, TRUE)
  /\ UNCHANGED aws

(* downloadAndExtractResults, whose result processInstance ignores.        *)

\* Not running in time, no address, gone, or EXPERIMENT_MAX_TIMEOUT; a result
\* that cannot be fetched.
GivesUp(w) ==
  /\ At(w, "download")
  /\ Goto(w, "terminate")
  /\ UNCHANGED <<vars, main, runNo, kind, aws, tracked, results>>

\* The status file says EXPERIMENT_COMPLETED and the archive is fetched:
\* MkdirAll, then extractTarGz file by file.
Downloads(w) ==
  /\ At(w, "download")
  /\ ec2[Mine(w)] = "running"
  /\ results' = [results EXCEPT ![ResultOf(w)] = "partial"]
  /\ Goto(w, "extract")
  /\ UNCHANGED <<vars, main, runNo, kind, aws, tracked>>

Extracts(w) ==
  /\ At(w, "extract")
  /\ results' = [results EXCEPT ![ResultOf(w)] = "complete"]
  /\ Goto(w, "terminate")
  /\ UNCHANGED <<vars, main, runNo, kind, aws, tracked>>

ExtractFails(w) ==
  /\ At(w, "extract")
  /\ Goto(w, "terminate")
  /\ UNCHANGED <<vars, main, runNo, kind, aws, tracked, results>>

Terminates(w) ==
  /\ At(w, "terminate")
  /\ IF Live(Mine(w)) THEN Becomes(Mine(w), "shutting-down") ELSE UNCHANGED ec2
  /\ Goto(w, "terminated")
  /\ UNCHANGED <<vars, main, runNo, kind, sg, tracked, results>>

\* TerminateInstances fails: do not release the quota.
TerminateFails(w) ==
  /\ At(w, "terminate")
  /\ Return(w, FALSE)
  /\ UNCHANGED aws

TerminationSeen(w) ==
  /\ At(w, "terminated")
  /\ ec2[Mine(w)] = "terminated"
  /\ Return(w, TRUE)
  /\ UNCHANGED aws

\* Variant: the waiter's error is ignored.
TerminationTimesOut_Releases(w) ==
  /\ At(w, "terminated")
  /\ Return(w, TRUE)
  /\ UNCHANGED aws

\* The termination waiter times out: do not release the quota.
TerminationTimesOut(w) ==
  /\ At(w, "terminated")
  /\ Return(w, FALSE)
  /\ UNCHANGED aws

processInstance(w) ==
  \/ SpotRefused(w) \/ SpotRequested(w) \/ SpotFulfilled(w) \/ SpotNotDescribed(w)
  \/ SpotTimesOut(w) \/ Cancel(w)
  \/ OnDemandStarts(w) \/ OnDemandRefused(w)
  \/ GivesUp(w) \/ Downloads(w) \/ Extracts(w) \/ ExtractFails(w)
  \/ Terminates(w) \/ TerminateFails(w) \/ TerminationSeen(w) \/ TerminationTimesOut(w)

\* The rest of run: getInstance and releaseInstance.
Monitor(w) == main = "workers" /\ MonitorStep(w) /\ UNCHANGED rvars

-----------------------------------------------------------------------------
(* main, after wg.Wait: deleteSecurityGroupSafely.                         *)

WaitGroupDone ==
  /\ main = "workers"
  /\ AllDone
  /\ main' = "deleteSecurityGroup"
  /\ UNCHANGED <<vars, runNo, goroutine, aws, tracked, results>>

\* An instance of this run, tracked or not, still uses its security group.
GroupInUse == \E i \in Instance : i[3] = runNo /\ Live(i)


\* EC2 refuses to delete a group in use, and main only logs that.
Deleted == IF GroupInUse THEN sg ELSE [sg EXCEPT ![runNo] = "deleted"]

\* waitForInstanceTermination ends when the tracked instances have, or after
\* SECURITY_GROUP_WAIT_TIMEOUT.
deleteSecurityGroupSafely ==
  /\ main = "deleteSecurityGroup"
  /\ sg' = Deleted
  /\ main' = "exited"
  /\ NotRunning
  /\ UNCHANGED <<runNo, ec2, results>>

-----------------------------------------------------------------------------
(* EC2 itself.                                                             *)

Moves(i, from, to) ==
  /\ ec2[i] \in from
  /\ Becomes(i, to)
  /\ UNCHANGED <<vars, main, runNo, goroutine, sg, tracked, results>>

\* A request is fulfilled as long as its security group exists.
Fulfil(i) == sg[i[3]] = "created" /\ Moves(i, {"open"}, "running")

\* ValidUntil passes.
Expire(i) == Moves(i, {"open"}, "none")

\* A spot instance is interrupted: InstanceInterruptionBehaviorTerminate.
Interrupt(i) == i[2] = "spot" /\ Moves(i, {"running"}, "terminated")

ShutDown(i) == Moves(i, {"shutting-down"}, "terminated")

EC2 == \E i \in Instance : Fulfil(i) \/ Expire(i) \/ Interrupt(i) \/ ShutDown(i)

-----------------------------------------------------------------------------
Main == Start \/ createSecurityGroup \/ WaitGroupDone \/ deleteSecurityGroupSafely

Goroutine(w) == processInstance(w) \/ Monitor(w)

RunnerNext == Main \/ Crash \/ EC2 \/ \E w \in Worker : Goroutine(w)

RunnerSpec == RunnerInit /\ [][RunnerNext]_allVars

\* The scheduler runs main and every goroutine; every wait in processInstance
\* has a timeout.  Nothing is assumed of EC2, the user or the API's answers.
FairRunnerSpec ==
  /\ RunnerSpec
  /\ WF_allVars(createSecurityGroup)
  /\ WF_allVars(WaitGroupDone)
  /\ WF_allVars(deleteSecurityGroupSafely)
  /\ \A w \in Worker : WF_allVars(Goroutine(w))

-----------------------------------------------------------------------------
(* Properties.                                                             *)

RunnerTypeOK ==
  /\ TypeOK
  /\ main \in Stopped \cup {"createSecurityGroup", "workers", "deleteSecurityGroup"}
  /\ runNo \in 0 .. MaxRuns
  /\ step \in [Worker -> {"request", "fulfil", "cancel", "onDemand", "download",
                         "extract", "terminate", "terminated"}]
  /\ kind \in [Worker -> Kind]
  /\ ec2 \in [Instance -> Ec2State]
  /\ tracked \subseteq Instance
  /\ results \in [Type -> {"absent", "partial", "complete"}]
  /\ sg \in [Run -> {"none", "created", "deleted"}]

\* The vCPUs of this run's tracked instances that are not terminated are not back
\* in the quota: a goroutine still holds them, or they are withheld.  ("Do NOT
\* release quota.")  A spot instance whose wait was given up is not tracked, and
\* not counted here.
Unheld(F) ==
  {i \in tracked : Live(i) /\ Families(i[1]) \cap F # {}
                  /\ ~\E w \in Worker : Busy(w) /\ held[w] = i[1]}

ReleasedOnlyWhenTerminated ==
  \A F \in Closed : SetSum(Needs, Unheld(F)) <= SetSum(lost, F)

\* Results that were extracted completely are never written again, by this run
\* or a later one: main filters the queue and every line is taken once.
ResultsKept ==
  [][\A t \in Type : results[t] = "complete" => results'[t] = "complete"]_allVars

\* The monitor as main leaves it to the goroutines: what QuotaManager starts
\* with, or less, as lines may be processed and quotas in use.
Begun ==
  /\ IsInjective(queue) /\ Range(queue) \subseteq Range(InitialQueue)
  /\ \A f \in Pattern : limit[f] <= Quota[f] /\ lost[f] = 0
  /\ lock = None
  /\ \A w \in Worker : pc[w] = "getInstance" /\ held[w] = None

\* The goroutines start with the monitor QuotaManager describes, and while they
\* run every step is one of that monitor, or invisible to it.
ImplementsMonitor ==
  [][main' = "workers" =>
       IF main = "workers" THEN (\E w \in Worker : run(w)) \/ UNCHANGED vars
       ELSE Begun']_allVars


-----------------------------------------------------------------------------
(* The inductive invariants behind ExperimentRunner_proofs.tla.            *)

\* Outside wg.Wait there are no goroutines; main has nothing but its queue and
\* its quotas when it creates the security group, and then they are Begun.
Outside ==
  main # "workers" =>
    /\ lock = None
    /\ \A w \in Worker : pc[w] = "done" /\ held[w] = None /\ step[w] = "request"

Created ==
  main = "createSecurityGroup" =>
    /\ IsInjective(queue)
    /\ Range(queue) \subseteq Range(InitialQueue)
    /\ \A f \in Pattern : limit[f] <= Quota[f] /\ lost[f] = 0

Started == main \notin Stopped => runNo \in Run

\* The instances a run knows are its own, at most one for each line that has
\* left the queue, and have been running.
Known ==
  /\ main \in Stopped \cup {"createSecurityGroup"} => tracked = {}
  /\ \A i \in tracked :
       /\ i[3] = runNo
       /\ i[1] \notin Range(queue)
       /\ ec2[i] \in {"running", "shutting-down", "terminated"}
  /\ \A i, j \in tracked : i[1] = j[1] => i = j

\* A goroutine knows the instance of its line from "download" on, and when it
\* releases the quota that instance is terminated.
Starting == {"request", "fulfil", "cancel", "onDemand"}

Owned(w) ==
  /\ ~Busy(w) => held[w] = None
  /\ pc[w] # "process" => step[w] = "request"
  /\ pc[w] = "process" =>
       IF step[w] \in Starting THEN \A i \in tracked : i[1] # held[w]
                               ELSE Mine(w) \in tracked
  /\ pc[w] = "release" =>
       \A i \in tracked : i[1] = held[w] => ec2[i] = "terminated"

RInv ==
  /\ RunnerTypeOK
  /\ main = "workers" => IInv
  /\ Outside
  /\ Created
  /\ Started
  /\ Known
  /\ \A w \in Worker : Owned(w)
  /\ ReleasedOnlyWhenTerminated

\* What ResultsKept needs of instance.txt: it names no type twice.
DistinctTypes ==
  \A k, m \in DOMAIN InitialQueue :
    TypeOf[InitialQueue[k]] = TypeOf[InitialQueue[m]] => k = m

\* The results of a line that waits, or whose instance is not yet done, are not
\* there; those being extracted are partial.
Unprocessed ==
  main \notin Stopped =>
    /\ Range(queue) \subseteq Range(InitialQueue)
    /\ \A v \in Range(queue) : ~Processed(v)
    /\ \A w \in Worker : pc[w] = "process" =>
         /\ held[w] \in Range(InitialQueue)
         /\ step[w] \in Starting \cup {"download"} => ~Processed(held[w])
         /\ step[w] = "extract" => results[ResultOf(w)] = "partial"

=============================================================================
