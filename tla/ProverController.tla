-------------------------- MODULE ProverController --------------------------
(***************************************************************************)
(* The prover controllers (prover/cmd/controller): processes that share a  *)
(* file system with the coordinator, lock request files by renaming them,  *)
(* run a worker process on them and move them on, while SIGTERM, SIGUSR1   *)
(* (spot reclaim) and crashes may arrive at any step.                      *)
(*                                                                         *)
(* A request has one file; its name is the list of suffixes after ".json". *)
(* A proof is modelled by the request it proves.  The grace period is a    *)
(* timer that may fire at any time, which subsumes the wake-up through     *)
(* jobDoneChan: both only cancel the context.                              *)
(***************************************************************************)
EXTENDS Integers, Sequences, FiniteSets

CONSTANTS
    Controller,                    \* LocalIDs
    CanRunFullLarge,               \* the controllers of large machines
    Unstable,                      \* controllers whose container may crash
    Request,
    Kind,                          \* the job definition a request belongs to
    End,                           \* last block of a request
    JobToWatch,                    \* kinds a controller watches
    KeepTracesUntilBlock,
    FailureCodes,                  \* exit codes of a failing worker
    RetryLocallyWithLargeCodes,
    DeferToOtherLargeCodes,
    Signals,                       \* signals the orchestrator sends
    MaxSignals,                    \* bound: signals sent
    MaxCrashes,                    \* bound: crashes
    None

CodeSuccess          == 0
CodeMissingTraceFile == 79
CodeKilledByUs       == 1137

Kinds == {"execution", "invalidity", "compression", "aggregation"}

\* A request under the name it was listed with.
Job == [request : Request, suffixes : Seq({"large", "failure"})]

ASSUME ConfigAssumption ==
    /\ CanRunFullLarge \subseteq Controller
    /\ Unstable \subseteq Controller
    /\ Kind \in [Request -> Kinds]
    /\ End \in [Request -> Nat]
    /\ JobToWatch \in [Controller -> SUBSET Kinds]
    /\ KeepTracesUntilBlock \in Nat
    /\ FailureCodes \subseteq Nat \ {CodeSuccess, CodeKilledByUs}
    /\ RetryLocallyWithLargeCodes \subseteq Nat \ {CodeSuccess}
    /\ DeferToOtherLargeCodes \subseteq Nat \ {CodeSuccess, CodeKilledByUs}
    /\ Signals \subseteq {"SIGTERM", "SIGUSR1"}
    /\ MaxSignals \in Nat
    /\ MaxCrashes \in Nat
    /\ None \notin Request \cup Controller \cup Nat \cup Job

VARIABLES
    \* the shared file system
    file,                          \* where the file of a request is, and its name
    responses,                     \* content of the response file of a request
    traces,                        \* execution requests whose trace file exists
    tmp,                           \* content of tmp-response-file.<LocalID>.json
    \* the controllers
    worker,                        \* the child process: job, start state and exit code
    ctl,                           \* memory of runController
    \* environment
    signals,                       \* signals sent so far (bound)
    crashes                        \* crashes so far (bound)

vars == <<file, responses, traces, tmp, worker, ctl, signals, crashes>>
fsVars == <<file, responses, traces, tmp>>
envVars == <<signals, crashes>>

-----------------------------------------------------------------------------
(* File names                                                              *)

Absent                 == [at |-> "absent"]
Queued(suffixes)       == [at |-> "requests", suffixes |-> suffixes, owner |-> None]
Locked(suffixes, c)    == [at |-> "requests", suffixes |-> suffixes, owner |-> c]
Done(code)             == [at |-> "done", code |-> code]

AreFailures(suffixes) == \A i \in 1..Len(suffixes) : suffixes[i] = "failure"

\* Mutant: the large regexp leaves the failure suffixes out.
MatchesWithoutFailures(c, kind, suffixes) ==
    IF kind = "execution" /\ c \in CanRunFullLarge
    THEN suffixes = <<"large">> ELSE AreFailures(suffixes)

\* InputFileRegexp of the job definitions.
Matches(c, kind, suffixes) ==
    IF kind = "execution" /\ c \in CanRunFullLarge
    THEN suffixes # << >> /\ Head(suffixes) = "large" /\ AreFailures(Tail(suffixes))
    ELSE AreFailures(suffixes)

Priority(kind) ==
    CASE kind \in {"execution", "invalidity"} -> 0
      [] kind = "compression" -> 1
      [] kind = "aggregation" -> 2

\* Job.Score
Score(request) == 100 * End[request] + Priority(Kind[request])

\* How often a name has the suffix "large".
Larges(suffixes) == Cardinality({i \in 1..Len(suffixes) : suffixes[i] = "large"})

\* FailureSuffix.Replace: what is left are the "large" suffixes.
WithoutFailures(suffixes) == [i \in 1..Larges(suffixes) |-> "large"]

\* Job.DeferToLargeFile
DeferToLargeFile(suffixes) == WithoutFailures(suffixes) \o <<"large", "failure">>

InProgress(c, job) == Locked(job.suffixes, c)

\* Mutant: the file is written again instead of renamed.
RewriteInProgress(c, job, to) == file' = [file EXCEPT ![job.request] = to]

\* os.Rename from the in-progress path: fails, and is only logged, when it is gone.
RenameInProgress(c, job, to) ==
    file' = IF file[job.request] = InProgress(c, job)
            THEN [file EXCEPT ![job.request] = to] ELSE file

-----------------------------------------------------------------------------

NoWorker == [job |-> None, ready |-> FALSE, code |-> None]

Fresh(pc) == [pc |-> pc, job |-> None, activeJob |-> None, jobs |-> {},
              retried |-> FALSE, code |-> None, cancelled |-> FALSE,
              spotReclaimDetected |-> FALSE, gracefulShutdownRequested |-> FALSE,
              handler |-> "idle", grace |-> FALSE, slept |-> FALSE]

Init ==
    /\ file = [r \in Request |-> Absent]
    /\ responses = [r \in Request |-> None]
    /\ traces = {}
    /\ tmp = [c \in Controller |-> None]
    /\ worker = [c \in Controller |-> NoWorker]
    /\ ctl = [c \in Controller |-> Fresh("idle")]
    /\ signals = 0
    /\ crashes = 0

\* The coordinator writes the trace and the request file.
WriteRequest(r) ==
    /\ file[r] = Absent
    /\ file' = [file EXCEPT ![r] = Queued(<< >>)]
    /\ traces' = IF Kind[r] = "execution" THEN traces \cup {r} ELSE traces
    /\ UNCHANGED <<responses, tmp, worker, ctl, envVars>>

-----------------------------------------------------------------------------
(* The main loop                                                           *)

\* activeJobMutex is free: the signal handler holds it while it requeues.
MutexFree(c) == ctl[c].handler # "requeue"

\* GetBest reads the directories: jobs that match, under the names they have now.
ListJobs(c) ==
    LET jobs == {[request |-> r, suffixes |-> file[r].suffixes] :
                   r \in {q \in Request :
                            /\ file[q].at = "requests"
                            /\ file[q].owner = None
                            /\ Kind[q] \in JobToWatch[c]
                            /\ Matches(c, Kind[q], file[q].suffixes)}}
    IN
    /\ ctl[c].pc = "idle"
    /\ ~ ctl[c].cancelled
    /\ ~ ctl[c].gracefulShutdownRequested
    /\ ~ ctl[c].spotReclaimDetected
    /\ jobs # {}
    /\ ctl' = [ctl EXCEPT ![c].pc = "locking", ![c].jobs = jobs]
    /\ UNCHANGED <<fsVars, worker, envVars>>

\* Mutant: a failed rename is ignored.
LockFile(c) ==
    /\ ctl[c].pc = "locking"
    /\ \E job \in ctl[c].jobs :
          /\ \A other \in ctl[c].jobs : Score(job.request) <= Score(other.request)
          /\ file' = [file EXCEPT ![job.request] = InProgress(c, job)]
          /\ ctl' = [ctl EXCEPT ![c].pc = "locked", ![c].job = job, ![c].jobs = {}]
    /\ UNCHANGED <<responses, traces, tmp, worker, envVars>>

\* tryLockFile on the best job left; the rename fails when its name is gone.
TryLockFile(c) ==
    /\ ctl[c].pc = "locking"
    /\ \E job \in ctl[c].jobs :
          /\ \A other \in ctl[c].jobs : Score(job.request) <= Score(other.request)
          /\ IF file[job.request] = Queued(job.suffixes)
             THEN /\ file' = [file EXCEPT ![job.request] = InProgress(c, job)]
                  /\ ctl' = [ctl EXCEPT ![c].pc = "locked", ![c].job = job, ![c].jobs = {}]
             ELSE /\ ctl' = [ctl EXCEPT ![c].jobs = @ \ {job},
                                        ![c].pc = IF ctl[c].jobs = {job} THEN "idle" ELSE @]
                  /\ UNCHANGED file
    /\ UNCHANGED <<responses, traces, tmp, worker, envVars>>

\* runCmd starts a worker; it can succeed only on the inputs it finds.
StartWorker(c, job) ==
    worker' = [worker EXCEPT ![c] =
        [job |-> job, code |-> None,
         ready |-> /\ file[job.request] = InProgress(c, job)
                   /\ Kind[job.request] = "execution" => job.request \in traces]]

\* activeJob = job, then executor.Run.
RunJob(c) ==
    /\ ctl[c].pc = "locked"
    /\ MutexFree(c)
    /\ ctl' = [ctl EXCEPT ![c].pc = "running", ![c].activeJob = ctl[c].job,
                          ![c].retried = FALSE]
    /\ StartWorker(c, ctl[c].job)
    /\ UNCHANGED <<fsVars, envVars>>

\* Mutant: the name of the tmp response file lacks the LocalID.
WorkerExitsSharedTmp(c, code) ==
    /\ worker[c].job # None
    /\ worker[c].code = None
    /\ code = CodeSuccess => worker[c].ready
    /\ code = CodeMissingTraceFile => ~ worker[c].ready
    /\ worker' = [worker EXCEPT ![c].code = code]
    /\ tmp' = IF code = CodeSuccess
              THEN [d \in Controller |-> worker[c].job.request] ELSE tmp
    /\ UNCHANGED <<file, responses, traces, ctl, envVars>>

\* The worker process exits; a successful one has written the tmp response file.
\* It may outlive the job: runCmd does not wait for the process it kills.
WorkerExits(c, code) ==
    /\ worker[c].job # None
    /\ worker[c].code = None
    /\ code = CodeSuccess => worker[c].ready
    /\ code = CodeMissingTraceFile => ~ worker[c].ready
    /\ worker' = [worker EXCEPT ![c].code = code]
    /\ tmp' = IF code = CodeSuccess THEN [tmp EXCEPT ![c] = worker[c].job.request] ELSE tmp
    /\ UNCHANGED <<file, responses, traces, ctl, envVars>>

IsRetried(c, code) ==
    /\ Kind[ctl[c].job.request] = "execution"
    /\ code \in RetryLocallyWithLargeCodes
    /\ ~ ctl[c].retried

\* executor.Run retries an execution job once, with the large command.
RetryWithLarge(c) ==
    /\ ctl[c].pc = "running"
    /\ worker[c].code # None
    /\ IsRetried(c, worker[c].code)
    /\ ctl' = [ctl EXCEPT ![c].retried = TRUE]
    /\ StartWorker(c, ctl[c].job)
    /\ UNCHANGED <<fsVars, envVars>>

\* Mutant: the success branch files the request before the response.
RunReturnsWithoutResponse(c) ==
    LET code     == worker[c].code
        deferred == /\ Kind[ctl[c].job.request] = "execution"
                    /\ code \in DeferToOtherLargeCodes
    IN
    /\ ctl[c].pc = "running"
    /\ code # None
    /\ ~ IsRetried(c, code)
    /\ worker' = [worker EXCEPT ![c] = NoWorker]
    /\ ctl' = [ctl EXCEPT ![c].code = code,
                          ![c].pc = IF code = CodeSuccess THEN "deleteTrace"
                                    ELSE IF deferred THEN "defer" ELSE "moveToDone"]
    /\ UNCHANGED <<fsVars, envVars>>

\* Mutant: the trace is deleted after a failure too.
RunReturnsDeletingTrace(c) ==
    LET code     == worker[c].code
        deferred == /\ Kind[ctl[c].job.request] = "execution"
                    /\ code \in DeferToOtherLargeCodes
    IN
    /\ ctl[c].pc = "running"
    /\ code # None
    /\ ~ IsRetried(c, code)
    /\ worker' = [worker EXCEPT ![c] = NoWorker]
    /\ ctl' = [ctl EXCEPT ![c].code = code,
                          ![c].pc = IF code = CodeSuccess THEN "respond"
                                    ELSE IF deferred THEN "defer" ELSE "deleteTrace"]
    /\ UNCHANGED <<fsVars, envVars>>

\* executor.Run returns; the switch of runController picks the next step.
RunReturns(c) ==
    LET code     == worker[c].code
        deferred == /\ Kind[ctl[c].job.request] = "execution"
                    /\ code \in DeferToOtherLargeCodes
    IN
    /\ ctl[c].pc = "running"
    /\ code # None
    /\ ~ IsRetried(c, code)
    /\ worker' = [worker EXCEPT ![c] = NoWorker]
    /\ ctl' = [ctl EXCEPT ![c].code = code,
                          ![c].pc = IF code = CodeSuccess THEN "respond"
                                    ELSE IF deferred THEN "defer" ELSE "moveToDone"]
    /\ UNCHANGED <<fsVars, envVars>>

\* Mutant: the killed branch forgets the active job, like the other branches.
KilledByUsForgetsJob(c) ==
    /\ ctl[c].pc = "running"
    /\ ctl[c].cancelled
    /\ tmp' = [tmp EXCEPT ![c] = None]
    /\ ctl' = [ctl EXCEPT ![c].pc = "idle", ![c].job = None, ![c].activeJob = None]
    /\ UNCHANGED <<file, responses, traces, worker, envVars>>

\* Mutant: a worker that completed when it was killed has its response published.
KilledByUsPublishes(c) ==
    /\ ctl[c].pc = "running"
    /\ ctl[c].cancelled
    /\ responses' = IF tmp[c] = None THEN responses
                    ELSE [responses EXCEPT ![ctl[c].job.request] = tmp[c]]
    /\ tmp' = [tmp EXCEPT ![c] = None]
    /\ ctl' = [ctl EXCEPT ![c].pc = "idle", ![c].job = None]
    /\ UNCHANGED <<file, traces, worker, envVars>>

\* runCmd returns CodeKilledByUs once the context is done.  The job stays active
\* and the tmp response file is removed; the worker may still be exiting.
KilledByUs(c) ==
    /\ ctl[c].pc = "running"
    /\ ctl[c].cancelled
    /\ tmp' = [tmp EXCEPT ![c] = None]
    /\ ctl' = [ctl EXCEPT ![c].pc = "idle", ![c].job = None]
    /\ UNCHANGED <<file, responses, traces, worker, envVars>>

\* Success, first step: the tmp response file becomes the response file.
MoveResponse(c) ==
    /\ ctl[c].pc = "respond"
    /\ responses' = IF tmp[c] = None THEN responses
                    ELSE [responses EXCEPT ![ctl[c].job.request] = tmp[c]]
    /\ tmp' = [tmp EXCEPT ![c] = None]
    /\ ctl' = [ctl EXCEPT ![c].pc = "deleteTrace"]
    /\ UNCHANGED <<file, traces, worker, envVars>>

\* Success, second step: tryDeleteExecution, which needs the in-progress file.
TryDeleteExecution(c) ==
    LET job == ctl[c].job IN
    /\ ctl[c].pc = "deleteTrace"
    /\ traces' = IF /\ Kind[job.request] = "execution"
                    /\ End[job.request] > KeepTracesUntilBlock
                    /\ file[job.request] = InProgress(c, job)
                 THEN traces \ {job.request} ELSE traces
    /\ ctl' = [ctl EXCEPT ![c].pc = "moveToDone"]
    /\ UNCHANGED <<file, responses, tmp, worker, envVars>>

\* Success, third step, and the failure case: the request moves to the done directory.
MoveToDone(c) ==
    /\ ctl[c].pc = "moveToDone"
    /\ RenameInProgress(c, ctl[c].job, Done(ctl[c].code))
    /\ ctl' = [ctl EXCEPT ![c].pc = "finish"]
    /\ UNCHANGED <<responses, traces, tmp, worker, envVars>>

\* The request goes back to the queue under a name for the large prover.
DeferToLarge(c) ==
    /\ ctl[c].pc = "defer"
    /\ RenameInProgress(c, ctl[c].job, Queued(DeferToLargeFile(ctl[c].job.suffixes)))
    /\ ctl' = [ctl EXCEPT ![c].pc = "finish"]
    /\ UNCHANGED <<responses, traces, tmp, worker, envVars>>

\* activeJob = nil
FinishJob(c) ==
    /\ ctl[c].pc = "finish"
    /\ MutexFree(c)
    /\ ctl' = [ctl EXCEPT ![c].pc = "idle", ![c].activeJob = None, ![c].job = None,
                          ![c].code = None]
    /\ UNCHANGED <<fsVars, worker, envVars>>

\* The cmdCtx.Done branch, up to the decision to sleep for the spot reclaim.
BeginExit(c) ==
    /\ ctl[c].pc = "idle"
    /\ ctl[c].cancelled
    /\ ctl' = [ctl EXCEPT ![c].pc = "exiting", ![c].slept = ctl[c].spotReclaimDetected]
    /\ UNCHANGED <<fsVars, worker, envVars>>

\* The rest of that branch.  The sleep is long enough for the signal handler; the
\* container ends with the controller, and a worker still exiting ends with it.
FinishExit(c) ==
    LET requeue == /\ ~ ctl[c].spotReclaimDetected
                   /\ ctl[c].gracefulShutdownRequested
                   /\ ctl[c].activeJob # None
    IN
    /\ ctl[c].pc = "exiting"
    /\ MutexFree(c)
    /\ ctl[c].slept => ctl[c].handler = "idle"
    /\ IF requeue
       THEN /\ RenameInProgress(c, ctl[c].activeJob, Queued(ctl[c].activeJob.suffixes))
            /\ tmp' = [tmp EXCEPT ![c] = None]
       ELSE UNCHANGED <<file, tmp>>
    /\ worker' = [worker EXCEPT ![c] = NoWorker]
    /\ ctl' = [ctl EXCEPT ![c] = Fresh("stopped")]
    /\ UNCHANGED <<responses, traces, envVars>>

-----------------------------------------------------------------------------
(* Signals, crashes and restarts                                           *)

IsUp(c) == ctl[c].pc \notin {"stopped", "crashed"}

Sent(signal) ==
    /\ signal \in Signals
    /\ signals < MaxSignals
    /\ signals' = signals + 1
    /\ UNCHANGED crashes

\* SIGTERM: an active job gets the grace period, an idle controller stops.
Sigterm(c) ==
    /\ Sent("SIGTERM")
    /\ IsUp(c)
    /\ ctl[c].handler = "idle"
    /\ ctl' = [ctl EXCEPT ![c].gracefulShutdownRequested = TRUE,
                          ![c].grace = @ \/ ctl[c].activeJob # None,
                          ![c].cancelled = @ \/ ctl[c].activeJob = None]
    /\ UNCHANGED <<fsVars, worker>>

\* The grace period of an active job ends, or the job did.
GraceExpires(c) ==
    /\ ctl[c].grace
    /\ ~ ctl[c].cancelled
    /\ ctl' = [ctl EXCEPT ![c].cancelled = TRUE]
    /\ UNCHANGED <<fsVars, worker, envVars>>

\* SIGUSR1, up to the mutex: cancel the context unless SIGTERM came first.
Sigusr1(c) ==
    /\ Sent("SIGUSR1")
    /\ IsUp(c)
    /\ ctl[c].handler = "idle"
    /\ ctl' = [ctl EXCEPT ![c].spotReclaimDetected = TRUE,
                          ![c].cancelled = @ \/ ~ ctl[c].gracefulShutdownRequested,
                          ![c].handler = "lock"]
    /\ UNCHANGED <<fsVars, worker>>

\* SIGUSR1, under the mutex; requeueJob first removes the tmp response file.
LockForRequeue(c) ==
    /\ ctl[c].handler = "lock"
    /\ IF ctl[c].activeJob = None
       THEN /\ ctl' = [ctl EXCEPT ![c].handler = "idle"]
            /\ UNCHANGED tmp
       ELSE /\ ctl' = [ctl EXCEPT ![c].handler = "requeue"]
            /\ tmp' = [tmp EXCEPT ![c] = None]
    /\ UNCHANGED <<file, responses, traces, worker, envVars>>

\* requeueJob then renames the in-progress file back; activeJob = nil.
RequeueActiveJob(c) ==
    /\ ctl[c].handler = "requeue"
    /\ RenameInProgress(c, ctl[c].activeJob, Queued(ctl[c].activeJob.suffixes))
    /\ ctl' = [ctl EXCEPT ![c].handler = "idle", ![c].activeJob = None]
    /\ UNCHANGED <<responses, traces, tmp, worker, envVars>>

\* The container dies (OOM, node failure) with everything in it.
Crash(c) ==
    /\ c \in Unstable
    /\ crashes < MaxCrashes
    /\ IsUp(c)
    /\ crashes' = crashes + 1
    /\ worker' = [worker EXCEPT ![c] = NoWorker]
    /\ ctl' = [ctl EXCEPT ![c] = Fresh("crashed")]
    /\ UNCHANGED <<fsVars, signals>>

\* Mutant: the in-progress suffix is not trimmed.
RecoveredUntrimmed(c, r) ==
    IF /\ Kind[r] = "execution"
       /\ file[r].at = "requests"
       /\ file[r].owner = c
    THEN Queued(file[r].suffixes \o <<"inprogress", "large">>) ELSE file[r]

\* Mutant: no file carries the suffix looked for.
RecoveredNever(c, r) == file[r]

\* What rmPrevDanglingFiles does to one file.
Recovered(c, r) ==
    IF /\ Kind[r] = "execution"
       /\ file[r].at = "requests"
       /\ file[r].owner = c
    THEN Queued(Append(file[r].suffixes, "large")) ELSE file[r]

\* The orchestrator restarts the container under the same LocalID.
Restart(c) ==
    /\ ~ IsUp(c)
    /\ file' = [r \in Request |-> Recovered(c, r)]
    /\ ctl' = [ctl EXCEPT ![c] = Fresh("idle")]
    /\ UNCHANGED <<responses, traces, tmp, worker, envVars>>

-----------------------------------------------------------------------------

MainLoop(c) ==
    \/ ListJobs(c)
    \/ TryLockFile(c)
    \/ RunJob(c)
    \/ RetryWithLarge(c)
    \/ RunReturns(c)
    \/ KilledByUs(c)
    \/ MoveResponse(c)
    \/ TryDeleteExecution(c)
    \/ MoveToDone(c)
    \/ DeferToLarge(c)
    \/ FinishJob(c)
    \/ BeginExit(c)
    \/ FinishExit(c)

Worker(c) == \E code \in {CodeSuccess, CodeMissingTraceFile} \cup FailureCodes :
                 WorkerExits(c, code)

Handler(c) == LockForRequeue(c) \/ RequeueActiveJob(c)

Next ==
    \/ \E r \in Request : WriteRequest(r)
    \/ \E c \in Controller :
          \/ MainLoop(c)
          \/ Worker(c)
          \/ Handler(c)
          \/ Sigterm(c)
          \/ Sigusr1(c)
          \/ GraceExpires(c)
          \/ Crash(c)
          \/ Restart(c)

Spec == Init /\ [][Next]_vars

\* Goroutines and workers are scheduled, timers fire, containers are restarted.
Fairness ==
    \A c \in Controller :
        /\ WF_vars(MainLoop(c))
        /\ WF_vars(Worker(c))
        /\ WF_vars(Handler(c))
        /\ WF_vars(GraceExpires(c))
        /\ WF_vars(Restart(c))

FairSpec == Spec /\ Fairness

-----------------------------------------------------------------------------
(* Properties                                                              *)

Files == [at : {"absent"}]
         \cup [at : {"requests"}, suffixes : Seq({"large", "failure"}),
               owner : Controller \cup {None}]
         \cup [at : {"done"}, code : Nat]

\* The program counters at which a controller has the request of its job locked.
Holding == {"locked", "running", "respond", "deleteTrace", "moveToDone", "defer"}

Memory == [pc : Holding \cup {"idle", "locking", "finish", "exiting", "stopped", "crashed"},
           job : Job \cup {None}, activeJob : Job \cup {None}, jobs : SUBSET Job,
           retried : BOOLEAN, code : Nat \cup {None}, cancelled : BOOLEAN,
           spotReclaimDetected : BOOLEAN, gracefulShutdownRequested : BOOLEAN,
           handler : {"idle", "lock", "requeue"}, grace : BOOLEAN, slept : BOOLEAN]

Process == [job : Job \cup {None}, ready : BOOLEAN, code : Nat \cup {None}]

\* The types of the file system and of the controllers' memory.
TypeOK ==
    /\ file \in [Request -> Files]
    /\ responses \in [Request -> Request \cup {None}]
    /\ traces \subseteq Request
    /\ tmp \in [Controller -> Request \cup {None}]
    /\ worker \in [Controller -> Process]
    /\ ctl \in [Controller -> Memory]
    /\ signals \in 0..MaxSignals
    /\ crashes \in 0..MaxCrashes

IsLockedBy(r, c) == file[r].at = "requests" /\ file[r].owner = c

Proves(c, r) == ctl[c].pc = "running" /\ ctl[c].job.request = r

\* Renames as locks: two controllers never run a worker on the same request, with
\* stale directory listings, deferrals, graceful requeues and recovered locks.
ProvenByOneController ==
    \A c, d \in Controller, r \in Request : Proves(c, r) /\ Proves(d, r) => c = d

\* Every shutdown branch of runController: a controller that has exited by itself
\* leaves no request locked, so that other controllers can pick it up.
StoppedHoldsNoLock ==
    \A c \in Controller, r \in Request : ctl[c].pc = "stopped" => ~ IsLockedBy(r, c)

\* The success branch of runController: a request is filed as successful only
\* once its response file exists.
SuccessHasResponse ==
    \A r \in Request : file[r] = Done(CodeSuccess) => responses[r] # None

\* tryDeleteExecution: the trace of an execution request is kept for as long as
\* its proof may still have to be computed.
TraceKeptUntilProven ==
    \A r \in Request :
        (Kind[r] = "execution" /\ file[r] # Absent /\ responses[r] = None) => r \in traces

\* MoveResponse: the tmp file, shared by all the jobs of a LocalID and written by
\* workers nobody waits for, never becomes the response of another request.
ResponseIsOfItsRequest ==
    \A r \in Request : responses[r] \in {None, r}

\* Unless a controller crashed between the response and the rename, a request with
\* a response is never filed as a failure.
ProvenIsNotFailed ==
    \A r \in Request :
        (crashes = 0 /\ responses[r] # None) => (file[r].at = "done" => file[r].code = CodeSuccess)

IsPickedUpBy(c, r) ==
    Kind[r] \in JobToWatch[c] /\ Matches(c, Kind[r], file[r].suffixes)

\* Put aside by DeferToLargeFile: deferred by the large prover itself.
IsPutAside(r) ==
    /\ IsLockedBy(r, None)
    /\ Larges(file[r].suffixes) > 1
    /\ file[r].suffixes[Len(file[r].suffixes)] = "failure"

\* rmPrevDanglingFiles: requests in the queue, those recovered after a crash among
\* them, have a name that some controller picks up, unless they were put aside.
QueuedIsPickedUp ==
    \A r \in Request :
        IsLockedBy(r, None) => IsPutAside(r) \/ \E c \in Controller : IsPickedUpBy(c, r)

\* The parts of the inductive invariant.

\* What a controller works on: the worker runs its job, and the tmp file that becomes the response
\* is of that job.
JobIsKnown(c) ==
    /\ ctl[c].pc \in Holding \cup {"finish"} => ctl[c].job \in Job
    /\ ctl[c].pc \in {"respond", "deleteTrace", "moveToDone", "defer"} => ctl[c].code \in Nat
    /\ ctl[c].handler = "requeue" => ctl[c].activeJob \in Job
    /\ ctl[c].pc = "running" => worker[c].job = ctl[c].job
    /\ ctl[c].pc = "respond" => worker[c].job = None
    /\ \/ ctl[c].pc = "running" /\ worker[c].code = CodeSuccess
       \/ ctl[c].pc = "respond"
       => tmp[c] \in {None, ctl[c].job.request}
    /\ ctl[c].pc = "crashed" => c \in Unstable /\ crashes > 0

\* Without spot reclaims a controller keeps the lock of its job until it files or requeues the
\* request, and does not lose the response of its worker.
KeepsItsLock(c) ==
    /\ ctl[c].handler = "idle" /\ ~ ctl[c].spotReclaimDetected
    /\ ctl[c].cancelled \/ ctl[c].grace => ctl[c].gracefulShutdownRequested
    /\ ctl[c].pc = "exiting" => ctl[c].cancelled
    /\ ctl[c].pc \in Holding => file[ctl[c].job.request] = InProgress(c, ctl[c].job)
    /\ ctl[c].pc \in {"locking", "locked"} => ctl[c].activeJob = None
    /\ ctl[c].pc \in (Holding \ {"locked"}) \cup {"finish"} => ctl[c].activeJob = ctl[c].job
    /\ ctl[c].pc \in {"idle", "exiting"} /\ ctl[c].activeJob # None =>
          /\ ctl[c].cancelled
          /\ file[ctl[c].activeJob.request] = InProgress(c, ctl[c].activeJob)
    /\ ctl[c].pc = "running" /\ worker[c].code = CodeSuccess => tmp[c] = ctl[c].job.request
    /\ ctl[c].pc = "respond" => tmp[c] = ctl[c].job.request
    /\ ctl[c].pc \in {"respond", "deleteTrace"} => ctl[c].code = CodeSuccess
    /\ ctl[c].pc \in {"deleteTrace", "moveToDone"} /\ ctl[c].code = CodeSuccess =>
          responses[ctl[c].job.request] # None
    /\ ctl[c].pc = "defer" => Kind[ctl[c].job.request] = "execution"

\* The job because of which a controller has a request locked.
HoldsFor(c, r) ==
    \/ ctl[c].pc \in Holding /\ ctl[c].job.request = r
    \/ /\ ctl[c].pc \in {"idle", "exiting"}
       /\ ctl[c].activeJob # None /\ ctl[c].activeJob.request = r

\* Conversely every lock is held for a job or left by a crash; rmPrevDanglingFiles removes
\* the latter for execution requests only.
LocksAreHeld(c) ==
    \A r \in Request :
        IsLockedBy(r, c) => \/ HoldsFor(c, r)
                            \/ ctl[c].pc = "crashed"
                            \/ Kind[r] # "execution" /\ crashes > 0

\* The success branch after the response was moved.
IsFiling(c, r) ==
    /\ ctl[c].pc \in {"deleteTrace", "moveToDone"}
    /\ ctl[c].job.request = r
    /\ ctl[c].code = CodeSuccess

\* A request with a response is filed, or about to be.
ResponsesAreFiled ==
    \A r \in Request :
        (crashes = 0 /\ responses[r] # None) =>
            file[r] = Done(CodeSuccess) \/ \E c \in Controller : IsFiling(c, r)

\* The names a request in the queue can have, and who locks it under which.
NameIsKnown(r) ==
    file[r].at = "requests" =>
        /\ \/ file[r].suffixes \in {<< >>, <<"large">>, <<"large", "failure">>}
           \/ file[r].owner = None /\ file[r].suffixes = <<"large", "large", "failure">>
        /\ Kind[r] # "execution" => file[r].suffixes = << >>
        /\ file[r].owner # None =>
              (file[r].suffixes # << >> <=> Kind[r] = "execution" /\ file[r].owner \in CanRunFullLarge)

ListedJobsMatch(c) == \A job \in ctl[c].jobs : Matches(c, Kind[job.request], job.suffixes)

\* The orchestrator never reclaims a machine with SIGUSR1.
NoSpotReclaim == "SIGUSR1" \notin Signals

\* Containers of large machines do not crash.
LargeIsStable == CanRunFullLarge \cap Unstable = {}

\* What a crash can leave locked is what rmPrevDanglingFiles puts back.
LocksAreRecovered == Unstable = {} \/ \A r \in Request : Kind[r] = "execution"

\* Every kind of request is watched by a controller that takes it under its first name, and
\* execution requests by a large machine as well.
IsStaffed ==
    \A r \in Request :
        /\ \E c \in Controller : /\ Kind[r] \in JobToWatch[c]
                                 /\ Kind[r] = "execution" => c \notin CanRunFullLarge
        /\ Kind[r] = "execution" => \E c \in CanRunFullLarge : Kind[r] \in JobToWatch[c]

IInv ==
    /\ TypeOK
    /\ ResponseIsOfItsRequest
    /\ \A c \in Controller : JobIsKnown(c)
    /\ crashes > 0 => Unstable # {}
    /\ NoSpotReclaim =>
          /\ \A c \in Controller : KeepsItsLock(c)
          /\ \A c \in Controller : LocksAreHeld(c)
          /\ ResponsesAreFiled
          /\ SuccessHasResponse
          /\ TraceKeptUntilProven
          /\ LargeIsStable => /\ \A r \in Request : NameIsKnown(r)
                              /\ \A c \in Controller : ListedJobsMatch(c)

\* A request filed in the done directory stays there, and a response is never
\* withdrawn or replaced, although requeues and late renames race with both.
FiledIsFinal ==
    [][ \A r \in Request :
            /\ file[r].at = "done" => file'[r] = file[r]
            /\ responses[r] # None => responses'[r] = responses[r] ]_vars

\* Every request written is eventually filed, or put aside for an operator, and no
\* crash, requeue or retry brings an end to that.
EveryRequestIsSettled ==
    []<>(\A r \in Request : file[r] # Absent => (file[r].at = "done" \/ IsPutAside(r)))
=============================================================================
