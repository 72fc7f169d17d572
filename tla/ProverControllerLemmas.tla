----------------------- MODULE ProverControllerLemmas -----------------------
(***************************************************************************)
(* TLAPS proofs about ProverController: the steps of the controllers, one  *)
(* by one, preserve the inductive invariant.                               *)
(***************************************************************************)
EXTENDS ProverController, TLAPS

USE ZenonT(30)

(* What one controller can do to the others and to the file system *********)

\* A step of c leaves the memory of the others alone, touches no file that another has locked or
\* that is not in the queue, and withdraws no response.
StepOf(c) ==
    /\ \A d \in Controller \ {c} : ctl'[d] = ctl[d] /\ worker'[d] = worker[d] /\ tmp'[d] = tmp[d]
    /\ \A r \in Request :
          \/ file'[r] = file[r]
          \/ /\ IsLockedBy(r, None) \/ IsLockedBy(r, c)
             /\ \A d \in Controller \ {c} : ~ IsLockedBy(r, d)'
             /\ file'[r].at # "absent"
    /\ \A r \in Request : responses[r] # None => responses'[r] = responses[r]
    /\ crashes' \in {crashes, crashes + 1}

\* What is left to show of a step of c: the invariants about c itself, and what it does to files.
OwnPart(c) ==
    /\ JobIsKnown(c)'
    /\ crashes' > 0 => Unstable # {}
    /\ \A r \in Request : responses'[r] \in {None, r}
    /\ NoSpotReclaim =>
          /\ KeepsItsLock(c)'
          /\ LocksAreHeld(c)'
          /\ \A r \in Request :
                IsFiling(c, r) \/ (responses[r] = None /\ responses'[r] # None) =>
                    crashes' # 0 \/ file'[r] = Done(CodeSuccess) \/ IsFiling(c, r)'
          /\ \A r \in Request :
                file'[r] = Done(CodeSuccess) => file'[r] = file[r] \/ responses'[r] # None
          /\ \A r \in Request : r \in traces => r \in traces' \/ responses'[r] # None
          /\ LargeIsStable => /\ \A r \in Request : file'[r] = file[r] \/ NameIsKnown(r)'
                              /\ ListedJobsMatch(c)'

\* The invariants of one controller survive the steps of the others.
LEMMA OthersJobs ==
    ASSUME IInv, NEW c \in Controller, StepOf(c), NEW d \in Controller, d # c
    PROVE  JobIsKnown(d)'
  <1>1. ctl'[d] = ctl[d] /\ worker'[d] = worker[d] /\ tmp'[d] = tmp[d]
    BY DEF StepOf
  <1>2. crashes > 0 => crashes' > 0
    BY SMTT(30) DEF StepOf, IInv, TypeOK
  <1>3. JobIsKnown(d)
    BY DEF IInv
  <1> QED BY <1>1, <1>2, <1>3 DEF JobIsKnown

LEMMA OthersLocks ==
    ASSUME IInv, NEW c \in Controller, StepOf(c), NEW d \in Controller, d # c, NoSpotReclaim
    PROVE  KeepsItsLock(d)' /\ LocksAreHeld(d)'
  <1>1. ctl'[d] = ctl[d] /\ worker'[d] = worker[d] /\ tmp'[d] = tmp[d]
    BY DEF StepOf
  <1>2. crashes > 0 => crashes' > 0
    BY SMTT(30) DEF StepOf, IInv, TypeOK
  <1>3. KeepsItsLock(d) /\ LocksAreHeld(d) /\ JobIsKnown(d)
    BY DEF IInv
  <1>4. d # None
    BY ConfigAssumption
  <1>5. ASSUME NEW r \in Request, IsLockedBy(r, d)
        PROVE  file'[r] = file[r]
    BY <1>4, <1>5 DEF StepOf, IsLockedBy
  <1>6. ASSUME NEW r \in Request, IsLockedBy(r, d)'
        PROVE  IsLockedBy(r, d)
    BY <1>6 DEF StepOf, IsLockedBy
  <1>7. ASSUME NEW job \in Job, file[job.request] = InProgress(d, job)
        PROVE  file'[job.request] = InProgress(d, job)
    <2>1. job.request \in Request
      BY DEF Job
    <2>2. IsLockedBy(job.request, d)
      BY <1>7, SMTT(30) DEF IsLockedBy, InProgress, Locked
    <2> QED BY <1>5, <1>7, <2>1, <2>2
  <1>8. \A r \in Request : responses[r] # None => responses'[r] # None
    BY DEF StepOf
  <1>9. KeepsItsLock(d)'
    <2>1. ctl[d].pc \in Holding => ctl[d].job \in Job
      BY <1>3 DEF JobIsKnown
    <2>2. ctl[d].activeJob # None => ctl[d].activeJob \in Job
      BY DEF IInv, TypeOK, Memory
    <2>3. ctl[d].pc \in Holding => file'[ctl[d].job.request] = InProgress(d, ctl[d].job)
      BY <1>3, <1>7, <2>1 DEF KeepsItsLock
    <2>4. ctl[d].pc \in {"idle", "exiting"} /\ ctl[d].activeJob # None =>
             file'[ctl[d].activeJob.request] = InProgress(d, ctl[d].activeJob)
      BY <1>3, <1>7, <2>2 DEF KeepsItsLock
    <2>5. ctl[d].pc \in {"deleteTrace", "moveToDone"} /\ ctl[d].code = CodeSuccess =>
             responses'[ctl[d].job.request] # None
      <3>1. ctl[d].pc \in {"deleteTrace", "moveToDone"} => ctl[d].job.request \in Request
        BY <2>1 DEF Holding, Job
      <3> QED BY <1>3, <1>8, <3>1 DEF KeepsItsLock
    <2> HIDE DEF InProgress
    <2> QED BY <1>1, <1>3, <2>3, <2>4, <2>5 DEF KeepsItsLock
  <1>10. LocksAreHeld(d)'
    <2> SUFFICES ASSUME NEW r \in Request, IsLockedBy(r, d)'
                 PROVE  (HoldsFor(d, r) \/ ctl[d].pc = "crashed" \/ (Kind[r] # "execution" /\ crashes > 0))'
      BY DEF LocksAreHeld
    <2>1. HoldsFor(d, r) \/ ctl[d].pc = "crashed" \/ (Kind[r] # "execution" /\ crashes > 0)
      BY <1>3, <1>6 DEF LocksAreHeld
    <2> QED BY <1>1, <1>2, <2>1 DEF HoldsFor
  <1> QED BY <1>9, <1>10

\* A step of c preserves the invariant once its own part is shown.
LEMMA ControllerStep ==
    ASSUME IInv, NEW c \in Controller, TypeOK', StepOf(c), OwnPart(c)
    PROVE  IInv'
  <1>1. \A d \in Controller : JobIsKnown(d)'
    BY OthersJobs DEF OwnPart
  <1>2. ASSUME NoSpotReclaim
        PROVE  \A d \in Controller : KeepsItsLock(d)' /\ LocksAreHeld(d)'
    BY <1>2, OthersLocks DEF OwnPart
  <1>3. ResponseIsOfItsRequest'
    BY DEF OwnPart, ResponseIsOfItsRequest
  <1>4. ASSUME NoSpotReclaim
        PROVE  ResponsesAreFiled'
    <2> SUFFICES ASSUME NEW r \in Request, crashes' = 0, responses'[r] # None
                 PROVE  file'[r] = Done(CodeSuccess) \/ \E d \in Controller : IsFiling(d, r)'
      BY DEF ResponsesAreFiled
    <2>1. crashes = 0
      BY SMTT(30) DEF StepOf, IInv, TypeOK
    <2>2. CASE responses[r] = None
      BY <1>4, <2>2 DEF OwnPart
    <2>3. CASE responses[r] # None
      <3>1. file[r] = Done(CodeSuccess) \/ \E d \in Controller : IsFiling(d, r)
        BY <1>4, <2>1, <2>3 DEF IInv, ResponsesAreFiled
      <3>2. CASE file[r] = Done(CodeSuccess)
        BY <3>2, SMTT(30) DEF StepOf, IsLockedBy, Done
      <3>3. ASSUME NEW d \in Controller, IsFiling(d, r)
            PROVE  file'[r] = Done(CodeSuccess) \/ \E e \in Controller : IsFiling(e, r)'
        <4>1. CASE d = c
          BY <1>4, <3>3, <4>1 DEF OwnPart
        <4>2. CASE d # c
          BY <3>3, <4>2 DEF StepOf, IsFiling
        <4> QED BY <4>1, <4>2
      <3> QED BY <3>1, <3>2, <3>3
    <2> QED BY <2>2, <2>3
  <1>5. ASSUME NoSpotReclaim
        PROVE  SuccessHasResponse'
    BY <1>5 DEF OwnPart, StepOf, IInv, SuccessHasResponse
  <1>6. ASSUME NoSpotReclaim
        PROVE  TraceKeptUntilProven'
    <2> SUFFICES ASSUME NEW r \in Request, Kind[r] = "execution", file'[r] # Absent, responses'[r] = None
                 PROVE  r \in traces'
      BY DEF TraceKeptUntilProven
    <2>1. responses[r] = None
      BY DEF StepOf
    <2>2. file[r] # Absent
      BY SMTT(30) DEF StepOf, IsLockedBy, Absent
    <2>3. r \in traces
      BY <1>6, <2>1, <2>2 DEF IInv, TraceKeptUntilProven
    <2> QED BY <1>6, <2>3 DEF OwnPart
  <1>7. ASSUME NoSpotReclaim, LargeIsStable
        PROVE  /\ \A r \in Request : NameIsKnown(r)'
               /\ \A d \in Controller : ListedJobsMatch(d)'
    <2>1. ASSUME NEW r \in Request
          PROVE  NameIsKnown(r)'
      <3>1. NameIsKnown(r)
        BY <1>7 DEF IInv
      <3> QED BY <1>7, <3>1 DEF OwnPart, NameIsKnown
    <2>2. ASSUME NEW d \in Controller
          PROVE  ListedJobsMatch(d)'
      <3>1. ListedJobsMatch(d)
        BY <1>7 DEF IInv
      <3>2. d # c => ctl'[d] = ctl[d]
        BY DEF StepOf
      <3> QED BY <1>7, <3>1, <3>2 DEF OwnPart, ListedJobsMatch
    <2> QED BY <2>1, <2>2
  <1> QED BY <1>1, <1>2, <1>3, <1>4, <1>5, <1>6, <1>7 DEF IInv, OwnPart

\* What the invariant says of the memory and the worker of c alone.
Own(c) ==
    /\ ctl \in [Controller -> Memory]
    /\ worker \in [Controller -> Process]
    /\ tmp \in [Controller -> Request \cup {None}]
    /\ JobIsKnown(c)
    /\ NoSpotReclaim => KeepsItsLock(c)
    /\ NoSpotReclaim /\ LargeIsStable => ListedJobsMatch(c)

\* A step of c that leaves requests, responses and traces alone.
LocalStep(c) ==
    /\ UNCHANGED <<file, responses, traces>>
    /\ \A d \in Controller \ {c} : ctl'[d] = ctl[d] /\ worker'[d] = worker[d] /\ tmp'[d] = tmp[d]
    /\ ctl' \in [Controller -> Memory]
    /\ worker' \in [Controller -> Process]
    /\ tmp' \in [Controller -> Request \cup {None}]
    /\ \/ crashes' = crashes
       \/ crashes' = crashes + 1 /\ crashes < MaxCrashes /\ c \in Unstable
    /\ \/ signals' = signals
       \/ signals' = signals + 1 /\ signals < MaxSignals

\* What such a step has to keep without spot reclaims.
KeepsOwn(c) ==
    /\ KeepsItsLock(c)'
    /\ \A r \in Request : HoldsFor(c, r) => HoldsFor(c, r)' \/ ctl'[c].pc = "crashed"
    /\ \A r \in Request : IsFiling(c, r) => IsFiling(c, r)' \/ crashes' # 0
    /\ LargeIsStable => ListedJobsMatch(c)'

LEMMA OwnInvariant ==
    ASSUME IInv, NEW c \in Controller
    PROVE  Own(c)
  BY DEF IInv, TypeOK, Own

LEMMA MemoryStep ==
    ASSUME IInv, NEW c \in Controller, LocalStep(c), JobIsKnown(c)',
           ctl[c].pc = "crashed" => ctl'[c].pc = "crashed",
           NoSpotReclaim => KeepsOwn(c)
    PROVE  IInv'
  <1>1. crashes \in 0..MaxCrashes /\ signals \in 0..MaxSignals
    BY DEF IInv, TypeOK
  <1>2. TypeOK'
    <2>1. crashes' \in 0..MaxCrashes /\ signals' \in 0..MaxSignals
      BY <1>1, ConfigAssumption, SMTT(30) DEF LocalStep
    <2> QED BY <2>1 DEF IInv, TypeOK, LocalStep
  <1>3. StepOf(c)
    BY DEF StepOf, LocalStep
  <1>4. (crashes' > 0 => Unstable # {}) /\ (crashes > 0 => crashes' > 0)
    BY <1>1, SMTT(30) DEF IInv, LocalStep
  <1>5. ASSUME NoSpotReclaim
        PROVE  LocksAreHeld(c)'
    <2> SUFFICES ASSUME NEW r \in Request, IsLockedBy(r, c)
                 PROVE  HoldsFor(c, r)' \/ ctl'[c].pc = "crashed" \/ (Kind[r] # "execution" /\ crashes' > 0)
      BY DEF LocksAreHeld, IsLockedBy, LocalStep
    <2>1. HoldsFor(c, r) \/ ctl[c].pc = "crashed" \/ (Kind[r] # "execution" /\ crashes > 0)
      BY <1>5 DEF IInv, LocksAreHeld
    <2> QED BY <1>4, <1>5, <2>1 DEF KeepsOwn
  <1>6. ResponseIsOfItsRequest
    BY DEF IInv
  <1>7. OwnPart(c)
    BY <1>4, <1>5, <1>6 DEF OwnPart, LocalStep, KeepsOwn, ResponseIsOfItsRequest
  <1> QED BY <1>2, <1>3, <1>7, ControllerStep

\* activeJob = nil.
LEMMA FinishJobStep ==
    ASSUME IInv, NEW c \in Controller, FinishJob(c)
    PROVE  IInv'
  <1>1. Own(c)
    BY OwnInvariant
  <1>2. ctl'[c] = [ctl[c] EXCEPT !.pc = "idle", !.activeJob = None, !.job = None, !.code = None]
    BY <1>1 DEF FinishJob, Own
  <1>3. LocalStep(c)
    <2>1. ctl[c] \in Memory
      BY <1>1 DEF Own
    <2>2. [ctl[c] EXCEPT !.pc = "idle", !.activeJob = None, !.job = None, !.code = None] \in Memory
      BY <2>1, Zenon DEF Memory
    <2> QED BY <1>1, <1>2, <2>2 DEF FinishJob, LocalStep, Own, fsVars, envVars
  <1>4. /\ ctl'[c].pc = "idle" /\ ctl'[c].job = None /\ ctl'[c].activeJob = None
        /\ ctl'[c].jobs = ctl[c].jobs /\ ctl'[c].code = None /\ ctl'[c].cancelled = ctl[c].cancelled
        /\ ctl'[c].spotReclaimDetected = ctl[c].spotReclaimDetected
        /\ ctl'[c].gracefulShutdownRequested = ctl[c].gracefulShutdownRequested
        /\ ctl'[c].handler = ctl[c].handler /\ ctl'[c].grace = ctl[c].grace
    BY <1>1, <1>2, SMTT(30) DEF Own, Memory
  <1>5. ctl[c].pc = "finish" /\ MutexFree(c) /\ UNCHANGED <<file, responses, worker, tmp, crashes>>
    BY <1>1 DEF FinishJob, Own, fsVars, envVars, IsUp
  <1>6. JobIsKnown(c)'
    BY <1>1, <1>4, <1>5 DEF Own, JobIsKnown, Holding, MutexFree
  <1>7. ASSUME NoSpotReclaim
        PROVE  KeepsOwn(c)
    BY <1>1, <1>4, <1>5, <1>7 DEF Own, KeepsOwn, KeepsItsLock, HoldsFor, IsFiling, ListedJobsMatch,
                                  Holding
  <1> QED BY <1>3, <1>5, <1>6, <1>7, MemoryStep

\* activeJob = job, then executor.Run.
LEMMA RunJobStep ==
    ASSUME IInv, NEW c \in Controller, RunJob(c)
    PROVE  IInv'
  <1>1. Own(c)
    BY OwnInvariant
  <1>2. ctl'[c] = [ctl[c] EXCEPT !.pc = "running", !.activeJob = ctl[c].job, !.retried = FALSE]
    BY <1>1 DEF RunJob, Own
  <1> DEFINE started == [job |-> ctl[c].job, code |-> None,
                         ready |-> /\ file[ctl[c].job.request] = InProgress(c, ctl[c].job)
                                   /\ Kind[ctl[c].job.request] = "execution" => ctl[c].job.request \in traces]
  <1>3. started \in Process /\ started.job = ctl[c].job /\ started.code = None
    BY <1>1 DEF Own, Memory, Process
  <1>4. worker' = [worker EXCEPT ![c] = started]
    BY DEF RunJob, StartWorker
  <1> HIDE DEF started
  <1>5. LocalStep(c)
    <2>1. ctl[c] \in Memory
      BY <1>1 DEF Own
    <2>2. [ctl[c] EXCEPT !.pc = "running", !.activeJob = ctl[c].job, !.retried = FALSE] \in Memory
      BY <2>1, Zenon DEF Memory, Holding
    <2> QED BY <1>1, <1>2, <2>2, <1>3, <1>4 DEF RunJob, LocalStep, Own, fsVars, envVars
  <1>6. /\ ctl'[c].pc = "running" /\ ctl'[c].job = ctl[c].job /\ ctl'[c].activeJob = ctl[c].job
        /\ ctl'[c].jobs = ctl[c].jobs /\ ctl'[c].code = ctl[c].code
        /\ ctl'[c].cancelled = ctl[c].cancelled
        /\ ctl'[c].spotReclaimDetected = ctl[c].spotReclaimDetected
        /\ ctl'[c].gracefulShutdownRequested = ctl[c].gracefulShutdownRequested
        /\ ctl'[c].handler = ctl[c].handler /\ ctl'[c].grace = ctl[c].grace
    BY <1>1, <1>2, SMTT(30) DEF Own, Memory
  <1>7. ctl[c].pc = "locked" /\ UNCHANGED <<file, responses, tmp, crashes>> /\ worker'[c] = started
    BY <1>1, <1>4 DEF RunJob, Own, fsVars, envVars, IsUp
  <1>8. JobIsKnown(c)'
    BY <1>1, <1>3, <1>4, <1>6, <1>7, ConfigAssumption, SMTT(30) DEF Own, JobIsKnown, Holding, CodeSuccess
  <1>9. ASSUME NoSpotReclaim
        PROVE  KeepsOwn(c)
    BY <1>1, <1>3, <1>4, <1>6, <1>7, <1>9, ConfigAssumption, SMTT(30) DEF Own, KeepsOwn, KeepsItsLock, HoldsFor,
       IsFiling, ListedJobsMatch, Holding, CodeSuccess
  <1> QED BY <1>5, <1>7, <1>8, <1>9, MemoryStep

\* executor.Run retries an execution job.
LEMMA RetryWithLargeStep ==
    ASSUME IInv, NEW c \in Controller, RetryWithLarge(c)
    PROVE  IInv'
  <1>1. Own(c)
    BY OwnInvariant
  <1>2. ctl'[c] = [ctl[c] EXCEPT !.retried = TRUE]
    BY <1>1 DEF RetryWithLarge, Own
  <1> DEFINE started == [job |-> ctl[c].job, code |-> None,
                         ready |-> /\ file[ctl[c].job.request] = InProgress(c, ctl[c].job)
                                   /\ Kind[ctl[c].job.request] = "execution" => ctl[c].job.request \in traces]
  <1>3. started \in Process /\ started.job = ctl[c].job /\ started.code = None
    BY <1>1 DEF Own, Memory, Process
  <1>4. worker' = [worker EXCEPT ![c] = started]
    BY DEF RetryWithLarge, StartWorker
  <1> HIDE DEF started
  <1>5. LocalStep(c)
    <2>1. ctl[c] \in Memory
      BY <1>1 DEF Own
    <2>2. [ctl[c] EXCEPT !.retried = TRUE] \in Memory
      BY <2>1, Zenon DEF Memory
    <2> QED BY <1>1, <1>2, <2>2, <1>3, <1>4 DEF RetryWithLarge, LocalStep, Own, fsVars, envVars
  <1>6. /\ ctl'[c].pc = ctl[c].pc /\ ctl'[c].job = ctl[c].job
        /\ ctl'[c].activeJob = ctl[c].activeJob /\ ctl'[c].jobs = ctl[c].jobs
        /\ ctl'[c].code = ctl[c].code /\ ctl'[c].cancelled = ctl[c].cancelled
        /\ ctl'[c].spotReclaimDetected = ctl[c].spotReclaimDetected
        /\ ctl'[c].gracefulShutdownRequested = ctl[c].gracefulShutdownRequested
        /\ ctl'[c].handler = ctl[c].handler /\ ctl'[c].grace = ctl[c].grace
    BY <1>1, <1>2, SMTT(30) DEF Own, Memory
  <1>7. ctl[c].pc = "running" /\ UNCHANGED <<file, responses, tmp, crashes>> /\ worker'[c] = started
    BY <1>1, <1>4 DEF RetryWithLarge, Own, fsVars, envVars, IsUp
  <1>8. JobIsKnown(c)'
    BY <1>1, <1>3, <1>4, <1>6, <1>7, ConfigAssumption, SMTT(30) DEF Own, JobIsKnown, Holding, CodeSuccess
  <1>9. ASSUME NoSpotReclaim
        PROVE  KeepsOwn(c)
    BY <1>1, <1>3, <1>4, <1>6, <1>7, <1>9, ConfigAssumption, SMTT(30) DEF Own, KeepsOwn, KeepsItsLock, HoldsFor,
       IsFiling, ListedJobsMatch, Holding, CodeSuccess
  <1> QED BY <1>5, <1>7, <1>8, <1>9, MemoryStep

\* executor.Run returns.
LEMMA RunReturnsStep ==
    ASSUME IInv, NEW c \in Controller, RunReturns(c)
    PROVE  IInv'
  <1>1. Own(c)
    BY OwnInvariant
  <1>2. ctl'[c] = [ctl[c] EXCEPT !.code = worker[c].code,
                     !.pc = IF worker[c].code = CodeSuccess THEN "respond"
                            ELSE IF /\ Kind[ctl[c].job.request] = "execution"
                                    /\ worker[c].code \in DeferToOtherLargeCodes
                                 THEN "defer" ELSE "moveToDone"]
    BY <1>1 DEF RunReturns, Own
  <1>3. NoWorker \in Process /\ NoWorker.job = None /\ NoWorker.code = None
    BY DEF NoWorker, Process
  <1>4. worker[c].code \in Nat
    BY <1>1 DEF RunReturns, Own, Process
  <1>5. LocalStep(c)
    <2>2. ctl'[c] \in Memory
      BY <1>1, <1>4, SMTT(30) DEF RunReturns, Own, Memory, Holding
    <2> QED BY <1>1, <1>2, <2>2, <1>3 DEF RunReturns, LocalStep, Own, fsVars, envVars
  <1>6. /\ ctl'[c].pc = IF worker[c].code = CodeSuccess THEN "respond"
                         ELSE IF /\ Kind[ctl[c].job.request] = "execution"
                                 /\ worker[c].code \in DeferToOtherLargeCodes
                              THEN "defer" ELSE "moveToDone"
        /\ ctl'[c].job = ctl[c].job /\ ctl'[c].activeJob = ctl[c].activeJob
        /\ ctl'[c].jobs = ctl[c].jobs /\ ctl'[c].code = worker[c].code
        /\ ctl'[c].cancelled = ctl[c].cancelled
        /\ ctl'[c].spotReclaimDetected = ctl[c].spotReclaimDetected
        /\ ctl'[c].gracefulShutdownRequested = ctl[c].gracefulShutdownRequested
        /\ ctl'[c].handler = ctl[c].handler /\ ctl'[c].grace = ctl[c].grace
    BY <1>1, <1>2, SMTT(30) DEF Own, Memory
  <1>7. ctl[c].pc = "running" /\ UNCHANGED <<file, responses, tmp, crashes>> /\ worker'[c] = NoWorker
    BY <1>1 DEF RunReturns, Own, fsVars, envVars, IsUp
  <1>8. JobIsKnown(c)'
    BY <1>1, <1>3, <1>4, <1>6, <1>7, ConfigAssumption DEF Own, JobIsKnown, Holding, CodeSuccess
  <1>9. ASSUME NoSpotReclaim
        PROVE  KeepsOwn(c)
    BY <1>1, <1>3, <1>4, <1>6, <1>7, <1>9, ConfigAssumption DEF Own, KeepsOwn, KeepsItsLock, HoldsFor,
       IsFiling, ListedJobsMatch, Holding, CodeSuccess, JobIsKnown
  <1> QED BY <1>5, <1>7, <1>8, <1>9, MemoryStep

\* runCmd returns because the context is done.
LEMMA KilledByUsStep ==
    ASSUME IInv, NEW c \in Controller, KilledByUs(c)
    PROVE  IInv'
  <1>1. Own(c)
    BY OwnInvariant
  <1>2. ctl'[c] = [ctl[c] EXCEPT !.pc = "idle", !.job = None]
    BY <1>1 DEF KilledByUs, Own
  <1>3. LocalStep(c)
    <2>1. ctl[c] \in Memory
      BY <1>1 DEF Own
    <2>2. [ctl[c] EXCEPT !.pc = "idle", !.job = None] \in Memory
      BY <2>1, Zenon DEF Memory
    <2> QED BY <1>1, <1>2, <2>2 DEF KilledByUs, LocalStep, Own, fsVars, envVars
  <1>4. /\ ctl'[c].pc = "idle" /\ ctl'[c].job = None /\ ctl'[c].activeJob = ctl[c].activeJob
        /\ ctl'[c].jobs = ctl[c].jobs /\ ctl'[c].code = ctl[c].code
        /\ ctl'[c].cancelled = ctl[c].cancelled
        /\ ctl'[c].spotReclaimDetected = ctl[c].spotReclaimDetected
        /\ ctl'[c].gracefulShutdownRequested = ctl[c].gracefulShutdownRequested
        /\ ctl'[c].handler = ctl[c].handler /\ ctl'[c].grace = ctl[c].grace
    BY <1>1, <1>2, SMTT(30) DEF Own, Memory
  <1>5. /\ ctl[c].pc = "running" /\ ctl[c].cancelled
        /\ UNCHANGED <<file, responses, worker, crashes>> /\ tmp'[c] = None
    BY <1>1 DEF KilledByUs, Own, fsVars, envVars, IsUp
  <1>6. JobIsKnown(c)'
    BY <1>1, <1>4, <1>5 DEF Own, JobIsKnown, Holding
  <1>7. ASSUME NoSpotReclaim
        PROVE  KeepsOwn(c)
    BY <1>1, <1>4, <1>5, <1>7, ConfigAssumption, SMTT(30) DEF Own, KeepsOwn, KeepsItsLock, HoldsFor, IsFiling,
                                                    ListedJobsMatch, Holding, JobIsKnown
  <1> QED BY <1>3, <1>5, <1>6, <1>7, MemoryStep

\* The cmdCtx.Done branch, up to the decision to sleep.
LEMMA BeginExitStep ==
    ASSUME IInv, NEW c \in Controller, BeginExit(c)
    PROVE  IInv'
  <1>1. Own(c)
    BY OwnInvariant
  <1>2. ctl'[c] = [ctl[c] EXCEPT !.pc = "exiting", !.slept = ctl[c].spotReclaimDetected]
    BY <1>1 DEF BeginExit, Own
  <1>3. LocalStep(c)
    <2>1. ctl[c] \in Memory
      BY <1>1 DEF Own
    <2>2. [ctl[c] EXCEPT !.pc = "exiting", !.slept = ctl[c].spotReclaimDetected] \in Memory
      BY <2>1, Zenon DEF Memory
    <2> QED BY <1>1, <1>2, <2>2 DEF BeginExit, LocalStep, Own, fsVars, envVars
  <1>4. /\ ctl'[c].pc = "exiting" /\ ctl'[c].job = ctl[c].job
        /\ ctl'[c].activeJob = ctl[c].activeJob /\ ctl'[c].jobs = ctl[c].jobs
        /\ ctl'[c].code = ctl[c].code /\ ctl'[c].cancelled = ctl[c].cancelled
        /\ ctl'[c].spotReclaimDetected = ctl[c].spotReclaimDetected
        /\ ctl'[c].gracefulShutdownRequested = ctl[c].gracefulShutdownRequested
        /\ ctl'[c].handler = ctl[c].handler /\ ctl'[c].grace = ctl[c].grace
    BY <1>1, <1>2, SMTT(30) DEF Own, Memory
  <1>5. ctl[c].pc = "idle" /\ ctl[c].cancelled /\ UNCHANGED <<file, responses, worker, tmp, crashes>>
    BY <1>1 DEF BeginExit, Own, fsVars, envVars, IsUp
  <1>6. JobIsKnown(c)'
    BY <1>1, <1>4, <1>5 DEF Own, JobIsKnown, Holding
  <1>7. ASSUME NoSpotReclaim
        PROVE  KeepsOwn(c)
    BY <1>1, <1>4, <1>5, <1>7 DEF Own, KeepsOwn, KeepsItsLock, HoldsFor, IsFiling, ListedJobsMatch,
                                  Holding
  <1> QED BY <1>3, <1>5, <1>6, <1>7, MemoryStep

\* The grace period ends.
LEMMA GraceExpiresStep ==
    ASSUME IInv, NEW c \in Controller, GraceExpires(c)
    PROVE  IInv'
  <1>1. Own(c)
    BY OwnInvariant
  <1>2. ctl'[c] = [ctl[c] EXCEPT !.cancelled = TRUE]
    BY <1>1 DEF GraceExpires, Own
  <1>3. LocalStep(c)
    <2>1. ctl[c] \in Memory
      BY <1>1 DEF Own
    <2>2. [ctl[c] EXCEPT !.cancelled = TRUE] \in Memory
      BY <2>1, Zenon DEF Memory
    <2> QED BY <1>1, <1>2, <2>2 DEF GraceExpires, LocalStep, Own, fsVars, envVars
  <1>4. /\ ctl'[c].pc = ctl[c].pc /\ ctl'[c].job = ctl[c].job
        /\ ctl'[c].activeJob = ctl[c].activeJob /\ ctl'[c].jobs = ctl[c].jobs
        /\ ctl'[c].code = ctl[c].code /\ ctl'[c].cancelled = TRUE
        /\ ctl'[c].spotReclaimDetected = ctl[c].spotReclaimDetected
        /\ ctl'[c].gracefulShutdownRequested = ctl[c].gracefulShutdownRequested
        /\ ctl'[c].handler = ctl[c].handler /\ ctl'[c].grace = ctl[c].grace
    BY <1>1, <1>2, SMTT(30) DEF Own, Memory
  <1>5. ctl[c].grace /\ UNCHANGED <<file, responses, worker, tmp, crashes>>
    BY <1>1 DEF GraceExpires, Own, fsVars, envVars, IsUp
  <1>6. JobIsKnown(c)'
    BY <1>1, <1>4, <1>5 DEF Own, JobIsKnown, Holding
  <1>7. ASSUME NoSpotReclaim
        PROVE  KeepsOwn(c)
    BY <1>1, <1>4, <1>5, <1>7 DEF Own, KeepsOwn, KeepsItsLock, HoldsFor, IsFiling, ListedJobsMatch,
                                  Holding
  <1> QED BY <1>3, <1>4, <1>5, <1>6, <1>7, MemoryStep

\* SIGTERM arrives.
LEMMA SigtermStep ==
    ASSUME IInv, NEW c \in Controller, Sigterm(c)
    PROVE  IInv'
  <1>1. Own(c)
    BY OwnInvariant
  <1> DEFINE grace == ctl[c].grace \/ ctl[c].activeJob # None
             cancelled == ctl[c].cancelled \/ ctl[c].activeJob = None
  <1>2. /\ ctl' = [ctl EXCEPT ![c].gracefulShutdownRequested = TRUE, ![c].grace = grace,
                              ![c].cancelled = cancelled]
        /\ grace \in BOOLEAN /\ cancelled \in BOOLEAN
        /\ ctl[c].cancelled => cancelled
    BY DEF Sigterm
  <1> HIDE DEF grace, cancelled
  <1>3. ctl'[c] = [ctl[c] EXCEPT !.gracefulShutdownRequested = TRUE, !.grace = grace, !.cancelled = cancelled]
    BY <1>1, <1>2 DEF Own
  <1>4. ctl[c].pc # "crashed" /\ UNCHANGED <<file, responses, worker, tmp, crashes>>
    BY DEF Sigterm, fsVars, Sent, IsUp
  <1>5. LocalStep(c)
    <2>1. ctl[c] \in Memory
      BY <1>1 DEF Own
    <2>2. [ctl[c] EXCEPT !.gracefulShutdownRequested = TRUE, !.grace = grace, !.cancelled = cancelled] \in Memory
      BY <1>2, <2>1, Zenon DEF Memory
    <2> QED BY <1>1, <1>3, <2>2 DEF Sigterm, LocalStep, Own, fsVars, Sent
  <1>6. /\ ctl'[c].pc = ctl[c].pc /\ ctl'[c].job = ctl[c].job
        /\ ctl'[c].activeJob = ctl[c].activeJob /\ ctl'[c].jobs = ctl[c].jobs
        /\ ctl'[c].code = ctl[c].code /\ ctl'[c].cancelled = cancelled
        /\ ctl'[c].spotReclaimDetected = ctl[c].spotReclaimDetected
        /\ ctl'[c].gracefulShutdownRequested = TRUE /\ ctl'[c].handler = ctl[c].handler
        /\ ctl'[c].grace = grace
    BY <1>1, <1>3, SMTT(30) DEF Own, Memory
  <1>7. JobIsKnown(c)'
    BY <1>1, <1>4, <1>6 DEF Own, JobIsKnown, Holding
  <1>8. ASSUME NoSpotReclaim
        PROVE  KeepsOwn(c)
    BY <1>1, <1>2, <1>4, <1>6, <1>8, SMTT(30) DEF Own, KeepsOwn, KeepsItsLock, HoldsFor, IsFiling,
                                        ListedJobsMatch, Holding
  <1> QED BY <1>4, <1>5, <1>7, <1>8, MemoryStep

\* The handler of SIGUSR1 takes the mutex.
LEMMA LockForRequeueStep ==
    ASSUME IInv, NEW c \in Controller, LockForRequeue(c)
    PROVE  IInv'
  <1>1. Own(c)
    BY OwnInvariant
  <1>2. ctl'[c] = [ctl[c] EXCEPT !.handler = IF ctl[c].activeJob = None THEN "idle" ELSE "requeue"]
    BY <1>1 DEF LockForRequeue, Own
  <1>3. LocalStep(c)
    <2>2. ctl'[c] \in Memory
      BY <1>1, SMTT(30) DEF LockForRequeue, Own, Memory
    <2> QED BY <1>1, <1>2, <2>2 DEF LockForRequeue, LocalStep, Own, fsVars, envVars
  <1>4. /\ ctl'[c].pc = ctl[c].pc /\ ctl'[c].job = ctl[c].job
        /\ ctl'[c].activeJob = ctl[c].activeJob /\ ctl'[c].jobs = ctl[c].jobs
        /\ ctl'[c].code = ctl[c].code /\ ctl'[c].cancelled = ctl[c].cancelled
        /\ ctl'[c].spotReclaimDetected = ctl[c].spotReclaimDetected
        /\ ctl'[c].gracefulShutdownRequested = ctl[c].gracefulShutdownRequested
        /\ ctl'[c].handler = (IF ctl[c].activeJob = None THEN "idle" ELSE "requeue")
        /\ ctl'[c].grace = ctl[c].grace
    BY <1>1, <1>2, SMTT(30) DEF Own, Memory
  <1>5. /\ ctl[c].handler = "lock" /\ UNCHANGED <<file, responses, worker, crashes>>
        /\ tmp'[c] \in {tmp[c], None} /\ (ctl[c].activeJob # None => ctl[c].activeJob \in Job)
    BY <1>1 DEF LockForRequeue, Own, fsVars, envVars, IsUp, Memory
  <1>6. JobIsKnown(c)'
    BY <1>1, <1>4, <1>5 DEF Own, JobIsKnown, Holding
  <1>7. ASSUME NoSpotReclaim
        PROVE  KeepsOwn(c)
    BY <1>1, <1>4, <1>5, <1>7 DEF Own, KeepsOwn, KeepsItsLock, HoldsFor, IsFiling, ListedJobsMatch,
                                  Holding
  <1> QED BY <1>3, <1>4, <1>5, <1>6, <1>7, MemoryStep

\* SIGUSR1 arrives.
LEMMA Sigusr1Step ==
    ASSUME IInv, NEW c \in Controller, Sigusr1(c)
    PROVE  IInv'
  <1>1. Own(c)
    BY OwnInvariant
  <1> DEFINE cancelled == ctl[c].cancelled \/ ~ ctl[c].gracefulShutdownRequested
  <1>2. /\ ctl' = [ctl EXCEPT ![c].spotReclaimDetected = TRUE, ![c].cancelled = cancelled,
                              ![c].handler = "lock"]
        /\ cancelled \in BOOLEAN
    BY DEF Sigusr1
  <1> HIDE DEF cancelled
  <1>3. ctl'[c] = [ctl[c] EXCEPT !.spotReclaimDetected = TRUE, !.cancelled = cancelled, !.handler = "lock"]
    BY <1>1, <1>2 DEF Own
  <1>4. ctl[c].pc # "crashed" /\ ~ NoSpotReclaim /\ UNCHANGED <<worker, tmp, crashes>>
    BY DEF Sigusr1, fsVars, Sent, IsUp, NoSpotReclaim
  <1>5. LocalStep(c)
    <2>1. ctl[c] \in Memory
      BY <1>1 DEF Own
    <2>2. [ctl[c] EXCEPT !.spotReclaimDetected = TRUE, !.cancelled = cancelled, !.handler = "lock"] \in Memory
      BY <1>2, <2>1, Zenon DEF Memory
    <2> QED BY <1>1, <1>3, <2>2 DEF Sigusr1, LocalStep, Own, fsVars, Sent
  <1>6. /\ ctl'[c].pc = ctl[c].pc /\ ctl'[c].job = ctl[c].job /\ ctl'[c].code = ctl[c].code
        /\ ctl'[c].handler = "lock"
    BY <1>1, <1>3, SMTT(30) DEF Own, Memory
  <1>7. JobIsKnown(c)'
    BY <1>1, <1>4, <1>6 DEF Own, JobIsKnown, Holding
  <1> QED BY <1>4, <1>5, <1>7, MemoryStep

\* A container that starts, has stopped or has crashed remembers nothing.
LEMMA FreshMemory ==
    ASSUME NEW pc \in {"idle", "stopped", "crashed"}
    PROVE  /\ Fresh(pc) \in Memory
           /\ Fresh(pc).pc = pc /\ Fresh(pc).job = None /\ Fresh(pc).activeJob = None
           /\ Fresh(pc).jobs = {} /\ Fresh(pc).code = None
           /\ Fresh(pc).cancelled = FALSE /\ Fresh(pc).grace = FALSE
           /\ Fresh(pc).spotReclaimDetected = FALSE /\ Fresh(pc).handler = "idle"
           /\ NoWorker \in Process /\ NoWorker.job = None /\ NoWorker.code = None
  BY DEF Fresh, Memory, NoWorker, Process

\* Such a controller has nothing to keep.
LEMMA FreshKeeps ==
    ASSUME NEW c, NEW pc \in {"idle", "stopped", "crashed"}, ctl'[c] = Fresh(pc)
    PROVE  /\ KeepsItsLock(c)' /\ ListedJobsMatch(c)'
           /\ pc # "crashed" => JobIsKnown(c)'
  <1>1. /\ ctl'[c].pc = pc /\ ctl'[c].activeJob = None /\ ctl'[c].jobs = {} /\ ctl'[c].handler = "idle"
        /\ ctl'[c].spotReclaimDetected = FALSE /\ ctl'[c].cancelled = FALSE /\ ctl'[c].grace = FALSE
    BY FreshMemory, Zenon
  <1>2. pc \notin Holding \cup {"finish", "locking", "exiting"}
    BY DEF Holding
  <1>3. pc # "crashed" => JobIsKnown(c)'
    BY <1>1, <1>2 DEF JobIsKnown, Holding
  <1>4. KeepsItsLock(c)'
    BY <1>1, <1>2 DEF KeepsItsLock, Holding
  <1> QED BY <1>1, <1>3, <1>4 DEF ListedJobsMatch

LEMMA CrashStep ==
    ASSUME IInv, NEW c \in Controller, Crash(c)
    PROVE  IInv'
  <1>1. Own(c) /\ crashes \in Nat
    BY OwnInvariant, ConfigAssumption, SMTT(30) DEF IInv, TypeOK
  <1>2. ctl' = [ctl EXCEPT ![c] = Fresh("crashed")] /\ ctl'[c] = Fresh("crashed")
    BY <1>1 DEF Crash, Own
  <1>3. LocalStep(c)
    BY <1>1, <1>2, FreshMemory DEF Crash, LocalStep, Own, fsVars
  <1>4. c \in Unstable /\ crashes' > 0 /\ ctl[c].pc # "crashed"
    BY <1>1, SMTT(30) DEF Crash, IsUp
  <1>5. ctl'[c].pc = "crashed"
    BY <1>2, FreshMemory
  <1>6. JobIsKnown(c)'
    BY <1>2, <1>4, FreshMemory DEF JobIsKnown, Holding
  <1>7. KeepsOwn(c)
    <2>1. KeepsItsLock(c)' /\ ListedJobsMatch(c)'
      BY <1>2, FreshKeeps
    <2> QED BY <1>4, <1>5, <2>1, SMTT(30) DEF KeepsOwn
  <1> QED BY <1>3, <1>5, <1>6, <1>7, MemoryStep

\* A directory listing: the jobs are requests in the queue, under names that match.
LEMMA ListJobsStep ==
    ASSUME IInv, NEW c \in Controller, ListJobs(c)
    PROVE  IInv'
  <1>1. Own(c)
    BY OwnInvariant
  <1>2. UNCHANGED <<file, responses, traces, tmp, worker, signals, crashes>>
    BY DEF ListJobs, fsVars, envVars
  <1>3. PICK jobs :
          /\ ctl' = [ctl EXCEPT ![c].pc = "locking", ![c].jobs = jobs]
          /\ jobs = {[request |-> r, suffixes |-> file[r].suffixes] :
                       r \in {q \in Request : /\ file[q].at = "requests"
                                              /\ file[q].owner = None
                                              /\ Kind[q] \in JobToWatch[c]
                                              /\ Matches(c, Kind[q], file[q].suffixes)}}
    BY DEF ListJobs
  <1>4. ctl[c].pc = "idle" /\ ~ ctl[c].cancelled
    BY DEF ListJobs
  <1>5. ASSUME NEW job \in jobs
        PROVE  job \in Job /\ Matches(c, Kind[job.request], job.suffixes)
    <2>1. PICK r \in Request : /\ job = [request |-> r, suffixes |-> file[r].suffixes]
                               /\ file[r].at = "requests"
                               /\ Matches(c, Kind[r], file[r].suffixes)
      BY <1>3
    <2>2. file[r].suffixes \in Seq({"large", "failure"})
      BY <2>1 DEF IInv, TypeOK, Files
    <2> QED BY <2>1, <2>2 DEF Job
  <1>6. ctl'[c] = [ctl[c] EXCEPT !.pc = "locking", !.jobs = jobs]
    BY <1>1, <1>3 DEF Own
  <1>7. LocalStep(c)
    <2>1. ctl[c] \in Memory /\ jobs \in SUBSET Job
      BY <1>1, <1>5 DEF Own
    <2>2. [ctl[c] EXCEPT !.pc = "locking", !.jobs = jobs] \in Memory
      BY <2>1, Zenon DEF Memory
    <2> QED BY <1>1, <1>2, <1>3, <1>6, <2>2 DEF LocalStep, Own
  <1>8. /\ ctl'[c].pc = "locking" /\ ctl'[c].job = ctl[c].job /\ ctl'[c].activeJob = ctl[c].activeJob
        /\ ctl'[c].jobs = jobs /\ ctl'[c].code = ctl[c].code
        /\ ctl'[c].cancelled = ctl[c].cancelled
        /\ ctl'[c].spotReclaimDetected = ctl[c].spotReclaimDetected
        /\ ctl'[c].gracefulShutdownRequested = ctl[c].gracefulShutdownRequested
        /\ ctl'[c].handler = ctl[c].handler /\ ctl'[c].grace = ctl[c].grace
    BY <1>1, <1>6, SMTT(30) DEF Own, Memory
  <1>9. JobIsKnown(c)'
    BY <1>1, <1>2, <1>4, <1>8 DEF Own, JobIsKnown, Holding
  <1>10. ASSUME NoSpotReclaim
         PROVE  KeepsOwn(c)
    <2>1. KeepsItsLock(c)'
      BY <1>1, <1>2, <1>4, <1>8, <1>10 DEF Own, KeepsItsLock, Holding
    <2>2. \A r \in Request : ~ HoldsFor(c, r) /\ ~ IsFiling(c, r)
      BY <1>1, <1>4, <1>10 DEF Own, KeepsItsLock, HoldsFor, IsFiling, Holding
    <2>3. ListedJobsMatch(c)'
      BY <1>5, <1>8 DEF ListedJobsMatch
    <2> QED BY <2>1, <2>2, <2>3 DEF KeepsOwn
  <1> QED BY <1>4, <1>7, <1>9, <1>10, MemoryStep

\* A worker process exits; only a successful one writes the tmp response file.
LEMMA WorkerExitsStep ==
    ASSUME IInv, NEW c \in Controller, NEW code \in Nat, WorkerExits(c, code)
    PROVE  IInv'
  <1>1. Own(c)
    BY OwnInvariant
  <1>2. /\ UNCHANGED <<file, responses, traces, ctl, signals, crashes>>
        /\ worker[c].job # None /\ worker[c].code = None
    BY DEF WorkerExits, envVars
  <1>3. worker[c].job \in Job /\ worker[c].job.request \in Request
    BY <1>1, <1>2, SMTT(30) DEF Own, Process, Job
  <1>4. /\ worker' = [worker EXCEPT ![c].code = code]
        /\ worker'[c].job = worker[c].job /\ worker'[c].code = code
        /\ tmp' = IF code = CodeSuccess THEN [tmp EXCEPT ![c] = worker[c].job.request] ELSE tmp
        /\ tmp'[c] = IF code = CodeSuccess THEN worker[c].job.request ELSE tmp[c]
    BY <1>1 DEF WorkerExits, Own, Process
  <1>5. LocalStep(c)
    <2>1. worker' \in [Controller -> Process]
      BY <1>1, <1>4 DEF Own, Process
    <2> QED BY <1>1, <1>2, <1>3, <1>4, <2>1 DEF LocalStep, Own
  <1>6. JobIsKnown(c)'
    BY <1>1, <1>2, <1>4 DEF Own, JobIsKnown
  <1>7. ASSUME NoSpotReclaim
        PROVE  KeepsOwn(c)
    <2>1. KeepsItsLock(c)'
      BY <1>1, <1>2, <1>4, <1>7 DEF Own, JobIsKnown, KeepsItsLock
    <2> QED BY <1>1, <1>2, <1>7, <2>1 DEF Own, KeepsOwn, HoldsFor, IsFiling, ListedJobsMatch
  <1> QED BY <1>2, <1>5, <1>6, <1>7, MemoryStep

\* tmpResponseFile becomes the response file.
LEMMA MoveResponseStep ==
    ASSUME IInv, NEW c \in Controller, MoveResponse(c)
    PROVE  IInv'
  <1>1. ctl[c] \in Memory /\ ctl \in [Controller -> Memory]
    BY DEF IInv, TypeOK
  <1>2. /\ UNCHANGED <<file, traces, worker, signals, crashes>>
        /\ \A d \in Controller \ {c} : ctl'[d] = ctl[d] /\ worker'[d] = worker[d] /\ tmp'[d] = tmp[d]
    BY <1>1 DEF MoveResponse, envVars, IInv, TypeOK
  <1>3. /\ ctl[c].pc = "respond"
        /\ ctl[c].job \in Job
        /\ ctl[c].job.request \in Request
        /\ tmp[c] \in {None, ctl[c].job.request}
    BY DEF MoveResponse, IInv, JobIsKnown, Job, Holding
  <1>4. ctl'[c] = [ctl[c] EXCEPT !.pc = "deleteTrace"]
    BY <1>1 DEF MoveResponse
  <1>5. responses' = IF tmp[c] = None THEN responses
                     ELSE [responses EXCEPT ![ctl[c].job.request] = ctl[c].job.request]
    BY <1>3 DEF MoveResponse
  <1>6. TypeOK'
    <2>1. ctl'[c] \in Memory
      BY <1>1, <1>4 DEF Memory, Holding
    <2>2. ctl' \in [Controller -> Memory]
      BY <1>1, <2>1 DEF MoveResponse
    <2>3. responses' \in [Request -> Request \cup {None}]
      BY <1>3, <1>5 DEF IInv, TypeOK
    <2>4. tmp' \in [Controller -> Request \cup {None}]
      BY DEF MoveResponse, IInv, TypeOK
    <2> QED BY <1>2, <2>2, <2>3, <2>4 DEF IInv, TypeOK
  <1>7. \A r \in Request : responses'[r] = responses[r] \/ (r = ctl[c].job.request /\ responses'[r] = r)
    BY <1>3, <1>5 DEF IInv, TypeOK
  <1>8. \A r \in Request : responses[r] \in {None, r}
    BY DEF IInv, ResponseIsOfItsRequest
  <1>9. StepOf(c)
    <2>1. \A r \in Request : responses[r] # None => responses'[r] = responses[r]
      BY <1>7, <1>8
    <2> QED BY <1>2, <2>1 DEF StepOf
  <1>10. /\ ctl'[c].pc = "deleteTrace" /\ ctl'[c].job = ctl[c].job /\ ctl'[c].code = ctl[c].code
         /\ ctl'[c].handler = ctl[c].handler /\ ctl'[c].activeJob = ctl[c].activeJob
         /\ ctl'[c].jobs = ctl[c].jobs
    BY <1>1, <1>4 DEF Memory
  <1>11. JobIsKnown(c)'
    BY <1>2, <1>3, <1>10 DEF IInv, JobIsKnown, Holding
  <1>12. ASSUME NoSpotReclaim
         PROVE  /\ KeepsItsLock(c)'
                /\ LocksAreHeld(c)'
                /\ \A r \in Request : responses'[r] # None /\ responses[r] = None => IsFiling(c, r)'
    <2>1. /\ KeepsItsLock(c) /\ LocksAreHeld(c)
      BY <1>12 DEF IInv
    <2>2. /\ tmp[c] = ctl[c].job.request /\ ctl[c].code = CodeSuccess
          /\ file[ctl[c].job.request] = InProgress(c, ctl[c].job)
      BY <1>3, <2>1 DEF KeepsItsLock, Holding
    <2>3. responses'[ctl[c].job.request] # None
      BY <1>3, <1>5, <2>2, ConfigAssumption DEF IInv, TypeOK
    <2>4. KeepsItsLock(c)'
      BY <1>1, <1>2, <1>3, <1>4, <2>1, <2>2, <2>3, SMTT(30) DEF KeepsItsLock, Memory, Holding
    <2>5. LocksAreHeld(c)'
      BY <1>2, <1>3, <1>10, <2>1 DEF LocksAreHeld, HoldsFor, IsLockedBy, Holding
    <2>6. \A r \in Request : responses'[r] # None /\ responses[r] = None => IsFiling(c, r)'
      BY <1>7, <1>10, <2>2 DEF IsFiling
    <2> QED BY <2>4, <2>5, <2>6
  <1>13. OwnPart(c)
    <2>1. crashes' > 0 => Unstable # {}
      BY <1>2 DEF IInv
    <2>2. \A r \in Request : responses'[r] \in {None, r}
      BY <1>7, <1>8
    <2>3. \A r \in Request : ~ IsFiling(c, r)
      BY <1>3 DEF IsFiling
    <2>4. NoSpotReclaim /\ LargeIsStable => ListedJobsMatch(c)'
      BY <1>10 DEF IInv, ListedJobsMatch
    <2> QED BY <1>2, <1>11, <1>12, <2>1, <2>2, <2>3, <2>4 DEF OwnPart
  <1> QED BY <1>6, <1>9, <1>13, ControllerStep

\* tryDeleteExecution removes the trace of a request whose response exists.
LEMMA TryDeleteExecutionStep ==
    ASSUME IInv, NEW c \in Controller, TryDeleteExecution(c)
    PROVE  IInv'
  <1>1. ctl[c] \in Memory /\ ctl \in [Controller -> Memory]
    BY DEF IInv, TypeOK
  <1>2. /\ UNCHANGED <<file, responses, tmp, worker, signals, crashes>>
        /\ \A d \in Controller \ {c} : ctl'[d] = ctl[d] /\ worker'[d] = worker[d] /\ tmp'[d] = tmp[d]
    BY <1>1 DEF TryDeleteExecution, envVars
  <1>3. ctl[c].pc = "deleteTrace" /\ ctl[c].job \in Job
    BY DEF TryDeleteExecution, IInv, JobIsKnown, Holding
  <1>4. traces' = traces \/ traces' = traces \ {ctl[c].job.request}
    BY DEF TryDeleteExecution
  <1>5. ctl'[c] = [ctl[c] EXCEPT !.pc = "moveToDone"]
    BY <1>1 DEF TryDeleteExecution
  <1>6. TypeOK'
    <2>1. ctl'[c] \in Memory
      BY <1>1, <1>5 DEF Memory, Holding
    <2>2. ctl' \in [Controller -> Memory]
      BY <1>1, <2>1 DEF TryDeleteExecution
    <2>3. traces' \subseteq Request
      BY <1>4 DEF IInv, TypeOK
    <2> QED BY <1>2, <2>2, <2>3 DEF IInv, TypeOK
  <1>7. StepOf(c)
    BY <1>2 DEF StepOf
  <1>8. JobIsKnown(c)'
    BY <1>1, <1>2, <1>3, <1>5 DEF IInv, JobIsKnown, Memory, Holding
  <1>9. ASSUME NoSpotReclaim
        PROVE  /\ KeepsItsLock(c)'
               /\ LocksAreHeld(c)'
               /\ \A r \in Request : IsFiling(c, r) => IsFiling(c, r)'
               /\ responses[ctl[c].job.request] # None
    <2>1. KeepsItsLock(c) /\ LocksAreHeld(c)
      BY <1>9 DEF IInv
    <2>2. KeepsItsLock(c)'
      BY <1>1, <1>2, <1>3, <1>5, <2>1, SMTT(30) DEF KeepsItsLock, Memory, Holding
    <2>3. LocksAreHeld(c)'
      BY <1>1, <1>2, <1>3, <1>5, <2>1, SMTT(30) DEF LocksAreHeld, HoldsFor, IsLockedBy, Memory, Holding
    <2>4. \A r \in Request : IsFiling(c, r) => IsFiling(c, r)'
      BY <1>1, <1>3, <1>5 DEF IsFiling, Memory
    <2>5. responses[ctl[c].job.request] # None
      BY <1>3, <2>1 DEF KeepsItsLock
    <2> QED BY <2>2, <2>3, <2>4, <2>5
  <1>10. OwnPart(c)
    <2>1. crashes' > 0 => Unstable # {}
      BY <1>2 DEF IInv
    <2>2. \A r \in Request : responses'[r] \in {None, r}
      BY <1>2 DEF IInv, ResponseIsOfItsRequest
    <2>3. ctl'[c].jobs = ctl[c].jobs
      BY <1>1, <1>5 DEF Memory
    <2>4. NoSpotReclaim /\ LargeIsStable => ListedJobsMatch(c)'
      BY <2>3 DEF IInv, ListedJobsMatch
    <2> QED BY <1>2, <1>4, <1>8, <1>9, <2>1, <2>2, <2>4 DEF OwnPart
  <1> QED BY <1>6, <1>7, <1>10, ControllerStep

(* Renames *****************************************************************)

\* os.Rename of an in-progress file changes that file only.
LEMMA RenameFrame ==
    ASSUME IInv, NEW c \in Controller, NEW job \in Job, NEW to \in Files,
           to.at = "done" \/ (to.at = "requests" /\ to.owner = None),
           RenameInProgress(c, job, to)
    PROVE  /\ file' \in [Request -> Files]
           /\ \A r \in Request :
                 \/ file'[r] = file[r]
                 \/ r = job.request /\ IsLockedBy(r, c) /\ file'[r] = to
           /\ file[job.request] = InProgress(c, job) => file'[job.request] = to
           /\ \A r \in Request, d \in Controller : IsLockedBy(r, d)' => file'[r] = file[r] /\ IsLockedBy(r, d)
  <1>1. job.request \in Request /\ file \in [Request -> Files]
    BY DEF Job, IInv, TypeOK
  <1>2. file' \in [Request -> Files]
    BY <1>1 DEF RenameInProgress
  <1>3. ASSUME NEW r \in Request
        PROVE  file'[r] = file[r] \/ (r = job.request /\ IsLockedBy(r, c) /\ file'[r] = to)
    BY <1>1, SMTT(30) DEF RenameInProgress, InProgress, Locked, IsLockedBy
  <1>4. file[job.request] = InProgress(c, job) => file'[job.request] = to
    BY <1>1 DEF RenameInProgress
  <1>5. ASSUME NEW r \in Request, NEW d \in Controller, IsLockedBy(r, d)'
        PROVE  file'[r] = file[r] /\ IsLockedBy(r, d)
    BY <1>3, <1>5, ConfigAssumption DEF IsLockedBy
  <1> QED BY <1>2, <1>3, <1>4, <1>5

\* It is a step of the controller.
LEMMA RenameIsStepOf ==
    ASSUME IInv, NEW c \in Controller, NEW job \in Job, NEW to \in Files,
           to.at = "done" \/ (to.at = "requests" /\ to.owner = None),
           RenameInProgress(c, job, to), UNCHANGED <<responses, crashes>>,
           \A d \in Controller \ {c} : ctl'[d] = ctl[d] /\ worker'[d] = worker[d] /\ tmp'[d] = tmp[d]
    PROVE  StepOf(c)
  <1>1. ASSUME NEW r \in Request
        PROVE  \/ file'[r] = file[r]
               \/ /\ IsLockedBy(r, None) \/ IsLockedBy(r, c)
                  /\ \A d \in Controller \ {c} : ~ IsLockedBy(r, d)'
                  /\ file'[r].at # "absent"
    BY RenameFrame, ConfigAssumption, SMTT(30) DEF IsLockedBy
  <1> QED BY <1>1 DEF StepOf

\* The request moves to the done directory.
LEMMA MoveToDoneStep ==
    ASSUME IInv, NEW c \in Controller, MoveToDone(c)
    PROVE  IInv'
  <1> DEFINE job == ctl[c].job
             to == Done(ctl[c].code)
  <1>1. ctl[c] \in Memory /\ ctl \in [Controller -> Memory]
    BY DEF IInv, TypeOK
  <1>2. /\ UNCHANGED <<responses, traces, tmp, worker, signals, crashes>>
        /\ \A d \in Controller \ {c} : ctl'[d] = ctl[d] /\ worker'[d] = worker[d] /\ tmp'[d] = tmp[d]
    BY <1>1 DEF MoveToDone, envVars
  <1>3. ctl[c].pc = "moveToDone" /\ job \in Job /\ ctl[c].code \in Nat
    BY DEF MoveToDone, IInv, JobIsKnown, Holding
  <1>4. ctl'[c] = [ctl[c] EXCEPT !.pc = "finish"]
    BY <1>1 DEF MoveToDone
  <1>5. /\ to \in Files /\ to.at = "done" /\ to.code = ctl[c].code
        /\ RenameInProgress(c, job, to)
    BY <1>3 DEF Files, Done, MoveToDone
  <1> HIDE DEF job, to
  <1>6. /\ file' \in [Request -> Files]
        /\ \A r \in Request : file'[r] = file[r] \/ (r = job.request /\ IsLockedBy(r, c) /\ file'[r] = to)
        /\ file[job.request] = InProgress(c, job) => file'[job.request] = to
        /\ \A r \in Request, d \in Controller : IsLockedBy(r, d)' => file'[r] = file[r] /\ IsLockedBy(r, d)
    BY <1>3, <1>5, RenameFrame
  <1>7. StepOf(c)
    BY <1>2, <1>3, <1>5, RenameIsStepOf
  <1>8. TypeOK'
    <2>1. ctl'[c] \in Memory
      BY <1>1, <1>4 DEF Memory, Holding
    <2>2. ctl' \in [Controller -> Memory]
      BY <1>1, <2>1 DEF MoveToDone
    <2> QED BY <1>2, <1>6, <2>2 DEF IInv, TypeOK
  <1>9. JobIsKnown(c)'
    BY <1>1, <1>2, <1>3, <1>4 DEF IInv, JobIsKnown, Memory, Holding, job
  <1>10. ASSUME NoSpotReclaim
         PROVE  /\ KeepsItsLock(c)'
                /\ LocksAreHeld(c)'
                /\ \A r \in Request : IsFiling(c, r) => file'[r] = Done(CodeSuccess)
                /\ ctl[c].code = CodeSuccess => responses[job.request] # None
    <2>1. KeepsItsLock(c) /\ LocksAreHeld(c)
      BY <1>10 DEF IInv
    <2>2. KeepsItsLock(c)'
      BY <1>1, <1>2, <1>3, <1>4, <2>1 DEF KeepsItsLock, Memory, Holding
    <2>3. file[job.request] = InProgress(c, job)
      BY <1>3, <2>1 DEF KeepsItsLock, Holding, job
    <2>4. LocksAreHeld(c)'
      <3> SUFFICES ASSUME NEW r \in Request, IsLockedBy(r, c)'
                   PROVE  Kind[r] # "execution" /\ crashes > 0
        BY <1>2 DEF LocksAreHeld
      <3>1. r # job.request
        BY <1>5, <1>6, <2>3 DEF IsLockedBy
      <3>2. IsLockedBy(r, c)
        BY <1>6
      <3> QED BY <1>3, <2>1, <3>1, <3>2 DEF LocksAreHeld, HoldsFor, job
    <2>5. \A r \in Request : IsFiling(c, r) => file'[r] = Done(CodeSuccess)
      BY <1>6, <2>3 DEF IsFiling, job, to
    <2>6. ctl[c].code = CodeSuccess => responses[job.request] # None
      BY <1>3, <2>1 DEF KeepsItsLock, job
    <2> QED BY <2>2, <2>4, <2>5, <2>6
  <1>11. OwnPart(c)
    <2>1. crashes' > 0 => Unstable # {}
      BY <1>2 DEF IInv
    <2>2. \A r \in Request : responses'[r] \in {None, r}
      BY <1>2 DEF IInv, ResponseIsOfItsRequest
    <2>3. ctl'[c].jobs = ctl[c].jobs
      BY <1>1, <1>4 DEF Memory
    <2>4. NoSpotReclaim /\ LargeIsStable => ListedJobsMatch(c)'
      BY <2>3 DEF IInv, ListedJobsMatch
    <2>5. ASSUME NEW r \in Request, file'[r] # file[r]
          PROVE  NameIsKnown(r)' /\ r = job.request /\ file'[r] = to
      BY <1>5, <1>6, <2>5 DEF NameIsKnown
    <2>6. to = Done(CodeSuccess) => ctl[c].code = CodeSuccess
      BY DEF to, Done
    <2> QED BY <1>2, <1>9, <1>10, <2>1, <2>2, <2>4, <2>5, <2>6 DEF OwnPart
  <1> QED BY <1>7, <1>8, <1>11, ControllerStep

\* A requeued request keeps its name.
LEMMA RequeueNames ==
    ASSUME IInv, NEW c \in Controller, NEW job \in Job,
           RenameInProgress(c, job, Queued(job.suffixes))
    PROVE  /\ Queued(job.suffixes) \in Files
           /\ Queued(job.suffixes).at = "requests" /\ Queued(job.suffixes).owner = None
           /\ \A r \in Request : file'[r] = Done(CodeSuccess) => file'[r] = file[r]
           /\ NoSpotReclaim /\ LargeIsStable =>
                 \A r \in Request : file'[r] = file[r] \/ NameIsKnown(r)'
  <1> DEFINE to == Queued(job.suffixes)
  <1>1. /\ to \in Files /\ to.at = "requests" /\ to.owner = None /\ to.suffixes = job.suffixes
        /\ job.request \in Request
    BY DEF Files, Queued, Job
  <1>2. file' = IF file[job.request] = InProgress(c, job) THEN [file EXCEPT ![job.request] = to] ELSE file
    BY DEF RenameInProgress
  <1> HIDE DEF to
  <1>3. file \in [Request -> Files]
    BY DEF IInv, TypeOK
  <1>4. ASSUME NEW r \in Request, file'[r] # file[r]
        PROVE  r = job.request /\ file[r] = InProgress(c, job) /\ file'[r] = to
    BY <1>1, <1>2, <1>3, <1>4
  <1>5. \A r \in Request : file'[r] = Done(CodeSuccess) => file'[r] = file[r]
    BY <1>1, <1>4, SMTT(30) DEF Done
  <1>6. ASSUME NoSpotReclaim, LargeIsStable, NEW r \in Request, file'[r] # file[r]
        PROVE  NameIsKnown(r)'
    <2>1. NameIsKnown(r)
      BY <1>6 DEF IInv
    <2>2. file[r].suffixes = job.suffixes /\ file[r].at = "requests" /\ file[r].owner # None
      BY <1>4, <1>6, ConfigAssumption, SMTT(30) DEF InProgress, Locked
    <2> QED BY <1>1, <1>4, <1>6, <2>1, <2>2 DEF NameIsKnown
  <1> QED BY <1>1, <1>5, <1>6 DEF to

\* The handler of SIGUSR1 renames the file back.
LEMMA RequeueActiveJobStep ==
    ASSUME IInv, NEW c \in Controller, RequeueActiveJob(c)
    PROVE  IInv'
  <1> DEFINE job == ctl[c].activeJob
             to == Queued(job.suffixes)
  <1>1. ctl[c] \in Memory /\ ctl \in [Controller -> Memory]
    BY DEF IInv, TypeOK
  <1>2. /\ UNCHANGED <<responses, traces, tmp, worker, signals, crashes>>
        /\ \A d \in Controller \ {c} : ctl'[d] = ctl[d] /\ worker'[d] = worker[d] /\ tmp'[d] = tmp[d]
    BY <1>1 DEF RequeueActiveJob, envVars
  <1>3. ctl[c].handler = "requeue" /\ job \in Job
    BY DEF RequeueActiveJob, IInv, JobIsKnown
  <1>4. ctl'[c] = [ctl[c] EXCEPT !.handler = "idle", !.activeJob = None]
    BY <1>1 DEF RequeueActiveJob
  <1>5. RenameInProgress(c, job, to)
    BY DEF RequeueActiveJob
  <1>6. to \in Files /\ to.at = "requests" /\ to.owner = None
    BY <1>3, <1>5, RequeueNames
  <1> HIDE DEF job, to
  <1>7. file' \in [Request -> Files]
    BY <1>3, <1>5, <1>6, RenameFrame
  <1>8. StepOf(c)
    BY <1>2, <1>3, <1>5, <1>6, RenameIsStepOf
  <1>9. TypeOK'
    <2>1. ctl'[c] \in Memory
      BY <1>1, <1>4 DEF Memory
    <2>2. ctl' \in [Controller -> Memory]
      BY <1>1, <2>1 DEF RequeueActiveJob
    <2> QED BY <1>2, <1>7, <2>2 DEF IInv, TypeOK
  <1>10. JobIsKnown(c)'
    BY <1>1, <1>2, <1>4 DEF IInv, JobIsKnown, Memory
  <1>11. ~ NoSpotReclaim
    BY <1>3 DEF IInv, KeepsItsLock
  <1>12. OwnPart(c)
    BY <1>2, <1>10, <1>11 DEF OwnPart, IInv, ResponseIsOfItsRequest
  <1> QED BY <1>8, <1>9, <1>12, ControllerStep

\* The rest of the exit: an active job is requeued.
LEMMA FinishExitStep ==
    ASSUME IInv, NEW c \in Controller, FinishExit(c)
    PROVE  IInv'
  <1> DEFINE job == ctl[c].activeJob
             to == Queued(job.suffixes)
             requeue == ~ ctl[c].spotReclaimDetected /\ ctl[c].gracefulShutdownRequested /\ job # None
  <1>1. ctl[c] \in Memory /\ ctl \in [Controller -> Memory]
    BY DEF IInv, TypeOK
  <1>2. /\ UNCHANGED <<responses, traces, signals, crashes>>
        /\ \A d \in Controller \ {c} : ctl'[d] = ctl[d] /\ worker'[d] = worker[d] /\ tmp'[d] = tmp[d]
    BY <1>1 DEF FinishExit, envVars, IInv, TypeOK
  <1>3. ctl[c].pc = "exiting" /\ (job # None => job \in Job)
    BY <1>1 DEF FinishExit, Memory
  <1>4. ctl'[c] = Fresh("stopped")
    BY <1>1 DEF FinishExit
  <1>5. \/ requeue /\ RenameInProgress(c, job, to)
        \/ ~ requeue /\ UNCHANGED file
    BY DEF FinishExit
  <1>6. ctl' \in [Controller -> Memory]
    BY <1>1, FreshMemory DEF FinishExit
  <1>7. /\ worker' \in [Controller -> Process]
        /\ tmp' \in [Controller -> Request \cup {None}]
    BY FreshMemory DEF FinishExit, IInv, TypeOK
  <1>8. requeue => to \in Files /\ to.at = "requests" /\ to.owner = None
    BY <1>3, <1>5, RequeueNames
  <1>9. /\ \A r \in Request : file'[r] = Done(CodeSuccess) => file'[r] = file[r]
        /\ NoSpotReclaim /\ LargeIsStable =>
              \A r \in Request : file'[r] = file[r] \/ NameIsKnown(r)'
    BY <1>3, <1>5, RequeueNames
  <1> HIDE DEF job, to
  <1>10. file' \in [Request -> Files] /\ StepOf(c)
    <2>1. CASE requeue
      BY <1>2, <1>3, <1>5, <1>8, <2>1, RenameFrame, RenameIsStepOf
    <2>2. CASE ~ requeue
      BY <1>2, <1>5, <2>2 DEF StepOf, IInv, TypeOK
    <2> QED BY <2>1, <2>2
  <1>11. TypeOK'
    BY <1>2, <1>6, <1>7, <1>10 DEF IInv, TypeOK
  <1>12. JobIsKnown(c)'
    BY <1>4, FreshKeeps
  <1>13. ASSUME NoSpotReclaim
         PROVE  KeepsItsLock(c)' /\ LocksAreHeld(c)'
    <2>1. KeepsItsLock(c) /\ LocksAreHeld(c)
      BY <1>13 DEF IInv
    <2>2. KeepsItsLock(c)'
      BY <1>4, FreshKeeps
    <2>3. LocksAreHeld(c)'
      <3> SUFFICES ASSUME NEW r \in Request, IsLockedBy(r, c)'
                   PROVE  Kind[r] # "execution" /\ crashes > 0
        BY <1>2 DEF LocksAreHeld
      <3>1. IsLockedBy(r, c) /\ (job # None => r # job.request)
        <4>1. CASE job = None
          BY <1>5, <4>1 DEF IsLockedBy
        <4>2. CASE job # None
          <5>1. requeue /\ file[job.request] = InProgress(c, job)
            BY <1>3, <2>1, <4>2 DEF KeepsItsLock, job
          <5>2. /\ file'[job.request] = to
                /\ IsLockedBy(r, c)
            BY <1>3, <1>5, <1>8, <5>1, RenameFrame
          <5> QED BY <1>8, <5>1, <5>2, ConfigAssumption DEF IsLockedBy
        <4> QED BY <4>1, <4>2
      <3> QED BY <1>3, <2>1, <3>1 DEF LocksAreHeld, HoldsFor, Holding, job
    <2> QED BY <2>2, <2>3
  <1>14. OwnPart(c)
    <2>1. crashes' > 0 => Unstable # {}
      BY <1>2 DEF IInv
    <2>2. \A r \in Request : responses'[r] \in {None, r}
      BY <1>2 DEF IInv, ResponseIsOfItsRequest
    <2>3. ListedJobsMatch(c)'
      BY <1>4, FreshKeeps
    <2>4. \A r \in Request : ~ IsFiling(c, r)
      BY <1>3 DEF IsFiling
    <2> QED BY <1>2, <1>9, <1>12, <1>13, <2>1, <2>2, <2>3, <2>4 DEF OwnPart
  <1> QED BY <1>10, <1>11, <1>14, ControllerStep

\* A container restarts: rmPrevDanglingFiles puts its execution requests back.
LEMMA RestartStep ==
    ASSUME IInv, NEW c \in Controller, Restart(c)
    PROVE  IInv'
  <1>1. ctl[c] \in Memory /\ ctl \in [Controller -> Memory] /\ file \in [Request -> Files]
    BY DEF IInv, TypeOK
  <1>2. /\ UNCHANGED <<responses, traces, tmp, worker, signals, crashes>>
        /\ \A d \in Controller \ {c} : ctl'[d] = ctl[d]
        /\ ctl'[c] = Fresh("idle")
    BY <1>1 DEF Restart, envVars
  <1>3. ctl[c].pc \in {"stopped", "crashed"}
    BY DEF Restart, IsUp
  <1>4. ASSUME NEW r \in Request
        PROVE  \/ /\ Kind[r] = "execution" /\ IsLockedBy(r, c)
                  /\ file'[r] = Queued(Append(file[r].suffixes, "large"))
               \/ /\ ~ (Kind[r] = "execution" /\ IsLockedBy(r, c))
                  /\ file'[r] = file[r]
    BY DEF Restart, Recovered, IsLockedBy
  <1>5. ASSUME NEW r \in Request, IsLockedBy(r, c)
        PROVE  /\ Queued(Append(file[r].suffixes, "large")) \in Files
               /\ Queued(Append(file[r].suffixes, "large")).at = "requests"
               /\ Queued(Append(file[r].suffixes, "large")).owner = None
               /\ Queued(Append(file[r].suffixes, "large")).suffixes = Append(file[r].suffixes, "large")
    <2>1. file[r].suffixes \in Seq({"large", "failure"})
      BY <1>1, <1>5 DEF IsLockedBy, Files
    <2>2. Append(file[r].suffixes, "large") \in Seq({"large", "failure"})
      BY <2>1, SMTT(30)
    <2> QED BY <2>2 DEF Queued, Files
  <1> HIDE DEF Queued
  <1>6. TypeOK'
    <2>1. file' \in [Request -> Files]
      <3>1. \A r \in Request : file'[r] \in Files
        BY <1>1, <1>4, <1>5
      <3>2. file' = [r \in Request |-> file'[r]]
        BY DEF Restart
      <3> QED BY <3>1, <3>2
    <2>2. ctl' \in [Controller -> Memory]
      BY <1>1, FreshMemory DEF Restart
    <2> QED BY <1>2, <2>1, <2>2 DEF IInv, TypeOK
  <1>7. StepOf(c)
    <2>1. ASSUME NEW r \in Request
          PROVE  \/ file'[r] = file[r]
                 \/ /\ IsLockedBy(r, None) \/ IsLockedBy(r, c)
                    /\ \A d \in Controller \ {c} : ~ IsLockedBy(r, d)'
                    /\ file'[r].at # "absent"
      BY <1>4, <1>5, ConfigAssumption DEF IsLockedBy
    <2> QED BY <1>2, <2>1 DEF StepOf
  <1>8. JobIsKnown(c)' /\ ListedJobsMatch(c)'
    BY <1>2, FreshKeeps
  <1>9. ASSUME NoSpotReclaim
        PROVE  KeepsItsLock(c)' /\ LocksAreHeld(c)'
    <2>1. KeepsItsLock(c)'
      BY <1>2, FreshKeeps
    <2>2. LocksAreHeld(c)'
      <3> SUFFICES ASSUME NEW r \in Request, IsLockedBy(r, c)'
                   PROVE  Kind[r] # "execution" /\ crashes > 0
        BY <1>2 DEF LocksAreHeld
      <3>1. IsLockedBy(r, c) /\ Kind[r] # "execution"
        BY <1>4, <1>5, ConfigAssumption DEF IsLockedBy
      <3>2. LocksAreHeld(c) /\ JobIsKnown(c)
        BY <1>9 DEF IInv
      <3> QED BY <1>3, <3>1, <3>2 DEF LocksAreHeld, HoldsFor, Holding, JobIsKnown
    <2> QED BY <2>1, <2>2
  <1>10. ASSUME NoSpotReclaim, LargeIsStable, NEW r \in Request, file'[r] # file[r]
         PROVE  NameIsKnown(r)'
    <2>1. /\ Kind[r] = "execution" /\ IsLockedBy(r, c)
          /\ file'[r] = Queued(Append(file[r].suffixes, "large"))
      BY <1>4, <1>10
    <2>2. LocksAreHeld(c) /\ JobIsKnown(c) /\ NameIsKnown(r)
      BY <1>10 DEF IInv
    <2>3. ctl[c].pc = "crashed"
      BY <1>3, <2>1, <2>2 DEF LocksAreHeld, HoldsFor, Holding
    <2>4. c \notin CanRunFullLarge
      BY <1>10, <2>2, <2>3 DEF JobIsKnown, LargeIsStable
    <2>5. file[r].suffixes = << >>
      BY <2>1, <2>2, <2>4, ConfigAssumption DEF NameIsKnown, IsLockedBy
    <2>6. Append(<< >>, "large") = <<"large">>
      BY SMTT(30)
    <2> QED BY <1>5, <2>1, <2>5, <2>6 DEF NameIsKnown
  <1>11. OwnPart(c)
    <2>1. crashes' > 0 => Unstable # {}
      BY <1>2 DEF IInv
    <2>2. \A r \in Request : responses'[r] \in {None, r}
      BY <1>2 DEF IInv, ResponseIsOfItsRequest
    <2>3. \A r \in Request : ~ IsFiling(c, r)
      BY <1>3 DEF IsFiling
    <2>4. \A r \in Request : file'[r] = Done(CodeSuccess) => file'[r] = file[r]
      BY <1>4, <1>5, SMTT(30) DEF Done
    <2> QED BY <1>2, <1>8, <1>9, <1>10, <2>1, <2>2, <2>3, <2>4 DEF OwnPart
  <1> QED BY <1>6, <1>7, <1>11, ControllerStep

\* The coordinator writes a request.
LEMMA WriteRequestStep ==
    ASSUME IInv, NEW q \in Request, WriteRequest(q)
    PROVE  IInv'
  <1>1. file \in [Request -> Files]
    BY DEF IInv, TypeOK
  <1>2. /\ UNCHANGED <<responses, tmp, worker, ctl, signals, crashes>>
        /\ file[q] = Absent
        /\ file' = [file EXCEPT ![q] = Queued(<< >>)]
        /\ traces' = IF Kind[q] = "execution" THEN traces \cup {q} ELSE traces
    BY DEF WriteRequest, envVars
  <1>3. /\ Queued(<< >>) \in Files /\ Queued(<< >>).at = "requests"
        /\ Queued(<< >>).owner = None /\ Queued(<< >>).suffixes = << >>
        /\ Absent.at = "absent"
    BY SMTT(30) DEF Queued, Files, Absent
  <1> HIDE DEF Queued, Absent
  <1>4. file'[q] = Queued(<< >>) /\ \A r \in Request \ {q} : file'[r] = file[r]
    BY <1>1, <1>2
  <1>5. TypeOK'
    BY <1>1, <1>2, <1>3 DEF IInv, TypeOK
  <1>6. ASSUME NEW c \in Controller
        PROVE  JobIsKnown(c)'
    BY <1>2 DEF IInv, JobIsKnown
  <1>8. ASSUME NoSpotReclaim, NEW c \in Controller
        PROVE  KeepsItsLock(c)' /\ LocksAreHeld(c)'
    <2>1. KeepsItsLock(c) /\ LocksAreHeld(c) /\ JobIsKnown(c)
      BY <1>8 DEF IInv
    <2>2. ASSUME NEW job \in Job, file[job.request] = InProgress(c, job)
          PROVE  file'[job.request] = InProgress(c, job)
      <3>1. job.request \in Request /\ job.request # q
        BY <1>2, <1>3, <2>2, SMTT(30) DEF Job, InProgress, Locked
      <3> QED BY <1>4, <2>2, <3>1
    <2>3. ctl[c].pc \in Holding => ctl[c].job \in Job
      BY <2>1 DEF JobIsKnown
    <2>4. ctl[c].activeJob # None => ctl[c].activeJob \in Job
      BY DEF IInv, TypeOK, Memory
    <2> HIDE DEF InProgress
    <2>5. /\ ctl[c].pc \in Holding => file'[ctl[c].job.request] = InProgress(c, ctl[c].job)
          /\ ctl[c].pc \in {"idle", "exiting"} /\ ctl[c].activeJob # None =>
                file'[ctl[c].activeJob.request] = InProgress(c, ctl[c].activeJob)
      BY <2>1, <2>2, <2>3, <2>4 DEF KeepsItsLock
    <2>6. KeepsItsLock(c)'
      BY <1>2, <2>1, <2>5 DEF KeepsItsLock
    <2>7. \A r \in Request : IsLockedBy(r, c)' => IsLockedBy(r, c)
      BY <1>3, <1>4, ConfigAssumption DEF IsLockedBy
    <2>8. LocksAreHeld(c)'
      BY <1>2, <2>1, <2>7 DEF LocksAreHeld, HoldsFor
    <2> QED BY <2>6, <2>8
  <1>9. ASSUME NoSpotReclaim
        PROVE  ResponsesAreFiled' /\ SuccessHasResponse' /\ TraceKeptUntilProven'
    <2>1. ResponsesAreFiled /\ SuccessHasResponse /\ TraceKeptUntilProven
      BY <1>9 DEF IInv
    <2>2. \A r \in Request : file[r] = Done(CodeSuccess) <=> file'[r] = Done(CodeSuccess)
      BY <1>2, <1>3, <1>4, SMTT(30) DEF Done
    <2>3. ResponsesAreFiled'
      BY <1>2, <2>1, <2>2 DEF ResponsesAreFiled, IsFiling
    <2>4. SuccessHasResponse'
      BY <1>2, <2>1, <2>2 DEF SuccessHasResponse
    <2>5. TraceKeptUntilProven'
      BY <1>2, <1>4, <2>1 DEF TraceKeptUntilProven
    <2> QED BY <2>3, <2>4, <2>5
  <1>10. ASSUME NoSpotReclaim, LargeIsStable
         PROVE  /\ \A r \in Request : NameIsKnown(r)'
                /\ \A c \in Controller : ListedJobsMatch(c)'
    BY <1>2, <1>3, <1>4, <1>10 DEF IInv, NameIsKnown, ListedJobsMatch
  <1> QED BY <1>2, <1>5, <1>6, <1>8, <1>9, <1>10 DEF IInv, ResponseIsOfItsRequest

LEMMA InitIInv ==
    ASSUME Init
    PROVE  IInv
  <1>1. Fresh("idle") \in Memory
    BY FreshMemory
  <1>2. NoWorker \in Process
    BY DEF NoWorker, Process
  <1>3. Absent \in Files /\ Absent.at = "absent"
    BY DEF Absent, Files
  <1>4. TypeOK
    <2> HIDE DEF Fresh, NoWorker, Absent
    <2> QED BY <1>1, <1>2, <1>3, ConfigAssumption, SMTT(30) DEF Init, TypeOK
  <1>5. \A c \in Controller : JobIsKnown(c) /\ KeepsItsLock(c) /\ ListedJobsMatch(c)
    <2> TAKE c \in Controller
    <2>1. ctl[c] = Fresh("idle")
      BY DEF Init
    <2>2. /\ ctl[c].pc = "idle" /\ ctl[c].activeJob = None /\ ctl[c].jobs = {} /\ ctl[c].handler = "idle"
          /\ ctl[c].spotReclaimDetected = FALSE /\ ctl[c].cancelled = FALSE /\ ctl[c].grace = FALSE
      BY <2>1, FreshMemory, Zenon
    <2> QED BY <2>2 DEF JobIsKnown, KeepsItsLock, ListedJobsMatch, Holding
  <1>6. \A r \in Request : file[r].at = "absent" /\ responses[r] = None /\ file[r] = Absent
    BY <1>3 DEF Init
  <1>7. (\A c \in Controller : LocksAreHeld(c)) /\ SuccessHasResponse
    BY <1>6, SMTT(30) DEF LocksAreHeld, IsLockedBy, SuccessHasResponse, Done
  <1>8. ResponsesAreFiled /\ TraceKeptUntilProven /\ (\A r \in Request : NameIsKnown(r))
    BY <1>6 DEF ResponsesAreFiled, TraceKeptUntilProven, NameIsKnown
  <1>9. ResponseIsOfItsRequest /\ crashes = 0
    BY <1>6 DEF ResponseIsOfItsRequest, Init
  <1> QED BY <1>4, <1>5, <1>7, <1>8, <1>9, SMTT(30) DEF IInv

\* Every step leaves filed requests and published responses alone.
LEMMA FinalStep ==
    ASSUME IInv, [Next]_vars, NEW r \in Request
    PROVE  /\ file[r].at = "done" => file'[r] = file[r]
           /\ responses[r] # None => responses'[r] = responses[r]
  <1> DEFINE Final == /\ file[r].at = "done" => file'[r] = file[r]
                      /\ responses[r] # None => responses'[r] = responses[r]
  <1>1. file \in [Request -> Files] /\ responses \in [Request -> Request \cup {None}]
    BY DEF IInv, TypeOK
  <1>2. ASSUME NEW c, NEW job, NEW to, RenameInProgress(c, job, to)
        PROVE  file[r].at = "done" => file'[r] = file[r]
    BY <1>1, <1>2, SMTT(30) DEF RenameInProgress, InProgress, Locked
  <1>3. ASSUME NEW q \in Request, WriteRequest(q)
        PROVE  Final
    BY <1>1, <1>3, SMTT(30) DEF WriteRequest, Absent
  <1>4. ASSUME NEW c \in Controller, MainLoop(c)
        PROVE  Final
    <2>1. CASE \/ ListJobs(c) \/ RunJob(c) \/ RetryWithLarge(c) \/ RunReturns(c) \/ KilledByUs(c)
               \/ TryDeleteExecution(c) \/ FinishJob(c) \/ BeginExit(c)
      BY <2>1 DEF ListJobs, RunJob, RetryWithLarge, RunReturns, KilledByUs, TryDeleteExecution, FinishJob,
                  BeginExit, fsVars
    <2>2. CASE TryLockFile(c)
      <3>1. UNCHANGED responses
        BY <2>2 DEF TryLockFile
      <3>2. PICK job \in ctl[c].jobs :
               \/ UNCHANGED file
               \/ /\ file[job.request].at = "requests"
                  /\ file' = [file EXCEPT ![job.request] = InProgress(c, job)]
        BY <2>2, SMTT(30) DEF TryLockFile, Queued
      <3>3. file[r].at = "done" => file'[r] = file[r]
        <4> HIDE DEF InProgress
        <4> QED BY <1>1, <3>2
      <3> QED BY <3>1, <3>3
    <2>3. CASE MoveResponse(c)
      <3>1. UNCHANGED file
        BY <2>3 DEF MoveResponse
      <3>2. JobIsKnown(c) /\ responses[r] \in {None, r}
        BY DEF IInv, ResponseIsOfItsRequest
      <3>3. tmp[c] \in {None, ctl[c].job.request}
        BY <2>3, <3>2 DEF MoveResponse, JobIsKnown
      <3>4. responses' = responses \/ responses' = [responses EXCEPT ![ctl[c].job.request] = ctl[c].job.request]
        BY <2>3, <3>3 DEF MoveResponse
      <3> QED BY <1>1, <3>1, <3>2, <3>4
    <2>4. CASE MoveToDone(c) \/ DeferToLarge(c) \/ FinishExit(c)
      BY <1>2, <2>4 DEF MoveToDone, DeferToLarge, FinishExit
    <2> QED BY <1>4, <2>1, <2>2, <2>3, <2>4 DEF MainLoop
  <1>5. ASSUME NEW c \in Controller, Worker(c) \/ Handler(c)
        PROVE  Final
    BY <1>2, <1>5 DEF Worker, WorkerExits, Handler, LockForRequeue, RequeueActiveJob
  <1>6. ASSUME NEW c \in Controller, Sigterm(c) \/ Sigusr1(c) \/ GraceExpires(c) \/ Crash(c)
        PROVE  Final
    BY <1>6 DEF Sigterm, Sigusr1, GraceExpires, Crash, fsVars
  <1>7. ASSUME NEW c \in Controller, Restart(c)
        PROVE  Final
    BY <1>7 DEF Restart, Recovered
  <1>8. ASSUME UNCHANGED vars
        PROVE  Final
    BY <1>8 DEF vars
  <1> HIDE DEF Final
  <1>9. ASSUME Next
        PROVE  Final
    <2>1. CASE \E q \in Request : WriteRequest(q)
      BY <1>3, <2>1
    <2>2. CASE \E c \in Controller : MainLoop(c)
      BY <1>4, <2>2
    <2>3. CASE \E c \in Controller : Worker(c) \/ Handler(c)
      BY <1>5, <2>3
    <2>4. CASE \E c \in Controller : Sigterm(c) \/ Sigusr1(c) \/ GraceExpires(c) \/ Crash(c)
      BY <1>6, <2>4
    <2>5. CASE \E c \in Controller : Restart(c)
      BY <1>7, <2>5
    <2> QED BY <1>9, <2>1, <2>2, <2>3, <2>4, <2>5 DEF Next
  <1> QED BY <1>8, <1>9 DEF Final
=============================================================================
