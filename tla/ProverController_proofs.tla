---------------------- MODULE ProverController_proofs ----------------------
(***************************************************************************)
(* TLAPS proofs about ProverController: the names of requests, the steps   *)
(* that depend on them, and the safety properties.                         *)
(***************************************************************************)
EXTENDS ProverControllerLemmas, FiniteSetTheorems, SequenceTheorems

USE ZenonT(30)

(* Names *******************************************************************)

\* The number of large suffixes is a natural number.
LEMMA LargesType ==
    ASSUME NEW suffixes \in Seq({"large", "failure"})
    PROVE  Larges(suffixes) \in Nat
  <1>1. Len(suffixes) \in Nat
    BY SMTT(30)
  <1>2. IsFiniteSet(1..Len(suffixes))
    BY <1>1, FS_Interval, SMTT(30)
  <1>3. IsFiniteSet({i \in 1..Len(suffixes) : suffixes[i] = "large"})
    BY <1>2, FS_Subset
  <1> QED BY <1>3, FS_CardinalityType DEF Larges

\* DeferToLargeFile makes a name.
LEMMA DeferToLargeFileType ==
    ASSUME NEW suffixes \in Seq({"large", "failure"})
    PROVE  DeferToLargeFile(suffixes) \in Seq({"large", "failure"})
  <1>1. Larges(suffixes) \in Nat
    BY LargesType
  <1>2. WithoutFailures(suffixes) \in Seq({"large", "failure"})
    BY <1>1, SMTT(30) DEF WithoutFailures
  <1> QED BY <1>2, SMTT(30) DEF DeferToLargeFile

\* DeferToLargeFile on the names that requests have.
LEMMA DeferToLargeFileNames ==
    /\ DeferToLargeFile(<< >>) = <<"large", "failure">>
    /\ DeferToLargeFile(<<"large">>) = <<"large", "large", "failure">>
    /\ DeferToLargeFile(<<"large", "failure">>) = <<"large", "large", "failure">>
  <1>1. Larges(<< >>) = 0
    <2>1. {i \in 1..Len(<< >>) : << >>[i] = "large"} = {}
      BY SMTT(30)
    <2> QED BY <2>1, FS_EmptySet DEF Larges
  <1>2. Larges(<<"large">>) = 1
    <2>1. {i \in 1..Len(<<"large">>) : <<"large">>[i] = "large"} = {1}
      BY SMTT(30)
    <2> QED BY <2>1, FS_Singleton DEF Larges
  <1>3. Larges(<<"large", "failure">>) = 1
    <2>1. {i \in 1..Len(<<"large", "failure">>) : <<"large", "failure">>[i] = "large"} = {1}
      BY SMTT(30)
    <2> QED BY <2>1, FS_Singleton DEF Larges
  <1>4. WithoutFailures(<< >>) = << >>
    BY <1>1, SMTT(30) DEF WithoutFailures
  <1>5. DeferToLargeFile(<< >>) = <<"large", "failure">>
    <2>1. <<"large", "failure">> \in Seq({"large", "failure"})
      BY SMTT(30)
    <2> QED BY <1>4, <2>1, ConcatEmptySeq DEF DeferToLargeFile
  <1>6. ASSUME NEW suffixes, Larges(suffixes) = 1
        PROVE  DeferToLargeFile(suffixes) = <<"large", "large", "failure">>
    <2>1. WithoutFailures(suffixes) = <<"large">>
      BY <1>6, SMTT(30) DEF WithoutFailures
    <2> DEFINE S == {"large", "failure"}
               name == <<"large">> \o <<"large", "failure">>
    <2>2. <<"large">> \in Seq(S) /\ <<"large", "failure">> \in Seq(S)
      BY SMTT(30)
    <2>3. name \in Seq(S) /\ Len(name) = 3
      BY <2>2, SMTT(30)
    <2>4. name[1] = "large" /\ name[2] = "large" /\ name[3] = "failure"
      BY <2>2, SMTT(30)
    <2> DEFINE twice == <<"large", "large", "failure">>
    <2>5. twice \in Seq(S) /\ Len(twice) = 3 /\ twice[1] = "large" /\ twice[2] = "large" /\ twice[3] = "failure"
      BY SMTT(30)
    <2> HIDE DEF name, twice, S
    <2>6. \A i \in 1..3 : name[i] = twice[i]
      BY <2>4, <2>5, SMTT(30)
    <2>7. name = twice
      BY <2>3, <2>5, <2>6, SeqEqual
    <2> QED BY <2>1, <2>7 DEF DeferToLargeFile, name, twice
  <1> QED BY <1>2, <1>3, <1>5, <1>6

\* A name of DeferToLargeFile by the large prover counts as put aside.
LEMMA LargesTwice == Larges(<<"large", "large", "failure">>) = 2
  <1> DEFINE name == <<"large", "large", "failure">>
  <1>1. Len(name) = 3 /\ name[1] = "large" /\ name[2] = "large" /\ name[3] = "failure"
    OBVIOUS
  <1> HIDE DEF name
  <1>2. PICK n \in Nat : n = 2
    OBVIOUS
  <1>3. {i \in 1..Len(name) : name[i] = "large"} = 1..n
    <2>1. \A i \in 1..Len(name) : i = 1 \/ i = 2 \/ i = 3
      BY <1>1, SMTT(30)
    <2>2. \A i \in 1..Len(name) : name[i] = "large" <=> i \in 1..n
      BY <1>1, <1>2, <2>1, SMTT(30)
    <2>3. 1..n \subseteq 1..Len(name)
      BY <1>1, <1>2, SMTT(30)
    <2> QED BY <2>2, <2>3
  <1>4. Cardinality(1..n) = n
    <2>1. n > 0 /\ n \in Int /\ 1 \in Int
      BY <1>2, SMTT(30)
    <2>2. Cardinality(1..n) = IF 1 > n THEN 0 ELSE n - 1 + 1
      BY <2>1, FS_Interval
    <2> QED BY <2>1, <2>2, SMTT(30)
  <1> QED BY <1>2, <1>3, <1>4 DEF Larges, name

\* A listed name is locked by the controllers it is meant for.
LEMMA MatchingNames ==
    ASSUME NEW c, NEW kind, NEW suffixes, Matches(c, kind, suffixes),
           suffixes \in {<< >>, <<"large">>, <<"large", "failure">>, <<"large", "large", "failure">>}
    PROVE  /\ suffixes # <<"large", "large", "failure">>
           /\ suffixes # << >> <=> kind = "execution" /\ c \in CanRunFullLarge
  <1>1. suffixes = << >> \/ (suffixes[1] = "large" /\ Len(suffixes) >= 1 /\ suffixes # << >>)
    BY SMTT(30)
  <1>2. AreFailures(suffixes) => suffixes = << >>
    BY <1>1, SMTT(30) DEF AreFailures
  <1>3. ~ AreFailures(Tail(<<"large", "large", "failure">>))
    <2> DEFINE name == <<"large", "large", "failure">>
    <2>1. name \in Seq({"large", "failure"}) /\ Len(name) = 3 /\ name[2] = "large" /\ name # << >>
      BY SMTT(30)
    <2> HIDE DEF name
    <2>2. Len(Tail(name)) = 2 /\ Tail(name)[1] = "large"
      BY <2>1, SMTT(30)
    <2>3. 1 \in 1..Len(Tail(name)) /\ Tail(name)[1] # "failure"
      BY <2>2, SMTT(30)
    <2>4. ~ AreFailures(Tail(name))
      BY <2>3 DEF AreFailures
    <2> QED BY <2>4 DEF name
  <1>4. CASE kind = "execution" /\ c \in CanRunFullLarge
    BY <1>3, <1>4 DEF Matches
  <1>5. CASE ~ (kind = "execution" /\ c \in CanRunFullLarge)
    <2>1. suffixes = << >>
      BY <1>2, <1>5 DEF Matches
    <2> QED BY <1>5, <2>1
  <1> QED BY <1>4, <1>5

\* A request goes back to the queue under a name for the large prover.
LEMMA DeferToLargeStep ==
    ASSUME IInv, NEW c \in Controller, DeferToLarge(c)
    PROVE  IInv'
  <1> DEFINE job == ctl[c].job
             to == Queued(DeferToLargeFile(job.suffixes))
  <1>1. ctl[c] \in Memory /\ ctl \in [Controller -> Memory]
    BY DEF IInv, TypeOK
  <1>2. /\ UNCHANGED <<responses, traces, tmp, worker, signals, crashes>>
        /\ \A d \in Controller \ {c} : ctl'[d] = ctl[d] /\ worker'[d] = worker[d] /\ tmp'[d] = tmp[d]
    BY <1>1 DEF DeferToLarge, envVars
  <1>3. ctl[c].pc = "defer" /\ job \in Job
    BY DEF DeferToLarge, IInv, JobIsKnown, Holding
  <1>4. ctl'[c] = [ctl[c] EXCEPT !.pc = "finish"]
    BY <1>1 DEF DeferToLarge
  <1>5. /\ to \in Files /\ to.at = "requests" /\ to.owner = None
        /\ to.suffixes = DeferToLargeFile(job.suffixes)
        /\ RenameInProgress(c, job, to)
    <2>1. job.suffixes \in Seq({"large", "failure"})
      BY <1>3 DEF Job
    <2>2. DeferToLargeFile(job.suffixes) \in Seq({"large", "failure"})
      BY <2>1, DeferToLargeFileType
    <2> HIDE DEF job
    <2>3. to \in Files /\ to.at = "requests" /\ to.owner = None /\ to.suffixes = DeferToLargeFile(job.suffixes)
      BY <2>2 DEF Files, Queued
    <2> QED BY <2>3 DEF DeferToLarge, job
  <1> HIDE DEF job, to
  <1>6. /\ file' \in [Request -> Files]
        /\ \A r \in Request : file'[r] = file[r] \/ (r = job.request /\ IsLockedBy(r, c) /\ file'[r] = to)
        /\ file[job.request] = InProgress(c, job) => file'[job.request] = to
        /\ \A r \in Request, d \in Controller : IsLockedBy(r, d)' => file'[r] = file[r] /\ IsLockedBy(r, d)
    BY <1>3, <1>5, RenameFrame
  <1>7. StepOf(c)
    BY <1>2, <1>3, <1>5, RenameIsStepOf
  <1>8. TypeOK'
    <2>1. ctl'[c] \in Memory
      BY <1>1, <1>4 DEF Memory, Holding
    <2>2. ctl' \in [Controller -> Memory]
      BY <1>1, <2>1 DEF DeferToLarge
    <2> QED BY <1>2, <1>6, <2>2 DEF IInv, TypeOK
  <1>9. JobIsKnown(c)'
    BY <1>1, <1>2, <1>3, <1>4 DEF IInv, JobIsKnown, Memory, Holding, job
  <1>10. ASSUME NoSpotReclaim
         PROVE  KeepsItsLock(c)' /\ LocksAreHeld(c)'
    <2>1. KeepsItsLock(c) /\ LocksAreHeld(c)
      BY <1>10 DEF IInv
    <2>2. KeepsItsLock(c)'
      BY <1>1, <1>2, <1>3, <1>4, <2>1 DEF KeepsItsLock, Memory, Holding
    <2>3. file[job.request] = InProgress(c, job)
      BY <1>3, <2>1 DEF KeepsItsLock, Holding, job
    <2>4. LocksAreHeld(c)'
      <3> SUFFICES ASSUME NEW r \in Request, IsLockedBy(r, c)'
                   PROVE  Kind[r] # "execution" /\ crashes > 0
        BY <1>2 DEF LocksAreHeld
      <3>1. r # job.request
        BY <1>5, <1>6, <2>3, ConfigAssumption DEF IsLockedBy
      <3>2. IsLockedBy(r, c)
        BY <1>6
      <3> QED BY <1>3, <2>1, <3>1, <3>2 DEF LocksAreHeld, HoldsFor, job
    <2> QED BY <2>2, <2>4
  <1>11. ASSUME NoSpotReclaim, LargeIsStable, NEW r \in Request, file'[r] # file[r]
         PROVE  NameIsKnown(r)'
    <2>1. r = job.request /\ IsLockedBy(r, c) /\ file'[r] = to
      BY <1>6, <1>11
    <2>2. KeepsItsLock(c) /\ NameIsKnown(r)
      BY <1>11 DEF IInv
    <2>3. file[r] = InProgress(c, job) /\ Kind[r] = "execution"
      BY <1>3, <2>1, <2>2 DEF KeepsItsLock, Holding, job
    <2>4. file[r].suffixes = job.suffixes /\ file[r].owner = c /\ file[r].at = "requests" /\ c # None
      BY <2>3, ConfigAssumption, SMTT(30) DEF InProgress, Locked
    <2>5. job.suffixes \in {<< >>, <<"large">>, <<"large", "failure">>}
      BY <2>2, <2>4 DEF NameIsKnown
    <2>6. to.suffixes \in {<<"large", "failure">>, <<"large", "large", "failure">>}
      BY <1>5, <2>5, DeferToLargeFileNames
    <2> QED BY <1>5, <2>1, <2>3, <2>6 DEF NameIsKnown
  <1>12. OwnPart(c)
    <2>1. crashes' > 0 => Unstable # {}
      BY <1>2 DEF IInv
    <2>2. \A r \in Request : responses'[r] \in {None, r}
      BY <1>2 DEF IInv, ResponseIsOfItsRequest
    <2>3. ctl'[c].jobs = ctl[c].jobs
      BY <1>1, <1>4 DEF Memory
    <2>4. NoSpotReclaim /\ LargeIsStable => ListedJobsMatch(c)'
      BY <2>3 DEF IInv, ListedJobsMatch
    <2>5. \A r \in Request : file'[r] = Done(CodeSuccess) => file'[r] = file[r]
      BY <1>5, <1>6, SMTT(30) DEF Done
    <2>6. \A r \in Request : ~ IsFiling(c, r)
      BY <1>3 DEF IsFiling
    <2> QED BY <1>2, <1>9, <1>10, <1>11, <2>1, <2>2, <2>4, <2>5, <2>6 DEF OwnPart
  <1> QED BY <1>7, <1>8, <1>12, ControllerStep

\* tryLockFile: the rename succeeds only on a request still in the queue under the listed name.
LEMMA TryLockFileStep ==
    ASSUME IInv, NEW c \in Controller, TryLockFile(c)
    PROVE  IInv'
  <1>1. ctl[c] \in Memory /\ ctl \in [Controller -> Memory]
    BY DEF IInv, TypeOK
  <1>2. UNCHANGED <<responses, traces, tmp, worker, signals, crashes>>
    BY DEF TryLockFile, envVars
  <1>3. PICK job \in ctl[c].jobs :
          IF file[job.request] = Queued(job.suffixes)
          THEN /\ file' = [file EXCEPT ![job.request] = InProgress(c, job)]
               /\ ctl' = [ctl EXCEPT ![c].pc = "locked", ![c].job = job, ![c].jobs = {}]
          ELSE /\ ctl' = [ctl EXCEPT ![c].jobs = @ \ {job},
                                     ![c].pc = IF ctl[c].jobs = {job} THEN "idle" ELSE @]
               /\ UNCHANGED file
    BY DEF TryLockFile
  <1>4. ctl[c].pc = "locking"
    BY DEF TryLockFile
  <1>5. job \in Job /\ job.request \in Request
    BY <1>1 DEF Memory, Job
  <1>6. CASE file[job.request] # Queued(job.suffixes)
    <2> DEFINE new == [ctl[c] EXCEPT !.jobs = ctl[c].jobs \ {job},
                                     !.pc = IF ctl[c].jobs = {job} THEN "idle" ELSE "locking"]
    <2>1. ctl' = [ctl EXCEPT ![c] = new] /\ UNCHANGED file
      BY <1>1, <1>3, <1>4, <1>6
    <2>2. new \in Memory
      BY <1>1 DEF Memory
    <2>3. /\ new.pc \in {"idle", "locking"} /\ new.jobs \subseteq ctl[c].jobs
          /\ new.job = ctl[c].job /\ new.activeJob = ctl[c].activeJob /\ new.handler = ctl[c].handler
          /\ new.spotReclaimDetected = ctl[c].spotReclaimDetected /\ new.cancelled = ctl[c].cancelled
          /\ new.grace = ctl[c].grace /\ new.gracefulShutdownRequested = ctl[c].gracefulShutdownRequested
      BY <1>1 DEF Memory
    <2> HIDE DEF new
    <2>4. ctl'[c] = new /\ \A d \in Controller \ {c} : ctl'[d] = ctl[d]
      BY <1>1, <2>1
    <2>5. Own(c)
      BY OwnInvariant
    <2>6. LocalStep(c)
      BY <1>2, <2>1, <2>2, <2>4, <2>5 DEF LocalStep, Own
    <2>7. JobIsKnown(c)'
      BY <1>2, <2>3, <2>4, <2>5 DEF Own, JobIsKnown, Holding
    <2>8. ASSUME NoSpotReclaim
          PROVE  KeepsOwn(c)
      BY <1>2, <1>4, <2>1, <2>3, <2>4, <2>5, <2>8 DEF Own, KeepsOwn, KeepsItsLock, HoldsFor, IsFiling,
                                                     Holding, ListedJobsMatch
    <2> QED BY <1>4, <2>6, <2>7, <2>8, MemoryStep
  <1>7. CASE file[job.request] = Queued(job.suffixes)
    <2> DEFINE new == [ctl[c] EXCEPT !.pc = "locked", !.job = job, !.jobs = {}]
    <2>1. /\ ctl' = [ctl EXCEPT ![c] = new]
          /\ file' = [file EXCEPT ![job.request] = InProgress(c, job)]
      BY <1>1, <1>3, <1>7
    <2>2. new \in Memory
      BY <1>1, <1>5 DEF Memory, Holding
    <2>3. /\ new.pc = "locked" /\ new.jobs = {} /\ new.job = job
          /\ new.activeJob = ctl[c].activeJob /\ new.handler = ctl[c].handler
          /\ new.spotReclaimDetected = ctl[c].spotReclaimDetected /\ new.cancelled = ctl[c].cancelled
          /\ new.grace = ctl[c].grace /\ new.gracefulShutdownRequested = ctl[c].gracefulShutdownRequested
      BY <1>1 DEF Memory
    <2> HIDE DEF new
    <2>4. ctl'[c] = new /\ \A d \in Controller \ {c} : ctl'[d] = ctl[d]
      BY <1>1, <2>1
    <2>5. /\ InProgress(c, job) \in Files /\ InProgress(c, job).at = "requests"
          /\ InProgress(c, job).owner = c /\ InProgress(c, job).suffixes = job.suffixes
      BY <1>5 DEF InProgress, Locked, Files, Job
    <2>6. file \in [Request -> Files]
      BY DEF IInv, TypeOK
    <2>7. /\ \A r \in Request \ {job.request} : file'[r] = file[r]
          /\ file'[job.request] = InProgress(c, job)
      BY <1>5, <2>1, <2>6
    <2>8. /\ file[job.request].at = "requests" /\ file[job.request].owner = None
          /\ file[job.request].suffixes = job.suffixes
      BY <1>7, SMTT(30) DEF Queued
    <2>9. TypeOK'
      <3>1. file' \in [Request -> Files]
        BY <2>1, <2>5, <2>6
      <3>2. ctl' \in [Controller -> Memory]
        BY <1>1, <2>1, <2>2
      <3> QED BY <1>2, <3>1, <3>2 DEF IInv, TypeOK
    <2>10. StepOf(c)
      <3>1. ASSUME NEW r \in Request
            PROVE  \/ file'[r] = file[r]
                   \/ /\ IsLockedBy(r, None) \/ IsLockedBy(r, c)
                      /\ \A d \in Controller \ {c} : ~ IsLockedBy(r, d)'
                      /\ file'[r].at # "absent"
        BY <2>5, <2>7, <2>8 DEF IsLockedBy
      <3> QED BY <1>2, <2>4, <3>1 DEF StepOf
    <2>11. JobIsKnown(c)'
      BY <1>2, <1>5, <2>3, <2>4 DEF IInv, JobIsKnown, Holding
    <2>12. ASSUME NoSpotReclaim
           PROVE  KeepsItsLock(c)' /\ LocksAreHeld(c)'
      <3>1. KeepsItsLock(c) /\ LocksAreHeld(c)
        BY <2>12 DEF IInv
      <3>2. KeepsItsLock(c)'
        <4> HIDE DEF InProgress
        <4> QED BY <1>4, <2>3, <2>4, <2>7, <3>1 DEF KeepsItsLock, Holding
      <3>3. LocksAreHeld(c)'
        <4> SUFFICES ASSUME NEW r \in Request, IsLockedBy(r, c)', r # job.request
                     PROVE  Kind[r] # "execution" /\ crashes > 0
          BY <1>2, <2>3, <2>4 DEF LocksAreHeld, HoldsFor, Holding
        <4>1. IsLockedBy(r, c)
          BY <2>7 DEF IsLockedBy
        <4> QED BY <1>4, <3>1, <4>1 DEF LocksAreHeld, HoldsFor, Holding
      <3> QED BY <3>2, <3>3
    <2>13. ASSUME NoSpotReclaim, LargeIsStable
           PROVE  NameIsKnown(job.request)'
      <3>1. NameIsKnown(job.request) /\ ListedJobsMatch(c)
        BY <1>5, <2>13 DEF IInv
      <3>2. /\ job.suffixes \in {<< >>, <<"large">>, <<"large", "failure">>, <<"large", "large", "failure">>}
            /\ Kind[job.request] # "execution" => job.suffixes = << >>
        BY <2>8, <3>1 DEF NameIsKnown
      <3>3. Matches(c, Kind[job.request], job.suffixes)
        BY <3>1 DEF ListedJobsMatch
      <3>4. /\ job.suffixes # <<"large", "large", "failure">>
            /\ job.suffixes # << >> <=> Kind[job.request] = "execution" /\ c \in CanRunFullLarge
        BY <3>2, <3>3, MatchingNames
      <3> HIDE DEF InProgress
      <3> QED BY <2>5, <2>7, <3>2, <3>4 DEF NameIsKnown
    <2>14. OwnPart(c)
      <3>1. crashes' > 0 => Unstable # {}
        BY <1>2 DEF IInv
      <3>2. \A r \in Request : responses'[r] \in {None, r}
        BY <1>2 DEF IInv, ResponseIsOfItsRequest
      <3>3. ListedJobsMatch(c)'
        BY <2>3, <2>4 DEF ListedJobsMatch
      <3>4. \A r \in Request : ~ IsFiling(c, r)
        BY <1>4 DEF IsFiling
      <3>5. \A r \in Request : file'[r] = Done(CodeSuccess) => file'[r] = file[r]
        BY <2>5, <2>7, SMTT(30) DEF Done
      <3>6. NoSpotReclaim /\ LargeIsStable => \A r \in Request : file'[r] = file[r] \/ NameIsKnown(r)'
        BY <2>7, <2>13
      <3> QED BY <1>2, <2>11, <2>12, <3>1, <3>2, <3>3, <3>4, <3>5, <3>6 DEF OwnPart
    <2> QED BY <2>9, <2>10, <2>14, ControllerStep
  <1> QED BY <1>6, <1>7

(* The theorems ************************************************************)

LEMMA NextIInv ==
    ASSUME IInv, Next
    PROVE  IInv'
  <1>1. CASE \E r \in Request : WriteRequest(r)
    BY <1>1, WriteRequestStep
  <1>2. CASE \E c \in Controller : MainLoop(c)
    BY <1>2, ListJobsStep, TryLockFileStep, RunJobStep, RetryWithLargeStep, RunReturnsStep,
       KilledByUsStep, MoveResponseStep, TryDeleteExecutionStep, MoveToDoneStep, DeferToLargeStep,
       FinishJobStep, BeginExitStep, FinishExitStep DEF MainLoop
  <1>3. CASE \E c \in Controller : Worker(c)
    <2>1. {CodeSuccess, CodeMissingTraceFile} \cup FailureCodes \subseteq Nat
      BY ConfigAssumption, SMTT(30) DEF CodeSuccess, CodeMissingTraceFile
    <2> QED BY <1>3, <2>1, WorkerExitsStep DEF Worker
  <1>4. CASE \E c \in Controller : Handler(c)
    BY <1>4, LockForRequeueStep, RequeueActiveJobStep DEF Handler
  <1>5. CASE \E c \in Controller : Sigterm(c) \/ Sigusr1(c) \/ GraceExpires(c) \/ Crash(c) \/ Restart(c)
    BY <1>5, SigtermStep, Sigusr1Step, GraceExpiresStep, CrashStep, RestartStep
  <1> QED BY <1>1, <1>2, <1>3, <1>4, <1>5 DEF Next

\* The invariant of the prover controllers (runController, under every signal and crash) is
\* inductive.
THEOREM ProverInvariance == Spec => []IInv
  <1>1. Init => IInv
    BY InitIInv
  <1>2. IInv /\ [Next]_vars => IInv'
    <2> SUFFICES ASSUME IInv, [Next]_vars
                 PROVE  IInv'
      OBVIOUS
    <2>1. CASE Next
      BY <2>1, NextIInv
    <2>2. CASE UNCHANGED vars
      <3>1. /\ UNCHANGED <<TypeOK, ResponseIsOfItsRequest, ResponsesAreFiled, SuccessHasResponse>>
            /\ UNCHANGED <<TraceKeptUntilProven, crashes>>
        BY <2>2 DEF vars, TypeOK, ResponseIsOfItsRequest, ResponsesAreFiled, IsFiling,
                    SuccessHasResponse, TraceKeptUntilProven
      <3>2. \A c \in Controller : /\ UNCHANGED <<JobIsKnown(c), KeepsItsLock(c), LocksAreHeld(c)>>
                                  /\ UNCHANGED ListedJobsMatch(c)
        BY <2>2, SMTT(30) DEF vars, JobIsKnown, KeepsItsLock, LocksAreHeld, IsLockedBy, HoldsFor, ListedJobsMatch
      <3>3. \A r \in Request : UNCHANGED NameIsKnown(r)
        BY <2>2 DEF vars, NameIsKnown
      <3> QED BY <3>1, <3>2, <3>3 DEF IInv
    <2> QED BY <2>1, <2>2
  <1> QED BY <1>1, <1>2, PTL DEF Spec

\* MoveResponse never publishes the response of another request, whatever the signals.
THEOREM ResponsesAreTheirOwn == Spec => []ResponseIsOfItsRequest
  <1>1. IInv => ResponseIsOfItsRequest
    BY DEF IInv
  <1> QED BY <1>1, ProverInvariance, PTL

\* Renames as locks: without spot reclaims no request is proven by two controllers at once,
\* however many controllers crash, restart, defer and requeue.
THEOREM MutualExclusion == NoSpotReclaim => (Spec => []ProvenByOneController)
  <1> SUFFICES ASSUME NoSpotReclaim
               PROVE  Spec => []ProvenByOneController
    OBVIOUS
  <1>1. ASSUME IInv
        PROVE  ProvenByOneController
    <2> SUFFICES ASSUME NEW c \in Controller, NEW d \in Controller, NEW r \in Request,
                        Proves(c, r), Proves(d, r)
                 PROVE  c = d
      BY DEF ProvenByOneController
    <2>1. KeepsItsLock(c) /\ KeepsItsLock(d)
      BY <1>1 DEF IInv
    <2>2. file[r] = InProgress(c, ctl[c].job) /\ file[r] = InProgress(d, ctl[d].job)
      BY <2>1 DEF KeepsItsLock, Proves, Holding
    <2> QED BY <2>2, SMTT(30) DEF InProgress, Locked
  <1> QED BY <1>1, ProverInvariance, PTL

\* The shutdown branches of runController: without spot reclaims a controller that exited holds
\* no lock, provided that the locks it may have left in a crash are those of execution requests.
THEOREM ShutdownReleases == NoSpotReclaim /\ LocksAreRecovered => (Spec => []StoppedHoldsNoLock)
  <1> SUFFICES ASSUME NoSpotReclaim, LocksAreRecovered
               PROVE  Spec => []StoppedHoldsNoLock
    OBVIOUS
  <1>1. ASSUME IInv
        PROVE  StoppedHoldsNoLock
    <2> SUFFICES ASSUME NEW c \in Controller, NEW r \in Request, ctl[c].pc = "stopped", IsLockedBy(r, c)
                 PROVE  FALSE
      BY DEF StoppedHoldsNoLock
    <2>1. LocksAreHeld(c)
      BY <1>1 DEF IInv
    <2>2. Kind[r] # "execution" /\ crashes > 0
      BY <2>1 DEF LocksAreHeld, HoldsFor, Holding
    <2> QED BY <1>1, <2>2 DEF LocksAreRecovered, IInv
  <1> QED BY <1>1, ProverInvariance, PTL

\* The success branch: a request is filed as successful only with its response file.
THEOREM SuccessesAreProven == NoSpotReclaim => (Spec => []SuccessHasResponse)
  <1> SUFFICES ASSUME NoSpotReclaim
               PROVE  Spec => []SuccessHasResponse
    OBVIOUS
  <1>1. IInv => SuccessHasResponse
    BY DEF IInv
  <1> QED BY <1>1, ProverInvariance, PTL

\* tryDeleteExecution: no trace is deleted that may still be needed.
THEOREM TracesAreKept == NoSpotReclaim => (Spec => []TraceKeptUntilProven)
  <1> SUFFICES ASSUME NoSpotReclaim
               PROVE  Spec => []TraceKeptUntilProven
    OBVIOUS
  <1>1. IInv => TraceKeptUntilProven
    BY DEF IInv
  <1> QED BY <1>1, ProverInvariance, PTL

\* Unless a controller crashed, a request with a response is not filed as a failure.
THEOREM ProvenDoesNotFail == NoSpotReclaim => (Spec => []ProvenIsNotFailed)
  <1> SUFFICES ASSUME NoSpotReclaim
               PROVE  Spec => []ProvenIsNotFailed
    OBVIOUS
  <1>1. ASSUME IInv
        PROVE  ProvenIsNotFailed
    <2> SUFFICES ASSUME NEW r \in Request, crashes = 0, responses[r] # None, file[r].at = "done"
                 PROVE  file[r].code = CodeSuccess
      BY DEF ProvenIsNotFailed
    <2>1. file[r] = Done(CodeSuccess) \/ \E c \in Controller : IsFiling(c, r)
      BY <1>1 DEF IInv, ResponsesAreFiled
    <2>2. ASSUME NEW c \in Controller, IsFiling(c, r)
          PROVE  FALSE
      <3>1. KeepsItsLock(c)
        BY <1>1 DEF IInv
      <3>2. file[r] = InProgress(c, ctl[c].job)
        BY <2>2, <3>1 DEF IsFiling, KeepsItsLock, Holding
      <3> QED BY <3>2, SMTT(30) DEF InProgress, Locked
    <2> QED BY <2>1, <2>2, SMTT(30) DEF Done
  <1> QED BY <1>1, ProverInvariance, PTL

\* rmPrevDanglingFiles and DeferToLargeFile: where every request has a controller that watches
\* it and large machines do not crash, a queued request has a name that some controller picks up.
THEOREM QueueIsServed ==
    NoSpotReclaim /\ LargeIsStable /\ IsStaffed => (Spec => []QueuedIsPickedUp)
  <1> SUFFICES ASSUME NoSpotReclaim, LargeIsStable, IsStaffed
               PROVE  Spec => []QueuedIsPickedUp
    OBVIOUS
  <1>1. ASSUME IInv
        PROVE  QueuedIsPickedUp
    <2> SUFFICES ASSUME NEW r \in Request, IsLockedBy(r, None), ~ IsPutAside(r)
                 PROVE  \E c \in Controller : IsPickedUpBy(c, r)
      BY DEF QueuedIsPickedUp
    <2> DEFINE name == file[r].suffixes
    <2>1. NameIsKnown(r) /\ file[r].at = "requests"
      BY <1>1 DEF IInv, IsLockedBy
    <2>2. /\ name \in {<< >>, <<"large">>, <<"large", "failure">>, <<"large", "large", "failure">>}
          /\ Kind[r] # "execution" => name = << >>
      BY <2>1 DEF NameIsKnown
    <2> HIDE DEF name
    <2>3. name # <<"large", "large", "failure">>
      <3> SUFFICES ASSUME name = <<"large", "large", "failure">>
                   PROVE  IsPutAside(r)
        OBVIOUS
      <3>1. name[Len(name)] = "failure"
        OBVIOUS
      <3>2. Larges(name) = 2
        BY LargesTwice
      <3> QED BY <3>1, <3>2, SMTT(30) DEF IsPutAside, name
    <2>4. CASE name = << >>
      <3>1. PICK c \in Controller : /\ Kind[r] \in JobToWatch[c]
                                    /\ Kind[r] = "execution" => c \notin CanRunFullLarge
        BY DEF IsStaffed
      <3>2. AreFailures(<< >>)
        BY SMTT(30) DEF AreFailures
      <3> QED BY <2>4, <3>1, <3>2 DEF IsPickedUpBy, Matches, name
    <2>5. CASE name \in {<<"large">>, <<"large", "failure">>}
      <3>1. Kind[r] = "execution"
        BY <2>2, <2>5, SMTT(30)
      <3>2. PICK c \in CanRunFullLarge : Kind[r] \in JobToWatch[c]
        BY <3>1 DEF IsStaffed
      <3>3. c \in Controller
        BY ConfigAssumption
      <3>4. name # << >> /\ Head(name) = "large"
        BY <2>5, SMTT(30)
      <3>5. AreFailures(Tail(<<"large">>))
        BY SMTT(30) DEF AreFailures
      <3>6. AreFailures(Tail(<<"large", "failure">>))
        <4> DEFINE first == <<"large", "failure">>
        <4>1. first \in Seq({"large", "failure"}) /\ Len(first) = 2 /\ first[2] = "failure" /\ first # << >>
          BY SMTT(30)
        <4> HIDE DEF first
        <4>2. Len(Tail(first)) = 1 /\ Tail(first)[1] = "failure"
          <5>1. Len(Tail(first)) = 1
            BY <4>1, SMTT(30)
          <5>2. \A i \in 1..Len(Tail(first)) : Tail(first)[i] = first[i + 1]
            BY <4>1, HeadTailProperties
          <5>3. 1 \in 1..Len(Tail(first)) /\ 1 + 1 = 2
            BY <5>1, SMTT(30)
          <5> QED BY <4>1, <5>1, <5>2, <5>3
        <4>3. AreFailures(Tail(first))
          BY <4>2, SMTT(30) DEF AreFailures
        <4> QED BY <4>3 DEF first
      <3> QED BY <2>5, <3>1, <3>2, <3>3, <3>4, <3>5, <3>6 DEF IsPickedUpBy, Matches, name
    <2> QED BY <2>2, <2>3, <2>4, <2>5
  <1> QED BY <1>1, ProverInvariance, PTL

\* Requeues, late renames and late workers never take a filed request out of the done directory
\* and never replace a response, whatever the signals.
THEOREM FilingIsFinal == Spec => FiledIsFinal
  <1>1. IInv /\ [Next]_vars =>
           [\A r \in Request : /\ file[r].at = "done" => file'[r] = file[r]
                               /\ responses[r] # None => responses'[r] = responses[r]]_vars
    BY FinalStep
  <1> QED BY <1>1, ProverInvariance, PTL DEF Spec, FiledIsFinal
=============================================================================
