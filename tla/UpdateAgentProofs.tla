-------------------------- MODULE UpdateAgentProofs --------------------------
(***************************************************************************)
(* Theorems about the update agent, for every catalog, every number of     *)
(* apps and of attempts, and any number of faults and edits.               *)
(***************************************************************************)
EXTENDS UpdateAgent, TLAPS

\* The operators of Targets build targets out of targets.
LEMMA UnknownIsTarget == UnknownTarget \in Target
  BY DEF UnknownTarget, Target, TargetID

LEMMA CatalogIsTarget == \A ts \in SUBSET Catalog : \A t \in ts : t \in Target
  BY CatalogAssumption DEF CatalogAssumption

LEMMA LookupType ==
  ASSUME NEW ts \in SUBSET Catalog
  PROVE  /\ LatestOf(ts) \subseteq Target
         /\ \A v : ByVersion(ts, v) \subseteq Target
         /\ \A id : ByID(ts, id) \subseteq Target
  BY UnknownIsTarget, CatalogIsTarget DEF LatestOf, ByVersion, ByID

LEMMA FilterType ==
  ASSUME NEW t \in Target, NEW uris
  PROVE  /\ Shortlist(t, uris) \in Target
         /\ Shortlist(t, uris).id = t.id
         /\ ShortlistByURI(t, uris) \in Target
         /\ ShortlistByURI(t, uris).id = t.id
  BY DEF Shortlist, ShortlistByURI, Target

LEMMA OfUpdateType ==
  ASSUME NEW ts \in SUBSET Catalog, NEW ref, NEW uris \in SUBSET URI
  PROVE  /\ OfUpdate(ts, ref, uris) \subseteq Target
         /\ \A t \in OfUpdate(ts, ref, uris) : t.id = ref
<1>1. CASE \E t \in ts : t.id = ref
  <2>1. ByID(ts, ref) \subseteq Target /\ \A t \in ByID(ts, ref) : t.id = ref
    BY <1>1, LookupType DEF ByID
  <2>2. OfUpdate(ts, ref, uris) = {ShortlistByURI(t, uris) : t \in ByID(ts, ref)}
    BY <1>1 DEF OfUpdate
  <2> QED
    BY <2>1, <2>2, FilterType
<1>2. CASE ~ \E t \in ts : t.id = ref
  <2>1. OfUpdate(ts, ref, uris) = OutOfUpdate(ref, uris)
    BY <1>2 DEF OfUpdate
  <2> QED
    BY <2>1, CatalogAssumption DEF CatalogAssumption, OutOfUpdate, Target, TargetID
<1> QED
  BY <1>1, <1>2
-----------------------------------------------------------------------------
(* Type correctness: the commands, the initial state.                      *)

LEMMA CheckCommandType == CheckCommand \in Command
  BY DEF Command, CheckCommand, Any

LEMMA CommandType == DaemonCommand \in Command /\ CliCommand \subseteq Command
<1>1. /\ MaxAttempts \in Nat
      /\ Installable \subseteq InProgress /\ Startable \subseteq InProgress
  BY AgentAssumption DEF AgentAssumption, Installable, Startable, InProgress
<1>2. DaemonCommand \in Command
  BY <1>1, CheckCommandType DEF DaemonCommand, Command
<1>3. InstallCommand \in Command
  BY <1>1, CheckCommandType DEF InstallCommand, Command
<1>4. StartCommand \in Command
  BY <1>1, <1>3 DEF StartCommand, Command
<1>5. \A v \in Int : FetchCommand(v) \in Command
  BY CheckCommandType DEF FetchCommand, Command
<1>6. \A v \in Int, sync \in BOOLEAN : UpdateCommand(v, sync) \in Command
  BY CheckCommandType DEF UpdateCommand, Command
<1>7. Any \in Int /\ \A t \in Catalog : t.version \in Int
  BY CatalogAssumption DEF CatalogAssumption, Target, Any
<1>8. ASSUME NEW c \in CliCommand
      PROVE  \/ c \in {CheckCommand, InstallCommand, StartCommand,
                       UpdateCommand(Any, TRUE)}
             \/ \E v \in Int : c = FetchCommand(v) \/ c = UpdateCommand(v, FALSE)
  BY <1>7 DEF CliCommand
<1> QED
  BY <1>2, <1>3, <1>4, <1>5, <1>6, <1>7, <1>8, CheckCommandType

LEMMA InitType == Init => TypeOK
<1> SUFFICES ASSUME Init PROVE TypeOK
  OBVIOUS
<1>1. /\ failed \in [TargetID -> 0 .. MaxAttempts]
      /\ faults \in 0 .. MaxFaults /\ edits \in 0 .. MaxEdits
  BY AgentAssumption DEF AgentAssumption, Init
<1>2. server \in SUBSET Catalog /\ enabled \in SUBSET Name /\ stage \in [URI -> 0 ..
      3]
  BY DEF Init
<1> QED
  BY <1>1, <1>2, UnknownIsTarget, CheckCommandType
  DEF Init, TypeOK, NoLast, NoStatus, Page
-----------------------------------------------------------------------------
(* Type correctness: what the actions are made of.                         *)

LEMMA AfterType == \A p : After(p) \in Page
  BY DEF After, Page

LEMMA FaultType ==
  /\ TypeOK /\ Fault => faults' \in 0 .. MaxFaults
  /\ TypeOK /\ Edit => edits' \in 0 .. MaxEdits
  BY AgentAssumption DEF AgentAssumption, TypeOK, Fault, Edit

LEMMA StageType ==
  ASSUME TypeOK, NEW uris, NEW n \in 0 .. 3
  PROVE  Raised(uris, n) \in [URI -> 0 .. 3] /\ Stopped(uris) \in [URI -> 0 .. 3]
  BY DEF TypeOK, Raised, Stopped

\* Raising apps to a stage lowers none; stopping them uninstalls none.
LEMMA StageOrder ==
  ASSUME TypeOK, NEW uris, NEW n \in 0 .. 3
  PROVE  \A u \in URI : /\ Raised(uris, n)[u] >= stage[u]
                        /\ u \in uris => Raised(uris, n)[u] >= n
                        /\ stage[u] >= 1 => Stopped(uris)[u] >= 1
                        /\ stage[u] >= 2 => Stopped(uris)[u] >= 2
  BY DEF TypeOK, Raised, Stopped

\* A process that is killed leaves its work on the apps half done at most.
LEMMA HalfDoneStage ==
  ASSUME TypeOK, HalfDone
  PROVE  /\ stage' \in [URI -> 0 .. 3]
         /\ \A u \in URI : /\ stage[u] >= 1 => stage'[u] >= 1
                           /\ stage[u] >= 2 => stage'[u] >= 2
<1>0. stage \in [URI -> 0 .. 3]
  BY DEF TypeOK
<1>1. CASE UNCHANGED stage
  BY <1>0, <1>1
<1>2. ASSUME NEW part, NEW n \in 0 .. 3, stage' = Raised(part, n)
      PROVE  /\ stage' \in [URI -> 0 .. 3]
             /\ \A u \in URI : /\ stage[u] >= 1 => stage'[u] >= 1
                               /\ stage[u] >= 2 => stage'[u] >= 2
  <2>1. stage' \in [URI -> 0 .. 3] /\ \A u \in URI : stage'[u] >= stage[u]
    BY <1>2, StageType, StageOrder
  <2> QED
    BY <1>0, <2>1
<1>3. ASSUME NEW part, stage' = Stopped(part)
      PROVE  /\ stage' \in [URI -> 0 .. 3]
             /\ \A u \in URI : /\ stage[u] >= 1 => stage'[u] >= 1
                               /\ stage[u] >= 2 => stage'[u] >= 2
  <2>1. 0 \in 0 .. 3
    OBVIOUS
  <2> QED
    BY <1>3, <2>1, StageType, StageOrder
<1>4. \/ UNCHANGED stage
      \/ \E part : \E n \in 0 .. 3 : stage' = Raised(part, n)
      \/ \E part : stage' = Stopped(part)
  <2>1. 1 \in 0 .. 3 /\ 2 \in 0 .. 3 /\ 3 \in 0 .. 3
    OBVIOUS
  <2> QED
    BY <2>1, Zenon DEF HalfDone
<1> QED
  BY <1>1, <1>2, <1>3, <1>4

\* The record that counts the failed updates of a target saturates.
LEMMA FailedType ==
  TypeOK /\ UpdateFails => failed' \in [TargetID -> 0 .. MaxAttempts]
<1> SUFFICES ASSUME TypeOK, UpdateFails
             PROVE  failed' \in [TargetID -> 0 .. MaxAttempts]
  OBVIOUS
<1>1. failed \in [TargetID -> 0 .. MaxAttempts] /\ MaxAttempts \in Nat
  BY AgentAssumption DEF AgentAssumption, TypeOK
<1> DEFINE one == IF failed[uref] < MaxAttempts THEN failed[uref] + 1 ELSE
       failed[uref]
<1>2. failed' = [failed EXCEPT ![uref] = one]
  BY DEF UpdateFails
<1>3. uref \in TargetID => one \in 0 .. MaxAttempts
  BY <1>1
<1> HIDE DEF one
<1> QED
  BY <1>1, <1>2, <1>3

ContextType ==
  /\ pc \in Page /\ cmd \in Command /\ daemon \in BOOLEAN
  /\ err \in Error \union {"none"} /\ mode \in {"new", "resume"}
  /\ from \in Target /\ to \in Target /\ targets \in SUBSET Catalog
  /\ status \in [known: BOOLEAN, uris: SUBSET URI, healthy: BOOLEAN]
  /\ newer \in BOOLEAN

LEMMA RunType ==
  /\ \A c \in Command, d \in BOOLEAN : Run(c, d) => ContextType'
  /\ \A p \in {"idle", "sleep"} : Rest(p) => ContextType'
<1>1. ASSUME IdleContext, pc' \in Page, cmd' \in Command, daemon' \in BOOLEAN, err'
      = "none"
      PROVE  ContextType'
  <2>1. status' \in [known: BOOLEAN, uris: SUBSET URI, healthy: BOOLEAN]
    BY <1>1 DEF IdleContext, NoStatus
  <2> QED
    BY <1>1, <2>1, UnknownIsTarget DEF IdleContext, ContextType
<1>2. ASSUME NEW c \in Command, NEW d \in BOOLEAN, Run(c, d) PROVE ContextType'
  BY <1>1, <1>2 DEF Run, Page
<1>3. ASSUME NEW p \in {"idle", "sleep"}, Rest(p) PROVE ContextType'
  BY <1>1, <1>3, CheckCommandType DEF Rest, Page
<1> QED
  BY <1>2, <1>3
-----------------------------------------------------------------------------
(* Type correctness: the steps.                                            *)

LEMMA LoadType == TypeOK /\ (SetupFails \/ RefuseNoUpdate \/ RefuseState \/ RefuseTornFile \/
        LoadTargets \/ RefreshTargets \/ RefreshFails) => TypeOK'
<1> SUFFICES ASSUME TypeOK, (SetupFails \/ RefuseNoUpdate \/ RefuseState \/ RefuseTornFile \/
                    LoadTargets \/ RefreshTargets \/ RefreshFails) PROVE TypeOK'
  OBVIOUS
<1> USE DEF TypeOK, storeVars, fileVars, envVars, ctxVars, reportVars, Page, Error,
            Event
<1>1. CASE RefuseNoUpdate
  BY <1>1 DEF RefuseNoUpdate, Fail
<1>2. CASE RefuseState
  BY <1>2 DEF RefuseState, Fail
<1>3. CASE RefuseTornFile
  BY <1>3 DEF RefuseTornFile, Fail
<1>4. CASE LoadTargets
  BY <1>4 DEF LoadTargets
<1>5. CASE RefreshTargets
  BY <1>5 DEF RefreshTargets
<1>6. CASE RefreshFails
  BY <1>6, FaultType DEF RefreshFails, Fail
<1>7. CASE SetupFails
  BY <1>7, FaultType DEF SetupFails, Fail
<1> QED
  BY <1>1, <1>2, <1>3, <1>4, <1>5, <1>6, <1>7

LEMMA InitStepType == TypeOK /\ InitStep => TypeOK'
<1> SUFFICES ASSUME TypeOK, InitStep PROVE TypeOK'
  OBVIOUS
<1> USE DEF TypeOK, storeVars, fileVars, envVars, ctxVars, reportVars, Page, Error,
            Event, InProgress
<1>1. CASE NewUpdate
  BY <1>1 DEF NewUpdate, Target
<1>2. CASE BeginInit
  BY <1>2 DEF BeginInit, Target
<1>3. CASE InitOk
  BY <1>3, AfterType DEF InitOk, Done
<1>4. CASE InitFails
  BY <1>4, FaultType DEF InitFails, Fail
<1>5. CASE SkipInit
  BY <1>5, AfterType DEF SkipInit, Done
<1> QED
  BY <1>1, <1>2, <1>3, <1>4, <1>5 DEF InitStep

LEMMA FetchStepType == TypeOK /\ FetchStep => TypeOK'
<1> SUFFICES ASSUME TypeOK, FetchStep PROVE TypeOK'
  OBVIOUS
<1> USE DEF TypeOK, storeVars, fileVars, envVars, ctxVars, reportVars, Page, Error,
            Event, InProgress
<1>1. CASE BeginFetch
  BY <1>1 DEF BeginFetch
<1>2. CASE NoSpace
  BY <1>2, FaultType DEF NoSpace, Fail
<1>3. CASE FetchOk
  BY <1>3, AfterType, StageType DEF FetchOk, Done
<1>4. CASE FetchFails
  BY <1>4, FaultType, StageType DEF FetchFails, Fail
<1>5. CASE SkipFetch
  BY <1>5, AfterType DEF SkipFetch, Done
<1> QED
  BY <1>1, <1>2, <1>3, <1>4, <1>5 DEF FetchStep

LEMMA StopStepType == TypeOK /\ StopStep => TypeOK'
<1> SUFFICES ASSUME TypeOK, StopStep PROVE TypeOK'
  OBVIOUS
<1> USE DEF TypeOK, storeVars, fileVars, envVars, ctxVars, reportVars, Page, Error,
            Event, Told
<1>1. CASE StopApps
  BY <1>1, AfterType, StageType DEF StopApps, Done
<1>2. CASE StopFails
  BY <1>2, FaultType, StageType DEF StopFails, Fail
<1>3. CASE SkipStop
  BY <1>3, AfterType DEF SkipStop, Done
<1>4. CASE BeginStop
  BY <1>4 DEF BeginStop
<1> QED
  BY <1>1, <1>2, <1>3, <1>4 DEF StopStep

LEMMA InstallStepType == TypeOK /\ InstallStep => TypeOK'
<1> SUFFICES ASSUME TypeOK, InstallStep PROVE TypeOK'
  OBVIOUS
<1> USE DEF TypeOK, storeVars, fileVars, envVars, ctxVars, reportVars, Page, Error,
            Event, Told, InProgress
<1>1. CASE BeginInstall
  BY <1>1 DEF BeginInstall
<1>2. CASE InstallOk
  BY <1>2, AfterType, StageType DEF InstallOk, Done
<1>3. CASE InstallFails
  BY <1>3, FaultType, FailedType, StageType DEF InstallFails, Fail, UpdateFails
<1>4. CASE SkipInstall
  BY <1>4, AfterType DEF SkipInstall, Done
<1> QED
  BY <1>1, <1>2, <1>3, <1>4 DEF InstallStep

LEMMA StartStepType == TypeOK /\ StartStep => TypeOK'
<1> SUFFICES ASSUME TypeOK, StartStep PROVE TypeOK'
  OBVIOUS
<1> USE DEF TypeOK, storeVars, fileVars, envVars, ctxVars, reportVars, Page, Error,
            Event, Told, InProgress
<1>1. CASE BeginStart
  BY <1>1 DEF BeginStart
<1>2. CASE StartOk
  BY <1>2, StageType DEF StartOk
<1>3. CASE StartFails
  BY <1>3, FaultType, FailedType, StageType DEF StartFails, Fail, UpdateFails
<1>4. CASE SkipStart
  BY <1>4 DEF SkipStart
<1>5. CASE Complete
  BY <1>5, AfterType DEF Complete, Done
<1>6. CASE CompleteFails
  BY <1>6, AfterType, FaultType DEF CompleteFails, Done
<1> QED
  BY <1>1, <1>2, <1>3, <1>4, <1>5, <1>6 DEF StartStep

LEMMA ProcessType == TypeOK /\ (Report \/ ReportFails \/ ExitCli \/ DaemonCancels \/
        DaemonCancelFails \/ DaemonRetries \/ DaemonSleeps \/ DaemonWakes \/
        OperatorStep \/ Environment) => TypeOK'
<1> SUFFICES ASSUME TypeOK, (Report \/ ReportFails \/ ExitCli \/ DaemonCancels \/ DaemonCancelFails
                    \/ DaemonRetries \/ DaemonSleeps \/ DaemonWakes \/ OperatorStep
                    \/ Environment) PROVE TypeOK'
  OBVIOUS
<1> USE DEF TypeOK, storeVars, fileVars, envVars, ctxVars, reportVars, ContextType
<1>1. CASE Report
  BY <1>1 DEF Report
<1>2. CASE ExitCli
  BY <1>2, RunType DEF ExitCli
<1>3. CASE DaemonCancels
  BY <1>3, RunType, CommandType DEF DaemonCancels, Cancel
<1>4. CASE DaemonCancelFails
  BY <1>4, RunType, FaultType DEF DaemonCancelFails
<1>5. CASE DaemonRetries
  BY <1>5, RunType, CommandType DEF DaemonRetries
<1>6. CASE DaemonSleeps
  BY <1>6, RunType DEF DaemonSleeps
<1>7. CASE DaemonWakes
  BY <1>7, RunType, CommandType DEF DaemonWakes
<1>8. CASE StartDaemon
  BY <1>8, RunType, CommandType DEF StartDaemon
<1>9. CASE StartCli
  BY <1>9, RunType, CommandType DEF StartCli
<1>10. CASE CliCancel
  BY <1>10 DEF CliCancel, Cancel
<1>11. CASE Crash
  <2>1. stage' \in [URI -> 0 .. 3]
    BY <1>11, HalfDoneStage DEF Crash
  <2> QED
    BY <1>11, <2>1, RunType, FaultType DEF Crash
<1>12. CASE Publish
  BY <1>12, FaultType DEF Publish
<1>13. CASE Configure
  BY <1>13, FaultType DEF Configure
<1>14. CASE AppDies
  BY <1>14, FaultType DEF AppDies
<1>15. CASE ReportFails
  BY <1>15, FaultType DEF ReportFails
<1> QED
  BY <1>1, <1>2, <1>3, <1>4, <1>5, <1>6, <1>7, <1>8, <1>9, <1>10, <1>11, <1>12,
     <1>13, <1>14, <1>15
  DEF OperatorStep, Environment
-----------------------------------------------------------------------------
(* Type correctness: the selection of a target, and the theorem.           *)

LEMMA CandidateType ==
  ASSUME TypeOK
  PROVE  /\ CurrentTargets \subseteq Target
         /\ OngoingTargets \subseteq Target
         /\ \A f \in Target : SyncTargets(f) \subseteq Target
         /\ \A f \in Target : WantedTargets(f) \subseteq Target
<1>1. targets \in SUBSET Catalog /\ last.uris \in SUBSET URI /\ uuris \in SUBSET URI
  BY DEF TypeOK
<1>2. CurrentTargets \subseteq Target
  BY <1>1, OfUpdateType, UnknownIsTarget DEF CurrentTargets
<1>3. OngoingTargets \subseteq Target
  BY <1>1, OfUpdateType DEF OngoingTargets
<1>4. ASSUME NEW f \in Target PROVE SyncTargets(f) \subseteq Target
  BY <1>1, LookupType DEF SyncTargets
<1>5. ASSUME NEW f \in Target PROVE WantedTargets(f) \subseteq Target
  BY <1>1, <1>4, LookupType DEF WantedTargets
<1> QED
  BY <1>2, <1>3, <1>4, <1>5

LEMMA AcceptType ==
  ASSUME TypeOK, NEW f \in Target, NEW t \in Target, Accept(f, t)
  PROVE  /\ from' \in Target /\ to' \in Target /\ pc' \in Page
         /\ status' \in [known: BOOLEAN, uris: SUBSET URI, healthy: BOOLEAN]
         /\ err' \in Error \union {"none"} /\ note' \in Event \union {"none"}
         /\ faults' \in 0 .. MaxFaults
<1>1. last.uris \in SUBSET URI
  BY DEF TypeOK
<1>2. CurrentStatus \in [known: BOOLEAN, uris: SUBSET URI, healthy: BOOLEAN]
  BY <1>1 DEF CurrentStatus
<1>3. NoStatus \in [known: BOOLEAN, uris: SUBSET URI, healthy: BOOLEAN]
  BY DEF NoStatus
<1>4. /\ from' \in Target /\ to' \in Target /\ faults' \in 0 .. MaxFaults
      /\ status' \in [known: BOOLEAN, uris: SUBSET URI, healthy: BOOLEAN]
  BY <1>2, <1>3, FaultType DEF Accept, TypeOK
<1>5. pc' \in Page /\ err' \in Error \union {"none"} /\ note' \in Event \union
      {"none"}
  BY AfterType DEF Accept, Fail, Done, TypeOK, Page, Error, Event
<1> QED
  BY <1>4, <1>5

LEMMA RejectType ==
  ASSUME TypeOK, NEW f \in Target, NEW e \in Error, Reject(f, e)
  PROVE  /\ from' \in Target /\ to' \in Target /\ pc' \in Page
         /\ status' \in [known: BOOLEAN, uris: SUBSET URI, healthy: BOOLEAN]
         /\ err' \in Error \union {"none"} /\ note' \in Event \union {"none"}
         /\ faults' \in 0 .. MaxFaults
  BY DEF Reject, Fail, TypeOK, Page, Event

\* Select ends in one of two ways.
LEMMA SelectCases ==
  ASSUME TypeOK, Select
  PROVE  \E f \in Target : /\ Selecting(f)
                           /\ \/ \E t \in Target : Accept(f, t)
                              \/ \E e \in Error : Reject(f, e)
<1> USE CandidateType
<1>1. CASE ResumeInvalid
  BY <1>1 DEF ResumeInvalid, Error
<1>2. CASE ResumeOther
  BY <1>2 DEF ResumeOther, Error
<1>3. CASE ResumeOutdated
  BY <1>3 DEF ResumeOutdated, Error
<1>4. CASE Resume
  BY <1>4, FilterType DEF Resume
<1>5. CASE SelectMissing
  BY <1>5 DEF SelectMissing, Error
<1>6. CASE SelectWanted
  BY <1>6, FilterType DEF SelectWanted
<1>7. CASE SelectRollback
  BY <1>7, FilterType DEF SelectRollback
<1> QED
  BY <1>1, <1>2, <1>3, <1>4, <1>5, <1>6, <1>7 DEF Select

LEMMA SelectType == TypeOK /\ Select => TypeOK'
<1> SUFFICES ASSUME TypeOK, Select PROVE TypeOK'
  OBVIOUS
<1>1. PICK f \in Target : /\ Selecting(f)
                          /\ \/ \E t \in Target : Accept(f, t)
                             \/ \E e \in Error : Reject(f, e)
  BY SelectCases
<1>2. /\ from' \in Target /\ to' \in Target /\ pc' \in Page
      /\ status' \in [known: BOOLEAN, uris: SUBSET URI, healthy: BOOLEAN]
      /\ err' \in Error \union {"none"} /\ note' \in Event \union {"none"}
      /\ faults' \in 0 .. MaxFaults
  BY <1>1, AcceptType, RejectType
<1> QED
  BY <1>1, <1>2 DEF Selecting, TypeOK, storeVars, fileVars, envVars, reportVars

LEMMA TypeStep == TypeOK /\ [Next]_vars => TypeOK'
<1> SUFFICES ASSUME TypeOK, [Next]_vars PROVE TypeOK'
  OBVIOUS
<1>1. CASE ProcessStep
  BY <1>1, LoadType, SelectType, InitStepType, FetchStepType, StopStepType,
     InstallStepType, StartStepType, ProcessType
  DEF ProcessStep, CheckStep
<1>2. CASE OperatorStep \/ Environment
  BY <1>2, ProcessType
<1>3. CASE UNCHANGED vars
  BY <1>3 DEF TypeOK, vars, storeVars, fileVars, envVars, ctxVars, reportVars
<1> QED
  BY <1>1, <1>2, <1>3 DEF Next

\* Every state of the agent is well typed: no command, error or crash leaves
\* an update record, an app or the list of targets in a state it cannot have.
THEOREM TypeCorrect == Spec => []TypeOK
  BY InitType, TypeStep, PTL DEF Spec
-----------------------------------------------------------------------------
(* The record and the host.                                                *)

\* What makes HostMatchesRecord inductive: while a step of the runner is under
\* way, the record is in the state that step began with, so the state the step
\* ends with says no more than what the step did to the apps.
StepMatchesRecord ==
  /\ pc = "initializing" => ustate = "initializing"
  /\ pc = "fetching" => ustate = "fetching"
  /\ pc = "stopping" => ustate \in Installable
  /\ pc = "installing" => ustate = "installing"
  /\ pc = "starting" => ustate = "starting"
  /\ pc = "complete" => ustate \in {"started", "completing"}
  /\ ustate # "none" => uref \in TargetID
  /\ ustate = "none" => uref = "none" /\ uuris = {}

HostInv == TypeOK /\ StepMatchesRecord /\ HostMatchesRecord

LEMMA HostInit == Init => HostInv
  BY InitType DEF Init, HostInv, StepMatchesRecord, HostMatchesRecord,
                  Installable, Startable

\* Steps that do not touch the record or the apps, and begin nothing.
Quiet == /\ UNCHANGED <<ustate, uref, uuris, stage>>
         /\ pc' = pc \/ pc' \notin {"initializing", "fetching", "stopping",
                                    "installing", "starting", "complete"}

QuietStep ==
  \/ SetupFails \/ RefuseNoUpdate \/ RefuseState \/ RefuseTornFile \/ LoadTargets
  \/ RefreshTargets \/ RefreshFails \/ Select \/ InitFails \/ SkipInit
  \/ NoSpace \/ SkipFetch \/ SkipStop \/ SkipInstall \/ Report
  \/ ReportFails \/ ExitCli \/ DaemonCancelFails \/ DaemonRetries \/ DaemonSleeps
  \/ DaemonWakes \/ StartDaemon \/ StartCli \/ Publish \/ Configure
  \/ UNCHANGED vars

LEMMA QuietSteps == TypeOK /\ QuietStep => Quiet
<1> SUFFICES ASSUME TypeOK, QuietStep PROVE Quiet
  OBVIOUS
<1> USE DEF Quiet, storeVars
<1>1. CASE RefuseNoUpdate
  BY <1>1 DEF RefuseNoUpdate, Fail
<1>2. CASE RefuseState
  BY <1>2 DEF RefuseState, Fail
<1>3. CASE RefuseTornFile
  BY <1>3 DEF RefuseTornFile, Fail
<1>4. CASE LoadTargets
  BY <1>4 DEF LoadTargets
<1>5. CASE RefreshTargets
  BY <1>5 DEF RefreshTargets
<1>6. CASE RefreshFails
  BY <1>6 DEF RefreshFails, Fail
<1>7. CASE InitFails
  BY <1>7 DEF InitFails, Fail
<1>8. CASE SkipInit
  BY <1>8 DEF SkipInit, After, Done
<1>9. CASE NoSpace
  BY <1>9 DEF NoSpace, Fail
<1>10. CASE SkipFetch
  BY <1>10 DEF SkipFetch, After, Done
<1>11. CASE SkipStop
  BY <1>11 DEF SkipStop, After, Done
<1>12. CASE SkipInstall
  BY <1>12 DEF SkipInstall, After, Done
<1>13. CASE Report
  BY <1>13 DEF Report
<1>14. CASE ExitCli
  BY <1>14 DEF ExitCli, Rest
<1>15. CASE DaemonCancelFails
  BY <1>15 DEF DaemonCancelFails, Rest
<1>16. CASE DaemonRetries
  BY <1>16 DEF DaemonRetries, Run
<1>17. CASE DaemonSleeps
  BY <1>17 DEF DaemonSleeps, Rest
<1>18. CASE DaemonWakes
  BY <1>18 DEF DaemonWakes, Run
<1>19. CASE StartDaemon
  BY <1>19 DEF StartDaemon, Run
<1>20. CASE StartCli
  BY <1>20 DEF StartCli, Run
<1>21. CASE Publish
  BY <1>21 DEF Publish
<1>22. CASE Configure
  BY <1>22 DEF Configure
<1>23. CASE Select
  <2>1. PICK f \in Target : /\ Selecting(f)
                            /\ \/ \E t \in Target : Accept(f, t)
                               \/ \E e \in Error : Reject(f, e)
    BY <1>23, SelectCases
  <2> QED
    BY <2>1 DEF Selecting, Accept, Reject, Fail, Done, After
<1>24. CASE UNCHANGED vars
  BY <1>24 DEF vars
<1>25. CASE SetupFails \/ ReportFails
  BY <1>25 DEF SetupFails, Fail, ReportFails
<1> QED
  BY <1>1, <1>2, <1>3, <1>4, <1>5, <1>6, <1>7, <1>8, <1>9, <1>10, <1>11, <1>12,
     <1>13, <1>14, <1>15, <1>16, <1>17, <1>18, <1>19, <1>20, <1>21, <1>22, <1>23,
     <1>24, <1>25
  DEF QuietStep

LEMMA HostStep == HostInv /\ [Next]_vars => HostInv'
<1> SUFFICES ASSUME HostInv, [Next]_vars PROVE StepMatchesRecord' /\
                    HostMatchesRecord'
  BY TypeStep DEF HostInv
<1> USE DEF HostInv, StepMatchesRecord, HostMatchesRecord, Installable, Startable
<1>0. uuris \in SUBSET URI /\ stage \in [URI -> 0 .. 3]
  BY DEF TypeOK
<1>1. CASE QuietStep
  BY <1>0, <1>1, QuietSteps DEF Quiet
<1>2. CASE NewUpdate
  BY <1>0, <1>2, TypeOK DEF NewUpdate, At, Target, TypeOK
<1>3. CASE BeginInit
  BY <1>0, <1>3 DEF BeginInit, At
<1>4. CASE InitOk
  BY <1>0, <1>4 DEF InitOk, At, Done, After
<1>5. CASE BeginFetch
  BY <1>0, <1>5 DEF BeginFetch, At
<1>6. CASE FetchOk
  BY <1>0, <1>6, StageOrder DEF FetchOk, At, Done, After
<1>7. CASE FetchFails
  BY <1>0, <1>7, StageOrder DEF FetchFails, At, Fail, storeVars
<1>8. CASE StopApps
  BY <1>0, <1>8, StageOrder DEF StopApps, At, Done, After, storeVars
<1>9. CASE StopFails
  BY <1>0, <1>9, StageOrder DEF StopFails, At, Fail, storeVars
<1>10. CASE BeginInstall
  BY <1>0, <1>10 DEF BeginInstall, At
<1>11. CASE InstallOk
  <2>1. /\ Raised(uuris, 2) \in [URI -> 0 .. 3]
        /\ \A u \in uuris : Raised(uuris, 2)[u] >= 2
    BY <1>0, StageOrder, StageType
  <2>2. \A u \in uuris : stage'[u] >= 1 /\ stage'[u] >= 2
    BY <1>0, <1>11, <2>1 DEF InstallOk
  <2> QED
    BY <1>11, <2>2 DEF InstallOk, At, Done, After
<1>12. CASE InstallFails
  BY <1>0, <1>12 DEF InstallFails, At, Fail, UpdateFails
<1>13. CASE BeginStart
  BY <1>0, <1>13 DEF BeginStart, At
<1>14. CASE StartOk
  <2>1. /\ Raised(uuris, 3) \in [URI -> 0 .. 3]
        /\ \A u \in uuris : Raised(uuris, 3)[u] >= 3
    BY <1>0, StageOrder, StageType
  <2>2. \A u \in uuris : stage'[u] >= 1 /\ stage'[u] >= 2
    BY <1>0, <1>14, <2>1 DEF StartOk
  <2> QED
    BY <1>14, <2>2 DEF StartOk, At
<1>15. CASE StartFails
  BY <1>0, <1>15 DEF StartFails, At, Fail, UpdateFails
<1>16. CASE SkipStart
  BY <1>0, <1>16 DEF SkipStart, At, storeVars
<1>17. CASE Complete
  BY <1>0, <1>17 DEF Complete, At, Done, After
<1>18. CASE CompleteFails
  BY <1>0, <1>18 DEF CompleteFails, At, Done, After
<1>19. CASE CliCancel
  BY <1>0, <1>19 DEF CliCancel, Cancel
<1>20. CASE DaemonCancels
  BY <1>0, <1>20 DEF DaemonCancels, Cancel, Run
<1>21. CASE Crash
  <2>1. \A u \in URI : /\ stage[u] >= 1 => stage'[u] >= 1
                       /\ stage[u] >= 2 => stage'[u] >= 2
    BY <1>21, HalfDoneStage DEF Crash
  <2> QED
    BY <1>0, <1>21, <2>1 DEF Crash, Rest, storeVars
<1>22. CASE AppDies
  BY <1>0, <1>22 DEF AppDies, storeVars
<1>23. CASE BeginStop
  BY <1>0, <1>23 DEF BeginStop, storeVars
<1> QED
  BY <1>1, <1>2, <1>3, <1>4, <1>5, <1>6, <1>7, <1>8, <1>9, <1>10, <1>11, <1>12,
     <1>13, <1>14, <1>15, <1>16, <1>17, <1>18, <1>19, <1>20, <1>21, <1>22, <1>23
  DEF Next, ProcessStep, CheckStep, InitStep, FetchStep, StopStep, InstallStep,
      StartStep, OperatorStep, Environment, QuietStep

\* The record is never ahead of the host, whatever is interrupted: a command
\* that resumes an update may skip what the record says is done.
THEOREM HostCorrect == Spec => []HostMatchesRecord
<1>1. Spec => []HostInv
  BY HostInit, HostStep, PTL DEF Spec
<1>2. HostInv => HostMatchesRecord
  BY DEF HostInv
<1> QED
  BY <1>1, <1>2, PTL
-----------------------------------------------------------------------------
(* The life cycle of update records.                                       *)

LEMMA RankOf ==
  /\ DOMAIN Record!Rank = InProgress
  /\ Record!Rank["initializing"] = Record!Rank["created"] + 1
  /\ Record!Rank["initialized"] = Record!Rank["initializing"] + 1
  /\ Record!Rank["fetching"] = Record!Rank["initialized"] + 1
  /\ Record!Rank["fetched"] = Record!Rank["fetching"] + 1
  /\ Record!Rank["installing"] = Record!Rank["fetched"] + 1
  /\ Record!Rank["installed"] = Record!Rank["installing"] + 1
  /\ Record!Rank["starting"] = Record!Rank["installed"] + 1
  /\ Record!Rank["started"] = Record!Rank["starting"] + 1
  /\ Record!Rank["completing"] = Record!Rank["started"] + 1
  BY DEF Record!Rank, InProgress

LEMMA RecordInit == Init => Record!Init
  BY DEF Init, NoLast, Record!Init

LEMMA RecordStep == HostInv /\ [Next]_vars => [Record!Next]_Record!vars
<1> SUFFICES ASSUME HostInv, [Next]_vars PROVE [Record!Next]_Record!vars
  OBVIOUS
<1> USE DEF HostInv, StepMatchesRecord
<1>1. /\ ustate \in InProgress \union {"none"} /\ uuris \in SUBSET URI
      /\ "none" \notin InProgress /\ (Record!Ongoing <=> ustate # "none")
      /\ to \in Target
  BY RankOf DEF TypeOK, InProgress, Record!Ongoing
<1>2. ASSUME UNCHANGED <<storeVars>> PROVE UNCHANGED Record!vars
  BY <1>2 DEF storeVars, Record!vars
<1>3. ASSUME ustate # "none", ustate' \in InProgress,
             Record!Rank[ustate'] = Record!Rank[ustate] + 1,
             IF ustate = "created" THEN uuris' \in SUBSET URI ELSE UNCHANGED uuris,
             UNCHANGED <<uref, last, failed>>
      PROVE  Record!Next
  BY <1>1, <1>3, RankOf DEF Record!Next, Record!Advance
<1>4. ASSUME ustate # "none", ustate' = "none", uref' = "none", uuris' = {},
             UNCHANGED <<last, failed>>
      PROVE  Record!Next
  BY <1>1, <1>4 DEF Record!Next, Record!Cancel, Record!End
<1>5. ASSUME Select PROVE UNCHANGED <<storeVars>>
  BY <1>5, SelectCases DEF Selecting
<1>6. CASE \/ SetupFails \/ BeginStop \/ ReportFails
           \/ RefuseNoUpdate \/ RefuseState \/ RefuseTornFile \/ LoadTargets
           \/ RefreshTargets \/ RefreshFails \/ Select \/ InitFails \/ SkipInit
           \/ NoSpace \/ FetchFails \/ SkipFetch \/ StopApps \/ StopFails
           \/ SkipStop \/ SkipInstall \/ SkipStart \/ Report \/ ExitCli
           \/ DaemonCancelFails \/ DaemonRetries \/ DaemonSleeps \/ DaemonWakes
           \/ StartDaemon \/ StartCli \/ Publish \/ Configure \/ AppDies
           \/ UNCHANGED vars
  BY <1>2, <1>5, <1>6
  DEF SetupFails, BeginStop, ReportFails,
      RefuseNoUpdate, RefuseState, RefuseTornFile, LoadTargets, RefreshTargets,
      RefreshFails, InitFails, SkipInit, NoSpace, FetchFails, SkipFetch, StopApps,
      StopFails, SkipStop, SkipInstall, SkipStart, Report, ExitCli,
      DaemonCancelFails, DaemonRetries, DaemonSleeps, DaemonWakes, StartDaemon,
      StartCli, Publish, Configure, AppDies, vars
<1>7. CASE NewUpdate
  BY <1>1, <1>7 DEF NewUpdate, Target, Record!Next, Record!Create
<1>8. CASE BeginInit
  <2>1. CASE ustate = "created"
    BY <1>1, <1>3, <1>8, <2>1, RankOf DEF BeginInit, Target, InProgress
  <2>2. CASE ustate = "initializing"
    BY <1>8, <2>2 DEF BeginInit, Record!vars
  <2> QED
    BY <1>8, <2>1, <2>2 DEF BeginInit
<1>9. CASE InitOk
  BY <1>1, <1>3, <1>9, RankOf DEF InitOk, At, InProgress
<1>10. CASE FetchOk
  BY <1>1, <1>3, <1>10, RankOf DEF FetchOk, At, InProgress
<1>11. CASE InstallOk
  BY <1>1, <1>3, <1>11, RankOf DEF InstallOk, At, InProgress
<1>12. CASE StartOk
  BY <1>1, <1>3, <1>12, RankOf DEF StartOk, At, InProgress
<1>13. CASE BeginFetch
  <2>1. CASE ustate = ustate'
    BY <1>13, <2>1 DEF BeginFetch, Record!vars
  <2>2. CASE ustate # ustate'
    BY <1>1, <1>3, <1>13, <2>2, RankOf DEF BeginFetch, At, Installable, InProgress
  <2> QED
    BY <2>1, <2>2
<1>14. CASE BeginInstall
  <2>1. CASE ustate = ustate'
    BY <1>14, <2>1 DEF BeginInstall, Record!vars
  <2>2. CASE ustate # ustate'
    BY <1>1, <1>3, <1>14, <2>2, RankOf DEF BeginInstall, At, Installable, InProgress
  <2> QED
    BY <2>1, <2>2
<1>15. CASE BeginStart
  <2>1. CASE ustate = ustate'
    BY <1>15, <2>1 DEF BeginStart, Record!vars
  <2>2. CASE ustate # ustate'
    BY <1>1, <1>3, <1>15, <2>2, RankOf DEF BeginStart, At, Installable, InProgress
  <2> QED
    BY <2>1, <2>2
<1>16. CASE CompleteFails
  <2>1. CASE ustate = ustate'
    BY <1>16, <2>1 DEF CompleteFails, Record!vars
  <2>2. CASE ustate # ustate'
    BY <1>1, <1>3, <1>16, <2>2, RankOf DEF CompleteFails, At, Installable, InProgress
  <2> QED
    BY <2>1, <2>2
<1>17. CASE InstallFails
  BY <1>1, <1>17
  DEF InstallFails, UpdateFails, At, Record!Next, Record!Fail, Record!End
<1>18. CASE StartFails
  BY <1>1, <1>18
  DEF StartFails, UpdateFails, At, Record!Next, Record!Fail, Record!End
<1>19. CASE Complete
  BY <1>1, <1>19 DEF Complete, At, Record!Next, Record!Complete, Record!End
<1>20. CASE CliCancel
  BY <1>4, <1>20 DEF CliCancel, Cancel
<1>21. CASE DaemonCancels
  BY <1>4, <1>21 DEF DaemonCancels, Cancel
<1>22. CASE Crash
  BY <1>2, <1>4, <1>22 DEF Crash, storeVars
<1> QED
  BY <1>6, <1>7, <1>8, <1>9, <1>10, <1>11, <1>12, <1>13, <1>14, <1>15, <1>16, <1>17,
     <1>18, <1>19, <1>20, <1>21, <1>22
  DEF Next, ProcessStep, CheckStep, InitStep, FetchStep, StopStep, InstallStep,
      StartStep, OperatorStep, Environment

\* Whatever commands run and wherever they are cut short, the agent takes an
\* update record only through the life cycle of UpdateRecord.
THEOREM RecordCorrect == Spec => RecordSpec
<1>1. Spec => []HostInv
  BY HostInit, HostStep, PTL DEF Spec
<1> QED
  BY <1>1, RecordInit, RecordStep, PTL DEF Spec, RecordSpec, Record!Spec
-----------------------------------------------------------------------------
(* Reporting.                                                              *)

\* The outcome of an update that ended is the event the process saves, or tries to
\* save, next; until then it is over and does nothing else.
OwedInv == owed # "none" => note = owed /\ pc = "over"

ReportInv == HostInv /\ OwedInv /\ SuccessIsFinal

LEMMA ReportInit == Init => ReportInv
  BY HostInit DEF Init, ReportInv, OwedInv, SuccessIsFinal

LEMMA ReportStep == ReportInv /\ [Next]_vars => ReportInv'
<1> SUFFICES ASSUME ReportInv, [Next]_vars PROVE OwedInv' /\ SuccessIsFinal'
  BY HostStep DEF ReportInv
<1> USE DEF ReportInv, HostInv, StepMatchesRecord, OwedInv, SuccessIsFinal
<1>1. CASE Report
  BY <1>1 DEF Report, storeVars, reportVars
<1>2. CASE RefuseNoUpdate
  BY <1>2 DEF RefuseNoUpdate, At, Fail, storeVars, reportVars
<1>3. CASE RefuseState
  BY <1>3 DEF RefuseState, At, Fail, storeVars, reportVars
<1>4. CASE RefuseTornFile
  BY <1>4 DEF RefuseTornFile, Admitted, At, Fail, storeVars, reportVars
<1>5. CASE LoadTargets
  BY <1>5 DEF LoadTargets, At, Admitted, storeVars, reportVars
<1>6. CASE RefreshTargets
  BY <1>6 DEF RefreshTargets, At, storeVars, reportVars
<1>7. CASE RefreshFails
  BY <1>7 DEF RefreshFails, At, Fail, storeVars, reportVars
<1>8. CASE Select
  <2>1. PICK f \in Target : /\ Selecting(f)
                            /\ \/ \E t \in Target : Accept(f, t)
                               \/ \E e \in Error : Reject(f, e)
    BY <1>8, SelectCases
  <2>2. note' \in {"none", "MetaOk", "MetaErr"}
    BY <2>1 DEF Accept, Reject, Fail, Done
  <2> QED
    BY <2>1, <2>2 DEF Selecting, At, storeVars, reportVars
<1>9. CASE NewUpdate
  BY <1>9 DEF NewUpdate, At, storeVars, reportVars
<1>10. CASE BeginInit
  BY <1>10 DEF BeginInit, At, storeVars, reportVars
<1>11. CASE InitOk
  BY <1>11 DEF InitOk, At, Done, storeVars, reportVars
<1>12. CASE InitFails
  BY <1>12 DEF InitFails, At, Fail, storeVars, reportVars
<1>13. CASE SkipInit
  BY <1>13 DEF SkipInit, At, Done, storeVars, reportVars
<1>14. CASE BeginFetch
  BY <1>14 DEF BeginFetch, At, storeVars, reportVars
<1>15. CASE NoSpace
  BY <1>15 DEF NoSpace, At, Fail, storeVars, reportVars
<1>16. CASE FetchOk
  BY <1>16 DEF FetchOk, At, Done, storeVars, reportVars
<1>17. CASE FetchFails
  BY <1>17 DEF FetchFails, At, Fail, storeVars, reportVars
<1>18. CASE SkipFetch
  BY <1>18 DEF SkipFetch, At, Done, storeVars, reportVars
<1>19. CASE StopApps
  BY <1>19 DEF StopApps, At, Done, storeVars, reportVars
<1>20. CASE StopFails
  BY <1>20 DEF StopFails, At, Fail, storeVars, reportVars
<1>21. CASE SkipStop
  BY <1>21 DEF SkipStop, At, Done, storeVars, reportVars
<1>22. CASE BeginInstall
  BY <1>22 DEF BeginInstall, At, Installable, storeVars, reportVars
<1>23. CASE InstallOk
  BY <1>23 DEF InstallOk, At, Done, storeVars, reportVars
<1>24. CASE InstallFails
  BY <1>24 DEF InstallFails, At, Fail, UpdateFails, storeVars, reportVars
<1>25. CASE SkipInstall
  BY <1>25 DEF SkipInstall, At, Done, storeVars, reportVars
<1>26. CASE BeginStart
  BY <1>26 DEF BeginStart, At, storeVars, reportVars
<1>27. CASE StartOk
  BY <1>27 DEF StartOk, At, storeVars, reportVars
<1>28. CASE StartFails
  BY <1>28 DEF StartFails, At, Fail, UpdateFails, storeVars, reportVars
<1>29. CASE SkipStart
  BY <1>29 DEF SkipStart, At, storeVars, reportVars
<1>30. CASE Complete
  BY <1>30 DEF Complete, At, Done, After, storeVars, reportVars
<1>31. CASE CompleteFails
  BY <1>31 DEF CompleteFails, At, Done, storeVars, reportVars
<1>32. CASE ExitCli
  BY <1>32 DEF ExitCli, At, Rest, storeVars, reportVars
<1>33. CASE DaemonCancels
  BY <1>33 DEF DaemonCancels, At, Run, Cancel, storeVars, reportVars
<1>34. CASE DaemonCancelFails
  BY <1>34 DEF DaemonCancelFails, At, Rest, storeVars, reportVars
<1>35. CASE DaemonRetries
  BY <1>35 DEF DaemonRetries, At, Run, storeVars, reportVars
<1>36. CASE DaemonSleeps
  BY <1>36 DEF DaemonSleeps, At, Rest, storeVars, reportVars
<1>37. CASE DaemonWakes
  BY <1>37 DEF DaemonWakes, Run, storeVars, reportVars
<1>38. CASE StartDaemon
  BY <1>38 DEF StartDaemon, Run, storeVars, reportVars
<1>39. CASE StartCli
  BY <1>39 DEF StartCli, Run, storeVars, reportVars
<1>40. CASE CliCancel
  BY <1>40 DEF CliCancel, Cancel, storeVars, reportVars
<1>41. CASE Crash
  BY <1>41 DEF Crash, Rest, storeVars, reportVars
<1>42. CASE Publish
  BY <1>42 DEF Publish, storeVars, reportVars
<1>43. CASE Configure
  BY <1>43 DEF Configure, storeVars, reportVars
<1>44. CASE AppDies
  BY <1>44 DEF AppDies, storeVars, reportVars
<1>45. CASE UNCHANGED vars
  BY <1>45 DEF vars, storeVars, reportVars
<1>46. CASE ReportFails
  BY <1>46 DEF ReportFails, storeVars, reportVars
<1>47. CASE SetupFails
  BY <1>47 DEF SetupFails, At, Fail, storeVars, reportVars
<1>48. CASE BeginStop
  BY <1>48 DEF BeginStop, At, Installable, storeVars, reportVars
<1> QED
  BY <1>1, <1>2, <1>3, <1>4, <1>5, <1>6, <1>7, <1>8, <1>9, <1>10, <1>11, <1>12,
     <1>13, <1>14, <1>15, <1>16, <1>17, <1>18, <1>19, <1>20, <1>21, <1>22, <1>23,
     <1>24, <1>25, <1>26, <1>27, <1>28, <1>29, <1>30, <1>31, <1>32, <1>33, <1>34,
     <1>35, <1>36, <1>37, <1>38, <1>39, <1>40, <1>41, <1>42, <1>43, <1>44, <1>45,
     <1>46, <1>47, <1>48
  DEF Next, ProcessStep, CheckStep, InitStep, FetchStep, StopStep, InstallStep,
      StartStep, OperatorStep, Environment

LEMMA ReportAlways == Spec => []ReportInv
  BY ReportInit, ReportStep, PTL DEF Spec

\* No process rests, or goes on to another update, before it has saved the outcome of
\* an update that ended, or has tried to and failed.
THEOREM OutcomeCorrect == Spec => []OutcomeIsReported
<1>1. ReportInv => OutcomeIsReported
  BY DEF ReportInv, OwedInv, OutcomeIsReported
<1> QED
  BY <1>1, ReportAlways, PTL

\* An update reported as a success is never installed or started again.
THEOREM SuccessCorrect == Spec => []SuccessIsFinal
<1>1. ReportInv => SuccessIsFinal
  BY DEF ReportInv
<1> QED
  BY <1>1, ReportAlways, PTL
=============================================================================
