-------------------------- MODULE UpdateResultProofs --------------------------
(***************************************************************************)
(* Theorems about what a command of the agent leaves behind: what the      *)
(* gateway was told of the installation, and what was done when the command*)
(* ends without an error.                                                  *)
(***************************************************************************)
EXTENDS UpdateContextProofs

(* An installation is announced before anything is said of its end.        *)

Outcome == {"Applied", "CompletedOk", "CompletedErr"}

\* The installation events that were saved, or that saving was tried of and failed.
Said == told \union lost

Announced == "InstallStarted" \in Said

\* Saving the announcement comes before the apps are stopped, and the record is not
\* that of an installation before they are.
StartInv ==
  /\ HostInv
  /\ CompletionFollowsStart
  /\ ustate \in {"installing"} \union Startable => Announced
  /\ pc \in {"install", "installing"} => Announced
  /\ pc = "stopping" => note = "InstallStarted" \/ Announced

\* The record does not get further than it is, and what is said of it concerns no
\* installation.
Unsaid ==
  /\ note' \notin Outcome \/ note' = note
  /\ told' \subseteq told \union {note}
  /\ Said \subseteq Said' /\ Said' \subseteq Said \union {note}
  /\ ustate' \in {ustate, "none"} \union (InProgress \ ({"installing"} \union Startable))
  /\ pc' \notin {"install", "installing"} \/ pc' = pc \/ ustate \in Startable
  /\ pc' = "stopping" => pc = "stopping"
       /\ (note' = note \/ note \notin Told \/ note \in Said')

LEMMA UnsaidSteps ==
  ASSUME TypeOK, [Next]_vars
  PROVE  \/ Unsaid
         \/ NewUpdate \/ BeginStop \/ StopApps \/ StopFails \/ BeginInstall \/ InstallOk
         \/ InstallFails \/ BeginStart \/ StartOk \/ StartFails \/ Complete
         \/ CompleteFails
<1>. USE DEF Unsaid, Said, Outcome, At, Fail, Done, After, storeVars, reportVars
<1>1. CASE SetupFails \/ RefuseNoUpdate \/ RefuseState \/ RefuseTornFile
  BY <1>1 DEF SetupFails, RefuseNoUpdate, RefuseState, RefuseTornFile
<1>2. CASE LoadTargets \/ RefreshTargets \/ RefreshFails
  BY <1>2 DEF LoadTargets, RefreshTargets, RefreshFails
<1>3. CASE Select
  <2>1. PICK f \in Target : /\ Selecting(f)
                            /\ \/ \E t \in Target : Accept(f, t)
                               \/ \E e \in Error : Reject(f, e)
    BY <1>3, SelectCases
  <2>2. note' \in {"none", "MetaOk", "MetaErr"} /\ pc' \in {"init", "over"}
    BY <2>1 DEF Accept, Reject
  <2>. QED BY <2>1, <2>2 DEF Selecting
<1>4. CASE BeginInit \/ InitOk \/ InitFails \/ SkipInit
  BY <1>4 DEF BeginInit, InitOk, InitFails, SkipInit, InProgress, Startable
<1>5. CASE BeginFetch \/ NoSpace \/ FetchOk \/ FetchFails \/ SkipFetch
  BY <1>5 DEF BeginFetch, NoSpace, FetchOk, FetchFails, SkipFetch, InProgress, Startable
<1>6. CASE SkipStop \/ SkipInstall \/ SkipStart
  BY <1>6 DEF SkipStop, SkipInstall, SkipStart
<1>7. CASE ExitCli \/ DaemonCancels \/ DaemonCancelFails \/ DaemonRetries
  BY <1>7 DEF ExitCli, DaemonCancels, DaemonCancelFails, DaemonRetries, Cancel, Run, Rest
<1>8. CASE DaemonSleeps \/ DaemonWakes \/ StartDaemon \/ StartCli \/ CliCancel
  BY <1>8 DEF DaemonSleeps, DaemonWakes, StartDaemon, StartCli, CliCancel, Cancel, Run, Rest
<1>9. CASE Crash
  BY <1>9 DEF Crash, Rest
<1>10. CASE Publish \/ Configure \/ AppDies \/ UNCHANGED vars
  BY <1>10 DEF Publish, Configure, AppDies, vars
<1>11. CASE Report \/ ReportFails
  BY <1>11 DEF Report, ReportFails, Told
<1>. QED
  BY <1>1, <1>2, <1>3, <1>4, <1>5, <1>6, <1>7, <1>8, <1>9, <1>10, <1>11
  DEF Next, ProcessStep, OperatorStep, Environment, CheckStep, InitStep, FetchStep,
      StopStep, InstallStep, StartStep

LEMMA StartStepInv == StartInv /\ [Next]_vars => StartInv'
<1>. SUFFICES ASSUME StartInv, [Next]_vars
              PROVE  /\ CompletionFollowsStart'
                     /\ (ustate \in {"installing"} \union Startable => Announced)'
                     /\ (pc \in {"install", "installing"} => Announced)'
                     /\ (pc = "stopping" => note = "InstallStarted" \/ Announced)'
  BY HostStep DEF StartInv
<1>0. TypeOK /\ StepMatchesRecord
  BY DEF StartInv, HostInv
<1>. USE <1>0 DEF StartInv, CompletionFollowsStart, Announced, Said, Startable,
                  StepMatchesRecord, At, Fail, Done, After, storeVars, reportVars
<1>1. CASE Unsaid
  <2>1. Announced => Announced'
    BY <1>1 DEF Unsaid
  <2>2. ASSUME {"Applied", "CompletedOk", "CompletedErr"}
                 \intersect (told' \union {note'}) # {}
        PROVE  {"Applied", "CompletedOk", "CompletedErr"}
                 \intersect (told \union {note}) # {}
    BY <1>1, <2>2 DEF Unsaid, Outcome
  <2>3. "InstallStarted" \in Told
    BY DEF Told
  <2>. QED BY <1>1, <2>1, <2>2, <2>3 DEF Unsaid
<1>2. CASE NewUpdate
  BY <1>2 DEF NewUpdate
<1>3. CASE BeginStop \/ StopApps \/ StopFails
  BY <1>3 DEF BeginStop, StopApps, StopFails, Installable
<1>4. CASE BeginInstall \/ InstallOk \/ InstallFails
  BY <1>4 DEF BeginInstall, InstallOk, InstallFails, UpdateFails
<1>5. CASE BeginStart \/ StartOk \/ StartFails
  BY <1>5 DEF BeginStart, StartOk, StartFails, UpdateFails
<1>6. CASE Complete \/ CompleteFails
  BY <1>6 DEF Complete, CompleteFails
<1>. QED BY <1>1, <1>2, <1>3, <1>4, <1>5, <1>6, UnsaidSteps

\* Saving that an installation began comes before saving that it was applied or
\* completed, wherever the processes that worked on it were killed; it succeeded, or
\* it was tried and failed.
THEOREM CompletionCorrect == Spec => []CompletionFollowsStart
<1>1. Init => StartInv
  BY HostInit
  DEF Init, StartInv, CompletionFollowsStart, Startable
<1>2. StartInv => CompletionFollowsStart
  BY DEF StartInv
<1>. QED BY <1>1, <1>2, StartStepInv, PTL DEF Spec
-----------------------------------------------------------------------------
(* A command that ends without an error has done what it was asked for.    *)

Fetched == Installable \union Startable

\* How far the record is wherever the process is, what the command asks for that gets
\* there, and which apps a new update has.
PageInv ==
  /\ pc = "fetch" => ustate \notin {"none", "created", "initializing"}
  /\ pc \in {"stop", "stopping", "install"} => ustate \in Fetched
  /\ pc = "start" => ustate \in Startable
  /\ Driving => cmd.until # "check"
  /\ pc \in {"stop", "stopping", "install", "installing"} => cmd.until \in {"install", "start"}
  /\ pc \in {"start", "starting", "complete"} => cmd.until = "start"
  /\ mode = "new" /\ pc = "init" => ustate \in {"none", "created"}
  /\ mode = "new" /\ Driving /\ pc # "init" => uuris = to.uris

DoneInv == ContextInv /\ PageInv /\ CommandIsDone

\* The command has ended with an error, or another begins.
Stops ==
  \/ pc' = "over" /\ err' # "none"
  \/ pc' \in {"idle", "sleep", "check"}

LEMMA StopsKeep == ASSUME Stops PROVE PageInv' /\ CommandIsDone'
BY DEF Stops, PageInv, CommandIsDone, Driving

LEMMA StopsSteps ==
  ASSUME \/ SetupFails \/ RefuseNoUpdate \/ RefuseState \/ RefuseTornFile \/ RefreshFails
         \/ InitFails \/ NoSpace \/ FetchFails \/ StopFails \/ InstallFails
         \/ StartFails
         \/ ExitCli \/ DaemonCancels \/ DaemonCancelFails \/ DaemonRetries
         \/ DaemonSleeps \/ DaemonWakes \/ StartDaemon \/ StartCli \/ CliCancel
         \/ Crash
  PROVE  Stops
<1>. USE DEF Stops, Fail, Run, Rest
<1>1. CASE \/ SetupFails \/ RefuseNoUpdate \/ RefuseState \/ RefuseTornFile
           \/ RefreshFails
  BY <1>1 DEF SetupFails, RefuseNoUpdate, RefuseState, RefuseTornFile, RefreshFails
<1>2. CASE InitFails \/ NoSpace \/ FetchFails \/ StopFails
  BY <1>2 DEF InitFails, NoSpace, FetchFails, StopFails
<1>3. CASE InstallFails \/ StartFails
  BY <1>3 DEF InstallFails, StartFails
<1>4. CASE ExitCli \/ DaemonCancels \/ DaemonCancelFails \/ DaemonRetries
  BY <1>4 DEF ExitCli, DaemonCancels, DaemonCancelFails, DaemonRetries
<1>5. CASE DaemonSleeps \/ DaemonWakes \/ StartDaemon \/ StartCli
  BY <1>5 DEF DaemonSleeps, DaemonWakes, StartDaemon, StartCli
<1>6. CASE CliCancel \/ Crash
  BY <1>6 DEF CliCancel, Crash
<1>. QED BY <1>1, <1>2, <1>3, <1>4, <1>5, <1>6

\* An app that stops by itself stays installed.
LEMMA StandsKeep ==
  ASSUME DoneInv,
         Report \/ ReportFails \/ Publish \/ Configure \/ AppDies \/ UNCHANGED vars
  PROVE  PageInv' /\ CommandIsDone'
<1>1. TypeOK
  BY DEF DoneInv, ContextInv, HostInv
<1>2. Stands
  BY <1>1, StandSteps
<1>3. \A u \in URI : stage[u] >= 2 => stage'[u] >= 2
  <2>1. CASE Report \/ ReportFails \/ Publish \/ Configure \/ UNCHANGED vars
    BY <2>1 DEF Report, ReportFails, Publish, Configure, vars
  <2>2. CASE AppDies
    BY <2>2, <1>1 DEF AppDies, TypeOK
  <2>. QED BY <2>1, <2>2
<1>4. last.uris \subseteq URI
  BY <1>1 DEF TypeOK
<1>5. PageInv'
  BY <1>2 DEF DoneInv, PageInv, Driving, Stands, Context
<1>6. CommandIsDone'
  BY <1>2, <1>3, <1>4 DEF DoneInv, CommandIsDone, Stands, Context
<1>. QED BY <1>5, <1>6

\* A step of a command is done and its record says so, or was before.
LEMMA MovesKeep ==
  ASSUME DoneInv, MoveStep
  PROVE  PageInv' /\ CommandIsDone'
<1>0. /\ Moves /\ TypeOK /\ StepMatchesRecord
      /\ cmd.until \in {"check", "fetch", "install", "start"}
      /\ ustate \in InProgress \union {"none"}
      /\ Driving /\ ustate # "none" => uref = to.id
      /\ Driving /\ ustate \notin {"none", "created"} => to.uris \subseteq uuris
  BY MoveSteps DEF DoneInv, ContextInv, ContextMatchesRecord, HostInv, TypeOK, Command
<1>. USE <1>0 DEF DoneInv, PageInv, CommandIsDone, Moves, Context, Driving, At, Done,
                  After, Fetched, Installable, Startable, InProgress, StepMatchesRecord,
                  storeVars, ctxVars
<1>1. CASE InitOk \/ SkipInit
  BY <1>1 DEF InitOk, SkipInit
<1>2. CASE BeginFetch \/ FetchOk
  BY <1>2 DEF BeginFetch, FetchOk
<1>3. CASE SkipFetch
  BY <1>3 DEF SkipFetch
<1>4. CASE BeginStop \/ StopApps \/ SkipStop
  BY <1>4 DEF BeginStop, StopApps, SkipStop
<1>5. CASE BeginInstall \/ InstallOk
  BY <1>5 DEF BeginInstall, InstallOk
<1>6. CASE SkipInstall
  BY <1>6 DEF SkipInstall
<1>7. CASE BeginStart \/ StartOk \/ SkipStart
  BY <1>7 DEF BeginStart, StartOk, SkipStart
<1>8. CASE CompleteFails
  BY <1>8 DEF CompleteFails
<1>. QED BY <1>1, <1>2, <1>3, <1>4, <1>5, <1>6, <1>7, <1>8 DEF MoveStep

\* The update that is completed is the one of the command, and its apps are installed.
LEMMA CompleteKeeps ==
  ASSUME DoneInv, Complete
  PROVE  PageInv' /\ CommandIsDone'
<1>1. /\ pc = "complete" /\ pc' = "over" /\ cmd.until = "start"
      /\ ustate' = "none" /\ last' = [ref |-> uref, uris |-> uuris]
      /\ UNCHANGED <<to, mode, cmd>>
  BY DEF Complete, At, Done, After, DoneInv, PageInv, ctxVars
<1>2. /\ TypeOK /\ ustate \in Startable
      /\ uref = to.id /\ to.uris \subseteq uuris
      /\ mode = "new" => uuris = to.uris
  BY <1>1 DEF DoneInv, ContextInv, HostInv, StepMatchesRecord, Startable,
     ContextMatchesRecord, PageInv, Driving
<1>3. \A u \in uuris : stage'[u] >= 2
  <2>1. \A u \in uuris : u \in URI /\ stage[u] >= 2
    BY <1>2 DEF DoneInv, ContextInv, HostInv, HostMatchesRecord, TypeOK
  <2>. QED BY <2>1 DEF Complete
<1>. QED BY <1>1, <1>2, <1>3 DEF PageInv, CommandIsDone, Driving

LEMMA DoneStep == DoneInv /\ [Next]_vars => DoneInv'
<1>. SUFFICES ASSUME DoneInv, [Next]_vars PROVE PageInv' /\ CommandIsDone'
  BY ContextStep DEF DoneInv
<1>0. TypeOK /\ ModeInv
  BY DEF DoneInv, ContextInv, HostInv
<1>1. CASE LoadTargets \/ RefreshTargets
  BY <1>1 DEF LoadTargets, RefreshTargets, PageInv, CommandIsDone, Driving
<1>2. CASE Select
  <2>1. PICK f \in CurrentTargets :
          /\ Selecting(f)
          /\ \/ \E e \in Error \ {"ErrCheckNoUpdate"} : Reject(f, e)
             \/ \E t \in Target : Candidate(f, t) /\ Accept(f, Shortlist(t, enabled))
    BY <1>0, <1>2, Selected
  <2>2. pc = "select" /\ UNCHANGED <<cmd, mode, ustate>>
    BY <2>1 DEF Selecting, At, storeVars
  <2>3. CASE \E e \in Error \ {"ErrCheckNoUpdate"} : Reject(f, e)
    <3>1. Stops
      BY <2>3 DEF Reject, Fail, Stops, Error
    <3>. QED BY <3>1, StopsKeep
  <2>4. ASSUME NEW t \in Target, Accept(f, Shortlist(t, enabled))
        PROVE  PageInv' /\ CommandIsDone'
    <3>1. Stops \/ pc' = After("check")
      BY <2>4 DEF Accept, Fail, Done, Stops
    <3>2. CASE pc' = After("check")
      BY <3>2, <2>2, <1>0
      DEF After, PageInv, CommandIsDone, Driving, ModeInv
    <3>. QED BY <3>1, <3>2, StopsKeep
  <2>. QED BY <2>1, <2>3, <2>4
<1>3. CASE NewUpdate \/ BeginInit
  BY <1>3 DEF NewUpdate, BeginInit, At, ctxVars, DoneInv, PageInv, CommandIsDone, Driving
<1>. QED
  BY <1>1, <1>2, <1>3, StopsSteps, StopsKeep, StandsKeep, MovesKeep, CompleteKeeps
  DEF Next, ProcessStep, OperatorStep, Environment, CheckStep, InitStep, FetchStep,
      StopStep, InstallStep, StartStep, MoveStep

\* What a command that ends without an error leaves is what it was asked for, also if
\* others began the update with another list, configuration or last step.
THEOREM DoneCorrect == Spec => []CommandIsDone
<1>1. Init => DoneInv
  BY HostInit
  DEF Init, DoneInv, ContextInv, ModeInv, ContextMatchesRecord, PageInv,
      CommandIsDone, Driving
<1>2. DoneInv => CommandIsDone
  BY DEF DoneInv
<1>. QED BY <1>1, <1>2, DoneStep, PTL DEF Spec
=============================================================================
