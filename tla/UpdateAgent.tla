----------------------------- MODULE UpdateAgent -----------------------------
(***************************************************************************)
(* The update agent: one process at a time (the daemon, or one run of a    *)
(* CLI command) walks an update through Check, Init, Fetch, Stop, Install  *)
(* and Start (pkg/state, pkg/api, cmd/fioup), over state that outlives it: *)
(* the update records composeapp keeps, the apps on the host, and          *)
(* targets.json.  The process may be killed between and within its steps.   *)
(*                                                                         *)
(* composeapp (the update runner and its database) and the gateway are not *)
(* part of this repository; they are modelled from how it uses them:       *)
(*   - an update is in progress from NewUpdate until Complete, Cancel, or  *)
(*     a failure of the runner's Install or Start;                         *)
(*   - a failure of the runner's Init or Fetch leaves the update resumable.*)
(* The runner's database itself does not fail.                             *)
(***************************************************************************)
EXTENDS Targets

CONSTANTS
  Name,          (* the app names "compose_apps" may list                  *)
  MaxAttempts,   (* failed updates to a target the daemon tolerates        *)
  BadApps,       (* apps that never start                                  *)
  CreatedMayStay,(* whether an update may survive a crash before Init      *)
  TornWrites,    (* whether writing targets.json can be cut short          *)
  StatusFails,   (* whether reading the status of the apps can fail        *)
  MaxFaults,     (* bound: failures and crashes in a behaviour             *)
  MaxEdits       (* bound: publications and configuration changes          *)

ASSUME AgentAssumption ==
  /\ NameOf \in [URI -> Name]
  /\ MaxAttempts \in Nat \ {0}
  /\ BadApps \subseteq URI
  /\ CreatedMayStay \in BOOLEAN
  /\ TornWrites \in BOOLEAN
  /\ StatusFails \in BOOLEAN
  /\ MaxFaults \in Nat
  /\ MaxEdits \in Nat
  /\ "none" \notin TargetID

VARIABLES
  ustate,   (* state of the update in progress, "none" without one         *)
  uref,     (* its ClientRef: the ID of the target it goes to              *)
  uuris,    (* its URIs, set when its initialization starts                *)
  last,     (* ref and uris of the last successful update                  *)
  failed,   (* failed updates per target, saturating at MaxAttempts        *)
  stage,    (* per app: 0 absent, 1 fetched, 2 installed, 3 running        *)
  file,     (* targets.json: "absent", "torn" or "ok"                      *)
  listed,   (* the targets in it                                           *)
  server,   (* the targets the gateway lists now                           *)
  enabled,  (* the app names enabled in the configuration                  *)
  daemon,   (* the running process is the daemon                           *)
  pc,       (* what the running process does next, "idle" without one      *)
  cmd,      (* parameters of the command it runs                           *)
  err,      (* error the command ends with                                 *)
  mode, from, to, targets, status, (* the UpdateContext                    *)
  newer,    (* Check replaced the target list by a different one           *)
  note,     (* event the process is about to save                          *)
  told,     (* installation events saved for the latest update             *)
  lost,     (* those that could not be saved: logged, and nothing else     *)
  owed,     (* outcome of an ended update nobody has tried to save yet     *)
  faults, edits

storeVars  == <<ustate, uref, uuris, last, failed>>
fileVars   == <<file, listed>>
envVars    == <<server, enabled, edits>>
ctxVars    == <<mode, from, to, targets, status, newer>>
reportVars == <<told, lost, owed>>
vars == <<storeVars, stage, fileVars, envVars, daemon, pc, cmd, err, ctxVars,
          note, reportVars, faults>>
-----------------------------------------------------------------------------
(* Commands: the parameters pkg/api gives to Check, and the last state of  *)
(* its list.                                                               *)

Any == -1  \* ToVersion of a command that names no version

InProgress == {"created", "initializing", "initialized", "fetching", "fetched",
               "installing", "installed", "starting", "started", "completing"}
Installable == {"fetched", "installing"}
Startable   == {"installed", "starting", "started", "completing"}

Command == [until: {"check", "fetch", "install", "start"}, version: Int,
            refresh: BOOLEAN, allowNew: BOOLEAN, force: BOOLEAN, sync: BOOLEAN,
            latest: BOOLEAN, attempts: Nat, states: SUBSET InProgress]

CheckCommand ==
  [until |-> "check", version |-> Any, refresh |-> TRUE, allowNew |-> TRUE,
   force |-> TRUE, sync |-> FALSE, latest |-> FALSE, attempts |-> 0, states |-> {}]
FetchCommand(v) ==
  [CheckCommand EXCEPT !.until = "fetch", !.version = v, !.refresh = FALSE]
InstallCommand ==
  [CheckCommand EXCEPT !.until = "install", !.refresh = FALSE,
                       !.allowNew = FALSE, !.force = FALSE, !.states = Installable]
StartCommand == [InstallCommand EXCEPT !.until = "start", !.states = Startable]
UpdateCommand(v, sync) ==
  [CheckCommand EXCEPT !.until = "start", !.version = v, !.sync = sync]
DaemonCommand ==
  [CheckCommand EXCEPT !.until = "start", !.force = FALSE, !.latest = TRUE,
                       !.attempts = MaxAttempts]

CliCommand ==
  LET versions == {Any} \union {t.version : t \in Catalog}
  IN {CheckCommand, InstallCommand, StartCommand, UpdateCommand(Any, TRUE)}
       \union {FetchCommand(v) : v \in versions}
       \union {UpdateCommand(v, FALSE) : v \in versions}

Error == {"ErrNoUpdateInProgress", "ErrInvalidActionForState", "ErrMetaUpdateFailed",
          "ErrInvalidOngoingUpdate", "ErrTargetNotFound", "ErrNewerVersionIsAvailable",
          "ErrCheckNoUpdate", "ErrInitFailed", "ErrFetchFailed", "ErrFetchNoSpace",
          "ErrStopAppsFailed", "ErrInstallFailed", "ErrStartFailed", "ErrSetup"}

\* InstallationStarted, InstallationApplied and the two InstallationCompleted.
Told == {"InstallStarted", "Applied", "CompletedOk", "CompletedErr"}
Event == Told \union {"MetaOk", "MetaErr", "InitOk", "InitErr",
                      "DownloadOk", "DownloadErr"}

NoLast    == [ref |-> "none", uris |-> {}]
NoStatus  == [known |-> FALSE, uris |-> {}, healthy |-> FALSE]
Page      == {"idle", "check", "refresh", "select", "init", "initializing",
              "fetch", "fetching", "stop", "stopping", "install", "installing",
              "start", "starting", "complete", "over", "sleep"}

TypeOK ==
  /\ ustate \in InProgress \union {"none"}
  /\ uref \in TargetID \union {"none"}
  /\ uuris \in SUBSET URI
  /\ last \in [ref: TargetID \union {"none"}, uris: SUBSET URI]
  /\ failed \in [TargetID -> 0 .. MaxAttempts]
  /\ stage \in [URI -> 0 .. 3]
  /\ file \in {"absent", "torn", "ok"}
  /\ listed \in SUBSET Catalog
  /\ server \in SUBSET Catalog
  /\ enabled \in SUBSET Name
  /\ daemon \in BOOLEAN
  /\ pc \in Page
  /\ cmd \in Command
  /\ err \in Error \union {"none"}
  /\ mode \in {"new", "resume"}
  /\ from \in Target
  /\ to \in Target
  /\ targets \in SUBSET Catalog
  /\ status \in [known: BOOLEAN, uris: SUBSET URI, healthy: BOOLEAN]
  /\ newer \in BOOLEAN
  /\ note \in Event \union {"none"}
  /\ told \in SUBSET Told
  /\ lost \in SUBSET Told
  /\ owed \in {"none", "CompletedOk", "CompletedErr"}
  /\ faults \in 0 .. MaxFaults
  /\ edits \in 0 .. MaxEdits
-----------------------------------------------------------------------------
(* Steps of the running process.                                           *)

\* The process is at page p and has saved the event of its previous step.
At(p) == pc = p /\ note = "none"

\* Where a command goes after page p: it ends at its last state.
After(p) == IF cmd.until = p THEN "over"
            ELSE CASE p = "check" -> "init" [] p = "init" -> "fetch"
                   [] p = "fetch" -> "stop" [] p = "stop" -> "install"
                   [] p = "install" -> "start" [] OTHER -> "over"

Done(p, event) == /\ pc' = After(p)
                  /\ note' = event
                  /\ UNCHANGED err

\* Mutant: the error is returned without the event that reports it.
FailSilently(e, event) == /\ pc' = "over"
                          /\ err' = e
                          /\ note' = "none"

\* A state returns an error: no later state of the command runs.
Fail(e, event) == /\ pc' = "over"
                  /\ err' = e
                  /\ note' = event

\* The environment lets one more thing go wrong.
Fault == faults < MaxFaults /\ faults' = faults + 1

\* SendEvent: save the event that the previous step named.
Report ==
  /\ pc # "idle" /\ note # "none"
  /\ told' = IF note \in Told THEN told \union {note} ELSE told
  /\ owed' = IF note = owed THEN "none" ELSE owed
  /\ note' = "none"
  /\ UNCHANGED <<storeVars, stage, fileVars, envVars, daemon, pc, cmd, err,
                 ctxVars, lost, faults>>

\* The event cannot be saved: that is logged, and the command goes on.
ReportFails ==
  /\ pc # "idle" /\ note # "none" /\ Fault
  /\ lost' = IF note \in Told THEN lost \union {note} ELSE lost
  /\ owed' = IF note = owed THEN "none" ELSE owed
  /\ note' = "none"
  /\ UNCHANGED <<storeVars, stage, fileVars, envVars, daemon, pc, cmd, err,
                 ctxVars, told>>
-----------------------------------------------------------------------------
(* Check.                                                                  *)

\* UpdateRunner.Run ends before the first state: the client, the database or
\* the sender of events cannot be set up.
SetupFails ==
  /\ At("check") /\ Fault
  /\ Fail("ErrSetup", "none")
  /\ UNCHANGED <<storeVars, stage, fileVars, envVars, daemon, cmd, ctxVars,
                 reportVars>>

\* What Check finds in the update store, and the errors it ends with at once.
RefuseNoUpdate ==
  /\ At("check") /\ ustate = "none" /\ ~cmd.allowNew
  /\ Fail("ErrNoUpdateInProgress", "none")
  /\ UNCHANGED <<storeVars, stage, fileVars, envVars, daemon, cmd, ctxVars,
                 reportVars, faults>>

RefuseState ==
  /\ At("check") /\ ustate # "none"
  /\ cmd.states # {} /\ ustate \notin cmd.states
  /\ Fail("ErrInvalidActionForState", "none")
  /\ UNCHANGED <<storeVars, stage, fileVars, envVars, daemon, cmd, ctxVars,
                 reportVars, faults>>

Admitted == /\ At("check")
            /\ IF ustate = "none" THEN cmd.allowNew
               ELSE cmd.states = {} \/ ustate \in cmd.states

\* targets.json exists and does not parse: an error, even for a command that
\* would download it next.
RefuseTornFile ==
  /\ Admitted /\ file = "torn"
  /\ Fail("ErrMetaUpdateFailed", "MetaErr")
  /\ UNCHANGED <<storeVars, stage, fileVars, envVars, daemon, cmd, ctxVars,
                 reportVars, faults>>

LoadTargets ==
  /\ Admitted /\ file # "torn"
  /\ mode' = IF ustate = "none" THEN "new" ELSE "resume"
  /\ targets' = IF file = "ok" THEN listed ELSE {}
  /\ pc' = IF cmd.refresh THEN "refresh" ELSE "select"
  /\ UNCHANGED <<storeVars, stage, fileVars, envVars, daemon, cmd, err, from, to,
                 status, newer, note, reportVars, faults>>

\* LoadTargets(true): download the list and write it to targets.json.
RefreshTargets ==
  /\ At("refresh")
  /\ file' = "ok" /\ listed' = server
  /\ targets' = server
  /\ newer' = (file = "absent" \/ listed # server)
  /\ pc' = "select"
  /\ UNCHANGED <<storeVars, stage, envVars, daemon, cmd, err, mode, from, to,
                 status, note, reportVars, faults>>

\* The request, its status or its body is no good; or the file is truncated
\* and its new content cannot be written.
RefreshFails ==
  /\ At("refresh") /\ Fault
  /\ file' \in {file} \union (IF TornWrites THEN {"torn"} ELSE {})
  /\ listed' = IF file' = "torn" THEN {} ELSE listed
  /\ Fail("ErrMetaUpdateFailed", "MetaErr")
  /\ UNCHANGED <<storeVars, stage, envVars, daemon, cmd, ctxVars, reportVars>>

\* getAndSetCurrentTarget
CurrentTargets ==
  LET known == IF last = NoLast THEN {} ELSE OfUpdate(targets, last.ref, last.uris)
  IN IF known = {} THEN {UnknownTarget} ELSE known

\* Mutant: a resumed update is taken to be one of the latest target.
OngoingIsLatest == LatestOf(targets)

\* getOngoingUpdateTarget
OngoingTargets == OfUpdate(targets, uref, uuris)

\* getSyncTarget: the listed target of the current version, with all its apps.
SyncTargets(current) ==
  LET found == ByVersion(targets, current.version)
  IN IF found = {UnknownTarget} THEN {current} ELSE found

\* GetCurrentStatus.  Its three flags hold of all the apps it looks at, those
\* of the last successful update or else all that are on the host.
CurrentStatus ==
  LET uris == IF last.uris # {} THEN last.uris ELSE {u \in URI : stage[u] > 0}
  IN [known |-> TRUE, uris |-> uris, healthy |-> \A u \in uris : stage[u] = 3]

\* checkAppDiff
AppsDiffer(f, t) == Added(f, t) \union Removed(f, t) \union Changed(f, t) # {}

\* Mutant: apps that are on the host but do not run count as in sync.
InSyncWhenPresent(f, t, s) == ~AppsDiffer(f, t) /\ t.uris \subseteq s.uris

\* isTargetInSync, of a status it could read.
InSync(f, t, s) ==
  /\ ~AppsDiffer(f, t)
  /\ \A u \in t.uris : u \in s.uris /\ s.healthy

\* Check has selected t: Execute takes it, or finds that it runs already.
\* Only a new sync that is not forced looks at the apps' status, and that may
\* fail; if apps are to be added, removed or updated and none stays the same,
\* the status is not read at all.
NeedsStatus(f, t) ==
  /\ ~cmd.force /\ mode = "new" /\ t.id = f.id
  /\ ~AppsDiffer(f, t) \/ Same(f, t) # {}

Accept(f, t) ==
  /\ from' = f /\ to' = t
  /\ \/ /\ ~NeedsStatus(f, t)
        /\ status' = NoStatus
        /\ UNCHANGED faults
     \/ /\ NeedsStatus(f, t)
        /\ status' = NoStatus
        /\ StatusFails /\ Fault
     \/ /\ NeedsStatus(f, t)
        /\ status' = CurrentStatus
        /\ UNCHANGED faults
  /\ IF status'.known /\ InSync(f, t, status')
     THEN Fail("ErrCheckNoUpdate", IF newer THEN "MetaOk" ELSE "none")
     ELSE Done("check", IF newer THEN "MetaOk" ELSE "none")

Reject(f, e) == /\ from' = f
                /\ Fail(e, "MetaErr")
                /\ UNCHANGED <<to, status, faults>>

Selecting(f) ==
  /\ At("select")
  /\ f \in CurrentTargets
  /\ UNCHANGED <<storeVars, stage, fileVars, envVars, daemon, cmd, mode, targets,
                 newer, reportVars>>

\* selectToTarget with an update in progress.
ResumeInvalid ==
  \E f \in CurrentTargets :
    /\ Selecting(f) /\ mode = "resume" /\ OngoingTargets = {}
    /\ Reject(f, "ErrInvalidOngoingUpdate")

ResumeOther ==
  \E f \in CurrentTargets, t \in OngoingTargets :
    /\ Selecting(f) /\ mode = "resume"
    /\ cmd.version # Any /\ t.version # cmd.version
    /\ Reject(f, "ErrInvalidActionForState")

ResumeOutdated ==
  \E f \in CurrentTargets, t \in OngoingTargets, l \in LatestOf(targets) :
    /\ Selecting(f) /\ mode = "resume"
    /\ cmd.version = Any /\ cmd.latest /\ l.id # t.id
    /\ Reject(f, "ErrNewerVersionIsAvailable")

Resume ==
  \E f \in CurrentTargets, t \in OngoingTargets, l \in LatestOf(targets) :
    /\ Selecting(f) /\ mode = "resume"
    /\ cmd.version # Any => t.version = cmd.version
    /\ cmd.version = Any /\ cmd.latest => l.id = t.id
    /\ Accept(f, Shortlist(t, enabled))

\* selectToTarget without one.
WantedTargets(f) ==
  CASE cmd.version # Any -> ByVersion(targets, cmd.version)
    [] cmd.version = Any /\ cmd.sync -> SyncTargets(f)
    [] cmd.version = Any /\ ~cmd.sync -> LatestOf(targets)

\* Mutants: the attempts are counted one too far, or not at all.
ExhaustedLate(t) == cmd.version = Any /\ cmd.attempts > 0 /\ failed[t.id] > cmd.attempts
NeverExhausted(t) == FALSE

Exhausted(t) == cmd.version = Any /\ cmd.attempts > 0 /\ failed[t.id] >= cmd.attempts

SelectMissing ==
  \E f \in CurrentTargets : \E t \in WantedTargets(f) :
    /\ Selecting(f) /\ mode = "new" /\ t.id = UnknownTarget.id
    /\ Reject(f, "ErrTargetNotFound")

SelectWanted ==
  \E f \in CurrentTargets : \E t \in WantedTargets(f) :
    /\ Selecting(f) /\ mode = "new" /\ t.id # UnknownTarget.id /\ ~Exhausted(t)
    /\ Accept(f, Shortlist(t, enabled))

\* The wanted target failed too often: go back to the current one, which may
\* be unknown.
SelectRollback ==
  \E f \in CurrentTargets : \E t \in WantedTargets(f) : \E s \in SyncTargets(f) :
    /\ Selecting(f) /\ mode = "new" /\ t.id # UnknownTarget.id /\ Exhausted(t)
    /\ Accept(f, Shortlist(s, enabled))

Select == \/ ResumeInvalid \/ ResumeOther \/ ResumeOutdated \/ Resume
          \/ SelectMissing \/ SelectWanted \/ SelectRollback
-----------------------------------------------------------------------------
(* Init and Fetch.                                                         *)

\* update.NewUpdate: a new record, which starts a new series of events.
NewUpdate ==
  /\ At("init") /\ ustate = "none"
  /\ ustate' = "created" /\ uref' = to.id /\ uuris' = {}
  /\ told' = {} /\ lost' = {}
  /\ UNCHANGED <<last, failed, stage, fileVars, envVars, daemon, pc, cmd, err,
                 ctxVars, note, owed, faults>>

\* Mutant: the app list is passed on every attempt.
BeginInitAnew ==
  /\ At("init") /\ ustate \in {"created", "initializing"}
  /\ ustate' = "initializing"
  /\ uuris' = to.uris
  /\ pc' = "initializing"
  /\ UNCHANGED <<uref, last, failed, stage, fileVars, envVars, daemon, cmd, err,
                 ctxVars, note, reportVars, faults>>

\* Runner.Init: the app list is passed only to a record that was just created.
BeginInit ==
  /\ At("init") /\ ustate \in {"created", "initializing"}
  /\ ustate' = "initializing"
  /\ uuris' = IF ustate = "created" THEN to.uris ELSE uuris
  /\ pc' = "initializing"
  /\ UNCHANGED <<uref, last, failed, stage, fileVars, envVars, daemon, cmd, err,
                 ctxVars, note, reportVars, faults>>

InitOk ==
  /\ At("initializing")
  /\ ustate' = "initialized"
  /\ Done("init", "InitOk")
  /\ UNCHANGED <<uref, uuris, last, failed, stage, fileVars, envVars, daemon, cmd,
                 ctxVars, reportVars, faults>>

InitFails ==
  /\ At("initializing") /\ Fault
  /\ Fail("ErrInitFailed", "InitErr")
  /\ UNCHANGED <<storeVars, stage, fileVars, envVars, daemon, cmd, ctxVars, reportVars>>

SkipInit ==
  /\ At("init") /\ ustate \notin {"none", "created", "initializing"}
  /\ Done("init", "none")
  /\ UNCHANGED <<storeVars, stage, fileVars, envVars, daemon, cmd, ctxVars,
                 reportVars, faults>>

\* Fetch refuses "created" and "initializing"; Init never hands them over.
BeginFetch ==
  /\ At("fetch") /\ ustate \in {"initialized", "fetching"}
  /\ ustate' = "fetching"
  /\ pc' = "fetching"
  /\ UNCHANGED <<uref, uuris, last, failed, stage, fileVars, envVars, daemon, cmd,
                 err, ctxVars, note, reportVars, faults>>

\* checkFreeSpace: the runner is not called.
NoSpace ==
  /\ At("fetch") /\ ustate \in {"initialized", "fetching"} /\ Fault
  /\ Fail("ErrFetchNoSpace", "DownloadErr")
  /\ UNCHANGED <<storeVars, stage, fileVars, envVars, daemon, cmd, ctxVars, reportVars>>

\* Raise the apps of uris to stage n, leaving alone those that are beyond it.
Raised(uris, n) ==
  [u \in URI |-> IF u \in uris /\ stage[u] < n THEN n ELSE stage[u]]

\* Mutant: fetches the apps of the context instead of those of the record.
FetchOkOfContext ==
  /\ At("fetching")
  /\ ustate' = "fetched"
  /\ stage' = Raised(to.uris, 1)
  /\ Done("fetch", "DownloadOk")
  /\ UNCHANGED <<uref, uuris, last, failed, fileVars, envVars, daemon, cmd,
                 ctxVars, reportVars, faults>>

FetchOk ==
  /\ At("fetching")
  /\ ustate' = "fetched"
  /\ stage' = Raised(uuris, 1)
  /\ Done("fetch", "DownloadOk")
  /\ UNCHANGED <<uref, uuris, last, failed, fileVars, envVars, daemon, cmd,
                 ctxVars, reportVars, faults>>

\* Some of the apps may have been fetched.
FetchFails ==
  /\ At("fetching") /\ Fault
  /\ \E part \in SUBSET uuris : part # uuris /\ stage' = Raised(part, 1)
  /\ Fail("ErrFetchFailed", "DownloadErr")
  /\ UNCHANGED <<storeVars, fileVars, envVars, daemon, cmd, ctxVars, reportVars>>

\* Mutant: a fetch that was begun is taken to be done.
SkipFetchBegun ==
  /\ At("fetch") /\ ustate \notin {"none", "initialized"}
  /\ Done("fetch", "none")
  /\ UNCHANGED <<storeVars, stage, fileVars, envVars, daemon, cmd, ctxVars,
                 reportVars, faults>>

SkipFetch ==
  /\ At("fetch") /\ ustate \notin {"none", "initialized", "fetching"}
  /\ Done("fetch", "none")
  /\ UNCHANGED <<storeVars, stage, fileVars, envVars, daemon, cmd, ctxVars,
                 reportVars, faults>>
-----------------------------------------------------------------------------
(* Stop and Install.                                                       *)

IsSync == to.id = from.id  \* UpdateTypeSync

\* Mutant: the apps that the update replaces are not stopped.
OnlyRemovedApps == Removed(from, to)

AppsToStop ==
  IF ~IsSync \/ cmd.force THEN from.uris
  ELSE Removed(from, to)
         \union {u \in Same(from, to) : ~(u \in status.uris /\ status.healthy)}

Stopped(uris) == [u \in URI |-> IF u \in uris /\ stage[u] = 3 THEN 2 ELSE stage[u]]

\* Mutant: nothing is announced if there is nothing to stop.
BeginStopIfAny ==
  /\ At("stop") /\ ustate \in Installable
  /\ pc' = "stopping"
  /\ note' = IF AppsToStop = {} THEN "none" ELSE "InstallStarted"
  /\ UNCHANGED <<storeVars, stage, fileVars, envVars, daemon, cmd, err, ctxVars,
                 reportVars, faults>>

\* The installation is announced before anything is stopped.
BeginStop ==
  /\ At("stop") /\ ustate \in Installable
  /\ pc' = "stopping"
  /\ note' = "InstallStarted"
  /\ UNCHANGED <<storeVars, stage, fileVars, envVars, daemon, cmd, err, ctxVars,
                 reportVars, faults>>

\* Mutant: an app is taken down a stage whether it runs or not.
StopAppsBlindly ==
  /\ At("stopping")
  /\ stage' = [u \in URI |-> IF u \in AppsToStop THEN stage[u] - 1 ELSE stage[u]]
  /\ Done("stop", "none")
  /\ UNCHANGED <<storeVars, fileVars, envVars, daemon, cmd, ctxVars, reportVars,
                 faults>>

StopApps ==
  /\ At("stopping")
  /\ stage' = Stopped(AppsToStop)
  /\ Done("stop", "none")
  /\ UNCHANGED <<storeVars, fileVars, envVars, daemon, cmd, ctxVars, reportVars,
                 faults>>

\* compose.StopApps fails, some of the apps stopped; the record is untouched.
StopFails ==
  /\ At("stopping") /\ AppsToStop # {} /\ Fault
  /\ \E part \in SUBSET AppsToStop : part # AppsToStop /\ stage' = Stopped(part)
  /\ Fail("ErrStopAppsFailed", "CompletedErr")
  /\ UNCHANGED <<storeVars, fileVars, envVars, daemon, cmd, ctxVars, reportVars>>

SkipStop ==
  /\ At("stop") /\ ustate \in Startable
  /\ Done("stop", "none")
  /\ UNCHANGED <<storeVars, stage, fileVars, envVars, daemon, cmd, ctxVars,
                 reportVars, faults>>

BeginInstall ==
  /\ At("install") /\ ustate \in Installable
  /\ ustate' = "installing"
  /\ pc' = "installing"
  /\ UNCHANGED <<uref, uuris, last, failed, stage, fileVars, envVars, daemon, cmd,
                 err, ctxVars, note, reportVars, faults>>

InstallOk ==
  /\ At("installing")
  /\ ustate' = "installed"
  /\ stage' = Raised(uuris, 2)
  /\ Done("install", "Applied")
  /\ UNCHANGED <<uref, uuris, last, failed, fileVars, envVars, daemon, cmd,
                 ctxVars, reportVars, faults>>

\* The update is over, as a failed one of its target.
UpdateFails ==
  /\ ustate' = "none" /\ uref' = "none" /\ uuris' = {}
  /\ failed' = [failed EXCEPT ![uref] = IF @ < MaxAttempts THEN @ + 1 ELSE @]
  /\ owed' = "CompletedErr"
  /\ UNCHANGED last

InstallFails ==
  /\ At("installing") /\ Fault
  /\ UpdateFails
  /\ \E part \in SUBSET uuris : part # uuris /\ stage' = Raised(part, 2)
  /\ Fail("ErrInstallFailed", "CompletedErr")
  /\ UNCHANGED <<fileVars, envVars, daemon, cmd, ctxVars, told, lost>>

SkipInstall ==
  /\ At("install") /\ ustate \in Startable
  /\ Done("install", "none")
  /\ UNCHANGED <<storeVars, stage, fileVars, envVars, daemon, cmd, ctxVars,
                 reportVars, faults>>
-----------------------------------------------------------------------------
(* Start and completion.                                                   *)

BeginStart ==
  /\ At("start") /\ ustate \in {"installed", "starting"}
  /\ ustate' = "starting"
  /\ pc' = "starting"
  /\ UNCHANGED <<uref, uuris, last, failed, stage, fileVars, envVars, daemon, cmd,
                 err, ctxVars, note, reportVars, faults>>

StartOk ==
  /\ At("starting") /\ uuris \intersect BadApps = {}
  /\ ustate' = "started"
  /\ stage' = Raised(uuris, 3)
  /\ pc' = "complete"
  /\ UNCHANGED <<uref, uuris, last, failed, fileVars, envVars, daemon, cmd, err,
                 ctxVars, note, reportVars, faults>>

\* A bad app never starts, a good one may not.  Other apps of the update may
\* run all the same.
StartFails ==
  /\ At("starting")
  /\ IF uuris \intersect BadApps = {} THEN Fault ELSE UNCHANGED faults
  /\ UpdateFails
  /\ \E part \in SUBSET (uuris \ BadApps) : stage' = Raised(part, 3)
  /\ Fail("ErrStartFailed", "CompletedErr")
  /\ UNCHANGED <<fileVars, envVars, daemon, cmd, ctxVars, told, lost>>

SkipStart ==
  /\ At("start") /\ ustate \in {"started", "completing"}
  /\ pc' = "complete"
  /\ UNCHANGED <<storeVars, stage, fileVars, envVars, daemon, cmd, err, ctxVars,
                 note, reportVars, faults>>

\* completeUpdate: one of four attempts succeeds, the last two of which do not
\* prune.  Pruning removes the apps that are neither the update's nor running.
Complete ==
  /\ At("complete")
  /\ ustate' = "none" /\ uref' = "none" /\ uuris' = {}
  /\ last' = [ref |-> uref, uris |-> uuris]
  /\ owed' = "CompletedOk"
  /\ stage' \in {stage, [u \in URI |-> IF u \notin uuris /\ stage[u] < 3
                                       THEN 0 ELSE stage[u]]}
  /\ Done("start", "CompletedOk")
  /\ UNCHANGED <<failed, fileVars, envVars, daemon, cmd, ctxVars, told, lost,
                 faults>>

\* Mutant: the apps are started once more by the next command.
CompleteFailsBack ==
  /\ At("complete") /\ Fault
  /\ ustate' = "installed"
  /\ Done("start", "CompletedOk")
  /\ UNCHANGED <<uref, uuris, last, failed, stage, fileVars, envVars, daemon, cmd,
                 ctxVars, reportVars>>

\* All four fail: logged, and reported as a success.
CompleteFails ==
  /\ At("complete") /\ Fault
  /\ ustate' = "completing"
  /\ Done("start", "CompletedOk")
  /\ UNCHANGED <<uref, uuris, last, failed, stage, fileVars, envVars, daemon, cmd,
                 ctxVars, reportVars>>
-----------------------------------------------------------------------------
(* Processes.  The lock file lets one of them run at a time.               *)

IdleContext ==
  /\ mode' = "new" /\ from' = UnknownTarget /\ to' = UnknownTarget
  /\ targets' = {} /\ status' = NoStatus /\ newer' = FALSE

\* Every command starts, and every daemon iteration restarts, from an empty
\* UpdateContext; outside a command the context does not exist.
Run(c, d) == /\ pc' = "check" /\ cmd' = c /\ daemon' = d
             /\ err' = "none" /\ IdleContext

Rest(p) == /\ pc' = p /\ cmd' = CheckCommand /\ daemon' = (p # "idle")
           /\ err' = "none" /\ IdleContext

StartDaemon ==
  /\ pc = "idle" /\ Run(DaemonCommand, TRUE)
  /\ UNCHANGED <<storeVars, stage, fileVars, envVars, note, reportVars, faults>>

StartCli ==
  /\ pc = "idle"
  /\ \E c \in CliCommand : Run(c, FALSE)
  /\ UNCHANGED <<storeVars, stage, fileVars, envVars, note, reportVars, faults>>

ExitCli ==
  /\ At("over") /\ ~daemon /\ Rest("idle")
  /\ UNCHANGED <<storeVars, stage, fileVars, envVars, note, reportVars, faults>>

\* update.Runner.Cancel: the update is over, and not counted as failed.
Cancel == /\ ustate # "none"
          /\ ustate' = "none" /\ uref' = "none" /\ uuris' = {}
          /\ UNCHANGED <<last, failed>>

\* fioup cancel
CliCancel ==
  /\ pc = "idle" /\ Cancel
  /\ UNCHANGED <<stage, fileVars, envVars, daemon, pc, cmd, err, ctxVars, note,
                 reportVars, faults>>

\* checkUpdates: what the daemon makes of the error of an iteration.
DaemonCancels ==
  /\ At("over") /\ daemon /\ err = "ErrNewerVersionIsAvailable"
  /\ Cancel /\ Run(DaemonCommand, TRUE)
  /\ UNCHANGED <<stage, fileVars, envVars, note, reportVars, faults>>

DaemonCancelFails ==
  /\ At("over") /\ daemon /\ err = "ErrNewerVersionIsAvailable"
  /\ Fault /\ Rest("sleep")
  /\ UNCHANGED <<storeVars, stage, fileVars, envVars, note, reportVars>>

DaemonRetries ==
  /\ At("over") /\ daemon /\ err = "ErrStartFailed"
  /\ Run(DaemonCommand, TRUE)
  /\ UNCHANGED <<storeVars, stage, fileVars, envVars, note, reportVars, faults>>

DaemonSleeps ==
  /\ At("over") /\ daemon
  /\ err \notin {"ErrNewerVersionIsAvailable", "ErrStartFailed"}
  /\ Rest("sleep")
  /\ UNCHANGED <<storeVars, stage, fileVars, envVars, note, reportVars, faults>>

DaemonWakes ==
  /\ pc = "sleep" /\ Run(DaemonCommand, TRUE)
  /\ UNCHANGED <<storeVars, stage, fileVars, envVars, note, reportVars, faults>>

\* What a process that is killed may leave of the apps it was working on.
HalfDone ==
  \/ UNCHANGED stage
  \/ \E part \in SUBSET uuris :
       \/ pc = "fetching" /\ stage' = Raised(part, 1)
       \/ pc = "installing" /\ stage' = Raised(part, 2)
       \/ pc = "starting" /\ stage' = Raised(part \ BadApps, 3)
  \/ pc = "stopping" /\ \E part \in SUBSET AppsToStop : stage' = Stopped(part)

\* The process exits or is killed wherever it is; an event it has not saved is
\* lost, its work on the apps is done in part, and targets.json may be left half
\* written.
Crash ==
  /\ pc # "idle" /\ Fault
  /\ Rest("idle")
  /\ note' = "none" /\ owed' = "none"
  /\ \/ ustate = "created" /\ ustate' = "none" /\ uref' = "none" /\ uuris' = {}
     \/ (ustate = "created" => CreatedMayStay) /\ UNCHANGED <<ustate, uref, uuris>>
  /\ \/ UNCHANGED fileVars
     \/ pc = "refresh" /\ TornWrites /\ file' = "torn" /\ listed' = {}
  /\ HalfDone
  /\ UNCHANGED <<last, failed, envVars, told, lost>>
-----------------------------------------------------------------------------
(* Environment.                                                            *)

Edit == edits < MaxEdits /\ edits' = edits + 1

\* The Factory publishes or withdraws targets.
Publish ==
  /\ Edit
  /\ \E ts \in SUBSET Catalog : ts # server /\ server' = ts
  /\ UNCHANGED <<storeVars, stage, fileVars, enabled, daemon, pc, cmd, err, ctxVars,
                 note, reportVars, faults>>

\* "compose_apps" changes.  A command reads the configuration when it starts;
\* the daemon rereads it between two iterations, on SIGHUP.
Configure ==
  /\ pc \in {"idle", "sleep"} /\ Edit
  /\ \E ns \in SUBSET Name : ns # enabled /\ enabled' = ns
  /\ UNCHANGED <<storeVars, stage, fileVars, server, daemon, pc, cmd, err, ctxVars,
                 note, reportVars, faults>>

\* An app stops running by itself.
AppDies ==
  /\ Fault
  /\ \E u \in URI : stage[u] = 3 /\ stage' = [stage EXCEPT ![u] = 2]
  /\ UNCHANGED <<storeVars, fileVars, envVars, daemon, pc, cmd, err, ctxVars, note,
                 reportVars>>
-----------------------------------------------------------------------------
Init ==
  /\ ustate = "none" /\ uref = "none" /\ uuris = {}
  /\ last = NoLast
  /\ failed = [id \in TargetID |-> 0]
  /\ stage = [u \in URI |-> 0]
  /\ file = "absent" /\ listed = {}
  /\ server \in SUBSET Catalog
  /\ enabled = Name
  /\ daemon = FALSE /\ pc = "idle" /\ cmd = CheckCommand /\ err = "none"
  /\ mode = "new" /\ from = UnknownTarget /\ to = UnknownTarget
  /\ targets = {} /\ status = NoStatus /\ newer = FALSE
  /\ note = "none" /\ told = {} /\ lost = {} /\ owed = "none"
  /\ faults = 0 /\ edits = 0

CheckStep   == SetupFails \/ RefuseNoUpdate \/ RefuseState \/ RefuseTornFile \/ LoadTargets
                 \/ RefreshTargets \/ RefreshFails \/ Select
InitStep    == NewUpdate \/ BeginInit \/ InitOk \/ InitFails \/ SkipInit
FetchStep   == BeginFetch \/ NoSpace \/ FetchOk \/ FetchFails \/ SkipFetch
StopStep    == BeginStop \/ StopApps \/ StopFails \/ SkipStop
InstallStep == BeginInstall \/ InstallOk \/ InstallFails \/ SkipInstall
StartStep   == BeginStart \/ StartOk \/ StartFails \/ SkipStart
                 \/ Complete \/ CompleteFails
ProcessStep == \/ Report \/ ReportFails \/ CheckStep \/ InitStep \/ FetchStep \/ StopStep
               \/ InstallStep \/ StartStep
               \/ ExitCli \/ DaemonCancels \/ DaemonCancelFails \/ DaemonRetries
               \/ DaemonSleeps \/ DaemonWakes
OperatorStep == StartDaemon \/ StartCli \/ CliCancel
Environment == Crash \/ Publish \/ Configure \/ AppDies

Next == ProcessStep \/ OperatorStep \/ Environment

Spec == Init /\ [][Next]_vars

\* The device in daemon mode: no CLI command runs, systemd starts the daemon
\* again whenever it ended, and the daemon's loop goes on.
DaemonNext == ProcessStep \/ StartDaemon \/ Environment
DaemonSpec == /\ Init /\ [][DaemonNext]_vars
              /\ WF_vars(StartDaemon) /\ WF_vars(ProcessStep)
-----------------------------------------------------------------------------
(* Properties.                                                             *)

\* The record is never ahead of the host: from "fetched" on the apps of the
\* update are on the host, from "installed" on they are installed.  A resumed
\* command relies on it: Fetch and Install skip what the record says is done.
HostMatchesRecord ==
  /\ ustate \in Installable \union Startable => \A u \in uuris : stage[u] >= 1
  /\ ustate \in Startable => \A u \in uuris : stage[u] >= 2

\* The process is past Check, and not yet at its end.
Driving == pc \notin {"idle", "sleep", "check", "refresh", "select", "over"}

\* The target a command works for is the one of the record it drives: what it
\* stops, reports and sends as headers comes from the context, what it installs
\* and starts from the record.
ContextMatchesRecord ==
  Driving /\ ustate # "none"
    => /\ uref = to.id
       /\ ustate # "created" => to.uris \subseteq uuris

\* From installation on, no app of the running target that the update removes
\* or replaces is still running, even when the installation is resumed by
\* another command, with another configuration, after a crash.
OldAppsStopped ==
  ustate \in {"installing"} \union Startable
    => \A u \in last.uris \ uuris : stage[u] # 3

\* An update reported as a success is never installed or started again, so it
\* cannot be reported as a failure afterwards.
SuccessIsFinal ==
  "CompletedOk" \in told \union {note} => ustate \in {"none", "completing"}

\* No process goes to rest, or begins another update, before the outcome of an
\* update that ended has been handed to the events' database: it is saved, or saving
\* it was tried and failed, which the code only logs.  A crash is excepted.
OutcomeIsReported ==
  pc \in {"idle", "sleep", "check", "refresh", "select", "init"} => owed = "none"

\* The gateway is never told how an installation went that it was not told of, unless
\* saving the announcement was tried and failed: it is saved before anything is
\* stopped, so no crash can lose it, and a command that resumes the update may leave
\* it out.
CompletionFollowsStart ==
  {"Applied", "CompletedOk", "CompletedErr"} \intersect (told \union {note}) # {}
    => "InstallStarted" \in told \union lost

\* A command that ends without an error has done what it was asked for, however many
\* commands worked on the update before and however many of its steps it skipped.  A
\* new update installs exactly the apps of its target, and a resumed one no fewer.
CommandIsDone ==
  pc = "over" /\ err = "none" =>
    /\ cmd.until = "fetch" => uref = to.id /\ ustate \in Installable \union Startable
    /\ cmd.until = "install" => uref = to.id /\ ustate \in Startable
    /\ cmd.until = "start" =>
         \/ /\ ustate = "none" /\ last.ref = to.id
            /\ to.uris \subseteq last.uris
            /\ mode = "new" => last.uris = to.uris
            /\ \A u \in last.uris : stage[u] >= 2
         \/ ustate = "completing" /\ uref = to.id /\ to.uris \subseteq uuris

\* The daemon does not begin an update to a target that has failed MaxAttempts
\* times, unless it is the current one it goes back to.
RetriesAreBounded ==
  [][uref' # uref /\ uref' # "none" /\ daemon
       => failed[uref'] < MaxAttempts \/ uref' = from.id]_vars

\* The daemon reports that there is nothing to do only if the apps of the target it
\* would install are those of the last successful update and they all run.  (Apps that
\* another, failed update started may run beside them: nothing looks at those.)
NothingToDoIsTrue ==
  [][err' = "ErrCheckNoUpdate" /\ err = "none"
       => /\ last.uris = to'.uris
          /\ \A u \in last.uris : stage[u] = 3]_vars

\* The agent implements the life cycle of update records.
Record == INSTANCE UpdateRecord WITH
            Refs <- TargetID, Apps <- URI, Limit <- MaxAttempts,
            state <- ustate, ref <- uref, apps <- uuris
RecordSpec == Record!Spec

\* In daemon mode, once the Factory, the configuration and the environment come
\* to rest, the device comes to rest too: it runs the latest target, or, if that
\* one failed too often, the target it ran before, with all its enabled apps
\* (unless one of those cannot be started either: then it never sleeps again).  An
\* interrupted update to the unknown target is the one thing that stays in its way.
Runs(t) == /\ last.ref = t.id
           /\ last.uris = Shortlist(t, enabled).uris
           /\ \A u \in last.uris : stage[u] = 3

CannotStart(t) == Shortlist(t, enabled).uris \intersect BadApps # {}

Settled(latest) ==
  \/ latest = UnknownTarget
  \/ Runs(latest)
  \/ /\ failed[latest.id] = MaxAttempts
     /\ IF \E t \in server : t.id = last.ref
        THEN \E t \in ByID(server, last.ref) : Runs(t) \/ CannotStart(t)
        ELSE \A u \in last.uris : NameOf[u] \in enabled /\ stage[u] = 3

DaemonSettles ==
  <>[](uref = UnknownTarget.id \/ \A latest \in LatestOf(server) : Settled(latest))

\* In daemon mode the device keeps asking the gateway for targets.
DaemonKeepsPolling == []<>(pc = "refresh")

\* A statement of comments that the code does not keep.

\* stop.go, install.go: InstallationCompleted with an error says that the
\* update has completed with failure.
FailureMeansEnded ==
  [][~("CompletedErr" \in told) /\ "CompletedErr" \in told' => ustate = "none"]_vars
=============================================================================
