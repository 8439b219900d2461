------------------------- MODULE UpdateContextProofs -------------------------
(***************************************************************************)
(* Theorems about the context of a command (UpdateContext in pkg/state):   *)
(* it agrees with the record, although record, list of targets and         *)
(* configuration are older or newer than the command.                      *)
(***************************************************************************)
EXTENDS UpdateAgentProofs

\* A target of the Factory is what it is: its ID is that of no other one, and no app
\* is in it twice (in targets.json both are keys of JSON objects).
StableCatalog ==
  /\ \A s, t \in Catalog : s.id = t.id => s = t
  /\ \A t \in Catalog : \A u, v \in t.uris : NameOf[u] = NameOf[v] => u = v

\* The version of a target is the number in its ID, and no two have the same.
NumberedCatalog ==
  \A s, t \in Catalog :
    /\ t.version >= 0 /\ VersionOf[t.id] = t.version
    /\ s.version = t.version => s = t
-----------------------------------------------------------------------------
(* What steps do to record and context.                                    *)

\* No app starts that is not one of the update's.
Calm == \A u \in URI \ uuris : stage'[u] = 3 => stage[u] = 3

\* The command is over, or the process is at rest or starts a new command.
Ends ==
  /\ pc' \in {"idle", "sleep", "check", "over"}
  /\ (uref' = "none" /\ uuris' = {}) \/ UNCHANGED <<uref, uuris>>
  /\ UNCHANGED last \/ (last'.ref = uref /\ last'.uris = uuris)
  /\ ustate' = "none" \/ (UNCHANGED <<ustate, uuris, last>> /\ Calm)
  /\ to' \in {to, UnknownTarget} /\ from' \in {from, UnknownTarget}
  /\ \/ pc' \in {"idle", "sleep"} \/ ~daemon' \/ cmd' = DaemonCommand
     \/ pc \notin {"idle", "sleep"} /\ UNCHANGED <<cmd, daemon>>
  /\ err' = "ErrCheckNoUpdate" => err = "ErrCheckNoUpdate"

Context == <<to, from, mode, cmd, daemon, failed>>

\* Something else happens.
Stands == UNCHANGED <<pc, ustate, uref, uuris, last, err, Context>> /\ Calm

\* The command goes on to its next step.
Moves ==
  /\ Driving /\ pc' \notin {"init", "refresh", "select", "idle", "sleep"}
  /\ UNCHANGED <<uref, uuris, last, err, Context>>
  /\ ustate' = ustate \/ ustate \notin {"none", "created"}

LEMMA EndSteps ==
  ASSUME TypeOK,
         \/ SetupFails \/ RefuseNoUpdate \/ RefuseState \/ RefuseTornFile
         \/ RefreshFails \/ InitFails \/ NoSpace \/ FetchFails \/ StopFails \/ InstallFails
         \/ StartFails \/ Complete
  PROVE  Ends
<1>. USE DEF Ends, Calm, TypeOK, Fail, Done, After, At, Admitted, storeVars, ctxVars
<1>1. CASE \/ SetupFails \/ RefuseNoUpdate \/ RefuseState \/ RefuseTornFile
           \/ RefreshFails
  BY <1>1 DEF SetupFails, RefuseNoUpdate, RefuseState, RefuseTornFile, RefreshFails
<1>2. CASE InitFails \/ NoSpace \/ FetchFails \/ StopFails
  BY <1>2 DEF InitFails, NoSpace, FetchFails, StopFails, Raised, Stopped
<1>3. CASE InstallFails \/ StartFails
  BY <1>3 DEF InstallFails, StartFails, UpdateFails
<1>4. CASE Complete
  BY <1>4 DEF Complete
<1>. QED BY <1>1, <1>2, <1>3, <1>4

LEMMA RestSteps ==
  ASSUME TypeOK,
         \/ ExitCli \/ DaemonCancels \/ DaemonCancelFails \/ DaemonRetries
         \/ DaemonSleeps \/ DaemonWakes \/ StartDaemon \/ StartCli \/ CliCancel
         \/ Crash
  PROVE  Ends
<1>. USE DEF Ends, Calm, Run, Rest, IdleContext, Cancel, At, storeVars, ctxVars
<1>1. CASE ExitCli \/ DaemonCancels \/ DaemonCancelFails \/ DaemonRetries
  BY <1>1 DEF ExitCli, DaemonCancels, DaemonCancelFails, DaemonRetries
<1>2. CASE DaemonSleeps \/ DaemonWakes \/ StartDaemon \/ StartCli
  BY <1>2 DEF DaemonSleeps, DaemonWakes, StartDaemon, StartCli
<1>3. CASE CliCancel
  BY <1>3 DEF CliCancel
<1>4. CASE Crash
  <2>1. Calm
    BY <1>4 DEF Crash, HalfDone, Raised, Stopped
  <2>. QED BY <1>4, <2>1 DEF Crash
<1>. QED BY <1>1, <1>2, <1>3, <1>4

LEMMA StandSteps ==
  ASSUME TypeOK,
         Report \/ ReportFails \/ Publish \/ Configure \/ AppDies \/ UNCHANGED vars
  PROVE  Stands
BY DEF TypeOK, Stands, Calm, Context, Report, ReportFails, Publish, Configure,
       AppDies, vars, storeVars, ctxVars

MoveStep ==
  \/ InitOk \/ SkipInit \/ BeginFetch \/ FetchOk \/ SkipFetch \/ BeginStop
  \/ StopApps \/ SkipStop \/ BeginInstall \/ InstallOk \/ SkipInstall \/ BeginStart
  \/ StartOk \/ SkipStart \/ CompleteFails

LEMMA MoveSteps == ASSUME HostInv, MoveStep PROVE Moves
<1>. USE DEF Moves, Context, Done, After, At, Driving, storeVars, ctxVars, HostInv,
             StepMatchesRecord, Installable, Startable
<1>1. CASE InitOk \/ SkipInit
  BY <1>1 DEF InitOk, SkipInit
<1>2. CASE BeginFetch \/ FetchOk \/ SkipFetch
  BY <1>2 DEF BeginFetch, FetchOk, SkipFetch
<1>3. CASE BeginStop \/ StopApps \/ SkipStop
  BY <1>3 DEF BeginStop, StopApps, SkipStop
<1>4. CASE BeginInstall \/ InstallOk \/ SkipInstall
  BY <1>4 DEF BeginInstall, InstallOk, SkipInstall
<1>5. CASE BeginStart \/ StartOk \/ SkipStart \/ CompleteFails
  BY <1>5 DEF BeginStart, StartOk, SkipStart, CompleteFails
<1>. QED BY <1>1, <1>2, <1>3, <1>4, <1>5 DEF MoveStep

LEMMA Steps ==
  ASSUME HostInv, [Next]_vars
  PROVE  \/ Ends \/ Stands \/ (Moves /\ MoveStep)
         \/ LoadTargets \/ RefreshTargets \/ Select \/ NewUpdate \/ BeginInit
BY EndSteps, RestSteps, StandSteps, MoveSteps
DEF Next, ProcessStep, OperatorStep, Environment, CheckStep, InitStep, FetchStep,
    StopStep, InstallStep, StartStep, HostInv, MoveStep
-----------------------------------------------------------------------------
(* What Select selects.                                                    *)

Candidate(f, t) ==
  \/ mode = "resume" /\ t \in OngoingTargets
  \/ mode = "new" /\ t \in WantedTargets(f) /\ ~Exhausted(t)
  \/ mode = "new" /\ t \in SyncTargets(f)

LEMMA Selected ==
  ASSUME TypeOK, Select
  PROVE  \E f \in CurrentTargets :
           /\ Selecting(f)
           /\ \/ \E e \in Error \ {"ErrCheckNoUpdate"} : Reject(f, e)
              \/ \E t \in Target :
                   Candidate(f, t) /\ Accept(f, Shortlist(t, enabled))
<1>. USE CandidateType DEF Candidate
<1>1. CASE ResumeInvalid
  BY <1>1 DEF ResumeInvalid, Error
<1>2. CASE ResumeOther
  BY <1>2 DEF ResumeOther, Error
<1>3. CASE ResumeOutdated
  BY <1>3 DEF ResumeOutdated, Error
<1>4. CASE Resume
  BY <1>4 DEF Resume
<1>5. CASE SelectMissing
  BY <1>5 DEF SelectMissing, Error
<1>6. CASE SelectWanted
  BY <1>6 DEF SelectWanted
<1>7. CASE SelectRollback
  BY <1>7 DEF SelectRollback
<1>. QED BY <1>1, <1>2, <1>3, <1>4, <1>5, <1>6, <1>7 DEF Select

LEMMA ShortlistIsPart ==
  ASSUME NEW t \in Target, NEW names
  PROVE  /\ Shortlist(t, names).id = t.id
         /\ Shortlist(t, names).uris = {u \in t.uris : NameOf[u] \in names}
BY DEF Shortlist, Target

\* The target of a record has no other apps than the record.
LEMMA OfUpdateIsPart ==
  ASSUME NEW ts \in SUBSET Catalog, NEW ref, NEW uris \in SUBSET URI,
         NEW t \in OfUpdate(ts, ref, uris)
  PROVE  /\ t.id = ref /\ ref \in KnownID
         /\ t.uris = uris \/ \E c \in ts : c.id = ref /\ t.uris = c.uris \intersect uris
<1>1. CASE \E c \in ts : c.id = ref
  <2>1. PICK c \in ByID(ts, ref) : t = ShortlistByURI(c, uris)
    BY <1>1 DEF OfUpdate
  <2>2. c \in ts /\ c.id = ref /\ c \in Target
    BY <1>1, <2>1, CatalogIsTarget DEF ByID
  <2>3. t.id = ref /\ t.uris = c.uris \intersect uris
    BY <2>1, <2>2 DEF ShortlistByURI, Target
  <2>. QED BY <2>2, <2>3 DEF KnownID
<1>2. CASE ~ \E c \in ts : c.id = ref
  BY <1>2 DEF OfUpdate, OutOfUpdate
<1>. QED BY <1>1, <1>2
-----------------------------------------------------------------------------
(* Context and record.                                                     *)

\* Check looked once whether an update is in progress, and no step since changed it.
ModeInv == pc \in {"refresh", "select"} => (mode = "resume" <=> ustate # "none")

ContextInv == HostInv /\ ModeInv /\ ContextMatchesRecord

LEMMA ContextStep == ContextInv /\ [Next]_vars => ContextInv'
<1>. SUFFICES ASSUME ContextInv, [Next]_vars
              PROVE  ModeInv' /\ ContextMatchesRecord'
  BY HostStep DEF ContextInv
<1>. USE DEF ContextInv, ModeInv, ContextMatchesRecord, Driving
<1>1. CASE Ends
  BY <1>1 DEF Ends
<1>2. CASE Stands
  BY <1>2 DEF Stands, Context
<1>3. CASE Moves
  BY <1>3 DEF Moves, Context
<1>4. CASE LoadTargets
  BY <1>4 DEF LoadTargets, storeVars
<1>5. CASE RefreshTargets
  BY <1>5 DEF RefreshTargets, At, storeVars
<1>6. CASE NewUpdate
  BY <1>6 DEF NewUpdate, At, ctxVars
<1>7. CASE BeginInit
  BY <1>7 DEF BeginInit, At, ctxVars
<1>8. CASE Select
  <2>1. TypeOK
    BY DEF HostInv
  <2>2. PICK f \in CurrentTargets :
          /\ Selecting(f)
          /\ \/ \E e \in Error \ {"ErrCheckNoUpdate"} : Reject(f, e)
             \/ \E t \in Target : Candidate(f, t) /\ Accept(f, Shortlist(t, enabled))
    BY <1>8, <2>1, Selected
  <2>3. CASE \E e \in Error \ {"ErrCheckNoUpdate"} : Reject(f, e)
    BY <2>3 DEF Reject, Fail
  <2>4. ASSUME NEW t \in Target, Candidate(f, t), Accept(f, Shortlist(t, enabled))
        PROVE  ModeInv' /\ ContextMatchesRecord'
    <3>1. pc' \in {"init", "over"} /\ to' = Shortlist(t, enabled)
      BY <2>4 DEF Accept, Fail, Done, After
    <3>2. /\ pc = "select" /\ UNCHANGED <<ustate, uref, uuris>>
      BY <2>2 DEF Selecting, At, storeVars
    <3>3. CASE ustate = "none"
      BY <3>1, <3>2, <3>3
    <3>4. CASE ustate # "none"
      <4>1. t \in OngoingTargets
        BY <3>2, <3>4, <2>4 DEF Candidate
      <4>2. t.id = uref /\ t.uris \subseteq uuris
        BY <4>1, <2>1, OfUpdateIsPart DEF OngoingTargets, TypeOK
      <4>. QED BY <3>1, <3>2, <4>2, ShortlistIsPart
    <3>. QED BY <3>3, <3>4
  <2>. QED BY <2>2, <2>3, <2>4
<1>. QED BY <1>1, <1>2, <1>3, <1>4, <1>5, <1>6, <1>7, <1>8, Steps

\* The target a command works for is the one of the record it drives, whatever list,
\* configuration and command began that update.
THEOREM ContextCorrect == Spec => []ContextMatchesRecord
<1>1. Init => ContextInv
  BY HostInit DEF Init, ContextInv, ModeInv, ContextMatchesRecord, Driving
<1>2. ContextInv => ContextMatchesRecord
  BY DEF ContextInv
<1>. QED BY <1>1, <1>2, ContextStep, PTL DEF Spec
-----------------------------------------------------------------------------
(* Apps of records and targets are those the Factory gave them.            *)

Fits(id, uris) ==
  /\ \A c \in Catalog : c.id = id => uris \subseteq c.uris
  /\ id \notin KnownID => uris = {}

FitInv ==
  /\ ContextInv
  /\ Fits(uref, uuris) /\ Fits(last.ref, last.uris)
  /\ Fits(to.id, to.uris) /\ Fits(from.id, from.uris)
  /\ Driving => from.uris = last.uris

LEMMA PartFits ==
  ASSUME NEW id, NEW uris, NEW part, Fits(id, uris), part \subseteq uris
  PROVE  Fits(id, part)
BY DEF Fits

LEMMA EmptyFits == \A id : Fits(id, {})
BY DEF Fits

LEMMA ListedFits ==
  ASSUME StableCatalog, NEW t \in Catalog \union {UnknownTarget}
  PROVE  Fits(t.id, t.uris)
<1>1. CASE t \in Catalog
  BY <1>1 DEF Fits, StableCatalog, KnownID
<1>2. CASE t = UnknownTarget
  BY <1>2, EmptyFits DEF UnknownTarget
<1>. QED BY <1>1, <1>2

\* The current target has the apps that were installed last.
LEMMA CurrentIsLast ==
  ASSUME TypeOK, Fits(last.ref, last.uris), NEW f \in CurrentTargets
  PROVE  /\ f.uris = last.uris /\ Fits(f.id, f.uris)
         /\ f = UnknownTarget \/ f \in OfUpdate(targets, last.ref, last.uris)
<1>. DEFINE known == IF last = NoLast THEN {} ELSE OfUpdate(targets, last.ref, last.uris)
<1>1. targets \in SUBSET Catalog /\ last.uris \in SUBSET URI
  BY DEF TypeOK
<1>2. CASE known = {}
  <2>1. f = UnknownTarget
    BY <1>2 DEF CurrentTargets
  <2>2. last.uris = {}
    <3>1. CASE last = NoLast
      BY <3>1 DEF NoLast
    <3>2. CASE last # NoLast
      <4>1. OfUpdate(targets, last.ref, last.uris) = {}
        BY <1>2, <3>2
      <4>2. ~ \E c \in targets : c.id = last.ref
        BY <4>1 DEF OfUpdate, ByID
      <4>3. last.ref \notin KnownID
        BY <4>1, <4>2 DEF OfUpdate, OutOfUpdate
      <4>. QED BY <4>3 DEF Fits
    <3>. QED BY <3>1, <3>2
  <2>. QED BY <2>1, <2>2, EmptyFits DEF UnknownTarget
<1>3. CASE known # {}
  <2>1. f \in OfUpdate(targets, last.ref, last.uris)
    BY <1>3 DEF CurrentTargets
  <2>2. /\ f.id = last.ref
        /\ f.uris = last.uris \/ \E c \in targets :
              c.id = last.ref /\ f.uris = c.uris \intersect last.uris
    BY <2>1, <1>1, OfUpdateIsPart
  <2>3. ASSUME NEW c \in targets, c.id = last.ref,
               f.uris = c.uris \intersect last.uris
        PROVE  f.uris = last.uris
    <3>1. last.uris \subseteq c.uris
      BY <2>3, <1>1 DEF Fits
    <3>. QED BY <2>3, <3>1
  <2>4. f.id = last.ref /\ f.uris = last.uris
    BY <2>2, <2>3
  <2>. QED BY <2>1, <2>4
<1>. QED BY <1>2, <1>3

LEMMA CandidateFits ==
  ASSUME StableCatalog, FitInv, NEW f \in CurrentTargets, NEW t \in Target,
         Candidate(f, t)
  PROVE  Fits(t.id, t.uris)
<1>0. TypeOK /\ targets \subseteq Catalog
  BY DEF FitInv, ContextInv, HostInv, TypeOK
<1>1. CASE t \in OngoingTargets
  <2>1. t.id = uref /\ t.uris \subseteq uuris
    BY <1>1, <1>0, OfUpdateIsPart DEF OngoingTargets, TypeOK
  <2>. QED BY <2>1, PartFits DEF FitInv
<1>2. CASE t \in SyncTargets(f) \/ t \in WantedTargets(f)
  <2>1. t \in targets \union {UnknownTarget, f}
    BY <1>2 DEF SyncTargets, WantedTargets, ByVersion, LatestOf
  <2>2. Fits(f.id, f.uris)
    BY <1>0, CurrentIsLast DEF FitInv
  <2>. QED BY <2>1, <2>2, <1>0, ListedFits
<1>. QED BY <1>1, <1>2 DEF Candidate

LEMMA FitStep == ASSUME StableCatalog, FitInv, [Next]_vars PROVE FitInv'
<1>0. ContextInv' /\ TypeOK /\ HostInv
  BY ContextStep DEF FitInv, ContextInv, HostInv
<1>. USE <1>0, EmptyFits DEF FitInv, Driving
<1>1. CASE Ends
  <2>1. UnknownTarget.uris = {}
    BY DEF UnknownTarget
  <2>. QED BY <1>1, <2>1 DEF Ends
<1>2. CASE Stands
  BY <1>2 DEF Stands, Context
<1>3. CASE Moves
  BY <1>3 DEF Moves, Context
<1>4. CASE LoadTargets
  BY <1>4 DEF LoadTargets, storeVars
<1>5. CASE RefreshTargets
  BY <1>5 DEF RefreshTargets, storeVars
<1>6. CASE NewUpdate
  BY <1>6 DEF NewUpdate, ctxVars
<1>7. CASE BeginInit
  <2>1. ustate = "created" => uref = to.id
    BY <1>7 DEF BeginInit, At, ContextInv, ContextMatchesRecord
  <2>. QED BY <1>7, <2>1 DEF BeginInit, At, ctxVars
<1>8. CASE Select
  <2>2. PICK f \in CurrentTargets :
          /\ Selecting(f)
          /\ \/ \E e \in Error \ {"ErrCheckNoUpdate"} : Reject(f, e)
             \/ \E t \in Target : Candidate(f, t) /\ Accept(f, Shortlist(t, enabled))
    BY <1>8, Selected
  <2>3. UNCHANGED storeVars /\ f.uris = last.uris /\ Fits(f.id, f.uris)
    BY <2>2, CurrentIsLast DEF Selecting
  <2>4. CASE \E e \in Error \ {"ErrCheckNoUpdate"} : Reject(f, e)
    BY <2>3, <2>4 DEF Reject, Fail, storeVars
  <2>5. ASSUME NEW t \in Target, Candidate(f, t), Accept(f, Shortlist(t, enabled))
        PROVE  FitInv'
    <3>1. from' = f /\ to' = Shortlist(t, enabled)
      BY <2>5 DEF Accept
    <3>2. Fits(t.id, t.uris)
      BY <2>5, CandidateFits
    <3>3. Fits(to'.id, to'.uris)
      BY <3>1, <3>2, ShortlistIsPart, PartFits
    <3>. QED BY <2>3, <3>1, <3>3 DEF storeVars
  <2>. QED BY <2>2, <2>4, <2>5
<1>. QED BY <1>1, <1>2, <1>3, <1>4, <1>5, <1>6, <1>7, <1>8, Steps

LEMMA FitInit == Init => FitInv
  BY HostInit, EmptyFits
  DEF Init, FitInv, ContextInv, ModeInv, ContextMatchesRecord, Driving, NoLast,
      UnknownTarget

LEMMA FitAlways == ASSUME StableCatalog PROVE Spec => []FitInv
BY FitInit, FitStep, PTL DEF Spec
-----------------------------------------------------------------------------
(* The apps an update removes or replaces are stopped before it installs.  *)

\* Two apps of a target, or of its records, do not share a name.
LEMMA NamesAreUnique ==
  ASSUME StableCatalog, NEW id, NEW A, NEW B, Fits(id, A), Fits(id, B),
         NEW u \in A, NEW v \in B, NameOf[u] = NameOf[v]
  PROVE  u = v
<1>1. id \in KnownID
  BY DEF Fits
<1>2. PICK c \in Catalog : c.id = id
  BY <1>1 DEF KnownID
<1>3. u \in c.uris /\ v \in c.uris
  BY <1>2 DEF Fits
<1>. QED BY <1>3 DEF StableCatalog

LEMMA OldAppsAreStopped ==
  ASSUME StableCatalog, FitInv, Driving, ustate \in Installable
  PROVE  last.uris \ uuris \subseteq AppsToStop
<1>1. from.uris = last.uris /\ to.uris \subseteq uuris
  BY DEF FitInv, ContextInv, ContextMatchesRecord, Installable
<1>2. CASE ~IsSync \/ cmd.force
  BY <1>1, <1>2 DEF AppsToStop
<1>3. CASE IsSync /\ ~cmd.force
  <2>1. Fits(to.id, from.uris) /\ Fits(to.id, to.uris)
    BY <1>3 DEF FitInv, IsSync
  <2>2. ASSUME NEW u \in last.uris \ uuris PROVE u \in Removed(from, to)
    <3>1. u \in from.uris /\ u \notin to.uris
      BY <1>1
    <3>2. \A v \in to.uris : NameOf[u] # NameOf[v]
      BY <2>1, <3>1, NamesAreUnique
    <3>. QED BY <3>1, <3>2 DEF Removed, NamesOf
  <2>. QED BY <1>3, <2>2 DEF AppsToStop
<1>. QED BY <1>2, <1>3

NoOldAppRuns == \A u \in last.uris \ uuris : stage[u] # 3

StopInv ==
  /\ FitInv /\ OldAppsStopped
  /\ pc \in {"install", "installing"} => NoOldAppRuns

LEMMA MoveStops ==
  ASSUME StableCatalog, StopInv, MoveStep, Moves
  PROVE  OldAppsStopped' /\ (pc' \in {"install", "installing"} => NoOldAppRuns')
<1>0. /\ TypeOK /\ StepMatchesRecord
      /\ last.uris \in SUBSET URI /\ stage \in [URI -> 0 .. 3]
  BY DEF StopInv, FitInv, ContextInv, HostInv, TypeOK
<1>. USE <1>0 DEF StopInv, OldAppsStopped, NoOldAppRuns, Installable, Startable,
                  StepMatchesRecord, At, After, Done, storeVars
<1>1. CASE InitOk \/ SkipInit
  BY <1>1 DEF InitOk, SkipInit
<1>2. CASE BeginFetch \/ FetchOk \/ SkipFetch
  BY <1>2 DEF BeginFetch, FetchOk, SkipFetch
<1>3. CASE StopApps
  <2>1. UNCHANGED storeVars /\ stage' = Stopped(AppsToStop) /\ pc = "stopping"
        /\ ustate \in Installable /\ pc' \in {"install", "over"}
    BY <1>3 DEF StopApps
  <2>2. last.uris \ uuris \subseteq AppsToStop
    BY <2>1, OldAppsAreStopped DEF Driving
  <2>3. NoOldAppRuns'
    BY <2>1, <2>2 DEF Stopped
  <2>. QED BY <2>3
<1>4. CASE BeginStop \/ SkipStop \/ SkipInstall \/ SkipStart
  BY <1>4 DEF BeginStop, SkipStop, SkipInstall, SkipStart
<1>5. CASE BeginInstall
  BY <1>5 DEF BeginInstall
<1>6. CASE InstallOk
  BY <1>6 DEF InstallOk, Raised
<1>7. CASE BeginStart \/ CompleteFails
  BY <1>7 DEF BeginStart, CompleteFails
<1>8. CASE StartOk
  BY <1>8 DEF StartOk, Raised
<1>. QED BY <1>1, <1>2, <1>3, <1>4, <1>5, <1>6, <1>7, <1>8 DEF MoveStep

LEMMA StopInvStep == ASSUME StableCatalog, StopInv, [Next]_vars PROVE StopInv'
<1>0. /\ FitInv' /\ HostInv
      /\ last.uris \in SUBSET URI
  BY FitStep DEF StopInv, FitInv, ContextInv, HostInv, TypeOK
<1>. USE <1>0 DEF StopInv, OldAppsStopped, NoOldAppRuns, Installable, Startable
<1>1. CASE Ends
  BY <1>1 DEF Ends, Calm
<1>2. CASE Stands
  BY <1>2 DEF Stands, Calm
<1>3. CASE Moves /\ MoveStep
  BY <1>3, MoveStops
<1>4. CASE LoadTargets \/ RefreshTargets
  BY <1>4 DEF LoadTargets, RefreshTargets, storeVars
<1>5. CASE NewUpdate \/ BeginInit
  BY <1>5 DEF NewUpdate, BeginInit, At
<1>6. CASE Select
  <2>1. PICK f : Selecting(f) /\ pc' \in {"init", "over"}
    BY <1>6, Selected DEF Reject, Accept, Fail, Done, After, HostInv
  <2>. QED BY <2>1 DEF Selecting, storeVars
<1>. QED BY <1>1, <1>2, <1>3, <1>4, <1>5, <1>6, Steps

\* From installation on, no app that the update removes or replaces still runs, also
\* when another command, with another configuration, resumes the installation.
THEOREM NoOldAppLeftRunning ==
  ASSUME StableCatalog PROVE Spec => []OldAppsStopped
<1>1. Init => StopInv
  BY FitInit DEF Init, StopInv, OldAppsStopped, NoOldAppRuns, Installable, Startable
<1>2. StopInv => OldAppsStopped
  BY DEF StopInv
<1>3. StopInv /\ [Next]_vars => StopInv'
  BY StopInvStep
<1>. QED BY <1>1, <1>2, <1>3, PTL DEF Spec
-----------------------------------------------------------------------------
(* A target that failed too often is not tried again.                      *)

\* The target a sync goes to has the ID of the current one.
LEMMA SyncIsCurrent ==
  ASSUME NumberedCatalog, TypeOK, NEW f \in CurrentTargets, NEW t \in SyncTargets(f)
  PROVE  t.id = f.id
<1>0. targets \in SUBSET Catalog
  BY DEF TypeOK
<1>1. CASE t \in targets /\ t.version = f.version
  <2>1. t \in Catalog
    BY <1>0, <1>1
  <2>2. f # UnknownTarget
    BY <1>1, <2>1 DEF NumberedCatalog, UnknownTarget
  <2>3. f \in OfUpdate(targets, last.ref, last.uris)
    BY <2>2 DEF CurrentTargets
  <2>4. CASE \E c \in targets : c.id = last.ref
    <3>1. PICK c \in ByID(targets, last.ref) : f = ShortlistByURI(c, last.uris)
      BY <2>3, <2>4 DEF OfUpdate
    <3>2. c \in targets /\ c \in Target
      BY <2>4, <3>1, <1>0, CatalogIsTarget DEF ByID
    <3>3. f.id = c.id /\ f.version = c.version
      BY <3>1, <3>2 DEF ShortlistByURI, Target
    <3>. QED BY <1>0, <1>1, <2>1, <3>2, <3>3 DEF NumberedCatalog
  <2>5. CASE ~ \E c \in targets : c.id = last.ref
    <3>1. last.ref \in KnownID /\ f.id = last.ref /\ f.version = VersionOf[last.ref]
      BY <2>3, <2>5 DEF OfUpdate, OutOfUpdate
    <3>2. PICK c \in Catalog : c.id = last.ref
      BY <3>1 DEF KnownID
    <3>. QED BY <1>1, <2>1, <3>1, <3>2 DEF NumberedCatalog
  <2>. QED BY <2>4, <2>5
<1>2. CASE ~(t \in targets /\ t.version = f.version)
  BY <1>2 DEF SyncTargets, ByVersion
<1>. QED BY <1>1, <1>2

RetryInv ==
  /\ ContextInv
  /\ daemon /\ pc \notin {"idle", "sleep"} => cmd = DaemonCommand
  /\ daemon /\ pc = "init" /\ ustate = "none"
       => failed[to.id] < MaxAttempts \/ to.id = from.id

LEMMA RetryStep == ASSUME NumberedCatalog, RetryInv, [Next]_vars PROVE RetryInv'
<1>0. ContextInv' /\ TypeOK /\ HostInv
  BY ContextStep DEF RetryInv, ContextInv, HostInv
<1>. USE <1>0 DEF RetryInv
<1>1. CASE Ends
  BY <1>1 DEF Ends
<1>2. CASE Stands
  BY <1>2 DEF Stands, Context
<1>3. CASE Moves
  BY <1>3 DEF Moves, Context, Driving
<1>4. CASE LoadTargets \/ RefreshTargets
  BY <1>4 DEF LoadTargets, RefreshTargets, Admitted, At
<1>5. CASE NewUpdate \/ BeginInit
  BY <1>5 DEF NewUpdate, BeginInit, At, ctxVars
<1>6. CASE Select
  <2>1. PICK f \in CurrentTargets :
          /\ Selecting(f)
          /\ \/ \E e \in Error \ {"ErrCheckNoUpdate"} : Reject(f, e)
             \/ \E t \in Target : Candidate(f, t) /\ Accept(f, Shortlist(t, enabled))
    BY <1>6, Selected
  <2>2. UNCHANGED <<storeVars, daemon, cmd, mode>> /\ pc = "select"
    BY <2>1 DEF Selecting, At
  <2>3. CASE \E e \in Error \ {"ErrCheckNoUpdate"} : Reject(f, e)
    BY <2>2, <2>3 DEF Reject, Fail, storeVars
  <2>4. ASSUME NEW t \in Target, Candidate(f, t), Accept(f, Shortlist(t, enabled)),
               daemon, ustate = "none"
        PROVE  failed'[to'.id] < MaxAttempts \/ to'.id = from'.id
    <3>1. from' = f /\ to'.id = t.id /\ failed' = failed
      BY <2>2, <2>4, ShortlistIsPart DEF Accept, storeVars
    <3>2. mode = "new" /\ cmd = DaemonCommand
      BY <2>2, <2>4 DEF ContextInv, ModeInv, Candidate
    <3>3. CASE ~Exhausted(t)
      <4>1. failed[t.id] \in 0 .. MaxAttempts /\ MaxAttempts \in Nat \ {0}
        BY AgentAssumption DEF TypeOK, Target, AgentAssumption
      <4>2. cmd.version = Any /\ cmd.attempts = MaxAttempts
        BY <3>2 DEF DaemonCommand, CheckCommand
      <4>. QED BY <3>1, <3>3, <4>1, <4>2 DEF Exhausted
    <3>4. CASE t \in SyncTargets(f)
      BY <3>1, <3>4, SyncIsCurrent
    <3>. QED BY <2>4, <3>2, <3>3, <3>4 DEF Candidate
  <2>. QED BY <2>1, <2>2, <2>3, <2>4 DEF storeVars
<1>. QED BY <1>1, <1>2, <1>3, <1>4, <1>5, <1>6, Steps

\* The daemon begins no update to a target that failed MaxAttempts times, unless it
\* goes back to the current one.
THEOREM RetriesStop == ASSUME NumberedCatalog PROVE Spec => RetriesAreBounded
<1>. DEFINE Bounded == uref' # uref /\ uref' # "none" /\ daemon
                         => failed[uref'] < MaxAttempts \/ uref' = from.id
<1>1. Init => RetryInv
  BY HostInit DEF Init, RetryInv, ContextInv, ModeInv, ContextMatchesRecord, Driving
<1>2. RetryInv /\ [Next]_vars => RetryInv'
  BY RetryStep
<1>3. ASSUME RetryInv, [Next]_vars PROVE [Bounded]_vars
  <2>. SUFFICES ASSUME uref' # uref, uref' # "none", daemon
                PROVE  failed[uref'] < MaxAttempts \/ uref' = from.id
    OBVIOUS
  <2>1. NewUpdate
    BY <1>3, Steps
    DEF RetryInv, ContextInv, Ends, Stands, Moves, LoadTargets, RefreshTargets,
        Select, ResumeInvalid, ResumeOther, ResumeOutdated, Resume, SelectMissing,
        SelectWanted, SelectRollback, Selecting, BeginInit, storeVars
  <2>. QED BY <1>3, <2>1 DEF RetryInv, NewUpdate, At
<1>4. QED BY <1>1, <1>2, <1>3, PTL DEF Spec, RetriesAreBounded
-----------------------------------------------------------------------------
(* "Nothing to do" is true.                                                *)

\* Targets without a difference have the same apps.
LEMMA SameApps ==
  ASSUME StableCatalog, NEW f, NEW s, Fits(s.id, s.uris), ~AppsDiffer(f, s)
  PROVE  f.uris = s.uris
<1>1. f.uris \subseteq s.uris
  BY DEF AppsDiffer, Removed, Changed
<1>2. ASSUME NEW u \in s.uris PROVE u \in f.uris
  <2>1. PICK v \in f.uris : NameOf[u] = NameOf[v]
    BY DEF AppsDiffer, Added, NamesOf
  <2>. QED BY <1>1, <2>1, NamesAreUnique
<1>. QED BY <1>1, <1>2

\* The daemon says that there is nothing to do only if the apps that were installed
\* last are those of the target it would go to, all of them and no others, and all
\* run.  It says nothing of other apps, which a failed update may have left running.
THEOREM NothingToDo == ASSUME StableCatalog PROVE Spec => NothingToDoIsTrue
<1>. DEFINE True == err' = "ErrCheckNoUpdate" /\ err = "none"
                      => /\ last.uris = to'.uris
                         /\ \A u \in last.uris : stage[u] = 3
<1>1. ASSUME FitInv, [Next]_vars PROVE [True]_vars
  <2>0. HostInv /\ TypeOK /\ Fits(last.ref, last.uris)
    BY <1>1 DEF FitInv, ContextInv, HostInv
  <2>. SUFFICES ASSUME err' = "ErrCheckNoUpdate", err = "none"
                PROVE  last.uris = to'.uris /\ \A u \in last.uris : stage[u] = 3
    OBVIOUS
  <2>1. Select
    BY <1>1, <2>0, Steps
    DEF Ends, Stands, Moves, LoadTargets, RefreshTargets, NewUpdate, BeginInit
  <2>2. PICK f \in CurrentTargets :
          \/ \E e \in Error \ {"ErrCheckNoUpdate"} : Reject(f, e)
          \/ \E t \in Target : Candidate(f, t) /\ Accept(f, Shortlist(t, enabled))
    BY <2>0, <2>1, Selected
  <2>3. ~ \E e \in Error \ {"ErrCheckNoUpdate"} : Reject(f, e)
    BY DEF Reject, Fail
  <2>4. PICK t \in Target : Candidate(f, t) /\ Accept(f, Shortlist(t, enabled))
    BY <2>2, <2>3
  <2>5. f.uris = last.uris
    BY <2>0, CurrentIsLast
  <2>6. /\ to' = Shortlist(t, enabled) /\ status' \in {NoStatus, CurrentStatus}
        /\ status'.known /\ InSync(f, to', status')
    BY <2>4 DEF Accept, Done
  <2>7. status' = CurrentStatus
    BY <2>6 DEF NoStatus
  <2>8. Fits(to'.id, to'.uris)
    BY <1>1, <2>4, <2>6, CandidateFits, ShortlistIsPart, PartFits
  <2>9. last.uris = to'.uris
    BY <2>5, <2>6, <2>8, SameApps DEF InSync
  <2>10. last.uris # {} => \A u \in last.uris : stage[u] = 3
    BY <2>6, <2>7, <2>9 DEF InSync, CurrentStatus
  <2>. QED BY <2>9, <2>10
<1>2. QED BY <1>1, FitAlways, PTL DEF Spec, NothingToDoIsTrue
=============================================================================
