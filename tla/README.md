# TLA+ specifications of fioup

fioup is the update agent of a FoundriesFactory device: it asks a Device Gateway
for *targets* (versioned sets of Compose apps), and fetches, installs and starts
the apps of the target it selects, on the command line or as a daemon. The
work on the apps and the database that records updates belong to a library,
composeapp; fioup decides what to do next from what that database, the target
list, the configuration and the apps on the device say. That decision, taken
again by every command after whatever interrupted the last one, is the heart of
these specifications. Around it there are five more subjects: the sender that must
get every event of an update to the gateway; the reports that let the gateway
show the device as it is; the registration that gives the device its identity;
the daemon, which follows a changing configuration; and the lock that keeps two
processes apart.

All line numbers refer to the sources under `src/`.

## 1. Inventory

### Components

| Component | State it keeps | Operations | What makes it correct |
|---|---|---|---|
| Update state machine (`pkg/state`, `pkg/api`) | the `UpdateContext` of the running command | `Check`, `Init`, `Fetch`, `Stop`, `Install`, `Start`, run in order by `UpdateRunner.Run` | the record of an update is never ahead of the host; what is stopped and reported is what is installed; one outcome per update, reported once it has ended |
| Targets (`pkg/target`) | `targets.json` | `LoadTargets`, `GetLatestTarget`, `GetTargetByID/Version`, `ShortlistApps`, `Diff` | selection and filtering agree; a torn file can be recovered from |
| Daemon (`cmd/fioup/daemon.go`) | its configuration, clients, event sender, a channel for SIGHUP | check config, update, cancel, retry at once, sleep, reload | it reaches the latest target or returns to a running one; clients and configuration agree; no signal is lost |
| Command line (`cmd/fioup`) | lock file | `check`, `fetch`, `install`, `start`, `update`, `cancel`, `register`; printing commands | no command turns an update in progress into another one; one process at a time |
| composeapp (external) | update records, apps in its store, containers | `NewUpdate`, `Init`, `Fetch`, `Install`, `Start`, `Complete`, `Cancel`, `StopApps`, `CheckAppsStatus` | modelled from how `pkg/state` uses it |
| Event sender (`internal/events`) | table `report_events`, two channels, a ticker | `EnqueueEvent`, `FlushEvents`, `Start`, `Stop` | no event is lost, order is kept, the update is not held up |
| Gateway client (`pkg/client`) | headers; a file per kind of report with what was reported; `sotaToReport`, `hwinfoToReport`, `lastAppStates` | `NewGatewayClient`, `UpdateHeaders`, `Post`, `ReportAppStates`, `PutSysInfo` | the gateway's view follows the device; nothing is taken for reported that was not; the header map is shared by two goroutines |
| Status (`pkg/status`) | none | `GetCurrentStatus` | used by `Check` to decide whether there is anything to do |
| Configuration (`pkg/config`) | TOML files | `GetEnabledApps` and other lookups | |
| Registration (`internal/register`) | key, certificate, `sota.toml`, Docker configuration, `sql.db` | `RegisterDevice`, clean-up on failure and on SIGINT | certificate and key fit; all or nothing; nothing but `--force` ends a registration |
| Database, installed versions (`internal/db`, `internal/targets`) | tables | creation at the start of a command; `installed_versions` is created but never written by the program | |

### How they interact

`UpdateRunner.Run` builds the list of states for a command and executes them one
after the other with one `UpdateContext`. `Check` chooses between *resuming* the
update that composeapp's database says is in progress and *selecting* a target
for a new one; each later state drives composeapp's runner through the states
of the record and skips what the record says is done. Each state sends events
through the event sender, a separate goroutine with a table of its own. The
daemon runs the same list again and again, and reacts to the error it ends
with: it cancels the update for a newer version, iterates at once, or sleeps.
One process at a time works on the device (a lock file: `cancel`, `check`,
`config-check`, `config-extract`, `daemon`, `fetch`, `install`, `register`, `start` and
`update` take it; `diff`, `run-and-report`, `status`, `version` and `whoami` do not), but between two
commands, and after a crash of one, everything persistent stays: the record,
the apps in their stages, `targets.json`, the events. Meanwhile the Factory
publishes targets, the configuration of enabled apps changes, and containers
exit.

### What is hard

- A command is resumed by a *different* command, with another target list and
  another list of enabled apps (`pkg/state/check.go:145-169`).
- A crash between any two steps; a write of `targets.json` cut short
  (`pkg/target/plain_repo.go:53`).
- Every step of composeapp may fail, and most failures leave the update in
  progress, some end it.
- Failing targets: attempts are counted, and the daemon goes back to the target
  before (`pkg/state/check.go:183-194`); nothing may loop for ever.
- Two goroutines, three channels and a table in the event sender; requests that
  fail or whose answer is lost.
- Registration writes half a dozen files one by one, in the random order of a
  Go map, while the handler of SIGINT, a goroutine, removes some of them
  (`internal/register/register.go:206`, `:236-246`).
- What was reported is known from a file that is written after the answer and
  dropped when there is no database, which is created after the client that
  looks for it (`pkg/client/gateway_client.go:149-165`).
- The daemon's configuration is changed by handlers that the daemon itself runs,
  and that send it a signal through a channel that holds one
  (`cmd/fioup/daemon.go:111`, `:149-178`).
- The place of the lock depends on the user, the environment and what exists
  (`cmd/fioup/root.go:113-135`).
- An event that cannot be saved is logged and the update goes on
  (`pkg/state/state.go:118-120`).

`PROJECT.json` lists the hazards at their lines, with the properties that are
about them or the reason why none is.

## 2. Modules

| Module | What it is | Code |
|---|---|---|
| `Targets` | pure operators on targets and lists of targets | `pkg/target/target.go`, end of `pkg/state/check.go` |
| `UpdateAgent` (extends `Targets`) | the agent: records, apps, target file, one running process, its environment | `pkg/state`, `pkg/api`, `cmd/fioup`, `pkg/target/plain_repo.go`, `pkg/status` |
| `UpdateRecord` | abstract: the life cycle of the updates of a device | what `UpdateAgent` implements |
| `UpdateAgentProofs` | theorems about `UpdateAgent` | |
| `UpdateContextProofs` | theorems about the context a command of `UpdateAgent` works with | |
| `UpdateResultProofs` | theorems about what the commands of `UpdateAgent` report and leave done | |
| `EventSender` | table, flusher, producer and gateway | `internal/events` |
| `EventQueue` | abstract: a persistent queue that hands out every event at least once, in order | what `EventSender` implements for one process, `ProcessLock` for many |
| `EventSenderProofs` | theorems about `EventSender` | |
| `DeviceReports` | the files, the memory and the requests of the gateway client, the device that changes, other commands | `pkg/client`, `pkg/api/update_runner.go`, ends of `cmd/fioup/register.go` and `whoami.go` |
| `DeviceReportsProofs` | theorems about `DeviceReports` | |
| `Registration` | attempts at registering, the signal handler, and the files they leave | `internal/register`, `cmd/fioup/register.go` |
| `RegistrationProofs` | theorems about `Registration` | |
| `DaemonLoop` | the loop of the daemon, its configuration and signals | `cmd/fioup/daemon.go`, `cmd/fioup/config_check.go`, `debian/fioconfig-handlers` |
| `DaemonLoopProofs` | theorems about `DaemonLoop` | |
| `ProcessLock` | processes, their lock, the sessions and environments its place depends on, and the table of events it protects | `cmd/fioup/root.go`, `internal/events/event_db.go` |
| `ProcessLockProofs` | theorems about `ProcessLock` | |
| `MCUpdateAgent`, `MCEventSender`, `MCDeviceReports`, `MCRegistration`, `MCDaemonLoop`, `MCProcessLock` | instances for TLC | |

The modules meet where the components do. `UpdateAgent` writes events that `EventSender`
delivers; an update is one step of `DaemonLoop` and of `DeviceReports`; `ProcessLock`
is what lets the other modules have one process with the lock at a time.

### `UpdateAgent` and the code

*Persistent state.* `ustate`, `uref`, `uuris` are the update in progress in
composeapp's database (state, ClientRef, URIs); `last` its last successful
update; `failed` its count of failed updates per target, cut off at
`MaxAttempts`, beyond which the code does not look. `stage` says per app how
far it is on the host: absent, fetched, installed, running. `file` and `listed`
are `targets.json`, `server` and `enabled` what the gateway and the
configuration say now.

*The running process.* `pc` says which state of the list comes next and where
inside it the process is: between two values of `pc` lies exactly what a crash
or another actor can separate. `cmd` holds the parameters that `pkg/api` gives to
`Check` for each command, and where its list of states ends; `mode`, `from`,
`to`, `targets`, `status` are the `UpdateContext`; `err` is the error the command
ends with, which only the daemon looks at.

*Events.* `note` is the event a state is about to save; saving it is a step of
its own (`Report`), because a crash may come before it, and may fail
(`ReportFails`), which the code logs before it goes on (`state.go:118-120`).
`told` holds the installation events saved for the latest update, `lost` those
whose saving failed; `owed` is the outcome of an update that has ended and for
which saving has not been tried. The properties about reports speak of `told` and
`lost`: that an event was lost by a failing save is the one way in which they let the
gateway learn less. The start events of Init and Fetch are left out: no property tells
them apart.

*Actions.* One per branch of a state's `Execute` that changes state: for `Check`
`RefuseNoUpdate`, `RefuseState`, `RefuseTornFile`, `LoadTargets`, `RefreshTargets`,
`RefreshFails`, then `Select` with its disjuncts `ResumeInvalid`, `ResumeOther`,
`ResumeOutdated`, `Resume`, `SelectMissing`, `SelectWanted`, `SelectRollback`;
for each of the others a step that begins, one that succeeds, one that fails
and one that skips. `BeginStop` announces the installation, and the apps are stopped
in a later step (`stopping`), so that a crash may come between. `SetupFails` stands for
the errors of `UpdateRunner.Run` before its first state. `DaemonCancels`, `DaemonRetries`, `DaemonSleeps` are the
daemon's reactions; `Crash`, `Publish`, `Configure`, `AppDies` the environment. A crash
may leave the work of the step in progress done for some of the apps (`HalfDone`).

*A list of targets is a set.* The code builds it from a Go map, whose order is
random; where it returns the first match, the operators return the set of
possible results. An app is its URI, since a target in which an app's name
differs from the one in its URI is dropped when the list is loaded.

*composeapp* is external and modelled from its use. One thing that cannot be
decided from this repository is a constant: whether an update that was created
but not initialized may survive a crash (`CreatedMayStay`). With `TRUE` both
outcomes are possible, and the safety properties are checked and proved so. The errors of its database are not modelled, which leaves out two
branches: the one that ignores an error of `CountFailedUpdates`, and a nil runner
after an error of `NewUpdate`.

### `EventSender` and the code

The producer is the goroutine of the update: `Save` and `Notify` are
`EnqueueEvent` (which waits for the flusher's channel when it holds a value),
`StopFlushes`, `StopStops`, `StopReturns` the three waits of `Stop`. The flusher takes
from the stop channel, the flush channel or the ticker, reads up to `Batch` rows
(6 in the code), posts them, and deletes everything up to the largest ID it
read. A request may fail before or after the gateway got it. Whatever the
gateway answers, the rows are deleted: `seen` means that it was given the event.
IDs are those SQLite chooses, one above the largest, so they start again when
the table is empty. The table is read in the order of its key, which is how
SQLite scans it though the query does not ask for it. The event whose saving fails
never enters this module: the table is what it was, and the producer goes on, so what
follows from it is a matter of `UpdateAgent` (`ReportFails`). A crash stops
both goroutines and keeps the table. `HeadersRace` is the abort of a program
that reads and writes a Go map at once: `UpdateHeaders` is called by the update
while the flusher's `Post` reads the headers.

### `DeviceReports` and the code

There are four kinds of reports: `net`, `sota`, `hw` and `apps`. `dev` has a value of
each, or `None` when it cannot be read: no default route, TOML that cannot be parsed
(`sysinfo_sota.go:40-50`), no `lshw` or one that fails (`sysinfo_hwinfo.go:81-92`), no
status of the apps. Such a kind is not reported, and becomes readable or unreadable
like any other change of the device. `file` is what the
files `.last-*` hold, `mem` what the client remembers: of `sota` and `hw` (`AtOnce`) the value
that `NewGatewayClient` found to be new (they are looked at once in the life of a
client, so the daemon sends them again only after a reload), of `apps` the states
reported last. `pc` goes through a command: `client` (`NewGatewayClient`), `db`
(`InitializeDatabase`), one step per upload, the update, and the report of the
apps after it. An upload is three steps: the gateway takes the value, the
answer comes (`sent`), the value is saved; anything may fail or be killed in between, and a
file may be cut short. The daemon goes on with its client or, after SIGHUP, with
a new one; `register` makes one of its own and reports the first three kinds. `reader` is a
command without the lock, whose client may remove the files. `given`, `found` and `unsaved`
are history: what the gateway was given since the registration, what the client found
of the kinds it looks at once, and whether the gateway ever took a value that was not
saved while an older one stood as the last reported, in the file or in memory (`Claimed`).
Only then does the agent know something false; a value that is lost when nothing, or a
torn file, stands for it is sent again.

A value of an app is its version and its health; `Alike` is what the code
compares, which is the health only. `Skip` is the early return of an upload whose value is
known already or cannot be read, the step `NothingKeptBack` is about. An empty list of apps is what a missing or
torn file is read as, so it is never sent; `GatewayFollows` leaves it out.

### `Registration` and the code

An attempt is `RegisterDevice` with the command around it: the two checks of the
directory, `--force` with its clean-up (before the user authorized anything and before
the server was asked, `register.go:259-263`), authorization, ping, from where on the signal handler
is set, key and staged Docker configuration, the request, the files of the
answer in any order, link and rename. Files hold the number of the attempt that
wrote them, so a key and a certificate fit when the numbers are equal. The files
of the answer beside certificate and `sota.toml` are handled like the latter and
left out. `sqldb` is the number of the attempt whose device made `sql.db`, 0 when there is none:
a database that is there is kept and used by whatever device finds it
(`internal/db/db.go:13`), and only the clean-up removes it. The handler runs beside all this: it removes `sql.db` and the certificate
and exits. A success message may be followed by a handler that took its signal
before `unsetSignals`, which is why `RegisteredIsComplete` excepts it. `CommitFails` may end
the attempt in "exists": `os.Symlink` fails with EEXIST (`docker.go:95`) when something else has taken the
name, and the command tells every error of that kind as "already registered"
(`cmd/fioup/register.go:59`). The loop that asks for a token
repeats any request not answered with 400, for ever (`auth.go:77-87`): in the model
the attempt just does not go on.

### `DaemonLoop` and the code

Configurations are numbered in the order they are written. `conf` is the one on
disk, `loaded` the one the daemon reads keys from, `gw` and `app` those that its
clients were made from, `told` and `checked` the last ones that SIGHUP was sent
for, by anybody and by the handlers of the check-in. `Extract` and `CheckIn` belong to fioconfig;
what they do to the configuration is the handler in `debian/`, which copies a file and then sends
the signal, and may fail between the two. Signals meet the process
in three conditions: before `signal.Notify` they end it, in a sleep they are taken by its
`select`, and otherwise they wait in a channel of one place. SIGINT cancels a
context that the sleeps look at, and that updates and the daemon's `Cancel` are given too: it may
make them fail. `UpdateNoWait` and `UpdateDone` are an update
and whether it asks for another one without a sleep; both are possible with any
context, so the step of the cancelled context is among them.

### `ProcessLock` and the code

A process reads the configuration (`Launch`), opens and locks the file in the
directory of `runtimeLockDir`, and works: it saves events, and its sender reads
up to `Batch` rows (6 in the code), posts them, and deletes up to the largest ID it
read. That is harmless
with one process, and loses events with two, as SQLite uses an ID again. The request, its
answer or the deletion may fail, which ends the flush and keeps the rows (`SendFails`,
`DeleteFails`), and a process may end with its sender between two steps (`Die`): it is
killed, or calls `os.Exit` in `DieNotNil`, which does not wait for the sender. `Exit` is
the end that waits for it.

The directory depends on what a process finds. `env` is what its environment says:
`XDG_RUNTIME_DIR` may name the session of any user, one of the directories that exist
anyway and that everybody may write to (`Dirs`, such as `/tmp`), or nothing; `os.TempDir()` is
one of the latter, whichever `TMPDIR` says. `RunExists` tells whether there is a `/run`.
A lock file in one of `Dirs` is opened only by the user who made it (`maker`), a session's
only by its user. Users log
in and out at any time; the directory of a session is a new one after each login,
and a process keeps its lock on a file that is gone. The storage directory and
its table belong to `Owner`: `register` makes it with the mode 0700
(`internal/register/register.go:103`), so a process of another user works in a directory of
its own. `seen`, `again` and `left` are history: the events the gateway was given, those
it was given more than once, and those it had when a fault left their rows in the table. The processes together are again an `EventQueue`
(`QueueSpec`), as the two goroutines of one process are in `EventSender`.

## 3. What TLC checks

The two-app instances: target 1 has apps a and b; target 2 updates a and drops
b; target 3 updates a to a version that cannot be started. Two targets are
enough for "newer", "older", "withdrawn" and "other than selected"; two apps for
partial installations, apps that are replaced, removed and kept; one app that
cannot start for rollbacks. `MaxAttempts` is 2 (3 in the code), the smallest
number for which "retry" and "give up" differ. `MaxFaults` bounds failures and crashes,
`MaxEdits` publications and configuration changes in a behaviour; commands are
not bounded, as the state space is finite without it. The hazards that are
modelled need at most two faults (one leaves something half done, one hits its
repair) and two edits.

| Run | Question | Bounds |
|---|---|---|
| `agent_commands` | Do record, host and context agree whatever commands are mixed, and is each outcome saved and never contradicted? Has a command that ends without an error done what it was asked for? (`HostMatchesRecord`, `ContextMatchesRecord`, `OldAppsStopped`, `SuccessIsFinal`, `OutcomeIsReported`, `CompletionFollowsStart`, `CommandIsDone`, `RecordSpec`) | targets 1 and 2, one fault, one edit, torn writes, status errors; 2.35 million states |
| `daemon_settling` | Does a device in daemon mode end up on the latest target, or back on the one before, giving up a failing one in time, and finding nothing to do only when the target's apps run? (`DaemonSettles`, `RetriesAreBounded`, `NothingToDoIsTrue`) | targets 1 and 3, two faults, two edits, status errors; 1.09 million states |
| `event_delivery` | Is the table a queue that loses nothing, keeps the order, and repeats nothing without a fault? Does every event reach the gateway, and is the update never held up for ever? | 5 events, 2 rows at a time, 2 faults |
| `reports_delivery` | Is nothing taken for reported that was not (`NoFalseClaim`, `FileIsGatewayView`), nothing left out that the gateway does not show (`NothingKeptBack`), and does the gateway show the device in the end (`GatewayFollows`)? | network, hardware and apps change or cannot be read; 2 changes or registrations, 2 faults; 1.15 million states |
| `registration_safety` | Do the files on the device belong together, whatever fails? Is success complete, an error all or nothing, and nothing else lost? Does a new device start without the database of the old one (`DatabaseOfDevice`)? | 3 attempts, 3 failures, signals or kills, one other Docker login; 64 thousand states |
| `loop_reloads` | Do the daemon's parts agree with its configuration (`PartsAgree`), is what a check brought used at once (`CheckedIsUsed`), is no signal lost (`NoSignalIsLost`)? If it comes to sleep again and again, is every signalled configuration loaded (`SignalledIsLoaded`), and does SIGINT end it (`InterruptEnds`)? | 4 configurations, an administrator, configurations that cannot be loaded, 3 faults; 112 thousand states |
| `lock_excludes` | Does one process of root work at a time (`MutualExclusion`), and are all of them together a queue that loses no event (`QueueSpec`) and repeats none unless a fault left its row in the table (`OnlyFaultsRepeat`)? | 2 processes at a time, root and a user, a login each, 2 directories beside the sessions, 3 events, 2 rows at a time, 2 faults; 1.89 million states |

In `event_delivery` the table can hold two full batches and a rest, and become
empty and be filled again, so IDs are used twice. In `reports_delivery` two
changes are one there and one back (or to a value that cannot be read and back), two faults a lost answer and what hits its
repair; `sota` is handled like `hw` and does not change. In `registration_safety` the
third attempt meets what a failed second one left of a first. In `loop_reloads` a
configuration can be written while the one before is loaded and a third waits in
the channel. In `lock_excludes` two processes that look for their locks in different places can
send at a time, a batch is smaller than the table, one
ID is used twice, and a session can end under a process that holds a lock in it; processes are started again without a bound. The
processes are symmetric, which is sound here: no property of the run is a liveness
property, and none names a process.

Deadlock is checked in every run but those of `Registration`, where the bound on
attempts ends every behaviour: commands can always be started, the daemon
always goes on.

Definitions commented as *Mutant* are plausible mistakes in the code (a dropped
guard, a swapped order). No specification uses them: put in place of the
definition that `PROJECT.json` names, each makes its run fail with the property
named there, which shows that the property depends on that code.

*Fairness.* `DaemonSpec` lets the running process take its next step, and a
daemon that ended start again: the unit is enabled at boot
(`debian/fioup.service`, `WantedBy=multi-user.target`; it has no `Restart=`, so
after an exit this means the next boot). Nothing is assumed about the
environment, whose faults and edits are bounded: the property is about a device
that is left in peace in the end. `FairSpec` of `EventSender` assumes that both
goroutines run, that a request ends (the HTTP client comes from another
repository, and this one sets no timeout), that the ticker ticks, that another
process starts after one ended, and strong fairness of the flush and stop cases of
`select`, since Go chooses at random among the ready ones. `FairSpec` of `DeviceReports`
lets a process take its next step and another one be started after it; that a
value may be reported only by a later command is part of the property
(`Followed`), as are the lost answers after which it does not hold (`unsaved`).
`FairSpec` of `DaemonLoop` lets the daemon take its steps; assumes that an update ends,
in either way, and that `select` does not pass over SIGINT for ever. Nobody
must start the daemon again, or send a signal. It does not assume that an update
stops asking for another one at once, because the code does not see to it for a current
target that cannot start (`daemon.go:203`). The two liveness properties of the run are therefore
about a daemon that comes to sleep again and again (`ComesToSleep`, the premise of both); what
is left to show is that one sleep's `select` takes the signal among the others, and that the
reloads it leads to come to an end.

### Where the code does not do what is said

Five runs expect a violation; `PROJECT.json` quotes the statements.

| Run | Counterexample |
|---|---|
| `daemon_torn_file` | a crash while `targets.json` is written: `check.go:102` refuses the torn file before downloading another, now and ever after |
| `stop_failure` | apps cannot be stopped: the gateway is told that the update failed, and it goes on |
| `registration_killed` | a kill between writing `client.pem` and `sota.toml`: the next attempt says that the device is registered, and no other command agrees |
| `reports_app_version` | an app is updated and its health stays the same: `areAppStatesEqual` finds nothing to report, and the gateway shows the old version |
| `loop_extracted` | the extraction at the start changes the configuration and the check-in finds nothing new, which overwrites `changed`: the update that follows uses the old configuration |

`DaemonSettles` holds in its own run with `TornWrites = FALSE` and `CreatedMayStay =
FALSE`. The first is the subject of the first run above. With `CreatedMayStay = TRUE` an
update that was created just before a crash is resumed with no apps. The
property itself excepts an update to the target `unknown`: the first target may
fail too often, with no target to go back to, and when the status cannot be
read either, such an update begins, which, once interrupted, can be neither
resumed nor cancelled by the daemon (`check.go:191`).

The models have further behaviours a reader of the code should know of, which no
run is about:

- A target that is current and cannot start any more is also the one to go back
  to: the daemon syncs it again and again without a sleep (`daemon.go:203`), and looks
  neither at SIGHUP nor at SIGINT meanwhile, unless the cancelled context makes an
  update fail in another way than by `ErrStartFailed`.
- An event that cannot be saved is not saved later: the gateway may learn of the end of an
  installation without its beginning, or of no outcome at all (`state.go:118`).
- Nothing stops an app that a failed start of another target left running: it goes on
  beside the apps of the target that was gone back to. "Nothing to do" is about the target's
  apps only (`check.go:249`).
- A first update to a target that fails too often, with none to go back to, is an update to the target
  "unknown" (`check.go:191`, see above).
- A rollback that is interrupted is cancelled for the "newer" version it goes
  back from, and then begun again (`check.go:164`, `daemon.go:193`).
- SIGINT during registration: the handler may remove the certificate before the
  main goroutine writes it, and exit with it on the disk (`register.go:241`).
- `commitDockerChanges` fails: the command returns the error without a clean-up, and
  the device stays registered (`register.go:309`); if the failure is EEXIST, the user is told
  that it had been registered before.
- A `docker login` between staging and renaming `config.json` is undone
  (`docker.go:55`, `:120`); `OldLoginsAreKept` is about the entries from before the attempt.
- The gateway takes a value, its answer is lost, and the device changes back: it
  equals the file and is not sent, and the gateway shows the other value
  (`sysinfo_network.go:49`). `GatewayFollows` excepts it by `unsaved`.
- A configuration that cannot be loaded ends the daemon (`daemon.go:76`), also when
  it came from remote, and the unit has no `Restart=`.
- SIGHUP and SIGINT before `signal.Notify` end the daemon; a handler that fails
  after it copied the file sends no signal.
- Another user than root without a session locks a file in the temporary directory,
  and its next process, after a login, one in `/run/user/$UID`: both work
  (`root.go:113`). So do two processes with different `TMPDIR`s or `XDG_RUNTIME_DIR`s, and
  those of root where there is no `/run`. `MutualExclusion` is checked and proved for root, with a `/run`.

## 4. What is proved

`UpdateAgentProofs`, for every catalog of targets, set of apps, number of attempts,
faults and edits, from `CatalogAssumption` (the catalog holds targets, none of
them called "unknown") and `AgentAssumption` (types of the constants):

- `TypeCorrect`: `Spec => []TypeOK`, one lemma per group of actions.
- `HostCorrect`: `HostMatchesRecord` always holds. It is not inductive: that
  a record reaches "fetched" only with all apps on the host depends on where
  the process is. `HostInv` adds that the step in progress (`pc`) is the one the
  record is in; `StepMatchesRecord` names that part.
- `RecordCorrect`: `Spec => RecordSpec`. Each action maps to one action of
  `UpdateRecord` or to a stuttering step, given `HostInv` and the types.
- `OutcomeCorrect`: `OutcomeIsReported`. The strengthening `OwedInv` ties `owed`
  to `note`: while an outcome is owed, the event that reports it is the next thing
  the process saves, or fails to save: a failed save is tried once and logged, which the
  property says, and is not a report.
- `SuccessCorrect`: `SuccessIsFinal`, from `ReportInv`, which relates what was
  saved to the state of the record and to `pc`.

`UpdateContextProofs`, for the same constants, on a classification of all steps by what they do to
record and context (`Ends`, `Stands`, `Moves`: lemma `Steps`), which every proof of the module begins with:

- `ContextCorrect`: `ContextMatchesRecord`. `ModeInv` adds that what Check found out first,
  whether an update is in progress, still holds when it selects.
- `NoOldAppLeftRunning`: `OldAppsStopped`. `FitInv` adds that record, last update and context
  hold no apps but those of the target they name, so that the target composed from the last
  update has exactly its apps (`CurrentIsLast`), and `StopInv` that they are stopped
  when the installation begins.
- `NothingToDo`: `NothingToDoIsTrue`, from `FitInv`: the last successful update installed the apps of
  the selected target, no more and no fewer, and all of them run. It says nothing of other
  apps that may run beside them.
- `RetriesStop`: `RetriesAreBounded`. `RetryInv` says that what the daemon is about to begin has
  attempts left or is the current target (`SyncIsCurrent`).

`UpdateResultProofs`, for the same constants and any catalog:

- `CompletionCorrect`: `CompletionFollowsStart`. The strengthening `StartInv` says that the announcement is
  saved, or saving it failed, from the moment apps are stopped, and whenever the record is that of an installation,
  by whichever command it got there; the exception is in the statement. That the record itself follows `pc` is `HostInv`.
- `DoneCorrect`: `CommandIsDone`. The inductive invariant joins `ContextInv`, which ties the context to the
  record, with `PageInv`, which says how far the record is when each state of the list
  begins: this is what a state that skips its work rests on.

`NoOldAppLeftRunning` and `NothingToDo` assume `StableCatalog`: no two targets have the same ID, in none do
two apps share a name (targets and apps are keys of JSON objects), and a published target
does not change later. `RetriesStop` assumes `NumberedCatalog`: the version of a target is the
number in its ID, none is negative, and no two are the same; `GetTargetByVersion` may go to another
target of the same version otherwise. The catalogs of the runs satisfy both.

`EventSenderProofs`, for every size of a batch, and any number of events and faults:

- `NothingIsLost`, `NothingIsRepeated`, `OrderIsKept` (the gateway has, with an event, all
  those before it; no run checks it, as `QueueSpec` has the order too), `SenderTypeCorrect` and the
  refinement `SenderImplementsQueue`. The inductive invariant `IInv` says that IDs
  and events of the rows are ordered alike and one row is the last
  (`RowsInv`); that what the flusher read is a prefix of the table whatever was
  saved since, and was given to the gateway once it may be deleted
  (`BatchInv`); and that without a fault an event the gateway has is in the table
  only while it is about to be deleted (`OnceInv`). Steps that touch
  neither the table nor the gateway are one lemma (`QuietStep`).

`RegistrationProofs`, for any logins, kinds of failures, numbers of attempts and
faults: all seven properties of `registration_safety`. The inductive invariant says that
files belong to attempts so far; that while an attempt writes, the key is its
own and the certificate is its own or gone (which needs that an attempt gets
so far only if there was no certificate or `--force` removed it); what is complete from `link` on; that nothing
but a signal taken before removes it; and that what is staged contains every entry of
`config.json` but those added since. `DatabaseIsOfDevice` adds `DatabaseInv`: while an attempt is on its way there is no
database, because the clean-up removes it before the certificate and its failure
ends the attempt.

`DeviceReportsProofs`: `TypeOK`, `NoFalseClaim`, `FileIsGatewayView`, and the action property `NothingKeptBack`. The strengthenings are
about the moment between an answer and its being saved (`SentInv`: what was
sent is the gateway's view and was given) and about when a file is looked at at
all: without a database, only after `NewGatewayClient` removed the files (`ViewInv`). For what is left out, `MemInv` says that
until the gateway takes a value while an older one stands as the last reported, what the
client remembers of the apps and the files agrees with what the gateway shows, and that of the kinds
it looks at once, what it found and did not keep to be sent is what the gateway shows, or cannot be read.

`DaemonLoopProofs`: `TypeOK` (with one place in the channel), `PartsAgree`, `CheckedIsUsed`, `NoSignalIsLost`.
`PartsInv` follows a reload through its four steps; `CheckedInv` says that after a
check that brought something a signal waits or is being served until the
update begins. `NoSignalIsLost` is inductive beside the types: it is the safety that
`SignalledIsLoaded` rests on, which adds fairness.

`ProcessLockProofs`, for any processes, users, environments and sessions:

- `LockTypeCorrect`, and `LockHasOneHolder` (a process that works holds a lock that no other holds),
  for any owner of the storage directory.
- `RootExcludes`, `RootLosesNoEvent`, `RootGivesOnce` and `RootImplementsQueue`, for `Owner = Root`
  and `RunExists`: `MutualExclusion`, `NoEventIsLost` (an event is in the table or at the gateway),
  `OnlyFaultsRepeat` and the refinement of `EventQueue`. Both assumptions are needed: for other users, or
  without `/run`, section 3 says how two processes get different locks.
  `HeldInv` says that who works holds a lock of his own and that root's is the one
  in `/run`; `ReadInv`, that what a process read and is about to delete is in the
  table below everything added since, and was given to the gateway, which is
  inductive only because no other process of root deletes meanwhile. For order and
  repetition, rows are sorted by ID as by event (`RowOfEvent`), so that what is read is the
  oldest part of the table (`ReadIsOldest`), and an event is in the table
  and at the gateway only while its sender is about to delete it or after a fault left it
  there (`left`), so that nothing else can be given again.

Only model-checked: the liveness properties (`DaemonSettles`, `EveryEventIsGiven`,
`ProducerGoesOn`, `GatewayFollows`, `SignalledIsLoaded`, `InterruptEnds`), which rest on fairness and are out
of the prover's reach. Every other property of a passing run is stated by a theorem.

## 5. Not modelled

- The TUF repository (`pkg/target/tuf_repo.go`): a hidden option around go-tuf.
- `config-check` and `config-extract` do once what `DaemonLoop` does in its loop;
  `run-and-report` runs a program of the user's and reports its output.
- The end-to-end test hook of the daemon (`checkForCI`).
- Commands that only print: no state but the files of `DeviceReports`, whose
  removal by them is modelled; that this removal fails is not.
- The functions that write `installed_versions`: nothing calls them.
- `checkFreeSpace` (`pkg/state/fetch.go:69-88`) decides only whether a fetch fails, which
  may happen at any time in the model; its arithmetic, a sum of int64 compared
  as uint64, is planned.
- Options, names, headers and the contents of requests.

## 6. Plan

Written so far, in this order: `Targets`, `UpdateAgent`, `UpdateRecord`, their proofs,
`EventQueue`, `EventSender`, their proofs; `Registration`, `DeviceReports`, `DaemonLoop`, `ProcessLock` and
their proofs; what commands report and leave done (`UpdateResultProofs`), and the queue that many processes
make together.

Next:

1. What is assumed of a list of targets: which of the assumptions of
   `NoOldAppLeftRunning`, `NothingToDo` and `RetriesStop` the selection functions themselves establish.
2. Composition of agent and sender: what the gateway learns about an update,
   over crashes.
3. The arithmetic of `checkFreeSpace`, with its widths.
