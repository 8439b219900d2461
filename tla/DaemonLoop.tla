------------------------------ MODULE DaemonLoop ------------------------------
(***************************************************************************)
(* The daemon around the updates (cmd/fioup/daemon.go): it asks for remote *)
(* configuration, runs an update, and sleeps until the interval is over or *)
(* a signal comes.  After SIGHUP it reads its configuration again and makes *)
(* new clients.  The configuration is changed by the handlers that the     *)
(* check for remote configuration runs, and by an administrator; both then *)
(* send SIGHUP.  Configurations are numbered in the order of their writing. *)
(*                                                                         *)
(* What an update does is UpdateAgent's subject, what the event sender     *)
(* does EventSender's.                                                     *)
(***************************************************************************)
EXTENDS Integers

CONSTANTS
  Admin,     (* TRUE if an administrator changes the configuration too     *)
  MayBreak,  (* TRUE if a configuration may be one that NewConfig refuses  *)
  MaxEdits,  (* bound: configurations written                              *)
  MaxFaults  (* bound: failures                                            *)

ASSUME LoopAssumption ==
  /\ Admin \in BOOLEAN /\ MayBreak \in BOOLEAN
  /\ MaxEdits \in Nat /\ MaxFaults \in Nat

VARIABLES
  enabled,   (* --fioconfig                                                *)
  conf,      (* the configuration on the disk                              *)
  broken,    (* it cannot be loaded                                        *)
  told,      (* the last one that SIGHUP was sent for                      *)
  checked,   (* the last one that a handler of CheckIn signalled           *)
  hup,       (* values in the channel sigHUP                               *)
  interrupted, (* SIGINT came: ctx is done                                 *)
  loaded,    (* the configuration that config holds                        *)
  gw, app,   (* those that the gateway client with its event sender, and
                the fioconfig client, were made from                       *)
  flushers,  (* goroutines of event senders                                *)
  extracted, (* configExtracted                                            *)
  pc,
  after,     (* what follows a sleep and the reload it may lead to         *)
  due,       (* the timer of the sleep                                     *)
  faults

confVars == <<conf, broken, told, hup>>
partVars == <<loaded, gw, app, flushers>>
vars == <<enabled, confVars, checked, interrupted, partVars, extracted, pc, after,
          due, faults>>

Polling == {"config", "checkin", "pause", "update", "sleep"}
Reloading == {"close", "load", "client", "app"}
Phases == {"off", "dead", "boot"} \union Polling \union Reloading

TypeOK ==
  /\ {enabled, broken, interrupted, extracted, due} \subseteq BOOLEAN
  /\ conf \in 0 .. MaxEdits /\ told \in 0 .. conf /\ checked \in 0 .. told
  /\ loaded \in 0 .. conf /\ gw \in 0 .. conf /\ app \in 0 .. conf
  /\ hup \in 0 .. 1 /\ flushers \in Nat
  /\ pc \in Phases /\ after \in {"config", "update"}
  /\ faults \in 0 .. MaxFaults

Fault == faults < MaxFaults /\ faults' = faults + 1

Ended == pc \in {"off", "dead"}
Sleeping == pc \in {"pause", "sleep"}

\* The process is gone, with its goroutines and channels.
Gone == flushers' = 0 /\ hup' = 0
Die == pc' = "dead" /\ Gone
-----------------------------------------------------------------------------
(* The start, and reload.                                                  *)

\* PersistentPreRun reads the configuration.
Launch ==
  /\ Ended /\ ~broken
  /\ pc' = "boot"
  /\ loaded' = conf /\ extracted' = FALSE /\ interrupted' = FALSE
  /\ after' = "config" /\ due' = FALSE
  /\ UNCHANGED <<enabled, confVars, checked, gw, app, flushers, faults>>

\* A configuration that cannot be loaded is refused.
LaunchFails ==
  /\ Ended /\ broken
  /\ pc' = "dead"
  /\ UNCHANGED <<enabled, confVars, checked, interrupted, partVars, extracted,
                 after, due, faults>>

\* doDaemon is ready for the signals.
Notify ==
  /\ pc = "boot"
  /\ pc' = "client"
  /\ UNCHANGED <<enabled, confVars, checked, interrupted, partVars, extracted,
                 after, due, faults>>

\* Mutant: the goroutine of the old sender is left alone.
LeaveOpen ==
  /\ pc = "close"
  /\ pc' = "load"
  /\ UNCHANGED <<enabled, confVars, checked, interrupted, partVars, extracted,
                 after, due, faults>>

\* Close: the sender's goroutine is waited for.
Close ==
  /\ pc = "close"
  /\ flushers' = flushers - 1
  /\ pc' = "load"
  /\ UNCHANGED <<enabled, confVars, checked, interrupted, loaded, gw, app,
                 extracted, after, due, faults>>

Load ==
  /\ pc = "load" /\ ~broken
  /\ loaded' = conf
  /\ pc' = "client"
  /\ UNCHANGED <<enabled, confVars, checked, interrupted, gw, app, flushers,
                 extracted, after, due, faults>>

LoadFails ==
  /\ pc = "load" /\ broken
  /\ Die
  /\ UNCHANGED <<enabled, conf, broken, told, checked, interrupted, loaded, gw, app,
                 extracted, after, due, faults>>

\* NewGatewayClient, and the event sender that uses it.
NewClient ==
  /\ pc = "client"
  /\ gw' = loaded /\ flushers' = flushers + 1
  /\ pc' = IF enabled THEN "app" ELSE after
  /\ UNCHANGED <<enabled, confVars, checked, interrupted, loaded, app, extracted,
                 after, due, faults>>

\* AssertCanExtract, NewAppWithConfig
NewApp ==
  /\ pc = "app"
  /\ app' = loaded
  /\ pc' = after
  /\ UNCHANGED <<enabled, confVars, checked, interrupted, loaded, gw, flushers,
                 extracted, after, due, faults>>

\* A client cannot be made, or the directory of the secrets cannot be written to,
\* which is also tested before every check.
PartFails ==
  /\ pc \in {"client", "app"} \/ (pc = "config" /\ enabled)
  /\ Fault /\ Die
  /\ UNCHANGED <<enabled, conf, broken, told, checked, interrupted, loaded, gw, app,
                 extracted, after, due>>
-----------------------------------------------------------------------------
(* Signals and writes.                                                     *)

\* A write: the new configuration may be one that cannot be loaded.
Write == /\ conf < MaxEdits /\ conf' = conf + 1
         /\ broken' \in (IF MayBreak THEN BOOLEAN ELSE {FALSE})

\* Mutant: the channel holds every signal.
HangUpCounted == told' = conf' /\ hup' = hup + 1

\* Mutant: the channel has no room, and a signal that nobody waits for is lost.
HangUpUnbuffered == told' = conf' /\ hup' = IF Sleeping THEN 1 ELSE 0

\* SIGHUP for the daemon that runs: the channel holds one.
HangUp == told' = conf' /\ hup' = 1

\* A handler of a changed file: nothing is to do for this file, or the new
\* configuration is copied and SIGHUP sent, or it fails before that.
Handle ==
  \/ UNCHANGED <<confVars, faults>>
  \/ Write /\ HangUp /\ UNCHANGED faults
  \/ Write /\ Fault /\ UNCHANGED <<told, hup>>

AdminWrites ==
  /\ Admin /\ Write
  /\ UNCHANGED <<enabled, told, hup, checked, interrupted, partVars, extracted, pc,
                 after, due, faults>>

\* Before Notify the signal ends the process.
AdminHangsUp ==
  /\ Admin /\ ~Ended /\ told < conf
  /\ UNCHANGED conf
  /\ IF pc = "boot" THEN Die /\ told' = conf
                    ELSE HangUp /\ UNCHANGED <<pc, flushers>>
  /\ UNCHANGED <<enabled, broken, checked, interrupted, loaded, gw, app, extracted,
                 after, due, faults>>

\* SIGINT: ctx is done.  An update under way, and those that follow until the next
\* sleep, get it too and may fail for it; both ways they may end are open anyway.
Interrupt ==
  /\ Fault /\ ~Ended /\ ~interrupted
  /\ interrupted' = TRUE
  /\ IF pc = "boot" THEN Die ELSE UNCHANGED <<pc, hup, flushers>>
  /\ UNCHANGED <<enabled, conf, broken, told, checked, loaded, gw, app, extracted,
                 after, due>>
-----------------------------------------------------------------------------
(* An iteration.                                                           *)

NoConfig ==
  /\ pc = "config" /\ ~enabled
  /\ pc' = "update"
  /\ UNCHANGED <<enabled, confVars, checked, interrupted, partVars, extracted,
                 after, due, faults>>

\* The sleep of a second after a check that may have changed something.
Pause == pc' = "pause" /\ after' = "update" /\ due' = FALSE

Extract ==
  /\ pc = "config" /\ enabled /\ ~extracted
  /\ Handle
  /\ extracted' = TRUE
  /\ pc' = "checkin"
  /\ UNCHANGED <<enabled, checked, interrupted, partVars, after, due>>

\* The error is not looked at, what was changed before it is.
ExtractFails ==
  /\ pc = "config" /\ enabled /\ ~extracted /\ Fault
  /\ \/ pc' = "update" /\ UNCHANGED <<confVars, after, due>>
     \/ Write /\ HangUp /\ Pause
  /\ UNCHANGED <<enabled, checked, interrupted, partVars, extracted>>

ExtractedAlready ==
  /\ pc = "config" /\ enabled /\ extracted
  /\ pc' = "checkin"
  /\ UNCHANGED <<enabled, confVars, checked, interrupted, partVars, extracted,
                 after, due, faults>>

\* Not modified, or an error; what Extract found is forgotten.
CheckInUnchanged ==
  /\ pc = "checkin"
  /\ pc' = "update"
  /\ UNCHANGED <<enabled, confVars, checked, interrupted, partVars, extracted,
                 after, due, faults>>

\* Mutant: the update follows at once.
CheckInAndGoOn ==
  /\ pc = "checkin"
  /\ Handle
  /\ checked' = IF told' # told THEN told' ELSE checked
  /\ pc' = "update"
  /\ UNCHANGED <<enabled, interrupted, partVars, extracted, after, due>>

CheckInChanged ==
  /\ pc = "checkin"
  /\ Handle
  /\ checked' = IF told' # told THEN told' ELSE checked
  /\ Pause
  /\ UNCHANGED <<enabled, interrupted, partVars, extracted>>

\* checkUpdates, after which the next iteration follows at once, or a sleep.  At once
\* after a Cancel for a newer version, and whenever the update failed to start, which
\* a current target that cannot start does every time, without an end.
UpdateNoWait ==
  /\ pc = "update"
  /\ pc' = "config"
  /\ UNCHANGED <<enabled, confVars, checked, interrupted, partVars, extracted,
                 after, due, faults>>

UpdateDone ==
  /\ pc = "update"
  /\ pc' = "sleep" /\ after' = "config" /\ due' = FALSE
  /\ UNCHANGED <<enabled, confVars, checked, interrupted, partVars, extracted, faults>>

\* The interval is over: no signal was there before.
TimerDue ==
  /\ Sleeping /\ ~due /\ hup = 0 /\ ~interrupted
  /\ due' = TRUE
  /\ UNCHANGED <<enabled, confVars, checked, interrupted, partVars, extracted, pc,
                 after, faults>>

\* Mutant: the loop goes on.
SleepGoesOn ==
  /\ Sleeping /\ interrupted
  /\ pc' = after
  /\ UNCHANGED <<enabled, confVars, checked, interrupted, partVars, extracted,
                 after, due, faults>>

\* The select statement chooses among what is ready.
SleepInterrupted ==
  /\ Sleeping /\ interrupted
  /\ pc' = "off" /\ Gone
  /\ UNCHANGED <<enabled, conf, broken, told, checked, interrupted, loaded, gw, app,
                 extracted, after, due, faults>>

SleepHangUp ==
  /\ Sleeping /\ hup = 1
  /\ hup' = 0
  /\ pc' = "close"
  /\ UNCHANGED <<enabled, conf, broken, told, checked, interrupted, partVars,
                 extracted, after, due, faults>>

SleepOver ==
  /\ Sleeping /\ due
  /\ pc' = after
  /\ UNCHANGED <<enabled, confVars, checked, interrupted, partVars, extracted,
                 after, due, faults>>

Select == SleepInterrupted \/ SleepHangUp \/ SleepOver
-----------------------------------------------------------------------------
Init ==
  /\ enabled \in BOOLEAN
  /\ conf = 0 /\ broken = FALSE /\ told = 0 /\ checked = 0
  /\ hup = 0 /\ interrupted = FALSE
  /\ loaded = 0 /\ gw = 0 /\ app = 0 /\ flushers = 0
  /\ extracted = FALSE /\ pc = "off" /\ after = "config" /\ due = FALSE
  /\ faults = 0

Reload == Close \/ Load \/ LoadFails \/ NewClient \/ NewApp
Check == \/ NoConfig \/ Extract \/ ExtractedAlready
         \/ CheckInUnchanged \/ CheckInChanged

Daemon == Notify \/ Reload \/ Check \/ TimerDue

Next == \/ Launch \/ LaunchFails \/ Daemon \/ PartFails \/ ExtractFails
        \/ UpdateNoWait \/ UpdateDone \/ Select
        \/ AdminWrites \/ AdminHangsUp \/ Interrupt

Spec == Init /\ [][Next]_vars

\* The daemon goes on, and updates end, in whichever way; select, which chooses at
\* random, does not pass over SIGINT for ever.
FairSpec ==
  /\ Spec
  /\ WF_vars(Daemon) /\ WF_vars(UpdateNoWait \/ UpdateDone)
  /\ WF_vars(Select) /\ SF_vars(SleepInterrupted)
-----------------------------------------------------------------------------
(* Properties.                                                             *)

\* The clients that poll, check and report were all made from the configuration
\* that the updates use, and exactly one goroutine sends events, after any sequence
\* of signals, changes and reloads.
PartsAgree ==
  /\ pc \in Polling => gw = loaded /\ flushers = 1 /\ (enabled => app = loaded)
  /\ flushers <= 1

\* What a check for configuration brought is loaded before the update that follows.
CheckedIsUsed == pc = "update" => loaded >= checked

\* No signal is lost: while the configuration in use is older than one that was
\* signalled, SIGHUP waits in the channel, or the reload it led to is under way and
\* has yet to read the file.
NoSignalIsLost == loaded < told => Ended \/ hup = 1 \/ pc \in {"close", "load"}

\* The daemon does not go from one failing start to the next for ever: only between
\* them does it sleep, and only asleep does it look at the signals.
ComesToSleep == []<>(Sleeping \/ Ended)

\* A daemon that comes to sleep again and again loads every configuration that was
\* signalled, whenever the signal came, unless it ends.
SignalledIsLoaded ==
  ComesToSleep => \A n \in 1 .. MaxEdits : told >= n ~> loaded >= n \/ Ended

\* SIGINT ends a daemon that comes to sleep again and again.
InterruptEnds == ComesToSleep => (interrupted ~> Ended)

\* The same as CheckedIsUsed, also of what was extracted; it does not hold.
SignalledIsUsed == pc = "update" => loaded >= told
=============================================================================
