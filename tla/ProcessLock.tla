----------------------------- MODULE ProcessLock -----------------------------
(***************************************************************************)
(* Processes of fioup, the lock that keeps them apart (cmd/fioup/root.go), *)
(* and what it protects in the table of events: rows are deleted up to an  *)
(* ID that was read before, and SQLite uses IDs again when the table was   *)
(* emptied, so two processes that send at a time would lose events.  The   *)
(* processes of another user work in a directory of their own.             *)
(*                                                                         *)
(* The lock is a file in a directory that depends on the user, on the      *)
(* environment and on what exists; the directory of a user's session is a  *)
(* new one after every login.  A process reads the configuration before it *)
(* takes the lock.                                                         *)
(***************************************************************************)
EXTENDS Integers, FiniteSetsExt

CONSTANTS
  Procs,
  Users,       (* users that run fioup                                     *)
  Owner,       (* the one whose storage directory, made with the mode 0700, and
                  table of events it is about                              *)
  Dirs,        (* directories that exist and that any user may write to, as
                  /tmp, where a file is opened only by who made it         *)
  RunExists,   (* TRUE if there is a directory /run                        *)
  Batch,       (* rows read at a time: max_events                          *)
  MaxLogins,   (* bound: sessions of a user that begin                     *)
  MaxEvents,   (* bound: events saved                                      *)
  MaxFaults    (* bound: failures, and processes that end all of a sudden  *)

Root == "root"
Unset == "unset"

ASSUME LockAssumption ==
  /\ Owner \in Users
  /\ Dirs \intersect (Users \union {"none", "/run", Unset}) = {}
  /\ RunExists \in BOOLEAN /\ Batch \in Nat \ {0}
  /\ MaxLogins \in Nat /\ MaxEvents \in Nat /\ MaxFaults \in Nat

VARIABLES
  session,  (* /run/user/$UID of a user: 0, or the number of the login that
               made it                                                     *)
  logins,
  maker,    (* who made the lock file in one of Dirs                       *)
  pc, user, (* of a process                                                *)
  env,      (* of a process that starts: XDG_RUNTIME_DIR, which is one of
               Dirs or a user's session's directory, and os.TempDir(),
               which is $TMPDIR or /tmp                                    *)
  held,     (* the lock file that it has locked                            *)
  read,     (* the rows that its event sender read                         *)
  rows, saved, seen, (* report_events, events saved, events the gateway has *)
  again,    (* history: events that the gateway was given more than once   *)
  left,     (* history: events that it had when a failure, or the end of
               the process, left their rows in the table                   *)
  faults

procVars == <<pc, user, env, held, read>>
dirVars == <<session, logins, maker>>
tableVars == <<rows, saved, seen, again, left>>
vars == <<dirVars, procVars, tableVars, faults>>

None == <<"none", 0>>
RunDir == <<"/run", 0>>
Locks == {RunDir} \union (Dirs \X {0}) \union (Users \X (1 .. MaxLogins))

Env == [xdg: Users \union Dirs \union {Unset}, tmp: Dirs]
NoEnv == [xdg |-> Unset, tmp |-> Unset]

EventNo == 1 .. MaxEvents
Row == [id: Nat, event: EventNo]
Running == {"work", "post", "delete"}

TypeOK ==
  /\ session \in [Users -> 0 .. MaxLogins] /\ logins \in [Users -> 0 .. MaxLogins]
  /\ maker \in [Dirs -> Users \union {"none"}]
  /\ pc \in [Procs -> {"off", "start"} \union Running]
  /\ user \in [Procs -> Users] /\ env \in [Procs -> Env \union {NoEnv}]
  /\ held \in [Procs -> Locks \union {None}]
  /\ read \in [Procs -> SUBSET Row]
  /\ rows \subseteq Row /\ saved \in 0 .. MaxEvents
  /\ seen \subseteq EventNo /\ again \subseteq EventNo /\ left \subseteq EventNo
  /\ faults \in 0 .. MaxFaults

Fault == faults < MaxFaults /\ faults' = faults + 1
-----------------------------------------------------------------------------
(* The lock.                                                               *)

SessionDir(u) == <<u, session[u]>>
Exists(d) == d \in Dirs \/ (d \in Users /\ session[d] # 0)
Dir(d) == IF d \in Dirs THEN <<d, 0>> ELSE SessionDir(d)

\* Mutant: XDG_RUNTIME_DIR comes first, for root too.
LockDirOfSession(u, e) ==
  CASE Exists(e.xdg)                           -> Dir(e.xdg)
    [] ~Exists(e.xdg) /\ u = Root /\ RunExists -> RunDir
    [] OTHER                                   -> Dir(e.tmp)

\* Mutant: the directory of the user is not looked for.
LockDirUnchecked(u, e) == IF u = Root /\ RunExists THEN RunDir ELSE SessionDir(u)

\* runtimeLockDir
RuntimeLockDir(u, e) ==
  IF u = Root /\ RunExists THEN RunDir
  ELSE IF Exists(e.xdg) THEN Dir(e.xdg)
  ELSE IF Exists(u) THEN SessionDir(u) ELSE Dir(e.tmp)

\* PersistentPreRun begins: the configuration is read.
Launch(p) ==
  /\ pc[p] = "off"
  /\ \E u \in Users, e \in Env :
       user' = [user EXCEPT ![p] = u] /\ env' = [env EXCEPT ![p] = e]
  /\ pc' = [pc EXCEPT ![p] = "start"]
  /\ UNCHANGED <<dirVars, held, read, tableVars, faults>>

\* The process may open the lock file: the directory of a session is its user's, and
\* the file in one of Dirs that of the user who made it.
MayOpen(p, lock) ==
  /\ lock[1] \in Dirs  => maker[lock[1]] \in {"none", user[p]}
  /\ lock[1] \in Users => lock[1] = user[p]

Made(p, lock) ==
  maker' = IF lock[1] \in Dirs THEN [maker EXCEPT ![lock[1]] = user[p]] ELSE maker

\* The process does not look at its environment again.
Begin(p, lock) ==
  /\ pc' = [pc EXCEPT ![p] = "work"]
  /\ held' = [held EXCEPT ![p] = lock]
  /\ env' = [env EXCEPT ![p] = NoEnv]
  /\ UNCHANGED <<session, logins, user, read, tableVars, faults>>

\* Mutant: a lock that may be shared.
AcquireShared(p) ==
  LET lock == RuntimeLockDir(user[p], env[p])
  IN pc[p] = "start" /\ MayOpen(p, lock) /\ Made(p, lock) /\ Begin(p, lock)

\* acquireLock: the lock is taken, if no process has it.
AcquireLock(p) ==
  LET lock == RuntimeLockDir(user[p], env[p])
  IN /\ pc[p] = "start"
     /\ MayOpen(p, lock) /\ Made(p, lock)
     /\ \A q \in Procs : held[q] # lock
     /\ Begin(p, lock)

\* Otherwise the command ends with an error.
AcquireFails(p) ==
  LET lock == RuntimeLockDir(user[p], env[p])
  IN /\ pc[p] = "start"
     /\ \/ MayOpen(p, lock) /\ Made(p, lock) /\ \E q \in Procs : held[q] = lock
        \/ ~MayOpen(p, lock) /\ UNCHANGED maker
     /\ pc' = [pc EXCEPT ![p] = "off"]
     /\ env' = [env EXCEPT ![p] = NoEnv]
     /\ UNCHANGED <<session, logins, user, held, read, tableVars, faults>>

\* The kernel releases the lock of a process that ends.
End(p) == /\ pc' = [pc EXCEPT ![p] = "off"]
          /\ held' = [held EXCEPT ![p] = None]
          /\ env' = [env EXCEPT ![p] = NoEnv]
          /\ read' = [read EXCEPT ![p] = {}]
          /\ UNCHANGED <<dirVars, user, rows, saved, seen, again>>

\* The events of the rows that a process has read.
Batched(p) == {r.event : r \in read[p]}

\* The event sender is waited for.
Exit(p) == pc[p] = "work" /\ End(p) /\ UNCHANGED <<left, faults>>

\* The process is killed, or calls os.Exit (DieNotNil, AssertCanExtract) while its
\* event sender is at work.
Die(p) ==
  /\ pc[p] # "off" /\ Fault /\ End(p)
  /\ left' = IF pc[p] = "delete" THEN left \union Batched(p) ELSE left
-----------------------------------------------------------------------------
(* What a process does with the table.                                     *)

NewID == IF rows = {} THEN 1 ELSE 1 + Max({r.id : r \in rows})

SaveEvent(p) ==
  /\ pc[p] \in Running /\ user[p] = Owner /\ saved < MaxEvents
  /\ saved' = saved + 1
  /\ rows' = rows \union {[id |-> NewID, event |-> saved + 1]}
  /\ UNCHANGED <<dirVars, procVars, seen, again, left, faults>>

\* GetEvents: the first rows in the order of their IDs.
GetEvents(p) ==
  /\ pc[p] = "work" /\ user[p] = Owner /\ rows # {}
  /\ \E batch \in SUBSET rows :
       /\ \/ batch = rows /\ Cardinality(rows) <= Batch
          \/ Cardinality(batch) = Batch
       /\ \A r \in rows \ batch, b \in batch : r.id > b.id
       /\ read' = [read EXCEPT ![p] = batch]
  /\ pc' = [pc EXCEPT ![p] = "post"]
  /\ UNCHANGED <<dirVars, user, env, held, tableVars, faults>>

Given(es) == seen' = seen \union es /\ again' = again \union (seen \intersect es)

\* sendEvent: the gateway answers, whatever it says.
SendEvents(p) ==
  /\ pc[p] = "post"
  /\ Given(Batched(p))
  /\ pc' = [pc EXCEPT ![p] = "delete"]
  /\ UNCHANGED <<dirVars, user, env, held, read, rows, saved, left, faults>>

\* The flush ends, and the rows stay.
GiveUp(p) ==
  /\ Fault
  /\ read' = [read EXCEPT ![p] = {}]
  /\ pc' = [pc EXCEPT ![p] = "work"]
  /\ UNCHANGED <<dirVars, user, env, held, rows, saved>>

\* The request or its answer is lost.
SendFails(p) ==
  /\ pc[p] = "post" /\ GiveUp(p)
  /\ \/ UNCHANGED <<seen, again, left>>
     \/ Given(Batched(p)) /\ left' = left \union Batched(p)

\* The rows cannot be deleted.
DeleteFails(p) ==
  /\ pc[p] = "delete" /\ GiveUp(p)
  /\ left' = left \union Batched(p)
  /\ UNCHANGED <<seen, again>>

\* Mutant: the row with the largest of the IDs stays.
DeleteOlderEvents(p) ==
  /\ pc[p] = "delete"
  /\ rows' = {r \in rows : \E b \in read[p] : r.id >= b.id
                               /\ \A c \in read[p] : b.id >= c.id}
  /\ read' = [read EXCEPT ![p] = {}]
  /\ pc' = [pc EXCEPT ![p] = "work"]
  /\ UNCHANGED <<dirVars, user, env, held, saved, seen, again, left, faults>>

\* DeleteEvents: by the IDs that were read.
DeleteEvents(p) ==
  /\ pc[p] = "delete"
  /\ rows' = {r \in rows : \A b \in read[p] : r.id > b.id}
  /\ read' = [read EXCEPT ![p] = {}]
  /\ pc' = [pc EXCEPT ![p] = "work"]
  /\ UNCHANGED <<dirVars, user, env, held, saved, seen, again, left, faults>>
-----------------------------------------------------------------------------
(* Sessions.                                                               *)

Login(u) ==
  /\ RunExists
  /\ session[u] = 0 /\ logins[u] < MaxLogins
  /\ logins' = [logins EXCEPT ![u] = @ + 1]
  /\ session' = [session EXCEPT ![u] = logins[u] + 1]
  /\ UNCHANGED <<maker, procVars, tableVars, faults>>

\* The directory goes; a process that has a file of it open keeps its lock.
Logout(u) ==
  /\ session[u] # 0
  /\ session' = [session EXCEPT ![u] = 0]
  /\ UNCHANGED <<logins, maker, procVars, tableVars, faults>>

Init ==
  /\ session = [u \in Users |-> 0] /\ logins = [u \in Users |-> 0]
  /\ maker = [d \in Dirs |-> "none"]
  /\ pc = [p \in Procs |-> "off"]
  /\ user \in [Procs -> Users] /\ env = [p \in Procs |-> NoEnv]
  /\ held = [p \in Procs |-> None] /\ read = [p \in Procs |-> {}]
  /\ rows = {} /\ saved = 0 /\ seen = {} /\ again = {} /\ left = {} /\ faults = 0

Step(p) ==
  \/ Launch(p) \/ AcquireLock(p) \/ AcquireFails(p) \/ Exit(p) \/ Die(p)
  \/ SaveEvent(p) \/ GetEvents(p) \/ SendEvents(p) \/ DeleteEvents(p)
  \/ SendFails(p) \/ DeleteFails(p)

Next == (\E p \in Procs : Step(p)) \/ (\E u \in Users : Login(u) \/ Logout(u))

Spec == Init /\ [][Next]_vars
-----------------------------------------------------------------------------
(* Properties.                                                             *)

\* No two processes work in the same storage directory at a time, whoever logs in or
\* out and whatever the environment says: so it is for root's, if there is a directory
\* /run, but not for another user's, whose next process may look for the lock elsewhere.
MutualExclusion ==
  \A p, q \in Procs :
    /\ pc[p] \in Running /\ pc[q] \in Running
    /\ user[p] = Owner /\ user[q] = Owner
    => p = q

\* An event is given again only if a lost answer, a failing deletion or the sudden end
\* of a process left its row in the table: not because another process starts with the
\* rows that the one before it left, nor because IDs are used again.
OnlyFaultsRepeat == again \subseteq left

\* Together the processes are one queue that outlives them: every event is given to
\* the gateway before it leaves the table, and in the order in which the events were
\* saved, whichever process saved it and whichever sends it.
Queue == INSTANCE EventQueue
  WITH Events <- EventNo, pending <- {r.event : r \in rows}
QueueSpec == Queue!Spec
=============================================================================
