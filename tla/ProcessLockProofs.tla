-------------------------- MODULE ProcessLockProofs --------------------------
(***************************************************************************)
(* Proofs about the process lock, for any number of processes, users,      *)
(* sessions and directories.                                               *)
(***************************************************************************)
EXTENDS ProcessLock, TLAPS

\* A lock file is locked by one process, and a process that works holds one, whoever
\* logs in or out meanwhile.
OneHolder ==
  \A p, q \in Procs : pc[p] \in Running =>
    held[p] # None /\ (held[p] = held[q] => p = q)

\* An event that was saved is in the table or was given to the gateway, with several
\* processes that start, are refused, fail and end at any time.
NoEventIsLost ==
  1 .. saved \subseteq {r.event : r \in rows} \union seen

\* A process that works has locked a file, and another one than all others; root's
\* lock the one in /run.
HeldInv ==
  /\ \A p \in Procs : pc[p] \in Running <=> held[p] # None
  /\ \A p, q \in Procs : held[p] # None /\ held[p] = held[q] => p = q
  /\ RunExists => \A p \in Procs : user[p] = Root => held[p] \in {None, RunDir}

\* A process that starts has an environment.
StartInv == \A p \in Procs : pc[p] = "start" => env[p] \in Env

Types ==
  /\ pc \in [Procs -> {"off", "start"} \union Running]
  /\ user \in [Procs -> Users]
  /\ DOMAIN held = Procs /\ DOMAIN env = Procs

IInv == Types /\ StartInv /\ HeldInv

\* Every directory of a lock file is one.
LEMMA LockDirIsDir ==
  ASSUME LockAssumption, NEW u \in Users, NEW e \in Env
  PROVE  RuntimeLockDir(u, e) # None
<1>1. RunDir # None
  BY DEF RunDir, None
<1>2. \A d \in Dirs : Dir(d) # None
  BY DEF Dir, None, LockAssumption
<1>3. \A v : Exists(v) => SessionDir(v) # None \/ v \in Dirs
  BY DEF SessionDir, None, Exists
<1>4. \A d : Exists(d) => Dir(d) # None
  BY <1>2, <1>3 DEF Dir
<1>5. e.tmp \in Dirs
  BY DEF Env
<1>6. u \notin Dirs
  BY DEF LockAssumption
<1>. QED BY <1>1, <1>3, <1>4, <1>5, <1>6 DEF RuntimeLockDir, Exists

LEMMA InitInv == ASSUME LockAssumption, Init PROVE IInv
BY DEF Init, IInv, Types, StartInv, HeldInv, Running

LEMMA StepInv == ASSUME LockAssumption, IInv, [Next]_vars PROVE IInv'
<1>. USE DEF IInv, Types, StartInv, HeldInv, Running
<1>1. ASSUME NEW p \in Procs, Launch(p)  PROVE IInv'
  BY <1>1 DEF Launch
<1>2. ASSUME NEW p \in Procs, AcquireLock(p)  PROVE IInv'
  <2>. DEFINE lock == RuntimeLockDir(user[p], env[p])
  <2>1. lock # None
    BY <1>2, LockDirIsDir DEF AcquireLock
  <2>2. RunExists /\ user[p] = Root => lock = RunDir
    BY DEF RuntimeLockDir
  <2>3. /\ pc[p] = "start" /\ \A q \in Procs : held[q] # lock
        /\ held' = [held EXCEPT ![p] = lock] /\ pc' = [pc EXCEPT ![p] = "work"]
        /\ env' = [env EXCEPT ![p] = NoEnv]
        /\ user' = user
    BY <1>2 DEF AcquireLock, Begin
  <2>. HIDE DEF lock
  <2>. QED BY <2>1, <2>2, <2>3
<1>3. ASSUME NEW p \in Procs, AcquireFails(p)  PROVE IInv'
  BY <1>3 DEF AcquireFails
<1>4. ASSUME NEW p \in Procs, Exit(p) \/ Die(p)  PROVE IInv'
  BY <1>4 DEF Exit, Die, End
<1>5. ASSUME NEW p \in Procs, SaveEvent(p)  PROVE IInv'
  BY <1>5 DEF SaveEvent, procVars
<1>6. ASSUME NEW p \in Procs,
             GetEvents(p) \/ SendEvents(p) \/ DeleteEvents(p) \/ SendFails(p) \/ DeleteFails(p)
      PROVE  IInv'
  BY <1>6 DEF GetEvents, SendEvents, DeleteEvents, SendFails, DeleteFails, GiveUp
<1>7. ASSUME NEW u \in Users, Login(u) \/ Logout(u)  PROVE IInv'
  BY <1>7 DEF Login, Logout, procVars
<1>8. CASE UNCHANGED vars
  BY <1>8 DEF vars, procVars
<1>. QED BY <1>1, <1>2, <1>3, <1>4, <1>5, <1>6, <1>7, <1>8 DEF Next, Step

LEMMA Invariant == Spec => []IInv
<1>1. Init => IInv
  BY InitInv, LockAssumption
<1>2. IInv /\ [Next]_vars => IInv'
  BY StepInv, LockAssumption
<1>. QED BY <1>1, <1>2, PTL DEF Spec
-----------------------------------------------------------------------------
\* Whoever logs in or out, a lock file is locked by one process at most, and every
\* process that works has locked one.
THEOREM LockHasOneHolder == Spec => []OneHolder
<1>1. IInv => OneHolder
  BY DEF IInv, HeldInv, OneHolder
<1>. QED BY <1>1, Invariant, PTL

\* Where there is a directory /run, no two processes of root work at a time, whatever
\* their environment and however many are started, refused and killed.
THEOREM RootExcludes == ASSUME Owner = Root, RunExists PROVE Spec => []MutualExclusion
<1>1. IInv => MutualExclusion
  BY DEF IInv, HeldInv, MutualExclusion
<1>. QED BY <1>1, Invariant, PTL
-----------------------------------------------------------------------------
(* The table of events.                                                    *)

TableTypes ==
  /\ read \in [Procs -> SUBSET Row]
  /\ rows \subseteq Row
  /\ saved \in 0 .. MaxEvents
  /\ seen \subseteq EventNo

\* IDs can be compared: if there are rows, one of them has the largest.
RowsInv == rows = {} \/ \E m \in rows : \A r \in rows : r.id <= m.id

\* What the sender of a process is about to send and to delete is in the table, the
\* rows that were added meanwhile have larger IDs, and it deletes what it has sent.
ReadInv ==
  \A p \in Procs :
    /\ pc[p] \in {"post", "delete"} =>
         /\ user[p] = Owner /\ read[p] \subseteq rows
         /\ \A r \in rows \ read[p], b \in read[p] : r.id > b.id
    /\ pc[p] = "delete" => \A b \in read[p] : b.event \in seen

TableInv == TableTypes /\ RowsInv /\ ReadInv /\ NoEventIsLost

LEMMA Excludes == ASSUME Owner = Root, RunExists, IInv PROVE MutualExclusion
BY DEF IInv, HeldInv, MutualExclusion

LEMMA NewIDIsLargest ==
  ASSUME rows \subseteq Row, RowsInv
  PROVE  NewID \in Nat /\ \A r \in rows : r.id < NewID
<1>1. CASE rows = {}
  BY <1>1 DEF NewID
<1>2. CASE rows # {}
  <2>. DEFINE ids == {r.id : r \in rows}
  <2>1. PICK m \in rows : \A r \in rows : r.id <= m.id
    BY <1>2 DEF RowsInv
  <2>2. ids \subseteq Nat /\ \A r \in rows : r.id \in ids
    BY DEF Row
  <2>3. Max(ids) \in ids /\ \A j \in ids : Max(ids) >= j
    BY <2>1, <2>2 DEF Max
  <2>4. NewID = 1 + Max(ids)
    BY <1>2 DEF NewID
  <2>5. Max(ids) \in Nat /\ \A r \in rows : r.id \in Nat /\ r.id <= Max(ids)
    BY <2>2, <2>3
  <2>. HIDE DEF ids
  <2>. QED BY <2>4, <2>5
<1>. QED BY <1>1, <1>2

\* A step of a process that leaves the table alone.
LEMMA TableUntouched ==
  ASSUME TableInv, UNCHANGED <<rows, saved, seen, user>>,
         \A p \in Procs : \/ pc'[p] = pc[p] /\ read'[p] = read[p]
                          \/ pc'[p] \notin {"post", "delete"},
         read' \in [Procs -> SUBSET Row]
  PROVE  TableInv'
BY DEF TableInv, TableTypes, RowsInv, ReadInv, NoEventIsLost

LEMMA TableStep ==
  ASSUME Owner = Root, RunExists, LockAssumption, IInv, TableInv, [Next]_vars
  PROVE  TableInv'
<1>. USE DEF TableInv, TableTypes, Running
<1>. USE Excludes DEF IInv, Types
<1>1. ASSUME NEW p \in Procs, Launch(p)  PROVE TableInv'
  BY <1>1 DEF Launch, tableVars, RowsInv, ReadInv, NoEventIsLost
<1>2. ASSUME NEW p \in Procs, AcquireLock(p) \/ AcquireFails(p)  PROVE TableInv'
  BY <1>2, TableUntouched DEF AcquireLock, Begin, AcquireFails, tableVars
<1>3. ASSUME NEW p \in Procs, Exit(p) \/ Die(p)  PROVE TableInv'
  BY <1>3, TableUntouched DEF Exit, Die, End
<1>4. ASSUME NEW p \in Procs, SaveEvent(p)  PROVE TableInv'
  <2>. DEFINE new == [id |-> NewID, event |-> saved + 1]
  <2>1. NewID \in Nat /\ \A r \in rows : r.id < NewID
    BY NewIDIsLargest
  <2>2. /\ saved' = saved + 1 /\ saved < MaxEvents /\ rows' = rows \union {new}
        /\ UNCHANGED <<pc, user, read, seen>>
    BY <1>4 DEF SaveEvent, procVars
  <2>3. saved' \in 0 .. MaxEvents /\ new \in Row
    BY <2>1, <2>2 DEF LockAssumption, Row, EventNo
  <2>4. new.id = NewID /\ new.event = saved + 1
    OBVIOUS
  <2>. HIDE DEF new
  <2>5. TableTypes'
    BY <2>2, <2>3
  <2>6. RowsInv'
    <3>1. \A r \in rows' : r.id <= new.id
      BY <2>1, <2>2, <2>4 DEF Row
    <3>. QED BY <3>1, <2>2 DEF RowsInv
  <2>7. ReadInv'
    <3>1. \A q \in Procs : \A b \in read[q] : read[q] \subseteq rows => new.id > b.id
      BY <2>1, <2>4 DEF Row
    <3>. QED BY <2>2, <3>1 DEF ReadInv
  <2>8. NoEventIsLost'
    <3>1. 1 .. saved' = (1 .. saved) \union {saved + 1}
      BY <2>2
    <3>2. saved + 1 \in {r.event : r \in rows'}
      BY <2>2, <2>4
    <3>. QED BY <2>2, <3>1, <3>2 DEF NoEventIsLost
  <2>. QED BY <2>5, <2>6, <2>7, <2>8
<1>5. ASSUME NEW p \in Procs, GetEvents(p)  PROVE TableInv'
  <2>1. TableTypes' /\ RowsInv' /\ NoEventIsLost'
    BY <1>5 DEF GetEvents, tableVars, RowsInv, NoEventIsLost
  <2>2. ReadInv'
    BY <1>5 DEF GetEvents, tableVars, ReadInv
  <2>. QED BY <2>1, <2>2
<1>6. ASSUME NEW p \in Procs, SendEvents(p)  PROVE TableInv'
  <2>1. /\ pc[p] = "post" /\ pc' = [pc EXCEPT ![p] = "delete"]
        /\ seen' = seen \union {r.event : r \in read[p]}
        /\ UNCHANGED <<user, read, rows, saved>>
    BY <1>6 DEF SendEvents, Given, Batched
  <2>2. \A r \in read[p] : r.event \in EventNo
    BY DEF Row
  <2>3. TableTypes' /\ RowsInv'
    BY <2>1, <2>2 DEF RowsInv
  <2>4. ReadInv'
    BY <2>1 DEF ReadInv
  <2>5. NoEventIsLost'
    BY <2>1 DEF NoEventIsLost
  <2>. QED BY <2>3, <2>4, <2>5
<1>7. ASSUME NEW p \in Procs, DeleteEvents(p)  PROVE TableInv'
  <2>1. /\ pc[p] = "delete" /\ pc' = [pc EXCEPT ![p] = "work"]
        /\ rows' = {r \in rows : \A b \in read[p] : r.id > b.id}
        /\ read' = [read EXCEPT ![p] = {}]
        /\ UNCHANGED <<user, saved, seen>>
    BY <1>7 DEF DeleteEvents
  <2>2. /\ user[p] = Owner /\ read[p] \subseteq rows
        /\ \A r \in rows \ read[p], b \in read[p] : r.id > b.id
        /\ \A b \in read[p] : b.event \in seen
    BY <2>1 DEF ReadInv
  <2>3. rows' = rows \ read[p]
    BY <2>1, <2>2 DEF Row
  <2>4. RowsInv'
    <3>1. CASE rows' = {}
      BY <3>1 DEF RowsInv
    <3>2. CASE rows' # {}
      <4>1. PICK m \in rows : \A r \in rows : r.id <= m.id
        BY <3>2, <2>3 DEF RowsInv
      <4>2. PICK s \in rows : s \notin read[p]
        BY <3>2, <2>3
      <4>3. m \notin read[p]
        BY <4>1, <4>2, <2>2 DEF Row
      <4>. QED BY <4>1, <4>3, <2>3 DEF RowsInv
    <3>. QED BY <3>1, <3>2
  <2>5. ReadInv'
    <3>1. \A q \in Procs : pc[q] \in {"post", "delete"} => user[q] = Owner
      BY DEF ReadInv
    <3>2. \A q \in Procs : pc[q] \in {"post", "delete"} => q = p
      BY <3>1, <2>1, <2>2 DEF MutualExclusion
    <3>3. \A q \in Procs : pc'[q] \notin {"post", "delete"}
      BY <3>2, <2>1
    <3>. QED BY <3>3 DEF ReadInv
  <2>6. NoEventIsLost'
    <3>1. \A r \in rows : r \in rows' \/ r.event \in seen
      BY <2>2, <2>3
    <3>. QED BY <3>1, <2>1 DEF NoEventIsLost
  <2>7. TableTypes'
    BY <2>1, <2>3
  <2>. QED BY <2>4, <2>5, <2>6, <2>7
<1>8. ASSUME NEW u \in Users, Login(u) \/ Logout(u)  PROVE TableInv'
  BY <1>8, TableUntouched DEF Login, Logout, procVars, tableVars
<1>9. CASE UNCHANGED vars
  BY <1>9, TableUntouched DEF vars, procVars, tableVars
<1>10. ASSUME NEW p \in Procs, SendFails(p)  PROVE TableInv'
  <2>1. /\ pc' = [pc EXCEPT ![p] = "work"] /\ read' = [read EXCEPT ![p] = {}]
        /\ seen' \in {seen, seen \union Batched(p)}
        /\ UNCHANGED <<user, rows, saved>>
    BY <1>10 DEF SendFails, GiveUp, Given
  <2>2. Batched(p) \subseteq EventNo
    BY DEF Row, Batched
  <2>. QED BY <2>1, <2>2 DEF RowsInv, ReadInv, NoEventIsLost
<1>11. ASSUME NEW p \in Procs, DeleteFails(p)  PROVE TableInv'
  BY <1>11, TableUntouched DEF DeleteFails, GiveUp
<1>. QED BY <1>1, <1>2, <1>3, <1>4, <1>5, <1>6, <1>7, <1>8, <1>9, <1>10, <1>11
     DEF Next, Step

LEMMA TableInvariant == ASSUME Owner = Root, RunExists PROVE Spec => []TableInv
<1>1. Init => TableInv
  <2>1. 0 \in 0 .. MaxEvents /\ 1 .. 0 = {}
    BY LockAssumption DEF LockAssumption
  <2>. QED BY <2>1 DEF Init, TableInv, TableTypes, RowsInv, ReadInv, NoEventIsLost
<1>2. IInv /\ TableInv /\ [Next]_vars => TableInv'
  BY TableStep, LockAssumption
<1>. QED BY <1>1, <1>2, Invariant, PTL DEF Spec

\* No event that root's processes saved is lost, however many of them are started,
\* refused and killed, whatever requests are lost and deletions fail, and although the
\* IDs of deleted rows are used again.
THEOREM RootLosesNoEvent ==
  ASSUME Owner = Root, RunExists PROVE Spec => []NoEventIsLost
<1>1. TableInv => NoEventIsLost
  BY DEF TableInv
<1>. QED BY <1>1, TableInvariant, PTL
-----------------------------------------------------------------------------
(* Types, for any owner.                                                   *)

\* The directory of a session that exists is that of one of the logins.
LEMMA LockDirIsLock ==
  ASSUME session \in [Users -> 0 .. MaxLogins], NEW u \in Users, NEW e \in Env
  PROVE  RuntimeLockDir(u, e) \in Locks
<1>1. \A v \in Users : session[v] # 0 => SessionDir(v) \in Users \X (1 .. MaxLogins)
  BY LockAssumption DEF LockAssumption, SessionDir
<1>2. \A d : Exists(d) => Dir(d) \in Locks
  BY <1>1 DEF Exists, Dir, Locks
<1>3. e.tmp \in Dirs
  BY DEF Env
<1>4. Dir(e.tmp) \in Locks /\ (Exists(u) => SessionDir(u) \in Locks)
  <2>1. u \notin Dirs
    BY LockAssumption DEF LockAssumption
  <2>. QED BY <1>1, <1>3, <2>1 DEF Dir, Locks, Exists
<1>. QED BY <1>2, <1>4 DEF RuntimeLockDir, Locks

LEMMA BatchedAreEvents == ASSUME TypeOK, NEW p \in Procs PROVE Batched(p) \subseteq EventNo
BY DEF TypeOK, Batched, Row

LEMMA StepTypes ==
  ASSUME LockAssumption, TypeOK, StartInv, RowsInv, [Next]_vars
  PROVE  TypeOK' /\ RowsInv'
<1>. USE DEF LockAssumption
<1>1. CASE \E p \in Procs : Launch(p)
  BY <1>1 DEF Launch, dirVars, tableVars, TypeOK, RowsInv
<1>2. ASSUME NEW p \in Procs, AcquireLock(p) \/ AcquireFails(p)
      PROVE  TypeOK' /\ RowsInv'
  <2>. DEFINE lock == RuntimeLockDir(user[p], env[p])
  <2>1. lock \in Locks
    BY <1>2, LockDirIsLock DEF TypeOK, StartInv, AcquireLock, AcquireFails
  <2>2. maker' \in [Dirs -> Users \union {"none"}]
    <3>1. maker' \in {maker, [maker EXCEPT ![lock[1]] = user[p]]}
      BY <1>2 DEF AcquireLock, AcquireFails, Made
    <3>. HIDE DEF lock
    <3>. QED BY <3>1 DEF TypeOK
  <2>3. held' = [held EXCEPT ![p] = lock] \/ held' = held
    BY <1>2 DEF AcquireLock, Begin, AcquireFails
  <2>4. held' \in [Procs -> Locks \union {None}]
    <3>. HIDE DEF lock
    <3>. QED BY <2>1, <2>3 DEF TypeOK
  <2>5. pc' \in [Procs -> {"off", "start"} \union Running]
    BY <1>2 DEF AcquireLock, Begin, AcquireFails, TypeOK, Running
  <2>6. env' \in [Procs -> Env \union {NoEnv}]
    BY <1>2 DEF AcquireLock, Begin, AcquireFails, TypeOK
  <2>7. UNCHANGED <<session, logins, user, read, tableVars, faults>>
    BY <1>2 DEF AcquireLock, Begin, AcquireFails
  <2>. QED BY <2>2, <2>4, <2>5, <2>6, <2>7 DEF TypeOK, RowsInv, tableVars
<1>3. ASSUME NEW p \in Procs, Exit(p) \/ Die(p)
      PROVE  TypeOK' /\ RowsInv'
  <2>1. faults' \in 0 .. MaxFaults /\ left' \subseteq EventNo
    BY <1>3, BatchedAreEvents DEF Exit, Die, Fault, TypeOK
  <2>2. End(p)
    BY <1>3 DEF Exit, Die
  <2>. QED BY <2>1, <2>2 DEF End, dirVars, TypeOK, RowsInv
<1>4. ASSUME NEW p \in Procs, SaveEvent(p)
      PROVE  TypeOK' /\ RowsInv'
  <2>. DEFINE new == [id |-> NewID, event |-> saved + 1]
  <2>1. NewID \in Nat /\ \A r \in rows : r.id < NewID
    BY NewIDIsLargest DEF TypeOK
  <2>2. /\ saved' = saved + 1 /\ saved < MaxEvents /\ rows' = rows \union {new}
        /\ UNCHANGED <<dirVars, procVars, seen, again, left, faults>>
    BY <1>4 DEF SaveEvent
  <2>3. saved' \in 0 .. MaxEvents /\ new \in Row /\ new.id = NewID
    BY <2>1, <2>2 DEF Row, EventNo, TypeOK
  <2>. HIDE DEF new
  <2>4. \A r \in rows' : r.id <= new.id
    BY <2>1, <2>2, <2>3 DEF Row, TypeOK
  <2>5. rows' \subseteq Row
    BY <2>2, <2>3 DEF TypeOK
  <2>. QED BY <2>2, <2>3, <2>4, <2>5 DEF TypeOK, RowsInv, dirVars, procVars
<1>5. ASSUME NEW p \in Procs, GetEvents(p)
      PROVE  TypeOK' /\ RowsInv'
  BY <1>5 DEF GetEvents, dirVars, tableVars, TypeOK, RowsInv, Running
<1>6. ASSUME NEW p \in Procs, SendEvents(p)
      PROVE  TypeOK' /\ RowsInv'
  <2>2. seen' \subseteq EventNo /\ again' \subseteq EventNo
    BY <1>6, BatchedAreEvents DEF SendEvents, Given, TypeOK
  <2>. QED BY <1>6, <2>2 DEF SendEvents, dirVars, TypeOK, RowsInv, Running
<1>7. ASSUME NEW p \in Procs, DeleteEvents(p)
      PROVE  TypeOK' /\ RowsInv'
  <2>1. rows' = {r \in rows : \A b \in read[p] : r.id > b.id}
    BY <1>7 DEF DeleteEvents
  <2>2. RowsInv'
    <3>1. CASE rows' # {}
      <4>1. PICK m \in rows : \A r \in rows : r.id <= m.id
        BY <3>1, <2>1 DEF RowsInv
      <4>2. PICK s \in rows : \A b \in read[p] : s.id > b.id
        BY <3>1, <2>1
      <4>3. \A b \in read[p] : m.id > b.id
        BY <4>1, <4>2 DEF Row, TypeOK
      <4>. QED BY <4>1, <4>3, <2>1 DEF RowsInv
    <3>. QED BY <3>1 DEF RowsInv
  <2>. QED BY <1>7, <2>1, <2>2 DEF DeleteEvents, dirVars, TypeOK, Running
<1>8. ASSUME NEW u \in Users, Login(u) \/ Logout(u)
      PROVE  TypeOK' /\ RowsInv'
  <2>1. /\ session' \in [Users -> 0 .. MaxLogins]
        /\ logins' \in [Users -> 0 .. MaxLogins]
    BY <1>8 DEF Login, Logout, TypeOK
  <2>. QED BY <1>8, <2>1 DEF Login, Logout, procVars, tableVars, TypeOK, RowsInv
<1>9. CASE UNCHANGED vars
  BY <1>9 DEF vars, dirVars, procVars, tableVars, TypeOK, RowsInv
<1>10. ASSUME NEW p \in Procs, SendFails(p) \/ DeleteFails(p)
       PROVE  TypeOK' /\ RowsInv'
  <2>1. /\ seen' \subseteq EventNo /\ again' \subseteq EventNo /\ left' \subseteq EventNo
    BY <1>10, BatchedAreEvents DEF SendFails, DeleteFails, Given, TypeOK
  <2>2. GiveUp(p)
    BY <1>10 DEF SendFails, DeleteFails
  <2>. QED BY <2>1, <2>2 DEF GiveUp, Fault, dirVars, TypeOK, RowsInv, Running
<1>. QED BY <1>1, <1>2, <1>3, <1>4, <1>5, <1>6, <1>7, <1>8, <1>9, <1>10
     DEF Next, Step

\* Every lock that a process tries to take is a file of one of the directories, and
\* every row gets an ID that can be compared with the others, whoever's table it is.
THEOREM LockTypeCorrect == Spec => []TypeOK
<1>1. Init => TypeOK /\ RowsInv
  BY LockAssumption DEF LockAssumption, Init, TypeOK, RowsInv, Running
<1>2. TypeOK /\ RowsInv /\ IInv /\ [Next]_vars => (TypeOK /\ RowsInv)'
  BY StepTypes, LockAssumption DEF IInv
<1>. QED BY <1>1, <1>2, Invariant, PTL DEF Spec
-----------------------------------------------------------------------------
(* The table of events is a queue.                                         *)

\* Rows have their IDs in the order in which their events were saved, and what the
\* gateway has was saved.
OrderInv ==
  /\ \A r, s \in rows : (r.id < s.id <=> r.event < s.event)
  /\ \A r \in rows : r.event <= saved
  /\ seen \subseteq 1 .. saved

\* A row whose event the gateway has was left by a failure or by the end of a process, or
\* is one that a process is about to delete.
OnceInv ==
  /\ again \subseteq left
  /\ \A r \in rows : r.event \in seen =>
       r.event \in left \/ \E p \in Procs : pc[p] = "delete" /\ r \in read[p]

QueueInv == OrderInv /\ OnceInv

Pending == {r.event : r \in rows}

QueueNext == [Queue!Next]_<<Pending, seen, again>>

\* Rows are as different as their events.
LEMMA RowOfEvent ==
  ASSUME TableTypes, OrderInv, NEW r \in rows, NEW s \in rows, r.event = s.event
  PROVE  r = s
<1>1. r \in Row /\ s \in Row
  BY DEF TableTypes
<1>2. r.event \in Nat
  BY <1>1 DEF Row, EventNo
<1>3. ~(r.id < s.id) /\ ~(s.id < r.id)
  BY <1>2 DEF OrderInv
<1>4. r.id = s.id
  BY <1>1, <1>3 DEF Row
<1>. QED BY <1>1, <1>4 DEF Row

\* What the sender of a process has read are the oldest events of the queue.
LEMMA ReadIsOldest ==
  ASSUME TableInv, OrderInv, NEW p \in Procs, pc[p] \in {"post", "delete"}
  PROVE  /\ {r.event : r \in read[p]} \subseteq Pending
         /\ Queue!Oldest({r.event : r \in read[p]})
<1>1. read[p] \subseteq rows /\ \A r \in rows \ read[p], b \in read[p] : r.id > b.id
  BY DEF TableInv, ReadInv
<1>2. \A b \in read[p], r \in rows : r.event < b.event => r \in read[p]
  BY <1>1 DEF OrderInv, TableInv, TableTypes, Row
<1>. QED BY <1>1, <1>2 DEF Pending, Queue!Oldest

LEMMA QueueStep ==
  ASSUME Owner = Root, RunExists, LockAssumption, TypeOK, IInv, TableInv, QueueInv, [Next]_vars
  PROVE  QueueInv' /\ QueueNext
<1>. USE DEF LockAssumption
<1>1. TableTypes /\ MutualExclusion
  BY Excludes DEF TableInv
\* Steps that leave the table alone.
<1>2. ASSUME UNCHANGED <<rows, saved, seen, again>>, left \subseteq left',
             \A p \in Procs : pc[p] = "delete" =>
               (pc'[p] = "delete" /\ read'[p] = read[p]) \/ Batched(p) \subseteq left'
      PROVE  QueueInv' /\ QueueNext
  <2>1. \A p \in Procs : \A r \in read[p] : r.event \in Batched(p)
    BY DEF Batched
  <2>. QED BY <1>2, <2>1 DEF QueueInv, OrderInv, OnceInv, QueueNext, Pending
<1>3. ASSUME NEW p \in Procs, Launch(p) \/ AcquireLock(p) \/ AcquireFails(p)
      PROVE  QueueInv' /\ QueueNext
  BY <1>2, <1>3 DEF Launch, AcquireLock, Begin, AcquireFails, IInv, Types, tableVars
<1>4. ASSUME NEW p \in Procs, Exit(p)  PROVE QueueInv' /\ QueueNext
  BY <1>2, <1>4 DEF Exit, End, IInv, Types, TableTypes
<1>5. ASSUME NEW p \in Procs, Die(p)  PROVE QueueInv' /\ QueueNext
  BY <1>2, <1>5 DEF Die, End, TypeOK
<1>6. ASSUME NEW p \in Procs, SaveEvent(p)  PROVE QueueInv' /\ QueueNext
  <2>. DEFINE new == [id |-> NewID, event |-> saved + 1]
  <2>1. NewID \in Nat /\ \A r \in rows : r.id < NewID
    BY NewIDIsLargest, <1>1 DEF TableTypes, TableInv
  <2>2. /\ saved' = saved + 1 /\ saved < MaxEvents /\ rows' = rows \union {new}
        /\ UNCHANGED <<pc, read, seen, again, left>>
    BY <1>6 DEF SaveEvent, procVars
  <2>3. saved \in Nat /\ saved + 1 \in EventNo
    BY <1>1, <2>2 DEF TableTypes, EventNo
  <2>4. new.id = NewID /\ new.event = saved + 1
    OBVIOUS
  <2>. HIDE DEF new
  <2>5. \A r \in rows : r.id \in Nat /\ r.event \in Nat /\ r.event <= saved
    BY <1>1 DEF TableTypes, Row, EventNo, QueueInv, OrderInv
  <2>6. OrderInv'
    BY <2>1, <2>2, <2>3, <2>4, <2>5 DEF QueueInv, OrderInv
  <2>7. saved + 1 \notin seen
    BY <2>3 DEF QueueInv, OrderInv
  <2>8. OnceInv'
    BY <2>2, <2>4, <2>7 DEF QueueInv, OnceInv
  <2>9. Pending' = Pending \union {saved + 1}
    BY <2>2, <2>4 DEF Pending
  <2>10. \A o \in Pending \union seen : o < saved + 1
    <3>1. \A o \in seen : o < saved + 1
      BY <2>3 DEF QueueInv, OrderInv
    <3>2. \A o \in Pending : o < saved + 1
      BY <2>3, <2>5 DEF Pending
    <3>. QED BY <3>1, <3>2
  <2>11. Queue!Save
    BY <2>2, <2>3, <2>9, <2>10 DEF Queue!Save, Pending
  <2>. QED BY <2>6, <2>8, <2>11 DEF QueueInv, QueueNext, Queue!Next
<1>7. ASSUME NEW p \in Procs, GetEvents(p)  PROVE QueueInv' /\ QueueNext
  BY <1>2, <1>7 DEF GetEvents, IInv, Types, TableTypes, tableVars
\* A batch that the gateway is given, whatever becomes of its rows.
<1>8. ASSUME NEW p \in Procs, pc[p] = "post", Given(Batched(p)), left \subseteq left',
             UNCHANGED <<rows, saved>>,
             \/ pc'[p] = "delete" /\ read'[p] = read[p]
             \/ Batched(p) \subseteq left'
      PROVE  QueueInv' /\ QueueNext
  <2>. DEFINE given == Batched(p)
  <2>1. /\ seen' = seen \union given /\ again' = again \union (seen \intersect given)
        /\ \A r \in read[p] : r.event \in given
        /\ \A e \in given : \E r \in read[p] : e = r.event
    BY <1>8 DEF Given, Batched
  <2>2. /\ user[p] = Owner /\ read[p] \subseteq rows
        /\ \A q \in Procs : pc[q] = "delete" => user[q] = Owner
    BY <1>8 DEF TableInv, ReadInv
  <2>3. given \subseteq Pending /\ Queue!Oldest(given)
    BY <1>8, ReadIsOldest DEF QueueInv, Batched
  <2>4. given \subseteq 1 .. saved
    BY <2>2, <1>1 DEF QueueInv, OrderInv, TableTypes, Row, EventNo, Batched
  <2>. HIDE DEF given
  <2>5. OrderInv'
    BY <1>8, <2>1, <2>4 DEF QueueInv, OrderInv
  <2>6. \A q \in Procs : pc[q] # "delete"
    BY <1>8, <2>2, <1>1 DEF MutualExclusion, Running
  <2>7. OnceInv'
    <3>1. seen \intersect given \subseteq left
      BY <2>1, <2>2, <2>6 DEF QueueInv, OnceInv
    <3>2. \A r \in rows : r.event \in given => r \in read[p]
      BY <2>1, <2>2, <1>1, RowOfEvent DEF QueueInv
    <3>3. \A r \in rows : r.event \in seen => r.event \in left
      BY <2>6 DEF QueueInv, OnceInv
    <3>4. again' \subseteq left'
      BY <1>8, <2>1, <3>1 DEF QueueInv, OnceInv
    <3>5. \A r \in rows : r.event \in given =>
            r.event \in left' \/ (pc'[p] = "delete" /\ r \in read'[p])
      BY <1>8, <3>2 DEF given
    <3>. QED BY <1>8, <2>1, <3>3, <3>4, <3>5 DEF OnceInv
  <2>8. Queue!Post
    <3>1. Pending' = Pending
      BY <1>8 DEF Pending
    <3>. QED BY <2>1, <2>3, <3>1 DEF Queue!Post, Queue!Oldest, Pending
  <2>. QED BY <2>5, <2>7, <2>8 DEF QueueInv, QueueNext, Queue!Next
<1>9. ASSUME NEW p \in Procs, DeleteEvents(p)  PROVE QueueInv' /\ QueueNext
  <2>. DEFINE given == {r.event : r \in read[p]}
  <2>1. /\ pc[p] = "delete" /\ pc' = [pc EXCEPT ![p] = "work"]
        /\ rows' = {r \in rows : \A b \in read[p] : r.id > b.id}
        /\ UNCHANGED <<saved, seen, again, left>>
    BY <1>9 DEF DeleteEvents
  <2>2. /\ user[p] = Owner /\ read[p] \subseteq rows
        /\ \A r \in rows \ read[p], b \in read[p] : r.id > b.id
        /\ \A b \in read[p] : b.event \in seen
        /\ \A q \in Procs : pc[q] = "delete" => user[q] = Owner
    BY <2>1 DEF TableInv, ReadInv
  <2>3. rows' = rows \ read[p]
    BY <2>1, <2>2, <1>1 DEF TableTypes, Row
  <2>4. OrderInv'
    BY <2>1, <2>3 DEF QueueInv, OrderInv
  <2>5. OnceInv'
    <3>1. \A q \in Procs : pc[q] = "delete" => q = p
      BY <2>1, <2>2, <1>1 DEF MutualExclusion, Running
    <3>2. \A r \in rows' : r.event \in seen => r.event \in left
      BY <3>1, <2>3 DEF QueueInv, OnceInv
    <3>. QED BY <3>2, <2>1 DEF QueueInv, OnceInv
  <2>6. Pending' = Pending \ given
    <3>1. \A r \in rows : r.event \in given => r \in read[p]
      BY <2>2, <1>1, RowOfEvent DEF QueueInv
    <3>. QED BY <2>3, <3>1 DEF Pending
  <2>7. Queue!Remove
    <3>1. given \subseteq Pending \intersect seen /\ Queue!Oldest(given)
      BY <2>1, <2>2, ReadIsOldest DEF QueueInv
    <3>. HIDE DEF given
    <3>. QED BY <2>1, <2>6, <3>1 DEF Queue!Remove, Queue!Oldest, Pending
  <2>. QED BY <2>4, <2>5, <2>7 DEF QueueInv, QueueNext, Queue!Next
<1>10. ASSUME NEW u \in Users, Login(u) \/ Logout(u)  PROVE QueueInv' /\ QueueNext
  BY <1>2, <1>10 DEF Login, Logout, procVars, tableVars
<1>11. CASE UNCHANGED vars
  BY <1>2, <1>11 DEF vars, procVars, tableVars
<1>12. ASSUME NEW p \in Procs, SendEvents(p)  PROVE QueueInv' /\ QueueNext
  BY <1>8, <1>12 DEF SendEvents, IInv, Types
<1>13. ASSUME NEW p \in Procs, SendFails(p)  PROVE QueueInv' /\ QueueNext
  <2>1. pc[p] = "post" /\ UNCHANGED <<rows, saved>> /\ left \subseteq left'
    BY <1>13 DEF SendFails, GiveUp
  <2>2. CASE UNCHANGED <<seen, again, left>>
    BY <1>2, <1>13, <2>2, <2>1 DEF SendFails, GiveUp, IInv, Types, TableTypes
  <2>3. CASE Given(Batched(p)) /\ left' = left \union Batched(p)
    BY <1>8, <2>1, <2>3
  <2>. QED BY <1>13, <2>2, <2>3 DEF SendFails
<1>14. ASSUME NEW p \in Procs, DeleteFails(p)  PROVE QueueInv' /\ QueueNext
  BY <1>2, <1>14 DEF DeleteFails, GiveUp, IInv, Types
<1>. QED BY <1>3, <1>4, <1>5, <1>6, <1>7, <1>9, <1>10, <1>11, <1>12, <1>13, <1>14
     DEF Next, Step

LEMMA QueueInvariant ==
  ASSUME Owner = Root, RunExists PROVE Spec => [](TypeOK /\ IInv /\ TableInv /\ QueueInv)
<1>1. Init => QueueInv
  BY DEF Init, QueueInv, OrderInv, OnceInv
<1>2. TypeOK /\ IInv /\ TableInv /\ QueueInv /\ [Next]_vars => QueueInv'
  BY QueueStep, LockAssumption
<1>. QED BY <1>1, <1>2, LockTypeCorrect, Invariant, TableInvariant, PTL DEF Spec

\* Root's processes give an event again only if a lost answer, a failing deletion or the
\* sudden end of one of them left its row in the table.
THEOREM RootGivesOnce ==
  ASSUME Owner = Root, RunExists PROVE Spec => []OnlyFaultsRepeat
<1>1. QueueInv => OnlyFaultsRepeat
  BY DEF QueueInv, OnceInv, OnlyFaultsRepeat
<1>. QED BY <1>1, QueueInvariant, PTL

\* Root's processes implement the abstract queue, however many of them are started,
\* refused and killed, whatever requests are lost and deletions fail, and although the IDs of deleted rows are used again.
THEOREM RootImplementsQueue ==
  ASSUME Owner = Root, RunExists PROVE Spec => QueueSpec
<1>1. Init => Queue!Init
  BY DEF Init, Queue!Init
<1>2. TypeOK /\ IInv /\ TableInv /\ QueueInv /\ [Next]_vars
        => [Queue!Next]_<<{r.event : r \in rows}, seen, again>>
  BY QueueStep, LockAssumption DEF QueueNext, Pending
<1>. QED BY <1>1, <1>2, QueueInvariant, PTL DEF Spec, QueueSpec, Queue!Spec, Queue!vars
=============================================================================
