-------------------------- MODULE EventSenderProofs --------------------------
(***************************************************************************)
(* Proofs about the event sender, for every size of a batch and any number *)
(* of events, failures and crashes.                                        *)
(***************************************************************************)
EXTENDS EventSender, FiniteSetTheorems, TLAPS

\* The gateway is given an event only together with, or after, all those that
\* were saved before it.
GivenInOrder == \A e \in seen : 1 .. e \subseteq seen

\* The rows are numbered in the order of their events, and one is the last.
RowsInv ==
  /\ IsFiniteSet(rows)
  /\ rows # {} => \E m \in rows : \A r \in rows : r.id <= m.id
  /\ \A r, o \in rows : r.id < o.id <=> r.event < o.event
  /\ \A r \in rows : r.event <= saved
  /\ seen \subseteq 1 .. saved

\* What is read but not deleted is the first rows of the table, whatever was
\* saved since, and it is deleted only when the gateway was given it.
BatchInv ==
  /\ flusher \in {"post", "delete"} =>
       /\ batch \subseteq rows
       /\ \A r \in rows, b \in batch : r.id <= b.id => r \in batch
  /\ flusher = "delete" => \A b \in batch : b.event \in seen
  /\ producer = "out" => flusher = "off"

\* Without a fault, a row whose event the gateway has is about to be deleted.
OnceInv ==
  faults = 0 =>
    /\ again = {}
    /\ \A r \in rows : r.event \in seen => flusher = "delete" /\ r \in batch

IInv == /\ TypeOK /\ RowsInv /\ BatchInv /\ OnceInv
        /\ NoEventIsLost /\ GivenInOrder

\* A step that touches neither the table nor what the gateway was given.
Quiet ==
  /\ UNCHANGED <<tableVars, gateVars>>
  /\ faults' = faults \/ faults' = faults + 1
  /\ \/ flusher' = flusher /\ batch' = batch
     \/ flusher' \in {"off", "select", "get"} /\ (flusher # "delete" \/ faults' > 0)
  /\ producer' = "out" => flusher' = "off"
-----------------------------------------------------------------------------
(* The operators.                                                          *)

LEMMA NewIDIsLargest ==
  ASSUME TypeOK, RowsInv
  PROVE  NewID \in Nat /\ \A r \in rows : r.id < NewID
<1>1. CASE rows = {}
  BY <1>1 DEF NewID
<1>2. CASE rows # {}
  <2>. DEFINE ids == {r.id : r \in rows}
  <2>1. PICK m \in rows : \A r \in rows : r.id <= m.id
    BY <1>2 DEF RowsInv
  <2>2. ids \subseteq Nat
    BY DEF TypeOK, Row
  <2>3. \E i \in ids : \A j \in ids : i >= j
    BY <2>1, <2>2
  <2>4. Max(ids) \in ids /\ \A j \in ids : Max(ids) >= j
    BY <2>3 DEF Max
  <2>5. \A r \in rows : r.id \in ids
    OBVIOUS
  <2>6. NewID = 1 + Max(ids)
    BY <1>2 DEF NewID
  <2>7. Max(ids) \in Nat /\ \A r \in rows : r.id \in Nat /\ r.id <= Max(ids)
    BY <2>2, <2>4, <2>5
  <2>. HIDE DEF ids
  <2>. QED BY <2>6, <2>7
<1>. QED BY <1>1, <1>2

LEMMA OldestIsClosed ==
  ASSUME SenderAssumption, TypeOK, RowsInv
  PROVE  /\ Oldest \subseteq rows
         /\ \A r \in rows, b \in Oldest : r.id <= b.id => r \in Oldest
<1>. DEFINE Before(r) == {o \in rows : o.id < r.id}
<1>1. SUFFICES ASSUME NEW r \in rows, NEW b \in Oldest, r.id <= b.id
               PROVE  r \in Oldest
  BY DEF Oldest
<1>2. b \in rows /\ Cardinality(Before(b)) < Batch
  BY DEF Oldest
<1>3. Before(r) \subseteq Before(b)
  BY <1>1, <1>2 DEF TypeOK, Row
<1>4. IsFiniteSet(Before(b)) /\ IsFiniteSet(Before(r))
  BY FS_Subset DEF RowsInv
<1>5. /\ Cardinality(Before(b)) \in Nat /\ Cardinality(Before(r)) \in Nat
      /\ Cardinality(Before(r)) <= Cardinality(Before(b))
  BY <1>3, <1>4, FS_Subset, FS_CardinalityType
<1>6. Cardinality(Before(r)) < Batch
  BY <1>2, <1>5 DEF SenderAssumption
<1>. QED BY <1>6 DEF Oldest

\* The rows deleted after an answer are those of the batch.
LEMMA SentIsBatch ==
  ASSUME TypeOK, BatchInv, flusher = "delete"
  PROVE  Sent = batch
<1>1. Sent \subseteq batch
  BY DEF Sent, BatchInv
<1>2. batch \subseteq Sent
  BY DEF Sent, BatchInv, TypeOK, Row
<1>. QED BY <1>1, <1>2
-----------------------------------------------------------------------------
LEMMA QuietStep ==
  ASSUME IInv, TypeOK', Quiet
  PROVE  IInv'
<1>. USE DEF Quiet, tableVars, gateVars
<1>1. RowsInv'
  BY DEF IInv, RowsInv
<1>2. BatchInv'
  BY DEF IInv, BatchInv
<1>3. OnceInv'
  BY DEF IInv, OnceInv, TypeOK
<1>4. NoEventIsLost' /\ GivenInOrder'
  BY DEF IInv, NoEventIsLost, GivenInOrder, Pending
<1>. QED BY <1>1, <1>2, <1>3, <1>4 DEF IInv

LEMMA SaveStep ==
  ASSUME SenderAssumption, IInv, Save
  PROVE  /\ IInv'
         /\ \A o \in Pending \union seen : o < saved + 1
         /\ saved + 1 \in EventNo
         /\ Pending' = Pending \union {saved + 1}
         /\ UNCHANGED gateVars
<1>. DEFINE new == [id |-> NewID, event |-> saved + 1]
<1>1. /\ rows' = rows \union {new} /\ saved' = saved + 1
      /\ UNCHANGED <<seen, again, flusher, batch, faults>>
      /\ saved + 1 \in EventNo /\ saved \in Nat
  BY DEF Save, IInv, TypeOK, EventNo, chanVars, gateVars, SenderAssumption
<1>2. NewID \in Nat /\ \A r \in rows : r.id < NewID
  BY NewIDIsLargest DEF IInv
<1>3. new \in Row /\ \A r \in rows : r.id < new.id /\ r.event < new.event
  BY <1>1, <1>2 DEF Row, IInv, TypeOK, RowsInv, EventNo
<1>4. TypeOK'
  BY <1>1, <1>3 DEF IInv, TypeOK, Save, chanVars, SenderAssumption, EventNo
<1>5. RowsInv'
  <2>1. IsFiniteSet(rows')
    BY <1>1, FS_AddElement DEF IInv, RowsInv
  <2>2. \E m \in rows' : \A r \in rows' : r.id <= m.id
    <3>1. new \in rows' /\ \A r \in rows' : r.id <= new.id
      BY <1>1, <1>2 DEF IInv, TypeOK, Row
    <3>. QED BY <3>1
  <2>3. \A r, o \in rows' : r.id < o.id <=> r.event < o.event
    BY <1>1, <1>3 DEF IInv, TypeOK, Row, RowsInv, EventNo
  <2>4. \A r \in rows' : r.event <= saved'
    BY <1>1, <1>3 DEF IInv, TypeOK, Row, RowsInv, EventNo
  <2>5. seen' \subseteq 1 .. saved'
    BY <1>1 DEF IInv, RowsInv
  <2>. QED BY <2>1, <2>2, <2>3, <2>4, <2>5 DEF RowsInv
<1>6. BatchInv'
  <2>1. ASSUME flusher' \in {"post", "delete"}, NEW r \in rows', NEW b \in batch',
               r.id <= b.id
        PROVE  r \in batch'
    <3>1. b \in rows
      BY <1>1, <2>1 DEF IInv, BatchInv
    <3>2. r # new
      BY <1>3, <2>1, <3>1 DEF IInv, TypeOK, Row
    <3>. QED BY <1>1, <2>1, <3>2 DEF IInv, BatchInv
  <2>. QED BY <1>1, <2>1 DEF IInv, BatchInv, Save
<1>7. OnceInv'
  <2>1. new.event \notin seen
    BY <1>1 DEF IInv, RowsInv
  <2>. QED BY <1>1, <2>1 DEF IInv, OnceInv
<1>8. Pending' = Pending \union {saved + 1}
  <2>1. Pending' = {r.event : r \in rows \union {new}}
    BY <1>1 DEF Pending
  <2>2. new.event = saved + 1
    OBVIOUS
  <2>. HIDE DEF new
  <2>. QED BY <2>1, <2>2 DEF Pending
<1>9. NoEventIsLost' /\ GivenInOrder'
  BY <1>1, <1>8 DEF IInv, NoEventIsLost, GivenInOrder
<1>10. \A o \in Pending \union seen : o < saved + 1
  <2>1. \A r \in rows : r.event < saved + 1
    BY <1>1 DEF IInv, RowsInv, TypeOK, Row, EventNo
  <2>2. \A o \in seen : o < saved + 1
    BY <1>1 DEF IInv, RowsInv
  <2>. QED BY <2>1, <2>2 DEF Pending
<1>. QED BY <1>1, <1>4, <1>5, <1>6, <1>7, <1>8, <1>9, <1>10 DEF IInv, gateVars

LEMMA GetStep ==
  ASSUME SenderAssumption, IInv, GetEvents
  PROVE  IInv' /\ UNCHANGED <<Pending, seen, again>>
<1>1. /\ UNCHANGED <<rows, saved, seen, again, producer, chanVars, faults>>
      /\ flusher = "get"
      /\ \/ flusher' = "select" /\ batch' = {}
         \/ flusher' = "post" /\ batch' = Oldest
  BY DEF GetEvents, tableVars, gateVars
<1>2. /\ Oldest \subseteq rows
      /\ \A r \in rows, b \in Oldest : r.id <= b.id => r \in Oldest
  BY OldestIsClosed DEF IInv
<1>3. TypeOK'
  BY <1>1, <1>2 DEF IInv, TypeOK, chanVars
<1>4. RowsInv' /\ NoEventIsLost' /\ GivenInOrder' /\ UNCHANGED Pending
  BY <1>1 DEF IInv, RowsInv, NoEventIsLost, GivenInOrder, Pending
<1>5. BatchInv'
  BY <1>1, <1>2 DEF IInv, BatchInv
<1>6. OnceInv'
  BY <1>1 DEF IInv, OnceInv
<1>. QED BY <1>1, <1>3, <1>4, <1>5, <1>6 DEF IInv

\* What the gateway is given is the oldest part of the queue.
LEMMA GivenStep ==
  ASSUME IInv, flusher = "post", Given(batch)
  PROVE  /\ \E es \in SUBSET Pending :
              /\ \A e \in es, p \in Pending : p < e => p \in es
              /\ seen' = seen \union es
              /\ again' = again \union (es \intersect seen)
         /\ seen' = seen \union {b.event : b \in batch}
         /\ seen' \subseteq 1 .. saved
         /\ again' \subseteq EventNo
         /\ faults = 0 => again' = {}
         /\ \A e \in seen' : 1 .. e \subseteq seen'
<1>. DEFINE es == {b.event : b \in batch}
<1>1. seen' = seen \union es /\ again' = again \union (es \intersect seen)
  BY DEF Given
<1>2. batch \subseteq rows
  BY DEF IInv, BatchInv
<1>3. es \in SUBSET Pending
  BY <1>2 DEF Pending
<1>4. \A e \in es, p \in Pending : p < e => p \in es
  <2>1. SUFFICES ASSUME NEW b \in batch, NEW r \in rows, r.event < b.event
                 PROVE  r.event \in es
    BY DEF Pending
  <2>2. r.id < b.id
    BY <1>2, <2>1 DEF IInv, RowsInv
  <2>3. r \in batch
    BY <1>2, <2>2 DEF IInv, BatchInv, TypeOK, Row
  <2>. QED BY <2>3
<1>5. es \subseteq 1 .. saved
  BY <1>2 DEF IInv, RowsInv, TypeOK, Row, EventNo
<1>6. seen' \subseteq 1 .. saved /\ again' \subseteq EventNo
  BY <1>1, <1>5 DEF IInv, RowsInv, TypeOK
<1>7. faults = 0 => again' = {}
  <2>1. faults = 0 => es \intersect seen = {}
    BY <1>2 DEF IInv, OnceInv
  <2>. QED BY <1>1, <2>1 DEF IInv, OnceInv
<1>8. ASSUME NEW e \in es, NEW f \in 1 .. e PROVE f \in seen'
  <2>1. e \in 1 .. saved /\ saved \in Nat
    BY <1>5 DEF IInv, TypeOK
  <2>2. f \in Pending \union seen /\ (f = e \/ f < e)
    BY <2>1 DEF IInv, NoEventIsLost
  <2>. QED BY <1>1, <1>4, <2>2
<1>9. \A e \in seen' : 1 .. e \subseteq seen'
  BY <1>1, <1>8 DEF IInv, GivenInOrder
<1>. QED BY <1>1, <1>3, <1>4, <1>6, <1>7, <1>9

LEMMA AnswerStep ==
  ASSUME SenderAssumption, IInv, PostAnswered
  PROVE  IInv'
<1>1. /\ UNCHANGED <<rows, saved, producer, chanVars, batch, faults>>
      /\ flusher = "post" /\ flusher' = "delete" /\ Given(batch)
  BY DEF PostAnswered, tableVars
<1>2. /\ seen' = seen \union {b.event : b \in batch}
      /\ seen' \subseteq 1 .. saved /\ again' \subseteq EventNo
      /\ faults = 0 => again' = {}
      /\ \A e \in seen' : 1 .. e \subseteq seen'
  BY <1>1, GivenStep
<1>3. TypeOK' /\ RowsInv'
  <2>1. seen' \subseteq EventNo
    BY <1>2 DEF IInv, TypeOK, EventNo, SenderAssumption
  <2>2. TypeOK'
    BY <1>1, <1>2, <2>1 DEF IInv, TypeOK, chanVars
  <2>3. RowsInv'
    BY <1>1, <1>2 DEF IInv, RowsInv
  <2>. QED BY <2>2, <2>3
<1>4. BatchInv'
  BY <1>1, <1>2 DEF IInv, BatchInv
<1>5. OnceInv'
  <2>1. ASSUME faults = 0, NEW r \in rows, r.event \in seen'
        PROVE  r \in batch
    <3>1. r.event \notin seen
      BY <1>1, <2>1 DEF IInv, OnceInv
    <3>2. PICK b \in batch : b.event = r.event
      BY <1>2, <2>1, <3>1
    <3>3. b \in rows
      BY <1>1 DEF IInv, BatchInv
    <3>4. r.id <= b.id
      BY <3>2, <3>3 DEF IInv, RowsInv, TypeOK, Row, EventNo
    <3>. QED BY <1>1, <3>4 DEF IInv, BatchInv
  <2>. QED BY <1>1, <1>2, <2>1 DEF OnceInv
<1>6. NoEventIsLost' /\ GivenInOrder'
  BY <1>1, <1>2 DEF IInv, NoEventIsLost, GivenInOrder, Pending
<1>. QED BY <1>3, <1>4, <1>5, <1>6 DEF IInv

LEMMA FailStep ==
  ASSUME SenderAssumption, IInv, PostFails
  PROVE  IInv'
<1>1. /\ UNCHANGED <<rows, saved, producer, chanVars>>
      /\ flusher = "post" /\ flusher' = "select" /\ batch' = {}
      /\ faults \in 0 .. MaxFaults /\ faults < MaxFaults /\ faults' = faults + 1
  BY DEF PostFails, Fault, tableVars, IInv, TypeOK
<1>2. /\ seen \subseteq seen'
      /\ seen' \subseteq 1 .. saved /\ again' \subseteq EventNo
      /\ \A e \in seen' : 1 .. e \subseteq seen'
  <2>1. CASE Given(batch)
    BY <1>1, <2>1, GivenStep
  <2>2. CASE UNCHANGED gateVars
    BY <2>2 DEF gateVars, IInv, TypeOK, RowsInv, GivenInOrder
  <2>. QED BY <2>1, <2>2 DEF PostFails
<1>3. TypeOK' /\ RowsInv'
  BY <1>1, <1>2 DEF IInv, TypeOK, RowsInv, chanVars, EventNo, SenderAssumption
<1>4. BatchInv' /\ OnceInv'
  BY <1>1 DEF IInv, BatchInv, OnceInv, SenderAssumption
<1>5. NoEventIsLost' /\ GivenInOrder'
  BY <1>1, <1>2 DEF IInv, NoEventIsLost, GivenInOrder, Pending
<1>. QED BY <1>3, <1>4, <1>5 DEF IInv

LEMMA DeleteStep ==
  ASSUME IInv, DeleteEvents
  PROVE  /\ IInv'
         /\ \E es \in SUBSET (Pending \intersect seen) :
              /\ \A e \in es, p \in Pending : p < e => p \in es
              /\ Pending' = Pending \ es
<1>1. /\ UNCHANGED <<saved, seen, again, producer, chanVars, faults>>
      /\ flusher = "delete" /\ flusher' = "select" /\ batch' = {}
      /\ rows' = rows \ batch /\ batch \subseteq rows
  BY SentIsBatch DEF DeleteEvents, gateVars, IInv, BatchInv
<1>2. /\ \A b \in batch : b.event \in seen
      /\ \A r \in rows, b \in batch : r.id <= b.id => r \in batch
  BY <1>1 DEF IInv, BatchInv
<1>3. TypeOK'
  BY <1>1 DEF IInv, TypeOK, chanVars
<1>4. RowsInv'
  <2>1. IsFiniteSet(rows')
    BY <1>1, FS_Subset DEF IInv, RowsInv
  <2>2. ASSUME rows' # {}
        PROVE  \E m \in rows' : \A r \in rows' : r.id <= m.id
    <3>1. PICK m \in rows : \A r \in rows : r.id <= m.id
      BY <1>1, <2>2 DEF IInv, RowsInv
    <3>2. m \notin batch
      BY <1>1, <1>2, <2>2, <3>1
    <3>. QED BY <1>1, <3>1, <3>2
  <2>. QED BY <1>1, <2>1, <2>2 DEF IInv, RowsInv
<1>5. BatchInv' /\ OnceInv'
  BY <1>1 DEF IInv, BatchInv, OnceInv
<1>. DEFINE es == {b.event : b \in batch}
<1>6. Pending' = Pending \ es
  <2>1. ASSUME NEW r \in rows, NEW b \in batch, r.event = b.event
        PROVE  r \in batch
    <3>1. r.id <= b.id
      BY <1>1, <2>1 DEF IInv, RowsInv, TypeOK, Row, EventNo
    <3>. QED BY <1>2, <3>1
  <2>. QED BY <1>1, <2>1 DEF Pending
<1>7. es \in SUBSET (Pending \intersect seen)
  BY <1>1, <1>2 DEF Pending
<1>8. \A e \in es, p \in Pending : p < e => p \in es
  <2>1. SUFFICES ASSUME NEW b \in batch, NEW r \in rows, r.event < b.event
                 PROVE  r.event \in es
    BY DEF Pending
  <2>2. r.id <= b.id
    BY <1>1, <2>1 DEF IInv, RowsInv, TypeOK, Row
  <2>. QED BY <1>2, <2>2
<1>9. NoEventIsLost' /\ GivenInOrder'
  BY <1>1, <1>6, <1>7 DEF IInv, NoEventIsLost, GivenInOrder
<1>. QED BY <1>3, <1>4, <1>5, <1>6, <1>7, <1>8, <1>9 DEF IInv
-----------------------------------------------------------------------------
(* The steps that are left: they are quiet.                                *)

LEMMA OtherSteps ==
  ASSUME SenderAssumption, IInv,
         \/ Start \/ Notify \/ BeginStop \/ Stop
         \/ Tick \/ Take \/ TableFails \/ Crash \/ HeadersRace
  PROVE  TypeOK' /\ Quiet
<1>. USE DEF IInv, TypeOK, BatchInv, Quiet, tableVars, gateVars, chanVars,
             SenderAssumption
<1>1. CASE Start
  BY <1>1 DEF Start
<1>2. CASE Notify
  BY <1>2 DEF Notify
<1>3. CASE BeginStop
  BY <1>3 DEF BeginStop
<1>4. CASE Stop
  BY <1>4 DEF Stop, StopFlushes, StopStops, StopReturns
<1>5. CASE Tick
  BY <1>5 DEF Tick
<1>6. CASE Take
  BY <1>6 DEF Take, TakeStop, TakeFlush, TakeTick
<1>7. CASE TableFails
  BY <1>7 DEF TableFails, Fault
<1>8. CASE Crash
  BY <1>8 DEF Crash, Dies, Fault
<1>9. CASE HeadersRace
  BY <1>9 DEF HeadersRace, Dies, Fault
<1>. QED BY <1>1, <1>2, <1>3, <1>4, <1>5, <1>6, <1>7, <1>8, <1>9

LEMMA InitInv == ASSUME SenderAssumption, Init PROVE IInv
<1>1. TypeOK
  BY DEF Init, TypeOK, SenderAssumption
<1>2. RowsInv
  BY FS_EmptySet DEF Init, RowsInv
<1>3. BatchInv /\ OnceInv
  BY DEF Init, BatchInv, OnceInv
<1>4. NoEventIsLost /\ GivenInOrder
  BY DEF Init, NoEventIsLost, GivenInOrder
<1>. QED BY <1>1, <1>2, <1>3, <1>4 DEF IInv

LEMMA StepInv == ASSUME SenderAssumption, IInv, [Next]_vars PROVE IInv'
<1>1. CASE Save
  BY <1>1, SaveStep
<1>2. CASE GetEvents
  BY <1>2, GetStep
<1>3. CASE PostAnswered
  BY <1>3, AnswerStep
<1>4. CASE PostFails
  BY <1>4, FailStep
<1>5. CASE DeleteEvents
  BY <1>5, DeleteStep
<1>6. CASE \/ Start \/ Notify \/ BeginStop \/ Stop
           \/ Tick \/ Take \/ TableFails \/ Crash \/ HeadersRace
  BY <1>6, OtherSteps, QuietStep
<1>7. CASE UNCHANGED vars
  <2>1. TypeOK' /\ Quiet
    BY <1>7 DEF vars, tableVars, gateVars, chanVars, Quiet, IInv, TypeOK, BatchInv
  <2>. QED BY <2>1, QuietStep
<1>. QED BY <1>1, <1>2, <1>3, <1>4, <1>5, <1>6, <1>7 DEF Next, Flush

LEMMA Invariant == Spec => []IInv
<1>1. Init => IInv
  BY InitInv, SenderAssumption
<1>2. IInv /\ [Next]_vars => IInv'
  BY StepInv, SenderAssumption
<1>. QED BY <1>1, <1>2, PTL DEF Spec

LEMMA StepImplements ==
  ASSUME SenderAssumption, IInv, [Next]_vars
  PROVE  [Queue!Next]_<<Pending, seen, again>>
<1>. USE DEF Queue!Next, Queue!Oldest, Pending, gateVars
<1>1. CASE Save
  <2>1. /\ \A o \in Pending \union seen : o < saved + 1
        /\ saved + 1 \in EventNo
        /\ Pending' = Pending \union {saved + 1}
        /\ UNCHANGED gateVars
    BY <1>1, SaveStep
  <2>. QED BY <2>1 DEF Queue!Save
<1>2. CASE GetEvents
  BY <1>2, GetStep
<1>3. CASE (PostAnswered \/ PostFails) /\ Given(batch)
  <2>1. flusher = "post" /\ UNCHANGED Pending
    BY <1>3 DEF PostAnswered, PostFails, tableVars
  <2>2. \E es \in SUBSET Pending :
          /\ \A e \in es, p \in Pending : p < e => p \in es
          /\ seen' = seen \union es
          /\ again' = again \union (es \intersect seen)
    BY <1>3, <2>1, GivenStep
  <2>. QED BY <2>1, <2>2 DEF Queue!Post
<1>4. CASE PostFails /\ UNCHANGED gateVars
  BY <1>4 DEF PostFails, tableVars
<1>5. CASE DeleteEvents
  <2>1. \E es \in SUBSET (Pending \intersect seen) :
          /\ \A e \in es, p \in Pending : p < e => p \in es
          /\ Pending' = Pending \ es
    BY <1>5, DeleteStep
  <2>2. UNCHANGED <<seen, again>>
    BY <1>5 DEF DeleteEvents
  <2>. QED BY <2>1, <2>2 DEF Queue!Remove
<1>6. CASE \/ Start \/ Notify \/ BeginStop \/ Stop
           \/ Tick \/ Take \/ TableFails \/ Crash \/ HeadersRace
  BY <1>6, OtherSteps DEF Quiet, tableVars
<1>7. CASE UNCHANGED vars
  BY <1>7 DEF vars, tableVars
<1>8. PostAnswered \/ PostFails => Given(batch) \/ (PostFails /\ UNCHANGED gateVars)
  BY DEF PostAnswered, PostFails
<1>. QED BY <1>1, <1>2, <1>3, <1>4, <1>5, <1>6, <1>7, <1>8 DEF Next, Flush
-----------------------------------------------------------------------------
\* The event sender is well typed in every state: the channels hold at most
\* one value, and the IDs and events of the rows are numbers in their range.
THEOREM SenderTypeCorrect == Spec => []TypeOK
<1>1. IInv => TypeOK
  BY DEF IInv
<1>. QED BY <1>1, Invariant, PTL

\* An event that was saved is in the table or the gateway was given it, for
\* any size of a batch and any crash or failure.
THEOREM NothingIsLost == Spec => []NoEventIsLost
<1>1. IInv => NoEventIsLost
  BY DEF IInv
<1>. QED BY <1>1, Invariant, PTL

\* The gateway is given the events in the order in which they were saved.
THEOREM OrderIsKept == Spec => []GivenInOrder
<1>1. IInv => GivenInOrder
  BY DEF IInv
<1>. QED BY <1>1, Invariant, PTL

\* Without a failure or a crash no event is given twice, although rows are
\* saved while a request is under way.
THEOREM NothingIsRepeated == Spec => []OnceWithoutFaults
<1>1. IInv => OnceWithoutFaults
  BY DEF IInv, OnceInv, OnceWithoutFaults
<1>. QED BY <1>1, Invariant, PTL

\* The table, the two goroutines and the gateway implement the abstract queue.
THEOREM SenderImplementsQueue == Spec => QueueSpec
<1>1. Init => Queue!Init
  BY DEF Init, Queue!Init, Pending
<1>2. IInv /\ [Next]_vars => [Queue!Next]_<<Pending, seen, again>>
  BY StepImplements, SenderAssumption
<1>. QED BY <1>1, <1>2, Invariant, PTL DEF Spec, QueueSpec, Queue!Spec, Queue!vars
=============================================================================
