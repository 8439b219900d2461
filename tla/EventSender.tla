----------------------------- MODULE EventSender -----------------------------
(***************************************************************************)
(* The event sender (internal/events): the goroutine that runs an update   *)
(* saves events in the table report_events and wakes the flusher, a        *)
(* goroutine that posts what the table holds to the gateway, a few rows at *)
(* a time, and deletes it.  The table outlives the process, which may be   *)
(* killed between any two steps; every statement on it is atomic, under    *)
(* dbMutex.                                                                *)
(*                                                                         *)
(* Events are numbered in the order they are saved.  What the gateway      *)
(* answers is not looked at: an event is deleted once there was an answer. *)
(***************************************************************************)
EXTENDS Integers, FiniteSetsExt

CONSTANTS
  Batch,      (* rows read at a time: max_events                           *)
  MaxEvents,  (* bound: events saved in a behaviour                        *)
  MaxFaults   (* bound: failures and crashes, then the gateway answers     *)

ASSUME SenderAssumption ==
  Batch \in Nat \ {0} /\ MaxEvents \in Nat /\ MaxFaults \in Nat

VARIABLES
  rows,      (* report_events: a set of [id, event]                        *)
  saved,     (* number of events saved                                     *)
  seen,      (* events the gateway was given                               *)
  again,     (* events it was given more than once                         *)
  producer,  (* what the goroutine that runs the update does               *)
  flusher,   (* what the goroutine of Start does                           *)
  flushChan, stopChan, tick,  (* values in the three channels              *)
  batch,     (* rows the flusher read                                      *)
  faults

tableVars == <<rows, saved>>
gateVars  == <<seen, again>>
chanVars  == <<flushChan, stopChan, tick>>
vars == <<tableVars, gateVars, producer, flusher, chanVars, batch, faults>>

EventNo == 1 .. MaxEvents
Row == [id: Nat, event: EventNo]

TypeOK ==
  /\ rows \subseteq Row
  /\ saved \in 0 .. MaxEvents
  /\ seen \subseteq EventNo /\ again \subseteq EventNo
  /\ producer \in {"out", "work", "notify", "stop", "stopping", "wait"}
  /\ flusher \in {"off", "select", "get", "post", "delete"}
  /\ flushChan \in 0 .. 1 /\ stopChan \in 0 .. 1 /\ tick \in 0 .. 1
  /\ batch \subseteq Row
  /\ faults \in 0 .. MaxFaults

Fault == faults < MaxFaults /\ faults' = faults + 1
-----------------------------------------------------------------------------
(* The producer: Start, EnqueueEvent and Stop.                             *)

Start ==
  /\ producer = "out"
  /\ producer' = "work" /\ flusher' = "select"
  /\ flushChan' = 0 /\ stopChan' = 0 /\ tick' = 0
  /\ UNCHANGED <<tableVars, gateVars, batch, faults>>

\* The ID of a new row: one more than the largest, as SQLite chooses it.
NewID == IF rows = {} THEN 1 ELSE 1 + Max({r.id : r \in rows})

\* SaveEvent
Save ==
  /\ producer = "work" /\ saved < MaxEvents
  /\ saved' = saved + 1
  /\ rows' = rows \union {[id |-> NewID, event |-> saved + 1]}
  /\ producer' = "notify"
  /\ UNCHANGED <<gateVars, flusher, chanVars, batch, faults>>

\* Mutant: a full channel does not make the producer wait.
NotifyAtOnce ==
  /\ producer = "notify"
  /\ flushChan' = flushChan + 1
  /\ producer' = "work"
  /\ UNCHANGED <<tableVars, gateVars, flusher, stopChan, tick, batch, faults>>

\* FlushEventsAsync: waits as long as the channel is full.
Notify ==
  /\ producer = "notify" /\ flushChan = 0
  /\ flushChan' = 1
  /\ producer' = "work"
  /\ UNCHANGED <<tableVars, gateVars, flusher, stopChan, tick, batch, faults>>

BeginStop ==
  /\ producer = "work"
  /\ producer' = "stop"
  /\ UNCHANGED <<tableVars, gateVars, flusher, chanVars, batch, faults>>

StopFlushes ==
  /\ producer = "stop" /\ flushChan = 0
  /\ flushChan' = 1
  /\ producer' = "stopping"
  /\ UNCHANGED <<tableVars, gateVars, flusher, stopChan, tick, batch, faults>>

StopStops ==
  /\ producer = "stopping" /\ stopChan = 0
  /\ stopChan' = 1
  /\ producer' = "wait"
  /\ UNCHANGED <<tableVars, gateVars, flusher, flushChan, tick, batch, faults>>

\* wg.Wait
StopReturns ==
  /\ producer = "wait" /\ flusher = "off"
  /\ producer' = "out"
  /\ UNCHANGED <<tableVars, gateVars, flusher, chanVars, batch, faults>>
Stop == StopFlushes \/ StopStops \/ StopReturns
-----------------------------------------------------------------------------
(* The flusher.                                                            *)

Tick ==
  /\ flusher # "off" /\ tick = 0
  /\ tick' = 1
  /\ UNCHANGED <<tableVars, gateVars, producer, flusher, flushChan, stopChan,
                 batch, faults>>

\* Mutant: the loop is not left.
TakeStopAndGoOn ==
  /\ flusher = "select" /\ stopChan = 1
  /\ stopChan' = 0
  /\ UNCHANGED <<tableVars, gateVars, producer, flusher, flushChan, tick,
                 batch, faults>>

TakeStop ==
  /\ flusher = "select" /\ stopChan = 1
  /\ stopChan' = 0
  /\ flusher' = "off"
  /\ UNCHANGED <<tableVars, gateVars, producer, flushChan, tick, batch, faults>>

TakeFlush ==
  /\ flusher = "select" /\ flushChan = 1
  /\ flushChan' = 0
  /\ flusher' = "get"
  /\ UNCHANGED <<tableVars, gateVars, producer, stopChan, tick, batch, faults>>

\* Mutant: the ticker only wakes the goroutine.
TakeTickOnly ==
  /\ flusher = "select" /\ tick = 1
  /\ tick' = 0
  /\ UNCHANGED <<tableVars, gateVars, producer, flusher, flushChan, stopChan,
                 batch, faults>>

TakeTick ==
  /\ flusher = "select" /\ tick = 1
  /\ tick' = 0
  /\ flusher' = "get"
  /\ UNCHANGED <<tableVars, gateVars, producer, flushChan, stopChan, batch, faults>>

\* Mutant: the newest rows first.
Newest == {r \in rows : Cardinality({o \in rows : o.id > r.id}) < Batch}

\* GetEvents: the first rows, in the order of their IDs, in which SQLite scans
\* a table that is read without ORDER BY.
Oldest == {r \in rows : Cardinality({o \in rows : o.id < r.id}) < Batch}

GetEvents ==
  /\ flusher = "get"
  /\ IF rows = {}
     THEN flusher' = "select" /\ batch' = {}
     ELSE flusher' = "post" /\ batch' = Oldest
  /\ UNCHANGED <<tableVars, gateVars, producer, chanVars, faults>>

\* The gateway gets the request.
Given(rs) == LET es == {r.event : r \in rs}
             IN seen' = seen \union es /\ again' = again \union (es \intersect seen)

\* The request is answered, whatever the status.
PostAnswered ==
  /\ flusher = "post"
  /\ Given(batch)
  /\ flusher' = "delete"
  /\ UNCHANGED <<tableVars, producer, chanVars, batch, faults>>

\* Mutant: the rows are deleted although the request failed.
PostFailsAndDeletes ==
  /\ flusher = "post" /\ Fault
  /\ Given(batch) \/ UNCHANGED gateVars
  /\ flusher' = "delete"
  /\ UNCHANGED <<tableVars, producer, chanVars, batch>>

\* The request or its answer is lost: the rows stay.
PostFails ==
  /\ flusher = "post" /\ Fault
  /\ Given(batch) \/ UNCHANGED gateVars
  /\ flusher' = "select" /\ batch' = {}
  /\ UNCHANGED <<tableVars, producer, chanVars>>

\* Mutants: all the rows are deleted; the last row of the batch is not.
EveryRow == rows
ButTheLast == {r \in rows : \E b \in batch : r.id < b.id}

\* DeleteEvents: the rows up to the largest ID of the batch.
Sent == {r \in rows : \E b \in batch : r.id <= b.id}

DeleteEvents ==
  /\ flusher = "delete"
  /\ rows' = rows \ Sent
  /\ flusher' = "select" /\ batch' = {}
  /\ UNCHANGED <<saved, gateVars, producer, chanVars, faults>>

\* GetEvents or DeleteEvents returns an error.
TableFails ==
  /\ flusher \in {"get", "delete"} /\ Fault
  /\ flusher' = "select" /\ batch' = {}
  /\ UNCHANGED <<tableVars, gateVars, producer, chanVars>>
-----------------------------------------------------------------------------
(* The process ends.                                                       *)

Dies ==
  /\ Fault
  /\ producer' = "out" /\ flusher' = "off" /\ batch' = {}
  /\ flushChan' = 0 /\ stopChan' = 0 /\ tick' = 0
  /\ UNCHANGED <<tableVars, gateVars>>

Crash == producer # "out" /\ Dies

\* UpdateHeaders writes the map of headers while the flusher reads it for a request,
\* without a lock: the runtime may notice, and end the process.
HeadersRace == producer = "work" /\ flusher = "post" /\ Dies

Init ==
  /\ rows = {} /\ saved = 0 /\ seen = {} /\ again = {}
  /\ producer = "out" /\ flusher = "off"
  /\ flushChan = 0 /\ stopChan = 0 /\ tick = 0
  /\ batch = {} /\ faults = 0

Take == TakeStop \/ TakeFlush \/ TakeTick
Flush == GetEvents \/ PostAnswered \/ PostFails \/ DeleteEvents \/ TableFails

Next == \/ Start \/ Save \/ Notify \/ BeginStop \/ Stop
        \/ Tick \/ Take \/ Flush \/ Crash \/ HeadersRace

Spec == Init /\ [][Next]_vars

\* Both goroutines go on and a request ends (that is, the HTTP client gives up
\* in the end), the ticker ticks, the select statement does not pass over a
\* channel for ever (Go chooses at random among those that are ready), and a
\* process that ended is followed by another.
Fairness ==
  /\ WF_vars(Start) /\ WF_vars(Tick)
  /\ WF_vars(Notify) /\ WF_vars(Stop)
  /\ WF_vars(Take) /\ SF_vars(TakeStop) /\ SF_vars(TakeFlush)
  /\ WF_vars(Flush)

FairSpec == Spec /\ Fairness
-----------------------------------------------------------------------------
(* Properties.                                                             *)

Pending == {r.event : r \in rows}

\* An event leaves the table only after the gateway was given it, although new
\* rows may be added between reading and deleting and IDs are used again.
NoEventIsLost == 1 .. saved \subseteq Pending \union seen

\* Without a failure or a crash the gateway is given no event twice, however
\* the producer, the ticker and Stop interleave with a request.
OnceWithoutFaults == faults = 0 => again = {}

\* The sender implements the queue.
Queue == INSTANCE EventQueue WITH Events <- EventNo, pending <- Pending
QueueSpec == Queue!Spec

\* Every event that was saved is given to the gateway in the end.
EveryEventIsGiven == \A e \in EventNo : saved >= e ~> e \in seen

\* Stop returns, and so does a producer that waits for a full channel: the
\* update is not held up by the sender for ever.
ProducerGoesOn == /\ producer = "stop" ~> producer = "out"
                  /\ producer = "notify" ~> producer # "notify"
=============================================================================
