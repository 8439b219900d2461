----------------------------- MODULE EventQueue -----------------------------
(***************************************************************************)
(* What the event sender promises of the events it is given: a queue that  *)
(* outlives the process and hands every event to the gateway in the order  *)
(* they were saved, at least once.  An event leaves the queue only after   *)
(* the gateway saw it.                                                     *)
(***************************************************************************)
EXTENDS Integers

CONSTANT Events  \* numbered in the order they are saved

VARIABLES
  pending,  (* events in the queue                                         *)
  seen,     (* events the gateway was given                                *)
  again     (* events it was given more than once                          *)

vars == <<pending, seen, again>>

\* The oldest events of the queue, up to some number of them.
Oldest(es) == es \subseteq pending /\ \A e \in es, p \in pending : p < e => p \in es

Init == pending = {} /\ seen = {} /\ again = {}

Save == \E e \in Events : /\ \A o \in pending \union seen : o < e
                          /\ pending' = pending \union {e}
                          /\ UNCHANGED <<seen, again>>

Post == \E es \in SUBSET pending :
          /\ Oldest(es)
          /\ seen' = seen \union es
          /\ again' = again \union (es \intersect seen)
          /\ UNCHANGED pending

Remove == \E es \in SUBSET (pending \intersect seen) :
            /\ Oldest(es)
            /\ pending' = pending \ es
            /\ UNCHANGED <<seen, again>>

Next == Save \/ Post \/ Remove

Spec == Init /\ [][Next]_vars
=============================================================================
