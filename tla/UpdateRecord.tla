---------------------------- MODULE UpdateRecord ----------------------------
(***************************************************************************)
(* What the update agent promises about the updates of a device, whatever  *)
(* commands are run, in whatever order, and wherever they are interrupted: *)
(*   - at most one update is in progress, and until it is completed, failed*)
(*     or canceled no command turns it into an update of another target;   *)
(*   - it moves forward only: a step that is done is not done again, and   *)
(*     its apps, once chosen, are not chosen again;                        *)
(*   - the last successful update changes only when an update whose apps   *)
(*     were started is completed, and becomes exactly that update;         *)
(*   - only an update that was being installed or started counts as failed.*)
(***************************************************************************)
EXTENDS Integers

CONSTANTS Refs, Apps, Limit

VARIABLES state, ref, apps, last, failed

vars == <<state, ref, apps, last, failed>>

\* The states of an update in the order it goes through them.
Rank == [created |-> 1, initializing |-> 2, initialized |-> 3, fetching |-> 4,
         fetched |-> 5, installing |-> 6, installed |-> 7, starting |-> 8,
         started |-> 9, completing |-> 10]

Ongoing == state \in DOMAIN Rank

Init == /\ state = "none" /\ ref = "none" /\ apps = {}
        /\ last = [ref |-> "none", uris |-> {}]
        /\ failed = [r \in Refs |-> 0]

Create == /\ ~Ongoing
          /\ state' = "created" /\ ref' \in Refs /\ apps' = {}
          /\ UNCHANGED <<last, failed>>

Advance == /\ Ongoing /\ state' \in DOMAIN Rank
           /\ Rank[state'] = Rank[state] + 1
           /\ IF state = "created" THEN apps' \in SUBSET Apps ELSE UNCHANGED apps
           /\ UNCHANGED <<ref, last, failed>>

End == state' = "none" /\ ref' = "none" /\ apps' = {}

Complete == /\ state \in {"started", "completing"} /\ End
            /\ last' = [ref |-> ref, uris |-> apps]
            /\ UNCHANGED failed

Fail == /\ state \in {"installing", "starting"} /\ End
        /\ failed' = [failed EXCEPT ![ref] = IF @ < Limit THEN @ + 1 ELSE @]
        /\ UNCHANGED last

\* Canceled by a user or by the daemon, or lost before it was initialized.
Cancel == Ongoing /\ End /\ UNCHANGED <<last, failed>>

Next == Create \/ Advance \/ Complete \/ Fail \/ Cancel

Spec == Init /\ [][Next]_vars
=============================================================================
