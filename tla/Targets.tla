------------------------------- MODULE Targets -------------------------------
(***************************************************************************)
(* The target list and the questions the update agent asks of it           *)
(* (pkg/target/target.go, and the two functions of pkg/state/check.go that *)
(* turn an update record back into a target).                              *)
(*                                                                         *)
(* An app is its URI: PlainRepo drops every target in which the name of an *)
(* app differs from the name its URI carries, so the name is a function of *)
(* the URI.  A list of targets is a set, because the code iterates over a  *)
(* Go map to build it and so fixes no order; where the code returns the    *)
(* first match of a loop, the operators below return the set of targets    *)
(* the loop may return.                                                    *)
(***************************************************************************)
EXTENDS Integers

CONSTANTS
  Catalog,      (* every target the Factory may ever list for this device  *)
  URI,          (* the app URIs of those targets                           *)
  NameOf,       (* the app name composeapp parses out of a URI             *)
  VersionOf,    (* the number after the last "-" of a target ID            *)
  VersionLimit  (* FIOUP_VERSION_UPPER_LIMIT, 0 when unset                 *)

UnknownTarget == [id |-> "unknown", version |-> -1, uris |-> {}]

\* The IDs an update record may carry.  "unknown" has no "-<number>" suffix.
KnownID == {t.id : t \in Catalog}
TargetID == KnownID \union {UnknownTarget.id}

Target == [id: TargetID, version: Int, uris: SUBSET URI]

ASSUME CatalogAssumption ==
  /\ Catalog \subseteq Target
  /\ UnknownTarget.id \notin KnownID
  /\ VersionOf \in [KnownID -> Int]
  /\ VersionLimit \in Nat

NamesOf(uris) == {NameOf[u] : u \in uris}
-----------------------------------------------------------------------------
(* Lookup.                                                                 *)

\* Targets.GetLatestTarget: a negative version is never the latest one.
LatestOf(ts) ==
  LET eligible == {t \in ts : /\ t.version > UnknownTarget.version
                              /\ VersionLimit > 0 => t.version <= VersionLimit}
      latest == {t \in eligible : \A o \in eligible : o.version <= t.version}
  IN IF latest = {} THEN {UnknownTarget} ELSE latest

\* Targets.GetTargetByVersion
ByVersion(ts, v) ==
  LET found == {t \in ts : t.version = v}
  IN IF found = {} THEN {UnknownTarget} ELSE found

\* Targets.GetTargetByID: IDs are the keys of a JSON object, so at most one.
ByID(ts, id) ==
  LET found == {t \in ts : t.id = id}
  IN IF found = {} THEN {UnknownTarget} ELSE found
-----------------------------------------------------------------------------
(* Filters and differences.                                                *)

\* Target.ShortlistApps: no "compose_apps" in the configuration (enabled is
\* every name) keeps all apps, an empty list keeps none.
Shortlist(t, enabled) ==
  [t EXCEPT !.uris = {u \in @ : NameOf[u] \in enabled}]

\* Target.ShortlistAppsByURI
ShortlistByURI(t, uris) == [t EXCEPT !.uris = @ \intersect uris]

\* Target.Diff: the apps only "to" has, the apps only "from" has, the apps
\* both have at the same URI, and the apps of "from" whose URI changes.
Added(from, to)   == {u \in to.uris : NameOf[u] \notin NamesOf(from.uris)}
Removed(from, to) == {u \in from.uris : NameOf[u] \notin NamesOf(to.uris)}
Same(from, to)    == from.uris \intersect to.uris
Changed(from, to) == {u \in from.uris \ to.uris : NameOf[u] \in NamesOf(to.uris)}
-----------------------------------------------------------------------------
(* From an update record back to a target.                                 *)

\* getTargetOutOfUpdate: fails (the empty set) when the ID carries no version.
OutOfUpdate(ref, uris) ==
  IF ref \in KnownID
  THEN {[id |-> ref, version |-> VersionOf[ref], uris |-> uris]}
  ELSE {}

\* The target an update record stands for: the listed target of that ID cut
\* down to the record's URIs, or else one composed from the record alone.
OfUpdate(ts, ref, uris) ==
  IF \E t \in ts : t.id = ref
  THEN {ShortlistByURI(t, uris) : t \in ByID(ts, ref)}
  ELSE OutOfUpdate(ref, uris)
=============================================================================
