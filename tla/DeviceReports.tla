---------------------------- MODULE DeviceReports ----------------------------
(***************************************************************************)
(* What the gateway client (pkg/client) reports of the device: network     *)
(* address, configuration, hardware, and the states of the apps.  What was *)
(* reported is kept in a file per kind, and a value is sent only when it   *)
(* differs from that; the files are dropped with the database, which a new *)
(* registration removes.  The device changes at any time, requests and     *)
(* answers are lost, reads and writes fail, and the process is killed.     *)
(*                                                                         *)
(* A value is a pair: what it is, and, for apps, the health of their       *)
(* services.                                                               *)
(***************************************************************************)
EXTENDS Integers

CONSTANTS
  Changing,   (* the kinds that change                                     *)
  MayFail,    (* what may go wrong: a subset of Faults                     *)
  MaxEdits,   (* bound: changes of the device, new registrations           *)
  MaxFaults   (* bound: failures and kills                                 *)

Kinds == {"net", "sota", "hw", "apps"}
AtOnce == {"sota", "hw"}  \* looked at when a client is made, and not again
Faults == {"request", "answer", "write", "status", "kill"}

ASSUME ReportsAssumption ==
  /\ Changing \subseteq Kinds /\ MayFail \subseteq Faults
  /\ MaxEdits \in Nat /\ MaxFaults \in Nat

None   == <<"none", "none">>   \* no file, no value
Torn   == <<"torn", "none">>   \* a file that cannot be parsed
NoApps == <<"noapps", "none">>

Value(k) ==
  IF k = "apps" THEN {NoApps} \union ({"v1", "v2"} \X {"healthy", "unhealthy"})
                ELSE {"v1", "v2"} \X {"-"}

VARIABLES
  dev,     (* the values of the device, None for one that cannot be read:
              no default route, no lshw, TOML that does not parse, or no
              status of the apps                                           *)
  file,    (* the files .last-netinfo, .last-sota, .last-hwinfo,
              .last-app-states                                             *)
  db,      (* the database exists                                          *)
  gw,      (* what the gateway shows of the device                         *)
  given,   (* what it was given since the device was registered            *)
  mem,     (* sotaToReport, hwinfoToReport and lastAppStates               *)
  found,   (* what the client found of the two kinds it looks at once      *)
  pc,      (* what the process does: a kind stands for its upload          *)
  sent,    (* the value that was accepted and is to be saved               *)
  purpose, (* of the process: a command that runs an update, the daemon, or
              register                                                     *)
  reader,  (* a command without the lock (whoami, diff)                    *)
  unsaved, (* the gateway took a value, and an older one stands as the last
              reported                                                     *)
  edits, faults

gateVars == <<gw, given>>
whoVars == <<purpose, reader, unsaved>>
memVars == <<mem, found>>
vars == <<dev, file, db, gateVars, memVars, pc, sent, whoVars, edits, faults>>

Phases == {"out", "client", "db", "work", "report", "rest"} \union Kinds

AnyValue == UNION {Value(k) : k \in Kinds}

TypeOK ==
  /\ dev \in [Kinds -> AnyValue \union {None}]
  /\ file \in [Kinds -> AnyValue \union {None, Torn}]
  /\ gw \in [Kinds -> AnyValue \union {None}]
  /\ given \in [Kinds -> SUBSET AnyValue]
  /\ mem \in [Kinds -> AnyValue \union {None}]
  /\ found \in [AtOnce -> AnyValue \union {None}]
  /\ db \in BOOLEAN
  /\ pc \in Phases
  /\ sent \in AnyValue \union {None}
  /\ purpose \in {"command", "daemon", "register"}
  /\ unsaved \in BOOLEAN
  /\ reader \in {"out", "clean"}
  /\ edits \in 0 .. MaxEdits /\ faults \in 0 .. MaxFaults

Fault(kind) == kind \in MayFail /\ faults < MaxFaults /\ faults' = faults + 1
Edit == edits < MaxEdits /\ edits' = edits + 1

Absent == [k \in Kinds |-> None]

\* The kind that is being uploaded, and what comes after it.
Kind == IF pc = "report" THEN "apps" ELSE pc
Uploading == pc \in Kinds \union {"report"}

\* The end of a command, or of an iteration of the daemon.
Rest == IF purpose = "daemon" THEN "rest" ELSE "out"

Following ==
  CASE pc = "net"    -> "sota"
    [] pc = "sota"   -> "hw"
    [] pc = "hw"     -> IF purpose = "register" THEN Rest ELSE "apps"
    [] pc = "apps"   -> "work"
    [] pc = "report" -> Rest

\* bytes.Equal, and areAppStatesEqual, which looks only at the states and the
\* number of the services; no apps are equal to a file that could not be read.
Alike(k, x, y) == IF k = "apps" THEN x[2] = y[2] ELSE x = y
-----------------------------------------------------------------------------
(* The process.                                                            *)

Start ==
  /\ pc = "out"
  /\ pc' = "client" /\ purpose' \in {"command", "daemon"}
  /\ UNCHANGED <<dev, file, db, gateVars, memVars, sent, reader, unsaved, edits, faults>>

\* Mutant: the files are kept.
KeepFiles == file' = file

\* cleanupLastStateIfRequire
CleanupLastState == file' = IF db THEN file ELSE Absent

\* Mutant: a file that cannot be parsed is taken for what was reported.
ReportedAsIs(k) == file'[k]

\* initAppStateReporter, which reads what was reported.
Reported(k) == IF file'[k] = Torn THEN None ELSE file'[k]

\* initSota and initHwinfo, which decide once for a client what to send: nothing, if
\* the value cannot be read.
ToReport(k) == IF file'[k] = dev[k] THEN None ELSE dev[k]

InitReports ==
  /\ mem' = [k \in Kinds |->
               CASE k \in AtOnce -> ToReport(k)
                 [] k = "apps"   -> Reported(k)
                 [] k = "net"    -> None]
  /\ found' = [k \in AtOnce |-> dev[k]]

NewGatewayClient ==
  /\ pc = "client"
  /\ CleanupLastState
  /\ InitReports
  /\ pc' = IF purpose = "register" THEN "net" ELSE "db"
  /\ UNCHANGED <<dev, db, gateVars, sent, whoVars, edits, faults>>

InitializeDatabase ==
  /\ pc = "db"
  /\ db' = TRUE
  /\ pc' = "net"
  /\ UNCHANGED <<dev, file, gateVars, memVars, sent, whoVars, edits, faults>>

\* What would be sent of a kind: its value now, or the one found by NewGatewayClient.
Current(k) == IF k \in AtOnce THEN mem[k] ELSE dev[k]

\* Mutant: the network address is compared with nothing once it was sent.
NewsOnce(k) ==
  /\ Current(k) # None
  /\ k = "net"  => file[k] = None
  /\ k = "apps" => ~Alike(k, dev[k], mem[k])

\* There is something to send, and it can be read.
News(k) ==
  /\ Current(k) # None
  /\ k = "net"  => ~Alike(k, dev[k], file[k])
  /\ k = "apps" => ~Alike(k, dev[k], mem[k])

\* An older value stands as the last reported one, in the file or in memory.
Claimed(k) == file[k] \in Value(k) \/ (k = "apps" /\ mem[k] # None)

Skip ==
  /\ Uploading /\ sent = None /\ ~News(Kind)
  /\ pc' = Following
  /\ UNCHANGED <<dev, file, db, gateVars, memVars, sent, whoVars, edits, faults>>

Give(k) == /\ gw' = [gw EXCEPT ![k] = Current(k)]
           /\ given' = [given EXCEPT ![k] = @ \union {Current(k)}]

\* The gateway accepts the value.
Upload ==
  /\ Uploading /\ sent = None /\ News(Kind)
  /\ Give(Kind)
  /\ sent' = Current(Kind)
  /\ mem' = IF Kind \in AtOnce THEN [mem EXCEPT ![Kind] = None] ELSE mem
  /\ UNCHANGED <<dev, file, db, found, pc, whoVars, edits, faults>>

\* Mutant: a request that fails counts as one.
UploadForgotten ==
  /\ Uploading /\ sent = None /\ News(Kind) /\ Fault("request")
  /\ mem' = [mem EXCEPT ![Kind] = Current(Kind)]
  /\ pc' = Following
  /\ UNCHANGED <<dev, file, db, gateVars, found, sent, whoVars, edits>>

\* The request or the answer is lost, or the gateway refuses it.
UploadFails ==
  /\ Uploading /\ sent = None /\ News(Kind)
  /\ \/ Fault("request") /\ UNCHANGED <<gateVars, unsaved>>
     \/ Fault("answer") /\ Give(Kind) /\ unsaved' = (unsaved \/ Claimed(Kind))
  /\ pc' = Following
  /\ UNCHANGED <<dev, file, db, memVars, sent, purpose, reader, edits>>

Saved(value) ==
  /\ file' = [file EXCEPT ![Kind] = value]
  /\ mem' = IF Kind = "apps" THEN [mem EXCEPT !["apps"] = sent] ELSE mem
  /\ sent' = None
  /\ pc' = Following
  /\ UNCHANGED <<dev, db, gateVars, found, purpose, reader, edits>>

\* Mutant: the value is read again to be saved.
SaveCurrent == sent # None /\ Saved(dev[Kind]) /\ UNCHANGED <<unsaved, faults>>

Save == sent # None /\ Saved(sent) /\ UNCHANGED <<unsaved, faults>>

\* A failure to write is logged; the file is what it was, or cut short.
SaveFails ==
  /\ sent # None /\ Fault("write")
  /\ \E value \in {file[Kind], Torn} :
       Saved(value) /\ unsaved' = (unsaved \/ value \in Value(Kind))

\* The update: what it does to the apps is a change of the device.  If it fails,
\* the states are not reported again.
Work ==
  /\ pc = "work"
  /\ \/ pc' = "report" /\ UNCHANGED faults
     \/ pc' = Rest /\ Fault("status")
  /\ UNCHANGED <<dev, file, db, gateVars, memVars, sent, whoVars, edits>>

\* The daemon goes on with its client, or makes a new one after SIGHUP.
Iterate ==
  /\ pc = "rest"
  /\ pc' \in {"db", "client"}
  /\ UNCHANGED <<dev, file, db, gateVars, memVars, sent, whoVars, edits, faults>>

\* A file that is being written may be cut short.
Kill ==
  /\ pc # "out" /\ Fault("kill")
  /\ \/ /\ UNCHANGED file
        /\ unsaved' = (unsaved \/ (sent # None /\ file[Kind] \in Value(Kind)))
     \/ /\ sent # None /\ file' = [file EXCEPT ![Kind] = Torn]
        /\ UNCHANGED unsaved
  /\ pc' = "out" /\ sent' = None /\ mem' = Absent
  /\ UNCHANGED <<dev, db, gateVars, found, purpose, reader, edits>>
-----------------------------------------------------------------------------
(* Others.                                                                 *)

\* A client of a command without the lock: it may find no database, and remove the
\* files when there is one.
ReaderLooks ==
  /\ reader = "out" /\ ~db
  /\ reader' = "clean"
  /\ UNCHANGED <<dev, file, db, gateVars, memVars, pc, sent, purpose, unsaved, edits, faults>>

ReaderCleans ==
  /\ reader = "clean"
  /\ file' = Absent
  /\ reader' = "out"
  /\ UNCHANGED <<dev, db, gateVars, memVars, pc, sent, purpose, unsaved, edits, faults>>

DeviceChanges ==
  /\ Edit
  /\ \E k \in Changing : \E v \in (Value(k) \union {None}) \ {dev[k]} :
       dev' = [dev EXCEPT ![k] = v]
  /\ UNCHANGED <<file, db, gateVars, memVars, pc, sent, whoVars, faults>>

\* register --force: the database goes, the gateway has a new device, and the
\* command goes on with a client of its own.
Register ==
  /\ pc = "out" /\ Edit
  /\ db' = FALSE
  /\ gw' = Absent /\ given' = [k \in Kinds |-> {}]
  /\ pc' = "client" /\ purpose' = "register"
  /\ UNCHANGED <<dev, file, memVars, sent, reader, unsaved, faults>>

Init ==
  /\ dev = [k \in Kinds |-> IF k = "apps" THEN NoApps ELSE <<"v1", "-">>]
  /\ file = Absent /\ db = FALSE
  /\ gw = Absent /\ given = [k \in Kinds |-> {}]
  /\ mem = Absent /\ found = [k \in AtOnce |-> None]
  /\ pc = "out" /\ sent = None
  /\ purpose = "command" /\ reader = "out" /\ unsaved = FALSE
  /\ edits = 0 /\ faults = 0

Process ==
  \/ NewGatewayClient \/ InitializeDatabase
  \/ Skip \/ Upload \/ UploadFails \/ Save \/ SaveFails
  \/ Work \/ Iterate

Next == \/ Start \/ Process \/ Kill
        \/ ReaderLooks \/ ReaderCleans \/ DeviceChanges \/ Register

Spec == Init /\ [][Next]_vars

\* The process goes on, and commands are run again and again.
FairSpec == Spec /\ WF_vars(Start) /\ WF_vars(Process)
-----------------------------------------------------------------------------
(* Properties.                                                             *)

\* A file that will be looked at claims only what the gateway was given of this
\* registration: neither an earlier device nor another command's client makes the
\* agent keep back what the gateway never got.
NoFalseClaim ==
  db \/ pc \notin {"out", "client"} =>
    \A k \in Kinds : file[k] \in Value(k) => file[k] \in given[k]

\* A file is what the gateway shows, whenever it may be compared with the device:
\* whatever changes while a request is under way, and whatever requests are lost and
\* processes killed, until the gateway takes a value and an older one stands as the
\* last reported.
FileIsGatewayView ==
  ~unsaved /\ sent = None /\ (db \/ pc \notin {"out", "client"}) =>
    \A k \in Kinds : file[k] \in Value(k) => file[k] = gw[k]

\* A report is left out only if the gateway shows the device as it is, of apps their
\* health, and of the kinds that are looked at once, as it was when the client was
\* made; or if the value cannot be read.
NothingKeptBack ==
  [][Skip /\ ~unsaved =>
       LET v == IF Kind \in AtOnce THEN found[Kind] ELSE dev[Kind]
       IN v \in {None, NoApps} \/ Alike(Kind, gw[Kind], v)]_vars

\* A process looks at the kind again and again, or another process does.
Followed(k) == k \in {"net", "apps"} \/ purpose # "daemon"

\* When the device stays as it is, the gateway shows it in the end (of apps, their
\* health), whatever changed and failed before, torn files included; only when the
\* gateway took a value and an older one stands as the last reported, the device may
\* change back to that unnoticed.  That all apps are gone is left out: it is equal to
\* a file that is missing or torn, and not sent.
GatewayFollows ==
  []~unsaved =>
    \A k \in Kinds : \A v \in Value(k) \ {NoApps} :
      <>[](dev[k] = v /\ Followed(k)) => <>[]Alike(k, gw[k], v)

\* The same of the apps themselves, which does not hold.
GatewayFollowsApps ==
  \A v \in Value("apps") \ {NoApps} :
    <>[](dev["apps"] = v) => <>[](gw["apps"] = v)
=============================================================================
