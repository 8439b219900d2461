----------------------------- MODULE Registration -----------------------------
(***************************************************************************)
(* fioup register (internal/register): an attempt makes a key, has the     *)
(* server create a device for it, and stores the key, the files of the     *)
(* answer and the Docker configuration, one by one.  An attempt may fail   *)
(* anywhere, be killed, or be interrupted by SIGINT, whose handler is a    *)
(* goroutine of its own that removes files while the attempt goes on.      *)
(*                                                                         *)
(* Attempts are numbered.  The content of a file is the number of the      *)
(* attempt that wrote it, and of the database that of the attempt whose    *)
(* device made it; 0 if there is no such file.                             *)
(***************************************************************************)
EXTENDS Integers, FiniteSets

CONSTANTS
  Logins,       (* other entries of Docker's config.json                   *)
  MayFail,      (* what may go wrong: a subset of Faults                   *)
  MaxAttempts,  (* bound: attempts in a behaviour                          *)
  MaxFaults     (* bound: failures, signals and kills in a behaviour       *)

Faults == {"refuse", "server", "stage", "write", "remove", "commit",
           "sigint", "kill"}

ASSUME RegistrationAssumption ==
  /\ "hub" \notin Logins
  /\ MayFail \subseteq Faults
  /\ MaxAttempts \in Nat /\ MaxFaults \in Nat

Pem == "client.pem"
Key == "pkey.pem"
Toml == "sota.toml"

\* What the server answers: the certificate, the configuration, and others that
\* are handled like the configuration.
ServerFiles == {Pem, Toml}

VARIABLES
  file,      (* the files of the sota directory                            *)
  sqldb,     (* sql.db                                                     *)
  docker,    (* entries of config.json                                     *)
  staged,    (* entries of config.json.tmp                                 *)
  linked,    (* docker-credential-fioup is in the PATH                     *)
  devices,   (* attempts for which the server created a device             *)
  attempt,   (* the attempts so far                                        *)
  force,     (* --force of the attempt                                     *)
  pc,        (* where the main goroutine is                                *)
  after,     (* where it goes on after sotaCleanup                         *)
  todo,      (* files of the answer still to be written                    *)
  handler,   (* what the signal handler does                               *)
  result,    (* how the last attempt ended                                 *)
  stuck,     (* a file could not be removed by the last attempt            *)
  recent,    (* entries added to config.json since it began                *)
  faults

diskVars   == <<file, sqldb>>
dockerVars == <<docker, staged, linked, recent>>
runVars    == <<attempt, force>>
vars == <<diskVars, dockerVars, devices, runVars, pc, after, todo, handler,
          result, stuck, faults>>

Unstaged == {"none"}

TypeOK ==
  /\ file \in [{Pem, Key, Toml} -> 0 .. MaxAttempts]
  /\ sqldb \in 0 .. MaxAttempts
  /\ linked \in BOOLEAN /\ force \in BOOLEAN /\ stuck \in BOOLEAN
  /\ docker \subseteq Logins \union {"hub"}
  /\ staged = Unstaged \/ staged \subseteq Logins \union {"hub"}
  /\ recent \subseteq Logins
  /\ attempt \in 0 .. MaxAttempts
  /\ devices \subseteq 1 .. MaxAttempts
  /\ pc \in {"out", "status", "rmsql", "rmcrt", "auth", "ping", "stage", "post",
             "pkey", "write", "link", "commit", "return", "report"}
  /\ after \in {"auth", "again", "fail"}
  /\ todo \subseteq ServerFiles
  /\ handler \in {"off", "ready", "rmsql", "rmcrt", "exit"}
  /\ result \in {"none", "registered", "exists", "failed", "interrupted", "killed"}
  /\ faults \in 0 .. MaxFaults

Fault(kind) == kind \in MayFail /\ faults < MaxFaults /\ faults' = faults + 1

\* The attempt is over: the signal handler goes with the process, or with
\* unsetSignals.
End(how) == pc' = "out" /\ handler' = "off" /\ result' = how

\* sotaCleanup is called, and leads to where.
Cleanup(where) == pc' = "rmsql" /\ after' = where
-----------------------------------------------------------------------------
(* The attempt, until the signal handler is set.                           *)

\* fioup register
Begin(f) ==
  /\ pc = "out" /\ attempt < MaxAttempts
  /\ attempt' = attempt + 1 /\ force' = f
  /\ pc' = "status" /\ result' = "none" /\ stuck' = FALSE /\ recent' = {}
  /\ UNCHANGED <<diskVars, docker, staged, linked, devices, after, todo,
                 handler, faults>>

\* The options are wrong, the directory cannot be written to or another update
\* client is running.
Refuse ==
  /\ pc = "status" /\ Fault("refuse")
  /\ End("failed")
  /\ UNCHANGED <<diskVars, dockerVars, devices, runVars, after, todo, stuck>>

\* Mutant: the directory counts as new when one of the two files is missing.
IsNewOne == file[Pem] = 0 \/ sqldb = 0

\* checkSotaFiles
IsNew == file[Pem] = 0 /\ sqldb = 0

CheckSotaFiles ==
  /\ pc = "status"
  /\ \/ IsNew /\ pc' = "auth" /\ UNCHANGED <<after, handler, result>>
     \/ ~IsNew /\ ~force /\ End("exists") /\ UNCHANGED after
     \/ ~IsNew /\ force /\ Cleanup("auth") /\ UNCHANGED <<handler, result>>
  /\ UNCHANGED <<diskVars, dockerVars, devices, runVars, todo, stuck, faults>>

\* getOauthToken returns; meanwhile the loop asks again and again.
Authorized ==
  /\ pc = "auth"
  /\ pc' = "ping"
  /\ UNCHANGED <<diskVars, dockerVars, devices, runVars, after, todo, handler,
                 result, stuck, faults>>

\* authPingServer, then setSignals
Ping ==
  /\ pc = "ping"
  /\ pc' = "stage" /\ handler' = "ready"
  /\ UNCHANGED <<diskVars, dockerVars, devices, runVars, after, todo, result,
                 stuck, faults>>

Unreachable ==
  /\ pc \in {"auth", "ping"} /\ Fault("server")
  /\ End("failed")
  /\ UNCHANGED <<diskVars, dockerVars, devices, runVars, after, todo, stuck>>
-----------------------------------------------------------------------------
(* From the key to the commit.                                             *)

\* Mutant: a file left by an earlier attempt is used.
StageOnce ==
  /\ pc = "stage"
  /\ staged' = IF staged = Unstaged THEN docker \union {"hub"} ELSE staged
  /\ pc' = "post"
  /\ UNCHANGED <<diskVars, docker, linked, recent, devices, runVars, after, todo,
                 handler, result, stuck, faults>>

\* Mutant: a configuration that has the entry is not staged.
StageIfMissing ==
  /\ pc = "stage"
  /\ staged' = IF "hub" \in docker THEN staged ELSE docker \union {"hub"}
  /\ pc' = "post"
  /\ UNCHANGED <<diskVars, docker, linked, recent, devices, runVars, after, todo,
                 handler, result, stuck, faults>>

\* openSSLCreateCSR and stageDockerChanges
Stage ==
  /\ pc = "stage"
  /\ staged' = docker \union {"hub"}
  /\ pc' = "post"
  /\ UNCHANGED <<diskVars, docker, linked, recent, devices, runVars, after, todo,
                 handler, result, stuck, faults>>

\* authRegisterDevice
Post ==
  /\ pc = "post"
  /\ devices' = devices \union {attempt}
  /\ pc' = "pkey"
  /\ UNCHANGED <<diskVars, dockerVars, runVars, after, todo, handler, result,
                 stuck, faults>>

\* The request or its answer is lost, or the server refuses.
PostFails ==
  /\ pc = "post" /\ Fault("server")
  /\ devices' \in {devices, devices \union {attempt}}
  /\ Cleanup("fail")
  /\ UNCHANGED <<diskVars, dockerVars, runVars, todo, handler, result, stuck>>

\* populateSotaDir: first the key, then the files of the answer in any order.
WriteKey ==
  /\ pc = "pkey"
  /\ file' = [file EXCEPT ![Key] = attempt]
  /\ pc' = "write" /\ todo' = ServerFiles
  /\ UNCHANGED <<sqldb, dockerVars, devices, runVars, after, handler, result,
                 stuck, faults>>

WriteFile ==
  /\ pc = "write"
  /\ \E f \in todo :
       /\ file' = [file EXCEPT ![f] = attempt]
       /\ todo' = todo \ {f}
  /\ UNCHANGED <<sqldb, dockerVars, devices, runVars, pc, after, handler, result,
                 stuck, faults>>

AllWritten ==
  /\ pc = "write" /\ todo = {}
  /\ pc' = "link"
  /\ UNCHANGED <<diskVars, dockerVars, devices, runVars, after, todo, handler,
                 result, stuck, faults>>

StageFails ==
  /\ pc = "stage" /\ Fault("stage")
  /\ Cleanup("fail")
  /\ UNCHANGED <<diskVars, dockerVars, devices, runVars, todo, handler, result, stuck>>

\* Mutant: the error is returned without removing what was written.
WriteFailsOnly ==
  /\ pc \in {"pkey", "write"} /\ Fault("write")
  /\ End("failed")
  /\ todo' = {}
  /\ UNCHANGED <<diskVars, dockerVars, devices, runVars, after, stuck>>

\* populateSotaDir cleans up itself unless it was the key, and its caller does.
WriteFails ==
  /\ pc = "pkey" \/ (pc = "write" /\ todo # {})
  /\ Fault("write")
  /\ Cleanup(IF pc = "pkey" THEN "fail" ELSE "again")
  /\ todo' = {}
  /\ UNCHANGED <<diskVars, dockerVars, devices, runVars, handler, result, stuck>>

\* commitDockerChanges: the link, then the rename of config.json.tmp.
Link ==
  /\ pc = "link"
  /\ linked' = TRUE
  /\ pc' = "commit"
  /\ UNCHANGED <<diskVars, docker, staged, recent, devices, runVars, after, todo,
                 handler, result, stuck, faults>>

Commit ==
  /\ pc = "commit"
  /\ docker' = staged /\ staged' = Unstaged
  /\ pc' = "return"
  /\ UNCHANGED <<diskVars, linked, recent, devices, runVars, after, todo, handler,
                 result, stuck, faults>>

\* Mutant: the error is logged only.
CommitFailsLogged ==
  /\ pc \in {"link", "commit"} /\ Fault("commit")
  /\ pc' = "return"
  /\ UNCHANGED <<diskVars, dockerVars, devices, runVars, after, todo, handler,
                 result, stuck>>

\* A link that is there already, but is not found in the PATH, makes the command say
\* that the device was registered before.
CommitFails ==
  /\ pc \in {"link", "commit"} /\ Fault("commit")
  /\ End("failed") \/ (pc = "link" /\ End("exists"))
  /\ UNCHANGED <<diskVars, dockerVars, devices, runVars, after, todo, stuck>>

\* RegisterDevice returns; a handler that has taken a signal goes on.  The
\* command says that the device is registered.
Return ==
  /\ pc = "return"
  /\ pc' = "report" /\ result' = "registered"
  /\ handler' = IF handler = "ready" THEN "off" ELSE handler
  /\ UNCHANGED <<diskVars, dockerVars, devices, runVars, after, todo, stuck, faults>>

\* The command has sent the sysinfo, or failed to.
Exit ==
  /\ pc = "report"
  /\ pc' = "out" /\ handler' = "off"
  /\ UNCHANGED <<diskVars, dockerVars, devices, runVars, after, todo, result,
                 stuck, faults>>
-----------------------------------------------------------------------------
(* sotaCleanup, called by the main goroutine: first sql.db, then client.pem. *)

RemoveSql ==
  /\ pc = "rmsql"
  /\ sqldb' = 0
  /\ pc' = "rmcrt"
  /\ UNCHANGED <<file, dockerVars, devices, runVars, after, todo, handler, result,
                 stuck, faults>>

\* What follows: the authorization, once more from the start, or the return of
\* the error.
GoOn ==
  \/ after = "auth"  /\ pc' = "auth" /\ UNCHANGED <<after, handler, result>>
  \/ after = "again" /\ Cleanup("fail") /\ UNCHANGED <<handler, result>>
  \/ after = "fail"  /\ End("failed") /\ UNCHANGED after

\* Mutant: only sql.db is removed.
KeepCrt ==
  /\ pc = "rmcrt"
  /\ GoOn
  /\ UNCHANGED <<diskVars, dockerVars, devices, runVars, todo, stuck, faults>>

RemoveCrt ==
  /\ pc = "rmcrt"
  /\ file' = [file EXCEPT ![Pem] = 0]
  /\ GoOn
  /\ UNCHANGED <<sqldb, dockerVars, devices, runVars, todo, stuck, faults>>

\* Mutant: --force goes on with what it could not remove.
RemoveFailsLogged ==
  /\ \/ pc = "rmsql" /\ sqldb # 0 /\ pc' = "rmcrt" /\ UNCHANGED <<after, handler, result>>
     \/ pc = "rmcrt" /\ file[Pem] # 0 /\ GoOn
  /\ Fault("remove")
  /\ stuck' = TRUE
  /\ UNCHANGED <<diskVars, dockerVars, devices, runVars, todo>>

\* A file that exists cannot be removed: the rest stays, and --force fails.
RemoveFails ==
  /\ \/ pc = "rmsql" /\ sqldb # 0
     \/ pc = "rmcrt" /\ file[Pem] # 0
  /\ Fault("remove")
  /\ stuck' = TRUE
  /\ IF after = "auth" THEN End("failed") /\ UNCHANGED after ELSE GoOn
  /\ UNCHANGED <<diskVars, dockerVars, devices, runVars, todo>>
-----------------------------------------------------------------------------
(* The signal handler: sotaCleanup, then os.Exit(1).                       *)

TakeSigint ==
  /\ handler = "ready" /\ Fault("sigint")
  /\ handler' = "rmsql"
  /\ UNCHANGED <<diskVars, dockerVars, devices, runVars, pc, after, todo, result, stuck>>

HandlerSql ==
  /\ handler = "rmsql"
  /\ sqldb' = 0
  /\ handler' = "rmcrt"
  /\ UNCHANGED <<file, dockerVars, devices, runVars, pc, after, todo, result,
                 stuck, faults>>

HandlerCrt ==
  /\ handler = "rmcrt"
  /\ file' = [file EXCEPT ![Pem] = 0]
  /\ handler' = "exit"
  /\ UNCHANGED <<sqldb, dockerVars, devices, runVars, pc, after, todo, result,
                 stuck, faults>>

HandlerFails ==
  /\ \/ handler = "rmsql" /\ sqldb # 0
     \/ handler = "rmcrt" /\ file[Pem] # 0
  /\ Fault("remove")
  /\ handler' = "exit" /\ stuck' = TRUE
  /\ UNCHANGED <<diskVars, dockerVars, devices, runVars, pc, after, todo, result>>

HandlerExits ==
  /\ handler = "exit"
  /\ End("interrupted")
  /\ UNCHANGED <<diskVars, dockerVars, devices, runVars, after, todo, stuck, faults>>

\* SIGTERM, SIGINT while no handler is set, power loss.
Kill ==
  /\ pc # "out" /\ Fault("kill")
  /\ End("killed")
  /\ UNCHANGED <<diskVars, dockerVars, devices, runVars, after, todo, stuck>>
-----------------------------------------------------------------------------
(* Others.                                                                 *)

\* The other commands accept the directory: there is a configuration, and a
\* certificate with its key.
Usable == file[Toml] # 0 /\ file[Pem] # 0 /\ file[Pem] = file[Key]

\* Such a command creates the database, if there is none.
UseDevice ==
  /\ pc = "out" /\ Usable
  /\ sqldb' = IF sqldb = 0 THEN file[Pem] ELSE sqldb
  /\ UNCHANGED <<file, dockerVars, devices, runVars, pc, after, todo, handler,
                 result, stuck, faults>>

\* docker login, at any time
DockerLogin ==
  /\ \E l \in Logins \ docker :
       docker' = docker \union {l} /\ recent' = recent \union {l}
  /\ UNCHANGED <<diskVars, staged, linked, devices, runVars, pc, after, todo,
                 handler, result, stuck, faults>>

Init ==
  /\ file = [f \in {Pem, Key, Toml} |-> 0] /\ sqldb = 0
  /\ docker = {} /\ staged = Unstaged /\ linked = FALSE /\ recent = {}
  /\ devices = {} /\ attempt = 0 /\ force = FALSE
  /\ pc = "out" /\ after = "fail" /\ todo = {} /\ handler = "off"
  /\ result = "none" /\ stuck = FALSE /\ faults = 0

Main ==
  \/ Refuse \/ CheckSotaFiles \/ Authorized \/ Ping \/ Unreachable
  \/ Stage \/ StageFails \/ Post \/ PostFails
  \/ WriteKey \/ WriteFile \/ AllWritten \/ WriteFails
  \/ Link \/ Commit \/ CommitFails \/ Return \/ Exit
  \/ RemoveSql \/ RemoveCrt \/ RemoveFails

Handler == HandlerSql \/ HandlerCrt \/ HandlerFails \/ HandlerExits

Next ==
  \/ \E f \in BOOLEAN : Begin(f)
  \/ Main \/ TakeSigint \/ Handler \/ Kill
  \/ UseDevice \/ DockerLogin

Spec == Init /\ [][Next]_vars
-----------------------------------------------------------------------------
(* Properties.                                                             *)

Complete == \A f \in {Pem, Key, Toml} : file[f] = attempt

\* A certificate is never there with the key of another attempt, at no moment of
\* a registration that replaces another one, whatever fails.
KeyMatchesCertificate == file[Pem] # 0 => file[Key] = file[Pem]

\* The database, with the events in it, is that of the device whose certificate is
\* there, whatever an attempt could not remove and wherever it was killed: a new
\* device starts without the events of the one it replaces.
DatabaseOfDevice == sqldb # 0 => file[Pem] = sqldb

\* A registered device loses its certificate only to --force or to the attempt
\* that wrote it, although the clean-up does not look at what it removes.
OnlyForceUnregisters ==
  [][file[Pem] # 0 /\ file'[Pem] = 0 => force \/ file[Pem] = attempt]_vars

\* When the command says that the device is registered, and no signal came before
\* (whose handler may still remove the certificate), everything of this attempt is
\* in its place.
RegisteredIsComplete ==
  pc = "report" /\ handler = "off" =>
    Complete /\ attempt \in devices /\ "hub" \in docker /\ linked

\* An attempt that returned an error, be it that the device was registered before, left
\* its certificate only when it could not remove it, or as part of a complete set of
\* files.
FailedIsAllOrNothing ==
  result \in {"failed", "exists"} /\ ~stuck /\ file[Pem] = attempt => Complete

\* Replacing config.json loses no entry that was there before the attempt.
OldLoginsAreKept == [][docker \ docker' \subseteq recent]_vars

\* What a message of the code says, and what does not hold.

\* "Device already registered": then the other commands accept it.
RefusedIsRegistered == result = "exists" => Usable
=============================================================================
