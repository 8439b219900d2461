------------------------- MODULE RegistrationProofs -------------------------
(***************************************************************************)
(* Proofs about registration, for any number of attempts and failures.     *)
(***************************************************************************)
EXTENDS Registration, TLAPS

\* Where the files of the answer are being, or have been, written.
Storing == {"write", "link", "commit", "return", "report"}
Cleaning == {"rmsql", "rmcrt"}

\* Where the certificate is absent: after the check that there is none.
Blank == {"auth", "ping", "stage", "post", "pkey"}

\* The signal handler is set only while the certificate, if there is one, is that
\* of the attempt.
FileInv ==
  /\ pc \in Blank => file[Pem] = 0
  /\ pc \in Storing => file[Key] = attempt /\ file[Pem] \in {0, attempt}
  /\ pc \in Cleaning /\ after = "auth" => force
  /\ pc \in Cleaning /\ after # "auth" => file[Pem] \in {0, attempt}
  /\ handler # "off" => \/ pc \in (Blank \ {"auth", "ping"}) \union Storing
                        \/ pc \in Cleaning /\ after # "auth"
  /\ KeyMatchesCertificate

\* Until an attempt stores something, the files are of earlier ones.
EarlierInv ==
  /\ \A f \in {Pem, Key, Toml} : file[f] <= attempt
  /\ pc = "status" \/ (pc \in Cleaning /\ after = "auth") =>
       \A f \in {Pem, Key, Toml} : file[f] < attempt
  /\ pc = "write" => Toml \in todo \/ file[Toml] = attempt
  /\ pc \in Storing \ {"write"} => file[Toml] = attempt
  /\ pc # "out" => attempt > 0

\* What has been done when the command says so.
DoneInv ==
  /\ pc \notin {"out", "report"} => result = "none"
  /\ pc = "report" => result = "registered"
  /\ pc \in Storing \ {"report"} => handler # "off"
  /\ pc \in {"stage", "post", "pkey"} => handler # "off"
  /\ pc = "write" /\ handler = "ready" => Pem \in todo \/ file[Pem] = attempt
  /\ pc \in {"link", "commit", "return"} /\ handler = "ready" => file[Pem] = attempt
  /\ pc = "report" => handler # "ready"
  /\ pc \in Storing \union {"pkey"} => attempt \in devices
  /\ pc \in {"commit", "return", "report"} => linked
  /\ pc \in {"return", "report"} => "hub" \in docker
  /\ RegisteredIsComplete
  /\ FailedIsAllOrNothing

\* What is about to replace config.json has all that was there before.
StagedInv ==
  pc \in {"post", "pkey", "write", "link", "commit"} =>
    "hub" \in staged /\ docker \ staged \subseteq recent

\* The database is removed before the certificate, and there is none while an attempt
\* writes another.
DatabaseInv ==
  /\ DatabaseOfDevice
  /\ pc \in Blank \union Storing \union {"rmcrt"} => sqldb = 0
  /\ pc \in Cleaning /\ after # "auth" => sqldb = 0

IInv == TypeOK /\ FileInv /\ EarlierInv /\ DoneInv /\ StagedInv /\ DatabaseInv
-----------------------------------------------------------------------------
\* Every step keeps the types.
LEMMA TypeStep ==
  ASSUME RegistrationAssumption, IInv, [Next]_vars
  PROVE  TypeOK'
<1>. USE DEF IInv, TypeOK, RegistrationAssumption, ServerFiles, Unstaged, Pem,
     Key, Toml, diskVars, dockerVars, runVars
<1>1. ASSUME NEW f \in BOOLEAN, Begin(f)  PROVE TypeOK'
  <2>1. attempt' \in 0 .. MaxAttempts
    BY <1>1 DEF Begin
  <2>2. recent' \subseteq Logins
    BY <1>1 DEF Begin
  <2>. QED BY <1>1, <2>1, <2>2 DEF Begin
<1>2. CASE Refuse
  BY <1>2 DEF Refuse, Fault, End
<1>3. CASE CheckSotaFiles
  BY <1>3 DEF CheckSotaFiles, End, Cleanup, IsNew
<1>4. CASE Authorized
  BY <1>4 DEF Authorized
<1>5. CASE Ping
  BY <1>5 DEF Ping
<1>6. CASE Unreachable
  BY <1>6 DEF Unreachable, Fault, End
<1>7. CASE Stage
  BY <1>7 DEF Stage
<1>8. CASE StageFails
  BY <1>8 DEF StageFails, Fault, Cleanup
<1>9. CASE Post
  BY <1>9 DEF Post, EarlierInv
<1>10. CASE PostFails
  BY <1>10 DEF PostFails, Fault, Cleanup, EarlierInv
<1>11. CASE WriteKey
  BY <1>11 DEF WriteKey
<1>12. CASE WriteFile
  BY <1>12 DEF WriteFile
<1>13. CASE AllWritten
  BY <1>13 DEF AllWritten
<1>14. CASE WriteFails
  BY <1>14 DEF WriteFails, Fault, Cleanup
<1>15. CASE Link
  BY <1>15 DEF Link
<1>16. CASE Commit
  BY <1>16 DEF Commit, StagedInv
<1>17. CASE CommitFails
  BY <1>17 DEF CommitFails, Fault, End
<1>18. CASE Return
  BY <1>18 DEF Return
<1>19. CASE Exit
  BY <1>19 DEF Exit
<1>20. CASE RemoveSql
  BY <1>20 DEF RemoveSql
<1>21. CASE RemoveCrt
  BY <1>21 DEF RemoveCrt, End, Cleanup, GoOn
<1>22. CASE RemoveFails
  BY <1>22 DEF RemoveFails, Fault, End, Cleanup, GoOn
<1>23. CASE HandlerSql
  BY <1>23 DEF HandlerSql
<1>24. CASE HandlerCrt
  BY <1>24 DEF HandlerCrt
<1>25. CASE HandlerFails
  BY <1>25 DEF HandlerFails, Fault
<1>26. CASE HandlerExits
  BY <1>26 DEF HandlerExits, End
<1>27. CASE TakeSigint
  BY <1>27 DEF TakeSigint, Fault
<1>28. CASE Kill
  BY <1>28 DEF Kill, Fault, End
<1>29. CASE UseDevice
  BY <1>29 DEF UseDevice
<1>30. CASE DockerLogin
  BY <1>30 DEF DockerLogin
<1>31. CASE UNCHANGED vars
  BY <1>31 DEF vars
<1>. QED BY <1>1, <1>2, <1>3, <1>4, <1>5, <1>6, <1>7, <1>8, <1>9, <1>10, <1>11,
     <1>12, <1>13, <1>14, <1>15, <1>16, <1>17, <1>18, <1>19, <1>20, <1>21, <1>22,
     <1>23, <1>24, <1>25, <1>26, <1>27, <1>28, <1>29, <1>30, <1>31 DEF Next, Main,
     Handler

\* Every step keeps the certificate and its key together.
LEMMA FileStep ==
  ASSUME RegistrationAssumption, IInv, [Next]_vars
  PROVE  FileInv'
<1>. USE DEF IInv, TypeOK, FileInv, KeyMatchesCertificate, Storing, Cleaning,
     Blank, ServerFiles, Pem, Key, Toml, diskVars, dockerVars, runVars
<1>1. ASSUME NEW f \in BOOLEAN, Begin(f)  PROVE FileInv'
  BY <1>1 DEF Begin
<1>2. CASE Refuse
  BY <1>2 DEF Refuse, Fault, End
<1>3. CASE CheckSotaFiles
  BY <1>3 DEF CheckSotaFiles, End, Cleanup, IsNew
<1>4. CASE Authorized
  BY <1>4 DEF Authorized
<1>5. CASE Ping
  BY <1>5 DEF Ping
<1>6. CASE Unreachable
  BY <1>6 DEF Unreachable, Fault, End
<1>7. CASE Stage
  BY <1>7 DEF Stage
<1>8. CASE StageFails
  BY <1>8 DEF StageFails, Fault, Cleanup
<1>9. CASE Post
  BY <1>9 DEF Post, EarlierInv
<1>10. CASE PostFails
  BY <1>10 DEF PostFails, Fault, Cleanup, EarlierInv
<1>11. CASE WriteKey
  BY <1>11 DEF WriteKey
<1>12. CASE WriteFile
  BY <1>12 DEF WriteFile
<1>13. CASE AllWritten
  BY <1>13 DEF AllWritten
<1>14. CASE WriteFails
  BY <1>14 DEF WriteFails, Fault, Cleanup
<1>15. CASE Link
  BY <1>15 DEF Link
<1>16. CASE Commit
  BY <1>16 DEF Commit, StagedInv
<1>17. CASE CommitFails
  BY <1>17 DEF CommitFails, Fault, End
<1>18. CASE Return
  BY <1>18 DEF Return
<1>19. CASE Exit
  BY <1>19 DEF Exit
<1>20. CASE RemoveSql
  BY <1>20 DEF RemoveSql
<1>21. CASE RemoveCrt
  BY <1>21 DEF RemoveCrt, End, Cleanup, GoOn
<1>22. CASE RemoveFails
  BY <1>22 DEF RemoveFails, Fault, End, Cleanup, GoOn
<1>23. CASE HandlerSql
  BY <1>23 DEF HandlerSql
<1>24. CASE HandlerCrt
  BY <1>24 DEF HandlerCrt
<1>25. CASE HandlerFails
  BY <1>25 DEF HandlerFails, Fault
<1>26. CASE HandlerExits
  BY <1>26 DEF HandlerExits, End
<1>27. CASE TakeSigint
  BY <1>27 DEF TakeSigint, Fault
<1>28. CASE Kill
  BY <1>28 DEF Kill, Fault, End
<1>29. CASE UseDevice
  BY <1>29 DEF UseDevice
<1>30. CASE DockerLogin
  BY <1>30 DEF DockerLogin
<1>31. CASE UNCHANGED vars
  BY <1>31 DEF vars
<1>. QED BY <1>1, <1>2, <1>3, <1>4, <1>5, <1>6, <1>7, <1>8, <1>9, <1>10, <1>11,
     <1>12, <1>13, <1>14, <1>15, <1>16, <1>17, <1>18, <1>19, <1>20, <1>21, <1>22,
     <1>23, <1>24, <1>25, <1>26, <1>27, <1>28, <1>29, <1>30, <1>31 DEF Next, Main,
     Handler

\* Every step keeps what is known of the other files.
LEMMA EarlierStep ==
  ASSUME RegistrationAssumption, IInv, [Next]_vars
  PROVE  EarlierInv'
<1>. USE DEF IInv, TypeOK, FileInv, EarlierInv, Storing, Cleaning, Blank,
     ServerFiles, Pem, Key, Toml, diskVars, dockerVars, runVars
<1>1. ASSUME NEW f \in BOOLEAN, Begin(f)  PROVE EarlierInv'
  BY <1>1 DEF Begin
<1>2. CASE Refuse
  BY <1>2 DEF Refuse, Fault, End
<1>3. CASE CheckSotaFiles
  BY <1>3 DEF CheckSotaFiles, End, Cleanup, IsNew
<1>4. CASE Authorized
  BY <1>4 DEF Authorized
<1>5. CASE Ping
  BY <1>5 DEF Ping
<1>6. CASE Unreachable
  BY <1>6 DEF Unreachable, Fault, End
<1>7. CASE Stage
  BY <1>7 DEF Stage
<1>8. CASE StageFails
  BY <1>8 DEF StageFails, Fault, Cleanup
<1>9. CASE Post
  BY <1>9 DEF Post
<1>10. CASE PostFails
  BY <1>10 DEF PostFails, Fault, Cleanup
<1>11. CASE WriteKey
  BY <1>11 DEF WriteKey
<1>12. CASE WriteFile
  BY <1>12 DEF WriteFile
<1>13. CASE AllWritten
  BY <1>13 DEF AllWritten
<1>14. CASE WriteFails
  BY <1>14 DEF WriteFails, Fault, Cleanup
<1>15. CASE Link
  BY <1>15 DEF Link
<1>16. CASE Commit
  BY <1>16 DEF Commit, StagedInv
<1>17. CASE CommitFails
  BY <1>17 DEF CommitFails, Fault, End
<1>18. CASE Return
  BY <1>18 DEF Return
<1>19. CASE Exit
  BY <1>19 DEF Exit
<1>20. CASE RemoveSql
  BY <1>20 DEF RemoveSql
<1>21. CASE RemoveCrt
  BY <1>21 DEF RemoveCrt, End, Cleanup, GoOn
<1>22. CASE RemoveFails
  BY <1>22 DEF RemoveFails, Fault, End, Cleanup, GoOn
<1>23. CASE HandlerSql
  BY <1>23 DEF HandlerSql
<1>24. CASE HandlerCrt
  BY <1>24 DEF HandlerCrt
<1>25. CASE HandlerFails
  BY <1>25 DEF HandlerFails, Fault
<1>26. CASE HandlerExits
  BY <1>26 DEF HandlerExits, End
<1>27. CASE TakeSigint
  BY <1>27 DEF TakeSigint, Fault
<1>28. CASE Kill
  BY <1>28 DEF Kill, Fault, End
<1>29. CASE UseDevice
  BY <1>29 DEF UseDevice
<1>30. CASE DockerLogin
  BY <1>30 DEF DockerLogin
<1>31. CASE UNCHANGED vars
  BY <1>31 DEF vars
<1>. QED BY <1>1, <1>2, <1>3, <1>4, <1>5, <1>6, <1>7, <1>8, <1>9, <1>10, <1>11,
     <1>12, <1>13, <1>14, <1>15, <1>16, <1>17, <1>18, <1>19, <1>20, <1>21, <1>22,
     <1>23, <1>24, <1>25, <1>26, <1>27, <1>28, <1>29, <1>30, <1>31 DEF Next, Main,
     Handler

\* Every step keeps what has been done when the command says so.
LEMMA DoneStep ==
  ASSUME RegistrationAssumption, IInv, [Next]_vars
  PROVE  DoneInv'
<1>. USE DEF IInv, TypeOK, FileInv, EarlierInv, DoneInv, StagedInv,
     RegisteredIsComplete, FailedIsAllOrNothing, Complete, Storing, Cleaning,
     Blank, ServerFiles, Pem, Key, Toml, diskVars, dockerVars, runVars
<1>1. ASSUME NEW f \in BOOLEAN, Begin(f)  PROVE DoneInv'
  BY <1>1 DEF Begin
<1>2. CASE Refuse
  BY <1>2 DEF Refuse, Fault, End
<1>3. CASE CheckSotaFiles
  BY <1>3 DEF CheckSotaFiles, End, Cleanup, IsNew
<1>4. CASE Authorized
  BY <1>4 DEF Authorized
<1>5. CASE Ping
  BY <1>5 DEF Ping
<1>6. CASE Unreachable
  BY <1>6 DEF Unreachable, Fault, End
<1>7. CASE Stage
  BY <1>7 DEF Stage
<1>8. CASE StageFails
  BY <1>8 DEF StageFails, Fault, Cleanup
<1>9. CASE Post
  BY <1>9 DEF Post
<1>10. CASE PostFails
  BY <1>10 DEF PostFails, Fault, Cleanup
<1>11. CASE WriteKey
  BY <1>11 DEF WriteKey
<1>12. CASE WriteFile
  BY <1>12 DEF WriteFile
<1>13. CASE AllWritten
  BY <1>13 DEF AllWritten
<1>14. CASE WriteFails
  BY <1>14 DEF WriteFails, Fault, Cleanup
<1>15. CASE Link
  BY <1>15 DEF Link
<1>16. CASE Commit
  BY <1>16 DEF Commit
<1>17. CASE CommitFails
  BY <1>17 DEF CommitFails, Fault, End
<1>18. CASE Return
  BY <1>18 DEF Return
<1>19. CASE Exit
  BY <1>19 DEF Exit
<1>20. CASE RemoveSql
  BY <1>20 DEF RemoveSql
<1>21. CASE RemoveCrt
  BY <1>21 DEF RemoveCrt, End, Cleanup, GoOn
<1>22. CASE RemoveFails
  BY <1>22 DEF RemoveFails, Fault, End, Cleanup, GoOn
<1>23. CASE HandlerSql
  BY <1>23 DEF HandlerSql
<1>24. CASE HandlerCrt
  BY <1>24 DEF HandlerCrt
<1>25. CASE HandlerFails
  BY <1>25 DEF HandlerFails, Fault
<1>26. CASE HandlerExits
  BY <1>26 DEF HandlerExits, End
<1>27. CASE TakeSigint
  BY <1>27 DEF TakeSigint, Fault
<1>28. CASE Kill
  BY <1>28 DEF Kill, Fault, End
<1>29. CASE UseDevice
  BY <1>29 DEF UseDevice
<1>30. CASE DockerLogin
  BY <1>30 DEF DockerLogin
<1>31. CASE UNCHANGED vars
  BY <1>31 DEF vars
<1>. QED BY <1>1, <1>2, <1>3, <1>4, <1>5, <1>6, <1>7, <1>8, <1>9, <1>10, <1>11,
     <1>12, <1>13, <1>14, <1>15, <1>16, <1>17, <1>18, <1>19, <1>20, <1>21, <1>22,
     <1>23, <1>24, <1>25, <1>26, <1>27, <1>28, <1>29, <1>30, <1>31 DEF Next, Main,
     Handler

\* Every step keeps what is about to replace config.json.
LEMMA StagedStep ==
  ASSUME RegistrationAssumption, IInv, [Next]_vars
  PROVE  StagedInv'
<1>. USE DEF IInv, TypeOK, StagedInv, Unstaged, diskVars, dockerVars, runVars
<1>1. ASSUME NEW f \in BOOLEAN, Begin(f)  PROVE StagedInv'
  BY <1>1 DEF Begin
<1>2. CASE Refuse
  BY <1>2 DEF Refuse, Fault, End
<1>3. CASE CheckSotaFiles
  BY <1>3 DEF CheckSotaFiles, End, Cleanup, IsNew
<1>4. CASE Authorized
  BY <1>4 DEF Authorized
<1>5. CASE Ping
  BY <1>5 DEF Ping
<1>6. CASE Unreachable
  BY <1>6 DEF Unreachable, Fault, End
<1>7. CASE Stage
  BY <1>7 DEF Stage
<1>8. CASE StageFails
  BY <1>8 DEF StageFails, Fault, Cleanup
<1>9. CASE Post
  BY <1>9 DEF Post, EarlierInv
<1>10. CASE PostFails
  BY <1>10 DEF PostFails, Fault, Cleanup, EarlierInv
<1>11. CASE WriteKey
  BY <1>11 DEF WriteKey
<1>12. CASE WriteFile
  BY <1>12 DEF WriteFile
<1>13. CASE AllWritten
  BY <1>13 DEF AllWritten
<1>14. CASE WriteFails
  BY <1>14 DEF WriteFails, Fault, Cleanup
<1>15. CASE Link
  BY <1>15 DEF Link
<1>16. CASE Commit
  BY <1>16 DEF Commit
<1>17. CASE CommitFails
  BY <1>17 DEF CommitFails, Fault, End
<1>18. CASE Return
  BY <1>18 DEF Return
<1>19. CASE Exit
  BY <1>19 DEF Exit
<1>20. CASE RemoveSql
  BY <1>20 DEF RemoveSql
<1>21. CASE RemoveCrt
  BY <1>21 DEF RemoveCrt, End, Cleanup, GoOn
<1>22. CASE RemoveFails
  BY <1>22 DEF RemoveFails, Fault, End, Cleanup, GoOn
<1>23. CASE HandlerSql
  BY <1>23 DEF HandlerSql
<1>24. CASE HandlerCrt
  BY <1>24 DEF HandlerCrt
<1>25. CASE HandlerFails
  BY <1>25 DEF HandlerFails, Fault
<1>26. CASE HandlerExits
  BY <1>26 DEF HandlerExits, End
<1>27. CASE TakeSigint
  BY <1>27 DEF TakeSigint, Fault
<1>28. CASE Kill
  BY <1>28 DEF Kill, Fault, End
<1>29. CASE UseDevice
  BY <1>29 DEF UseDevice
<1>30. CASE DockerLogin
  BY <1>30 DEF DockerLogin
<1>31. CASE UNCHANGED vars
  BY <1>31 DEF vars
<1>. QED BY <1>1, <1>2, <1>3, <1>4, <1>5, <1>6, <1>7, <1>8, <1>9, <1>10, <1>11,
     <1>12, <1>13, <1>14, <1>15, <1>16, <1>17, <1>18, <1>19, <1>20, <1>21, <1>22,
     <1>23, <1>24, <1>25, <1>26, <1>27, <1>28, <1>29, <1>30, <1>31 DEF Next, Main,
     Handler

\* Every step keeps the database that of the device.
LEMMA DatabaseStep ==
  ASSUME RegistrationAssumption, IInv, [Next]_vars
  PROVE  DatabaseInv'
<1>. USE DEF IInv, TypeOK, FileInv, EarlierInv, DatabaseInv, DatabaseOfDevice, Storing,
     Cleaning, Blank, ServerFiles, Pem, Key, Toml, diskVars, dockerVars, runVars
<1>1. ASSUME NEW f \in BOOLEAN, Begin(f)  PROVE DatabaseInv'
  BY <1>1 DEF Begin
<1>2. CASE Refuse
  BY <1>2 DEF Refuse, Fault, End
<1>3. CASE CheckSotaFiles
  BY <1>3 DEF CheckSotaFiles, End, Cleanup, IsNew
<1>4. CASE Authorized
  BY <1>4 DEF Authorized
<1>5. CASE Ping
  BY <1>5 DEF Ping
<1>6. CASE Unreachable
  BY <1>6 DEF Unreachable, Fault, End
<1>7. CASE Stage
  BY <1>7 DEF Stage
<1>8. CASE StageFails
  BY <1>8 DEF StageFails, Fault, Cleanup
<1>9. CASE Post
  BY <1>9 DEF Post, EarlierInv
<1>10. CASE PostFails
  BY <1>10 DEF PostFails, Fault, Cleanup, EarlierInv
<1>11. CASE WriteKey
  BY <1>11 DEF WriteKey
<1>12. CASE WriteFile
  BY <1>12 DEF WriteFile
<1>13. CASE AllWritten
  BY <1>13 DEF AllWritten
<1>14. CASE WriteFails
  BY <1>14 DEF WriteFails, Fault, Cleanup
<1>15. CASE Link
  BY <1>15 DEF Link
<1>16. CASE Commit
  BY <1>16 DEF Commit
<1>17. CASE CommitFails
  BY <1>17 DEF CommitFails, Fault, End
<1>18. CASE Return
  BY <1>18 DEF Return
<1>19. CASE Exit
  BY <1>19 DEF Exit
<1>20. CASE RemoveSql
  BY <1>20 DEF RemoveSql
<1>21. CASE RemoveCrt
  BY <1>21 DEF RemoveCrt, End, Cleanup, GoOn
<1>22. CASE RemoveFails
  BY <1>22 DEF RemoveFails, Fault, End, Cleanup, GoOn
<1>23. CASE HandlerSql
  BY <1>23 DEF HandlerSql
<1>24. CASE HandlerCrt
  BY <1>24 DEF HandlerCrt
<1>25. CASE HandlerFails
  BY <1>25 DEF HandlerFails, Fault
<1>26. CASE HandlerExits
  BY <1>26 DEF HandlerExits, End
<1>27. CASE TakeSigint
  BY <1>27 DEF TakeSigint, Fault
<1>28. CASE Kill
  BY <1>28 DEF Kill, Fault, End
<1>29. CASE UseDevice
  BY <1>29 DEF UseDevice, Usable
<1>30. CASE DockerLogin
  BY <1>30 DEF DockerLogin
<1>31. CASE UNCHANGED vars
  BY <1>31 DEF vars
<1>. QED BY <1>1, <1>2, <1>3, <1>4, <1>5, <1>6, <1>7, <1>8, <1>9, <1>10, <1>11,
     <1>12, <1>13, <1>14, <1>15, <1>16, <1>17, <1>18, <1>19, <1>20, <1>21, <1>22,
     <1>23, <1>24, <1>25, <1>26, <1>27, <1>28, <1>29, <1>30, <1>31 DEF Next, Main,
     Handler

LEMMA InitInv == ASSUME RegistrationAssumption, Init PROVE IInv
<1>1. TypeOK
  <2>1. 0 \in 0 .. MaxAttempts /\ 0 \in 0 .. MaxFaults
    BY DEF RegistrationAssumption
  <2>2. file \in [{Pem, Key, Toml} -> 0 .. MaxAttempts]
    BY <2>1 DEF Init
  <2>. QED BY <2>1, <2>2 DEF Init, TypeOK, Unstaged
<1>2. FileInv /\ EarlierInv
  BY <1>1 DEF Init, TypeOK, FileInv, EarlierInv, KeyMatchesCertificate, Storing,
              Cleaning, Blank, Pem, Key, Toml
<1>3. DoneInv
  BY DEF Init, DoneInv, RegisteredIsComplete, FailedIsAllOrNothing, Storing
<1>4. StagedInv
  BY DEF Init, StagedInv
<1>5. DatabaseInv
  BY DEF Init, DatabaseInv, DatabaseOfDevice, Blank, Storing, Cleaning
<1>. QED BY <1>1, <1>2, <1>3, <1>4, <1>5 DEF IInv

LEMMA Invariant == Spec => []IInv
<1>1. Init => IInv
  BY InitInv, RegistrationAssumption
<1>2. IInv /\ [Next]_vars => IInv'
  BY TypeStep, FileStep, EarlierStep, DoneStep, StagedStep, DatabaseStep,
     RegistrationAssumption DEF IInv
<1>. QED BY <1>1, <1>2, PTL DEF Spec
-----------------------------------------------------------------------------
\* The variables stay in their types, in any number of attempts.
THEOREM RegistrationTypeCorrect == Spec => []TypeOK
<1>1. IInv => TypeOK
  BY DEF IInv
<1>. QED BY <1>1, Invariant, PTL

\* A certificate is never there with the key of another attempt, although key and
\* certificate are replaced one after the other and any step may be the last.
THEOREM KeyAndCertificateMatch == Spec => []KeyMatchesCertificate
<1>1. IInv => KeyMatchesCertificate
  BY DEF IInv, FileInv
<1>. QED BY <1>1, Invariant, PTL

\* The database that is there is that of the device whose certificate is, whatever could
\* not be removed and wherever an attempt was killed.
THEOREM DatabaseIsOfDevice == Spec => []DatabaseOfDevice
<1>1. IInv => DatabaseOfDevice
  BY DEF IInv, DatabaseInv
<1>. QED BY <1>1, Invariant, PTL

\* When the command says that the device is registered, it is, unless a signal
\* came before.
THEOREM RegisteredIsTrue == Spec => []RegisteredIsComplete
<1>1. IInv => RegisteredIsComplete
  BY DEF IInv, DoneInv
<1>. QED BY <1>1, Invariant, PTL

\* An error leaves no certificate of its attempt without the other files, unless
\* a file could not be removed.
THEOREM FailureIsAllOrNothing == Spec => []FailedIsAllOrNothing
<1>1. IInv => FailedIsAllOrNothing
  BY DEF IInv, DoneInv
<1>. QED BY <1>1, Invariant, PTL

\* Neither the clean-up of an attempt nor that of its signal handler removes the
\* certificate of an earlier registration, unless --force asked for it.
THEOREM RegistrationIsKept == Spec => OnlyForceUnregisters
<1>. DEFINE Kept == file[Pem] # 0 /\ file'[Pem] = 0 => force \/ file[Pem] = attempt
<1>1. ASSUME IInv, [Next]_vars  PROVE [Kept]_vars
  <2>. SUFFICES ASSUME file[Pem] # 0, file'[Pem] = 0  PROVE force \/ file[Pem] =
       attempt
    OBVIOUS
  <2>1. file \in [{Pem, Key, Toml} -> 0 .. MaxAttempts] /\ attempt \in 0 ..
       MaxAttempts
    BY <1>1 DEF IInv, TypeOK
  <2>2. file' # file
    OBVIOUS
  <2>3. CASE RemoveCrt
    BY <1>1, <2>3 DEF RemoveCrt, IInv, FileInv, Cleaning
  <2>4. CASE HandlerCrt
    BY <1>1, <2>4 DEF HandlerCrt, IInv, FileInv, Cleaning, Blank, Storing
  <2>5. CASE WriteKey \/ WriteFile
    <3>1. attempt > 0
      BY <1>1, <2>5 DEF WriteKey, WriteFile, IInv, EarlierInv
    <3>. QED BY <1>1, <2>1, <2>5, <3>1 DEF WriteKey, WriteFile, IInv, FileInv,
                Storing, Blank, Pem, Key, Toml
  <2>6. \/ RemoveCrt \/ HandlerCrt \/ WriteKey \/ WriteFile
        \/ UNCHANGED file
    BY <1>1 DEF Next, Main, Handler, Begin, Refuse, CheckSotaFiles, Authorized,
         Ping,
       Unreachable, Stage, StageFails, Post, PostFails, AllWritten, WriteFails,
            Link,
       Commit, CommitFails, Return, Exit, RemoveSql, RemoveFails, HandlerSql,
       HandlerFails, HandlerExits, TakeSigint, Kill, UseDevice, DockerLogin,
            diskVars,
       vars
  <2>. QED BY <2>2, <2>3, <2>4, <2>5, <2>6
<1>. QED BY <1>1, Invariant, PTL DEF Spec, OnlyForceUnregisters

\* Replacing Docker's configuration loses only entries that were added since the
\* attempt began.
THEOREM DockerLoginsAreKept == Spec => OldLoginsAreKept
<1>1. ASSUME IInv, [Next]_vars  PROVE [docker \ docker' \subseteq recent]_vars
  <2>1. CASE Commit
    BY <1>1, <2>1 DEF Commit, IInv, StagedInv
  <2>2. CASE DockerLogin
    BY <2>2 DEF DockerLogin
  <2>3. Commit \/ DockerLogin \/ UNCHANGED docker
    BY <1>1 DEF Next, Main, Handler, Begin, Refuse, CheckSotaFiles, Authorized,
         Ping,
       Unreachable, Stage, StageFails, Post, PostFails, WriteKey, WriteFile,
            AllWritten,
       WriteFails, Link, CommitFails, Return, Exit, RemoveSql, RemoveCrt,
            RemoveFails,
       HandlerSql, HandlerCrt, HandlerFails, HandlerExits, TakeSigint, Kill,
            UseDevice,
       dockerVars, vars
  <2>. QED BY <2>1, <2>2, <2>3
<1>. QED BY <1>1, Invariant, PTL DEF Spec, OldLoginsAreKept
=============================================================================
