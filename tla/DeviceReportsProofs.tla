------------------------- MODULE DeviceReportsProofs -------------------------
(***************************************************************************)
(* Proofs about the reports of the device, for any changes, failures and   *)
(* new registrations.                                                      *)
(***************************************************************************)
EXTENDS DeviceReports, TLAPS

\* The files will be looked at as they are.
Trusted == db \/ pc \notin {"out", "client"}

\* A value that is being saved is one of its kind and was given to the gateway.
SentInv ==
  /\ \A k \in Kinds : file[k] \in Value(k) \union {None, Torn}
  /\ sent # None => Uploading /\ sent \in given[Kind] /\ sent \in Value(Kind)

\* Until an older value stands as the last reported, the gateway shows what is saved
\* or being saved.
ViewInv ==
  ~unsaved =>
    /\ sent # None => sent = gw[Kind]
    /\ Trusted => \A k \in Kinds :
         file[k] \in Value(k) /\ (sent = None \/ k # Kind) => file[k] = gw[k]

\* What the client remembers: the states of the apps that the gateway shows, and of a
\* kind it looks at once, that there is nothing to report if the gateway has it.
MemInv ==
  /\ \A k \in Kinds : dev[k] \in Value(k) \union {None}
  /\ \A k \in AtOnce : found[k] \in Value(k) \union {None}
  /\ pc \notin {"out", "client"} =>
       /\ \A k \in AtOnce :
            /\ mem[k] \in {None, found[k]}
            /\ ~unsaved /\ mem[k] = None /\ found[k] # None => gw[k] = found[k]
       /\ ~unsaved /\ mem["apps"] # None /\ (sent = None \/ Kind # "apps") =>
            mem["apps"] = gw["apps"]

IInv == TypeOK /\ SentInv /\ ViewInv /\ NoFalseClaim /\ MemInv
-----------------------------------------------------------------------------
\* The values that are sent are neither None nor Torn.
LEMMA Values ==
  /\ \A k \in Kinds : Value(k) \subseteq AnyValue
  /\ None \notin AnyValue /\ Torn \notin AnyValue /\ None # Torn
  /\ \A k \in Kinds : None \notin Value(k) /\ Torn \notin Value(k)
  /\ <<"noapps", "none">> \in Value("apps")
  /\ \A k \in Kinds \ {"apps"} : <<"v1", "-">> \in Value(k)
<1>1. \A k \in Kinds : Value(k) \subseteq AnyValue
  BY DEF AnyValue
<1>2. \A k \in Kinds : None \notin Value(k) /\ Torn \notin Value(k)
  BY DEF Value, None, Torn, NoApps
<1>3. None \notin AnyValue /\ Torn \notin AnyValue
  BY <1>2 DEF AnyValue
<1>. QED BY <1>1, <1>2, <1>3 DEF Value, None, Torn, NoApps, Kinds

\* What is uploaded is one of the kinds, and something comes after it.
LEMMA Uploads ==
  Uploading => Kind \in Kinds /\ Following \in Phases
BY DEF Uploading, Kind, Kinds, Following, Phases, Rest

\* Something is sent only if it is a value of its kind.
LEMMA SentIsValue ==
  ASSUME MemInv, Uploading, News(Kind)
  PROVE  Current(Kind) \in Value(Kind) /\ Current(Kind) \in AnyValue
<1>1. Kind \in Kinds /\ pc \notin {"out", "client"}
  BY Uploads DEF Uploading, Kinds
<1>2. Current(Kind) \in Value(Kind) \union {None}
  BY <1>1 DEF MemInv, Current
<1>. QED BY <1>1, <1>2, Values DEF News

\* What an upload that fails does, as long as no older value stands as the last
\* reported.
LEMMA FailedUpload ==
  ASSUME UploadFails, ~unsaved'
  PROVE  /\ ~unsaved
         /\ \/ UNCHANGED <<gw, given>>
            \/ Give(Kind) /\ ~Claimed(Kind)
<1>1. CASE gw' = gw /\ given' = given /\ unsaved' = unsaved
  BY <1>1, Zenon
<1>2. CASE Give(Kind) /\ unsaved' = (unsaved \/ Claimed(Kind))
  BY <1>2, Zenon
<1>. QED BY <1>1, <1>2, Zenon DEF UploadFails, gateVars

\* What a value that is not saved leaves, as long as no older one stands as the last
\* reported.
LEMMA FailedSave ==
  ASSUME SaveFails, ~unsaved'
  PROVE  ~unsaved /\ \E value : Saved(value) /\ value \notin Value(Kind)
BY Zenon DEF SaveFails

LEMMA Killed ==
  ASSUME Kill, ~unsaved'
  PROVE  /\ ~unsaved
         /\ \/ UNCHANGED file /\ (sent = None \/ file[Kind] \notin Value(Kind))
            \/ sent # None /\ file' = [file EXCEPT ![Kind] = Torn]
<1>1. CASE file' = file /\ unsaved' = (unsaved \/ (sent # None /\ file[Kind] \in Value(Kind)))
  BY <1>1, Zenon
<1>2. CASE sent # None /\ file' = [file EXCEPT ![Kind] = Torn] /\ unsaved' = unsaved
  BY <1>2, Zenon
<1>. QED BY <1>1, <1>2, Zenon DEF Kill

\* Every step keeps the types.
LEMMA TypeStep ==
  ASSUME ReportsAssumption, IInv, [Next]_vars
  PROVE  TypeOK'
<1>. USE DEF IInv, TypeOK, ReportsAssumption, gateVars, whoVars, memVars, AtOnce
<1>1. CASE Start
  BY <1>1, Values DEF Start, Phases
<1>2. CASE NewGatewayClient
  BY <1>2, Values DEF NewGatewayClient, CleanupLastState, InitReports, Reported,
       ToReport, Absent, Phases, Kinds
<1>3. CASE InitializeDatabase
  BY <1>3, Values DEF InitializeDatabase, Phases, Kinds
<1>4. CASE Skip
  BY <1>4, Values, Uploads DEF Skip
<1>5. CASE Upload
  BY <1>5, Values, Uploads, SentIsValue DEF Upload, Give
<1>6. CASE UploadFails
  <2>1. unsaved' \in BOOLEAN
    BY <1>6, Zenon DEF UploadFails
  <2>2. /\ gw' \in [Kinds -> AnyValue \union {None}]
        /\ given' \in [Kinds -> SUBSET AnyValue]
    BY <1>6, Values, Uploads, SentIsValue DEF UploadFails, Give
  <2>3. faults' \in 0 .. MaxFaults /\ pc' \in Phases
    BY <1>6, Uploads DEF UploadFails, Fault
  <2>. QED BY <1>6, <2>1, <2>2, <2>3 DEF UploadFails
<1>7. CASE Save
  BY <1>7, Values, Uploads DEF Save, Saved, SentInv
<1>8. CASE SaveFails
  BY <1>8, Values, Uploads DEF SaveFails, Fault, Saved, SentInv
<1>9. CASE Work
  BY <1>9, Values DEF Work, Fault, Phases, Rest
<1>10. CASE Iterate
  BY <1>10, Values DEF Iterate, Phases
<1>11. CASE Kill
  <2>1. unsaved' \in BOOLEAN
    BY <1>11, Zenon DEF Kill
  <2>2. file' \in [Kinds -> AnyValue \union {None, Torn}]
    BY <1>11, Uploads DEF Kill, SentInv
  <2>3. mem' \in [Kinds -> AnyValue \union {None}] /\ sent' \in AnyValue \union {None}
    BY <1>11 DEF Kill, Absent
  <2>4. faults' \in 0 .. MaxFaults /\ pc' \in Phases
    BY <1>11 DEF Kill, Fault, Phases
  <2>. QED BY <1>11, <2>1, <2>2, <2>3, <2>4 DEF Kill
<1>12. CASE ReaderLooks
  BY <1>12, Values DEF ReaderLooks
<1>13. CASE ReaderCleans
  BY <1>13, Values DEF ReaderCleans, Absent
<1>14. CASE DeviceChanges
  BY <1>14, Values DEF DeviceChanges, Edit
<1>15. CASE Register
  <2>1. gw' \in [Kinds -> AnyValue \union {None}]
    BY <1>15 DEF Register, Absent
  <2>2. given' \in [Kinds -> SUBSET AnyValue]
    BY <1>15 DEF Register
  <2>3. edits' \in 0 .. MaxEdits /\ pc' \in Phases
    BY <1>15 DEF Register, Edit, Phases
  <2>. QED BY <1>15, <2>1, <2>2, <2>3 DEF Register
<1>16. CASE UNCHANGED vars
  BY <1>16 DEF vars, gateVars, whoVars
<1>. QED BY <1>1, <1>2, <1>3, <1>4, <1>5, <1>6, <1>7, <1>8, <1>9, <1>10, <1>11,
     <1>12, <1>13, <1>14, <1>15, <1>16 DEF Next, Process

\* Every step keeps what is known of the value being saved.
LEMMA SentStep ==
  ASSUME ReportsAssumption, IInv, [Next]_vars
  PROVE  SentInv'
<1>. USE DEF IInv, TypeOK, SentInv, gateVars, whoVars, memVars, AtOnce
<1>1. CASE Start
  BY <1>1, Values DEF Start, Uploading, Kind, Kinds
<1>2. CASE NewGatewayClient
  BY <1>2, Values DEF NewGatewayClient, CleanupLastState, InitReports, Reported,
       ToReport, Absent, Uploading, Kind, Kinds
<1>3. CASE InitializeDatabase
  BY <1>3, Values DEF InitializeDatabase, Uploading, Kind, Kinds
<1>4. CASE Skip
  BY <1>4, Values DEF Skip, Uploading, Kind, Kinds
<1>5. CASE Upload
  BY <1>5, Values, Uploads, SentIsValue DEF Upload, Give, Uploading, Kind, Kinds
<1>6. CASE UploadFails
  BY <1>6, Values, Uploads, SentIsValue DEF UploadFails, Fault, Give, Uploading,
       Kind, Kinds
<1>7. CASE Save
  BY <1>7, Values DEF Save, Saved, Uploading, Kind, Kinds
<1>8. CASE SaveFails
  BY <1>8, Values DEF SaveFails, Fault, Saved, Uploading, Kind, Kinds
<1>9. CASE Work
  BY <1>9, Values DEF Work, Fault, Uploading, Kind, Kinds
<1>10. CASE Iterate
  BY <1>10, Values DEF Iterate, Uploading, Kind, Kinds
<1>11. CASE Kill
  BY <1>11, Values DEF Kill, Fault, Absent, Uploading, Kind, Kinds
<1>12. CASE ReaderLooks
  BY <1>12, Values DEF ReaderLooks, Uploading, Kind, Kinds
<1>13. CASE ReaderCleans
  BY <1>13, Values DEF ReaderCleans, Absent, Uploading, Kind, Kinds
<1>14. CASE DeviceChanges
  BY <1>14, Values DEF DeviceChanges, Edit, Uploading, Kind, Kinds
<1>15. CASE Register
  BY <1>15, Values DEF Register, Edit, Absent, Uploading, Kind, Kinds
<1>16. CASE UNCHANGED vars
  BY <1>16 DEF vars, gateVars, whoVars, Uploading, Kind, Kinds
<1>. QED BY <1>1, <1>2, <1>3, <1>4, <1>5, <1>6, <1>7, <1>8, <1>9, <1>10, <1>11,
     <1>12, <1>13, <1>14, <1>15, <1>16 DEF Next, Process

\* Every step keeps what the gateway shows.
LEMMA ViewStep ==
  ASSUME ReportsAssumption, IInv, [Next]_vars
  PROVE  ViewInv'
<1>. USE DEF IInv, TypeOK, SentInv, ViewInv, Trusted, gateVars, whoVars, memVars,
     AtOnce, ReportsAssumption
<1>1. CASE Start
  BY <1>1, Values DEF Start, Uploading, Kind, Kinds
<1>2. CASE NewGatewayClient
  BY <1>2, Values DEF NewGatewayClient, CleanupLastState, InitReports, Reported,
       ToReport, Absent, Uploading, Kind, Kinds
<1>3. CASE InitializeDatabase
  BY <1>3, Values DEF InitializeDatabase, Uploading, Kind, Kinds
<1>4. CASE Skip
  BY <1>4, Values DEF Skip, Uploading, Kind, Kinds, Following, Rest
<1>5. CASE Upload
  BY <1>5, Values, Uploads, SentIsValue DEF Upload, Give, Uploading, Kind, Kinds
<1>6. CASE UploadFails
  <2>1. SUFFICES ASSUME ~unsaved'  PROVE ViewInv'
    OBVIOUS
  <2>2. Uploading /\ sent = None /\ UNCHANGED <<db, file, sent>>
    BY <1>6 DEF UploadFails
  <2>3. Trusted
    BY <2>2 DEF Uploading, Kinds
  <2>4. \A k \in Kinds : file[k] \in Value(k) => file[k] = gw'[k]
    <3>1. CASE UNCHANGED <<gw, given>>
      BY <3>1, <2>1, <2>2, <2>3, <1>6, FailedUpload
    <3>2. CASE Give(Kind) /\ ~Claimed(Kind)
      BY <3>2, <2>1, <2>2, <2>3, <1>6, FailedUpload, Uploads DEF Give, Claimed
    <3>. QED BY <3>1, <3>2, <2>1, <1>6, FailedUpload
  <2>. QED BY <2>2, <2>4
<1>7. CASE Save
  BY <1>7, Values, Uploads DEF Save, Saved, Uploading, Kind, Kinds, Following, Rest
<1>8. CASE SaveFails
  <2>1. SUFFICES ASSUME ~unsaved'  PROVE ViewInv'
    OBVIOUS
  <2>2. PICK value : Saved(value) /\ value \notin Value(Kind)
    BY <2>1, <1>8, FailedSave
  <2>3. ~unsaved /\ sent # None /\ Uploading /\ Kind \in Kinds
    BY <2>1, <1>8, FailedSave, Uploads DEF SaveFails
  <2>4. Trusted
    BY <2>3 DEF Uploading, Kinds
  <2>. QED BY <2>2, <2>3, <2>4 DEF Saved
<1>9. CASE Work
  BY <1>9, Values DEF Work, Fault, Uploading, Kind, Kinds
<1>10. CASE Iterate
  BY <1>10, Values DEF Iterate, Uploading, Kind, Kinds
<1>11. CASE Kill
  BY <1>11, Killed, Values DEF Kill, Absent, Uploading, Kind, Kinds
<1>12. CASE ReaderLooks
  BY <1>12, Values DEF ReaderLooks, Uploading, Kind, Kinds
<1>13. CASE ReaderCleans
  BY <1>13, Values DEF ReaderCleans, Absent, Uploading, Kind, Kinds
<1>14. CASE DeviceChanges
  BY <1>14, Values DEF DeviceChanges, Edit, Uploading, Kind, Kinds
<1>15. CASE Register
  BY <1>15, Values DEF Register, Edit, Absent, Uploading, Kind, Kinds
<1>16. CASE UNCHANGED vars
  BY <1>16 DEF vars, gateVars, whoVars, Uploading, Kind, Kinds
<1>. QED BY <1>1, <1>2, <1>3, <1>4, <1>5, <1>6, <1>7, <1>8, <1>9, <1>10, <1>11,
     <1>12, <1>13, <1>14, <1>15, <1>16 DEF Next, Process

\* Every step keeps the claims of the files true.
LEMMA ClaimStep ==
  ASSUME ReportsAssumption, IInv, [Next]_vars
  PROVE  NoFalseClaim'
<1>. USE DEF IInv, TypeOK, SentInv, NoFalseClaim, gateVars, whoVars, memVars, AtOnce
<1>1. CASE Start
  BY <1>1, Values DEF Start, Uploading, Kind, Kinds
<1>2. CASE NewGatewayClient
  BY <1>2, Values DEF NewGatewayClient, CleanupLastState, InitReports, Reported,
       ToReport, Absent, Uploading, Kind, Kinds
<1>3. CASE InitializeDatabase
  BY <1>3, Values DEF InitializeDatabase, Uploading, Kind, Kinds
<1>4. CASE Skip
  BY <1>4, Values DEF Skip, Uploading, Kind, Kinds, Following, Rest
<1>5. CASE Upload
  BY <1>5, Values, Uploads, SentIsValue DEF Upload, Give, Uploading, Kind, Kinds
<1>6. CASE UploadFails
  BY <1>6, Values, Uploads, SentIsValue DEF UploadFails, Fault, Give, Uploading,
       Kind, Kinds
<1>7. CASE Save
  BY <1>7, Values, Uploads DEF Save, Saved, Uploading, Kind, Kinds, Following, Rest
<1>8. CASE SaveFails
  BY <1>8, Values DEF SaveFails, Fault, Saved, Uploading, Kind, Kinds
<1>9. CASE Work
  BY <1>9, Values DEF Work, Fault, Uploading, Kind, Kinds
<1>10. CASE Iterate
  BY <1>10, Values DEF Iterate, Uploading, Kind, Kinds
<1>11. CASE Kill
  BY <1>11, Values DEF Kill, Fault, Absent, Uploading, Kind, Kinds
<1>12. CASE ReaderLooks
  BY <1>12, Values DEF ReaderLooks, Uploading, Kind, Kinds
<1>13. CASE ReaderCleans
  BY <1>13, Values DEF ReaderCleans, Absent, Uploading, Kind, Kinds
<1>14. CASE DeviceChanges
  BY <1>14, Values DEF DeviceChanges, Edit, Uploading, Kind, Kinds
<1>15. CASE Register
  BY <1>15, Values DEF Register, Edit, Absent, Uploading, Kind, Kinds
<1>16. CASE UNCHANGED vars
  BY <1>16 DEF vars, gateVars, whoVars, Uploading, Kind, Kinds
<1>. QED BY <1>1, <1>2, <1>3, <1>4, <1>5, <1>6, <1>7, <1>8, <1>9, <1>10, <1>11,
     <1>12, <1>13, <1>14, <1>15, <1>16 DEF Next, Process

\* Every step keeps what the client remembers true.
LEMMA MemStep ==
  ASSUME ReportsAssumption, IInv, [Next]_vars
  PROVE  MemInv'
<1>. USE DEF IInv, TypeOK, SentInv, ViewInv, MemInv, gateVars, whoVars, memVars,
     AtOnce
<1>1. CASE Start
  BY <1>1, Values DEF Start, Uploading, Kind, Kinds
<1>2. CASE NewGatewayClient
  <2>1. /\ file' = IF db THEN file ELSE Absent
        /\ UNCHANGED <<dev, gw, given, sent, unsaved>> /\ pc = "client"
    BY <1>2 DEF NewGatewayClient, CleanupLastState
  <2>2. \A k \in AtOnce : /\ mem'[k] = IF file'[k] = dev[k] THEN None ELSE dev[k]
                         /\ found'[k] = dev[k]
    BY <1>2 DEF NewGatewayClient, InitReports, ToReport, Kinds
  <2>3. mem'["apps"] = IF file'["apps"] = Torn THEN None ELSE file'["apps"]
    BY <1>2 DEF NewGatewayClient, InitReports, Reported, Kinds
  <2>4. ASSUME NEW k \in AtOnce, ~unsaved, mem'[k] = None, found'[k] # None
        PROVE  gw'[k] = found'[k]
    <3>1. db /\ file[k] = dev[k] /\ dev[k] # None
      BY <2>1, <2>2, <2>4 DEF Absent, Kinds
    <3>2. dev[k] \in Value(k)
      BY <3>1 DEF Kinds
    <3>3. sent = None
      BY <2>1 DEF Uploading, Kinds
    <3>4. file[k] = gw[k]
      BY <3>1, <3>2, <3>3, <2>4 DEF Trusted, Kinds
    <3>. QED BY <3>1, <3>4, <2>1, <2>2
  <2>5. ASSUME ~unsaved, mem'["apps"] # None  PROVE mem'["apps"] = gw["apps"]
    <3>1. db /\ mem'["apps"] = file["apps"] /\ file["apps"] \notin {None, Torn}
      BY <2>1, <2>3, <2>5 DEF Absent, Kinds
    <3>2. sent = None
      BY <2>1 DEF Uploading, Kinds
    <3>3. file["apps"] \in Value("apps")
      BY <3>1 DEF Kinds
    <3>. QED BY <3>1, <3>2, <3>3, <2>5 DEF Trusted, Kinds
  <2>6. \A k \in AtOnce : mem'[k] \in {None, found'[k]} /\ found'[k] \in Value(k) \union {None}
    BY <2>2 DEF Kinds
  <2>. QED BY <2>1, <2>4, <2>5, <2>6
<1>3. CASE InitializeDatabase
  BY <1>3, Values DEF InitializeDatabase, Uploading, Kind, Kinds
<1>4. CASE Skip
  BY <1>4, Values DEF Skip, Uploading, Kind, Kinds, Following, Rest
<1>5. CASE Upload
  <2>1. /\ Uploading /\ Kind \in Kinds /\ pc \notin {"out", "client"}
        /\ gw' = [gw EXCEPT ![Kind] = Current(Kind)]
        /\ sent' = Current(Kind) /\ Current(Kind) # None
        /\ mem' = IF Kind \in AtOnce THEN [mem EXCEPT ![Kind] = None] ELSE mem
        /\ UNCHANGED <<dev, file, db, found, pc, unsaved>>
    BY <1>5, Uploads DEF Upload, Give, News, Uploading, Kinds
  <2>2. Kind' = Kind
    BY <2>1 DEF Kind
  <2>3. CASE Kind \in AtOnce
    BY <2>1, <2>2, <2>3 DEF Current, Kinds
  <2>4. CASE Kind \notin AtOnce
    BY <2>1, <2>2, <2>4 DEF Kinds
  <2>. QED BY <2>3, <2>4
<1>6. CASE UploadFails
  <2>1. /\ Uploading /\ Kind \in Kinds /\ pc \notin {"out", "client"}
        /\ sent = None /\ Current(Kind) # None
        /\ UNCHANGED <<dev, file, db, found, mem, sent>>
    BY <1>6, Uploads DEF UploadFails, News, Uploading, Kinds
  <2>2. ASSUME ~unsaved'
        PROVE  ~unsaved /\ \A k \in AtOnce \union {"apps"} :
                 (k = "apps" => mem[k] # None) /\ (k \in AtOnce => mem[k] = None)
                   => gw'[k] = gw[k]
    <3>1. CASE UNCHANGED <<gw, given>>
      BY <3>1, <2>2, <1>6, FailedUpload
    <3>2. CASE Give(Kind) /\ ~Claimed(Kind)
      BY <3>2, <2>1, <2>2, <1>6, FailedUpload DEF Give, Claimed, Current, Kinds
    <3>. QED BY <3>1, <3>2, <2>2, <1>6, FailedUpload
  <2>. QED BY <2>1, <2>2 DEF Kinds
<1>7. CASE Save
  BY <1>7, Values, Uploads DEF Save, Saved, Uploading, Kind, Kinds, Following, Rest
<1>8. CASE SaveFails
  BY <1>8, Values DEF SaveFails, Fault, Saved, Uploading, Kind, Kinds
<1>9. CASE Work
  BY <1>9, Values DEF Work, Fault, Uploading, Kind, Kinds
<1>10. CASE Iterate
  BY <1>10, Values DEF Iterate, Uploading, Kind, Kinds
<1>11. CASE Kill
  BY <1>11, Values DEF Kill, Fault, Absent, Uploading, Kind, Kinds
<1>12. CASE ReaderLooks
  BY <1>12, Values DEF ReaderLooks, Uploading, Kind, Kinds
<1>13. CASE ReaderCleans
  BY <1>13, Values DEF ReaderCleans, Absent, Uploading, Kind, Kinds
<1>14. CASE DeviceChanges
  BY <1>14, Values DEF DeviceChanges, Edit, Uploading, Kind, Kinds
<1>15. CASE Register
  BY <1>15, Values DEF Register, Edit, Absent, Uploading, Kind, Kinds
<1>16. CASE UNCHANGED vars
  BY <1>16 DEF vars, gateVars, whoVars, Uploading, Kind, Kinds
<1>. QED BY <1>1, <1>2, <1>3, <1>4, <1>5, <1>6, <1>7, <1>8, <1>9, <1>10, <1>11,
     <1>12, <1>13, <1>14, <1>15, <1>16 DEF Next, Process

LEMMA InitInv == ASSUME ReportsAssumption, Init PROVE IInv
<1>1. TypeOK
  <2>1. dev \in [Kinds -> AnyValue]
    BY Values DEF Init, NoApps, Kinds
  <2>2. Absent \in [Kinds -> AnyValue \union {None}]
    BY DEF Absent
  <2>3. Absent \in [Kinds -> AnyValue \union {None, Torn}]
    BY DEF Absent
  <2>4. given \in [Kinds -> SUBSET AnyValue]
    BY DEF Init
  <2>5. 0 \in 0 .. MaxEdits /\ 0 \in 0 .. MaxFaults
    BY DEF ReportsAssumption
  <2>. QED BY <2>1, <2>2, <2>3, <2>4, <2>5 DEF Init, TypeOK, Phases
<1>2. SentInv /\ ViewInv
  BY DEF Init, SentInv, ViewInv, Trusted, Absent
<1>3. NoFalseClaim /\ MemInv
  BY DEF Init, NoFalseClaim, MemInv, Value, Kinds
<1>. QED BY <1>1, <1>2, <1>3 DEF IInv

LEMMA Invariant == Spec => []IInv
<1>1. Init => IInv
  BY InitInv, ReportsAssumption
<1>2. IInv /\ [Next]_vars => IInv'
  BY TypeStep, SentStep, ViewStep, ClaimStep, MemStep, ReportsAssumption DEF IInv
<1>. QED BY <1>1, <1>2, PTL DEF Spec
-----------------------------------------------------------------------------
\* The variables stay in their types, whatever fails and however often.
THEOREM ReportsTypeCorrect == Spec => []TypeOK
<1>1. IInv => TypeOK
  BY DEF IInv
<1>. QED BY <1>1, Invariant, PTL

\* A file that will be looked at claims only what the gateway was given of this
\* registration, after any lost requests and answers, kills and torn files, and with
\* other commands removing the files at any time.
THEOREM FilesClaimNothingFalse == Spec => []NoFalseClaim
<1>1. IInv => NoFalseClaim
  BY DEF IInv
<1>. QED BY <1>1, Invariant, PTL

\* Until the gateway takes a value while an older one stands as the last reported, the
\* files are what it shows.
THEOREM FilesAreGatewayView == Spec => []FileIsGatewayView
<1>1. IInv => FileIsGatewayView
  BY DEF IInv, ViewInv, Trusted, FileIsGatewayView
<1>. QED BY <1>1, Invariant, PTL

\* A report is left out only if the gateway shows the value, as it is or as the client
\* found it, or if the value cannot be read, however many requests failed before and
\* whoever removes the files meanwhile.
THEOREM ReportsKeepNothingBack == Spec => NothingKeptBack
<1>1. ASSUME IInv, Skip, ~unsaved
      PROVE  LET v == IF Kind \in AtOnce THEN found[Kind] ELSE dev[Kind]
             IN v \in {None, NoApps} \/ Alike(Kind, gw[Kind], v)
  <2>1. Uploading /\ sent = None /\ ~News(Kind) /\ Kind \in Kinds
    BY <1>1, Uploads DEF Skip
  <2>2. pc \notin {"out", "client"}
    BY <2>1 DEF Uploading, Kinds
  <2>3. ASSUME Kind = "net", dev["net"] # None  PROVE Alike("net", gw["net"], dev["net"])
    <3>1. dev["net"] = file["net"] /\ dev["net"] \in Value("net")
      BY <2>1, <2>3, <1>1 DEF News, Current, AtOnce, Alike, IInv, MemInv, Kinds
    <3>. QED BY <3>1, <2>1, <2>2, <2>3, <1>1 DEF IInv, ViewInv, Trusted, Alike
  <2>4. ASSUME Kind = "apps", dev["apps"] \notin {None, NoApps}
        PROVE  Alike("apps", gw["apps"], dev["apps"])
    <3>1. dev["apps"][2] = mem["apps"][2]
      BY <2>1, <2>4 DEF News, Current, AtOnce, Alike
    <3>2. mem["apps"] # None
      <4>1. dev["apps"] \in Value("apps") \ {NoApps}
        BY <1>1, <2>4 DEF IInv, MemInv, Kinds
      <4>2. dev["apps"][2] # "none"
        BY <4>1 DEF Value
      <4>. QED BY <3>1, <4>2 DEF None
    <3>. QED BY <3>1, <3>2, <2>1, <2>2, <2>4, <1>1 DEF IInv, MemInv, Alike
  <2>5. ASSUME Kind \in AtOnce, found[Kind] # None
        PROVE  Alike(Kind, gw[Kind], found[Kind])
    BY <2>1, <2>2, <2>5, <1>1 DEF IInv, MemInv, News, Current, Alike, AtOnce
  <2>. QED BY <2>1, <2>3, <2>4, <2>5 DEF Kinds, AtOnce
<1>. QED BY <1>1, Invariant, PTL DEF Spec, NothingKeptBack
=============================================================================
