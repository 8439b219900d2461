--------------------------- MODULE DaemonLoopProofs ---------------------------
(***************************************************************************)
(* Proofs about the loop of the daemon, for any changes of the             *)
(* configuration, signals and failures.                                    *)
(***************************************************************************)
EXTENDS DaemonLoop, TLAPS

\* What reload has made so far.
PartsInv ==
  /\ pc \in Polling \union {"close"} =>
       gw = loaded /\ flushers = 1 /\ (enabled => app = loaded)
  /\ pc = "app" => gw = loaded /\ flushers = 1
  /\ pc \in {"off", "dead", "boot", "load", "client"} => flushers = 0

\* What was checked is loaded, or SIGHUP waits, or it is about to be loaded.
CheckedInv ==
  /\ pc \in {"boot", "client", "app", "config", "checkin", "update", "sleep"} =>
       loaded >= checked
  /\ pc = "pause" => loaded >= checked \/ (hup = 1 /\ ~due)

IInv == TypeOK /\ PartsInv /\ CheckedInv /\ NoSignalIsLost
-----------------------------------------------------------------------------
\* A write gives the next number to the configuration.
LEMMA Written ==
  ASSUME LoopAssumption, TypeOK, Write
  PROVE  conf' \in 0 .. MaxEdits /\ conf' = conf + 1 /\ broken' \in BOOLEAN
<1>1. conf' = conf + 1 /\ conf < MaxEdits
  BY DEF Write
<1>2. broken' \in BOOLEAN
  BY DEF Write
<1>. QED BY <1>1, <1>2 DEF TypeOK, LoopAssumption

\* A handler leaves the signals as they are, or signals the newest configuration.
LEMMA Handled ==
  ASSUME LoopAssumption, TypeOK, Handle
  PROVE  /\ conf' \in 0 .. MaxEdits /\ conf <= conf' /\ broken' \in BOOLEAN
         /\ \/ told' = told /\ hup' = hup
            \/ told' = conf' /\ hup' = 1
         /\ faults' \in 0 .. MaxFaults
<1>1. CASE UNCHANGED <<confVars, faults>>
  BY <1>1 DEF TypeOK, confVars, LoopAssumption
<1>2. CASE Write /\ HangUp /\ UNCHANGED faults
  BY <1>2, Written DEF TypeOK, HangUp, LoopAssumption
<1>3. CASE Write /\ Fault /\ UNCHANGED <<told, hup>>
  <2>1. faults' \in 0 .. MaxFaults
    BY <1>3 DEF TypeOK, Fault, LoopAssumption
  <2>. QED BY <1>3, <2>1, Written DEF TypeOK, LoopAssumption
<1>. QED BY <1>1, <1>2, <1>3 DEF Handle

\* Every step keeps the types.
LEMMA TypeStep ==
  ASSUME LoopAssumption, IInv, [Next]_vars
  PROVE  TypeOK'
<1>. USE DEF IInv, LoopAssumption, TypeOK, PartsInv, Phases, Polling, Reloading,
     confVars, partVars
<1>1. CASE Launch
  <2>1. {enabled, broken, interrupted, extracted, due}' \subseteq BOOLEAN
    BY <1>1 DEF Launch, Ended
  <2>2. conf' \in 0 .. MaxEdits /\ told' \in 0 .. conf' /\ checked' \in 0 .. told'
    BY <1>1 DEF Launch, Ended
  <2>3. loaded' \in 0 .. conf' /\ gw' \in 0 .. conf' /\ app' \in 0 .. conf'
    BY <1>1 DEF Launch, Ended
  <2>. QED BY <1>1, <2>1, <2>2, <2>3 DEF Launch, Ended
<1>2. CASE LaunchFails
  BY <1>2 DEF LaunchFails, Ended
<1>3. CASE Notify
  BY <1>3 DEF Notify
<1>4. CASE Close
  BY <1>4 DEF Close
<1>5. CASE Load
  BY <1>5 DEF Load
<1>6. CASE LoadFails
  BY <1>6 DEF LoadFails, Die, Gone
<1>7. CASE NewClient
  BY <1>7 DEF NewClient
<1>8. CASE NewApp
  BY <1>8 DEF NewApp
<1>9. CASE PartFails
  BY <1>9 DEF PartFails, Fault, Die, Gone
<1>10. CASE AdminWrites
  BY <1>10, Written DEF AdminWrites
<1>11. CASE AdminHangsUp
  BY <1>11 DEF AdminHangsUp, HangUp, Die, Gone, Ended
<1>12. CASE Interrupt
  BY <1>12 DEF Interrupt, Fault, Die, Gone, Ended
<1>13. CASE NoConfig
  BY <1>13 DEF NoConfig
<1>14. CASE Extract
  BY <1>14, Handled DEF Extract
<1>15. CASE ExtractFails
  <2>1. CASE UNCHANGED <<confVars, after, due>> /\ pc' = "update"
    BY <1>15, <2>1 DEF ExtractFails, Fault
  <2>2. CASE Write /\ HangUp /\ Pause
    <3>1. conf' \in 0 .. MaxEdits /\ told' \in 0 .. conf' /\ hup' \in 0 .. 1
      BY <1>15, <2>2, Written DEF ExtractFails, HangUp
    <3>2. {loaded, gw, app}' \subseteq 0 .. conf' /\ checked' \in 0 .. told'
      BY <1>15, <2>2, Written DEF ExtractFails, HangUp
    <3>3. {enabled, broken, interrupted, extracted, due}' \subseteq BOOLEAN
      BY <1>15, <2>2, Written DEF ExtractFails, Pause
    <3>4. after' \in {"config", "update"} /\ pc' \in Phases /\ faults' \in 0 ..
         MaxFaults
      BY <1>15, <2>2 DEF ExtractFails, Pause, Fault
    <3>. QED BY <1>15, <3>1, <3>2, <3>3, <3>4 DEF ExtractFails
  <2>. QED BY <1>15, <2>1, <2>2 DEF ExtractFails
<1>16. CASE ExtractedAlready
  BY <1>16 DEF ExtractedAlready
<1>17. CASE CheckInUnchanged
  BY <1>17 DEF CheckInUnchanged
<1>18. CASE CheckInChanged
  <2>1. {enabled, broken, interrupted, extracted, due}' \subseteq BOOLEAN
    BY <1>18, Handled DEF CheckInChanged, Pause
  <2>2. conf' \in 0 .. MaxEdits /\ told' \in 0 .. conf' /\ checked' \in 0 .. told'
    BY <1>18, Handled DEF CheckInChanged, Pause
  <2>3. loaded' \in 0 .. conf' /\ gw' \in 0 .. conf' /\ app' \in 0 .. conf'
    BY <1>18, Handled DEF CheckInChanged, Pause
  <2>. QED BY <1>18, <2>1, <2>2, <2>3, Handled DEF CheckInChanged, Pause
<1>19. CASE UpdateNoWait
  BY <1>19 DEF UpdateNoWait
<1>20. CASE UpdateDone
  BY <1>20 DEF UpdateDone
<1>21. CASE TimerDue
  BY <1>21 DEF TimerDue, Sleeping
<1>22. CASE SleepInterrupted
  BY <1>22 DEF SleepInterrupted, Sleeping, Gone
<1>23. CASE SleepHangUp
  BY <1>23 DEF SleepHangUp, Sleeping
<1>24. CASE SleepOver
  BY <1>24 DEF SleepOver, Sleeping
<1>25. CASE UNCHANGED vars
  BY <1>25 DEF vars
<1>. QED BY <1>1, <1>2, <1>3, <1>4, <1>5, <1>6, <1>7, <1>8, <1>9, <1>10, <1>11,
     <1>12, <1>13, <1>14, <1>15, <1>16, <1>17, <1>18, <1>19, <1>20, <1>21, <1>22,
     <1>23, <1>24, <1>25 DEF Next, Daemon, Reload, Check, Select

\* Every step keeps the parts of the daemon together.
LEMMA PartsStep ==
  ASSUME LoopAssumption, IInv, [Next]_vars
  PROVE  PartsInv'
<1>. USE DEF IInv, TypeOK, PartsInv, Polling, confVars, partVars
<1>1. CASE Launch
  BY <1>1 DEF Launch, Ended
<1>2. CASE LaunchFails
  BY <1>2 DEF LaunchFails, Ended
<1>3. CASE Notify
  BY <1>3 DEF Notify
<1>4. CASE Close
  BY <1>4 DEF Close
<1>5. CASE Load
  BY <1>5 DEF Load
<1>6. CASE LoadFails
  BY <1>6 DEF LoadFails, Die, Gone
<1>7. CASE NewClient
  BY <1>7 DEF NewClient
<1>8. CASE NewApp
  BY <1>8 DEF NewApp
<1>9. CASE PartFails
  BY <1>9 DEF PartFails, Fault, Die, Gone
<1>10. CASE AdminWrites
  BY <1>10, Written DEF AdminWrites
<1>11. CASE AdminHangsUp
  BY <1>11 DEF AdminHangsUp, HangUp, Die, Gone, Ended
<1>12. CASE Interrupt
  BY <1>12 DEF Interrupt, Fault, Die, Gone, Ended
<1>13. CASE NoConfig
  BY <1>13 DEF NoConfig
<1>14. CASE Extract
  BY <1>14, Handled DEF Extract
<1>15. CASE ExtractFails
  <2>1. CASE UNCHANGED <<confVars, after, due>> /\ pc' = "update"
    BY <1>15, <2>1 DEF ExtractFails, Fault
  <2>2. CASE Write /\ HangUp /\ Pause
    BY <1>15, <2>2, Written DEF ExtractFails, HangUp, Pause, Fault
  <2>. QED BY <1>15, <2>1, <2>2 DEF ExtractFails
<1>16. CASE ExtractedAlready
  BY <1>16 DEF ExtractedAlready
<1>17. CASE CheckInUnchanged
  BY <1>17 DEF CheckInUnchanged
<1>18. CASE CheckInChanged
  BY <1>18, Handled DEF CheckInChanged, Pause
<1>19. CASE UpdateNoWait
  BY <1>19 DEF UpdateNoWait
<1>20. CASE UpdateDone
  BY <1>20 DEF UpdateDone
<1>21. CASE TimerDue
  BY <1>21 DEF TimerDue, Sleeping
<1>22. CASE SleepInterrupted
  BY <1>22 DEF SleepInterrupted, Sleeping, Gone
<1>23. CASE SleepHangUp
  BY <1>23 DEF SleepHangUp, Sleeping
<1>24. CASE SleepOver
  BY <1>24 DEF SleepOver, Sleeping
<1>25. CASE UNCHANGED vars
  BY <1>25 DEF vars
<1>. QED BY <1>1, <1>2, <1>3, <1>4, <1>5, <1>6, <1>7, <1>8, <1>9, <1>10, <1>11,
     <1>12, <1>13, <1>14, <1>15, <1>16, <1>17, <1>18, <1>19, <1>20, <1>21, <1>22,
     <1>23, <1>24, <1>25 DEF Next, Daemon, Reload, Check, Select

\* Every step keeps what is known of the checked configuration.
LEMMA CheckedStep ==
  ASSUME LoopAssumption, IInv, [Next]_vars
  PROVE  CheckedInv'
<1>. USE DEF IInv, TypeOK, CheckedInv, confVars, partVars
<1>1. CASE Launch
  BY <1>1 DEF Launch, Ended
<1>2. CASE LaunchFails
  BY <1>2 DEF LaunchFails, Ended
<1>3. CASE Notify
  BY <1>3 DEF Notify
<1>4. CASE Close
  BY <1>4 DEF Close
<1>5. CASE Load
  BY <1>5 DEF Load
<1>6. CASE LoadFails
  BY <1>6 DEF LoadFails, Die, Gone
<1>7. CASE NewClient
  BY <1>7 DEF NewClient
<1>8. CASE NewApp
  BY <1>8 DEF NewApp
<1>9. CASE PartFails
  BY <1>9 DEF PartFails, Fault, Die, Gone
<1>10. CASE AdminWrites
  BY <1>10, Written DEF AdminWrites
<1>11. CASE AdminHangsUp
  BY <1>11 DEF AdminHangsUp, HangUp, Die, Gone, Ended
<1>12. CASE Interrupt
  BY <1>12 DEF Interrupt, Fault, Die, Gone, Ended
<1>13. CASE NoConfig
  BY <1>13 DEF NoConfig
<1>14. CASE Extract
  BY <1>14, Handled DEF Extract
<1>15. CASE ExtractFails
  <2>1. CASE UNCHANGED <<confVars, after, due>> /\ pc' = "update"
    BY <1>15, <2>1 DEF ExtractFails, Fault
  <2>2. CASE Write /\ HangUp /\ Pause
    BY <1>15, <2>2, Written DEF ExtractFails, HangUp, Pause, Fault
  <2>. QED BY <1>15, <2>1, <2>2 DEF ExtractFails
<1>16. CASE ExtractedAlready
  BY <1>16 DEF ExtractedAlready
<1>17. CASE CheckInUnchanged
  BY <1>17 DEF CheckInUnchanged
<1>18. CASE CheckInChanged
  BY <1>18, Handled DEF CheckInChanged, Pause
<1>19. CASE UpdateNoWait
  BY <1>19 DEF UpdateNoWait
<1>20. CASE UpdateDone
  BY <1>20 DEF UpdateDone
<1>21. CASE TimerDue
  BY <1>21 DEF TimerDue, Sleeping
<1>22. CASE SleepInterrupted
  BY <1>22 DEF SleepInterrupted, Sleeping, Gone
<1>23. CASE SleepHangUp
  BY <1>23 DEF SleepHangUp, Sleeping
<1>24. CASE SleepOver
  BY <1>24 DEF SleepOver, Sleeping
<1>25. CASE UNCHANGED vars
  BY <1>25 DEF vars
<1>. QED BY <1>1, <1>2, <1>3, <1>4, <1>5, <1>6, <1>7, <1>8, <1>9, <1>10, <1>11,
     <1>12, <1>13, <1>14, <1>15, <1>16, <1>17, <1>18, <1>19, <1>20, <1>21, <1>22,
     <1>23, <1>24, <1>25 DEF Next, Daemon, Reload, Check, Select

\* Every step keeps what was signalled and is not loaded in sight.
LEMMA SignalStep ==
  ASSUME LoopAssumption, IInv, [Next]_vars
  PROVE  NoSignalIsLost'
<1>. USE DEF IInv, TypeOK, NoSignalIsLost, Ended, confVars, partVars
<1>1. CASE Launch
  BY <1>1 DEF Launch
<1>2. CASE LaunchFails
  BY <1>2 DEF LaunchFails
<1>3. CASE Notify
  BY <1>3 DEF Notify
<1>4. CASE Close
  BY <1>4 DEF Close
<1>5. CASE Load
  BY <1>5 DEF Load
<1>6. CASE LoadFails
  BY <1>6 DEF LoadFails, Die, Gone
<1>7. CASE NewClient
  BY <1>7 DEF NewClient
<1>8. CASE NewApp
  BY <1>8 DEF NewApp
<1>9. CASE PartFails
  BY <1>9 DEF PartFails, Fault, Die, Gone
<1>10. CASE AdminWrites
  BY <1>10, Written DEF AdminWrites
<1>11. CASE AdminHangsUp
  BY <1>11 DEF AdminHangsUp, HangUp, Die, Gone
<1>12. CASE Interrupt
  BY <1>12 DEF Interrupt, Fault, Die, Gone
<1>13. CASE NoConfig
  BY <1>13 DEF NoConfig
<1>14. CASE Extract
  BY <1>14, Handled DEF Extract
<1>15. CASE ExtractFails
  <2>1. CASE UNCHANGED <<confVars, after, due>> /\ pc' = "update"
    BY <1>15, <2>1 DEF ExtractFails, Fault
  <2>2. CASE Write /\ HangUp /\ Pause
    BY <1>15, <2>2, Written DEF ExtractFails, HangUp, Pause, Fault
  <2>. QED BY <1>15, <2>1, <2>2 DEF ExtractFails
<1>16. CASE ExtractedAlready
  BY <1>16 DEF ExtractedAlready
<1>17. CASE CheckInUnchanged
  BY <1>17 DEF CheckInUnchanged
<1>18. CASE CheckInChanged
  BY <1>18, Handled DEF CheckInChanged, Pause
<1>19. CASE UpdateNoWait
  BY <1>19 DEF UpdateNoWait
<1>20. CASE UpdateDone
  BY <1>20 DEF UpdateDone
<1>21. CASE TimerDue
  BY <1>21 DEF TimerDue
<1>22. CASE SleepInterrupted
  BY <1>22 DEF SleepInterrupted, Sleeping, Gone
<1>23. CASE SleepHangUp
  BY <1>23 DEF SleepHangUp, Sleeping
<1>24. CASE SleepOver
  BY <1>24 DEF SleepOver, Sleeping
<1>25. CASE UNCHANGED vars
  BY <1>25 DEF vars
<1>. QED BY <1>1, <1>2, <1>3, <1>4, <1>5, <1>6, <1>7, <1>8, <1>9, <1>10, <1>11,
     <1>12, <1>13, <1>14, <1>15, <1>16, <1>17, <1>18, <1>19, <1>20, <1>21, <1>22,
     <1>23, <1>24, <1>25 DEF Next, Daemon, Reload, Check, Select

LEMMA InitInv == ASSUME LoopAssumption, Init PROVE IInv
<1>1. {enabled, broken, interrupted, extracted, due} \subseteq BOOLEAN
  BY DEF Init
<1>2. 0 \in 0 .. MaxEdits /\ 0 \in 0 .. MaxFaults
  BY DEF LoopAssumption
<1>3. TypeOK
  BY <1>1, <1>2 DEF Init, TypeOK, Phases
<1>. QED BY <1>3 DEF Init, IInv, PartsInv, CheckedInv, NoSignalIsLost, Polling

LEMMA Invariant == Spec => []IInv
<1>1. Init => IInv
  BY InitInv, LoopAssumption
<1>2. IInv /\ [Next]_vars => IInv'
  BY TypeStep, PartsStep, CheckedStep, SignalStep, LoopAssumption DEF IInv
<1>. QED BY <1>1, <1>2, PTL DEF Spec
-----------------------------------------------------------------------------
\* The variables stay in their types.
THEOREM LoopTypeCorrect == Spec => []TypeOK
<1>1. IInv => TypeOK
  BY DEF IInv
<1>. QED BY <1>1, Invariant, PTL

\* Whatever is reloaded when, no part of the daemon works with a configuration the
\* others do not have, and no goroutine of an earlier sender goes on.
THEOREM ThePartsAgree == Spec => []PartsAgree
<1>1. IInv => PartsAgree
  BY DEF IInv, TypeOK, PartsInv, PartsAgree, Phases, Polling, Reloading
<1>. QED BY <1>1, Invariant, PTL

\* An update never runs with a configuration older than the one its check brought.
THEOREM TheCheckedIsUsed == Spec => []CheckedIsUsed
<1>1. IInv => CheckedIsUsed
  BY DEF IInv, CheckedInv, CheckedIsUsed
<1>. QED BY <1>1, Invariant, PTL

\* A configuration that was signalled is loaded, or the signal for it or for a later
\* one is still to be taken, whatever is slept, reloaded or signalled meanwhile.
THEOREM NoSignalLost == Spec => []NoSignalIsLost
<1>1. IInv => NoSignalIsLost
  BY DEF IInv
<1>. QED BY <1>1, Invariant, PTL
=============================================================================
