------------------------- MODULE CommandPath_proofs -------------------------
(* Safety of the command path across deaths of the bridge and restarts of   *)
(* the PLC program, for any axes, timeouts, scan period and number of both. *)
EXTENDS CommandPath, CmdSink_proofs

\* A step of the bridge is a step of its command sink.
LEMMA BridgeStepIsSinkStep == BridgeStep => Next
  BY DEF BridgeStep, Next

\* The three flags of the path are always Booleans.
FlagsOK == up \in BOOLEAN /\ unreadable \in BOOLEAN /\ bCmdValid \in BOOLEAN

\* The values of the path that are not flags.
ValuesOK ==
  /\ TypeOK
  /\ startedAt \in Nat /\ crashes \in 0..MaxCrashes
  /\ cmdLast \in Command /\ currentCmd \in Command
  /\ uLastCmdCycle \in Nat
  /\ scannedAt \in Nat /\ plcRestarts \in 0..MaxPlcRestarts

\* Which processes run.
LEMMA FlagsStep == FlagsOK /\ [PathNext]_pathVars => FlagsOK'
<1> SUFFICES ASSUME FlagsOK, [PathNext]_pathVars
             PROVE  FlagsOK'
  OBVIOUS
<1> USE DEF FlagsOK, bridgeVars, plcVars
<1>1. CASE BridgeStep
  BY <1>1, Zenon DEF BridgeStep
<1>2. CASE BridgeStop \/ BridgeStopMidPublish \/ BridgeStart
  BY <1>2, Zenon DEF BridgeStop, BridgeStopMidPublish, BridgeStart
<1>3. CASE PlcScan
  BY <1>3, Zenon DEF PlcScan, Readable
<1>4. CASE PlcRestart \/ PathAdvance
  BY <1>4, Zenon DEF PlcRestart, PathAdvance
<1>5. CASE UNCHANGED pathVars
  BY <1>5, Zenon DEF pathVars
<1> QED
  BY <1>1, <1>2, <1>3, <1>4, <1>5 DEF PathNext

\* The commands and numbers that are handed from one process to the next.
LEMMA ValuesStep == ValuesOK /\ [PathNext]_pathVars => ValuesOK'
<1> SUFFICES ASSUME ValuesOK, [PathNext]_pathVars
             PROVE  ValuesOK'
  OBVIOUS
<1> USE DEF ValuesOK, bridgeVars, plcVars
<1>0. NewCommand \in Command
  BY WordsAssumption DEF NewCommand, Command, Flags
<1>1. UNCHANGED vars => TypeOK'
  BY TypeStep
<1>2. CASE BridgeStep
  <2>1. TypeOK'
    BY <1>2, BridgeStepIsSinkStep, TypeStep
  <2> QED
    BY <1>2, <2>1 DEF BridgeStep
<1>3. CASE BridgeStop
  BY <1>1, <1>3, FaultsAssumption DEF BridgeStop
<1>4. CASE BridgeStopMidPublish
  BY <1>1, <1>4, FaultsAssumption DEF BridgeStopMidPublish
<1>5. CASE BridgeStart
  <2>1. TypeOK'
    BY <1>0, <1>5, PeriodFacts DEF BridgeStart, FirstPending, TypeOK
  <2> QED
    BY <1>5, <2>1 DEF BridgeStart, TypeOK
<1>6. CASE PlcScan
  <2>1. cmdLast' \in Command /\ cmdLast'.cycle \in Nat /\ clock \in Nat
    BY <1>6 DEF PlcScan, TypeOK, Command
  <2>2. \/ uLastCmdCycle' = cmdLast'.cycle /\ currentCmd' = cmdLast'
        \/ UNCHANGED <<uLastCmdCycle, currentCmd>>
    BY <1>6 DEF PlcScan
  <2> QED
    BY <1>1, <1>6, <2>1, <2>2 DEF PlcScan
<1>7. CASE PlcRestart
  BY <1>0, <1>1, <1>7, FaultsAssumption DEF PlcRestart
<1>8. CASE PathAdvance
  BY <1>8 DEF PathAdvance, sinkVars, TypeOK
<1>9. CASE UNCHANGED pathVars
  BY <1>1, <1>9 DEF pathVars
<1> QED
  BY <1>2, <1>3, <1>4, <1>5, <1>6, <1>7, <1>8, <1>9 DEF PathNext

\* Every value of the path is of its type, whatever dies and restarts.
THEOREM PathTypeCorrect == PathSpec => []PathTypeOK
<1>1. PathInit => FlagsOK
  BY Zenon DEF PathInit, FlagsOK
<1>2. PathInit => ValuesOK
  <2>1. NewCommand \in Command
    BY WordsAssumption DEF NewCommand, Command, Flags
  <2> QED
    BY <2>1, TypeInit, FaultsAssumption DEF PathInit, ValuesOK
<1>3. FlagsOK /\ ValuesOK => PathTypeOK
  BY Zenon DEF FlagsOK, ValuesOK, PathTypeOK
<1> QED
  BY <1>1, <1>2, <1>3, FlagsStep, ValuesStep, PTL DEF PathSpec

-----------------------------------------------------------------------------
(* The inductive invariant.                                                 *)

\* While the bridge runs, its watchdog and its clients keep each other's
\* times; the history never runs ahead of the clock.
RunningIsTimed == SeenIsPast /\ (up => WatchdogTiming /\ JogsAreRecent)

\* Until a bridge has published, its command jogs nothing; from then on it is
\* what the segment holds, and it was asked for since this process started.
OwnPublication ==
  /\ startedAt <= clock
  /\ pending.cycle = 0 => pending = NewCommand
  /\ pending.cycle > 0 => published = pending /\ startedAt <= heard
  /\ \A i \in Axes : Jogging(pending, i) => asked[i].at >= startedAt

\* Only a death inside a publication leaves the segment unreadable, and the
\* next publication repairs it.
RepairedByPublishing == up /\ pending.cycle > 0 => ~unreadable

\* The PLC's counter is the number of the command it acts on; the task scans
\* in time.
ScanTiming ==
  /\ uLastCmdCycle = currentCmd.cycle
  /\ scannedAt <= clock
  /\ clock <= scannedAt + ScanPeriod

\* A scan later than the dead-man bound saw a segment without jog bits: the
\* PLC took that command over, or it overlooked it.
ScanSawIt ==
  up /\ pending.cycle > 0 /\ heard + DeadManBound <= scannedAt =>
    \A i \in Axes : ~Jogging(published, i) /\ (Jogging(currentCmd, i) => Overlooked)

\* With the first bridge process, cycle numbers identify commands.
FirstBridge ==
  crashes = 0 =>
    /\ up /\ ~unreadable
    /\ published = pending
    /\ currentCmd.cycle <= published.cycle
    /\ currentCmd.cycle = published.cycle => currentCmd = published
    /\ bCmdValid => currentCmd = cmdLast

PathInv ==
  /\ RunningIsTimed
  /\ OwnPublication
  /\ RepairedByPublishing
  /\ ScanTiming
  /\ ScanSawIt
  /\ FirstBridge

\* A step of the running bridge leaves the clock alone and does one of three
\* things to the command.
LEMMA BridgeEffect ==
  ASSUME TypeOK, BridgeStep
  PROVE  clock' = clock /\ (Quiet \/ Accepted \/ Cleared)
<1>1. CASE Clients
  BY <1>1, ClientEffect, ClientRefresh
<1>2. CASE WatchdogTick
  BY <1>2 DEF WatchdogTick, Quiet
<1>3. CASE ExpireJogs
  BY <1>3, ExpireEffect DEF ExpireJogs
<1> QED
  BY <1>1, <1>2, <1>3 DEF BridgeStep

\* What a new sink starts from holds no jog bit.
LEMMA BlankJogsNothing ==
  \A i \in Axes : ~Jogging(NewCommand, i)
  BY DEF Jogging, NewCommand

\* Steps of the running bridge: the sink's own invariant carries over, and a
\* publication is what ends the time of the old segment.
LEMMA BridgeStepInv ==
  ASSUME ValuesOK, ValuesOK', PathInv, BridgeStep
  PROVE  PathInv'
<1>0. /\ UNCHANGED <<startedAt, crashes, cmdLast, uLastCmdCycle, currentCmd, scannedAt>>
      /\ TypeOK /\ TypeOK'
      /\ startedAt \in Nat /\ scannedAt \in Nat /\ clock \in Nat /\ heard \in Nat
      /\ pending \in Command /\ pending.cycle \in Nat
      /\ published.cycle \in Nat /\ currentCmd.cycle \in Nat
  <2>1. UNCHANGED <<startedAt, crashes, cmdLast, uLastCmdCycle, currentCmd, scannedAt>>
    BY DEF BridgeStep, bridgeVars, plcVars
  <2> QED
    BY <2>1 DEF ValuesOK, TypeOK, Command
<1>up. /\ up /\ up' /\ bCmdValid' = bCmdValid
      /\ unreadable' = (unreadable /\ pending'.cycle = pending.cycle)
  BY Zenon DEF BridgeStep, bridgeVars, plcVars
<1>repair. unreadable' => unreadable /\ pending'.cycle = pending.cycle
  BY <1>up, Zenon
<1>1. TimedInv /\ TimedInv'
  <2>1. TimedInv
    BY <1>up, Zenon DEF PathInv, RunningIsTimed, TimedInv
  <2> QED
    BY <1>0, <2>1, TimedStep DEF BridgeStep
<1>2. clock' = clock /\ (Quiet \/ Accepted \/ Cleared)
  BY <1>0, BridgeEffect
<1>3. RunningIsTimed'
  BY <1>1 DEF TimedInv, RunningIsTimed
<1>4. ScanTiming'
  BY <1>0, <1>2 DEF PathInv, ScanTiming
<1>5. CASE Quiet
  BY <1>0, <1>up, <1>repair, <1>2, <1>3, <1>4, <1>5
     DEF Quiet, PathInv, OwnPublication, RepairedByPublishing, ScanSawIt, FirstBridge,
         Overlooked, Jogging
<1>6. CASE Accepted
  <2>1. OwnPublication'
    BY <1>0, <1>2, <1>6 DEF Accepted, PathInv, OwnPublication, Jogging
  <2>2. RepairedByPublishing'
    BY <1>0, <1>repair, <1>6 DEF Accepted, RepairedByPublishing
  <2>3. ScanSawIt'
    BY <1>0, <1>2, <1>6, PeriodFacts, TimeoutAssumption
       DEF Accepted, PathInv, ScanTiming, ScanSawIt, DeadManBound
  <2>4. FirstBridge'
    BY <1>0, <1>up, <1>repair, <1>6 DEF Accepted, PathInv, FirstBridge
  <2> QED
    BY <1>3, <1>4, <2>1, <2>2, <2>3, <2>4 DEF PathInv
<1>7. CASE Cleared
  <2>1. PICK j \in Axes : Jogging(pending, j)
    BY <1>7 DEF Cleared, Expired
  <2>2. pending.cycle > 0 /\ published = pending /\ startedAt <= heard
    BY <1>0, <2>1, BlankJogsNothing DEF PathInv, OwnPublication
  <2>3. \A i \in Axes : Jogging(pending', i) => Jogging(pending, i)
    BY <1>7 DEF Cleared, Jogging
  <2>4. OwnPublication'
    BY <1>0, <1>2, <1>7, <2>2, <2>3 DEF Cleared, PathInv, OwnPublication, Jogging
  <2>5. RepairedByPublishing'
    BY <1>0, <1>repair, <1>7 DEF Cleared, RepairedByPublishing
  <2>6. ~(heard + DeadManBound <= scannedAt)
    BY <1>0, <1>up, <2>1, <2>2 DEF PathInv, ScanSawIt
  <2>7. ScanSawIt'
    BY <1>0, <1>7, <2>6 DEF Cleared, ScanSawIt, DeadManBound
  <2>8. FirstBridge'
    BY <1>0, <1>up, <1>repair, <1>7 DEF Cleared, PathInv, FirstBridge
  <2> QED
    BY <1>3, <1>4, <2>4, <2>5, <2>7, <2>8 DEF PathInv
<1> QED
  BY <1>2, <1>5, <1>6, <1>7

\* A death of the bridge: nothing more is published.
LEMMA BridgeStopInv ==
  ASSUME ValuesOK, PathInv, BridgeStop \/ BridgeStopMidPublish
  PROVE  PathInv'
<1>1. /\ ~up' /\ crashes' # 0
      /\ UNCHANGED <<clock, pending, jogSeen, published, wd, wdNow, nextTick, asked, heard,
                     startedAt, cmdLast, bCmdValid, uLastCmdCycle, currentCmd, scannedAt>>
  BY FaultsAssumption DEF BridgeStop, BridgeStopMidPublish, vars, sinkVars, plcVars, ValuesOK
<1> QED
  BY <1>1 DEF PathInv, RunningIsTimed, SeenIsPast, OwnPublication, RepairedByPublishing,
              ScanTiming, ScanSawIt, FirstBridge, Jogging

\* A new process: an empty command, a new ticker, an old segment.
LEMMA BridgeStartInv ==
  ASSUME ValuesOK, PathInv, BridgeStart
  PROVE  PathInv'
<1>0. /\ up' /\ ~up
      /\ startedAt' = clock
      /\ pending' = NewCommand /\ pending'.cycle = 0
      /\ jogSeen' = [i \in Axes |-> 0]
      /\ wd' = "waiting" /\ nextTick' = clock + Period
      /\ UNCHANGED <<clock, asked, heard, crashes, uLastCmdCycle, currentCmd, scannedAt>>
      /\ clock \in Nat /\ heard \in Nat
  BY DEF BridgeStart, FirstPending, NewCommand, plcVars, ValuesOK, TypeOK
<1>1. \A i \in Axes : ~Jogging(pending, i)'
  BY <1>0, BlankJogsNothing DEF Jogging
<1>2. RunningIsTimed'
  BY <1>0, <1>1, PeriodFacts
     DEF PathInv, RunningIsTimed, SeenIsPast, WatchdogTiming, JogsAreRecent
<1>3. OwnPublication'
  BY <1>0, <1>1 DEF OwnPublication
<1>4. ScanTiming'
  BY <1>0 DEF PathInv, ScanTiming
<1> QED
  BY <1>0, <1>2, <1>3, <1>4 DEF PathInv, RepairedByPublishing, ScanSawIt, FirstBridge

\* A scan reads the segment of a living bridge and takes over what is new; a
\* scan that comes DeadManBound after the last command finds no jog bit there.
LEMMA PlcScanInv ==
  ASSUME ValuesOK, PathInv, PlcScan
  PROVE  PathInv'
<1>0. /\ UNCHANGED <<clock, pending, jogSeen, published, wd, wdNow, nextTick, asked, heard,
                     up, startedAt, crashes, unreadable>>
      /\ scannedAt' = clock
  BY DEF PlcScan, vars, sinkVars, bridgeVars
<1>1. TypeOK /\ clock \in Nat /\ heard \in Nat /\ pending.cycle \in Nat
  BY DEF ValuesOK, TypeOK, Command
<1>2. RunningIsTimed' /\ OwnPublication' /\ RepairedByPublishing'
  BY <1>0 DEF PathInv, RunningIsTimed, SeenIsPast, WatchdogTiming, JogsAreRecent, JogIsRecent,
              LastHandledTick, OwnPublication, RepairedByPublishing, Jogging
<1>3. uLastCmdCycle = currentCmd.cycle
  BY DEF PathInv, ScanTiming
<1>4. \/ uLastCmdCycle' = cmdLast'.cycle /\ currentCmd' = cmdLast'
      \/ UNCHANGED <<uLastCmdCycle, currentCmd>>
  BY DEF PlcScan
<1>5. ScanTiming'
  BY <1>0, <1>1, <1>3, <1>4, ScanAssumption DEF ScanTiming
<1>6. Readable => /\ cmdLast' = published
                  /\ published.cycle = uLastCmdCycle => UNCHANGED <<uLastCmdCycle, currentCmd>>
                  /\ published.cycle # uLastCmdCycle => currentCmd' = published
  BY DEF PlcScan, IsNew
<1>7. ScanSawIt'
  <2> SUFFICES ASSUME up, pending.cycle > 0, heard + DeadManBound <= clock, NEW i \in Axes
               PROVE  ~Jogging(published, i) /\ (Jogging(currentCmd', i) => Overlooked')
    BY <1>0 DEF ScanSawIt, Jogging
  <2>1. published = pending /\ ~unreadable
    BY DEF PathInv, OwnPublication, RepairedByPublishing
  <2>2. ~Jogging(published, i)
    <3>1. TimedInv
      BY DEF PathInv, RunningIsTimed, TimedInv
    <3> QED
      BY <1>1, <2>1, <3>1, PendingDeadMan, PeriodFacts, TimeoutAssumption DEF DeadManBound
  <2>3. Readable
    BY <1>1, <2>1 DEF Readable
  <2> QED
    BY <1>0, <1>6, <2>2, <2>3 DEF Overlooked, Jogging
<1>8. FirstBridge'
  <2> SUFFICES ASSUME crashes = 0
               PROVE  FirstBridge'
    BY <1>0 DEF FirstBridge
  <2>1. /\ up /\ ~unreadable /\ published = pending
        /\ currentCmd.cycle <= published.cycle
        /\ currentCmd.cycle = published.cycle => currentCmd = published
        /\ bCmdValid => currentCmd = cmdLast
    BY DEF PathInv, FirstBridge
  <2>2. CASE Readable
    <3>1. currentCmd' = published /\ cmdLast' = published
      BY <1>3, <1>6, <2>1, <2>2
    <3> QED
      BY <1>0, <1>1, <2>1, <3>1 DEF FirstBridge
  <2>3. CASE ~Readable
    <3>1. /\ cmdLast' = cmdLast /\ (bCmdValid' => bCmdValid)
          /\ currentCmd' = currentCmd \/ (bCmdValid /\ currentCmd' = cmdLast)
      BY <2>3, Zenon DEF PlcScan
    <3>2. currentCmd' = currentCmd
      BY <2>1, <3>1
    <3> QED
      BY <1>0, <2>1, <3>1, <3>2 DEF FirstBridge
  <2> QED
    BY <2>2, <2>3
<1> QED
  BY <1>2, <1>5, <1>7, <1>8 DEF PathInv

\* A restart of the PLC program: its variables start over, the segment stays.
LEMMA PlcRestartInv ==
  ASSUME ValuesOK, PathInv, PlcRestart
  PROVE  PathInv'
<1>0. /\ UNCHANGED <<clock, pending, jogSeen, published, wd, wdNow, nextTick, asked, heard,
                     up, startedAt, crashes, unreadable, scannedAt>>
      /\ ~bCmdValid' /\ uLastCmdCycle' = 0
      /\ currentCmd' = NewCommand /\ currentCmd'.cycle = 0
  BY DEF PlcRestart, vars, sinkVars, bridgeVars, NewCommand
<1>1. RunningIsTimed' /\ OwnPublication' /\ RepairedByPublishing'
  BY <1>0 DEF PathInv, RunningIsTimed, SeenIsPast, WatchdogTiming, JogsAreRecent, JogIsRecent,
              LastHandledTick, OwnPublication, RepairedByPublishing, Jogging
<1>2. ScanTiming'
  BY <1>0 DEF PathInv, ScanTiming
<1>3. ScanSawIt'
  BY <1>0, BlankJogsNothing DEF PathInv, ScanSawIt, Jogging
<1>4. FirstBridge'
  <2>1. published.cycle \in Nat /\ pending.cycle \in Nat
    BY DEF ValuesOK, TypeOK, Command
  <2>2. published = pending /\ published.cycle = 0 => published = NewCommand
    BY DEF PathInv, OwnPublication
  <2> QED
    BY <1>0, <2>1, <2>2 DEF PathInv, FirstBridge
<1> QED
  BY <1>1, <1>2, <1>3, <1>4 DEF PathInv

\* Time passes: no later than the watchdog and the scan allow.
LEMMA PathAdvanceInv ==
  ASSUME ValuesOK, PathInv, PathAdvance
  PROVE  PathInv'
<1>0. /\ UNCHANGED <<pending, jogSeen, published, wd, wdNow, nextTick, asked, heard,
                     up, startedAt, crashes, unreadable, cmdLast, bCmdValid, uLastCmdCycle,
                     currentCmd, scannedAt>>
      /\ clock' = clock + 1 /\ clock < scannedAt + ScanPeriod
  BY DEF PathAdvance, sinkVars, bridgeVars, plcVars
<1>1. /\ TypeOK /\ clock \in Nat /\ heard \in Nat /\ scannedAt \in Nat /\ startedAt \in Nat
      /\ asked \in [Axes -> [flags: Flags, at: Nat]]
  BY DEF ValuesOK, TypeOK
<1>2. CASE up
  <2>1. TimedInv
    BY <1>2 DEF PathInv, RunningIsTimed, TimedInv
  <2>2. TimedInv'
    BY <1>1, <1>2, <2>1, TimedAdvance DEF PathAdvance
  <2> QED
    BY <1>0, <1>1, <2>2, ScanAssumption
       DEF TimedInv, PathInv, RunningIsTimed, OwnPublication, RepairedByPublishing,
           ScanTiming, ScanSawIt, FirstBridge, Jogging, Overlooked
<1>3. CASE ~up
  BY <1>0, <1>1, <1>3, ScanAssumption
     DEF PathInv, RunningIsTimed, SeenIsPast, OwnPublication, RepairedByPublishing,
         ScanTiming, ScanSawIt, FirstBridge, Jogging, Overlooked
<1> QED
  BY <1>2, <1>3

\* The inductive invariant of the command path.
THEOREM PathInvariance == PathSpec => [](ValuesOK /\ PathInv)
<1>1. PathInit => ValuesOK /\ PathInv
  <2>1. PathInit => ValuesOK
    <3>1. NewCommand \in Command
      BY WordsAssumption DEF NewCommand, Command, Flags
    <3> QED
      BY <3>1, TypeInit, FaultsAssumption DEF PathInit, ValuesOK
  <2>2. PathInit => PathInv
    <3> SUFFICES ASSUME PathInit
                 PROVE  PathInv
      OBVIOUS
    <3>1. NewCommand.cycle = 0 /\ \A i \in Axes : ~Jogging(NewCommand, i)
      BY BlankJogsNothing DEF NewCommand
    <3>2. RunningIsTimed
      BY <3>1, PeriodFacts DEF PathInit, Init, RunningIsTimed, SeenIsPast, WatchdogTiming,
                               JogsAreRecent
    <3>3. OwnPublication /\ RepairedByPublishing /\ ScanTiming
      BY <3>1, ScanAssumption DEF PathInit, Init, OwnPublication, RepairedByPublishing, ScanTiming
    <3>4. ScanSawIt
      BY <3>1 DEF PathInit, Init, ScanSawIt
    <3>5. FirstBridge
      BY <3>1 DEF PathInit, Init, FirstBridge
    <3> QED
      BY <3>2, <3>3, <3>4, <3>5 DEF PathInv
  <2> QED
    BY <2>1, <2>2
<1>2. ValuesOK /\ PathInv /\ [PathNext]_pathVars => PathInv'
  <2> SUFFICES ASSUME ValuesOK, ValuesOK', PathInv, [PathNext]_pathVars
               PROVE  PathInv'
    BY ValuesStep
  <2>1. CASE UNCHANGED pathVars
    BY <2>1 DEF pathVars, vars, sinkVars, bridgeVars, plcVars, PathInv, RunningIsTimed, SeenIsPast,
                WatchdogTiming, JogsAreRecent, JogIsRecent, LastHandledTick, OwnPublication,
                RepairedByPublishing, ScanTiming, ScanSawIt, FirstBridge, Overlooked, Jogging
  <2> QED
    BY <2>1, BridgeStepInv, BridgeStopInv, BridgeStartInv, PlcScanInv, PlcRestartInv,
       PathAdvanceInv DEF PathNext
<1> QED
  BY <1>1, <1>2, ValuesStep, PTL DEF PathSpec

-----------------------------------------------------------------------------
(* What follows from it.                                                    *)

\* The dead-man of the whole path: the PLC acts on a jog bit longer than the
\* bound and a scan only after a death of the bridge, and then only while no
\* successor has published, or when the successor's number was overlooked.
THEOREM PlcJogDeadManHolds == PathSpec => []PlcJogDeadMan
<1>1. ValuesOK /\ PathInv => PlcJogDeadMan
  <2> SUFFICES ASSUME ValuesOK, PathInv, NEW i \in Axes, Jogging(currentCmd, i),
                      clock - heard >= PlcDeadManBound
               PROVE  crashes > 0 /\ (Abandoned \/ Overlooked)
    BY DEF PlcJogDeadMan
  <2>0. /\ clock \in Nat /\ heard \in Nat /\ scannedAt \in Nat /\ crashes \in Nat
        /\ pending.cycle \in Nat /\ currentCmd.cycle \in Nat /\ published.cycle \in Nat
        /\ DeadManBound \in Nat
    BY PeriodFacts, TimeoutAssumption, FaultsAssumption
       DEF ValuesOK, TypeOK, Command, DeadManBound
  <2>1. heard + DeadManBound <= scannedAt
    BY <2>0, ScanAssumption DEF PathInv, ScanTiming, PlcDeadManBound
  <2>2. Abandoned \/ Overlooked
    BY <2>0, <2>1 DEF PathInv, ScanSawIt, Abandoned
  <2>3. crashes # 0
    <3> SUFFICES ASSUME crashes = 0
                 PROVE  FALSE
      OBVIOUS
    <3>1. /\ up /\ published = pending
          /\ currentCmd.cycle <= published.cycle
          /\ currentCmd.cycle = published.cycle => currentCmd = published
      BY DEF PathInv, FirstBridge
    <3>2. ~Overlooked
      BY <3>1 DEF PathInv, ScanTiming, Overlooked
    <3>3. pending = NewCommand /\ pending.cycle = 0
      BY <2>2, <3>1, <3>2 DEF Abandoned, PathInv, OwnPublication
    <3>4. currentCmd = NewCommand
      BY <2>0, <3>1, <3>3
    <3> QED
      BY <3>4, BlankJogsNothing
  <2> QED
    BY <2>0, <2>2, <2>3
<1> QED
  BY <1>1, PathInvariance, PTL

\* With the first bridge process the PLC acts on the command it read last.
THEOREM PlcActsOnLatestHolds == PathSpec => []PlcActsOnLatest
<1>1. PathInv => PlcActsOnLatest
  BY DEF PathInv, FirstBridge, PlcActsOnLatest
<1> QED
  BY <1>1, PathInvariance, PTL

\* A restarted bridge that has published publishes only what this process was
\* asked for, and its dead-man holds.
THEOREM RestartedSinkIsCleanHolds == PathSpec => []RestartedSinkIsClean
<1>1. ValuesOK /\ PathInv => RestartedSinkIsClean
  <2> SUFFICES ASSUME ValuesOK, PathInv, up, pending.cycle > 0
               PROVE  /\ published = pending
                      /\ \A i \in Axes : Jogging(published, i) =>
                            asked[i].at >= startedAt /\ clock - heard < DeadManBound
    BY DEF RestartedSinkIsClean
  <2>1. published = pending
    BY DEF PathInv, OwnPublication
  <2>2. TypeOK /\ TimedInv
    BY DEF ValuesOK, PathInv, RunningIsTimed, TimedInv
  <2> QED
    BY <2>1, <2>2, PendingDeadMan DEF PathInv, OwnPublication
<1> QED
  BY <1>1, PathInvariance, PTL

\* What is published is a whole command, numbered from 1, or the blank segment.
PublishedIsNumbered ==
  /\ published = NewCommand \/ published.cycle > 0
  /\ bCmdValid => cmdLast.cycle > 0

\* No step publishes an unnumbered command, or lets the PLC hold one for valid.
LEMMA NumberedStep ==
  ASSUME ValuesOK, PublishedIsNumbered, [PathNext]_pathVars
  PROVE  PublishedIsNumbered'
<1>0. TypeOK /\ pending.cycle \in Nat /\ published.cycle \in Nat
  BY DEF ValuesOK, TypeOK, Command
<1>1. CASE BridgeStep
  <2>1. UNCHANGED cmdLast /\ bCmdValid' = bCmdValid
    BY <1>1, Zenon DEF BridgeStep, plcVars
  <2>2. published' = published \/ (published' = pending' /\ pending'.cycle = pending.cycle + 1)
    BY <1>0, <1>1, BridgeEffect DEF Quiet, Accepted, Cleared
  <2> QED
    BY <1>0, <2>1, <2>2 DEF PublishedIsNumbered
<1>2. CASE BridgeStop \/ BridgeStopMidPublish \/ BridgeStart
  BY <1>2 DEF BridgeStop, BridgeStopMidPublish, BridgeStart, vars, sinkVars, plcVars,
              PublishedIsNumbered
<1>3. CASE PlcScan
  <2>1. UNCHANGED published
    BY <1>3 DEF PlcScan, vars, sinkVars
  <2>2. CASE Readable
    <3>1. cmdLast' = published /\ published.cycle # 0
      BY <1>3, <2>2 DEF PlcScan, Readable
    <3> QED
      BY <1>0, <2>1, <3>1 DEF PublishedIsNumbered
  <2>3. CASE ~Readable
    <3>1. cmdLast' = cmdLast /\ (bCmdValid' => bCmdValid)
      BY <1>3, <2>3, Zenon DEF PlcScan
    <3> QED
      BY <2>1, <3>1 DEF PublishedIsNumbered
  <2> QED
    BY <2>2, <2>3
<1>4. CASE PlcRestart \/ PathAdvance
  BY <1>4 DEF PlcRestart, PathAdvance, vars, sinkVars, plcVars, PublishedIsNumbered
<1>5. CASE UNCHANGED pathVars
  BY <1>5 DEF pathVars, vars, sinkVars, plcVars, PublishedIsNumbered
<1> QED
  BY <1>1, <1>2, <1>3, <1>4, <1>5 DEF PathNext

\* The command path keeps the promise of the segment: an accepted command or an
\* expiry is one publication, a scan that can read takes the last one whole, and
\* nothing but a restart of the PLC program takes a command away from it.
THEOREM PathImplementsRegister == PathSpec => ImplementsRestartingRegister
<1> DEFINE held == IF bCmdValid THEN <<cmdLast>> ELSE <<>>
<1>1. PathInit => PublishedIsNumbered /\ Register!Init
  BY Zenon DEF PathInit, Init, PublishedIsNumbered, Register!Init
<1>2. ASSUME ValuesOK, PublishedIsNumbered, [PathNext]_pathVars
      PROVE  [Register!Next \/ Register!Forget]_<<published, held>>
  <2>0. NewCommand.cycle = 0
    BY DEF NewCommand
  <2>1. CASE BridgeStep
    <3>1. held' = held
      BY <2>1, Zenon DEF BridgeStep, plcVars
    <3>2. \/ published' = published
          \/ published' \in Command /\ published' # NewCommand
      <4>1. TypeOK /\ pending.cycle \in Nat
        BY <1>2 DEF ValuesOK, TypeOK, Command
      <4> QED
        BY <2>0, <2>1, <4>1, BridgeEffect DEF Quiet, Accepted, Cleared
    <3> QED
      BY <3>1, <3>2, Zenon DEF Register!Next, Register!Publish
  <2>2. CASE BridgeStop \/ BridgeStopMidPublish \/ BridgeStart \/ PathAdvance
    <3>1. UNCHANGED <<published, cmdLast, bCmdValid>>
      BY <2>2 DEF BridgeStop, BridgeStopMidPublish, BridgeStart, PathAdvance, vars,
                  sinkVars, plcVars
    <3> QED
      BY <3>1
  <2>3. CASE PlcScan
    <3>1. UNCHANGED published
      BY <2>3 DEF PlcScan, vars, sinkVars
    <3>2. CASE Readable
      <4>1. bCmdValid' /\ cmdLast' = published
        BY <2>3, <3>2, Zenon DEF PlcScan
      <4>2. published # NewCommand
        BY <2>0, <3>2 DEF Readable
      <4> QED
        BY <3>1, <4>1, <4>2, Zenon DEF Register!Next, Register!Latch
    <3>3. CASE ~Readable
      BY <2>3, <3>1, <3>3, Zenon DEF PlcScan
    <3> QED
      BY <3>2, <3>3
  <2>4. CASE PlcRestart
    BY <2>4, Zenon DEF PlcRestart, vars, sinkVars, Register!Forget
  <2>5. CASE UNCHANGED pathVars
    <3>1. UNCHANGED <<published, cmdLast, bCmdValid>>
      BY <2>5 DEF pathVars, vars, sinkVars, plcVars
    <3> QED
      BY <3>1
  <2> QED
    BY <1>2, <2>1, <2>2, <2>3, <2>4, <2>5 DEF PathNext
<1> QED
  BY <1>1, <1>2, NumberedStep, PathInvariance, PTL
     DEF PathSpec, ImplementsRestartingRegister, Register!RestartingSpec
=============================================================================
