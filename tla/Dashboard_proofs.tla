-------------------------- MODULE Dashboard_proofs --------------------------
(* Type correctness of the telemetry path and of the dashboard on top of    *)
(* it, what a snapshot that counts as live proves about the PLC, and what   *)
(* the operator's badge proves, for any periods, thresholds and latenesses. *)
EXTENDS Dashboard, TLAPS

\* All periods and bounds are numbers.
LEMMA PeriodTypes ==
  /\ ScanPeriod \in Nat /\ ScanPeriod >= 1
  /\ PollPeriod \in Nat /\ PollPeriod >= 1
  /\ PushPeriod \in Nat /\ PushPeriod >= 1
  /\ StaleAfter \in Nat
  /\ PollLag \in Nat /\ PollLag < PollPeriod
  /\ MaxPlcDeaths \in Nat
  BY PeriodsAssumption, PollLagAssumption, PushAssumption, BoundsAssumption

\* Every value of the telemetry path is of its type.
LEMMA TelemetryTypes == TypeOK /\ [Next]_vars => TypeOK'
<1> SUFFICES ASSUME TypeOK, [Next]_vars
             PROVE  TypeOK'
  OBVIOUS
<1> USE PeriodTypes DEF TypeOK, plcVars, bridgeVars
<1>1. CASE PlcPublish
  BY <1>1 DEF PlcPublish
<1>2. CASE PlcDie
  BY <1>2 DEF PlcDie
<1>3. CASE PlcDieMidPublish
  <2>1. seg' \in [odd: BOOLEAN, cycle: Nat]
    <3>1. PICK c \in {seg.cycle, seg.cycle + 1} : seg' = [odd |-> TRUE, cycle |-> c]
      BY <1>3 DEF PlcDieMidPublish
    <3>2. c \in Nat
      OBVIOUS
    <3> QED
      BY <3>1, <3>2
  <2> QED
    BY <1>3, <2>1 DEF PlcDieMidPublish
<1>4. CASE PlcInit
  BY <1>4 DEF PlcInit
<1>5. CASE PollTick
  BY <1>5 DEF PollTick
<1>6. CASE PollUpdate
  BY <1>6 DEF PollUpdate, Updated
<1>7. CASE BridgeStop
  <2>1. up' \in BOOLEAN
    BY <1>7, Zenon DEF BridgeStop
  <2>2. poll' \in [pc: {"waiting", "copied"}, d: Nat, next: Nat]
    BY <1>7 DEF BridgeStop, FirstPoll
  <2>3. snap' \in [valid: BOOLEAN, cycle: Nat, updatedAt: Nat] /\ startedAt' \in Nat
    BY <1>7 DEF BridgeStop, EmptySnapshot
  <2> QED
    BY <1>7, <2>1, <2>2, <2>3 DEF BridgeStop
<1>8. CASE BridgeStart
  BY <1>8 DEF BridgeStart, FirstPoll
<1>9. CASE Advance
  BY <1>9 DEF Advance
<1>10. CASE UNCHANGED vars
  BY <1>10 DEF vars
<1> QED
  BY <1>1, <1>2, <1>3, <1>4, <1>5, <1>6, <1>7, <1>8, <1>9, <1>10 DEF Next

\* Types of the telemetry path.
LEMMA TelemetryInitTypes == Init => TypeOK
  BY PeriodTypes DEF Init, TypeOK, FirstPoll, EmptySnapshot

-----------------------------------------------------------------------------
(* The inductive invariant of the telemetry path.                           *)

\* The nominal time of the last event of the poll ticker that was dealt with.
LastDone == poll.next - (IF poll.pc = "waiting" THEN PollPeriod ELSE 2 * PollPeriod)

\* The PLC publishes in time, its segment is readable while it runs, and its
\* first scan takes no time.
PlcOnTime ==
  /\ aliveAt <= clock /\ plcSince <= clock
  /\ plc = "init" => plcSince = clock
  /\ plc = "cyclic" => clock <= aliveAt + ScanPeriod
  /\ plc # "down" => ~seg.odd

\* The poll goroutine is never later than PollLag for a ticker event.
PollOnTime ==
  /\ startedAt <= clock
  /\ up => /\ poll.next <= clock + PollPeriod
           /\ clock <= PollLag + (IF poll.pc = "waiting" THEN poll.next
                                                         ELSE poll.next - PollPeriod)

\* Cycle numbers in the segment only grow; a bridge that is down knows nothing.
CyclesGrow ==
  /\ snap.cycle <= seg.cycle /\ poll.d <= seg.cycle
  /\ ~up => ~snap.valid

\* A copy the goroutine holds is of the segment as it is, unless the PLC has
\* run since the event.
CopyIsCurrent ==
  up /\ poll.pc = "copied" /\ aliveAt < poll.next - PollPeriod =>
    poll.d = seg.cycle /\ ~seg.odd

\* A segment that was not written since the last event is in the snapshot, or
\* cannot be read.
FrozenIsKnown ==
  up /\ LastDone > startedAt /\ aliveAt < LastDone =>
    seg.odd \/ (snap.valid /\ snap.cycle = seg.cycle)

\* The snapshot is never younger than the PLC's last sign of life, less one
\* period of the poll and its lateness, but for the first read after a start.
AgeIsHonest ==
  snap.valid =>
    /\ snap.updatedAt <= clock
    /\ \/ snap.updatedAt <= startedAt + PollPeriod + PollLag
       \/ aliveAt >= snap.updatedAt - PollPeriod - PollLag

\* A snapshot of the current publication is no older than the publication.
HeldIsCurrent ==
  snap.valid /\ plc = "cyclic" /\ snap.cycle = seg.cycle => snap.updatedAt >= aliveAt

\* A copy that repeats the snapshot means that the snapshot is recent.
RepeatIsRecent ==
  ThresholdFits /\ plc # "down" /\ up /\ poll.pc = "copied" /\ poll.next - PollPeriod > plcSince
  /\ snap.valid /\ poll.d = snap.cycle
    => snap.updatedAt >= poll.next - 2 * PollPeriod

\* With a PLC that has been running since before the last event dealt with,
\* the snapshot is valid and at most one period older than that event.
ReadIsFresh ==
  ThresholdFits /\ plc # "down" /\ up /\ LastDone > plcSince /\ LastDone > startedAt =>
    snap.valid /\ snap.updatedAt >= LastDone - PollPeriod

TelemetryInv ==
  /\ PlcOnTime /\ PollOnTime /\ CyclesGrow /\ CopyIsCurrent /\ FrozenIsKnown
  /\ AgeIsHonest /\ HeldIsCurrent /\ RepeatIsRecent /\ ReadIsFresh

\* The invariant before anything has been published.
LEMMA TelemetryInitInv == Init => TelemetryInv
  BY PeriodTypes
     DEF Init, FirstPoll, EmptySnapshot, LastDone, TelemetryInv, PlcOnTime, PollOnTime, CyclesGrow,
         CopyIsCurrent, FrozenIsKnown, AgeIsHonest, HeldIsCurrent, RepeatIsRecent, ReadIsFresh

\* The PLC's steps: whatever changes the segment shows in aliveAt, and a new
\* publication has a new number.
LEMMA PlcStepInv ==
  ASSUME TypeOK, TelemetryInv, PlcPublish \/ PlcDie \/ PlcDieMidPublish \/ PlcInit
  PROVE  TelemetryInv'
<1>0. /\ UNCHANGED <<clock, up, startedAt, poll, snap>>
      /\ (aliveAt' = clock \/ (aliveAt' = aliveAt /\ seg' = seg))
      /\ seg'.cycle >= seg.cycle
      /\ plc' = "cyclic" => seg'.cycle > seg.cycle
      /\ plc' # "down" => plcSince' = clock \/ (plc # "down" /\ plcSince' = plcSince)
  <2>0. seg.cycle \in Nat
    BY DEF TypeOK
  <2>1. CASE PlcDieMidPublish
    <3>1. PICK c \in {seg.cycle, seg.cycle + 1} : seg' = [odd |-> TRUE, cycle |-> c]
      BY <2>1 DEF PlcDieMidPublish
    <3>2. seg'.cycle >= seg.cycle
      BY <2>0, <3>1
    <3> QED
      BY <2>1, <3>2 DEF PlcDieMidPublish, bridgeVars
  <2>2. CASE PlcPublish
    BY <2>0, <2>2 DEF PlcPublish, bridgeVars
  <2>3. CASE PlcDie
    BY <2>0, <2>3 DEF PlcDie, bridgeVars
  <2>4. CASE PlcInit
    <3>1. seg'.cycle = seg.cycle
      BY <2>4 DEF PlcInit, TypeOK
    <3> QED
      BY <2>0, <2>4, <3>1 DEF PlcInit, bridgeVars
  <2> QED
    BY <2>1, <2>2, <2>3, <2>4
<1>1. PlcOnTime'
  <2>1. CASE PlcPublish
    BY <2>1, PeriodTypes DEF TelemetryInv, PlcOnTime, PlcPublish, TypeOK
  <2>2. CASE PlcDie \/ PlcDieMidPublish
    BY <2>2, PeriodTypes DEF TelemetryInv, PlcOnTime, PlcDie, PlcDieMidPublish, TypeOK
  <2>3. CASE PlcInit
    BY <2>3, PeriodTypes DEF TelemetryInv, PlcOnTime, PlcInit, TypeOK
  <2> QED
    BY <2>1, <2>2, <2>3
<1>2. /\ clock \in Nat /\ aliveAt \in Nat /\ plcSince \in Nat /\ startedAt \in Nat
      /\ poll.next \in Nat /\ poll.d \in Nat /\ snap.cycle \in Nat /\ snap.updatedAt \in Nat
      /\ seg.cycle \in Nat /\ seg'.cycle \in Nat /\ aliveAt <= clock
  BY TelemetryTypes DEF Next, TypeOK, TelemetryInv, PlcOnTime
<1>3. up => poll.next - PollPeriod <= clock /\ LastDone <= clock
  BY <1>2, PeriodTypes DEF TelemetryInv, PollOnTime, LastDone
<1>4. PollOnTime'
  BY <1>0 DEF TelemetryInv, PollOnTime
<1>5. CyclesGrow'
  BY <1>0, <1>2 DEF TelemetryInv, CyclesGrow
<1>6. CopyIsCurrent'
  BY <1>0, <1>2, <1>3, PeriodTypes DEF TelemetryInv, CopyIsCurrent
<1>7. FrozenIsKnown'
  BY <1>0, <1>2, <1>3, PeriodTypes DEF TelemetryInv, FrozenIsKnown, LastDone
<1>8. AgeIsHonest'
  BY <1>0, <1>2, PeriodTypes DEF TelemetryInv, AgeIsHonest
<1>9. HeldIsCurrent'
  BY <1>0, <1>2 DEF TelemetryInv, HeldIsCurrent, CyclesGrow
<1>10. RepeatIsRecent'
  BY <1>0, <1>2, <1>3, PeriodTypes DEF TelemetryInv, RepeatIsRecent, ThresholdFits
<1>11. ReadIsFresh'
  BY <1>0, <1>2, <1>3, PeriodTypes DEF TelemetryInv, ReadIsFresh, LastDone, ThresholdFits
<1> QED
  BY <1>1, <1>4, <1>5, <1>6, <1>7, <1>8, <1>9, <1>10, <1>11 DEF TelemetryInv

\* What the invariants below count with.
NumbersOK ==
  /\ clock \in Nat /\ aliveAt \in Nat /\ plcSince \in Nat /\ startedAt \in Nat
  /\ poll.next \in Nat /\ poll.d \in Nat /\ snap.cycle \in Nat /\ snap.updatedAt \in Nat
  /\ seg.cycle \in Nat

\* The numbers among the variables, for the arithmetic below.
LEMMA Numbers == TypeOK => NumbersOK
  BY DEF TypeOK, NumbersOK

\* A ticker event: the copy is of the segment as it is; if it repeats the
\* snapshot, the publication it holds is at most one scan old.
LEMMA PollTickInv ==
  ASSUME TypeOK, TelemetryInv, PollTick
  PROVE  TelemetryInv'
<1>0. /\ UNCHANGED <<clock, plc, aliveAt, plcSince, seg, startedAt, snap>>
      /\ NumbersOK
  BY Numbers DEF PollTick, plcVars
<1>1. /\ poll.pc = "waiting" /\ clock >= poll.next
      /\ poll'.next = poll.next + PollPeriod
      /\ (seg.odd /\ poll'.pc = "waiting" /\ poll'.d = poll.d)
           \/ (~seg.odd /\ poll'.pc = "copied" /\ poll'.d = seg.cycle)
  BY DEF PollTick
<1>2. up /\ up'
  BY DEF PollTick
<1>3. poll'.next \in Nat /\ poll'.next - PollPeriod = poll.next
  BY <1>0, <1>1, PeriodTypes DEF NumbersOK
<1>4. CASE seg.odd
  <2>1. poll'.pc = "waiting" /\ poll'.d = poll.d /\ LastDone' = poll.next
    BY <1>1, <1>3, <1>4 DEF LastDone
  <2>2. PlcOnTime' /\ AgeIsHonest' /\ HeldIsCurrent'
    BY <1>0 DEF TelemetryInv, PlcOnTime, AgeIsHonest, HeldIsCurrent
  <2>3. PollOnTime'
    BY <1>0, <1>1, <1>2, <2>1, PeriodTypes DEF NumbersOK, TelemetryInv, PollOnTime
  <2>4. CyclesGrow'
    BY <1>0, <1>2, <2>1 DEF TelemetryInv, CyclesGrow
  <2>5. CopyIsCurrent' /\ RepeatIsRecent'
    BY <2>1 DEF CopyIsCurrent, RepeatIsRecent
  <2>6. FrozenIsKnown'
    BY <1>0, <1>4 DEF FrozenIsKnown
  <2>7. ReadIsFresh'
    BY <1>0, <1>4 DEF TelemetryInv, PlcOnTime, ReadIsFresh
  <2> QED
    BY <2>2, <2>3, <2>4, <2>5, <2>6, <2>7 DEF TelemetryInv
<1>5. CASE ~seg.odd
  <2>1. /\ poll'.pc = "copied" /\ poll'.d = seg.cycle
        /\ LastDone = poll.next - PollPeriod /\ LastDone' = LastDone
    BY <1>0, <1>1, <1>3, <1>5, PeriodTypes DEF NumbersOK, LastDone
  <2>2. PlcOnTime' /\ AgeIsHonest' /\ HeldIsCurrent'
    BY <1>0 DEF TelemetryInv, PlcOnTime, AgeIsHonest, HeldIsCurrent
  <2>3. PollOnTime'
    BY <1>0, <1>1, <1>2, <2>1, PeriodTypes DEF NumbersOK, TelemetryInv, PollOnTime
  <2>4. CyclesGrow'
    BY <1>0, <1>2, <2>1 DEF NumbersOK, TelemetryInv, CyclesGrow
  <2>5. CopyIsCurrent'
    BY <1>0, <1>5, <2>1 DEF CopyIsCurrent
  <2>6. FrozenIsKnown' /\ ReadIsFresh'
    BY <1>0, <1>2, <2>1 DEF TelemetryInv, FrozenIsKnown, ReadIsFresh, ThresholdFits
  <2>7. RepeatIsRecent'
    <3> SUFFICES ASSUME ThresholdFits, plc # "down", poll.next > plcSince,
                        snap.valid, seg.cycle = snap.cycle
                 PROVE  snap.updatedAt >= poll.next - PollPeriod
      BY <1>0, <1>1, <1>3, <2>1, PeriodTypes DEF NumbersOK, RepeatIsRecent, ThresholdFits
    <3>1. plc = "cyclic"
      BY <1>0, <1>1 DEF TelemetryInv, PlcOnTime, TypeOK, NumbersOK
    <3> QED
      BY <1>0, <1>1, <3>1, PeriodTypes
         DEF NumbersOK, TelemetryInv, PlcOnTime, HeldIsCurrent, ThresholdFits
  <2> QED
    BY <2>2, <2>3, <2>4, <2>5, <2>6, <2>7 DEF TelemetryInv
<1> QED
  BY <1>4, <1>5

\* The snapshot is updated: it is refreshed only by a copy that differs from
\* it, which shows that the PLC ran since the event before, or by the first.
LEMMA PollUpdateInv ==
  ASSUME TypeOK, TelemetryInv, PollUpdate
  PROVE  TelemetryInv'
<1>0. /\ UNCHANGED <<clock, plc, aliveAt, plcSince, seg, startedAt>>
      /\ NumbersOK
  BY Numbers DEF PollUpdate, plcVars
<1>1. /\ poll.pc = "copied"
      /\ poll'.next = poll.next /\ poll'.pc = "waiting" /\ poll'.d = poll.d
  BY DEF PollUpdate, TypeOK
<1>2. up /\ up' /\ snap'.valid
  BY DEF PollUpdate, Updated
<1>3. /\ snap'.cycle = poll.d
      /\ \/ snap'.updatedAt = clock /\ (~snap.valid \/ poll.d # snap.cycle)
         \/ snap'.updatedAt = snap.updatedAt /\ snap.valid /\ poll.d = snap.cycle
  BY DEF PollUpdate, Updated, Advanced
<1>4. /\ LastDone = poll.next - 2 * PollPeriod
      /\ LastDone' = poll.next - PollPeriod
      /\ LastDone' <= clock /\ clock <= LastDone' + PollLag
  BY <1>0, <1>1, <1>2, PeriodTypes DEF NumbersOK, LastDone, TelemetryInv, PollOnTime
<1>5. PlcOnTime' /\ PollOnTime'
  BY <1>0, <1>1, <1>2, <1>4, PeriodTypes DEF NumbersOK, LastDone, TelemetryInv, PlcOnTime, PollOnTime
<1>6. CyclesGrow'
  BY <1>0, <1>1, <1>2, <1>3 DEF TelemetryInv, CyclesGrow
<1>7. CopyIsCurrent' /\ RepeatIsRecent'
  BY <1>1 DEF CopyIsCurrent, RepeatIsRecent
<1>8. FrozenIsKnown'
  BY <1>0, <1>1, <1>2, <1>3, <1>4 DEF TelemetryInv, FrozenIsKnown, CopyIsCurrent
<1>9. AgeIsHonest'
  <2>1. CASE snap'.updatedAt = snap.updatedAt /\ snap.valid
    BY <1>0, <2>1 DEF TelemetryInv, AgeIsHonest
  <2>2. CASE snap'.updatedAt = clock /\ (~snap.valid \/ poll.d # snap.cycle)
    <3>1. LastDone <= startedAt \/ aliveAt >= LastDone
      <4> SUFFICES ASSUME LastDone > startedAt, aliveAt < LastDone
                   PROVE  FALSE
        BY <1>0, <1>4, PeriodTypes DEF NumbersOK
      <4>1. aliveAt < poll.next - PollPeriod
        BY <1>0, <1>4, PeriodTypes DEF NumbersOK
      <4>2. poll.d = seg.cycle /\ ~seg.odd
        BY <1>1, <1>2, <4>1 DEF TelemetryInv, CopyIsCurrent
      <4>3. snap.valid /\ snap.cycle = seg.cycle
        BY <1>2, <4>2 DEF TelemetryInv, FrozenIsKnown
      <4> QED
        BY <2>2, <4>2, <4>3
    <3>2. LastDone' = LastDone + PollPeriod
      BY <1>0, <1>4, PeriodTypes DEF NumbersOK
    <3>3. snap'.updatedAt <= LastDone + PollPeriod + PollLag
      BY <1>0, <1>4, <2>2, <3>2, PeriodTypes DEF NumbersOK
    <3> QED
      BY <1>0, <1>4, <2>2, <3>1, <3>3, PeriodTypes DEF NumbersOK, AgeIsHonest
  <2> QED
    BY <1>3, <2>1, <2>2
<1>10. HeldIsCurrent'
  BY <1>0, <1>3 DEF NumbersOK, TelemetryInv, HeldIsCurrent, PlcOnTime
<1>11. ReadIsFresh'
  <2> SUFFICES ASSUME ThresholdFits, plc # "down", LastDone' > plcSince
               PROVE  snap'.updatedAt >= LastDone' - PollPeriod
    BY <1>0, <1>2 DEF ReadIsFresh, ThresholdFits
  <2>1. CASE snap'.updatedAt = clock
    BY <1>0, <1>4, <2>1, PeriodTypes DEF NumbersOK
  <2>2. CASE snap'.updatedAt = snap.updatedAt /\ snap.valid /\ poll.d = snap.cycle
    BY <1>0, <1>1, <1>2, <1>4, <2>2, PeriodTypes DEF NumbersOK, TelemetryInv, RepeatIsRecent
  <2> QED
    BY <1>3, <2>1, <2>2
<1> QED
  BY <1>5, <1>6, <1>7, <1>8, <1>9, <1>10, <1>11 DEF TelemetryInv

\* The bridge ends and starts: its snapshot is empty either way.
LEMMA BridgeInv ==
  ASSUME TypeOK, TelemetryInv, BridgeStop \/ BridgeStart
  PROVE  TelemetryInv'
<1>0. UNCHANGED <<clock, plc, aliveAt, plcSince, seg>> /\ NumbersOK
  BY Numbers DEF BridgeStop, BridgeStart, plcVars
<1>1. PlcOnTime'
  BY <1>0 DEF TelemetryInv, PlcOnTime
<1>2. CASE BridgeStop
  <2>1. /\ ~up' /\ ~snap'.valid /\ snap'.cycle = 0 /\ startedAt' = 0
        /\ poll'.d = 0
    BY <1>2 DEF BridgeStop, EmptySnapshot, FirstPoll
  <2>2. PollOnTime' /\ CyclesGrow'
    BY <1>0, <2>1 DEF NumbersOK, PollOnTime, CyclesGrow
  <2> QED
    BY <1>1, <2>1, <2>2
       DEF TelemetryInv, CopyIsCurrent, FrozenIsKnown, AgeIsHonest, HeldIsCurrent, RepeatIsRecent,
           ReadIsFresh
<1>3. CASE BridgeStart
  <2>1. /\ ~up /\ up' /\ snap' = snap /\ ~snap.valid /\ startedAt' = clock
        /\ poll'.pc = "waiting" /\ poll'.d = 0 /\ poll'.next = clock + PollPeriod
    BY <1>3 DEF BridgeStart, FirstPoll, TelemetryInv, CyclesGrow
  <2>2. PollOnTime' /\ CyclesGrow'
    BY <1>0, <2>1, PeriodTypes DEF NumbersOK, TelemetryInv, PollOnTime, CyclesGrow
  <2>3. LastDone' = startedAt'
    BY <1>0, <2>1, PeriodTypes DEF NumbersOK, LastDone
  <2>4. FrozenIsKnown' /\ ReadIsFresh'
    BY <1>0, <2>1, <2>3 DEF NumbersOK, FrozenIsKnown, ReadIsFresh
  <2> QED
    BY <1>1, <2>1, <2>2, <2>4
       DEF TelemetryInv, CopyIsCurrent, AgeIsHonest, HeldIsCurrent, RepeatIsRecent
<1> QED
  BY <1>2, <1>3

\* Time passes as far as the PLC task and the poll goroutine keep up.
LEMMA AdvanceInv ==
  ASSUME TypeOK, TelemetryInv, Advance
  PROVE  TelemetryInv'
<1>0. /\ UNCHANGED <<plc, aliveAt, plcSince, seg, up, startedAt, poll, snap>>
      /\ clock' = clock + 1 /\ NumbersOK
      /\ plc # "init" /\ (plc = "cyclic" => clock < aliveAt + ScanPeriod)
      /\ up => clock < PollLag + (IF poll.pc = "waiting" THEN poll.next
                                                          ELSE poll.next - PollPeriod)
  BY Numbers DEF Advance, plcVars, bridgeVars
<1>1. PlcOnTime' /\ PollOnTime'
  BY <1>0, PeriodTypes DEF NumbersOK, TelemetryInv, PlcOnTime, PollOnTime
<1>2. AgeIsHonest'
  BY <1>0 DEF NumbersOK, TelemetryInv, AgeIsHonest
<1> QED
  BY <1>0, <1>1, <1>2
     DEF TelemetryInv, CyclesGrow, CopyIsCurrent, FrozenIsKnown, HeldIsCurrent, RepeatIsRecent,
         ReadIsFresh, LastDone, ThresholdFits

\* One step of the telemetry path.
LEMMA TelemetryStepInv == TypeOK /\ TelemetryInv /\ [Next]_vars => TelemetryInv'
<1> SUFFICES ASSUME TypeOK, TelemetryInv, [Next]_vars
             PROVE  TelemetryInv'
  OBVIOUS
<1>1. CASE UNCHANGED vars
  BY <1>1 DEF vars, plcVars, bridgeVars, TelemetryInv, PlcOnTime, PollOnTime, CyclesGrow,
              CopyIsCurrent, FrozenIsKnown, AgeIsHonest, HeldIsCurrent, RepeatIsRecent,
              ReadIsFresh, LastDone, ThresholdFits
<1> QED
  BY <1>1, PlcStepInv, PollTickInv, PollUpdateInv, BridgeInv, AdvanceInv DEF Next

\* A snapshot that is served after the warm-up proves that the PLC ran.
LEMMA ServedProvesLife ==
  ASSUME TypeOK, TelemetryInv
  PROVE  LiveMeansPlcRan
<1> SUFFICES ASSUME snap.valid, ~(clock - snap.updatedAt > StaleAfter), clock - startedAt > LiveBound
             PROVE  clock - aliveAt <= LiveBound
  BY DEF LiveMeansPlcRan, ModbusServes, IsStale, WarmedUp
<1>1. aliveAt >= snap.updatedAt - PollPeriod - PollLag
  BY Numbers, PeriodTypes DEF NumbersOK, TelemetryInv, AgeIsHonest, LiveBound
<1> QED
  BY <1>1, Numbers, PeriodTypes DEF NumbersOK, LiveBound

\* A PLC and a bridge that have run long enough are served.
LEMMA LifeIsServed ==
  ASSUME TypeOK, TelemetryInv
  PROVE  AliveIsServed
<1> SUFFICES ASSUME ThresholdFits, plc = "cyclic", Settled(plcSince), up, Settled(startedAt)
             PROVE  ModbusServes
  BY DEF AliveIsServed
<1>1. LastDone > plcSince /\ LastDone > startedAt
      /\ LastDone \in Int /\ clock <= LastDone + PollPeriod + PollLag
  BY Numbers, PeriodTypes DEF NumbersOK, TelemetryInv, PollOnTime, LastDone, Settled
<1>2. snap.valid /\ snap.updatedAt >= LastDone - PollPeriod
  BY <1>1 DEF TelemetryInv, ReadIsFresh
<1>3. clock - snap.updatedAt <= StaleAfter
  BY <1>1, <1>2, Numbers, PeriodTypes DEF NumbersOK, ThresholdFits
<1> QED
  BY <1>2, <1>3, Numbers, PeriodTypes DEF NumbersOK, ModbusServes, IsStale

\* The telemetry path by itself.
THEOREM TelemetryInvariance == Spec => [](TypeOK /\ TelemetryInv)
  BY TelemetryInitTypes, TelemetryInitInv, TelemetryTypes, TelemetryStepInv, PTL DEF Spec

-----------------------------------------------------------------------------
(* The inductive invariant of the dashboard.                                *)

\* What was told on this connection: the page's last message and the messages
\* on their way to it.
Told == conn.line \cup (IF hmi.fresh THEN {[data |-> hmi.data, ts |-> hmi.ts]} ELSE {})

\* When the page is told next: the messages on their way, and the next push.
Ahead == {m.ts : m \in conn.line} \cup {conn.push}

\* An open connection is one of a running bridge, which tells nothing before
\* its snapshot is valid; without a connection nothing is on the way.
ConnOK ==
  /\ conn.open => hmi.connected /\ up
  /\ ~hmi.connected => ~hmi.fresh /\ ~conn.passes /\ conn.line = {}
  /\ hmi.fresh => hmi.data # "none"
  /\ conn.open /\ Told # {} => snap.valid
  /\ conn.since <= clock /\ conn.closedAt <= clock
  /\ \A x \in Told : x.ts <= clock

\* Over a link that passes, the server's end is closed only by its end.
ClosedWithBridge ==
  hmi.connected /\ ~conn.open /\ conn.passes =>
    conn.closedAt <= conn.since \/ ~up \/ conn.closedAt <= startedAt

\* A link that passes has delivered what was sent long ago.
DeliveredInTime ==
  conn.passes =>
    /\ \A m \in conn.line : clock <= m.ts + Latency \/ clock <= conn.since + Latency
    /\ ~conn.open => clock <= conn.closedAt + Latency \/ clock <= conn.since + Latency

\* The push loop is late only while it is stalled, and for the first push after.
PushInTime ==
  conn.open => /\ conn.push <= clock + PushPeriod
               /\ clock <= conn.push \/ clock <= conn.since \/ Stalled

\* No gap in what is told is longer than a period, but for one that the link was
\* silent in.
NoGap ==
  conn.open => \A x \in Told : \E n \in Ahead :
                 x.ts < n /\ (n <= x.ts + PushPeriod \/ n <= conn.since + PushPeriod)

\* A page that was told nothing yet is told soon after the snapshot became
\* valid or was refreshed,
ToldOfData ==
  conn.open /\ ~hmi.fresh /\ snap.valid =>
    \E n \in Ahead : n <= snap.updatedAt + PushPeriod \/ n <= conn.since + PushPeriod

\* and soon after the PLC and the bridge came to run.
ToldOfLife ==
  ThresholdFits /\ plc # "down" /\ conn.open /\ ~hmi.fresh =>
    \E n \in Ahead : \/ n <= plcSince + PollPeriod + PollLag + PushPeriod
                     \/ n <= startedAt + PollPeriod + PollLag + PushPeriod
                     \/ n <= conn.since + PushPeriod

\* "live" was true when it was said.
LiveWasTrue ==
  conn.open => \A x \in Told :
    x.data = "live" /\ x.ts - startedAt > LiveBound => aliveAt >= x.ts - LiveBound

\* "stale" was true when it was said: not of a PLC and a bridge that had run
\* long enough.
StaleWasTrue ==
  ThresholdFits /\ plc # "down" /\ conn.open => \A x \in Told :
    x.ts - plcSince > PollPeriod + PollLag /\ x.ts - startedAt > PollPeriod + PollLag
      => x.data = "live"

DashInv ==
  /\ ConnOK /\ ClosedWithBridge /\ DeliveredInTime /\ PushInTime /\ NoGap
  /\ ToldOfData /\ ToldOfLife /\ LiveWasTrue /\ StaleWasTrue

\* A step of the dashboard is a step of the telemetry path or of the page and
\* its connection.
LEMMA DashStep == [DashNext]_dashVars => [Next]_vars
  BY DEF DashNext, dashVars, HmiConnect, HmiDrop, LinkFallsSilent, LinkPassesAgain, ServerGivesUp,
         WsPush, HmiReceive, HmiClosed, DashAdvance, Next

\* The type of a connection.
Conns == [open: BOOLEAN, passes: BOOLEAN, since: Nat, push: Nat, line: SUBSET Message,
          closedAt: Nat]

\* The type of the page.
Pages == [connected: BOOLEAN, data: {"none", "live", "stale"}, fresh: BOOLEAN, ts: Nat]

\* Types of a connection.
LEMMA ConnTypes == DashTypeOK /\ [DashNext]_dashVars => conn' \in Conns
<1> SUFFICES ASSUME DashTypeOK, [DashNext]_dashVars
             PROVE  conn' \in Conns
  OBVIOUS
<1>1. conn \in Conns /\ clock \in Nat /\ clock + PushPeriod \in Nat
  BY PeriodTypes DEF DashTypeOK, TypeOK, Conns
<1>2. NoConn \in Conns
  BY DEF NoConn, Conns
<1>3. ServerEnd(conn) \in Conns
  BY <1>1 DEF ServerEnd, Conns
<1>4. CASE HmiConnect
  <2>1. \A m, n \in Nat : [NoConn EXCEPT !.open = TRUE, !.passes = TRUE, !.since = m,
                                         !.push = n] \in Conns
    BY <1>2 DEF Conns
  <2> QED
    BY <1>1, <1>4, <2>1 DEF HmiConnect
<1>5. CASE HmiDrop \/ HmiClosed
  BY <1>2, <1>5 DEF HmiDrop, HmiClosed, Closed
<1>6. CASE LinkFallsSilent \/ LinkPassesAgain
  BY <1>1, <1>6 DEF LinkFallsSilent, LinkPassesAgain, Conns
<1>7. CASE ServerGivesUp \/ (BridgeStop /\ conn' = ServerEnd(conn))
  BY <1>3, <1>7 DEF ServerGivesUp
<1>8. CASE WsPush
  <2>1. [data |-> StaleFlag, ts |-> clock] \in Message
    BY <1>1 DEF StaleFlag, Message
  <2>2. PICK t \in clock + 1 .. clock + PushPeriod :
          conn' = [conn EXCEPT !.push = t,
                               !.line = IF snap.valid
                                          THEN conn.line \cup {[data |-> StaleFlag, ts |-> clock]}
                                          ELSE conn.line]
    BY <1>8, Zenon DEF WsPush
  <2>3. t \in Nat
    BY <1>1, PeriodTypes
  <2>4. \A l \in SUBSET Message : [conn EXCEPT !.push = t, !.line = l] \in Conns
    BY <1>1, <2>3 DEF Conns
  <2>5. conn.line \in SUBSET Message
    BY <1>1 DEF Conns
  <2> DEFINE L == IF snap.valid THEN conn.line \cup {[data |-> StaleFlag, ts |-> clock]}
                                ELSE conn.line
  <2>6. L \in SUBSET Message
    BY <2>1, <2>5
  <2>7. conn' = [conn EXCEPT !.push = t, !.line = L]
    BY <2>2
  <2> HIDE DEF L
  <2> QED
    BY <2>4, <2>6, <2>7
<1>9. CASE HmiReceive
  <2>1. PICK m \in conn.line : conn' = [conn EXCEPT !.line = conn.line \ {m}]
    BY <1>9 DEF HmiReceive
  <2> QED
    BY <1>1, <2>1 DEF Conns
<1>10. CASE UNCHANGED conn
  BY <1>1, <1>10
<1> QED
  BY <1>4, <1>5, <1>6, <1>7, <1>8, <1>9, <1>10 DEF DashNext, dashVars, DashAdvance

\* Types of the page.
LEMMA PageTypes == DashTypeOK /\ [DashNext]_dashVars => hmi' \in Pages
<1> SUFFICES ASSUME DashTypeOK, [DashNext]_dashVars
             PROVE  hmi' \in Pages
  OBVIOUS
<1>1. hmi \in Pages /\ conn.line \in SUBSET Message
  BY DEF DashTypeOK, Pages
<1>2. CASE HmiConnect
  BY <1>1, <1>2 DEF HmiConnect, Pages
<1>3. CASE HmiDrop \/ HmiClosed
  <2>1. hmi' = [hmi EXCEPT !.connected = FALSE, !.fresh = FALSE, !.ts = 0]
    BY <1>3, Zenon DEF HmiDrop, HmiClosed, Closed
  <2> QED
    BY <1>1, <2>1 DEF Pages
<1>4. CASE HmiReceive
  <2>1. PICK m \in Message : hmi' = [hmi EXCEPT !.data = m.data, !.fresh = TRUE, !.ts = m.ts]
    BY <1>1, <1>4 DEF HmiReceive
  <2>2. m.data \in {"none", "live", "stale"} /\ m.ts \in Nat
    BY DEF Message
  <2> QED
    BY <1>1, <2>1, <2>2 DEF Pages
<1>5. CASE UNCHANGED hmi
  BY <1>1, <1>5
<1> QED
  BY <1>2, <1>3, <1>4, <1>5
     DEF DashNext, dashVars, DashAdvance, LinkFallsSilent, LinkPassesAgain, ServerGivesUp, WsPush

\* Every value of the dashboard is of its type.
LEMMA DashTypes == DashTypeOK /\ [DashNext]_dashVars => DashTypeOK'
<1> SUFFICES ASSUME DashTypeOK, [DashNext]_dashVars
             PROVE  DashTypeOK'
  OBVIOUS
<1>1. TypeOK'
  BY DashStep, TelemetryTypes DEF DashTypeOK
<1>2. hmi' \in Pages /\ conn' \in Conns
  BY ConnTypes, PageTypes
<1>3. outages \in 0..MaxOutages /\ MaxOutages \in Nat
  BY LinkAssumption DEF DashTypeOK
<1>4. outages' = outages \/ (outages < MaxOutages /\ outages' = outages + 1)
  BY DEF DashNext, dashVars, HmiConnect, HmiDrop, LinkFallsSilent, LinkPassesAgain, ServerGivesUp,
         WsPush, HmiReceive, HmiClosed, DashAdvance, Outage
<1>5. outages' \in 0..MaxOutages
  BY <1>3, <1>4
<1> QED
  BY <1>1, <1>2, <1>5 DEF DashTypeOK, Pages, Conns

\* What the invariants of the dashboard count with.
DashNumbersOK ==
  /\ NumbersOK
  /\ conn.push \in Nat /\ conn.since \in Nat /\ conn.closedAt \in Nat
  /\ \A x \in Told : x.ts \in Nat
  /\ \A n \in Ahead : n \in Nat
  /\ LiveBound \in Nat /\ Latency \in Nat

\* The numbers among the variables and the times of the messages.
LEMMA DashNumbers == DashTypeOK => TypeOK /\ DashNumbersOK
<1> SUFFICES ASSUME DashTypeOK
             PROVE  TypeOK /\ DashNumbersOK
  OBVIOUS
<1>1. TypeOK /\ NumbersOK /\ LiveBound \in Nat /\ Latency \in Nat
  BY Numbers, PeriodTypes, LinkAssumption DEF DashTypeOK, LiveBound
<1>2. conn.push \in Nat /\ conn.since \in Nat /\ conn.closedAt \in Nat
      /\ conn.line \in SUBSET Message /\ hmi.ts \in Nat
  BY DEF DashTypeOK
<1>3. \A m \in conn.line : m.ts \in Nat
  BY <1>2 DEF Message
<1>4. \A x \in Told : x.ts \in Nat
  BY <1>2, <1>3 DEF Told
<1>5. \A n \in Ahead : n \in Nat
  BY <1>2, <1>3 DEF Ahead
<1> QED
  BY <1>1, <1>2, <1>4, <1>5 DEF DashNumbersOK

\* Steps of the telemetry path under a page: what was told stays true, and a
\* running bridge keeps a valid snapshot.
LEMMA PathUnderPageInv ==
  ASSUME DashTypeOK, TelemetryInv, DashInv, UNCHANGED <<hmi, conn>>,
         \/ PlcPublish \/ PlcDie \/ PlcDieMidPublish \/ PlcInit
         \/ PollTick \/ PollUpdate \/ BridgeStart
  PROVE  DashInv'
<1>0. /\ TypeOK /\ DashNumbersOK /\ NumbersOK /\ aliveAt <= clock
      /\ UNCHANGED <<clock, conn, hmi, Told, Ahead, Stalled>>
  <2>1. clock' = clock
    BY DEF PlcPublish, PlcDie, PlcDieMidPublish, PlcInit, PollTick, PollUpdate, BridgeStart
  <2> QED
    BY <2>1, DashNumbers DEF DashNumbersOK, TelemetryInv, PlcOnTime, Told, Ahead, Stalled
<1>1. DeliveredInTime' /\ PushInTime' /\ NoGap'
  BY <1>0 DEF DashInv, DeliveredInTime, PushInTime, NoGap
<1>2. CASE PlcPublish \/ PlcDie \/ PlcDieMidPublish \/ PlcInit
  <2>1. /\ UNCHANGED <<up, startedAt, snap>>
        /\ aliveAt' \in {aliveAt, clock}
        /\ plc' # "down" => plcSince' = clock \/ (plc # "down" /\ plcSince' = plcSince)
    BY <1>2 DEF PlcPublish, PlcDie, PlcDieMidPublish, PlcInit, bridgeVars
  <2>2. ConnOK' /\ ClosedWithBridge' /\ ToldOfData'
    BY <1>0, <2>1 DEF DashInv, ConnOK, ClosedWithBridge, ToldOfData
  <2>3. ToldOfLife'
    <3>1. CASE plcSince' = clock
      <4> SUFFICES ASSUME conn.open
                   PROVE  \E n \in Ahead : n <= clock + PollPeriod + PollLag + PushPeriod
        BY <1>0, <3>1, Zenon DEF ToldOfLife
      <4>1. conn.push \in Ahead /\ conn.push <= clock + PushPeriod
        BY DEF DashInv, PushInTime, Ahead
      <4> QED
        BY <1>0, <4>1, PeriodTypes DEF DashNumbersOK, NumbersOK
    <3>2. CASE plc' # "down" => plc # "down" /\ plcSince' = plcSince
      BY <1>0, <2>1, <3>2, Zenon DEF DashInv, ToldOfLife, ThresholdFits
    <3> QED
      BY <2>1, <3>1, <3>2
  <2>4. LiveWasTrue'
    <3> SUFFICES ASSUME conn.open, NEW x \in Told,
                        x.data = "live", x.ts - startedAt > LiveBound
                 PROVE  aliveAt' >= x.ts - LiveBound
      BY <1>0, <2>1 DEF LiveWasTrue, LiveBound
    <3>1. aliveAt >= x.ts - LiveBound
      BY DEF DashInv, LiveWasTrue
    <3> QED
      BY <1>0, <2>1, <3>1 DEF DashNumbersOK, NumbersOK
  <2>5. StaleWasTrue'
    <3> SUFFICES ASSUME ThresholdFits, plc' # "down", conn.open, NEW x \in Told,
                        x.ts - plcSince' > PollPeriod + PollLag,
                        x.ts - startedAt > PollPeriod + PollLag
                 PROVE  x.data = "live"
      BY <1>0, <2>1 DEF StaleWasTrue, ThresholdFits
    <3>1. x.ts <= clock /\ x.ts \in Nat
      BY <1>0 DEF DashInv, ConnOK, DashNumbersOK
    <3>2. plcSince' # clock
      BY <1>0, <3>1, PeriodTypes DEF NumbersOK
    <3> QED
      BY <2>1, <3>2 DEF DashInv, StaleWasTrue
  <2> QED
    BY <1>1, <2>2, <2>3, <2>4, <2>5 DEF DashInv
<1>3. CASE PollTick \/ PollUpdate
  <2>1. UNCHANGED <<plc, aliveAt, plcSince, startedAt, up>>
    BY <1>3, Zenon DEF PollTick, PollUpdate, plcVars
  <2>2. /\ snap.valid => snap'.valid /\ snap'.updatedAt >= snap.updatedAt
        /\ ~snap.valid /\ snap'.valid => snap'.updatedAt = clock
    <3>1. CASE UNCHANGED snap
      BY <1>0, <3>1 DEF NumbersOK
    <3>2. CASE snap' = Updated(snap, poll.d)
      <4>1. snap.valid => snap.updatedAt <= clock
        BY DEF TelemetryInv, AgeIsHonest
      <4> QED
        BY <1>0, <3>2, <4>1 DEF Updated, Advanced, NumbersOK
    <3> QED
      BY <1>3, <3>1, <3>2 DEF PollTick, PollUpdate
  <2>3. ConnOK' /\ ClosedWithBridge' /\ ToldOfLife' /\ LiveWasTrue' /\ StaleWasTrue'
    BY <1>0, <2>1, <2>2
       DEF DashInv, ConnOK, ClosedWithBridge, ToldOfLife, LiveWasTrue, StaleWasTrue, LiveBound,
           ThresholdFits
  <2>4. ToldOfData'
    <3> SUFFICES ASSUME conn.open, ~hmi.fresh, snap'.valid
                 PROVE  \E n \in Ahead : \/ n <= snap'.updatedAt + PushPeriod
                                         \/ n <= conn.since + PushPeriod
      BY <1>0 DEF ToldOfData
    <3>1. CASE snap.valid
      <4>1. PICK n \in Ahead : n <= snap.updatedAt + PushPeriod \/ n <= conn.since + PushPeriod
        BY <3>1 DEF DashInv, ToldOfData
      <4>2. n \in Nat /\ snap'.updatedAt \in Int /\ snap.updatedAt \in Nat
        BY <1>0, <1>3, TelemetryTypes DEF DashNumbersOK, NumbersOK, TypeOK, Next
      <4> QED
        BY <2>2, <3>1, <4>1, <4>2, PeriodTypes
    <3>2. CASE ~snap.valid
      BY <1>0, <2>2, <3>2 DEF DashInv, PushInTime, Ahead
    <3> QED
      BY <3>1, <3>2
  <2> QED
    BY <1>1, <2>3, <2>4 DEF DashInv
<1>4. CASE BridgeStart
  <2>1. /\ ~conn.open
        /\ UNCHANGED <<plc, aliveAt, plcSince, snap>> /\ startedAt' = clock
    BY <1>4 DEF BridgeStart, DashInv, ConnOK, plcVars
  <2>2. ConnOK' /\ ClosedWithBridge'
    BY <1>0, <2>1 DEF DashInv, ConnOK, ClosedWithBridge
  <2> QED
    BY <1>0, <1>1, <2>1, <2>2
       DEF DashInv, ToldOfData, ToldOfLife, LiveWasTrue, StaleWasTrue
<1> QED
  BY <1>2, <1>3, <1>4

\* The page's end of a connection is closed.
LEMMA ClosedInv ==
  ASSUME DashTypeOK, DashInv, HmiDrop \/ HmiClosed
  PROVE  DashInv'
<1>1. /\ ~hmi'.connected /\ ~hmi'.fresh
      /\ ~conn'.open /\ ~conn'.passes /\ conn'.line = {} /\ conn'.since = 0 /\ conn'.closedAt = 0
      /\ clock' = clock
  <2>1. /\ hmi' = [hmi EXCEPT !.connected = FALSE, !.fresh = FALSE, !.ts = 0]
        /\ conn' = NoConn /\ clock' = clock
    BY Zenon DEF HmiDrop, HmiClosed, Closed, vars
  <2> QED
    BY <2>1 DEF NoConn, DashTypeOK
<1>2. Told' = {} /\ 0 <= clock
  BY <1>1 DEF Told, DashTypeOK, TypeOK
<1> QED
  BY <1>1, <1>2
     DEF DashInv, ConnOK, ClosedWithBridge, DeliveredInTime, PushInTime, NoGap, ToldOfData,
         ToldOfLife, LiveWasTrue, StaleWasTrue

\* A new connection was told nothing yet.
LEMMA ConnectInv ==
  ASSUME DashTypeOK, DashInv, HmiConnect
  PROVE  DashInv'
<1>1. /\ conn' = [NoConn EXCEPT !.open = TRUE, !.passes = TRUE, !.since = clock,
                                !.push = clock + PushPeriod]
      /\ hmi' = [hmi EXCEPT !.connected = TRUE] /\ UNCHANGED vars /\ up /\ ~hmi.connected
  BY Zenon DEF HmiConnect
<1>2. /\ conn'.open /\ conn'.passes /\ conn'.line = {} /\ conn'.since = clock
      /\ conn'.push = clock + PushPeriod /\ conn'.closedAt = 0
      /\ hmi'.connected /\ hmi'.fresh = hmi.fresh
      /\ up' = up /\ clock' = clock /\ clock \in Nat
  BY <1>1 DEF NoConn, DashTypeOK, TypeOK, vars, bridgeVars
<1>3. ~hmi.fresh /\ up'
  BY <1>1, <1>2 DEF DashInv, ConnOK
<1>4. Told' = {} /\ conn'.push \in Ahead'
  BY <1>2, <1>3 DEF Told, Ahead
<1>5. ConnOK' /\ ClosedWithBridge'
  BY <1>2, <1>3, <1>4 DEF ConnOK, ClosedWithBridge
<1>6. DeliveredInTime' /\ PushInTime'
  BY <1>2, PeriodTypes DEF DeliveredInTime, PushInTime
<1>7. ToldOfData' /\ ToldOfLife'
  <2>1. conn'.push <= conn'.since + PushPeriod
    BY <1>2, PeriodTypes
  <2> QED
    BY <1>4, <2>1 DEF ToldOfData, ToldOfLife
<1> QED
  BY <1>4, <1>5, <1>6, <1>7 DEF DashInv, NoGap, LiveWasTrue, StaleWasTrue

\* The server's end of a connection is closed, with the bridge or without it.
LEMMA EndInv ==
  ASSUME DashTypeOK, DashInv, UNCHANGED hmi,
         ServerGivesUp \/ (BridgeStop /\ conn' = ServerEnd(conn))
  PROVE  DashInv'
<1>0. DashNumbersOK /\ NumbersOK /\ clock' = clock
  BY DashNumbers DEF DashNumbersOK, ServerGivesUp, BridgeStop, vars
<1>1. /\ ~conn'.open /\ conn'.passes = conn.passes /\ conn'.line = conn.line
      /\ conn'.since = conn.since
      /\ IF conn.open THEN conn'.closedAt = clock ELSE conn'.closedAt = conn.closedAt
  <2>1. conn' = ServerEnd(conn)
    BY Zenon DEF ServerGivesUp
  <2> QED
    BY <2>1 DEF ServerEnd, DashTypeOK
<1>2. Told' = Told
  BY <1>1 DEF Told
<1>3. ConnOK'
  BY <1>0, <1>1, <1>2 DEF DashInv, ConnOK, NumbersOK
<1>4. ClosedWithBridge'
  <2>1. CASE ServerGivesUp
    BY <1>1, <2>1 DEF ServerGivesUp, ClosedWithBridge
  <2>2. CASE BridgeStop
    BY <2>2 DEF BridgeStop, ClosedWithBridge
  <2> QED
    BY <2>1, <2>2
<1>5. DeliveredInTime'
  BY <1>0, <1>1 DEF DashInv, DeliveredInTime, DashNumbersOK, NumbersOK
<1> QED
  BY <1>1, <1>3, <1>4, <1>5
     DEF DashInv, PushInTime, NoGap, ToldOfData, ToldOfLife, LiveWasTrue, StaleWasTrue

\* The link falls silent and passes again.
LEMMA LinkInv ==
  ASSUME DashTypeOK, DashInv, LinkFallsSilent \/ LinkPassesAgain
  PROVE  DashInv'
<1>0. /\ DashNumbersOK /\ NumbersOK
      /\ UNCHANGED <<vars, hmi>>
      /\ UNCHANGED <<clock, plc, aliveAt, plcSince, up, startedAt, snap>>
  BY DashNumbers DEF DashNumbersOK, LinkFallsSilent, LinkPassesAgain, vars, plcVars, bridgeVars
<1>1. /\ conn'.open = conn.open /\ conn'.line = conn.line /\ conn'.push = conn.push
      /\ conn'.closedAt = conn.closedAt
      /\ \/ conn.passes /\ ~conn'.passes /\ conn'.since = conn.since
         \/ conn'.passes /\ conn'.since = clock
  BY DEF LinkFallsSilent, LinkPassesAgain, DashTypeOK
<1>2. Told' = Told /\ Ahead' = Ahead /\ conn'.since <= clock /\ conn.since <= conn'.since
      /\ conn'.since \in Nat
  BY <1>0, <1>1 DEF Told, Ahead, DashInv, ConnOK, DashNumbersOK, NumbersOK
<1>3. ConnOK'
  <2>1. hmi.connected
    BY DEF LinkFallsSilent, LinkPassesAgain
  <2> QED
    BY <1>0, <1>1, <1>2, <2>1 DEF DashInv, ConnOK
<1>4. ClosedWithBridge'
  BY <1>0, <1>1, <1>2 DEF DashInv, ConnOK, ClosedWithBridge
<1>5. DeliveredInTime'
  BY <1>0, <1>1 DEF DeliveredInTime, DashNumbersOK, NumbersOK
<1>6. PushInTime'
  <2>1. CASE conn'.since = clock
    BY <1>0, <1>1, <2>1 DEF DashInv, PushInTime, NumbersOK
  <2>2. CASE conn.passes /\ conn'.since = conn.since
    BY <1>0, <1>1, <2>2 DEF DashInv, PushInTime, Stalled
  <2> QED
    BY <1>1, <2>1, <2>2
<1>7. NoGap'
  <2> SUFFICES ASSUME conn.open, NEW x \in Told
               PROVE  \E n \in Ahead : /\ x.ts < n
                                       /\ \/ n <= x.ts + PushPeriod
                                          \/ n <= conn'.since + PushPeriod
    BY <1>1, <1>2 DEF NoGap
  <2>1. PICK n \in Ahead : x.ts < n /\ (n <= x.ts + PushPeriod \/ n <= conn.since + PushPeriod)
    BY DEF DashInv, NoGap
  <2> QED
    BY <1>0, <1>2, <2>1, PeriodTypes DEF DashNumbersOK
<1>8. ToldOfData'
  <2> SUFFICES ASSUME conn.open, ~hmi.fresh, snap.valid
               PROVE  \E n \in Ahead : \/ n <= snap.updatedAt + PushPeriod
                                       \/ n <= conn'.since + PushPeriod
    BY <1>0, <1>1, <1>2 DEF ToldOfData
  <2>1. PICK n \in Ahead : n <= snap.updatedAt + PushPeriod \/ n <= conn.since + PushPeriod
    BY DEF DashInv, ToldOfData
  <2> QED
    BY <1>0, <1>2, <2>1, PeriodTypes DEF DashNumbersOK
<1>9. ToldOfLife'
  <2> SUFFICES ASSUME ThresholdFits, plc # "down", conn.open, ~hmi.fresh
               PROVE  \E n \in Ahead : \/ n <= plcSince + PollPeriod + PollLag + PushPeriod
                                       \/ n <= startedAt + PollPeriod + PollLag + PushPeriod
                                       \/ n <= conn'.since + PushPeriod
    BY <1>0, <1>1, <1>2 DEF ToldOfLife, ThresholdFits
  <2>1. PICK n \in Ahead : \/ n <= plcSince + PollPeriod + PollLag + PushPeriod
                           \/ n <= startedAt + PollPeriod + PollLag + PushPeriod
                           \/ n <= conn.since + PushPeriod
    BY DEF DashInv, ToldOfLife
  <2> QED
    BY <1>0, <1>2, <2>1, PeriodTypes DEF DashNumbersOK
<1>10. LiveWasTrue' /\ StaleWasTrue'
  BY <1>0, <1>1, <1>2 DEF DashInv, LiveWasTrue, StaleWasTrue, LiveBound, ThresholdFits
<1> QED
  BY <1>3, <1>4, <1>5, <1>6, <1>7, <1>8, <1>9, <1>10 DEF DashInv

\* A message arrives: it was told before, and the next one is still ahead.
LEMMA ReceiveInv ==
  ASSUME DashTypeOK, DashInv, HmiReceive
  PROVE  DashInv'
<1>0. /\ DashNumbersOK /\ NumbersOK
      /\ UNCHANGED <<clock, plc, aliveAt, plcSince, up, startedAt, snap>>
  BY DashNumbers DEF DashNumbersOK, HmiReceive, vars, plcVars, bridgeVars
<1>1. PICK m \in conn.line :
        /\ \A n \in conn.line : m.ts <= n.ts
        /\ hmi' = [hmi EXCEPT !.data = m.data, !.fresh = TRUE, !.ts = m.ts]
        /\ conn' = [conn EXCEPT !.line = conn.line \ {m}]
  BY Zenon DEF HmiReceive
<1>2. m \in Message
  BY DEF DashTypeOK
<1>3. /\ UNCHANGED <<conn.open, conn.passes, conn.since, conn.push, conn.closedAt, hmi.connected>>
      /\ conn'.line = conn.line \ {m}
      /\ hmi'.fresh /\ hmi'.data = m.data /\ hmi'.ts = m.ts
  BY <1>1 DEF DashTypeOK
<1>4. m = [data |-> m.data, ts |-> m.ts] /\ m.data # "none"
  BY <1>2 DEF Message
<1>5. Told' = (conn.line \ {m}) \cup {m}
  BY <1>3, <1>4 DEF Told
<1>6. Told' \subseteq Told /\ Told # {} /\ (\A x \in Told' : m.ts <= x.ts)
  <2>1. m \in Told /\ Told' \subseteq conn.line /\ conn.line \subseteq Told
    BY <1>5 DEF Told
  <2> QED
    BY <1>1, <2>1
<1>7. \A n \in Ahead : n > m.ts => n \in Ahead'
  <2>1. Ahead' = {x.ts : x \in conn.line \ {m}} \cup {conn.push}
    BY <1>3 DEF Ahead
  <2>2. m.ts \in Nat
    BY <1>2 DEF Message
  <2> SUFFICES ASSUME NEW x \in conn.line, x.ts > m.ts
               PROVE  x.ts \in Ahead'
    BY <2>1 DEF Ahead
  <2>3. x # m
    BY <2>2
  <2> QED
    BY <2>1, <2>3
<1>8. conn.passes /\ hmi.connected
  BY DEF HmiReceive, DashInv, ConnOK
<1>9. ConnOK'
  BY <1>0, <1>3, <1>4, <1>6, <1>8 DEF DashInv, ConnOK
<1>10. ClosedWithBridge' /\ DeliveredInTime'
  BY <1>0, <1>3 DEF DashInv, ClosedWithBridge, DeliveredInTime
<1>11. PushInTime'
  BY <1>0, <1>3, <1>8 DEF DashInv, PushInTime, Stalled
<1>12. NoGap'
  <2> SUFFICES ASSUME conn.open, NEW x \in Told'
               PROVE  \E n \in Ahead' : /\ x.ts < n
                                        /\ \/ n <= x.ts + PushPeriod
                                           \/ n <= conn.since + PushPeriod
    BY <1>3 DEF NoGap
  <2>1. PICK n \in Ahead : x.ts < n /\ (n <= x.ts + PushPeriod \/ n <= conn.since + PushPeriod)
    BY <1>6 DEF DashInv, NoGap
  <2>2. m.ts \in Nat /\ x.ts \in Nat /\ n \in Nat /\ m.ts <= x.ts
    BY <1>0, <1>2, <1>6 DEF DashNumbersOK, Message
  <2>3. n \in Ahead'
    BY <1>7, <2>1, <2>2
  <2> QED
    BY <2>1, <2>3
<1>13. ToldOfData' /\ ToldOfLife'
  BY <1>3 DEF ToldOfData, ToldOfLife
<1>14. LiveWasTrue' /\ StaleWasTrue'
  BY <1>0, <1>3, <1>6 DEF DashInv, LiveWasTrue, StaleWasTrue, LiveBound, ThresholdFits
<1> QED
  BY <1>9, <1>10, <1>11, <1>12, <1>13, <1>14 DEF DashInv

\* A push tells what a Modbus client would be told in that state; an event of
\* the push ticker that tells nothing is one of a snapshot that is not valid.
LEMMA WsPushInv ==
  ASSUME DashTypeOK, TelemetryInv, DashInv, WsPush
  PROVE  DashInv'
<1>0. /\ TypeOK /\ DashNumbersOK /\ NumbersOK
      /\ LiveMeansPlcRan /\ AliveIsServed /\ PlcOnTime
      /\ UNCHANGED <<clock, plc, aliveAt, plcSince, up, startedAt, snap, hmi>>
  BY DashNumbers, ServedProvesLife, LifeIsServed
     DEF DashNumbersOK, TelemetryInv, WsPush, vars, plcVars, bridgeVars
<1> DEFINE M == [data |-> StaleFlag, ts |-> clock]
           L == IF snap.valid THEN conn.line \cup {M} ELSE conn.line
<1>1. PICK t \in clock + 1 .. clock + PushPeriod : conn' = [conn EXCEPT !.push = t, !.line = L]
  BY Zenon DEF WsPush
<1>2. /\ conn'.push = t /\ conn'.line = L
      /\ UNCHANGED <<conn.open, conn.passes, conn.since, conn.closedAt>>
  BY <1>1 DEF DashTypeOK
<1>3. /\ t \in Nat /\ clock < t /\ t <= clock + PushPeriod
  BY <1>0, PeriodTypes DEF NumbersOK
<1>4. conn.open /\ up /\ hmi.connected /\ clock >= conn.push /\ ~Stalled
  BY DEF WsPush, DashInv, ConnOK
<1>5. clock = conn.push \/ clock = conn.since
  BY <1>0, <1>4 DEF DashInv, PushInTime, ConnOK, DashNumbersOK, NumbersOK
<1>6. M.ts = clock /\ M.data = StaleFlag
  OBVIOUS
<1>7. CASE snap.valid
  <2>1. Told' = Told \cup {M} /\ t \in Ahead' /\ clock \in Ahead'
    BY <1>0, <1>2, <1>6, <1>7 DEF Told, Ahead
  <2>2. Ahead \subseteq Ahead' \cup {conn.push}
    BY <1>2, <1>7 DEF Ahead
  <2>3. ConnOK'
    BY <1>0, <1>2, <1>4, <1>6, <1>7, <2>1 DEF DashInv, ConnOK, NumbersOK
  <2>4. DeliveredInTime'
    <3>1. conn'.line = conn.line \cup {M}
      BY <1>2, <1>7
    <3> QED
      BY <1>0, <1>2, <1>4, <1>6, <3>1 DEF DashInv, DeliveredInTime, DashNumbersOK, NumbersOK
  <2>5. NoGap'
    <3> SUFFICES ASSUME NEW x \in Told'
                 PROVE  \E n \in Ahead' : /\ x.ts < n
                                          /\ \/ n <= x.ts + PushPeriod
                                             \/ n <= conn.since + PushPeriod
      BY <1>2 DEF NoGap
    <3>1. CASE x = M
      BY <1>3, <1>6, <2>1, <3>1
    <3>2. CASE x \in Told
      <4>1. PICK n \in Ahead :
              x.ts < n /\ (n <= x.ts + PushPeriod \/ n <= conn.since + PushPeriod)
        BY <1>4, <3>2 DEF DashInv, NoGap
      <4>2. x.ts \in Nat /\ n \in Nat /\ conn.push \in Nat /\ conn.since \in Nat /\ clock \in Nat
        BY <1>0, <3>2 DEF DashNumbersOK, NumbersOK
      <4>3. CASE n = conn.push
        <5>1. x.ts < clock /\ (clock <= x.ts + PushPeriod \/ clock <= conn.since + PushPeriod)
          BY <1>4, <1>5, <4>1, <4>2, <4>3, PeriodTypes
        <5> QED
          BY <2>1, <5>1
      <4> QED
        BY <2>2, <4>1, <4>3
    <3> QED
      BY <2>1, <3>1, <3>2
  <2>6. ToldOfData'
    <3> SUFFICES ASSUME ~hmi.fresh
                 PROVE  \E n \in Ahead' : \/ n <= snap.updatedAt + PushPeriod
                                          \/ n <= conn.since + PushPeriod
      BY <1>0, <1>2 DEF ToldOfData
    <3>1. PICK n \in Ahead : n <= snap.updatedAt + PushPeriod \/ n <= conn.since + PushPeriod
      BY <1>4, <1>7 DEF DashInv, ToldOfData
    <3>2. CASE n = conn.push
      <4>1. clock <= snap.updatedAt + PushPeriod \/ clock <= conn.since + PushPeriod
        BY <1>0, <1>5, <3>1, <3>2, PeriodTypes DEF DashNumbersOK, NumbersOK
      <4> QED
        BY <2>1, <4>1
    <3> QED
      BY <2>2, <3>1, <3>2
  <2>7. ToldOfLife'
    <3> SUFFICES ASSUME ~hmi.fresh, ThresholdFits, plc # "down"
                 PROVE  \E n \in Ahead' : \/ n <= plcSince + PollPeriod + PollLag + PushPeriod
                                          \/ n <= startedAt + PollPeriod + PollLag + PushPeriod
                                          \/ n <= conn.since + PushPeriod
      BY <1>0, <1>2 DEF ToldOfLife, ThresholdFits
    <3>1. PICK n \in Ahead : \/ n <= plcSince + PollPeriod + PollLag + PushPeriod
                             \/ n <= startedAt + PollPeriod + PollLag + PushPeriod
                             \/ n <= conn.since + PushPeriod
      BY <1>4 DEF DashInv, ToldOfLife
    <3>2. CASE n = conn.push
      <4>1. \/ clock <= plcSince + PollPeriod + PollLag + PushPeriod
            \/ clock <= startedAt + PollPeriod + PollLag + PushPeriod
            \/ clock <= conn.since + PushPeriod
        BY <1>0, <1>5, <3>1, <3>2, PeriodTypes DEF DashNumbersOK, NumbersOK
      <4> QED
        BY <2>1, <4>1
    <3> QED
      BY <2>2, <3>1, <3>2
  <2>8. LiveWasTrue'
    <3> SUFFICES ASSUME NEW x \in Told', x.data = "live", x.ts - startedAt > LiveBound
                 PROVE  aliveAt >= x.ts - LiveBound
      BY <1>0 DEF LiveWasTrue, LiveBound
    <3>1. CASE x = M
      <4>1. ModbusServes /\ WarmedUp
        BY <1>4, <1>6, <1>7, <3>1 DEF StaleFlag, ModbusServes, WarmedUp
      <4> QED
        BY <1>0, <1>6, <3>1, <4>1 DEF LiveMeansPlcRan, DashNumbersOK, NumbersOK
    <3> QED
      BY <1>4, <2>1, <3>1 DEF DashInv, LiveWasTrue
  <2>9. StaleWasTrue'
    <3> SUFFICES ASSUME ThresholdFits, plc # "down", NEW x \in Told',
                        x.ts - plcSince > PollPeriod + PollLag,
                        x.ts - startedAt > PollPeriod + PollLag
                 PROVE  x.data = "live"
      BY <1>0 DEF StaleWasTrue, ThresholdFits
    <3>1. CASE x = M
      <4>1. plc = "cyclic"
        BY <1>0, <1>6, <3>1, PeriodTypes DEF PlcOnTime, TypeOK, NumbersOK
      <4>2. ModbusServes
        BY <1>0, <1>4, <1>6, <3>1, <4>1 DEF AliveIsServed, Settled
      <4> QED
        BY <1>6, <3>1, <4>2 DEF ModbusServes, StaleFlag
    <3> QED
      BY <1>4, <2>1, <3>1 DEF DashInv, StaleWasTrue
  <2>10. ClosedWithBridge' /\ PushInTime'
    BY <1>0, <1>2, <1>3, <1>4 DEF ClosedWithBridge, PushInTime, NumbersOK
  <2> QED
    BY <2>3, <2>4, <2>5, <2>6, <2>7, <2>8, <2>9, <2>10 DEF DashInv
<1>8. CASE ~snap.valid
  <2>1. Told = {} /\ conn'.line = conn.line
    BY <1>2, <1>4, <1>8 DEF DashInv, ConnOK
  <2>2. Told' = {} /\ t \in Ahead'
    BY <1>0, <1>2, <2>1 DEF Told, Ahead
  <2>3. ConnOK' /\ ClosedWithBridge' /\ DeliveredInTime'
    BY <1>0, <1>2, <1>4, <2>1, <2>2 DEF DashInv, ConnOK, ClosedWithBridge, DeliveredInTime
  <2>4. PushInTime'
    BY <1>0, <1>2, <1>3, <1>4 DEF PushInTime, NumbersOK
  <2>5. ToldOfLife'
    <3> SUFFICES ASSUME ThresholdFits, plc # "down"
                 PROVE  \/ t <= plcSince + PollPeriod + PollLag + PushPeriod
                        \/ t <= startedAt + PollPeriod + PollLag + PushPeriod
      BY <1>0, <2>2 DEF ToldOfLife, ThresholdFits
    <3>1. CASE plc = "init"
      BY <1>0, <1>3, <3>1, PeriodTypes DEF PlcOnTime, NumbersOK
    <3>2. CASE plc = "cyclic"
      <4>1. ~ModbusServes
        BY <1>8 DEF ModbusServes
      <4>2. ~Settled(plcSince) \/ ~Settled(startedAt)
        BY <1>0, <1>4, <3>2, <4>1 DEF AliveIsServed
      <4> QED
        BY <1>0, <1>3, <4>2, PeriodTypes DEF Settled, NumbersOK
    <3> QED
      BY <1>0, <3>1, <3>2 DEF TypeOK
  <2> QED
    BY <1>0, <1>8, <2>2, <2>3, <2>4, <2>5
       DEF DashInv, NoGap, ToldOfData, LiveWasTrue, StaleWasTrue
<1> QED
  BY <1>7, <1>8

\* Time passes as far as the push loop and the link keep up.
LEMMA DashAdvanceInv ==
  ASSUME DashTypeOK, DashInv, DashAdvance
  PROVE  DashInv'
<1>0. /\ DashNumbersOK /\ NumbersOK
      /\ UNCHANGED <<plc, aliveAt, plcSince, up, startedAt, snap, hmi, conn>>
      /\ clock' = clock + 1
  BY DashNumbers DEF DashNumbersOK, DashAdvance, Advance, plcVars, bridgeVars
<1>1. Told' = Told /\ Ahead' = Ahead /\ Stalled' = Stalled
  BY <1>0 DEF Told, Ahead, Stalled
<1>2. ConnOK' /\ ClosedWithBridge'
  BY <1>0, <1>1 DEF DashInv, ConnOK, ClosedWithBridge, DashNumbersOK, NumbersOK
<1>3. DeliveredInTime'
  <2> SUFFICES ASSUME conn.passes
               PROVE  /\ \A m \in conn.line :
                           clock + 1 <= m.ts + Latency \/ clock + 1 <= conn.since + Latency
                      /\ ~conn.open => \/ clock + 1 <= conn.closedAt + Latency
                                       \/ clock + 1 <= conn.since + Latency
    BY <1>0 DEF DeliveredInTime
  <2>1. \A t \in {m.ts : m \in conn.line} \cup (IF conn.open THEN {} ELSE {conn.closedAt}) :
          clock < t + Latency \/ clock < conn.since + Latency
    BY Zenon DEF DashAdvance
  <2>2. \A m \in conn.line : m.ts \in Nat
    BY <1>0 DEF DashNumbersOK, Told
  <2> QED
    BY <1>0, <2>1, <2>2 DEF DashNumbersOK, NumbersOK
<1>4. PushInTime'
  <2>1. conn.open /\ ~Stalled => clock < conn.push
    BY Zenon DEF DashAdvance
  <2> QED
    BY <1>0, <1>1, <2>1, PeriodTypes DEF DashInv, PushInTime, DashNumbersOK, NumbersOK
<1> QED
  BY <1>0, <1>1, <1>2, <1>3, <1>4
     DEF DashInv, NoGap, ToldOfData, ToldOfLife, LiveWasTrue, StaleWasTrue, LiveBound, ThresholdFits

\* One step of the page and its connection, or of the telemetry path below.
LEMMA DashStepInv ==
  ASSUME DashTypeOK, TelemetryInv, DashInv, [DashNext]_dashVars
  PROVE  DashInv'
<1>1. CASE UNCHANGED dashVars
  BY <1>1 DEF dashVars, vars, plcVars, bridgeVars, DashInv, ConnOK, ClosedWithBridge,
              DeliveredInTime, PushInTime, NoGap, ToldOfData, ToldOfLife, LiveWasTrue,
              StaleWasTrue, Told, Ahead, Stalled, LiveBound, ThresholdFits
<1> QED
  BY <1>1, PathUnderPageInv, ConnectInv, ClosedInv, EndInv, LinkInv, ReceiveInv, WsPushInv,
     DashAdvanceInv
     DEF DashNext, ServerGivesUp

-----------------------------------------------------------------------------
(* What follows for the whole path from the PLC to the operator.            *)

\* The inductive invariant of the telemetry path under the dashboard.
THEOREM DashInvariance == DashSpec => [](DashTypeOK /\ TelemetryInv /\ DashInv)
<1>1. DashInit => DashTypeOK /\ TelemetryInv /\ DashInv
  <2> SUFFICES ASSUME DashInit
               PROVE  DashTypeOK /\ TelemetryInv /\ DashInv
    OBVIOUS
  <2>1. DashTypeOK
    BY TelemetryInitTypes, LinkAssumption DEF DashInit, DashTypeOK, NoConn
  <2>2. TelemetryInv
    BY TelemetryInitInv DEF DashInit
  <2>3. /\ ~hmi.connected /\ ~hmi.fresh /\ ~conn.open /\ ~conn.passes /\ conn.line = {}
        /\ conn.since = 0 /\ conn.closedAt = 0 /\ clock = 0
    BY DEF DashInit, Init, NoConn
  <2>4. Told = {}
    BY <2>3 DEF Told
  <2>5. DashInv
    BY <2>3, <2>4 DEF DashInv, ConnOK, ClosedWithBridge, DeliveredInTime, PushInTime, NoGap,
                      ToldOfData, ToldOfLife, LiveWasTrue, StaleWasTrue
  <2> QED
    BY <2>1, <2>2, <2>5
<1>2. DashTypeOK /\ TelemetryInv /\ DashInv /\ [DashNext]_dashVars
        => DashTypeOK' /\ TelemetryInv' /\ DashInv'
  BY DashTypes, DashStep, TelemetryStepInv, DashStepInv DEF DashTypeOK
<1> QED
  BY <1>1, <1>2, PTL DEF DashSpec

\* Every value of the path and of the HMI's store is of its type.
THEOREM DashTypeCorrect == DashSpec => []DashTypeOK
  BY DashInvariance, PTL

\* A snapshot that Modbus serves proves that the PLC ran within LiveBound.
THEOREM LiveMeansPlcRanHolds == DashSpec => []LiveMeansPlcRan
<1>1. DashTypeOK /\ TelemetryInv => LiveMeansPlcRan
  BY ServedProvesLife DEF DashTypeOK
<1> QED
  BY <1>1, DashInvariance, PTL

\* A PLC that keeps publishing is served, when the threshold leaves room.
THEOREM AliveIsServedHolds == DashSpec => []AliveIsServed
<1>1. DashTypeOK /\ TelemetryInv => AliveIsServed
  BY LifeIsServed DEF DashTypeOK
<1> QED
  BY <1>1, DashInvariance, PTL

\* When what the page is told next is due, it was told, or its link passed again,
\* at most a period and a latency ago.
LEMMA NextIsDue ==
  ASSUME DashTypeOK, DashInv, conn.open, conn.passes, NEW n \in Ahead
  PROVE  clock <= n + Latency \/ clock <= conn.since + Latency
<1>1. DashNumbersOK /\ NumbersOK
  BY DashNumbers DEF DashNumbersOK
<1>2. CASE n = conn.push
  BY <1>1, <1>2 DEF DashInv, PushInTime, Stalled, DashNumbersOK, NumbersOK
<1>3. CASE n \in {m.ts : m \in conn.line}
  BY <1>3 DEF DashInv, DeliveredInTime
<1> QED
  BY <1>2, <1>3 DEF Ahead

\* A link that has been passing for long enough leads to a bridge, unless the
\* bridge is down or was just started.
LEMMA ClosedIsRecent ==
  ASSUME DashTypeOK, DashInv, hmi.connected, conn.passes, ~conn.open,
         clock - conn.since > PushPeriod + Latency
  PROVE  ~up \/ clock - startedAt <= Latency
<1>1. DashNumbersOK /\ NumbersOK
  BY DashNumbers DEF DashNumbersOK
<1>2. clock <= conn.closedAt + Latency /\ conn.closedAt > conn.since
  BY <1>1, PeriodTypes DEF DashInv, DeliveredInTime, DashNumbersOK, NumbersOK
<1>3. ~up \/ conn.closedAt <= startedAt
  BY <1>1, <1>2 DEF DashInv, ClosedWithBridge, DashNumbersOK
<1> QED
  BY <1>1, <1>2, <1>3 DEF DashNumbersOK, NumbersOK

\* The badge "Connected" proves that the PLC ran within ShownBound, but for a
\* link that is or just was silent, a bridge that was just started and one that
\* has nothing to say.
THEOREM ConnectedMeansPlcRanHolds == DashSpec => []ConnectedMeansPlcRan
<1>1. DashTypeOK /\ TelemetryInv /\ DashInv => ConnectedMeansPlcRan
  <2> SUFFICES ASSUME DashTypeOK, TelemetryInv, DashInv
               PROVE  ConnectedMeansPlcRan
    OBVIOUS
  <2>1. /\ DashNumbersOK /\ NumbersOK /\ ShownBound = LiveBound + PushPeriod + Latency
        /\ LiveBound = StaleAfter + PollPeriod + PollLag
    BY DashNumbers DEF DashNumbersOK, ShownBound, LiveBound
  <2> SUFFICES ASSUME hmi.connected, hmi.data # "stale",
                      conn.passes, clock - conn.since > PushPeriod + Latency,
                      clock - startedAt > ShownBound, snap.valid
               PROVE  clock - aliveAt <= ShownBound
    BY <2>1, PeriodTypes
       DEF ConnectedMeansPlcRan, Badge, LinkIsCut, BridgeIsYoung, BridgeIsMute, DashNumbersOK,
           NumbersOK
  <2>2. conn.open
    BY <2>1, ClosedIsRecent, PeriodTypes DEF TelemetryInv, CyclesGrow, DashNumbersOK, NumbersOK
  <2>3. CASE hmi.fresh
    <3> DEFINE x == [data |-> hmi.data, ts |-> hmi.ts]
    <3>1. x \in Told /\ x.data = "live" /\ x.ts \in Nat
      BY <2>1, <2>3 DEF Told, DashInv, ConnOK, DashTypeOK
    <3>2. PICK n \in Ahead : n <= x.ts + PushPeriod \/ n <= conn.since + PushPeriod
      BY <2>2, <3>1 DEF DashInv, NoGap
    <3>3. clock <= n + Latency \/ clock <= conn.since + Latency
      BY <2>2, NextIsDue
    <3>4. n \in Nat
      BY <2>1 DEF DashNumbersOK
    <3> HIDE DEF x
    <3>5. clock <= x.ts + PushPeriod + Latency
      BY <2>1, <3>1, <3>2, <3>3, <3>4, PeriodTypes DEF DashNumbersOK, NumbersOK
    <3>6. aliveAt >= x.ts - LiveBound
      <4>1. x.ts - startedAt > LiveBound
        BY <2>1, <3>1, <3>5, PeriodTypes DEF DashNumbersOK, NumbersOK
      <4> QED
        BY <2>2, <3>1, <4>1 DEF DashInv, LiveWasTrue
    <3> QED
      BY <2>1, <3>1, <3>5, <3>6, PeriodTypes DEF DashNumbersOK, NumbersOK
  <2>4. CASE ~hmi.fresh
    <3>1. PICK n \in Ahead : n <= snap.updatedAt + PushPeriod \/ n <= conn.since + PushPeriod
      BY <2>2, <2>4 DEF DashInv, ToldOfData
    <3>2. clock <= n + Latency \/ clock <= conn.since + Latency
      BY <2>2, NextIsDue
    <3>3. n \in Nat
      BY <2>1 DEF DashNumbersOK
    <3>4. clock <= snap.updatedAt + PushPeriod + Latency
      BY <2>1, <3>1, <3>2, <3>3, PeriodTypes DEF DashNumbersOK, NumbersOK
    <3>5. aliveAt >= snap.updatedAt - PollPeriod - PollLag
      BY <2>1, <3>4, PeriodTypes DEF TelemetryInv, AgeIsHonest, DashNumbersOK, NumbersOK
    <3> QED
      BY <2>1, <3>4, <3>5, PeriodTypes DEF DashNumbersOK, NumbersOK
  <2> QED
    BY <2>3, <2>4
<1> QED
  BY <1>1, DashInvariance, PTL

\* The badge is not "Stale" when PLC, bridge and link stood long enough.
THEOREM AliveIsConnectedHolds == DashSpec => []AliveIsConnected
<1>1. DashTypeOK /\ TelemetryInv /\ DashInv => AliveIsConnected
  <2> DEFINE Enough == PollPeriod + PollLag + PushPeriod + Latency
  <2> SUFFICES ASSUME DashTypeOK, TelemetryInv, DashInv
               PROVE  AliveIsConnected
    OBVIOUS
  <2>1. DashNumbersOK /\ NumbersOK
    BY DashNumbers DEF DashNumbersOK
  <2> SUFFICES ASSUME ThresholdFits, plc = "cyclic", up, hmi.connected, hmi.data = "stale",
                      conn.passes, clock - plcSince > Enough, clock - startedAt > Enough,
                      clock - conn.since > Enough
               PROVE  FALSE
    BY <2>1, PeriodTypes DEF DashNumbersOK, NumbersOK, AliveIsConnected, Badge
  <2>2. conn.open
    BY <2>1, ClosedIsRecent, PeriodTypes DEF DashNumbersOK, NumbersOK
  <2>3. CASE hmi.fresh
    <3> DEFINE x == [data |-> hmi.data, ts |-> hmi.ts]
    <3>1. x \in Told /\ x.data = "stale" /\ x.ts \in Nat
      BY <2>1, <2>3 DEF Told, DashTypeOK
    <3>2. PICK n \in Ahead : n <= x.ts + PushPeriod \/ n <= conn.since + PushPeriod
      BY <2>2, <3>1 DEF DashInv, NoGap
    <3>3. clock <= n + Latency \/ clock <= conn.since + Latency
      BY <2>2, NextIsDue
    <3>4. n \in Nat
      BY <2>1 DEF DashNumbersOK
    <3> HIDE DEF x
    <3>5. x.ts - plcSince > PollPeriod + PollLag /\ x.ts - startedAt > PollPeriod + PollLag
      BY <2>1, <3>1, <3>2, <3>3, <3>4, PeriodTypes DEF DashNumbersOK, NumbersOK
    <3> QED
      BY <2>2, <3>1, <3>5 DEF DashInv, StaleWasTrue
  <2>4. CASE ~hmi.fresh
    <3>1. PICK n \in Ahead : \/ n <= plcSince + PollPeriod + PollLag + PushPeriod
                             \/ n <= startedAt + PollPeriod + PollLag + PushPeriod
                             \/ n <= conn.since + PushPeriod
      BY <2>2, <2>4 DEF DashInv, ToldOfLife
    <3>2. clock <= n + Latency \/ clock <= conn.since + Latency
      BY <2>2, NextIsDue
    <3>3. n \in Nat
      BY <2>1 DEF DashNumbersOK
    <3> QED
      BY <2>1, <3>1, <3>2, <3>3, PeriodTypes DEF DashNumbersOK, NumbersOK
  <2> QED
    BY <2>3, <2>4
<1> QED
  BY <1>1, DashInvariance, PTL
=============================================================================
