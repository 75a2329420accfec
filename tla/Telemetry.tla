------------------------------ MODULE Telemetry ------------------------------
(****************************************************************************)
(* The telemetry path: the PLC publishes /dev/shm/plc_data under a seqlock  *)
(* every scan, the bridge polls the segment into state.Snapshot, and its    *)
(* consumers flag or refuse a snapshot whose age exceeds a threshold.  The  *)
(* PLC may die between two scans or while its sequence number is odd, and   *)
(* be restarted; the bridge may be restarted.                               *)
(*                                                                          *)
(* A payload is identified by its cycle number.  The poll goroutine copies  *)
(* the segment and updates the snapshot in two steps.                       *)
(****************************************************************************)
EXTENDS Integers

CONSTANTS
  ScanPeriod,  \* the PLC task publishes at least this often
  PollPeriod,  \* -poll
  StaleAfter,  \* -stale-after
  PollLag,     \* how late the poll goroutine may finish a ticker event
  MaxTime,     \* bound: the clock stops there
  MaxPlcDeaths \* bound on the deaths of the PLC program

ASSUME PeriodsAssumption ==
  /\ {ScanPeriod, PollPeriod} \subseteq Nat \ {0}
  /\ StaleAfter \in Nat
ASSUME PollLagAssumption == PollLag \in Nat /\ PollLag < PollPeriod
ASSUME BoundsAssumption == {MaxTime, MaxPlcDeaths} \subseteq Nat

VARIABLES
  clock,      \* the time
  plc,        \* PLC program: "down", "init" (first scan) or "cyclic"
  aliveAt,    \* history: the last time the PLC program ran
  plcSince,   \* history: since when it has been running
  seg,        \* plc_data: [odd: Header.Seq is odd, cycle: Header.Cycle]
  up,         \* the bridge runs
  startedAt,  \* history: since when
  poll,       \* poll goroutine: [pc: "waiting" or "copied", d: cycle copied, next: ticker]
  snap,       \* Snapshot: [valid, cycle, updatedAt]
  deaths      \* history: how often the PLC program died

plcVars == <<plc, aliveAt, plcSince, seg>>
bridgeVars == <<up, startedAt, poll, snap>>
vars == <<clock, plcVars, bridgeVars, deaths>>

TypeOK ==
  /\ clock \in Nat
  /\ plc \in {"down", "init", "cyclic"} /\ aliveAt \in Nat /\ plcSince \in Nat
  /\ seg \in [odd: BOOLEAN, cycle: Nat]
  /\ up \in BOOLEAN /\ startedAt \in Nat
  /\ poll \in [pc: {"waiting", "copied"}, d: Nat, next: Nat]
  /\ snap \in [valid: BOOLEAN, cycle: Nat, updatedAt: Nat]
  /\ deaths \in 0..MaxPlcDeaths

EmptySnapshot == [valid |-> FALSE, cycle |-> 0, updatedAt |-> 0]
FirstPoll(now) == [pc |-> "waiting", d |-> 0, next |-> now + PollPeriod]

\* The PLC has created and published the segment before the bridge opens it.
Init ==
  /\ clock = 0
  /\ plc = "cyclic" /\ aliveAt = 0 /\ plcSince = 0
  /\ seg = [odd |-> FALSE, cycle |-> 1]
  /\ up = TRUE /\ startedAt = 0
  /\ poll = FirstPoll(0)
  /\ snap = EmptySnapshot
  /\ deaths = 0

-----------------------------------------------------------------------------
(* PRG_ShmPublisher.                                                        *)

\* The publish part of a scan; the seqlock makes it one step for a reader.
PlcPublish ==
  /\ plc = "init" \/ (plc = "cyclic" /\ clock > aliveAt)
  /\ plc' = "cyclic"
  /\ aliveAt' = clock
  /\ seg' = [odd |-> FALSE, cycle |-> seg.cycle + 1]
  /\ UNCHANGED <<clock, plcSince, bridgeVars, deaths>>

\* The runtime dies between two scans.
PlcDie ==
  /\ plc # "down"
  /\ deaths < MaxPlcDeaths
  /\ plc' = "down"
  /\ deaths' = deaths + 1
  /\ UNCHANGED <<clock, aliveAt, plcSince, seg, bridgeVars>>

\* The runtime dies inside the publication, before or after header.cycle.
PlcDieMidPublish ==
  /\ plc # "down"
  /\ deaths < MaxPlcDeaths
  /\ plc' = "down"
  /\ aliveAt' = clock
  /\ seg' \in {[odd |-> TRUE, cycle |-> c] : c \in {seg.cycle, seg.cycle + 1}}
  /\ deaths' = deaths + 1
  /\ UNCHANGED <<clock, plcSince, bridgeVars>>

\* The INIT part of the first scan: header.seq := 0 over the old payload.
PlcInit ==
  /\ plc = "down"
  /\ plc' = "init"
  /\ aliveAt' = clock /\ plcSince' = clock
  /\ seg' = [seg EXCEPT !.odd = FALSE]
  /\ UNCHANGED <<clock, bridgeVars, deaths>>

-----------------------------------------------------------------------------
(* The bridge: pollShm and Snapshot.                                        *)

\* A ticker event: ReadPlcData; an error leaves the snapshot alone.
PollTick ==
  /\ up /\ poll.pc = "waiting" /\ clock >= poll.next
  /\ poll' = [pc |-> IF seg.odd THEN "waiting" ELSE "copied",
              d |-> IF seg.odd THEN poll.d ELSE seg.cycle,
              next |-> poll.next + PollPeriod]
  /\ UNCHANGED <<clock, plcVars, up, startedAt, snap, deaths>>

\* Mutant: every successful read refreshes the age.
Advanced_Always(s, d) == TRUE

\* Mutant: the age is refreshed by the first read only.
Advanced_Once(s, d) == ~s.valid

Advanced(s, d) == ~s.valid \/ d # s.cycle

Updated(s, d) ==
  [valid |-> TRUE, cycle |-> d,
   updatedAt |-> IF Advanced(s, d) THEN clock ELSE s.updatedAt]

\* Snapshot.Update under its mutex.
PollUpdate ==
  /\ up /\ poll.pc = "copied"
  /\ snap' = Updated(snap, poll.d)
  /\ poll' = [poll EXCEPT !.pc = "waiting"]
  /\ UNCHANGED <<clock, plcVars, up, startedAt, deaths>>

IsStale(s, now) == now - s.updatedAt > StaleAfter

\* A Modbus read answers with data, else exception 04.
ModbusServes == up /\ snap.valid /\ ~IsStale(snap, clock)

\* The bridge process ends; its WebSocket connections close.
BridgeStop ==
  /\ up
  /\ up' = FALSE
  /\ poll' = FirstPoll(0) /\ snap' = EmptySnapshot /\ startedAt' = 0
  /\ UNCHANGED <<clock, plcVars, deaths>>

BridgeStart ==
  /\ ~up
  /\ up' = TRUE /\ startedAt' = clock
  /\ poll' = FirstPoll(clock)
  /\ UNCHANGED <<clock, plcVars, snap, deaths>>

-----------------------------------------------------------------------------
\* Time passes while the PLC task and the poll goroutine are on time.
Advance ==
  /\ clock < MaxTime
  /\ plc # "init" /\ (plc = "cyclic" => clock < aliveAt + ScanPeriod)
  /\ up => clock < PollLag + (IF poll.pc = "waiting" THEN poll.next ELSE poll.next - PollPeriod)
  /\ clock' = clock + 1
  /\ UNCHANGED <<plcVars, bridgeVars, deaths>>

Next ==
  \/ PlcPublish \/ PlcDie \/ PlcDieMidPublish \/ PlcInit
  \/ PollTick \/ PollUpdate \/ BridgeStop \/ BridgeStart
  \/ Advance

Spec == Init /\ [][Next]_vars

-----------------------------------------------------------------------------
(* Properties.                                                              *)

\* How long ago the PLC may have run when the snapshot still counts as live;
\* also how long after its start a bridge may take a frozen segment for live.
LiveBound == StaleAfter + PollPeriod + PollLag
WarmedUp == clock - startedAt > LiveBound

\* Once the bridge has run for LiveBound, a snapshot that Modbus serves proves
\* that the PLC ran recently: re-reading a frozen segment or one a dying PLC
\* left half written never refreshes the age.  (The restart of a PLC program
\* counts as the PLC running.)
LiveMeansPlcRan == ModbusServes /\ WarmedUp => clock - aliveAt <= LiveBound

\* A PLC that keeps publishing is never reported stale, when the staleness
\* threshold leaves room for a late poll after one that just missed a scan:
\* the age is not only never too young but also not too old.
ThresholdFits == StaleAfter >= 2 * PollPeriod + PollLag /\ ScanPeriod <= PollPeriod
Settled(since) == clock - since > PollPeriod + PollLag

AliveIsServed ==
  ThresholdFits /\ plc = "cyclic" /\ Settled(plcSince) /\ up /\ Settled(startedAt)
    => ModbusServes
=============================================================================
