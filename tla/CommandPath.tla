----------------------------- MODULE CommandPath -----------------------------
(****************************************************************************)
(* The whole command path: clients -> command sink -> /dev/shm/plc_cmd ->   *)
(* PLC scan (PRG_ShmPublisher), with the bridge process dying, between two  *)
(* publications or inside one, and coming back, and with the PLC program    *)
(* restarted.  The segment outlives both.  A publication and the read loop  *)
(* of a scan are one step each: this module implements the register that    *)
(* Seqlock implements store by store.  What a crash inside a publication    *)
(* leaves behind is an unreadable segment.                                  *)
(****************************************************************************)
EXTENDS CmdSink

CONSTANTS
  ScanPeriod,    \* the PLC task scans at least this often
  MaxCrashes,    \* bound: deaths of the bridge process
  MaxPlcRestarts \* bound: restarts of the PLC program

ASSUME ScanAssumption == ScanPeriod \in Nat \ {0}
ASSUME FaultsAssumption == MaxCrashes \in Nat /\ MaxPlcRestarts \in Nat

VARIABLES
  up,            \* the bridge process runs
  startedAt,     \* history: when it was last started
  crashes,       \* history: how often it died
  unreadable,    \* the segment's sequence number was left odd
  cmdLast,       \* PRG_ShmPublisher: the last command read
  bCmdValid,     \* ... whether one was ever read
  uLastCmdCycle, \* ... the cycle of the last command applied
  currentCmd,    \* ... what the machine program sees as GVL.plcCommand
  scannedAt,     \* history: the time of the last scan
  plcRestarts    \* history: how often the PLC program was restarted

bridgeVars == <<up, startedAt, crashes>>
plcVars == <<cmdLast, bCmdValid, uLastCmdCycle, currentCmd, scannedAt, plcRestarts>>
pathVars == <<vars, bridgeVars, unreadable, plcVars>>

PathTypeOK ==
  /\ TypeOK
  /\ up \in BOOLEAN /\ unreadable \in BOOLEAN /\ bCmdValid \in BOOLEAN
  /\ startedAt \in Nat /\ crashes \in 0..MaxCrashes
  /\ cmdLast \in Command /\ currentCmd \in Command
  /\ uLastCmdCycle \in Nat
  /\ scannedAt \in Nat /\ plcRestarts \in 0..MaxPlcRestarts

PathInit ==
  /\ Init
  /\ up = TRUE /\ startedAt = 0 /\ crashes = 0
  /\ unreadable = FALSE
  /\ cmdLast = NewCommand /\ bCmdValid = FALSE
  /\ uLastCmdCycle = 0 /\ currentCmd = NewCommand
  /\ scannedAt = 0 /\ plcRestarts = 0

-----------------------------------------------------------------------------
(* The bridge.                                                              *)

\* A complete publication also repairs a segment left odd.
BridgeStep ==
  /\ up
  /\ Clients \/ WatchdogTick \/ ExpireJogs
  /\ unreadable' = (unreadable /\ pending'.cycle = pending.cycle)
  /\ UNCHANGED <<bridgeVars, plcVars>>

\* The process ends: killed, crashed, or returning from main on a signal or a
\* listener error.  The watchdog ends with it; nothing is published.
BridgeStop ==
  /\ up
  /\ crashes < MaxCrashes
  /\ up' = FALSE
  /\ crashes' = crashes + 1
  /\ UNCHANGED <<vars, startedAt, unreadable, plcVars>>

\* The process is killed inside WritePlcCommand, its sequence number odd.
BridgeStopMidPublish ==
  /\ up
  /\ crashes < MaxCrashes
  /\ up' = FALSE
  /\ crashes' = crashes + 1
  /\ unreadable' = TRUE
  /\ UNCHANGED <<vars, startedAt, plcVars>>

\* Mutant: the new process adopts the command it finds in the segment.
FirstPending_Adopted == published

\* cmdsink.New: only magic and version are set.
FirstPending == NewCommand

\* main starts again (systemd, make deploy): shm mapped, a new sink, a new
\* watchdog; the segment is not written.
BridgeStart ==
  /\ ~up
  /\ up' = TRUE
  /\ startedAt' = clock
  /\ pending' = FirstPending
  /\ jogSeen' = [i \in Axes |-> 0]
  /\ wd' = "waiting" /\ wdNow' = 0
  /\ nextTick' = clock + Period
  /\ UNCHANGED <<clock, published, asked, heard, crashes, unreadable, plcVars>>

-----------------------------------------------------------------------------
(* The PLC program.                                                         *)

\* The read loop accepts the segment: even number, magic and version written.
Readable == ~unreadable /\ published.cycle # 0

\* Mutant: a command is new when its cycle is larger than the last one.
IsNew_Larger(cmd) == cmd.cycle > uLastCmdCycle + 1

IsNew(cmd) == cmd.cycle # uLastCmdCycle

\* One scan: read the command if the segment can be read, else keep the last
\* one; apply it as a whole when its cycle number is not the one applied last.
PlcScan ==
  LET cmd == IF Readable THEN published ELSE cmdLast
      valid == bCmdValid \/ Readable
  IN  /\ cmdLast' = cmd
      /\ bCmdValid' = valid
      /\ IF valid /\ IsNew(cmd)
           THEN uLastCmdCycle' = cmd.cycle /\ currentCmd' = cmd
           ELSE UNCHANGED <<uLastCmdCycle, currentCmd>>
      /\ scannedAt' = clock
      /\ UNCHANGED <<vars, bridgeVars, unreadable, plcRestarts>>

\* Download, reset or restart of the runtime: the program's variables start
\* over; /dev/shm/plc_cmd keeps its content.
PlcRestart ==
  /\ plcRestarts < MaxPlcRestarts
  /\ plcRestarts' = plcRestarts + 1
  /\ cmdLast' = NewCommand /\ bCmdValid' = FALSE
  /\ uLastCmdCycle' = 0 /\ currentCmd' = NewCommand
  /\ UNCHANGED <<vars, bridgeVars, unreadable, scannedAt>>

-----------------------------------------------------------------------------
PathAdvance ==
  /\ clock < MaxTime
  /\ up => WatchdogOnTime
  /\ clock < scannedAt + ScanPeriod
  /\ clock' = clock + 1
  /\ UNCHANGED <<sinkVars, bridgeVars, unreadable, plcVars>>

PathNext ==
  \/ BridgeStep \/ BridgeStop \/ BridgeStopMidPublish \/ BridgeStart
  \/ PlcScan \/ PlcRestart
  \/ PathAdvance

PathSpec == PathInit /\ [][PathNext]_pathVars

-----------------------------------------------------------------------------
(* Properties.                                                              *)

PlcDeadManBound == DeadManBound + ScanPeriod

\* No process is there to clear a bit: the bridge is down, or its successor has
\* published nothing yet over what it found.
Abandoned == ~up \/ pending.cycle = 0

\* The successor's numbers start over, and the one in the segment is the one
\* the PLC applied last: PRG_ShmPublisher takes the command for an old one.
Overlooked == published.cycle = uLastCmdCycle /\ published # currentCmd

\* The PLC stops acting on a jog bit within the dead-man bound and one scan of
\* the last accepted command, whatever restarts of the PLC program come
\* between.  After a death of the bridge there are two exceptions and no more:
\* the segment is abandoned, or the PLC overlooks what the successor published.
PlcJogDeadMan ==
  \A i \in Axes : Jogging(currentCmd, i) /\ clock - heard >= PlcDeadManBound =>
    crashes > 0 /\ (Abandoned \/ Overlooked)

\* With the first bridge process still running, the PLC acts on the command
\* it read last: cycle numbers never repeat, so none is taken for an old one.
PlcActsOnLatest == crashes = 0 => (bCmdValid => currentCmd = cmdLast)

\* A bridge that has published since it started publishes no jog bit that
\* nobody asked this process for, and its dead-man holds again.
RestartedSinkIsClean ==
  up /\ pending.cycle > 0 =>
    /\ published = pending
    /\ \A i \in Axes :
         Jogging(published, i) => asked[i].at >= startedAt /\ clock - heard < DeadManBound

\* Refinement: whatever dies and restarts, the PLC latches the last completed
\* publication whole or nothing at all, and takes no blank segment for one.
Register == INSTANCE CommandRegister
  WITH Values <- Command, Blank <- NewCommand,
       value <- published, latched <- IF bCmdValid THEN <<cmdLast>> ELSE <<>>

ImplementsRestartingRegister == Register!RestartingSpec
=============================================================================
