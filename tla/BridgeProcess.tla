---------------------------- MODULE BridgeProcess ----------------------------
(****************************************************************************)
(* The life of the plc_bridge process: main (cmd/plc_bridge/main.go), the   *)
(* goroutines it starts, and systemd with the settings of the unit file.    *)
(* The Modbus server stands for all servers of the process: its requests    *)
(* are still handled while main waits and while the mappings are removed.   *)
(****************************************************************************)
EXTENDS ModbusServer

CONSTANT MaxFaults  \* bound: kills of the process and faults of a segment
ASSUME FaultsAssumption == MaxFaults \in Nat

VARIABLES
  main,      \* "inactive", "restart" (systemd will start it), "prestart",
             \* "opening", "starting" (before signal.Notify), "running",
             \* "waiting" (in wg.Wait), "closing"
  mapped,    \* the segments mapped by the process
  poll,      \* goroutine pollShm: "none", "ticking", "reading", "done"
  cancelled, \* ctx is done
  signalled, \* SIGTERM or SIGINT has been sent to this process
  segs,      \* the usable segments in /dev/shm
  listenerFailed, \* history: a listener of the last process failed
  faults     \* history: how often the process was killed or a segment removed

processVars == <<main, mapped, poll, cancelled, signalled, segs, listenerFailed, faults>>
bridgeVars == <<serverVars, processVars>>

Segments == {"plc_data", "plc_cmd"}

\* The process has its goroutines: they run until it ends, whatever main does.
Alive == main \in {"starting", "running", "waiting", "closing"}

ProcessTypeOK ==
  /\ ServerTypeOK
  /\ main \in {"inactive", "restart", "prestart", "opening", "starting", "running", "waiting",
               "closing"}
  /\ mapped \subseteq Segments /\ segs \subseteq Segments
  /\ poll \in {"none", "ticking", "reading", "done"}
  /\ {cancelled, signalled, listenerFailed} \subseteq BOOLEAN
  /\ faults \in 0..MaxFaults
  /\ Alive \/ (poll = "none" /\ conn = Closed)
  /\ Alive \/ main = "opening" \/ mapped = {}

ProcessInit ==
  /\ ServerInit
  /\ main = "prestart"
  /\ mapped = {} /\ poll = "none"
  /\ cancelled = FALSE /\ signalled = FALSE
  /\ segs \in SUBSET Segments
  /\ listenerFailed = FALSE /\ faults = 0

-----------------------------------------------------------------------------
(* The end of the process and what systemd makes of it.                     *)

\* Mutant: a failure to open a segment returns from main.
AfterFatal_Clean == "inactive"

\* log.Fatalf: exit status 1, a failure.
AfterFatal == IF signalled THEN "inactive" ELSE "restart"

\* Restart=on-failure: a process that died of a fault or an unclean signal is
\* started again unless the unit is being stopped.
AfterCrash == IF signalled THEN "inactive" ELSE "restart"

\* Everything the process held is gone, whatever it was doing.
Gone(next) ==
  /\ main' = next
  /\ mapped' = {} /\ poll' = "none" /\ cancelled' = FALSE
  /\ conn' = Closed /\ cmd' = ZeroCommand /\ snap' = "none"
  /\ listenerFailed' = (listenerFailed /\ next = "inactive")
  /\ UNCHANGED segs

-----------------------------------------------------------------------------
(* Starting.                                                                *)

\* `systemctl start', at boot or by a deployment.
Start ==
  /\ main = "inactive"
  /\ main' = "prestart"
  /\ signalled' = FALSE /\ listenerFailed' = FALSE
  /\ UNCHANGED <<serverVars, mapped, poll, cancelled, segs, faults>>

\* RestartSec has passed.
SystemdRestart ==
  /\ main = "restart"
  /\ main' = "prestart"
  /\ UNCHANGED <<serverVars, mapped, poll, cancelled, signalled, segs, listenerFailed, faults>>

\* Mutant: ExecStartPre fails the unit when it waited in vain.
PreStart_Fails ==
  /\ main = "prestart"
  /\ main' = IF segs = Segments THEN "opening" ELSE "inactive"
  /\ UNCHANGED <<serverVars, mapped, poll, cancelled, signalled, segs, listenerFailed, faults>>

\* ExecStartPre ends: both segments exist, or its 15 seconds are over.
PreStart ==
  /\ main = "prestart"
  /\ main' = "opening"
  /\ UNCHANGED <<serverVars, mapped, poll, cancelled, signalled, segs, listenerFailed, faults>>

\* shm.OpenRead and shm.Open, in this order; a missing or short segment is
\* fatal.  After the second, main starts its goroutines.
OpenSegment ==
  LET name == IF mapped = {} THEN "plc_data" ELSE "plc_cmd"
  IN  /\ main = "opening"
      /\ IF name \notin segs
           THEN Gone(AfterFatal)
           ELSE /\ mapped' = mapped \union {name}
                /\ IF mapped' = Segments
                     THEN main' = "starting" /\ poll' = "ticking"
                     ELSE UNCHANGED <<main, poll>>
                /\ UNCHANGED <<serverVars, cancelled, segs, listenerFailed>>
      /\ UNCHANGED <<signalled, faults>>

\* signal.Notify: from here on a signal is left to the select.
Notify ==
  /\ main = "starting"
  /\ main' = "running"
  /\ UNCHANGED <<serverVars, mapped, poll, cancelled, signalled, segs, listenerFailed, faults>>

-----------------------------------------------------------------------------
(* Running.                                                                 *)

\* net.Listen or Accept fails, in either server: the goroutine cancels.
ListenerFails ==
  /\ Alive
  /\ ~listenerFailed
  /\ listenerFailed' = TRUE
  /\ cancelled' = TRUE
  /\ UNCHANGED <<serverVars, main, mapped, poll, signalled, segs, faults>>

\* Before signal.Notify the signal ends the process by itself, its goroutines
\* with it, which systemd counts as a clean exit.
Signal ==
  /\ main \notin {"inactive", "restart"}
  /\ ~signalled
  /\ signalled' = TRUE
  /\ IF main \in {"running", "waiting", "closing"}
       THEN UNCHANGED <<serverVars, main, mapped, poll, cancelled, segs, listenerFailed>>
       ELSE Gone("inactive")
  /\ UNCHANGED faults

\* The select of the loop; when the ticker and the context are both ready,
\* either branch may be taken.
PollTick ==
  /\ poll = "ticking"
  /\ poll' = "reading"
  /\ UNCHANGED <<serverVars, main, mapped, cancelled, signalled, segs, listenerFailed, faults>>

\* Mutant: the loop looks at the signal, not at the context.
PollDone_OnSignal ==
  /\ poll = "ticking" /\ signalled
  /\ poll' = "done"
  /\ UNCHANGED <<serverVars, main, mapped, cancelled, signalled, segs, listenerFailed, faults>>

PollDone ==
  /\ poll = "ticking" /\ cancelled
  /\ poll' = "done"
  /\ UNCHANGED <<serverVars, main, mapped, cancelled, signalled, segs, listenerFailed, faults>>

\* ReadPlcData and Snapshot.Update; a read without success changes nothing.
PollRead ==
  /\ poll = "reading"
  /\ poll' = "ticking"
  /\ snap' \in {snap, "fresh"}
  /\ UNCHANGED <<conn, cmd, main, mapped, cancelled, signalled, segs, listenerFailed, faults>>

\* A step of the servers.  The sink publishes into plc_cmd: an accepted write
\* that comes after its mapping is gone is a fault.
Serve ==
  /\ Alive
  /\ IF conn.pc = "request" /\ "plc_cmd" \notin mapped
          /\ Dispatch(cmd, conn.req, snap).resp.kind = "echo"
       THEN Gone(AfterCrash) /\ UNCHANGED <<signalled, faults>>
       ELSE ServerStep /\ UNCHANGED processVars

\* The process is killed or dies of a fault elsewhere.
Killed ==
  /\ main \notin {"inactive", "restart", "prestart"}
  /\ faults < MaxFaults
  /\ faults' = faults + 1
  /\ Gone(AfterCrash)
  /\ UNCHANGED signalled

-----------------------------------------------------------------------------
(* Ending.                                                                  *)

\* The select returns: a signal, or the context is done.
Shutdown ==
  /\ main = "running"
  /\ signalled \/ cancelled
  /\ main' = "waiting"
  /\ cancelled' = TRUE
  /\ UNCHANGED <<serverVars, mapped, poll, signalled, segs, listenerFailed, faults>>

\* Mutant: main does not wait for the poll goroutine.
WaitOver_Never == TRUE

\* wg.Wait returns.
WaitOver == poll = "done"

Wait ==
  /\ main = "waiting"
  /\ WaitOver
  /\ main' = "closing"
  /\ UNCHANGED <<serverVars, mapped, poll, cancelled, signalled, segs, listenerFailed, faults>>

\* The deferred calls in reverse order, plc_cmd before plc_data; then main
\* returns with status 0.
Close ==
  /\ main = "closing"
  /\ IF mapped = {} THEN Gone("inactive")
     ELSE /\ mapped' = mapped \ (IF "plc_cmd" \in mapped THEN {"plc_cmd"} ELSE Segments)
          /\ UNCHANGED <<serverVars, main, poll, cancelled, segs, listenerFailed>>
  /\ UNCHANGED <<signalled, faults>>

-----------------------------------------------------------------------------
(* The PLC runtime creates the segments; `make shm-reset' removes them.     *)

CreateSegment(name) ==
  /\ name \notin segs
  /\ segs' = segs \union {name}
  /\ UNCHANGED <<serverVars, main, mapped, poll, cancelled, signalled, listenerFailed, faults>>

RemoveSegment(name) ==
  /\ name \in segs
  /\ faults < MaxFaults
  /\ segs' = segs \ {name}
  /\ faults' = faults + 1
  /\ UNCHANGED <<serverVars, main, mapped, poll, cancelled, signalled, listenerFailed>>

Environment == \E name \in Segments : CreateSegment(name) \/ RemoveSegment(name)

MainStep == PreStart \/ OpenSegment \/ Notify \/ Shutdown \/ Wait \/ Close
PollStep == PollTick \/ PollDone \/ PollRead

ProcessNext ==
  \/ Start \/ SystemdRestart \/ MainStep \/ PollStep \/ Serve
  \/ ListenerFails \/ Signal \/ Killed
  \/ Environment

ProcessSpec == ProcessInit /\ [][ProcessNext]_bridgeVars

\* systemd and the scheduler go on, and a select takes every branch that is
\* ready again and again some day; nobody has to signal, kill or connect.
FairProcessSpec ==
  /\ ProcessSpec
  /\ WF_bridgeVars(SystemdRestart) /\ WF_bridgeVars(MainStep)
  /\ WF_bridgeVars(PollStep) /\ SF_bridgeVars(PollDone)

-----------------------------------------------------------------------------
(* Properties.                                                              *)

\* The poll goroutine never copies from a segment that is not mapped any more,
\* although main removes the mappings while the servers still run.
PollReadsMapped == poll = "reading" => "plc_data" \in mapped

\* The process is down for good only when somebody stopped it or when one of
\* its listeners failed (which is the exit status 0 that Restart=on-failure
\* does not cover); a missing segment or a crash never is the reason.
DownIsExplained == main = "inactive" => signalled \/ listenerFailed

\* A process that failed to start or crashed runs again once the segments
\* are there to stay, unless somebody stops it.
FailedRunsAgain ==
  <>[](segs = Segments) =>
    (main = "restart" ~> main = "running" \/ signalled)

\* A process that was signalled, or whose context was cancelled, ends: main
\* does not wait for a goroutine that waits for ever, whatever the clients do.
StopEnds == Alive /\ (signalled \/ cancelled) ~> ~Alive
=============================================================================
