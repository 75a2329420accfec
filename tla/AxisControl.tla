---------------------------- MODULE AxisControl ----------------------------
(***************************************************************************)
(* The axis control block of the PLC template: BaseStateMachine with       *)
(* MC_BasicControl on top of it, against the axis of Sm3Axis.  The PLC     *)
(* task calls the block once per cycle.  One action is one such scan: the  *)
(* handling of reset, error, pause and enable, then at most one branch of  *)
(* Main, then _RunMotionFBs.  Between two scans the program may call the   *)
(* methods, and the drive moves on.                                        *)
(*                                                                         *)
(* Left out: velocities, positions and the busy outputs.  iLastStep is     *)
(* kept only while it is live, that is while the block is paused.  The HMI *)
(* jog inputs are read where the jog requests are and count as requests.   *)
(***************************************************************************)
EXTENDS Sm3Axis, FiniteSets, Sequences

CONSTANTS
  Commands,     \* command methods the program calls, named by their step
  MaxRequests,  \* bound: commands requested in one cycle
  EmergencyStop, \* bound: whether the emergency stop is ever pressed
  Interrupts    \* bound: whether the program calls InterrupMotionCommand

\* The dispatch order of READY.  A homing is requested by its first step.
Priority == <<"MOVE_ABS", "MOVE_REL", "MOVE_VEL", "JOG_POS", "JOG_NEG",
              "HOMING_WRITE_PARAM", "SET_POSITION">>

ASSUME CommandsAssumption == Commands \subseteq {Priority[i] : i \in 1..Len(Priority)}
ASSUME RequestsAssumption == MaxRequests \in Nat
ASSUME BoundsAssumption == EmergencyStop \in BOOLEAN /\ Interrupts \in BOOLEAN

VARIABLES
  fb,       \* the block: steps, error and pause, power, Execute flags
  request,  \* command methods called since Main last ran
  enable,   \* the input xEnable at the last scan; the methods read it
  params,   \* _fbMC_WriteHomingParameters
  relHeld,  \* history: MoveRelative has been requested ever since its Done
  \* History of the command dispatched last:
  began,    \* blocks of a move or homing the axis has begun for it
  own,      \* the homing parameter writer took its values during it
  wrote,    \* the writer finished writing during it
  resumed   \* it found the writer in the middle of writing older values

history == <<relHeld, began, own, wrote, resumed>>
ctlVars == <<fb, request, enable, params, history>>
vars == <<axisVars, ctlVars>>

MotionSteps == {Priority[i] : i \in 1..Len(Priority)} \union {"HOMING_EXEC"}
Steps == MotionSteps \union
  {"IDLE", "ENABLING", "NOT_READY", "READY", "STOPPING", "WAIT_STOP", "TRY_RESET"}
\* The two steps of BaseStateMachine, outside the steps of the block.
BaseSteps == {"ERROR", "PAUSE"}
EMS == IF EmergencyStop THEN BOOLEAN ELSE {FALSE}

BlockOf == [st \in {"MOVE_ABS", "MOVE_REL", "HOMING_EXEC", "MOVE_VEL", "JOG_POS", "JOG_NEG"} |->
  CASE st = "MOVE_ABS" -> "abs" [] st = "MOVE_REL" -> "rel"
    [] st = "HOMING_EXEC" -> "home" [] OTHER -> "vel"]
Moves == {"MOVE_ABS", "MOVE_REL", "HOMING_EXEC"}
MoveBlocks == {BlockOf[st] : st \in Moves}
RequestOf(st) == IF st = "HOMING_EXEC" THEN "HOMING_WRITE_PARAM" ELSE st

Block ==
  [iStep: Steps \union BaseSteps, iLastStep: Steps \union BaseSteps,
   xError: BOOLEAN, xPaused: BOOLEAN, limitTrip: BOOLEAN, xPowerOn: BOOLEAN,
   done: Moves \union {"SET_POSITION", "STOPPING", "none"}, reArm: BOOLEAN,
   exec: SUBSET (Blocks \union {"params"})]

\* The writer's iStep: 0, 1, 2, 3 and 4, 100, the same with xDone, and error.
WriterSteps == {"idle", "begun", "taking", "writing", "written", "done", "failed"}

AxisCtlTypeOK ==
  /\ AxisTypeOK
  /\ fb \in Block
  /\ request \subseteq Commands
  /\ enable \in BOOLEAN
  /\ params \in WriterSteps
  /\ relHeld \in BOOLEAN /\ began \subseteq MoveBlocks
  /\ own \in BOOLEAN /\ wrote \in BOOLEAN /\ resumed \in BOOLEAN

Init ==
  /\ AxisInit
  /\ fb = [iStep |-> "IDLE", iLastStep |-> "IDLE", xError |-> FALSE, xPaused |-> FALSE,
           limitTrip |-> FALSE, xPowerOn |-> FALSE, done |-> "none", reArm |-> FALSE,
           exec |-> {}]
  /\ request = {} /\ enable = FALSE /\ params = "idle"
  /\ relHeld = FALSE /\ began = {}
  /\ own = FALSE /\ wrote = FALSE /\ resumed = FALSE

----------------------------------------------------------------------------
(* The methods, as operators on the block.                                 *)

ClearAllExecute(s) == [s EXCEPT !.exec = @ \ (Motion \union {"params"})]
Goto(s, st) == [s EXCEPT !.iStep = st]
Execute(s, b) == [s EXCEPT !.exec = @ \union {b}]
Drop(s, b) == [s EXCEPT !.exec = @ \ {b}]

\* Mutant: the error step is one the state machine does not have.
RaiseAs_Unlisted(s, trip) ==
  IF s.xError \/ s.xPaused THEN s
  ELSE [s EXCEPT !.xError = TRUE, !.limitTrip = trip, !.iStep = "FAILED"]

\* Mutant: a pause does not keep an error from being raised.
RaiseAs_InPause(s, trip) ==
  IF s.xError THEN s
  ELSE [s EXCEPT !.xError = TRUE, !.limitTrip = trip, !.iStep = "ERROR"]

RaiseAs(s, trip) ==
  IF s.xError \/ s.xPaused THEN s
  ELSE [s EXCEPT !.xError = TRUE, !.limitTrip = trip, !.iStep = "ERROR"]
Raise(s) == RaiseAs(s, FALSE)

Pause(s) ==
  IF s.xError \/ s.xPaused THEN s
  ELSE [s EXCEPT !.iLastStep = s.iStep, !.iStep = "PAUSE", !.xPaused = TRUE]

Resume(s) == [s EXCEPT !.iStep = s.iLastStep, !.iLastStep = "IDLE", !.xPaused = FALSE]

StopMotion(s, enabled) ==
  IF ~enabled
  THEN [Drop(ClearAllExecute(s), "stop") EXCEPT
          !.xPowerOn = FALSE, !.iStep = "IDLE", !.iLastStep = "IDLE",
          !.xError = FALSE, !.limitTrip = FALSE, !.xPaused = FALSE]
  ELSE IF s.iStep \in {"STOPPING", "WAIT_STOP"} THEN s
  ELSE Goto(ClearAllExecute(s), "STOPPING")

Reset(s) ==
  IF ~s.xError THEN s
  ELSE [ClearAllExecute(s) EXCEPT
          !.exec = @ \ {"stop", "reset"}, !.iStep = "TRY_RESET",
          !.xError = FALSE, !.limitTrip = FALSE]

----------------------------------------------------------------------------
(* The end of a scan: _RunMotionFBs.                                       *)

\* The steps one call of the homing parameter writer may go to; xExecute is
\* read in the first and in the last one only.  "taking" fills the value stack
\* from stParameter, "writing" sends it parameter by parameter.  The error is
\* for good: nobody sets the xReset of the writer's BaseStateMachine.
WriterMoves(xExecute) ==
  CASE params = "idle" -> IF xExecute THEN {"begun"} ELSE {"idle"}
    [] params = "begun" -> {"begun", "taking"}
    [] params = "taking" -> {"writing", "failed"}
    [] params = "writing" -> {"writing", "written", "failed"}
    [] params \in {"written", "done"} -> IF xExecute THEN {"done"} ELSE {"idle"}
    [] params = "failed" -> {"failed"}

\* Mutant: the writer is called only while its xExecute is set.
WriteParams_OnExecute(s) ==
  IF "params" \notin s.exec THEN params' = params ELSE params' \in WriterMoves(TRUE)

WriteParams(s) ==
  IF s.iStep # "HOMING_WRITE_PARAM" /\ "params" \notin s.exec THEN params' = params
  ELSE params' \in WriterMoves("params" \in s.exec)

Dispatches(s) == fb.iStep = "READY" /\ s.iStep \in MotionSteps

\* The history a scan leaves that ends with block s and these Execute inputs.
Remember(s, inputs) ==
  /\ began' = (Begun(inputs) \intersect MoveBlocks) \union (IF Dispatches(s) THEN {} ELSE began)
  /\ own' = \/ params = "taking" /\ params' = "writing"
            \/ own /\ ~Dispatches(s)
  /\ wrote' = \/ params = "writing" /\ params' = "written"
              \/ wrote /\ ~Dispatches(s)
  /\ resumed' = IF Dispatches(s) THEN params = "writing" ELSE resumed

EndScan(s, enabled, ems) ==
  LET inputs == IF ems THEN s.exec \union {"ems"} ELSE s.exec \ {"ems"}
      called == (inputs \ {"params"}) \union (IF s.xPowerOn THEN {"power"} ELSE {})
  IN /\ fb' = [s EXCEPT !.exec = inputs]
     /\ enable' = enabled
     /\ CallBlocks(called)
     /\ WriteParams(s)
     /\ Remember(s, called)

\* A scan that runs Main: _ClearAndSaveRequestFlags takes the requests.
EndMain(s, ems) ==
  /\ EndScan(s, TRUE, ems)
  /\ request' = {}
  /\ relHeld' = ("MOVE_REL" \in request /\ (relHeld \/ (s.done = "MOVE_REL" /\ fb.done = "none")))

EndEarly(s, enabled, ems) ==
  EndScan(s, enabled, ems) /\ UNCHANGED <<request, relHeld>>

----------------------------------------------------------------------------
(* A scan, up to Main.  In error a scan goes no further without xReset.    *)

ScanInError(enabled, stop, ems) ==
  /\ fb.xError
  /\ EndEarly(IF stop THEN StopMotion(fb, enabled) ELSE fb, enabled, ems)

Entered == Reset(fb)

ScanPaused(pause, enabled, ems) ==
  /\ pause \/ Entered.xPaused
  /\ EndEarly(IF pause THEN Pause(Entered) ELSE Resume(Entered), enabled, ems)

ScanDisabled(ems) ==
  /\ ~Entered.xPaused
  /\ EndEarly(StopMotion(Entered, FALSE), FALSE, ems)

\* What Main finds: xEnable is set, xStop may be.
Running(stop) == IF stop THEN StopMotion(Entered, TRUE) ELSE Entered
At(step, stop) == ~Entered.xPaused /\ Running(stop).iStep = step

DriverError(stop, ems) ==
  /\ ~Entered.xPaused
  /\ EndMain(Raise(ClearAllExecute(Running(stop))), ems)

EmergencyScan(stop) ==
  LET s == Drop(ClearAllExecute(Running(stop)), "stop")
  IN /\ ~Entered.xPaused
     /\ EndMain(IF s.iStep \in MotionSteps THEN Goto(s, "STOPPING") ELSE s, TRUE)

----------------------------------------------------------------------------
(* Main, one action per step.                                              *)

Idle ==
  /\ At("IDLE", FALSE)
  /\ EndMain([Entered EXCEPT !.xPowerOn = FALSE, !.done = "none", !.iStep = "ENABLING"],
             FALSE)

PowerOn(s) == [s EXCEPT !.xPowerOn = TRUE]

Enabling ==
  /\ At("ENABLING", FALSE)
  /\ EndMain(Goto(PowerOn(Entered), IF regulator THEN "READY"
                                    ELSE IF axisError THEN "NOT_READY" ELSE "ENABLING"),
             FALSE)

\* MC_Reset is asked again one scan after each of its answers.
AskReset(s) ==
  IF out["reset"] \in {"done", "error", "noError"} THEN Drop(s, "reset") ELSE Execute(s, "reset")

NotReady ==
  LET s == AskReset(PowerOn(Entered))
  IN /\ At("NOT_READY", FALSE)
     /\ EndMain(IF Standstill THEN Goto(s, "READY") ELSE s, FALSE)

TryReset ==
  LET s == AskReset(Entered)
  IN /\ At("TRY_RESET", FALSE)
     /\ EndMain(IF Standstill /\ out["reset"] \in {"done", "noError"} THEN Goto(s, "READY")
                ELSE s, FALSE)

ReadyBlock ==
  [PowerOn(Entered) EXCEPT !.done = "none", !.reArm = @ /\ "MOVE_REL" \in request]

Dispatched(s, limits) ==
  LET Allowed(st) == st \in request \ limits /\ (st = "MOVE_REL" => ~s.reArm)
      wanted == {i \in 1..Len(Priority) : Allowed(Priority[i])}
  IN IF wanted = {} THEN "READY"
     ELSE Priority[CHOOSE i \in wanted : \A j \in wanted : i <= j]

\* `limits' are the jog commands whose limit switch is active.
Ready(limits) ==
  /\ At("READY", FALSE)
  /\ EndMain(Goto(ReadyBlock, Dispatched(ReadyBlock, limits)), FALSE)

\* `changed': the jog velocity differs from the one of the last scan and the
\* parameter set does not ask for continuous update.
Jog(step, limit, changed) ==
  LET s == Drop(Entered, "vel")
      asked == IF step \in request THEN s ELSE Goto(s, "STOPPING")
  IN /\ At(step, FALSE)
     /\ EndMain(CASE limit -> RaiseAs(s, TRUE)
                  [] ~limit /\ out["vel"] = "error" -> Raise(asked)
                  [] OTHER -> IF step \in request /\ ~changed THEN Execute(s, "vel") ELSE asked,
                FALSE)

\* Mutant: a relative move does not lock itself when it is done.
Move_NoLock(step) ==
  LET b == BlockOf[step]
      cleared == ClearAllExecute(Entered)
  IN /\ At(step, FALSE)
     /\ EndMain(CASE out[b] = "done" -> [cleared EXCEPT
                       !.iStep = "STOPPING", !.done = step]
                  [] out[b] = "error" -> Raise(cleared)
                  [] OTHER -> IF RequestOf(step) \in request THEN Execute(Entered, b)
                              ELSE Goto(cleared, "STOPPING"),
                FALSE)

\* Mutant: a move that is no longer requested keeps its Execute.
Move_KeepsExecute(step) ==
  LET b == BlockOf[step]
      cleared == ClearAllExecute(Entered)
  IN /\ At(step, FALSE)
     /\ EndMain(CASE out[b] = "done" -> [cleared EXCEPT
                       !.iStep = "STOPPING", !.done = step, !.reArm = @ \/ step = "MOVE_REL"]
                  [] out[b] = "error" -> Raise(cleared)
                  [] OTHER -> IF RequestOf(step) \in request THEN Execute(Entered, b)
                              ELSE Goto(Entered, "STOPPING"),
                FALSE)

\* MOVE_ABS, MOVE_REL and HOMING_EXEC.
Move(step) ==
  LET b == BlockOf[step]
      cleared == ClearAllExecute(Entered)
  IN /\ At(step, FALSE)
     /\ EndMain(CASE out[b] = "done" -> [cleared EXCEPT
                       !.iStep = "STOPPING", !.done = step, !.reArm = @ \/ step = "MOVE_REL"]
                  [] out[b] = "error" -> Raise(cleared)
                  [] OTHER -> IF RequestOf(step) \in request THEN Execute(Entered, b)
                              ELSE Goto(cleared, "STOPPING"),
                FALSE)

MoveVelocity ==
  /\ At("MOVE_VEL", FALSE)
  /\ EndMain(IF out["vel"] = "error" THEN Raise(ClearAllExecute(Entered))
             ELSE IF "MOVE_VEL" \in request THEN Execute(Entered, "vel")
             ELSE Goto(Drop(Entered, "vel"), "STOPPING"), FALSE)

HomingWriteParam ==
  /\ At("HOMING_WRITE_PARAM", FALSE)
  /\ EndMain(CASE params = "done" -> Goto(Drop(Entered, "params"), "HOMING_EXEC")
               [] params = "failed" -> Raise(ClearAllExecute(Entered))
               [] OTHER -> IF "HOMING_WRITE_PARAM" \in request THEN Execute(Entered, "params")
                           ELSE Goto(ClearAllExecute(Entered), "STOPPING"), FALSE)

\* DoSetPosition is abstract: 0 is busy, 1 done and -1 an error.
SetPosition(result) ==
  /\ At("SET_POSITION", FALSE)
  /\ EndMain(CASE result = 1 -> [Entered EXCEPT !.done = "SET_POSITION", !.iStep = "READY"]
               [] result = -1 -> Raise(Entered)
               [] result = 0 -> Entered, FALSE)

\* Mutant: MC_Stop is not started.
Stopping_NoExecute(stop) ==
  /\ At("STOPPING", stop)
  /\ EndMain(Goto(Running(stop), "WAIT_STOP"), FALSE)

Stopping(stop) ==
  /\ At("STOPPING", stop)
  /\ EndMain(Goto(Execute(Running(stop), "stop"), "WAIT_STOP"), FALSE)

\* Mutant: MC_Stop keeps its Execute after its Done.
WaitStop_KeepsExecute(stop) ==
  LET s == Running(stop)
  IN /\ At("WAIT_STOP", stop)
     /\ EndMain(CASE out["stop"] = "done" /\ ~stop ->
                       [s EXCEPT !.done = "STOPPING", !.iStep = "READY"]
                  [] out["stop"] = "error" -> Raise(Drop(s, "stop"))
                  [] OTHER -> s, FALSE)

\* The branch of WAIT_STOP for xEMS is never reached: EmergencyScan returns.
WaitStop(stop) ==
  LET s == Running(stop)
  IN /\ At("WAIT_STOP", stop)
     /\ EndMain(CASE out["stop"] = "done" /\ ~stop ->
                       [Drop(s, "stop") EXCEPT !.done = "STOPPING", !.iStep = "READY"]
                  [] out["stop"] = "error" -> Raise(Drop(s, "stop"))
                  [] OTHER -> s, FALSE)

----------------------------------------------------------------------------
(* Between two scans: the methods, called by the program.                  *)

Call(c) ==
  /\ c \notin request /\ Cardinality(request) < MaxRequests
  /\ request' = request \union {c}
  /\ UNCHANGED <<axisVars, fb, enable, params, history>>

\* What the method of command c returns as xDone.
XDone(c) == fb.done = (IF c = "HOMING_WRITE_PARAM" THEN "HOMING_EXEC" ELSE c)

Method(s) == fb' = s /\ UNCHANGED <<axisVars, request, enable, params, history>>

CallStop == Method(StopMotion(fb, enable))
CallReset == fb.xError /\ Method(Reset(fb))
CallRaise == Method(Raise(fb))
InterrupMotionCommand == Interrupts /\ Method(Goto(fb, "STOPPING"))

----------------------------------------------------------------------------
MainStep(stop) ==
  \/ Idle /\ ~stop
  \/ Enabling /\ ~stop
  \/ NotReady /\ ~stop
  \/ TryReset /\ ~stop
  \/ ~stop /\ \E limits \in SUBSET {"JOG_POS", "JOG_NEG"} : Ready(limits)
  \/ ~stop /\ \E step \in {"JOG_POS", "JOG_NEG"}, limit, changed \in BOOLEAN :
       Jog(step, limit, changed)
  \/ ~stop /\ \E step \in Moves : Move(step)
  \/ MoveVelocity /\ ~stop
  \/ HomingWriteParam /\ ~stop
  \/ ~stop /\ \E result \in {0, 1, -1} : SetPosition(result)
  \/ Stopping(stop)
  \/ WaitStop(stop)

Scan ==
  \/ \E enabled, stop \in BOOLEAN, ems \in EMS : ScanInError(enabled, stop, ems)
  \/ \E pause, enabled \in BOOLEAN, ems \in EMS : ScanPaused(pause, enabled, ems)
  \/ \E ems \in EMS : ScanDisabled(ems)
  \/ \E stop \in BOOLEAN, ems \in EMS : DriverError(stop, ems)
  \/ EmergencyStop /\ \E stop \in BOOLEAN : EmergencyScan(stop)
  \/ \E stop \in BOOLEAN : MainStep(stop)

Axis ==
  \/ PowerFollows
  \/ MotionEnds
  \/ HaltEnds
  \/ AxisFault
  \/ ResetSucceeds
  \/ ResetFails

Next ==
  \/ Scan
  \/ Axis /\ UNCHANGED ctlVars
  \/ \E c \in Commands : Call(c)
  \/ CallStop \/ CallReset \/ CallRaise \/ InterrupMotionCommand

AxisCtlSpec == Init /\ [][Next]_vars

\* The task is cyclic, the drive gets on with what it was asked, and nobody
\* holds xStop, xPause or xEMS, or withholds xEnable, for ever.  Faults, failed
\* resets, xReset and methods are never forced.
Fairness ==
  /\ WF_vars(~fb.xError /\ MainStep(FALSE))
  /\ WF_vars(~fb.xError /\ ScanPaused(FALSE, TRUE, FALSE))
  /\ WF_vars(ScanInError(TRUE, FALSE, FALSE))
  /\ WF_vars(PowerFollows /\ UNCHANGED ctlVars)
  /\ WF_vars(MotionEnds /\ UNCHANGED ctlVars)
  /\ WF_vars(HaltEnds /\ UNCHANGED ctlVars)
  /\ WF_vars(ResetSucceeds /\ UNCHANGED ctlVars)

AxisCtlFairSpec == AxisCtlSpec /\ Fairness

----------------------------------------------------------------------------
\* The step a pause will return to, or the step itself.
Step == IF fb.xPaused THEN fb.iLastStep ELSE fb.iStep

\* At most the motion block of the current step has its Execute: a block that
\* keeps it would miss the rising edge of the next command.  Raise from
\* outside Main keeps one until Reset.  (InterrupMotionCommand leaves one set
\* too; nobody in the repository calls it.)
OneBlockExecutes ==
  IF fb.xError THEN Cardinality(fb.exec \intersect Motion) <= 1
  ELSE fb.exec \intersect Motion \subseteq
         IF Step \in DOMAIN BlockOf THEN {BlockOf[Step]} ELSE {}

\* A Done that a caller reads was earned: the axis began the block of that
\* move for the command dispatched last, and no command is under way whose
\* caller could take it for its own.  (From the end of a move to the next READY
\* scan, through the stop and any error, a new call of the same method does
\* read the Done of the move before.)
DoneIsEarned ==
  /\ \A st \in Moves : XDone(RequestOf(st)) => BlockOf[st] \in began
  /\ Step \in MotionSteps => fb.done = "none"

\* The homing move starts only when the writer finished during this homing,
\* with the values taken for it; the xDone of an earlier writing is never
\* taken for it.  The one exception: an earlier homing, withdrawn while the
\* writer was sending its values, leaves the writer there, and this homing
\* resumes it and moves with what the earlier one took.
HomeAfterWrite == "home" \in fb.exec => wrote /\ (own \/ resumed)

\* A block in error is not paused too: Resume would leave the error step.
ErrorIsNotPaused == ~(fb.xError /\ fb.xPaused)

\* A relative move that is requested without a break after its Done is not
\* carried out a second time, whatever stops, errors and resets come between.
NoRepeatedRelative == [][fb'.iStep = "MOVE_REL" /\ fb.iStep = "READY" => ~relHeld']_vars

\* A motion command begins only in a scan with xEnable, without emergency
\* stop, and while no MC_Stop has its Execute; and never in error or pause.
MotionBeginsSafely ==
  [][(execute' \intersect Motion) \ execute # {} =>
       /\ enable' /\ "power" \in execute'
       /\ Halts \intersect execute' = {}
       /\ ~fb'.xError /\ ~fb'.xPaused]_vars

\* A stop is waited for (enumAxisControl_Step, line 16), and the wait ends: once
\* nobody presses the emergency stop any more, the block does not stay in
\* WAIT_STOP for ever.
StopIsWaitedFor ==
  <>[]("ems" \notin execute) => (fb.iStep = "WAIT_STOP" ~> fb.iStep # "WAIT_STOP")

\* MC_BasicControl.Reset, line 5: after the drive has been reset the axis is
\* ready again; TRY_RESET is left once the axis rests and stays without an error.
ResetRestoresReady ==
  <>[](~axisError /\ mover = "none") =>
    (fb.iStep = "TRY_RESET" ~> fb.iStep # "TRY_RESET")
============================================================================
