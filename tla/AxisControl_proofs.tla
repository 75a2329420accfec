------------------------- MODULE AxisControl_proofs -------------------------
(***************************************************************************)
(* The safety properties of AxisControl, for all commands and bounds.      *)
(*                                                                         *)
(* First the types, and the exclusion of error and pause.  Both are        *)
(* carried through a scan by lemmas about the operators that make up its   *)
(* body: each turns a block in order into a block in order.                *)
(*                                                                         *)
(* Then which Execute may be set in which step.  What a method or a branch *)
(* of Main does to the block is stated once (Steady, Withdraws); EndScan   *)
(* turns it into what the scan does to the axis and its blocks.            *)
(***************************************************************************)
EXTENDS AxisControl, FiniteSetTheorems, TLAPS

\* A block in order: well typed, and not both in error and paused.
InOrder(s) == s \in Block /\ ~(s.xError /\ s.xPaused)

\* The steps that Main can choose are steps of the enumeration.
LEMMA StepsListed ==
  /\ \A i \in 1..Len(Priority) : Priority[i] \in Steps
  /\ MotionSteps \subseteq Steps /\ Moves \subseteq Steps
  /\ {"IDLE", "ENABLING", "NOT_READY", "READY", "STOPPING", "WAIT_STOP", "TRY_RESET",
      "JOG_POS", "JOG_NEG", "HOMING_WRITE_PARAM", "SET_POSITION"} \subseteq Steps
  BY DEF Priority, Steps, MotionSteps, Moves

\* Every method turns a block in order into a block in order.
LEMMA ClearAllExecuteInOrder ==
  ASSUME NEW s, InOrder(s)
  PROVE  InOrder(ClearAllExecute(s))
  BY DEF InOrder, ClearAllExecute, Block

LEMMA GotoInOrder ==
  ASSUME NEW s, InOrder(s), NEW st \in Steps
  PROVE  InOrder(Goto(s, st))
  BY DEF InOrder, Goto, Block

LEMMA ExecuteInOrder ==
  ASSUME NEW s, InOrder(s), NEW b \in Blocks \union {"params"}
  PROVE  InOrder(Execute(s, b))
  BY DEF InOrder, Execute, Block

LEMMA DropInOrder ==
  ASSUME NEW s, InOrder(s), NEW b
  PROVE  InOrder(Drop(s, b))
  BY DEF InOrder, Drop, Block

LEMMA RaiseInOrder ==
  ASSUME NEW s, InOrder(s)
  PROVE  InOrder(Raise(s)) /\ InOrder(RaiseAs(s, TRUE))
  BY DEF InOrder, Raise, RaiseAs, Block, BaseSteps

LEMMA PauseInOrder ==
  ASSUME NEW s, InOrder(s)
  PROVE  InOrder(Pause(s))
  BY DEF InOrder, Pause, Block, BaseSteps

LEMMA ResumeInOrder ==
  ASSUME NEW s, InOrder(s)
  PROVE  InOrder(Resume(s))
  BY StepsListed DEF InOrder, Resume, Block

LEMMA StopMotionInOrder ==
  ASSUME NEW s, InOrder(s), NEW enabled \in BOOLEAN
  PROVE  InOrder(StopMotion(s, enabled))
  BY StepsListed DEF InOrder, StopMotion, ClearAllExecute, Drop, Goto, Block

LEMMA ResetInOrder ==
  ASSUME NEW s, InOrder(s)
  PROVE  InOrder(Reset(s))
  BY StepsListed DEF InOrder, Reset, ClearAllExecute, Block

----------------------------------------------------------------------------
(* The scan.                                                               *)

IInv == AxisCtlTypeOK /\ ErrorIsNotPaused

LEMMA FbInOrder ==
  ASSUME IInv
  PROVE  InOrder(fb) /\ InOrder(Entered) /\ enable \in BOOLEAN
         /\ \A stop \in BOOLEAN : InOrder(Running(stop))
  BY ResetInOrder, StopMotionInOrder
  DEF IInv, AxisCtlTypeOK, ErrorIsNotPaused, InOrder, Entered, Running

\* The calls of the blocks at the end of a scan leave the axis well typed.
\* Calling the blocks of the library keeps their types, ...
LEMMA CallBlocksTyped ==
  ASSUME AxisTypeOK, NEW inputs \in SUBSET (Blocks \union {"power"}), CallBlocks(inputs)
  PROVE  AxisTypeOK'
<1>1. \A b \in Blocks : Answer(b, inputs) \in Reports
  BY DEF Answer, Reports
<1>2. Begun(inputs) \subseteq Motion \union Halts
  BY DEF Begun, Blocks
<1>3. execute' \subseteq Blocks \union {"power"}
  BY DEF CallBlocks
<1>4. out' \in [Blocks -> Reports]
  BY <1>1 DEF CallBlocks, AxisTypeOK, Reports
<1>5. mover' \in Motion \union {"halting", "none"}
  <2>1. CASE Halts \intersect Begun(inputs) # {}
    BY <2>1 DEF CallBlocks
  <2>2. CASE Halts \intersect Begun(inputs) = {} /\ Begun(inputs) # {}
    <3>1. (CHOOSE b \in Begun(inputs) : TRUE) \in Begun(inputs)
      BY <2>2
    <3>2. QED
      BY <1>2, <2>2, <3>1 DEF CallBlocks
  <2>3. CASE Begun(inputs) = {}
    BY <2>3 DEF CallBlocks, AxisTypeOK
  <2>4. QED
    BY <2>1, <2>2, <2>3
<1>6. QED
  BY <1>3, <1>4, <1>5 DEF CallBlocks, AxisTypeOK

\* ... and so does the end of a scan, whichever way the scan got there.
LEMMA EndScanInOrder ==
  ASSUME IInv, NEW s, InOrder(s), NEW enabled \in BOOLEAN, NEW ems \in BOOLEAN,
         EndScan(s, enabled, ems)
  PROVE  /\ AxisTypeOK' /\ InOrder(fb') /\ enable' \in BOOLEAN
         /\ params' \in WriterSteps /\ began' \subseteq MoveBlocks
         /\ own' \in BOOLEAN /\ wrote' \in BOOLEAN /\ resumed' \in BOOLEAN
<1> DEFINE inputs == IF ems THEN s.exec \union {"ems"} ELSE s.exec \ {"ems"}
           calls == (inputs \ {"params"}) \union (IF s.xPowerOn THEN {"power"} ELSE {})
<1>1. inputs \subseteq Blocks \union {"params"}
  BY DEF InOrder, Block, Blocks, Halts
<1>2. calls \in SUBSET (Blocks \union {"power"})
  BY <1>1
<1>3. AxisTypeOK'
  <2>1. CallBlocks(calls)
    BY DEF EndScan
  <2>2. QED
    BY <1>2, <2>1, CallBlocksTyped DEF IInv, AxisCtlTypeOK
<1>4. InOrder(fb')
  <2>1. fb' = [s EXCEPT !.exec = inputs]
    BY DEF EndScan
  <2>2. QED
    BY <1>1, <2>1 DEF InOrder, Block
<1>5. enable' \in BOOLEAN
  BY DEF EndScan
<1>6. params' \in WriterSteps
  <2>1. WriteParams(s) /\ params \in WriterSteps
    BY DEF EndScan, IInv, AxisCtlTypeOK
  <2>2. QED
    BY <2>1 DEF WriteParams, WriterMoves, WriterSteps
<1>7. Remember(s, calls) /\ began \subseteq MoveBlocks /\ resumed \in BOOLEAN
  BY DEF EndScan, IInv, AxisCtlTypeOK
<1> HIDE DEF calls
<1>8. began' \subseteq MoveBlocks
  BY <1>7 DEF Remember
<1>9. own' \in BOOLEAN /\ wrote' \in BOOLEAN
  BY <1>7 DEF Remember
<1>10. resumed' \in BOOLEAN
  BY <1>7, Zenon DEF Remember
<1>11. QED
  BY <1>3, <1>4, <1>5, <1>6, <1>8, <1>9, <1>10

LEMMA EndMainInOrder ==
  ASSUME IInv, NEW s, InOrder(s), NEW ems \in BOOLEAN, EndMain(s, ems)
  PROVE  IInv'
<1>1. EndScan(s, TRUE, ems) /\ request' = {} /\ relHeld' \in BOOLEAN
  BY DEF EndMain
<1>2. QED
  BY <1>1, EndScanInOrder DEF IInv, AxisCtlTypeOK, ErrorIsNotPaused, InOrder

LEMMA EndEarlyInOrder ==
  ASSUME IInv, NEW s, InOrder(s), NEW enabled \in BOOLEAN, NEW ems \in BOOLEAN,
         EndEarly(s, enabled, ems)
  PROVE  IInv'
<1>1. EndScan(s, enabled, ems) /\ UNCHANGED <<request, relHeld>>
  BY DEF EndEarly
<1>2. QED
  BY <1>1, EndScanInOrder DEF IInv, AxisCtlTypeOK, ErrorIsNotPaused, InOrder

\* The first request in the order of priority exists and is one of the list.
LEMMA LeastOfSeven ==
  ASSUME NEW S \in SUBSET (1..7), S # {}
  PROVE  \E i \in S : \A j \in S : i <= j
<1>1. \A j \in S : j \in {1, 2, 3, 4, 5, 6, 7}
  OBVIOUS
<1>2. CASE 1 \in S
  BY <1>1, <1>2
<1>3. CASE 1 \notin S /\ 2 \in S
  BY <1>1, <1>3
<1>4. CASE {1, 2} \intersect S = {} /\ 3 \in S
  BY <1>1, <1>4
<1>5. CASE {1, 2, 3} \intersect S = {} /\ 4 \in S
  BY <1>1, <1>5
<1>6. CASE {1, 2, 3, 4} \intersect S = {} /\ 5 \in S
  BY <1>1, <1>6
<1>7. CASE {1, 2, 3, 4, 5} \intersect S = {} /\ 6 \in S
  BY <1>1, <1>7
<1>8. CASE {1, 2, 3, 4, 5, 6} \intersect S = {}
  <2>1. S = {7}
    <3>1. \A j \in S : j = 7
      BY <1>1, <1>8
    <3>2. PICK k : k \in S
      OBVIOUS
    <3>3. QED
      BY <3>1, <3>2
  <2>2. QED
    BY <2>1
<1>9. QED
  BY <1>2, <1>3, <1>4, <1>5, <1>6, <1>7, <1>8

\* READY goes to a listed step, whatever is requested.
LEMMA DispatchedIsStep ==
  ASSUME NEW s, NEW limits
  PROVE  Dispatched(s, limits) \in Steps
<1> DEFINE Allowed(st) == st \in request \ limits /\ (st = "MOVE_REL" => ~s.reArm)
           wanted == {i \in 1..Len(Priority) : Allowed(Priority[i])}
           least == CHOOSE i \in wanted : \A j \in wanted : i <= j
<1> HIDE DEF Allowed
<1>1. CASE wanted = {}
  BY <1>1, StepsListed DEF Dispatched, Allowed
<1>2. CASE wanted # {}
  <2>1. Len(Priority) = 7
    BY DEF Priority
  <2>2. wanted \subseteq 1..7
    BY <2>1
  <2> HIDE DEF wanted
  <2>3. \E i \in wanted : \A j \in wanted : i <= j
    BY <1>2, <2>2, LeastOfSeven
  <2>4. least \in wanted
    BY <2>3
  <2> USE DEF wanted
  <2>5. QED
    BY <1>2, <2>4, StepsListed DEF Dispatched, Allowed
<1>3. QED
  BY <1>1, <1>2
----------------------------------------------------------------------------
(* One step of the specification.                                          *)

\* Main, the early returns, the drive and the methods, one after the other.
LEMMA InitInv == Init => IInv
<1> SUFFICES ASSUME Init
             PROVE  IInv
  OBVIOUS
<1>1. AxisTypeOK
  BY DEF Init, AxisInit, AxisTypeOK, Reports
<1>2. fb \in Block
  BY StepsListed DEF Init, Block
<1>3. QED
  BY <1>1, <1>2 DEF Init, IInv, AxisCtlTypeOK, WriterSteps, ErrorIsNotPaused

LEMMA MainStepInv ==
  ASSUME IInv, NEW stop \in BOOLEAN, MainStep(stop)
  PROVE  IInv'
<1>1. InOrder(fb) /\ InOrder(Entered) /\ InOrder(Running(stop))
  BY FbInOrder
<1>2. InOrder(PowerOn(Entered)) /\ InOrder(ReadyBlock)
  BY <1>1 DEF InOrder, PowerOn, ReadyBlock, Block
<1>3. \A s : InOrder(s) => InOrder(AskReset(s))
  BY ExecuteInOrder, DropInOrder DEF AskReset, Blocks
<1>4. CASE Idle
  <2>1. InOrder([Entered EXCEPT !.xPowerOn = FALSE, !.done = "none", !.iStep = "ENABLING"])
    BY <1>1, StepsListed DEF InOrder, Block
  <2>2. QED
    BY <1>4, <2>1, EndMainInOrder DEF Idle
<1>5. CASE Enabling
  BY <1>2, <1>5, StepsListed, GotoInOrder, EndMainInOrder DEF Enabling
<1>6. CASE NotReady
  BY <1>2, <1>3, <1>6, StepsListed, GotoInOrder, EndMainInOrder DEF NotReady
<1>7. CASE TryReset
  BY <1>1, <1>3, <1>7, StepsListed, GotoInOrder, EndMainInOrder DEF TryReset
<1>8. ASSUME NEW limits \in SUBSET {"JOG_POS", "JOG_NEG"}, Ready(limits)
      PROVE  IInv'
  BY <1>2, <1>8, DispatchedIsStep, GotoInOrder, EndMainInOrder DEF Ready
<1>9. ASSUME NEW step \in {"JOG_POS", "JOG_NEG"}, NEW limit \in BOOLEAN,
             NEW changed \in BOOLEAN, Jog(step, limit, changed)
      PROVE  IInv'
  <2> DEFINE s == Drop(Entered, "vel")
             asked == IF step \in request THEN s ELSE Goto(s, "STOPPING")
  <2>1. InOrder(s)
    BY <1>1, DropInOrder
  <2>2. InOrder(asked)
    BY <2>1, StepsListed, GotoInOrder
  <2>3. InOrder(RaiseAs(s, TRUE)) /\ InOrder(Raise(asked))
    BY <2>1, <2>2, RaiseInOrder
  <2>4. InOrder(Execute(s, "vel"))
    BY <2>1, ExecuteInOrder DEF Blocks, Motion
  <2> HIDE DEF s, asked
  <2>5. QED
    BY <1>9, <2>1, <2>2, <2>3, <2>4, EndMainInOrder DEF Jog, s, asked
<1>10. ASSUME NEW step \in Moves, Move(step)
       PROVE  IInv'
  <2> DEFINE cleared == ClearAllExecute(Entered)
             arrived == [cleared EXCEPT !.iStep = "STOPPING", !.done = step,
                                        !.reArm = @ \/ step = "MOVE_REL"]
  <2>1. InOrder(cleared)
    BY <1>1, ClearAllExecuteInOrder
  <2>2. InOrder(Raise(cleared)) /\ InOrder(Goto(cleared, "STOPPING"))
    BY <2>1, StepsListed, RaiseInOrder, GotoInOrder
  <2>3. InOrder(arrived)
    <3> HIDE DEF cleared
    <3>1. QED
      BY <2>1, StepsListed DEF InOrder, Block
  <2>4. InOrder(Execute(Entered, BlockOf[step]))
    <3>1. BlockOf[step] \in Blocks
      BY DEF BlockOf, Blocks, Motion, Moves
    <3>2. QED
      BY <1>1, <3>1, ExecuteInOrder
  <2> HIDE DEF arrived
  <2>5. QED
    BY <1>10, <2>2, <2>3, <2>4, EndMainInOrder DEF Move, arrived
<1>11. CASE MoveVelocity
  <2>1. /\ InOrder(Raise(ClearAllExecute(Entered)))
        /\ InOrder(Execute(Entered, "vel"))
        /\ InOrder(Goto(Drop(Entered, "vel"), "STOPPING"))
    BY <1>1, StepsListed, ClearAllExecuteInOrder, RaiseInOrder, ExecuteInOrder, DropInOrder,
       GotoInOrder DEF Blocks, Motion
  <2>2. QED
    BY <1>11, <2>1, EndMainInOrder DEF MoveVelocity
<1>12. CASE HomingWriteParam
  <2>1. /\ InOrder(Goto(Drop(Entered, "params"), "HOMING_EXEC"))
        /\ InOrder(Raise(ClearAllExecute(Entered)))
        /\ InOrder(Execute(Entered, "params"))
        /\ InOrder(Goto(ClearAllExecute(Entered), "STOPPING"))
    <3>1. "HOMING_EXEC" \in Steps
      BY DEF Steps, MotionSteps
    <3>2. QED
      BY <1>1, <3>1, StepsListed, ClearAllExecuteInOrder, RaiseInOrder, ExecuteInOrder,
         DropInOrder, GotoInOrder
  <2>2. QED
    BY <1>12, <2>1, EndMainInOrder DEF HomingWriteParam
<1>13. ASSUME NEW result \in {0, 1, -1}, SetPosition(result)
       PROVE  IInv'
  <2>1. InOrder([Entered EXCEPT !.done = "SET_POSITION", !.iStep = "READY"])
    BY <1>1, StepsListed DEF InOrder, Block
  <2>2. InOrder(Raise(Entered))
    BY <1>1, RaiseInOrder
  <2>3. QED
    BY <1>1, <1>13, <2>1, <2>2, EndMainInOrder DEF SetPosition
<1>14. CASE Stopping(stop)
  <2>1. InOrder(Goto(Execute(Running(stop), "stop"), "WAIT_STOP"))
    BY <1>1, StepsListed, ExecuteInOrder, GotoInOrder DEF Blocks, Halts
  <2>2. QED
    BY <1>14, <2>1, EndMainInOrder DEF Stopping
<1>15. CASE WaitStop(stop)
  <2> DEFINE s == Running(stop)
             dropped == Drop(s, "stop")
             stopped == [dropped EXCEPT !.done = "STOPPING", !.iStep = "READY"]
  <2>1. InOrder(s) /\ InOrder(dropped)
    BY <1>1, DropInOrder
  <2>2. InOrder(Raise(dropped))
    BY <2>1, RaiseInOrder
  <2>3. InOrder(stopped)
    <3> HIDE DEF dropped
    <3>1. QED
      BY <2>1, StepsListed DEF InOrder, Block
  <2> HIDE DEF stopped
  <2>4. QED
    BY <1>15, <2>1, <2>2, <2>3, EndMainInOrder DEF WaitStop, stopped
<1>16. QED
  BY <1>4, <1>5, <1>6, <1>7, <1>8, <1>9, <1>10, <1>11, <1>12, <1>13, <1>14, <1>15 DEF MainStep

LEMMA ScanInv ==
  ASSUME IInv, Scan
  PROVE  IInv'
<1>1. EMS \subseteq BOOLEAN
  BY DEF EMS
<1>2. InOrder(fb) /\ InOrder(Entered) /\ \A stop \in BOOLEAN : InOrder(Running(stop))
  BY FbInOrder
<1>3. ASSUME NEW enabled \in BOOLEAN, NEW stop \in BOOLEAN, NEW ems \in EMS,
             ScanInError(enabled, stop, ems)
      PROVE  IInv'
  BY <1>1, <1>2, <1>3, StopMotionInOrder, EndEarlyInOrder DEF ScanInError
<1>4. ASSUME NEW pause \in BOOLEAN, NEW enabled \in BOOLEAN, NEW ems \in EMS,
             ScanPaused(pause, enabled, ems)
      PROVE  IInv'
  BY <1>1, <1>2, <1>4, PauseInOrder, ResumeInOrder, EndEarlyInOrder DEF ScanPaused
<1>5. ASSUME NEW ems \in EMS, ScanDisabled(ems)
      PROVE  IInv'
  BY <1>1, <1>2, <1>5, StopMotionInOrder, EndEarlyInOrder DEF ScanDisabled
<1>6. ASSUME NEW stop \in BOOLEAN, NEW ems \in EMS, DriverError(stop, ems)
      PROVE  IInv'
  BY <1>1, <1>2, <1>6, ClearAllExecuteInOrder, RaiseInOrder, EndMainInOrder DEF DriverError
<1>7. ASSUME NEW stop \in BOOLEAN, EmergencyScan(stop)
      PROVE  IInv'
  BY <1>2, <1>7, StepsListed, ClearAllExecuteInOrder, DropInOrder, GotoInOrder, EndMainInOrder
  DEF EmergencyScan
<1>8. QED
  BY <1>3, <1>4, <1>5, <1>6, <1>7, MainStepInv DEF Scan

\* Between two scans: the drive moves on.
LEMMA AxisInv ==
  ASSUME IInv, Axis, UNCHANGED ctlVars
  PROVE  IInv'
<1>1. AxisTypeOK
  BY DEF IInv, AxisCtlTypeOK
<1>2. ASSUME NEW bs, NEW r \in Reports, Report(bs, r)
      PROVE  out' \in [Blocks -> Reports]
  BY <1>1, <1>2 DEF Report, AxisTypeOK
<1>3. AxisTypeOK'
  <2>1. {"error", "done"} \subseteq Reports
    BY DEF Reports
  <2>2. CASE PowerFollows
    BY <1>1, <1>2, <2>1, <2>2 DEF PowerFollows, AxisTypeOK
  <2>3. CASE MotionEnds
    BY <1>1, <1>2, <2>1, <2>3 DEF MotionEnds, AxisTypeOK
  <2>4. CASE HaltEnds
    BY <1>1, <1>2, <2>1, <2>4 DEF HaltEnds, AxisTypeOK
  <2>5. CASE AxisFault
    BY <1>1, <1>2, <2>1, <2>5 DEF AxisFault, AxisTypeOK
  <2>6. CASE ResetSucceeds
    BY <1>1, <1>2, <2>1, <2>6 DEF ResetSucceeds, AxisTypeOK
  <2>7. CASE ResetFails
    BY <1>1, <1>2, <2>1, <2>7 DEF ResetFails, AxisTypeOK
  <2>8. QED
    BY <2>2, <2>3, <2>4, <2>5, <2>6, <2>7 DEF Axis
<1>4. QED
  BY <1>3 DEF IInv, AxisCtlTypeOK, ErrorIsNotPaused, ctlVars, history

\* Between two scans: the program calls a method.
LEMMA MethodInv ==
  ASSUME IInv, NEW s, InOrder(s), Method(s)
  PROVE  IInv'
  BY DEF Method, IInv, AxisCtlTypeOK, AxisTypeOK, axisVars, history, ErrorIsNotPaused, InOrder

LEMMA NextInv == IInv /\ [Next]_vars => IInv'
<1> SUFFICES ASSUME IInv, [Next]_vars
             PROVE  IInv'
  OBVIOUS
<1>1. InOrder(fb) /\ enable \in BOOLEAN
  BY FbInOrder
<1>2. CASE Scan
  BY <1>2, ScanInv
<1>3. CASE Axis /\ UNCHANGED ctlVars
  BY <1>3, AxisInv
<1>4. ASSUME NEW c \in Commands, Call(c)
      PROVE  IInv'
  BY <1>4 DEF Call, IInv, AxisCtlTypeOK, AxisTypeOK, axisVars, history, ErrorIsNotPaused
<1>5. CASE CallStop
  BY <1>1, <1>5, StopMotionInOrder, MethodInv DEF CallStop
<1>6. CASE CallReset
  BY <1>1, <1>6, ResetInOrder, MethodInv DEF CallReset
<1>7. CASE CallRaise
  BY <1>1, <1>7, RaiseInOrder, MethodInv DEF CallRaise
<1>8. CASE InterrupMotionCommand
  BY <1>1, <1>8, StepsListed, GotoInOrder, MethodInv DEF InterrupMotionCommand
<1>9. CASE UNCHANGED vars
  BY <1>9 DEF IInv, AxisCtlTypeOK, AxisTypeOK, ErrorIsNotPaused, vars, axisVars, ctlVars, history
<1>10. QED
  BY <1>2, <1>3, <1>4, <1>5, <1>6, <1>7, <1>8, <1>9 DEF Next

----------------------------------------------------------------------------
\* The block and the axis keep their types, for any set of commands: every
\* step the state machine enters is one it has a branch for.
THEOREM AxisTypeCorrect == AxisCtlSpec => []AxisCtlTypeOK
<1>1. IInv => AxisCtlTypeOK
  BY DEF IInv
<1>2. QED
  BY InitInv, NextInv, <1>1, PTL DEF AxisCtlSpec

\* No sequence of errors, pauses, stops and resets, from a scan or from the
\* methods, leaves the block both in error and paused.
THEOREM ErrorExcludesPause == AxisCtlSpec => []ErrorIsNotPaused
<1>1. IInv => ErrorIsNotPaused
  BY DEF IInv
<1>2. QED
  BY InitInv, NextInv, <1>1, PTL DEF AxisCtlSpec
----------------------------------------------------------------------------
(* The order of the steps.  What the block may look like between two scans, *)
(* whichever methods the program calls.                                     *)

StepOf(s) == IF s.xPaused THEN s.iLastStep ELSE s.iStep

\* An error and a pause are left through their own steps or through a stop;
\* MC_Stop has its Execute only while a stop is under way or in error; the
\* step of a command is entered with the power on and no Done shown.
Sound(s) ==
  /\ s.xError => s.iStep \in {"ERROR", "STOPPING"}
  /\ s.xPaused => s.iStep \in {"PAUSE", "STOPPING"}
  /\ "stop" \in s.exec => s.xError \/ StepOf(s) \in {"STOPPING", "WAIT_STOP"}
  /\ StepOf(s) \in MotionSteps => s.done = "none" /\ s.xPowerOn

\* The blocks were called with every Execute that is still set, and a relative
\* move that is held has locked itself.
Tracked ==
  /\ fb.exec \intersect Motion \subseteq execute
  /\ relHeld => fb.reArm

CtlInv == Sound(fb) /\ Tracked

\* Without InterrupMotionCommand: only the block of the current step has its
\* Execute, and the parameter writer only in its own step.
Tidy(s) ==
  /\ s.xError => \E b \in Motion : s.exec \intersect Motion \subseteq {b}
  /\ ~s.xError =>
       /\ s.exec \intersect Motion \subseteq
            IF StepOf(s) \in DOMAIN BlockOf THEN {BlockOf[StepOf(s)]} ELSE {}
       /\ "params" \in s.exec => StepOf(s) = "HOMING_WRITE_PARAM"

\* The writer sends the values of this homing, or of the one it resumed.
Sourced == own \/ resumed

\* From the first scan of a homing on, a writer that is past the taking of its
\* values took them for this homing or was found with others, and one that
\* reports its parameters written wrote them during this homing.
HomingIsWritten ==
  /\ Step = "HOMING_EXEC" => wrote /\ Sourced
  /\ "home" \in fb.exec => wrote /\ Sourced
  /\ Step = "HOMING_WRITE_PARAM" /\ params = "writing" => Sourced
  /\ Step = "HOMING_WRITE_PARAM" /\ params \in {"written", "done"} => wrote /\ Sourced

\* The axis has begun a move for the command dispatched last if its block is
\* busy or done, or if its Done is shown.
Earned ==
  /\ \A st \in Moves : out[BlockOf[st]] \in {"busy", "done"} => BlockOf[st] \in began
  /\ fb.done \in Moves => BlockOf[fb.done] \in began

TidyInv == Tidy(fb) /\ HomingIsWritten /\ Earned

----------------------------------------------------------------------------
(* The operators on the block.                                             *)

\* The step names, one by one.
LEMMA MotionStepsListed ==
  MotionSteps = {"MOVE_ABS", "MOVE_REL", "MOVE_VEL", "JOG_POS", "JOG_NEG",
                 "HOMING_WRITE_PARAM", "SET_POSITION", "HOMING_EXEC"}
<1>1. /\ Len(Priority) = 7
      /\ Priority[1] = "MOVE_ABS" /\ Priority[2] = "MOVE_REL" /\ Priority[3] = "MOVE_VEL"
      /\ Priority[4] = "JOG_POS" /\ Priority[5] = "JOG_NEG"
      /\ Priority[6] = "HOMING_WRITE_PARAM" /\ Priority[7] = "SET_POSITION"
  BY DEF Priority
<1>2. 1..Len(Priority) = {1, 2, 3, 4, 5, 6, 7}
  BY <1>1
<1>3. QED
  BY <1>1, <1>2 DEF MotionSteps

\* The motion block of each step that has one.
LEMMA BlockOfListed ==
  /\ DOMAIN BlockOf = {"MOVE_ABS", "MOVE_REL", "HOMING_EXEC", "MOVE_VEL", "JOG_POS", "JOG_NEG"}
  /\ BlockOf["MOVE_ABS"] = "abs" /\ BlockOf["MOVE_REL"] = "rel"
  /\ BlockOf["HOMING_EXEC"] = "home" /\ BlockOf["MOVE_VEL"] = "vel"
  /\ BlockOf["JOG_POS"] = "vel" /\ BlockOf["JOG_NEG"] = "vel"
  BY DEF BlockOf

\* s is t with some Execute withdrawn and no step of a command entered.
Withdraws(t, s) ==
  /\ s.exec \subseteq t.exec
  /\ s.done = t.done /\ s.reArm = t.reArm
  /\ StepOf(s) \in MotionSteps => StepOf(s) = StepOf(t)

LEMMA WithdrawsTransitive ==
  ASSUME NEW r, NEW s, NEW t, Withdraws(r, s), Withdraws(s, t)
  PROVE  Withdraws(r, t)
  BY DEF Withdraws

\* A sound block stays sound, and a tidy one tidy, under what takes a command
\* back or suspends it.
Steady(t, s) == InOrder(s) /\ Sound(s) /\ Withdraws(t, s) /\ (Tidy(t) => Tidy(s))

LEMMA SteadyTransitive ==
  ASSUME NEW r, NEW s, NEW t, Steady(r, s), Steady(s, t)
  PROVE  Steady(r, t)
  BY WithdrawsTransitive DEF Steady

LEMMA ClearAllExecuteSteady ==
  ASSUME NEW s, InOrder(s), Sound(s)
  PROVE  Steady(s, ClearAllExecute(s)) /\ ClearAllExecute(s).exec \intersect (Motion \union {"params"}) = {}
<1>1. InOrder(ClearAllExecute(s))
  BY ClearAllExecuteInOrder
<1>2. Sound(ClearAllExecute(s)) /\ Withdraws(s, ClearAllExecute(s))
  BY DEF Sound, Withdraws, ClearAllExecute, StepOf, InOrder, Block
<1>3. ClearAllExecute(s).exec \intersect (Motion \union {"params"}) = {}
  BY DEF ClearAllExecute, InOrder, Block
<1>4. Tidy(ClearAllExecute(s))
  <2>1. "abs" \in Motion
    BY DEF Motion
  <2>2. QED
    BY <1>3, <2>1 DEF Tidy
<1>5. QED
  BY <1>1, <1>2, <1>3, <1>4 DEF Steady

\* A block with no Execute of a command is tidy in every step.
LEMMA IdleIsTidy ==
  ASSUME NEW s, s.exec \intersect (Motion \union {"params"}) = {}
  PROVE  Tidy(s)
<1>1. "abs" \in Motion
  BY DEF Motion
<1>2. QED
  BY <1>1 DEF Tidy

LEMMA DropSteady ==
  ASSUME NEW s, InOrder(s), Sound(s), NEW b
  PROVE  Steady(s, Drop(s, b))
<1>1. InOrder(Drop(s, b))
  BY DropInOrder
<1>2. Sound(Drop(s, b)) /\ Withdraws(s, Drop(s, b))
  BY DEF Sound, Withdraws, Drop, StepOf, InOrder, Block
<1>3. Tidy(s) => Tidy(Drop(s, b))
  BY DEF Tidy, Drop, StepOf, InOrder, Block
<1>4. QED
  BY <1>1, <1>2, <1>3 DEF Steady

\* Stopping is sound from every step, and tidy once the commands are cleared.
LEMMA StoppingSteady ==
  ASSUME NEW s, InOrder(s), Sound(s)
  PROVE  /\ InOrder(Goto(s, "STOPPING")) /\ Sound(Goto(s, "STOPPING"))
         /\ Withdraws(s, Goto(s, "STOPPING"))
<1>1. InOrder(Goto(s, "STOPPING"))
  BY StepsListed, GotoInOrder
<1>2. Sound(Goto(s, "STOPPING")) /\ Withdraws(s, Goto(s, "STOPPING"))
  BY MotionStepsListed DEF Sound, Withdraws, Goto, StepOf, InOrder, Block
<1>3. QED
  BY <1>1, <1>2

LEMMA ClearAndStopSteady ==
  ASSUME NEW s, InOrder(s), Sound(s)
  PROVE  Steady(s, Goto(ClearAllExecute(s), "STOPPING"))
<1> DEFINE c == ClearAllExecute(s)
<1>1. Steady(s, c) /\ c.exec \intersect (Motion \union {"params"}) = {}
  BY ClearAllExecuteSteady
<1> HIDE DEF c
<1>2. InOrder(Goto(c, "STOPPING")) /\ Sound(Goto(c, "STOPPING")) /\ Withdraws(c, Goto(c, "STOPPING"))
  BY <1>1, StoppingSteady DEF Steady
<1>3. Goto(c, "STOPPING").exec = c.exec
  BY <1>1 DEF Goto, Steady, InOrder, Block
<1>4. Tidy(Goto(c, "STOPPING"))
  BY <1>1, <1>3, IdleIsTidy
<1>5. QED
  BY <1>1, <1>2, <1>4, WithdrawsTransitive DEF Steady, c

\* A jog or a velocity move that is no longer asked for drops its only block.
LEMMA DropAndStopSteady ==
  ASSUME NEW t, InOrder(t), Sound(t), ~t.xError, ~t.xPaused,
         t.iStep \in {"MOVE_VEL", "JOG_POS", "JOG_NEG"}
  PROVE  Steady(t, Goto(Drop(t, "vel"), "STOPPING"))
<1> DEFINE d == Drop(t, "vel")
<1>1. Steady(t, d) /\ d.exec = t.exec \ {"vel"}
  BY DropSteady DEF Drop, InOrder, Block
<1> HIDE DEF d
<1>2. /\ InOrder(Goto(d, "STOPPING")) /\ Sound(Goto(d, "STOPPING"))
      /\ Withdraws(t, Goto(d, "STOPPING"))
  BY <1>1, StoppingSteady, WithdrawsTransitive DEF Steady
<1>3. ASSUME Tidy(t)
      PROVE  Tidy(Goto(d, "STOPPING"))
  <2>1. StepOf(t) = t.iStep
    BY DEF StepOf
  <2>2. t.exec \intersect Motion \subseteq {"vel"} /\ "params" \notin t.exec
    BY <1>3, <2>1, BlockOfListed DEF Tidy
  <2>3. Goto(d, "STOPPING").exec = d.exec
    BY <1>1 DEF Goto, Steady, InOrder, Block
  <2>4. QED
    BY <1>1, <2>2, <2>3, IdleIsTidy
<1>4. QED
  BY <1>2, <1>3 DEF Steady, d

LEMMA RaiseSteady ==
  ASSUME NEW s, InOrder(s), Sound(s), NEW trip \in BOOLEAN
  PROVE  Steady(s, RaiseAs(s, trip))
<1> DEFINE e == RaiseAs(s, trip)
<1>1. InOrder(e)
  BY DEF InOrder, RaiseAs, Block, BaseSteps
<1>2. Sound(e) /\ Withdraws(s, e)
  BY MotionStepsListed DEF Sound, Withdraws, RaiseAs, StepOf, InOrder, Block
<1>3. Tidy(s) => Tidy(e)
  <2>1. CASE s.xError \/ s.xPaused
    BY <2>1 DEF RaiseAs
  <2>2. CASE ~s.xError /\ ~s.xPaused
    <3>1. e.xError /\ e.exec = s.exec
      BY <2>2 DEF RaiseAs, InOrder, Block
    <3>2. ASSUME Tidy(s)
          PROVE  \E b \in Motion : s.exec \intersect Motion \subseteq {b}
      <4>1. s.exec \intersect Motion \subseteq
              IF StepOf(s) \in DOMAIN BlockOf THEN {BlockOf[StepOf(s)]} ELSE {}
        BY <2>2, <3>2 DEF Tidy
      <4>2. CASE StepOf(s) \in DOMAIN BlockOf
        <5>1. BlockOf[StepOf(s)] \in Motion
          BY <4>2, BlockOfListed DEF Motion
        <5>2. QED
          BY <4>1, <4>2, <5>1
      <4>3. CASE StepOf(s) \notin DOMAIN BlockOf
        <5>1. "abs" \in Motion
          BY DEF Motion
        <5>2. QED
          BY <4>1, <4>3, <5>1
      <4>4. QED
        BY <4>2, <4>3
    <3>3. QED
      BY <3>1, <3>2 DEF Tidy
  <2>3. QED
    BY <2>1, <2>2
<1>4. QED
  BY <1>1, <1>2, <1>3 DEF Steady

LEMMA PauseSteady ==
  ASSUME NEW s, InOrder(s), Sound(s)
  PROVE  Steady(s, Pause(s)) /\ (s.xPaused => Steady(s, Resume(s)))
<1>1. InOrder(Pause(s)) /\ InOrder(Resume(s))
  BY PauseInOrder, ResumeInOrder
<1>2. Sound(Pause(s)) /\ Withdraws(s, Pause(s))
  BY DEF Sound, Withdraws, Pause, StepOf, InOrder, Block
<1>3. Tidy(s) => Tidy(Pause(s))
  BY DEF Tidy, Pause, StepOf, InOrder, Block
<1>4. ASSUME s.xPaused
      PROVE  Sound(Resume(s)) /\ Withdraws(s, Resume(s))
  BY <1>4 DEF Sound, Withdraws, Resume, StepOf, InOrder, Block
<1>5. ASSUME s.xPaused
      PROVE  Tidy(s) => Tidy(Resume(s))
  BY <1>5 DEF Tidy, Resume, StepOf, InOrder, Block
<1>6. QED
  BY <1>1, <1>2, <1>3, <1>4, <1>5 DEF Steady

LEMMA SelfSteady ==
  ASSUME NEW s, InOrder(s), Sound(s)
  PROVE  Steady(s, s)
  BY DEF Steady, Withdraws

LEMMA StopMotionSteady ==
  ASSUME NEW s, InOrder(s), Sound(s), NEW enabled \in BOOLEAN
  PROVE  Steady(s, StopMotion(s, enabled))
<1>1. CASE ~enabled
  <2> DEFINE c == Drop(ClearAllExecute(s), "stop")
             off == [c EXCEPT !.xPowerOn = FALSE, !.iStep = "IDLE", !.iLastStep = "IDLE",
                              !.xError = FALSE, !.limitTrip = FALSE, !.xPaused = FALSE]
  <2>1. InOrder(StopMotion(s, enabled)) /\ StopMotion(s, enabled) = off
    BY <1>1, StopMotionInOrder DEF StopMotion
  <2>2. /\ c \in Block
        /\ c.exec \subseteq s.exec /\ c.exec \intersect (Motion \union {"params", "stop"}) = {}
        /\ c.done = s.done /\ c.reArm = s.reArm
    BY DEF Drop, ClearAllExecute, InOrder, Block
  <2> HIDE DEF c
  <2>3. /\ off.exec = c.exec /\ off.done = c.done /\ off.reArm = c.reArm
        /\ off.iStep = "IDLE" /\ off.xError = FALSE /\ off.xPaused = FALSE
    BY <2>2 DEF Block
  <2> HIDE DEF off
  <2>4. StepOf(off) = "IDLE"
    BY <2>3 DEF StepOf
  <2>5. Sound(off) /\ Withdraws(s, off)
    BY <2>2, <2>3, <2>4, MotionStepsListed DEF Sound, Withdraws
  <2>6. Tidy(off)
    BY <2>2, <2>3, IdleIsTidy
  <2>7. QED
    BY <2>1, <2>5, <2>6 DEF Steady
<1>2. CASE enabled /\ s.iStep \in {"STOPPING", "WAIT_STOP"}
  BY <1>2, SelfSteady DEF StopMotion
<1>3. CASE enabled /\ s.iStep \notin {"STOPPING", "WAIT_STOP"}
  BY <1>3, ClearAndStopSteady DEF StopMotion
<1>4. QED
  BY <1>1, <1>2, <1>3

LEMMA ResetSteady ==
  ASSUME NEW s, InOrder(s), Sound(s)
  PROVE  Steady(s, Reset(s)) /\ ~Reset(s).xError
<1>1. CASE ~s.xError
  BY <1>1, SelfSteady DEF Reset
<1>2. CASE s.xError
  <2> DEFINE c == ClearAllExecute(s)
             r == [c EXCEPT !.exec = @ \ {"stop", "reset"}, !.iStep = "TRY_RESET",
                            !.xError = FALSE, !.limitTrip = FALSE]
  <2>1. InOrder(Reset(s)) /\ Reset(s) = r
    BY <1>2, ResetInOrder DEF Reset
  <2>2. /\ c \in Block /\ c.exec \subseteq s.exec
        /\ c.exec \intersect (Motion \union {"params"}) = {}
        /\ c.done = s.done /\ c.reArm = s.reArm /\ ~c.xPaused
    BY <1>2 DEF ClearAllExecute, InOrder, Block
  <2> HIDE DEF c
  <2>3. /\ r.exec = c.exec \ {"stop", "reset"} /\ r.done = c.done /\ r.reArm = c.reArm
        /\ r.iStep = "TRY_RESET" /\ r.xError = FALSE /\ r.xPaused = c.xPaused
    BY <2>2 DEF Block
  <2> HIDE DEF r
  <2>4. StepOf(r) = "TRY_RESET"
    BY <2>2, <2>3 DEF StepOf
  <2>5. Sound(r) /\ Withdraws(s, r)
    BY <2>2, <2>3, <2>4, MotionStepsListed DEF Sound, Withdraws
  <2>6. Tidy(r)
    BY <2>2, <2>3, IdleIsTidy
  <2>7. QED
    BY <2>1, <2>3, <2>5, <2>6 DEF Steady
<1>3. QED
  BY <1>1, <1>2
----------------------------------------------------------------------------
(* A scan that runs Main: from the block t it finds to the block s with     *)
(* which it ends.                                                           *)

\* The block may start a motion block in this scan.
Free(s) == ~s.xError /\ ~s.xPaused /\ s.xPowerOn /\ "stop" \notin s.exec

\* What every branch of Main does.  It starts a motion block only in the step
\* of a command and when it is free to; it shows the Done of a move only when
\* its block is done; it keeps the lock of a relative move that is still requested, and
\* a Done of that move is locked; a homing goes from READY through the writing
\* of its parameters to the move, and only once the writer is done; READY
\* enters MOVE_REL only unlocked.
Body(t, s) ==
  /\ InOrder(s) /\ Sound(s)
  /\ Tidy(t) => Tidy(s)
  /\ s.exec \intersect Motion \subseteq t.exec \/ (Free(s) /\ StepOf(s) = StepOf(t))
  /\ s.done \in Moves => s.done = t.done \/ out[BlockOf[s.done]] = "done"
  /\ "MOVE_REL" \in request /\ t.reArm => s.reArm
  /\ s.done = "MOVE_REL" => t.done = "MOVE_REL" \/ s.reArm
  /\ StepOf(s) = "HOMING_EXEC" =>
       StepOf(t) = "HOMING_EXEC" \/ (StepOf(t) = "HOMING_WRITE_PARAM" /\ params = "done")
  /\ "home" \in s.exec => "home" \in t.exec \/ StepOf(t) = "HOMING_EXEC"
  /\ StepOf(s) = "HOMING_WRITE_PARAM" =>
       \/ StepOf(t) = "HOMING_WRITE_PARAM"
       \/ /\ s.iStep = "HOMING_WRITE_PARAM" /\ s.exec = t.exec
          /\ StepOf(t) = "READY" /\ t.iStep = "READY"
  /\ StepOf(s) = "MOVE_REL" =>
       StepOf(t) = "MOVE_REL" \/ (~t.reArm /\ s.done = "none")

\* What Main starts from: the block of the last scan, reset or stopped first,
\* neither of which leads to READY.
Source(t) ==
  /\ Steady(fb, t) /\ ~t.xError /\ ~t.xPaused
  /\ t.iStep = "READY" => fb.iStep = "READY"

LEMMA SteadyBody ==
  ASSUME NEW s, NEW t, Steady(t, s)
  PROVE  Body(t, s)
<1>1. InOrder(s) /\ Sound(s) /\ (Tidy(t) => Tidy(s))
  BY DEF Steady
<1>2. /\ s.exec \subseteq t.exec /\ s.done = t.done /\ s.reArm = t.reArm
      /\ StepOf(s) \in MotionSteps => StepOf(s) = StepOf(t)
  BY DEF Steady, Withdraws
<1>3. QED
  BY <1>1, <1>2, MotionStepsListed DEF Body

\* A scan that reaches Main starts it from the block of the last scan, reset or
\* stopped and not paused.
LEMMA SourceFacts ==
  ASSUME IInv, Sound(fb), ~Entered.xPaused, NEW stop \in BOOLEAN
  PROVE  Source(Entered) /\ Source(Running(stop))
<1>1. InOrder(fb)
  BY FbInOrder
<1>2. Source(Entered)
  <2>1. Steady(fb, Entered) /\ ~Entered.xError
    BY <1>1, ResetSteady DEF Entered
  <2>2. Entered.iStep = "READY" => fb.iStep = "READY"
    BY <1>1 DEF Entered, Reset, ClearAllExecute, InOrder, Block
  <2>3. QED
    BY <2>1, <2>2 DEF Source
<1>3. CASE stop
  <2>1. Steady(Entered, StopMotion(Entered, TRUE))
    BY <1>2, StopMotionSteady DEF Source, Steady
  <2>2. ~StopMotion(Entered, TRUE).xError /\ ~StopMotion(Entered, TRUE).xPaused
    BY <1>2 DEF Source, Steady, StopMotion, Goto, ClearAllExecute, InOrder, Block
  <2>3. StopMotion(Entered, TRUE).iStep = "READY" => Entered.iStep = "READY"
    BY <1>2 DEF Source, Steady, StopMotion, Goto, ClearAllExecute, InOrder, Block
  <2>4. QED
    BY <1>2, <1>3, <2>1, <2>2, <2>3, SteadyTransitive DEF Source, Running
<1>4. CASE ~stop
  BY <1>2, <1>4 DEF Running
<1>5. QED
  BY <1>2, <1>3, <1>4

\* IDLE clears the Done and goes on with the power still off.
LEMMA IdleBody ==
  ASSUME NEW t, Source(t), t.iStep = "IDLE"
  PROVE  Body(t, [t EXCEPT !.xPowerOn = FALSE, !.done = "none", !.iStep = "ENABLING"])
<1> DEFINE s == [t EXCEPT !.xPowerOn = FALSE, !.done = "none", !.iStep = "ENABLING"]
<1>1. InOrder(t) /\ Sound(t) /\ ~t.xError /\ ~t.xPaused
  BY DEF Source, Steady
<1>2. InOrder(s)
  BY <1>1, StepsListed DEF InOrder, Block
<1>3. /\ s.iStep = "ENABLING" /\ s.done = "none" /\ s.exec = t.exec /\ s.reArm = t.reArm
      /\ s.xError = t.xError /\ s.xPaused = t.xPaused
  BY <1>1 DEF InOrder, Block
<1> HIDE DEF s
<1>4. StepOf(s) = "ENABLING" /\ StepOf(t) = "IDLE"
  BY <1>1, <1>3 DEF StepOf
<1>5. Sound(s)
  BY <1>1, <1>3, <1>4, MotionStepsListed DEF Sound
<1>6. Tidy(t) => Tidy(s)
  BY <1>1, <1>3, <1>4, BlockOfListed DEF Tidy
<1>7. QED
  BY <1>2, <1>3, <1>4, <1>5, <1>6 DEF Body, Moves, s

\* The steps that wait for the drive only move to other steps without motion.
LEMMA WaitingBody ==
  ASSUME NEW t, Source(t), t.iStep \in {"ENABLING", "NOT_READY", "TRY_RESET"},
         NEW s, InOrder(s), ~s.xError, ~s.xPaused,
         s.iStep \in {"ENABLING", "NOT_READY", "TRY_RESET", "READY"},
         s.done = t.done, s.reArm = t.reArm,
         s.exec \intersect (Motion \union {"params", "stop"}) \subseteq t.exec
  PROVE  Body(t, s)
<1>1. InOrder(t) /\ Sound(t) /\ ~t.xError /\ ~t.xPaused
  BY DEF Source, Steady
<1>2. /\ StepOf(s) \in {"ENABLING", "NOT_READY", "TRY_RESET", "READY"}
      /\ StepOf(t) \in {"ENABLING", "NOT_READY", "TRY_RESET"}
  BY <1>1 DEF StepOf
<1>3. Sound(s)
  BY <1>1, <1>2, MotionStepsListed DEF Sound
<1>4. Tidy(t) => Tidy(s)
  BY <1>1, <1>2, BlockOfListed DEF Tidy
<1>5. "home" \in Motion
  BY DEF Motion
<1>6. QED
  BY <1>2, <1>3, <1>4, <1>5 DEF Body

\* The step of a command starts its own block, with the power on.
LEMMA ExecuteBody ==
  ASSUME NEW t, Source(t), t.iStep \in DOMAIN BlockOf, NEW s, InOrder(s),
         s.iStep = t.iStep, ~s.xError, ~s.xPaused, s.xPowerOn = t.xPowerOn,
         s.done = t.done, s.reArm = t.reArm,
         s.exec \subseteq t.exec \union {BlockOf[t.iStep]}
  PROVE  Body(t, s)
<1>1. InOrder(t) /\ Sound(t) /\ ~t.xError /\ ~t.xPaused
  BY DEF Source, Steady
<1>2. StepOf(s) = t.iStep /\ StepOf(t) = t.iStep /\ t.iStep \in MotionSteps
  BY <1>1, BlockOfListed, MotionStepsListed DEF StepOf
<1>3. "stop" \notin t.exec /\ t.xPowerOn /\ t.done = "none"
  BY <1>1, <1>2, MotionStepsListed DEF Sound
<1>4. BlockOf[t.iStep] \in Motion /\ BlockOf[t.iStep] # "stop" /\ BlockOf[t.iStep] # "params"
  BY BlockOfListed DEF Motion
<1>5. Sound(s) /\ Free(s)
  BY <1>1, <1>2, <1>3, <1>4 DEF Sound, Free
<1>6. Tidy(t) => Tidy(s)
  BY <1>1, <1>2, <1>4 DEF Tidy
<1>7. "home" \in s.exec => "home" \in t.exec \/ StepOf(t) = "HOMING_EXEC"
  BY <1>2, BlockOfListed
<1>8. QED
  BY <1>2, <1>3, <1>5, <1>6, <1>7 DEF Body

\* READY enters a requested command, and MOVE_REL only unlocked.
LEMMA DispatchedIsRequested ==
  ASSUME NEW s, NEW limits
  PROVE  \/ Dispatched(s, limits) = "READY"
         \/ /\ Dispatched(s, limits) \in MotionSteps \ {"HOMING_EXEC"}
            /\ Dispatched(s, limits) \in request
            /\ Dispatched(s, limits) = "MOVE_REL" => ~s.reArm
<1> DEFINE Allowed(st) == st \in request \ limits /\ (st = "MOVE_REL" => ~s.reArm)
           wanted == {i \in 1..Len(Priority) : Allowed(Priority[i])}
           least == CHOOSE i \in wanted : \A j \in wanted : i <= j
<1> HIDE DEF Allowed
<1>1. CASE wanted = {}
  BY <1>1 DEF Dispatched, Allowed
<1>2. CASE wanted # {}
  <2>1. Len(Priority) = 7
    BY DEF Priority
  <2>2. wanted \subseteq 1..7
    BY <2>1
  <2> HIDE DEF wanted
  <2>3. \E i \in wanted : \A j \in wanted : i <= j
    BY <1>2, <2>2, LeastOfSeven
  <2>4. least \in wanted
    BY <2>3
  <2> USE DEF wanted
  <2>5. Dispatched(s, limits) = Priority[least]
    BY <1>2 DEF Dispatched, Allowed
  <2>6. least \in 1..7 /\ Allowed(Priority[least])
    BY <2>1, <2>4
  <2> HIDE DEF least, wanted
  <2>7. Priority[least] \in MotionSteps \ {"HOMING_EXEC"}
    BY <2>6, MotionStepsListed DEF Priority
  <2>8. QED
    BY <2>5, <2>6, <2>7 DEF Allowed
<1>3. QED
  BY <1>1, <1>2

LEMMA ReadyDispatches ==
  ASSUME Source(Entered), Entered.iStep = "READY", NEW limits
  PROVE  Body(Entered, Goto(ReadyBlock, Dispatched(ReadyBlock, limits)))
<1> DEFINE t == Entered
           r == ReadyBlock
           st == Dispatched(r, limits)
           s == Goto(r, st)
<1>1. InOrder(t) /\ Sound(t) /\ ~t.xError /\ ~t.xPaused
  BY DEF Source, Steady
<1>2. /\ InOrder(r) /\ r.xPowerOn = TRUE /\ r.done = "none" /\ r.exec = t.exec
      /\ r.reArm = (t.reArm /\ "MOVE_REL" \in request)
      /\ r.xError = t.xError /\ r.xPaused = t.xPaused
  BY <1>1 DEF InOrder, PowerOn, ReadyBlock, Block
<1>3. st = "READY" \/ (/\ st \in MotionSteps \ {"HOMING_EXEC"} /\ st \in request
                       /\ st = "MOVE_REL" => ~r.reArm)
  BY DispatchedIsRequested
<1>4. InOrder(s)
  BY <1>2, DispatchedIsStep, GotoInOrder
<1> HIDE DEF t, r, st
<1>5. /\ s.iStep = st /\ s.xPowerOn = TRUE /\ s.done = "none" /\ s.exec = t.exec
      /\ s.reArm = r.reArm /\ ~s.xError /\ ~s.xPaused
  BY <1>1, <1>2 DEF InOrder, Goto, Block
<1> HIDE DEF s
<1>6. StepOf(s) = st /\ StepOf(t) = "READY"
  BY <1>1, <1>5 DEF StepOf, t
<1>7. t.exec \intersect Motion = {} \/ ~Tidy(t)
  BY <1>1, <1>6, BlockOfListed DEF Tidy
<1>8. Sound(s)
  BY <1>1, <1>5, <1>6, MotionStepsListed DEF Sound
<1>9. Tidy(t) => Tidy(s)
  <2>1. Tidy(t) => "params" \notin t.exec
    BY <1>1, <1>6 DEF Tidy
  <2>2. QED
    BY <1>5, <1>7, <2>1, IdleIsTidy
<1>10. st = "MOVE_REL" => ~t.reArm
  BY <1>2, <1>3
<1>11. st # "HOMING_EXEC"
  BY <1>3
<1>12. s.done \notin Moves
  BY <1>5 DEF Moves
<1>13. QED
  BY <1>2, <1>4, <1>5, <1>6, <1>8, <1>9, <1>10, <1>11, <1>12 DEF Body, s, r, st, t

\* A move that arrived locks itself if it is relative, and stops.
LEMMA ArrivedBody ==
  ASSUME NEW t, Source(t), NEW step \in Moves, out[BlockOf[step]] = "done"
  PROVE  Body(t, [ClearAllExecute(t) EXCEPT !.iStep = "STOPPING", !.done = step,
                                            !.reArm = @ \/ step = "MOVE_REL"])
<1> DEFINE c == ClearAllExecute(t)
           s == [c EXCEPT !.iStep = "STOPPING", !.done = step, !.reArm = @ \/ step = "MOVE_REL"]
<1>1. InOrder(t) /\ Sound(t) /\ ~t.xError /\ ~t.xPaused
  BY DEF Source, Steady
<1>2. /\ c \in Block /\ ~c.xError /\ ~c.xPaused /\ c.reArm = t.reArm
      /\ c.exec \subseteq t.exec /\ c.exec \intersect (Motion \union {"params"}) = {}
  BY <1>1 DEF ClearAllExecute, InOrder, Block
<1> HIDE DEF c
<1>3. s \in Block
  BY <1>2, StepsListed DEF Block
<1>4. /\ s.exec = c.exec /\ s.iStep = "STOPPING" /\ s.done = step
      /\ ~s.xError /\ ~s.xPaused
  BY <1>2 DEF Block
<1>5. s.reArm = (c.reArm \/ step = "MOVE_REL")
  BY <1>2 DEF Block
<1> HIDE DEF s
<1>6. StepOf(s) = "STOPPING"
  BY <1>4 DEF StepOf
<1>7. Sound(s)
  BY <1>4, <1>6, MotionStepsListed DEF Sound
<1>8. Tidy(s)
  BY <1>2, <1>4, IdleIsTidy
<1>9. s.exec \subseteq t.exec /\ (t.reArm => s.reArm) /\ (s.done = "MOVE_REL" => s.reArm)
  BY <1>2, <1>4, <1>5
<1>10. QED
  BY <1>3, <1>4, <1>6, <1>7, <1>8, <1>9 DEF Body, InOrder, s, c

\* The parameters are written: the homing goes on to its move.
LEMMA WrittenBody ==
  ASSUME NEW t, Source(t), t.iStep = "HOMING_WRITE_PARAM", params = "done"
  PROVE  Body(t, Goto(Drop(t, "params"), "HOMING_EXEC"))
<1> DEFINE s == Goto(Drop(t, "params"), "HOMING_EXEC")
<1>1. InOrder(t) /\ Sound(t) /\ ~t.xError /\ ~t.xPaused
  BY DEF Source, Steady
<1>2. "HOMING_EXEC" \in Steps
  BY DEF Steps, MotionSteps
<1>3. InOrder(s)
  BY <1>1, <1>2, DropInOrder, GotoInOrder
<1>4. /\ s.exec = t.exec \ {"params"} /\ s.iStep = "HOMING_EXEC" /\ s.done = t.done
      /\ s.reArm = t.reArm /\ s.xPowerOn = t.xPowerOn /\ ~s.xError /\ ~s.xPaused
  BY <1>1 DEF Goto, Drop, InOrder, Block
<1> HIDE DEF s
<1>5. StepOf(t) = "HOMING_WRITE_PARAM" /\ StepOf(s) = "HOMING_EXEC"
  BY <1>1, <1>4 DEF StepOf
<1>6. Sound(s)
  BY <1>1, <1>4, <1>5, MotionStepsListed DEF Sound
<1>7. Tidy(t) => Tidy(s)
  <2>1. Tidy(t) => t.exec \intersect Motion = {}
    BY <1>1, <1>5, BlockOfListed DEF Tidy
  <2>2. "params" \notin s.exec
    BY <1>4
  <2>3. s.exec \subseteq t.exec
    BY <1>4
  <2>4. QED
    BY <2>1, <2>2, <2>3, IdleIsTidy
<1>8. QED
  BY <1>3, <1>4, <1>5, <1>6, <1>7 DEF Body, s

\* The writer gets its Execute.
LEMMA WritingBody ==
  ASSUME NEW t, Source(t), t.iStep = "HOMING_WRITE_PARAM"
  PROVE  Body(t, Execute(t, "params"))
<1> DEFINE s == Execute(t, "params")
<1>1. InOrder(t) /\ Sound(t) /\ ~t.xError /\ ~t.xPaused
  BY DEF Source, Steady
<1>2. InOrder(s)
  BY <1>1, ExecuteInOrder
<1>3. /\ s.exec = t.exec \union {"params"} /\ s.iStep = t.iStep /\ s.done = t.done
      /\ s.reArm = t.reArm /\ s.xPowerOn = t.xPowerOn /\ ~s.xError /\ ~s.xPaused
  BY <1>1 DEF Execute, InOrder, Block
<1> HIDE DEF s
<1>4. StepOf(t) = "HOMING_WRITE_PARAM" /\ StepOf(s) = "HOMING_WRITE_PARAM"
  BY <1>1, <1>3 DEF StepOf
<1>5. Sound(s)
  BY <1>1, <1>3, <1>4, MotionStepsListed DEF Sound
<1>6. "params" \notin Motion
  BY DEF Motion
<1>7. Tidy(t) => Tidy(s)
  BY <1>1, <1>3, <1>4, <1>6, BlockOfListed DEF Tidy
<1>8. QED
  BY <1>2, <1>3, <1>4, <1>5, <1>6, <1>7 DEF Body, s

\* A step that is over goes to READY with its Done: nothing is left to start.
LEMMA OverBody ==
  ASSUME NEW t, Source(t), t.iStep \in {"SET_POSITION", "WAIT_STOP"},
         NEW s, InOrder(s), s.iStep = "READY", ~s.xError, ~s.xPaused,
         s.done \in {"SET_POSITION", "STOPPING"}, s.reArm = t.reArm,
         s.exec \subseteq t.exec, t.iStep = "WAIT_STOP" => "stop" \notin s.exec
  PROVE  Body(t, s)
<1>1. InOrder(t) /\ Sound(t) /\ ~t.xError /\ ~t.xPaused
  BY DEF Source, Steady
<1>2. StepOf(t) = t.iStep /\ StepOf(s) = "READY"
  BY <1>1 DEF StepOf
<1>3. Sound(s)
  BY <1>1, <1>2, MotionStepsListed DEF Sound
<1>4. Tidy(t) => Tidy(s)
  <2>1. Tidy(t) => t.exec \intersect Motion = {} /\ "params" \notin t.exec
    BY <1>1, <1>2, BlockOfListed DEF Tidy
  <2>2. QED
    BY <2>1, IdleIsTidy
<1>5. QED
  BY <1>2, <1>3, <1>4 DEF Body, Moves

\* MC_Stop gets its Execute.
LEMMA StoppingBody ==
  ASSUME NEW t, Source(t), t.iStep = "STOPPING"
  PROVE  Body(t, Goto(Execute(t, "stop"), "WAIT_STOP"))
<1> DEFINE s == Goto(Execute(t, "stop"), "WAIT_STOP")
<1>1. InOrder(t) /\ Sound(t) /\ ~t.xError /\ ~t.xPaused
  BY DEF Source, Steady
<1>2. InOrder(s)
  BY <1>1, StepsListed, ExecuteInOrder, GotoInOrder DEF Blocks, Halts
<1>3. /\ s.exec = t.exec \union {"stop"} /\ s.iStep = "WAIT_STOP" /\ s.done = t.done
      /\ s.reArm = t.reArm /\ ~s.xError /\ ~s.xPaused
  BY <1>1 DEF Goto, Execute, InOrder, Block
<1> HIDE DEF s
<1>4. StepOf(t) = "STOPPING" /\ StepOf(s) = "WAIT_STOP"
  BY <1>1, <1>3 DEF StepOf
<1>5. Sound(s)
  BY <1>1, <1>3, <1>4, MotionStepsListed DEF Sound
<1>6. "stop" \notin Motion
  BY DEF Motion
<1>7. Tidy(t) => Tidy(s)
  <2>1. Tidy(t) => t.exec \intersect Motion = {} /\ "params" \notin t.exec
    BY <1>1, <1>4, BlockOfListed DEF Tidy
  <2>2. QED
    BY <1>3, <1>6, <2>1, IdleIsTidy
<1>8. QED
  BY <1>2, <1>3, <1>4, <1>5, <1>6, <1>7 DEF Body, s

----------------------------------------------------------------------------
(* What a scan that ends with the block s does to the invariants.           *)

\* The Execute flags that the blocks see: a motion block begins only if s
\* lets it, and then safely.
BeginsSafely ==
  (execute' \intersect Motion) \ execute # {} =>
    /\ enable' /\ "power" \in execute'
    /\ Halts \intersect execute' = {}
    /\ ~fb'.xError /\ ~fb'.xPaused

NotRepeated == fb'.iStep = "MOVE_REL" /\ fb.iStep = "READY" => ~relHeld'

\* The end of a scan leaves the block as s, but for the emergency stop.
LEMMA EndScanBlock ==
  ASSUME NEW s, InOrder(s), NEW enabled \in BOOLEAN, NEW ems \in BOOLEAN,
         EndScan(s, enabled, ems)
  PROVE  /\ fb'.iStep = s.iStep /\ fb'.iLastStep = s.iLastStep
         /\ fb'.xError = s.xError /\ fb'.xPaused = s.xPaused
         /\ fb'.xPowerOn = s.xPowerOn /\ fb'.done = s.done /\ fb'.reArm = s.reArm
         /\ fb'.exec \ {"ems"} = s.exec \ {"ems"}
         /\ StepOf(fb') = StepOf(s)
         /\ Sound(s) => Sound(fb')
         /\ Tidy(s) => Tidy(fb')
<1> DEFINE inputs == IF ems THEN s.exec \union {"ems"} ELSE s.exec \ {"ems"}
<1>1. fb' = [s EXCEPT !.exec = inputs]
  BY DEF EndScan
<1>2. inputs \ {"ems"} = s.exec \ {"ems"}
  OBVIOUS
<1> HIDE DEF inputs
<1>3. /\ fb'.iStep = s.iStep /\ fb'.iLastStep = s.iLastStep
      /\ fb'.xError = s.xError /\ fb'.xPaused = s.xPaused
      /\ fb'.xPowerOn = s.xPowerOn /\ fb'.done = s.done /\ fb'.reArm = s.reArm
      /\ fb'.exec = inputs
  BY <1>1 DEF InOrder, Block
<1>4. StepOf(fb') = StepOf(s)
  BY <1>3 DEF StepOf
<1>5. fb'.exec \intersect Motion = s.exec \intersect Motion
  BY <1>2, <1>3 DEF Motion
<1>6. ("stop" \in fb'.exec <=> "stop" \in s.exec) /\ ("params" \in fb'.exec <=> "params" \in s.exec)
  BY <1>2, <1>3
<1>7. Sound(s) => Sound(fb')
  BY <1>3, <1>4, <1>6 DEF Sound
<1>8. Tidy(s) => Tidy(fb')
  BY <1>3, <1>4, <1>5, <1>6 DEF Tidy
<1>9. QED
  BY <1>2, <1>3, <1>4, <1>7, <1>8

\* The blocks are called with the Execute flags of the block.
LEMMA EndScanCalls ==
  ASSUME NEW s, InOrder(s), NEW enabled \in BOOLEAN, NEW ems \in BOOLEAN,
         EndScan(s, enabled, ems)
  PROVE  /\ execute' \intersect Motion = s.exec \intersect Motion
         /\ fb'.exec \intersect Motion = s.exec \intersect Motion
         /\ s.xPowerOn => "power" \in execute'
         /\ ~ems /\ "stop" \notin s.exec => Halts \intersect execute' = {}
<1> DEFINE inputs == IF ems THEN s.exec \union {"ems"} ELSE s.exec \ {"ems"}
<1>1. execute' = (inputs \ {"params"}) \union (IF s.xPowerOn THEN {"power"} ELSE {})
  BY DEF EndScan, CallBlocks
<1>2. fb'.exec = inputs
  BY DEF EndScan, InOrder, Block
<1>3. "power" \notin Motion /\ "params" \notin Motion /\ "ems" \notin Motion
  BY DEF Motion
<1>4. inputs \intersect Motion = s.exec \intersect Motion
  BY <1>3
<1>5. ~ems /\ "stop" \notin s.exec => Halts \intersect inputs = {}
  BY DEF Halts
<1> HIDE DEF inputs
<1>6. "power" \notin Halts
  BY DEF Halts
<1>7. QED
  BY <1>1, <1>2, <1>3, <1>4, <1>5, <1>6

\* A homing that goes on was written out in this homing: a writer that is done
\* from an earlier one is called without its Execute in the first scan.
LEMMA EndScanHoming ==
  ASSUME IInv, CtlInv, TidyInv, NEW t, Steady(fb, t),
         t.iStep = "READY" => fb.iStep = "READY", NEW s, Body(t, s),
         NEW enabled \in BOOLEAN, NEW ems \in BOOLEAN, EndScan(s, enabled, ems)
  PROVE  HomingIsWritten'
<1>1. Sound(fb) /\ Tidy(fb) /\ HomingIsWritten /\ InOrder(fb)
  BY FbInOrder DEF CtlInv, TidyInv
<1>2. Sound(t) /\ Tidy(t) /\ InOrder(t) /\ Withdraws(fb, t)
  BY <1>1 DEF Steady
<1>3. InOrder(s)
  BY DEF Body
<1>4. /\ WriteParams(s)
      /\ params = "taking" /\ params' = "writing" => own'
      /\ params = "writing" /\ params' = "written" => wrote'
      /\ ~Dispatches(s) => /\ own => own'
                           /\ wrote => wrote'
                           /\ resumed' = resumed
      /\ Dispatches(s) /\ params = "writing" => resumed'
  BY DEF EndScan, Remember
<1>5. Step = StepOf(fb)
  BY DEF Step, StepOf
<1>6. Step \in MotionSteps => fb.iStep # "READY"
  BY <1>1, <1>5, MotionStepsListed DEF Sound, StepOf
<1>7. "home" \in fb.exec => fb.iStep # "READY"
  <2>1. SUFFICES ASSUME fb.iStep = "READY"
                 PROVE  "home" \notin fb.exec
    OBVIOUS
  <2>2. ~fb.xError /\ StepOf(fb) = "READY"
    BY <1>1, <2>1 DEF Sound, StepOf
  <2>3. fb.exec \intersect Motion = {}
    BY <1>1, <2>2, BlockOfListed DEF Tidy
  <2>4. QED
    BY <2>3 DEF Motion
<1>8. /\ StepOf(t) = "HOMING_EXEC" => wrote /\ Sourced /\ ~Dispatches(s)
      /\ StepOf(t) = "HOMING_WRITE_PARAM" => ~Dispatches(s)
      /\ StepOf(t) = "HOMING_WRITE_PARAM" /\ params = "writing" => Sourced
      /\ StepOf(t) = "HOMING_WRITE_PARAM" /\ params \in {"written", "done"} =>
           wrote /\ Sourced
      /\ "home" \in t.exec => wrote /\ Sourced /\ ~Dispatches(s)
  BY <1>1, <1>2, <1>5, <1>6, <1>7, MotionStepsListed
     DEF Withdraws, HomingIsWritten, Dispatches
<1>9. Step' = StepOf(s) /\ ("home" \in fb'.exec => "home" \in s.exec)
  <2>1. StepOf(fb') = StepOf(s) /\ fb'.exec \intersect Motion = s.exec \intersect Motion
    BY <1>3, EndScanBlock, EndScanCalls
  <2>2. QED
    BY <2>1 DEF Step, StepOf, Motion
<1>10. ~Dispatches(s) => /\ wrote => wrote'
                         /\ Sourced => Sourced'
  BY <1>4 DEF Sourced
<1>11. StepOf(s) = "HOMING_EXEC" => wrote' /\ Sourced'
  BY <1>8, <1>10 DEF Body
<1>12. "home" \in s.exec => wrote' /\ Sourced'
  BY <1>8, <1>10 DEF Body
<1>13. ASSUME StepOf(s) = "HOMING_WRITE_PARAM", params' \in {"writing", "written", "done"}
       PROVE  Sourced' /\ (params' # "writing" => wrote')
  <2>1. params \in {"taking", "writing", "written", "done"}
    BY <1>4, <1>13 DEF WriteParams, WriterMoves, WriterSteps, IInv, AxisCtlTypeOK
  <2>2. /\ params = "taking" => params' = "writing"
        /\ params = "writing" => params' \in {"writing", "written"}
        /\ params \in {"written", "done"} => params' # "writing"
    BY <1>4, <1>13 DEF WriteParams, WriterMoves
  <2>3. params = "taking" => Sourced' /\ params' = "writing"
    BY <1>4, <2>2 DEF Sourced
  <2>4. CASE StepOf(t) = "HOMING_WRITE_PARAM"
    BY <1>4, <1>8, <1>10, <2>1, <2>2, <2>3, <2>4
  <2>5. CASE /\ s.iStep = "HOMING_WRITE_PARAM" /\ s.exec = t.exec
             /\ StepOf(t) = "READY" /\ t.iStep = "READY"
    <3>1. Dispatches(s)
      BY <2>5, MotionStepsListed DEF Dispatches
    <3>2. "params" \notin s.exec
      BY <1>2, <2>5 DEF Tidy, Sound, StepOf, InOrder
    <3>3. params \notin {"written", "done"}
      BY <1>4, <1>13, <2>5, <3>2 DEF WriteParams, WriterMoves
    <3>4. params = "writing" => Sourced'
      BY <1>4, <3>1 DEF Sourced
    <3>5. QED
      BY <1>4, <2>1, <2>2, <2>3, <3>3, <3>4
  <2>6. QED
    BY <1>13, <2>4, <2>5 DEF Body
<1>14. QED
  BY <1>9, <1>11, <1>12, <1>13 DEF HomingIsWritten

\* A block that is busy or done at the end of the scan began in it, or goes on
\* from before, and then no new command was dispatched.
LEMMA EndScanEarned ==
  ASSUME IInv, CtlInv, TidyInv, NEW t, Steady(fb, t), NEW s, Body(t, s),
         NEW enabled \in BOOLEAN, NEW ems \in BOOLEAN, EndScan(s, enabled, ems)
  PROVE  Earned'
<1> DEFINE inputs == IF ems THEN s.exec \union {"ems"} ELSE s.exec \ {"ems"}
           calls == (inputs \ {"params"}) \union (IF s.xPowerOn THEN {"power"} ELSE {})
<1>1. Sound(fb) /\ Tidy(fb) /\ Earned /\ InOrder(fb)
  BY FbInOrder DEF CtlInv, TidyInv
<1>2. Withdraws(fb, t) /\ InOrder(s) /\ Sound(s)
  BY DEF Steady, Body
<1>3. CallBlocks(calls) /\ Remember(s, calls)
  BY DEF EndScan
<1>4. calls \intersect Motion = s.exec \intersect Motion
  BY DEF Motion
<1>5. fb'.done = s.done
  BY <1>2, EndScanBlock
<1> HIDE DEF inputs, calls
<1>6. \A st \in Moves : BlockOf[st] \in MoveBlocks /\ BlockOf[st] \in Motion
                        /\ BlockOf[st] \in Blocks /\ BlockOf[st] \notin {"reset", "power"}
  BY BlockOfListed DEF Moves, MoveBlocks, Motion, Blocks
<1>7. Dispatches(s) => StepOf(s) \in MotionSteps /\ s.exec \intersect Motion = {}
  <2> SUFFICES ASSUME Dispatches(s)
               PROVE  StepOf(s) \in MotionSteps /\ s.exec \intersect Motion = {}
    OBVIOUS
  <2>1. fb.iStep = "READY" /\ StepOf(s) \in MotionSteps
    BY <1>2, MotionStepsListed DEF Dispatches, Sound, StepOf
  <2>2. ~fb.xError /\ StepOf(fb) = "READY"
    BY <1>1, <2>1 DEF Sound, StepOf
  <2>3. fb.exec \intersect Motion = {}
    BY <1>1, <2>2, BlockOfListed DEF Tidy
  <2>4. StepOf(s) # StepOf(t)
    BY <1>2, <2>1, <2>2, MotionStepsListed DEF Withdraws
  <2>5. QED
    BY <1>2, <2>1, <2>3, <2>4 DEF Body, Withdraws
<1>8. ASSUME NEW st \in Moves, out'[BlockOf[st]] \in {"busy", "done"}
      PROVE  BlockOf[st] \in began'
  <2> DEFINE b == BlockOf[st]
  <2>1. b \in MoveBlocks /\ b \in Motion /\ b \in Blocks /\ b \notin {"reset", "power"}
    BY <1>6
  <2>2. b \in began \/ out[b] \notin {"busy", "done"}
    BY <1>1 DEF Earned
  <2>3. out'[b] \in {"busy", "done"}
    BY <1>8
  <2> HIDE DEF b
  <2>4. b \in calls
    BY <1>3, <2>1, <2>3 DEF CallBlocks
  <2>5. ~Dispatches(s)
    BY <1>4, <1>7, <2>1, <2>4
  <2>6. CASE b \notin execute
    <3>1. Answer(b, calls) = "busy"
      BY <1>3, <2>1, <2>3, <2>4, <2>6 DEF CallBlocks, Answer
    <3>2. b \in Begun(calls)
      BY <2>1, <2>4, <2>6, <3>1 DEF Begun
    <3>3. QED
      BY <1>3, <2>1, <3>2 DEF Remember, b
  <2>7. CASE b \in execute
    <3>1. out'[b] = out[b]
      BY <1>3, <2>1, <2>3, <2>4, <2>7 DEF CallBlocks
    <3>2. QED
      BY <1>3, <2>2, <2>3, <2>5, <3>1 DEF Remember, b
  <2>8. QED
    BY <2>6, <2>7
<1>9. ASSUME fb'.done \in Moves
      PROVE  BlockOf[fb'.done] \in began'
  <2>1. s.done \in Moves /\ s.done # "none"
    BY <1>5, <1>9 DEF Moves
  <2>2. ~Dispatches(s)
    BY <1>2, <1>7, <2>1 DEF Sound
  <2>3. BlockOf[s.done] \in began
    BY <1>1, <1>2, <2>1 DEF Body, Withdraws, Earned
  <2>4. QED
    BY <1>3, <1>5, <2>2, <2>3 DEF Remember
<1>10. QED
  BY <1>8, <1>9 DEF Earned

LEMMA EndScanEffect ==
  ASSUME IInv, CtlInv, NEW t, Steady(fb, t),
         t.iStep = "READY" => fb.iStep = "READY", NEW s, Body(t, s),
         NEW enabled \in BOOLEAN, NEW ems \in BOOLEAN, EndScan(s, enabled, ems),
         s.exec \intersect Motion \subseteq t.exec \/ (enabled /\ ~ems)
  PROVE  /\ Sound(fb') /\ fb'.exec \intersect Motion \subseteq execute'
         /\ BeginsSafely
         /\ TidyInv => TidyInv'
<1>1. InOrder(s) /\ Sound(s) /\ (Tidy(t) => Tidy(s)) /\ t.exec \subseteq fb.exec
  BY DEF Body, Steady, Withdraws
<1>2. Sound(fb') /\ (Tidy(s) => Tidy(fb')) /\ fb'.xError = s.xError /\ fb'.xPaused = s.xPaused
  BY <1>1, EndScanBlock
<1>3. /\ execute' \intersect Motion = s.exec \intersect Motion
      /\ fb'.exec \intersect Motion = s.exec \intersect Motion
      /\ s.xPowerOn => "power" \in execute'
      /\ ~ems /\ "stop" \notin s.exec => Halts \intersect execute' = {}
  BY <1>1, EndScanCalls
<1>4. enable' = enabled
  BY DEF EndScan
<1>5. BeginsSafely
  <2>1. CASE s.exec \intersect Motion \subseteq t.exec
    BY <1>1, <1>3, <2>1 DEF BeginsSafely, CtlInv, Tracked
  <2>2. CASE ~(s.exec \intersect Motion \subseteq t.exec)
    <3>1. Free(s) /\ enabled /\ ~ems
      BY <2>2 DEF Body
    <3>2. QED
      BY <1>2, <1>3, <1>4, <3>1 DEF BeginsSafely, Free
  <2>3. QED
    BY <2>1, <2>2
<1>6. TidyInv => TidyInv'
  <2>1. TidyInv => HomingIsWritten' /\ Earned'
    BY EndScanHoming, EndScanEarned
  <2>2. TidyInv => Tidy(fb')
    BY <1>1, <1>2 DEF TidyInv, Steady
  <2>3. QED
    BY <2>1, <2>2 DEF TidyInv
<1>7. QED
  BY <1>2, <1>3, <1>5, <1>6

\* What every step keeps.
Kept == CtlInv' /\ BeginsSafely /\ NotRepeated /\ (TidyInv => TidyInv')

LEMMA EndMainKeeps ==
  ASSUME IInv, CtlInv, NEW t, Source(t), NEW s, Body(t, s), NEW ems \in BOOLEAN,
         EndMain(s, ems), ems => s.exec \intersect Motion \subseteq t.exec
  PROVE  Kept
<1>1. /\ EndScan(s, TRUE, ems) /\ Steady(fb, t) /\ InOrder(s)
      /\ t.iStep = "READY" => fb.iStep = "READY"
  BY DEF EndMain, Source, Body
<1>2. /\ Sound(fb') /\ fb'.exec \intersect Motion \subseteq execute'
      /\ BeginsSafely
      /\ TidyInv => TidyInv'
  BY <1>1, EndScanEffect
<1>3. fb'.iStep = s.iStep /\ fb'.done = s.done /\ fb'.reArm = s.reArm
  BY <1>1, EndScanBlock
<1>4. t.done = fb.done /\ t.reArm = fb.reArm /\ (StepOf(t) \in MotionSteps => StepOf(t) = StepOf(fb))
  BY <1>1 DEF Steady, Withdraws
<1>5. relHeld' => "MOVE_REL" \in request /\ (relHeld \/ (s.done = "MOVE_REL" /\ fb.done = "none"))
  BY DEF EndMain
<1>6. relHeld => fb.reArm
  BY DEF CtlInv, Tracked
<1>7. relHeld' => fb'.reArm
  BY <1>3, <1>4, <1>5, <1>6 DEF Body
<1>8. NotRepeated
  <2>1. SUFFICES ASSUME fb'.iStep = "MOVE_REL", fb.iStep = "READY"
                 PROVE  ~relHeld'
    BY DEF NotRepeated
  <2>2. StepOf(s) = "MOVE_REL"
    BY <1>3, <2>1 DEF Body, Sound, StepOf
  <2>3. StepOf(fb) = "READY"
    BY <2>1 DEF CtlInv, Sound, StepOf
  <2>4. ~t.reArm /\ s.done = "none"
    BY <1>4, <2>2, <2>3, MotionStepsListed DEF Body
  <2>5. QED
    BY <1>4, <1>5, <1>6, <2>4
<1>9. QED
  BY <1>2, <1>7, <1>8 DEF Kept, CtlInv, Tracked

LEMMA EndEarlyKeeps ==
  ASSUME IInv, CtlInv, NEW s, Steady(fb, s), NEW enabled \in BOOLEAN, NEW ems \in BOOLEAN,
         EndEarly(s, enabled, ems)
  PROVE  Kept
<1>1. EndScan(s, enabled, ems) /\ relHeld' = relHeld
  BY DEF EndEarly
<1>2. Steady(fb, fb)
  BY FbInOrder, SelfSteady DEF CtlInv
<1>3. /\ s.exec \subseteq fb.exec /\ s.reArm = fb.reArm /\ InOrder(s) /\ Sound(s)
      /\ StepOf(s) \in MotionSteps => StepOf(s) = StepOf(fb)
  BY DEF Steady, Withdraws
<1>4. Body(fb, s)
  BY SteadyBody
<1>5. /\ Sound(fb') /\ fb'.exec \intersect Motion \subseteq execute'
      /\ BeginsSafely
      /\ TidyInv => TidyInv'
  BY <1>1, <1>2, <1>3, <1>4, EndScanEffect
<1>6. fb'.iStep = s.iStep /\ fb'.reArm = s.reArm
  BY <1>1, <1>3, EndScanBlock
<1>7. NotRepeated
  <2>1. SUFFICES ASSUME fb'.iStep = "MOVE_REL", fb.iStep = "READY"
                 PROVE  FALSE
    BY DEF NotRepeated
  <2>2. StepOf(s) = "MOVE_REL" /\ StepOf(fb) = "READY"
    BY <1>3, <1>6, <2>1 DEF CtlInv, Sound, StepOf
  <2>3. QED
    BY <1>3, <2>2, MotionStepsListed
<1>8. QED
  BY <1>1, <1>3, <1>5, <1>6, <1>7 DEF Kept, CtlInv, Tracked

\* The program calls a method that takes the command back.
LEMMA MethodKeeps ==
  ASSUME IInv, CtlInv, NEW s, InOrder(s), Sound(s), Withdraws(fb, s), Method(s)
  PROVE  CtlInv' /\ BeginsSafely /\ NotRepeated /\ (TidyInv /\ Tidy(s) => TidyInv')
<1>1. /\ fb' = s /\ execute' = execute /\ out' = out /\ params' = params
      /\ UNCHANGED <<relHeld, began, own, wrote, resumed>>
  BY DEF Method, axisVars, history
<1>2. /\ s.exec \subseteq fb.exec /\ s.reArm = fb.reArm
      /\ StepOf(s) \in MotionSteps => StepOf(s) = StepOf(fb)
  BY DEF Withdraws
<1>3. CtlInv'
  BY <1>1, <1>2 DEF CtlInv, Tracked
<1>4. BeginsSafely
  BY <1>1 DEF BeginsSafely
<1>5. NotRepeated
  <2>1. SUFFICES ASSUME s.iStep = "MOVE_REL", fb.iStep = "READY"
                 PROVE  FALSE
    BY <1>1 DEF NotRepeated
  <2>2. StepOf(s) = "MOVE_REL" /\ StepOf(fb) = "READY"
    BY <2>1 DEF CtlInv, Sound, StepOf
  <2>3. QED
    BY <1>2, <2>2, MotionStepsListed
<1>6. ASSUME TidyInv, Tidy(s)
      PROVE  TidyInv'
  <2>1. Step = StepOf(fb) /\ Step' = StepOf(s)
    BY <1>1 DEF Step, StepOf
  <2>2. HomingIsWritten'
    BY <1>1, <1>2, <1>6, <2>1, MotionStepsListed DEF TidyInv, HomingIsWritten, Sourced
  <2>3. Earned'
    BY <1>1, <1>6 DEF TidyInv, Earned, Withdraws
  <2>4. QED
    BY <1>1, <1>6, <2>2, <2>3 DEF TidyInv
<1>7. QED
  BY <1>3, <1>4, <1>5, <1>6

----------------------------------------------------------------------------
(* One step of the specification, again.                                   *)

LEMMA MainStepKeeps ==
  ASSUME IInv, CtlInv, NEW stop \in BOOLEAN, MainStep(stop)
  PROVE  Kept
<1>1. ~Entered.xPaused
  BY DEF MainStep, Idle, Enabling, NotReady, TryReset, Ready, Jog, Move, MoveVelocity,
         HomingWriteParam, SetPosition, Stopping, WaitStop, At
<1>2. Source(Entered) /\ Source(Running(stop)) /\ Running(FALSE) = Entered
  BY <1>1, SourceFacts DEF CtlInv, Running
<1>3. /\ InOrder(Entered) /\ Sound(Entered) /\ ~Entered.xError
      /\ InOrder(Running(stop)) /\ Sound(Running(stop))
  BY <1>2 DEF Source, Steady
<1>4. CASE Idle
  BY <1>2, <1>4, IdleBody, EndMainKeeps DEF Idle, At
<1>5. ASSUME NEW s, InOrder(s), ~s.xError, ~s.xPaused,
             Entered.iStep \in {"ENABLING", "NOT_READY", "TRY_RESET"},
             s.iStep \in {"ENABLING", "NOT_READY", "TRY_RESET", "READY"},
             s.done = Entered.done, s.reArm = Entered.reArm,
             s.exec \subseteq Entered.exec \union {"reset"}, EndMain(s, FALSE)
      PROVE  Kept
  <2>1. "reset" \notin Motion \union {"params", "stop"}
    BY DEF Motion
  <2>2. Body(Entered, s)
    BY <1>2, <1>5, <2>1, WaitingBody
  <2>3. QED
    BY <1>2, <1>5, <2>2, EndMainKeeps
<1>6. \A st \in {"ENABLING", "NOT_READY", "TRY_RESET", "READY"} :
        \A s : /\ InOrder(s) /\ ~s.xError /\ ~s.xPaused
               => /\ InOrder(Goto(s, st)) /\ ~Goto(s, st).xError /\ ~Goto(s, st).xPaused
                  /\ Goto(s, st).iStep = st /\ Goto(s, st).done = s.done
                  /\ Goto(s, st).reArm = s.reArm /\ Goto(s, st).exec = s.exec
  BY StepsListed, GotoInOrder DEF Goto, InOrder, Block
<1>7. \A s : /\ InOrder(s) /\ ~s.xError /\ ~s.xPaused
             => /\ InOrder(AskReset(s)) /\ ~AskReset(s).xError /\ ~AskReset(s).xPaused
                /\ AskReset(s).iStep = s.iStep /\ AskReset(s).done = s.done
                /\ AskReset(s).reArm = s.reArm
                /\ AskReset(s).exec \subseteq s.exec \union {"reset"}
  <2>1. SUFFICES ASSUME NEW s, InOrder(s), ~s.xError, ~s.xPaused
                 PROVE  /\ InOrder(AskReset(s)) /\ ~AskReset(s).xError /\ ~AskReset(s).xPaused
                        /\ AskReset(s).iStep = s.iStep /\ AskReset(s).done = s.done
                        /\ AskReset(s).reArm = s.reArm
                        /\ AskReset(s).exec \subseteq s.exec \union {"reset"}
    OBVIOUS
  <2>2. InOrder(AskReset(s))
    BY <2>1, ExecuteInOrder, DropInOrder DEF AskReset, Blocks
  <2>3. QED
    BY <2>1, <2>2 DEF AskReset, Execute, Drop, InOrder, Block
<1>8. /\ InOrder(PowerOn(Entered)) /\ ~PowerOn(Entered).xError /\ ~PowerOn(Entered).xPaused
      /\ PowerOn(Entered).iStep = Entered.iStep /\ PowerOn(Entered).done = Entered.done
      /\ PowerOn(Entered).reArm = Entered.reArm /\ PowerOn(Entered).exec = Entered.exec
  BY <1>1, <1>3 DEF PowerOn, InOrder, Block
<1>9. CASE Enabling
  BY <1>2, <1>5, <1>6, <1>8, <1>9 DEF Enabling, At
<1>10. CASE NotReady
  <2> DEFINE s == AskReset(PowerOn(Entered))
  <2>1. /\ InOrder(s) /\ ~s.xError /\ ~s.xPaused /\ s.iStep = Entered.iStep
        /\ s.done = Entered.done /\ s.reArm = Entered.reArm
        /\ s.exec \subseteq Entered.exec \union {"reset"}
    BY <1>7, <1>8
  <2>2. Entered.iStep = "NOT_READY" /\ EndMain(IF Standstill THEN Goto(s, "READY") ELSE s, FALSE)
    BY <1>2, <1>10 DEF NotReady, At
  <2> HIDE DEF s
  <2>3. QED
    BY <1>5, <1>6, <2>1, <2>2
<1>11. CASE TryReset
  <2> DEFINE s == AskReset(Entered)
  <2>1. /\ InOrder(s) /\ ~s.xError /\ ~s.xPaused /\ s.iStep = Entered.iStep
        /\ s.done = Entered.done /\ s.reArm = Entered.reArm
        /\ s.exec \subseteq Entered.exec \union {"reset"}
    BY <1>1, <1>3, <1>7
  <2>2. Entered.iStep = "TRY_RESET" /\ (EndMain(Goto(s, "READY"), FALSE) \/ EndMain(s, FALSE))
    BY <1>2, <1>11 DEF TryReset, At
  <2> HIDE DEF s
  <2>3. QED
    BY <1>5, <1>6, <2>1, <2>2
<1>12. ASSUME NEW limits, Ready(limits)
       PROVE  Kept
  BY <1>2, <1>12, ReadyDispatches, EndMainKeeps DEF Ready, At
<1>13. ASSUME NEW step \in DOMAIN BlockOf, NEW s, InOrder(s),
              Entered.iStep = step, s.iStep = step, s.xError = Entered.xError,
              s.xPaused = Entered.xPaused, s.xPowerOn = Entered.xPowerOn,
              s.done = Entered.done, s.reArm = Entered.reArm,
              s.exec \subseteq Entered.exec \union {BlockOf[step]}, EndMain(s, FALSE)
       PROVE  Kept
  <2>1. Body(Entered, s)
    BY <1>1, <1>2, <1>3, <1>13, ExecuteBody
  <2>2. QED
    BY <1>2, <1>13, <2>1, EndMainKeeps
<1>14. ASSUME NEW s, Steady(Entered, s), EndMain(s, FALSE)
       PROVE  Kept
  BY <1>2, <1>14, SteadyBody, EndMainKeeps
<1>15. /\ Steady(Entered, ClearAllExecute(Entered))
       /\ Steady(Entered, Raise(ClearAllExecute(Entered)))
       /\ Steady(Entered, Goto(ClearAllExecute(Entered), "STOPPING"))
  <2>1. Steady(Entered, ClearAllExecute(Entered))
    BY <1>3, ClearAllExecuteSteady
  <2>2. Steady(ClearAllExecute(Entered), Raise(ClearAllExecute(Entered)))
    BY <2>1, RaiseSteady DEF Steady, Raise
  <2>3. QED
    BY <1>3, <2>1, <2>2, SteadyTransitive, ClearAndStopSteady
<1>16. ASSUME NEW step \in {"JOG_POS", "JOG_NEG"}, NEW limit \in BOOLEAN,
              NEW changed \in BOOLEAN, Jog(step, limit, changed)
       PROVE  Kept
  <2> DEFINE s == Drop(Entered, "vel")
             asked == IF step \in request THEN s ELSE Goto(s, "STOPPING")
             on == Execute(s, "vel")
  <2>1. Steady(Entered, s)
    BY <1>3, DropSteady
  <2>2. Entered.iStep = step
    BY <1>2, <1>16 DEF Jog, At
  <2>3. /\ InOrder(s) /\ s.iStep = step /\ s.xError = Entered.xError
        /\ s.xPaused = Entered.xPaused /\ s.xPowerOn = Entered.xPowerOn
        /\ s.done = Entered.done /\ s.reArm = Entered.reArm
        /\ s.exec = Entered.exec \ {"vel"}
    BY <1>3, <2>1, <2>2 DEF Steady, Drop, InOrder, Block
  <2> HIDE DEF s
  <2>4. Steady(Entered, Goto(s, "STOPPING"))
    BY <1>1, <1>3, <2>2, DropAndStopSteady DEF s
  <2>5. Steady(Entered, asked)
    BY <2>1, <2>4
  <2>6. Steady(Entered, RaiseAs(s, TRUE))
    BY <2>1, RaiseSteady, SteadyTransitive DEF Steady
  <2>7. Steady(Entered, Raise(asked))
    <3> HIDE DEF asked
    <3>1. Steady(asked, Raise(asked))
      BY <2>5, RaiseSteady DEF Steady, Raise
    <3>2. QED
      BY <2>5, <3>1, SteadyTransitive
  <2>8. /\ InOrder(on) /\ on.iStep = step /\ on.xError = Entered.xError
        /\ on.xPaused = Entered.xPaused /\ on.xPowerOn = Entered.xPowerOn
        /\ on.done = Entered.done /\ on.reArm = Entered.reArm
        /\ on.exec = s.exec \union {"vel"}
    <3>1. "vel" \in Blocks \union {"params"}
      BY DEF Blocks, Motion
    <3>2. InOrder(on)
      BY <2>3, <3>1, ExecuteInOrder
    <3>3. QED
      BY <2>3, <3>2 DEF Execute, InOrder, Block
  <2>9. step \in DOMAIN BlockOf /\ BlockOf[step] = "vel"
    BY BlockOfListed
  <2>10. \/ EndMain(RaiseAs(s, TRUE), FALSE) \/ EndMain(Raise(asked), FALSE)
         \/ EndMain(asked, FALSE) \/ EndMain(on, FALSE)
    BY <1>16 DEF Jog, s
  <2> HIDE DEF on, asked
  <2>11. CASE EndMain(on, FALSE)
    BY <1>13, <2>2, <2>3, <2>8, <2>9, <2>11
  <2>12. QED
    BY <1>14, <2>5, <2>6, <2>7, <2>10, <2>11
<1>17. ASSUME NEW step \in DOMAIN BlockOf, Entered.iStep = step,
              EndMain(Execute(Entered, BlockOf[step]), FALSE)
       PROVE  Kept
  <2> DEFINE b == BlockOf[step]
  <2>1. b \in Blocks \union {"params"}
    BY BlockOfListed DEF Blocks, Motion
  <2> HIDE DEF b
  <2>2. InOrder(Execute(Entered, b))
    BY <1>3, <2>1, ExecuteInOrder
  <2>3. /\ Execute(Entered, b).iStep = step /\ Execute(Entered, b).xError = Entered.xError
        /\ Execute(Entered, b).xPaused = Entered.xPaused
        /\ Execute(Entered, b).xPowerOn = Entered.xPowerOn
        /\ Execute(Entered, b).done = Entered.done /\ Execute(Entered, b).reArm = Entered.reArm
        /\ Execute(Entered, b).exec = Entered.exec \union {b}
    BY <1>3, <1>17 DEF Execute, InOrder, Block
  <2>4. QED
    BY <1>13, <1>17, <2>2, <2>3 DEF b
<1>18. ASSUME NEW step \in Moves, Move(step)
       PROVE  Kept
  <2> DEFINE cleared == ClearAllExecute(Entered)
             arrived == [cleared EXCEPT !.iStep = "STOPPING", !.done = step,
                                        !.reArm = @ \/ step = "MOVE_REL"]
  <2>1. Entered.iStep = step /\ step \in DOMAIN BlockOf
    BY <1>2, <1>18, BlockOfListed DEF Move, At, Moves
  <2>2. out[BlockOf[step]] = "done" => Body(Entered, arrived)
    BY <1>2, ArrivedBody
  <2> HIDE DEF cleared, arrived
  <2>3. \/ out[BlockOf[step]] = "done" /\ EndMain(arrived, FALSE)
        \/ EndMain(Raise(cleared), FALSE)
        \/ EndMain(Goto(cleared, "STOPPING"), FALSE)
        \/ EndMain(Execute(Entered, BlockOf[step]), FALSE)
    BY <1>18 DEF Move, cleared, arrived
  <2>4. QED
    BY <1>2, <1>14, <1>15, <1>17, <2>1, <2>2, <2>3, EndMainKeeps DEF cleared
<1>19. CASE MoveVelocity
  <2>1. Entered.iStep = "MOVE_VEL" /\ "MOVE_VEL" \in DOMAIN BlockOf /\ BlockOf["MOVE_VEL"] = "vel"
    BY <1>2, <1>19, BlockOfListed DEF MoveVelocity, At
  <2>2. Steady(Entered, Goto(Drop(Entered, "vel"), "STOPPING"))
    BY <1>1, <1>3, <2>1, DropAndStopSteady
  <2>3. \/ EndMain(Raise(ClearAllExecute(Entered)), FALSE) \/ EndMain(Execute(Entered, "vel"), FALSE)
        \/ EndMain(Goto(Drop(Entered, "vel"), "STOPPING"), FALSE)
    BY <1>19 DEF MoveVelocity
  <2>4. QED
    BY <1>14, <1>15, <1>17, <2>1, <2>2, <2>3
<1>20. CASE HomingWriteParam
  <2>1. Entered.iStep = "HOMING_WRITE_PARAM"
    BY <1>2, <1>20 DEF HomingWriteParam, At
  <2>2. \/ params = "done" /\ EndMain(Goto(Drop(Entered, "params"), "HOMING_EXEC"), FALSE)
        \/ EndMain(Raise(ClearAllExecute(Entered)), FALSE)
        \/ EndMain(Execute(Entered, "params"), FALSE)
        \/ EndMain(Goto(ClearAllExecute(Entered), "STOPPING"), FALSE)
    BY <1>20 DEF HomingWriteParam
  <2>3. Body(Entered, Execute(Entered, "params"))
    BY <1>1, <1>2, <1>3, <2>1, WritingBody
  <2>4. QED
    BY <1>2, <1>14, <1>15, <2>1, <2>2, <2>3, WrittenBody, EndMainKeeps
<1>21. ASSUME NEW result \in {0, 1, -1}, SetPosition(result)
       PROVE  Kept
  <2> DEFINE over == [Entered EXCEPT !.done = "SET_POSITION", !.iStep = "READY"]
  <2>1. Entered.iStep = "SET_POSITION"
    BY <1>2, <1>21 DEF SetPosition, At
  <2>2. /\ InOrder(over) /\ over.iStep = "READY" /\ ~over.xError /\ ~over.xPaused
        /\ over.done = "SET_POSITION" /\ over.reArm = Entered.reArm /\ over.exec = Entered.exec
    BY <1>1, <1>3, StepsListed DEF InOrder, Block
  <2>3. \/ EndMain(over, FALSE) \/ EndMain(Raise(Entered), FALSE) \/ EndMain(Entered, FALSE)
    BY <1>21 DEF SetPosition
  <2> HIDE DEF over
  <2>4. Body(Entered, over)
    BY <1>2, <2>1, <2>2, OverBody
  <2>5. Steady(Entered, Raise(Entered)) /\ Steady(Entered, Entered)
    BY <1>3, RaiseSteady, SelfSteady DEF Raise
  <2>6. QED
    BY <1>2, <1>14, <2>3, <2>4, <2>5, EndMainKeeps
<1>22. CASE Stopping(stop)
  BY <1>2, <1>22, StoppingBody, EndMainKeeps DEF Stopping, At
<1>23. CASE WaitStop(stop)
  <2> DEFINE s == Running(stop)
             d == Drop(s, "stop")
             stopped == [d EXCEPT !.done = "STOPPING", !.iStep = "READY"]
  <2>1. s.iStep = "WAIT_STOP" /\ Source(s) /\ InOrder(s) /\ Sound(s) /\ ~s.xError /\ ~s.xPaused
    BY <1>2, <1>3, <1>23 DEF WaitStop, At, Source
  <2>2. \/ EndMain(stopped, FALSE) \/ EndMain(Raise(d), FALSE) \/ EndMain(s, FALSE)
    BY <1>23 DEF WaitStop
  <2> HIDE DEF s
  <2>3. Steady(s, d) /\ d.exec = s.exec \ {"stop"} /\ ~d.xError /\ ~d.xPaused /\ d.reArm = s.reArm
    BY <2>1, DropSteady DEF Drop, InOrder, Block
  <2> HIDE DEF d
  <2>4. /\ InOrder(stopped) /\ stopped.iStep = "READY" /\ ~stopped.xError /\ ~stopped.xPaused
        /\ stopped.done = "STOPPING" /\ stopped.reArm = s.reArm
        /\ stopped.exec = s.exec \ {"stop"}
    BY <2>3, StepsListed DEF Steady, InOrder, Block
  <2> HIDE DEF stopped
  <2>5. Body(s, stopped)
    BY <2>1, <2>4, OverBody
  <2>6. Body(s, Raise(d))
    <3>1. Steady(d, Raise(d))
      BY <2>3, RaiseSteady DEF Steady, Raise
    <3>2. QED
      BY <2>3, <3>1, SteadyTransitive, SteadyBody
  <2>7. Body(s, s)
    BY <2>1, SelfSteady, SteadyBody
  <2>8. QED
    BY <2>1, <2>2, <2>5, <2>6, <2>7, EndMainKeeps
<1>24. QED
  BY <1>4, <1>9, <1>10, <1>11, <1>12, <1>16, <1>18, <1>19, <1>20, <1>21, <1>22, <1>23 DEF MainStep

LEMMA ScanKeeps ==
  ASSUME IInv, CtlInv, Scan
  PROVE  Kept
<1>1. EMS \subseteq BOOLEAN /\ InOrder(fb) /\ Sound(fb)
  BY FbInOrder DEF EMS, CtlInv
<1>2. Steady(fb, Entered) /\ InOrder(Entered) /\ Sound(Entered)
  BY <1>1, ResetSteady DEF Entered, Steady
<1>3. ASSUME NEW enabled \in BOOLEAN, NEW stop \in BOOLEAN, NEW ems \in EMS,
             ScanInError(enabled, stop, ems)
      PROVE  Kept
  BY <1>1, <1>3, SelfSteady, StopMotionSteady, EndEarlyKeeps DEF ScanInError
<1>4. ASSUME NEW pause \in BOOLEAN, NEW enabled \in BOOLEAN, NEW ems \in EMS,
             ScanPaused(pause, enabled, ems)
      PROVE  Kept
  <2> DEFINE s == IF pause THEN Pause(Entered) ELSE Resume(Entered)
  <2>1. pause \/ Entered.xPaused
    BY <1>4 DEF ScanPaused
  <2>2. Steady(Entered, s)
    BY <1>2, <2>1, PauseSteady
  <2>3. EndEarly(s, enabled, ems)
    BY <1>4 DEF ScanPaused
  <2> HIDE DEF s
  <2>4. QED
    BY <1>1, <1>2, <2>2, <2>3, SteadyTransitive, EndEarlyKeeps
<1>5. ASSUME NEW ems \in EMS, ScanDisabled(ems)
      PROVE  Kept
  <2>1. Steady(fb, StopMotion(Entered, FALSE))
    BY <1>2, StopMotionSteady, SteadyTransitive
  <2>2. QED
    BY <1>1, <1>5, <2>1, EndEarlyKeeps DEF ScanDisabled
<1>6. ASSUME NEW stop \in BOOLEAN, NEW ems \in EMS, DriverError(stop, ems)
      PROVE  Kept
  <2> DEFINE t == Running(stop)
             c == ClearAllExecute(t)
  <2>1. Source(t) /\ InOrder(t) /\ Sound(t)
    BY <1>1, <1>6, SourceFacts DEF DriverError, Source, Steady
  <2>2. EndMain(Raise(c), ems)
    BY <1>6 DEF DriverError
  <2> HIDE DEF t
  <2>3. Steady(t, c)
    BY <2>1, ClearAllExecuteSteady
  <2> HIDE DEF c
  <2>4. Steady(t, Raise(c))
    BY <2>3, RaiseSteady, SteadyTransitive DEF Steady, Raise
  <2>5. Body(t, Raise(c)) /\ Raise(c).exec \intersect Motion \subseteq t.exec
    BY <2>4, SteadyBody DEF Steady, Withdraws
  <2>6. QED
    BY <1>1, <2>1, <2>2, <2>5, EndMainKeeps
<1>7. ASSUME NEW stop \in BOOLEAN, EmergencyScan(stop)
      PROVE  Kept
  <2> DEFINE t == Running(stop)
             d == Drop(ClearAllExecute(t), "stop")
             s == IF d.iStep \in MotionSteps THEN Goto(d, "STOPPING") ELSE d
  <2>1. Source(t) /\ InOrder(t) /\ Sound(t)
    BY <1>7, SourceFacts DEF EmergencyScan, CtlInv, Source, Steady
  <2>2. EndMain(s, TRUE)
    BY <1>7 DEF EmergencyScan
  <2> HIDE DEF t
  <2>3. Steady(t, d) /\ d.exec \intersect (Motion \union {"params"}) = {} /\ d \in Block
    <3>1. Steady(t, ClearAllExecute(t))
          /\ ClearAllExecute(t).exec \intersect (Motion \union {"params"}) = {}
      BY <2>1, ClearAllExecuteSteady
    <3>2. d.exec = ClearAllExecute(t).exec \ {"stop"}
      BY <3>1 DEF Drop, Steady, InOrder, Block
    <3>3. Steady(t, d)
      BY <3>1, DropSteady, SteadyTransitive DEF Steady
    <3>4. QED
      BY <3>1, <3>2, <3>3 DEF Steady, InOrder
  <2> HIDE DEF d
  <2>4. Steady(t, Goto(d, "STOPPING"))
    <3>1. /\ InOrder(Goto(d, "STOPPING")) /\ Sound(Goto(d, "STOPPING"))
          /\ Withdraws(t, Goto(d, "STOPPING"))
      BY <2>3, StoppingSteady, WithdrawsTransitive DEF Steady
    <3>2. Goto(d, "STOPPING").exec = d.exec
      BY <2>3 DEF Goto, Block
    <3>3. QED
      BY <2>3, <3>1, <3>2, IdleIsTidy DEF Steady
  <2>5. Steady(t, s)
    BY <2>3, <2>4
  <2> HIDE DEF s
  <2>6. Body(t, s) /\ s.exec \intersect Motion \subseteq t.exec
    BY <2>5, SteadyBody DEF Steady, Withdraws
  <2>7. QED
    BY <2>1, <2>2, <2>6, EndMainKeeps
<1>8. QED
  BY <1>3, <1>4, <1>5, <1>6, <1>7, MainStepKeeps DEF Scan

\* One step: only InterrupMotionCommand leaves the block untidy.
LEMMA NextKeeps ==
  ASSUME IInv, CtlInv, [Next]_vars
  PROVE  /\ CtlInv' /\ BeginsSafely /\ NotRepeated
         /\ TidyInv /\ ~Interrupts => TidyInv'
<1>1. InOrder(fb) /\ Sound(fb) /\ enable \in BOOLEAN
  BY FbInOrder DEF CtlInv
<1>2. ASSUME NEW s, Steady(fb, s), Method(s)
      PROVE  /\ CtlInv' /\ BeginsSafely /\ NotRepeated
             /\ TidyInv => TidyInv'
  BY <1>2, MethodKeeps DEF Steady, TidyInv
<1>3. ASSUME fb' = fb, execute' = execute, params' = params, UNCHANGED history,
             \A b \in Blocks : out'[b] \in {"busy", "done"} => out[b] \in {"busy", "done"}
      PROVE  Kept
  <2>1. CtlInv' /\ BeginsSafely
    BY <1>3 DEF CtlInv, Tracked, BeginsSafely, history
  <2>2. NotRepeated
    BY <1>3 DEF NotRepeated
  <2>3. HomingIsWritten => HomingIsWritten'
    BY <1>3 DEF HomingIsWritten, Sourced, Step, history
  <2>4. \A st \in Moves : BlockOf[st] \in Blocks
    BY BlockOfListed DEF Moves, Motion, Blocks
  <2>5. Earned => Earned'
    BY <1>3, <2>4 DEF Earned, history
  <2>6. QED
    BY <1>3, <2>1, <2>2, <2>3, <2>5 DEF Kept, TidyInv
<1>4. CASE Scan
  BY <1>4, ScanKeeps DEF Kept
<1>5. CASE Axis /\ UNCHANGED ctlVars
  <2>1. execute' = execute
    BY <1>5 DEF Axis, PowerFollows, MotionEnds, HaltEnds, AxisFault, ResetSucceeds, ResetFails
  <2>2. \E bs, r : Report(bs, r)
    BY <1>5 DEF Axis, PowerFollows, MotionEnds, HaltEnds, AxisFault, ResetSucceeds, ResetFails
  <2>3. \A b \in Blocks : out'[b] \in {"busy", "done"} => out[b] \in {"busy", "done"}
    BY <2>2 DEF Report
  <2>4. QED
    BY <1>3, <1>5, <2>1, <2>3 DEF ctlVars, Kept
<1>6. ASSUME NEW c \in Commands, Call(c)
      PROVE  Kept
  BY <1>3, <1>6 DEF Call, axisVars
<1>7. CASE CallStop
  BY <1>1, <1>2, <1>7, StopMotionSteady DEF CallStop
<1>8. CASE CallReset
  BY <1>1, <1>2, <1>8, ResetSteady DEF CallReset
<1>9. CASE CallRaise
  BY <1>1, <1>2, <1>9, RaiseSteady DEF CallRaise, Raise
<1>10. CASE InterrupMotionCommand
  <2>1. Interrupts /\ Method(Goto(fb, "STOPPING"))
    BY <1>10 DEF InterrupMotionCommand
  <2>2. QED
    BY <1>1, <2>1, StoppingSteady, MethodKeeps
<1>11. CASE UNCHANGED vars
  BY <1>3, <1>11 DEF vars, axisVars, ctlVars, Kept
<1>12. QED
  BY <1>4, <1>5, <1>6, <1>7, <1>8, <1>9, <1>10, <1>11 DEF Next, Kept

LEMMA InitCtlInv == Init => CtlInv /\ TidyInv
<1> SUFFICES ASSUME Init
             PROVE  CtlInv /\ TidyInv
  OBVIOUS
<1>1. /\ fb.iStep = "IDLE" /\ fb.xError = FALSE /\ fb.xPaused = FALSE
      /\ fb.done = "none" /\ fb.exec = {} /\ relHeld = FALSE
      /\ \A b \in Blocks : out[b] = "idle"
  BY DEF Init, AxisInit
<1>2. StepOf(fb) = "IDLE" /\ Step = "IDLE"
  BY <1>1 DEF StepOf, Step
<1>3. CtlInv
  BY <1>1, <1>2, MotionStepsListed DEF CtlInv, Sound, Tracked
<1>4. Tidy(fb)
  BY <1>1, IdleIsTidy
<1>5. Earned
  BY <1>1, BlockOfListed DEF Earned, Moves, Motion, Blocks
<1>6. QED
  BY <1>1, <1>2, <1>3, <1>4, <1>5 DEF TidyInv, HomingIsWritten

----------------------------------------------------------------------------
\* The order of the steps, whatever errors, pauses, stops, resets and
\* interruptions come in whatever order.
THEOREM CtlInvariance == AxisCtlSpec => [](IInv /\ CtlInv)
<1>1. Init => IInv /\ CtlInv
  BY InitInv, InitCtlInv
<1>2. IInv /\ CtlInv /\ [Next]_vars => (IInv /\ CtlInv)'
  BY NextInv, NextKeeps
<1>3. QED
  BY <1>1, <1>2, PTL DEF AxisCtlSpec

\* No motion begins but in an enabled scan without a stop, an error or a pause.
THEOREM MotionBeginsSafelyHolds == AxisCtlSpec => MotionBeginsSafely
<1>1. IInv /\ CtlInv /\ [Next]_vars => BeginsSafely
  BY NextKeeps
<1>2. BeginsSafely =>
        [(execute' \intersect Motion) \ execute # {} =>
           /\ enable' /\ "power" \in execute'
           /\ Halts \intersect execute' = {}
           /\ ~fb'.xError /\ ~fb'.xPaused]_vars
  BY DEF BeginsSafely
<1>3. QED
  BY <1>1, <1>2, CtlInvariance, PTL DEF AxisCtlSpec, MotionBeginsSafely

\* A relative move that is still requested after its Done is not repeated.
THEOREM NoRepeatedRelativeHolds == AxisCtlSpec => NoRepeatedRelative
<1>1. IInv /\ CtlInv /\ [Next]_vars => NotRepeated
  BY NextKeeps
<1>2. NotRepeated => [fb'.iStep = "MOVE_REL" /\ fb.iStep = "READY" => ~relHeld']_vars
  BY DEF NotRepeated
<1>3. QED
  BY <1>1, <1>2, CtlInvariance, PTL DEF AxisCtlSpec, NoRepeatedRelative

\* Unless the program calls InterrupMotionCommand, each Execute belongs to the
\* current step.
THEOREM TidyInvariance == ~Interrupts => (AxisCtlSpec => []TidyInv)
<1> SUFFICES ASSUME ~Interrupts
             PROVE  AxisCtlSpec => []TidyInv
  OBVIOUS
<1>1. Init => IInv /\ CtlInv /\ TidyInv
  BY InitInv, InitCtlInv
<1>2. IInv /\ CtlInv /\ TidyInv /\ [Next]_vars => (IInv /\ CtlInv /\ TidyInv)'
  BY NextInv, NextKeeps
<1>3. QED
  BY <1>1, <1>2, PTL DEF AxisCtlSpec

\* Unless the program calls InterrupMotionCommand, at most one motion block
\* has its Execute, and outside an error it is the block of the current step.
THEOREM OneBlockExecutesHolds == ~Interrupts => (AxisCtlSpec => []OneBlockExecutes)
<1> SUFFICES ASSUME ~Interrupts
             PROVE  AxisCtlSpec => []OneBlockExecutes
  OBVIOUS
<1>1. TidyInv => OneBlockExecutes
  <2> SUFFICES ASSUME Tidy(fb)
               PROVE  OneBlockExecutes
    BY DEF TidyInv
  <2>1. CASE fb.xError
    <3>1. PICK b \in Motion : fb.exec \intersect Motion \subseteq {b}
      BY <2>1 DEF Tidy
    <3>2. fb.exec \intersect Motion = {} \/ fb.exec \intersect Motion = {b}
      BY <3>1
    <3>3. Cardinality({}) = 0 /\ Cardinality({b}) = 1
      BY FS_EmptySet, FS_Singleton
    <3>4. QED
      BY <2>1, <3>2, <3>3 DEF OneBlockExecutes
  <2>2. CASE ~fb.xError
    BY <2>2 DEF Tidy, OneBlockExecutes, Step, StepOf
  <2>3. QED
    BY <2>1, <2>2
<1>2. QED
  BY <1>1, TidyInvariance, PTL

\* Unless the program calls InterrupMotionCommand, a Done that a caller reads
\* is that of a move the axis began for the command dispatched last, and none
\* is shown while a command is under way.
THEOREM DoneIsEarnedHolds == ~Interrupts => (AxisCtlSpec => []DoneIsEarned)
<1> SUFFICES ASSUME ~Interrupts
             PROVE  AxisCtlSpec => []DoneIsEarned
  OBVIOUS
<1>1. CtlInv /\ TidyInv => DoneIsEarned
  <2> SUFFICES ASSUME CtlInv, TidyInv
               PROVE  DoneIsEarned
    OBVIOUS
  <2>1. Step \in MotionSteps => fb.done = "none"
    BY DEF CtlInv, Sound, Step, StepOf
  <2>2. \A st \in Moves : XDone(RequestOf(st)) => fb.done = st
    BY DEF Moves, RequestOf, XDone
  <2>3. QED
    BY <2>1, <2>2 DEF DoneIsEarned, TidyInv, Earned
<1>2. QED
  BY <1>1, CtlInvariance, TidyInvariance, PTL

\* Unless the program calls InterrupMotionCommand, the homing move has its
\* Execute only when the parameters were written during this homing, with its
\* own values or those of the withdrawn homing whose writing it resumed.
THEOREM HomeAfterWriteHolds == ~Interrupts => (AxisCtlSpec => []HomeAfterWrite)
<1> SUFFICES ASSUME ~Interrupts
             PROVE  AxisCtlSpec => []HomeAfterWrite
  OBVIOUS
<1>1. TidyInv => HomeAfterWrite
  BY DEF TidyInv, HomingIsWritten, Sourced, HomeAfterWrite
<1>2. QED
  BY <1>1, TidyInvariance, PTL
=============================================================================
