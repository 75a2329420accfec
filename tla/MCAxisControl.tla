--------------------------- MODULE MCAxisControl ---------------------------
(* The constants are given in the configurations.                          *)
(*                                                                         *)
(* The history of the last command is read only while that command can     *)
(* still act on it: a step of the same kind, or a Done it left.  The next  *)
(* dispatch starts it anew.  Recalled identifies states that differ in     *)
(* the rest of it only.                                                    *)
EXTENDS AxisControl

\* The blocks whose Done is shown or may still come from the current step.
Awaited ==
  {BlockOf[st] : st \in Moves \intersect {Step, fb.done}}
    \union (IF Step = "HOMING_WRITE_PARAM" THEN {"home"} ELSE {})

Homing == Step \in {"HOMING_WRITE_PARAM", "HOMING_EXEC"} \/ "home" \in fb.exec

Recalled ==
  <<axisVars, fb, request, enable, params, relHeld, began \intersect Awaited,
    IF Homing THEN <<own, wrote, resumed>> ELSE <<>>>>
=============================================================================
