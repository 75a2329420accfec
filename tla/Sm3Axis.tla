------------------------------ MODULE Sm3Axis ------------------------------
(***************************************************************************)
(* The SoftMotion axis and the PLCopen function blocks the axis control    *)
(* block drives.  They are a library, modelled from how MC_BasicControl    *)
(* uses them:                                                              *)
(*   - a block acts on a rising edge of Execute and reports Done, Error or *)
(*     an abort while Execute stays TRUE;                                  *)
(*   - dropping the Execute of a motion block does not stop the axis: only *)
(*     MC_Stop does, or a fault, or cutting the power;                     *)
(*   - while an MC_Stop has its Execute the axis stays in `stopping' and   *)
(*     refuses motion.                                                     *)
(***************************************************************************)
EXTENDS Integers

VARIABLES
  execute,    \* blocks whose Execute was TRUE when they were last called, and
              \* "power" when MC_Power was asked for the regulator
  out,        \* what each block reports
  regulator,  \* Axis.bRegulatorOn
  axisError,  \* Axis.bError
  mover       \* the block that moves the axis, "halting", or "none"

axisVars == <<execute, out, regulator, axisError, mover>>

Motion == {"abs", "rel", "vel", "home"}
Halts == {"stop", "ems"}        \* _fbMC_Stop and _fbMC_Stop_EMS
Blocks == Motion \union Halts \union {"reset"}
\* "noError" is an Error whose ErrorID is SMC_R_NO_ERROR_TO_RESET.
Reports == {"idle", "busy", "done", "error", "aborted", "noError"}

AxisTypeOK ==
  /\ execute \subseteq Blocks \union {"power"}
  /\ out \in [Blocks -> Reports]
  /\ regulator \in BOOLEAN /\ axisError \in BOOLEAN
  /\ mover \in Motion \union {"halting", "none"}

AxisInit ==
  /\ execute = {}
  /\ out = [b \in Blocks |-> "idle"]
  /\ regulator = FALSE
  /\ axisError \in BOOLEAN
  /\ mover = "none"

Powered == regulator /\ ~axisError

\* Axis.nAxisState = standstill: powered, no error, no motion and no MC_Stop.
Standstill ==
  /\ Powered /\ mover = "none"
  /\ \A b \in Halts : out[b] \notin {"busy", "done"}

\* What block b answers to the rising edge of its Execute, with the Execute
\* inputs `inputs' of the scan.
Answer(b, inputs) ==
  IF b = "reset" THEN IF axisError THEN "busy" ELSE "noError"
  ELSE IF /\ Powered
          /\ b \in Motion => Halts \intersect inputs = {} /\ mover # "halting"
          /\ b = "home" => mover = "none"
       THEN "busy" ELSE "error"

\* The blocks that begin to command the axis in this scan.
Begun(inputs) ==
  {b \in (inputs \ execute) \ {"reset", "power"} : Answer(b, inputs) = "busy"}

\* One call of every block.  A block that begins aborts the one that moves
\* the axis.
CallBlocks(inputs) ==
  /\ execute' = inputs
  /\ out' = [b \in Blocks |->
       IF b \notin inputs THEN "idle"
       ELSE IF b \notin execute THEN Answer(b, inputs)
       ELSE IF out[b] = "busy" /\ b \in Motion /\ Begun(inputs) # {} THEN "aborted"
       ELSE out[b]]
  /\ mover' = IF Halts \intersect Begun(inputs) # {} THEN "halting"
              ELSE IF Begun(inputs) # {} THEN CHOOSE b \in Begun(inputs) : TRUE
              ELSE mover
  /\ UNCHANGED <<regulator, axisError>>

\* The busy blocks among `bs' report r.
Report(bs, r) ==
  out' = [b \in Blocks |-> IF b \in bs /\ out[b] = "busy" THEN r ELSE out[b]]

\* The regulator follows what MC_Power asks of it; without power the axis
\* coasts to rest and what was under way fails.
PowerFollows ==
  /\ regulator # ("power" \in execute /\ ~axisError)
  /\ regulator' = ("power" \in execute /\ ~axisError)
  /\ mover' = "none"
  /\ Report(Motion \union Halts, "error")
  /\ UNCHANGED <<execute, axisError>>

\* A positioning or homing move arrives; a velocity move never does.
MotionEnds ==
  /\ mover \in Motion \ {"vel"}
  /\ mover' = "none"
  /\ Report({mover}, "done")
  /\ UNCHANGED <<execute, regulator, axisError>>

HaltEnds ==
  /\ mover = "halting"
  /\ mover' = "none"
  /\ Report(Halts, "done")
  /\ UNCHANGED <<execute, regulator, axisError>>

\* The drive reports a fault and drops its regulator.
AxisFault ==
  /\ ~axisError
  /\ axisError' = TRUE
  /\ regulator' = FALSE
  /\ mover' = "none"
  /\ Report(Motion \union Halts, "error")
  /\ UNCHANGED execute

ResetSucceeds ==
  /\ out["reset"] = "busy"
  /\ axisError' = FALSE
  /\ Report({"reset"}, "done")
  /\ UNCHANGED <<execute, regulator, mover>>

ResetFails ==
  /\ out["reset"] = "busy"
  /\ Report({"reset"}, "error")
  /\ UNCHANGED <<execute, regulator, axisError, mover>>
============================================================================
