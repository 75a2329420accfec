--------------------------- MODULE CommandRegister ---------------------------
(****************************************************************************)
(* What /dev/shm/plc_cmd promises the PLC: it behaves like one register     *)
(* that the bridge overwrites whole and the PLC reads whole.  A read either *)
(* returns exactly the last completed publication or changes nothing, and   *)
(* a segment that no bridge has written yet is never taken for a command.   *)
(****************************************************************************)
CONSTANTS Values, Blank   \* Blank: the zeroed segment

VARIABLES
  value,    \* the last completed publication
  latched   \* <<the command the PLC holds>>, or <<>>

Init == value = Blank /\ latched = <<>>

Publish == value' \in Values \ {Blank} /\ UNCHANGED latched

Latch == value # Blank /\ latched' = <<value>> /\ UNCHANGED value

Next == Publish \/ Latch

Spec == Init /\ [][Next]_<<value, latched>>

\* The PLC program starts over; the segment keeps its content.
Forget == latched' = <<>> /\ UNCHANGED value

RestartingSpec == Init /\ [][Next \/ Forget]_<<value, latched>>
=============================================================================
