---------------------------- MODULE MCCommandPath ----------------------------
(* One axis, both jog bits, one scalar field: restarts and the dead-man need *)
(* no second axis.                                                           *)
EXTENDS CommandPath

MCAxes == {1}
MCOtherFlags == {}
MCRegs == {"machine"}
MCWords == {0, 1}
=============================================================================
