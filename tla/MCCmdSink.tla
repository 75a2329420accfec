------------------------------ MODULE MCCmdSink ------------------------------
(* Two axes, one further flag and one scalar field: every closure kind.      *)
EXTENDS CmdSink

MCAxes == {1, 2}
MCOtherFlags == {"moveAbs"}
MCRegs == {"machine"}
MCWords == {0, 1}
=============================================================================
