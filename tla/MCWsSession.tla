------------------------------ MODULE MCWsSession ------------------------------
EXTENDS WsSession

\* No vendor password; tuner and operator share theirs.
EnvHashesMC == [vendor |-> "", tuner |-> "shift", operator |-> "shift"]
=============================================================================
