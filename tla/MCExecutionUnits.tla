------------------------- MODULE MCExecutionUnits -------------------------
(* Small instances of ExecutionUnits for TLC.                              *)
EXTENDS ExecutionUnits

ServerInvoke   == {"server", "invoke"}
NoFaults       == {}
AllFaults      == {"kill", "io", "client", "home"}
=============================================================================
