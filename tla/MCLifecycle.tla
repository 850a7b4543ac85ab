---------------------------- MODULE MCLifecycle ----------------------------
(* Small instances of Lifecycle for TLC.                                   *)
EXTENDS Lifecycle, TLC

IoOnly       == {"io"}
HostFailures == {"crash", "io", "fork"}
AllButFork   == {"crash", "io", "pid_reuse"}
NoFaults     == {}

\* Commands and pids are interchangeable (safety runs only).
Symmetry == Permutations(Cmds) \cup Permutations(Pids)
=============================================================================
