---------------------------- MODULE MCDeployment ----------------------------
(* Small instances of Deployment for TLC.                                  *)
EXTENDS Deployment, TLC

OnlyGo == {"go"}

\* Ports 3000, 30001 and 3000 again: the second is taken for the first, but not the
\* third for the second; the third version is another application with the first's port.
PortOf == [v \in Specs |-> IF v = 2 THEN <<3, 0, 0, 0, 1>> ELSE <<3, 0, 0, 0>>]

\* What the future of an instance depends on: not the histories of Artifacts, nor what a
\* build or a load has left in variables that its next one sets before it reads them.
Loading == {"preparing", "finding", "spawned", "listening"}
Relevant ==
    LET Idle(c) == pc[c] \in Ended /\ (c \in Loaders => phase[c] \notin Loading)
    IN  <<spec, code, language, files, seen, deployment,
          [c \in Commands |-> IF Idle(c) THEN "idle" ELSE pc[c]],
          [b \in Builders |-> IF Building(b) THEN made[b] ELSE Nothing],
          [l \in Loaders |-> IF phase[l] \in Loading THEN loaded[l] ELSE None]>>

Symmetry == Permutations(Starts)
=============================================================================
