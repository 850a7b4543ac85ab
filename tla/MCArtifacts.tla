---------------------------- MODULE MCArtifacts ----------------------------
(* Small instances of Artifacts for TLC.                                   *)
EXTENDS Artifacts, TLC

BothLanguages == {"rust", "go"}

\* Builds are interchangeable.
Symmetry == Permutations(Builders)
=============================================================================
