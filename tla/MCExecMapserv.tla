---------------------------- MODULE MCExecMapserv ----------------------------
(* ExecMapserv on small instances.                                         *)
EXTENDS ExecMapserv, TLC

\* Workers and kids are interchangeable (used where no liveness is checked).
Symmetry == Permutations(Workers) \cup Permutations(Kids)
=============================================================================
