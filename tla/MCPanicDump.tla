---------------------------- MODULE MCPanicDump ----------------------------
(* A small instance of PanicDump for TLC.  The CPUs are alike. *)
EXTENDS PanicDump, TLC

Symmetry == Permutations(CPUs)
=============================================================================
