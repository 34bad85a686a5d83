---------------------------- MODULE MCDumpResize ----------------------------
(* Small instances of DumpResize for TLC. *)
EXTENDS DumpResize, TLC

(* Buffers are alike, and so are writers. *)
MCSymmetry == Permutations(Buffers) \cup Permutations(Writers)
=============================================================================
