--------------------------- MODULE MCMinidumpSmem ---------------------------
(* Small instances of MinidumpSmem for TLC. *)
EXTENDS SmemRegistry

MCNames == {"a", "b", "c"}
MCNameLen == [n \in MCNames |-> IF n = "b" THEN 2 ELSE 1]

(* One place for each name. *)
MCFewRegions ==
  {[name |-> "a", virt_addr |-> 1, phys_addr |-> 11, size |-> 4],
   [name |-> "b", virt_addr |-> 3, phys_addr |-> 13, size |-> 8],
   [name |-> "c", virt_addr |-> 2, phys_addr |-> 12, size |-> 4]}

(* "a" has a second place, where "c" may be too and is as large, so that they
   can come to cover the same memory. *)
MCRegions ==
  MCFewRegions \cup {[name |-> "a", virt_addr |-> 2, phys_addr |-> 12, size |-> 4]}
=============================================================================
