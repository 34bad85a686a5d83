---------------------------- MODULE MCMinidumpRM ----------------------------
(* Small instances of MinidumpRM for TLC. *)
EXTENDS MinidumpRM

MCNames == {"a", "b"}
MCNameLen == [n \in MCNames |-> IF n = "b" THEN 2 ELSE 1]

(* Region "a" at two places, "b" at one. *)
MCRegions ==
  {[name |-> "a", virt_addr |-> p, phys_addr |-> p + 10, size |-> 4] : p \in {1, 2}}
    \cup {[name |-> "b", virt_addr |-> 3, phys_addr |-> 13, size |-> 8]}

(* Region "a" has another size at its second place. *)
MCTwoSizes == {[e EXCEPT !.size = IF e.virt_addr = 2 THEN 8 ELSE @] : e \in MCRegions}

MCFewRegions == {e \in MCRegions : e.virt_addr # 2}

(* The workers of the queue are alike. *)
MCSymmetry == Permutations(Workers)
=============================================================================
