--------------------------- MODULE MCCpussRegDump ---------------------------
(* Small instances of CpussRegDump for TLC. *)
EXTENDS CpussRegDump

Config(o, v, c, p) == [offset |-> o, val |-> v, cmd |-> c, per_core |-> p]

(* Each command in both parts, with lengths and counts that do not fit too. *)
MCConfigs ==
  {Config(4, v, "r", p) : v \in {4, 8}, p \in BOOLEAN}
    \cup {Config(4, 252, "r", p) : p \in BOOLEAN}
    \cup {Config(8, v, "R", FALSE) : v \in {1, 8}}
    \cup {Config(12, 2, "R", TRUE), Config(12, 3, "d", FALSE),
          Config(8, 0, "w", TRUE)}

(* Reads of the register at offset 0 as well. *)
MCConfigsZero == MCConfigs \cup {Config(0, v, "r", p) : v \in {4, 8}, p \in BOOLEAN}

MCNums == {0, 1, 2, 40, 64}

(* Half the range of u32: twice that is 0. *)
MCNumsWrap == MCNums \cup {2^(W - 1)}

MCSymmetry == Permutations(Writers)
=============================================================================
