---------------------------- MODULE MCDumpTable ----------------------------
(* Small instances of DumpTable for TLC. *)
EXTENDS DumpTable

(* Nodes with both properties (a size of 0 and the id 0 are legal values),
   without a size and without an id; no two nodes of a tree are the same. *)
MCNodes == {[size |-> 3, id |-> 0], [size |-> 0, id |-> 12], [size |-> 7, id |-> 13],
            [size |-> NoProperty, id |-> 14], [size |-> 5, id |-> NoProperty]}

MCDeviceTrees ==
  {t \in UNION {[1..n -> MCNodes] : n \in 0..4} :
     \A i, j \in DOMAIN t : i # j => t[i] # t[j]}
=============================================================================
