---------------------------- MODULE MemoryDumps ----------------------------
(***************************************************************************)
(* The memory part of md_dump_process: after a panic the dumps whose       *)
(* region is registered are written one after the other, on one CPU.  The  *)
(* settings of each may change until then.                                 *)
(***************************************************************************)
EXTENDS PageOwnerDump, SlabOwnerDump, DmaBufDump

CONSTANTS
  RegisteredSets,        \* which regions may be registered
  StoppedSets            \* which locks the stopped CPUs may hold

VARIABLES
  registered,            \* the dumps whose address is not NULL
  todo                   \* those not yet written

Order == <<"pageowner", "slabowner", "dma_info", "dma_procs">>

ASSUME RegisteredAssumption ==
  RegisteredSets \subseteq SUBSET ToSet(Order) /\ StoppedSets \subseteq SUBSET Locks

page_vars == <<po_settings, po_walk>>
slab_vars == <<so_settings, so_walk>>
dma_vars  == <<dma_size, di_vars, dp_vars>>
vars == <<phase, stopped, held, registered, todo, page_vars, slab_vars, dma_vars>>

Init ==
  /\ phase = "running"
  /\ registered \in RegisteredSets
  /\ todo = registered
  /\ stopped = {} /\ held = [l \in Holds |-> 0]
  /\ POInit /\ SOInit /\ DInit

(* The panic stops everything else, whatever locks it holds. *)
Panic ==
  /\ phase = "running"
  /\ phase' = "between"
  /\ stopped' \in StoppedSets
  /\ UNCHANGED <<held, registered, todo, page_vars, slab_vars, dma_vars>>

(* The next region that is registered, or the end of md_dump_process. *)
NextDump ==
  /\ phase = "between"
  /\ \/ \E i \in DOMAIN Order :
          /\ Order[i] \in todo
          /\ \A j \in 1..i - 1 : Order[j] \notin todo
          /\ phase' = Order[i]
          /\ todo' = todo \ {Order[i]}
     \/ /\ todo = {}
        /\ phase' = "end"
        /\ UNCHANGED todo
  /\ UNCHANGED <<stopped, held, registered, page_vars, slab_vars, dma_vars>>

(* The files of a dump exist once its region was registered at boot. *)
PageStep == /\ "pageowner" \in registered
            /\ PageOwnerNext
            /\ UNCHANGED <<stopped, held, registered, todo, slab_vars, dma_vars>>
SlabStep == /\ "slabowner" \in registered
            /\ SlabOwnerNext
            /\ UNCHANGED <<stopped, registered, todo, page_vars, dma_vars>>
DmaStep  == /\ DmaBufNext
            /\ UNCHANGED <<stopped, registered, todo, page_vars, slab_vars>>

Writing == phase \notin {"running", "end"}

Next == Panic \/ NextDump \/ PageStep \/ SlabStep \/ DmaStep

(* The CPU that panicked goes on; every walk is over finite lists. *)
Spec == Init /\ [][Next]_vars /\ WF_vars(Writing /\ Next)

-----------------------------------------------------------------------------
(* Type invariant of the three writers. *)
TypeOK ==
  /\ phase \in {"running", "between", "blocked", "end"} \cup ToSet(Order)
  /\ registered \subseteq ToSet(Order)
  /\ todo \subseteq registered
  /\ md_pageowner_dump_size \in PageSizes
  /\ page_owner_handles_size \in Nat
  /\ page_owner_filter \subseteq Filters
  /\ accounted \subseteq Sites
  /\ po_pos \in 0..md_pageowner_dump_size - 1
  /\ nr_handles \in Nat
  /\ md_slabowner_dump_size \in SlabSizes \cup {InitSize} /\ slab_owner_handles_size \in Nat
  /\ slab_owner_filter \subseteq Caches
  /\ so_start \in Nat
  /\ so_offset \in 0..md_slabowner_dump_size - 1
  /\ num_handles \in Nat
  /\ di_offset \in 0..dma_size - 1
  /\ stopped \subseteq Locks /\ held \in [Holds -> Nat]
  /\ dp_offset \in 0..dma_size - 1
  /\ dp_ret \in -1..LineLen
  /\ dma_buf_hash \subseteq {BufHash[b] : b \in Bufs}

(* A record of 0 entries stands for a stack that was printed before
   (found_stack, find_stack), whatever the scratch prints of check_unaccounted,
   long records and the headings of the caches did to the handle table. *)
StacksResolve == PageStacksResolve /\ SlabStacksResolve

(* A panic gets to the end of md_dump_process, whatever the regions are full
   of: each walk either runs through or gives up.  Only a lock that a CPU held
   when it was stopped can hold it up for good (the dump takes six kinds of them,
   at minidump_memory.c:405, 888, 1057, 1172, 1287 and 1293): none that an earlier
   part of the dump has left held does. *)
DumpsEnd == phase = "between" ~> phase = "end" \/ (phase = "blocked" /\ stopped # {})

(* Refuted: nothing holds it up, so that the panic notifiers behind it run. *)
DumpsAlwaysEnd == phase = "between" ~> phase = "end"
=============================================================================
