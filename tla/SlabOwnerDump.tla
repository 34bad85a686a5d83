--------------------------- MODULE SlabOwnerDump ---------------------------
(***************************************************************************)
(* The slab owner dump of minidump_memory.c: md_dump_slabowner walks the   *)
(* kmalloc caches its filter selects, prints the name of each, and for     *)
(* each tracked object a record with the stack that allocated it.          *)
(*                                                                         *)
(* struct priv_buf has a start, an offset and a size.  A heading goes to   *)
(* the start and moves it; a record goes to start + offset and moves the   *)
(* offset; the size stays what it was.                                     *)
(***************************************************************************)
EXTENDS DumpText, FiniteSets

CONSTANTS
  SlabSizes,      \* sizes the region may be given
  SlabHandleSizes, SlabRatio, \* sizes of the handle table, and its part
  Caches,         \* kmalloc caches that exist: numbers in the order of the walk
  CacheName,      \* cache -> length of its name line
  MaxObjects      \* bound: tracked objects of the walk

VARIABLES
  md_slabowner_dump_size,
  slab_owner_handles_size,
  slab_owner_filter,  \* the caches selected
  so_mem,             \* the region
  so_start,           \* buf.buf, from the start of the region
  so_offset,          \* buf.offset
  so_cache,           \* the caches still to visit, whether in one, and
                      \* whether its node is still to visit
  num_handles,
  so_log,             \* history: the records, in order
  so_objects          \* objects left (bound)

so_settings == <<md_slabowner_dump_size, slab_owner_handles_size, slab_owner_filter>>
so_walk == <<so_mem, so_start, so_offset, so_cache, num_handles, so_log, so_objects>>

ASSUME SlabOwnerAssumption ==
  /\ SlabSizes \subseteq RegionSizes /\ InitSize \in RegionSizes
  /\ SlabHandleSizes \subseteq TableSizes
  /\ Caches \subseteq Nat /\ CacheName \in [Caches -> 0..RecordMax - 1]

SOInit ==
  /\ md_slabowner_dump_size = InitSize
  /\ slab_owner_handles_size = HandleWidth * 2
  /\ slab_owner_filter = Caches
  /\ so_mem = Fresh(md_slabowner_dump_size)
  /\ so_start = 0
  /\ so_offset = 0
  /\ so_cache = [left |-> Caches, in |-> FALSE, node |-> FALSE]
  /\ num_handles = 0
  /\ so_log = <<>>
  /\ so_objects = MaxObjects

(* slab_owner_filter_write: only caches that exist. *)
SlabFilterWrite(f) ==
  /\ phase = "running"
  /\ slab_owner_filter' = f
  /\ UNCHANGED <<phase, held, md_slabowner_dump_size, slab_owner_handles_size, so_walk>>

(* slab_owner_handle_write. *)
SlabHandleWrite(size) ==
  /\ phase = "running"
  /\ size <= md_slabowner_dump_size \div SlabRatio
  /\ slab_owner_handles_size' = size
  /\ UNCHANGED <<phase, held, md_slabowner_dump_size, slab_owner_filter, so_walk>>

(* slab_owner_dump_size_write: a new region, zeroed. *)
SlabSizeWrite(size) ==
  /\ phase = "running"
  /\ md_slabowner_dump_size' = size
  /\ so_mem' = Fresh(size)
  /\ UNCHANGED <<phase, held, slab_owner_handles_size, slab_owner_filter, so_start,
                 so_offset, so_cache, num_handles, so_log, so_objects>>

-----------------------------------------------------------------------------
SlabTable == md_slabowner_dump_size - slab_owner_handles_size

FirstOf(left) == CHOOSE c \in left : \A d \in left : c <= d

(* A line at the start: the name of a cache, or the empty line after it. *)
SlabLine(len) ==
  LET n == Printed(len, md_slabowner_dump_size) IN
  /\ so_mem' = PutText(so_mem, so_start, n)
  /\ \/ /\ n = md_slabowner_dump_size - 1
        /\ phase' = "between"
        /\ UNCHANGED so_start
     \/ /\ n # md_slabowner_dump_size - 1
        /\ so_start' = so_start + n
        /\ UNCHANGED phase

SlabCache ==
  /\ phase = "slabowner"
  /\ ~so_cache.in
  /\ so_cache.left \cap slab_owner_filter # {}
  /\ LET c == FirstOf(so_cache.left \cap slab_owner_filter)
     IN /\ SlabLine(CacheName[c])
        /\ so_cache' = [left |-> so_cache.left \ {c}, in |-> TRUE, node |-> TRUE]
  /\ UNCHANGED <<held, so_settings, so_offset, num_handles, so_log, so_objects>>

(* The list_lock of the cache's node (there is one), which is left out if the
   node has no slabs. *)
SlabLock ==
  /\ phase = "slabowner"
  /\ so_cache.in /\ so_cache.node
  /\ so_cache' = [so_cache EXCEPT !.node = FALSE]
  /\ Take("list")
  /\ UNCHANGED <<phase, so_settings, so_mem, so_start, so_offset, num_handles, so_log,
                 so_objects>>

(* It may be held by a CPU that was stopped. *)
SlabBlocked ==
  /\ phase = "slabowner"
  /\ so_cache.in /\ so_cache.node
  /\ "list" \in stopped
  /\ phase' = "blocked"
  /\ UNCHANGED <<held, so_settings, so_walk>>

SlabLocked == phase = "slabowner" /\ held["list"] > 0

(* Mutant of SlabLeft: the offset is not taken off. *)
SlabLeftWhole == md_slabowner_dump_size

(* priv_buf->size - priv_buf->offset. *)
SlabLeft == md_slabowner_dump_size - so_offset

(* dump_tracking: one object with a stack; others are passed over. *)
SlabObject(h) ==
  /\ SlabLocked
  /\ so_objects > 0
  /\ so_objects' = so_objects - 1
  /\ LET r == Record(so_mem, num_handles, h, so_start + so_offset,
                     SlabLeft, SlabTable, md_slabowner_dump_size)
     IN /\ so_mem' = r.mem
        /\ num_handles' = r.nr
        /\ so_log' = Append(so_log, r.log)
        /\ so_offset' = so_offset + r.len
  /\ UNCHANGED <<phase, held, so_settings, so_start, so_cache>>

(* After the objects of a slab page: "slabowner minidump region exhausted". *)
SlabExhausted ==
  /\ SlabLocked
  /\ so_offset = md_slabowner_dump_size - 1
  /\ Give("list")
  /\ phase' = "between"
  /\ UNCHANGED <<so_settings, so_walk>>

(* The last slab page of the node. *)
SlabUnlock ==
  /\ SlabLocked
  /\ so_offset # md_slabowner_dump_size - 1
  /\ Give("list")
  /\ UNCHANGED <<phase, so_settings, so_walk>>

SlabCacheEnd ==
  /\ phase = "slabowner"
  /\ so_cache.in /\ held["list"] = 0
  /\ SlabLine(1)
  /\ so_cache' = [so_cache EXCEPT !.in = FALSE]
  /\ UNCHANGED <<held, so_settings, so_offset, num_handles, so_log, so_objects>>

SlabsEnd ==
  /\ phase = "slabowner"
  /\ ~so_cache.in
  /\ so_cache.left \cap slab_owner_filter = {}
  /\ phase' = "between"
  /\ UNCHANGED <<held, so_settings, so_walk>>

SlabOwnerNext ==
  \/ \E f \in SUBSET Caches : SlabFilterWrite(f)
  \/ \E h \in SlabHandleSizes : SlabHandleWrite(h)
  \/ \E s \in SlabSizes : SlabSizeWrite(s)
  \/ SlabCache
  \/ SlabLock \/ SlabBlocked
  \/ \E h \in Handles : SlabObject(h)
  \/ SlabExhausted
  \/ SlabUnlock
  \/ SlabCacheEnd
  \/ SlabsEnd

-----------------------------------------------------------------------------
(* The records of all caches together end at most as far behind the region as
   the headings are long: each heading moves the start and the size is never
   reduced by it (minidump_memory.c:877). *)
SlabOverrunBounded ==
  \A c \in Cells : c >= md_slabowner_dump_size + so_start => so_mem[c] = Foreign

SlabStacksResolve == Resolves(so_log, SlabTable)

(* minidump_memory.c:894, "slabowner minidump region exhausted": the walk
   stops at the end of the region. *)
SlabOwnerInside == ~Outside(so_mem, md_slabowner_dump_size)

(* Every record that was written is still there when the walk ends: the text
   in front of the end of the records is not broken by a terminator. *)
SlabTextIntact ==
  \A c \in 0..so_start + so_offset - 1 : c \in Cells => so_mem[c] = Text
=============================================================================
