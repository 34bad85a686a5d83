--------------------------- MODULE PageOwnerDump ---------------------------
(***************************************************************************)
(* The page owner dump of minidump_memory.c: the debugfs files that set    *)
(* its filter, its call sites, the size of its handle table and the size   *)
(* of the region, and the walk over all pages that fills the region when   *)
(* the system panics.                                                      *)
(*                                                                         *)
(* The files are written while the system runs, each of them on its own;   *)
(* the walk runs once, on the CPU that panics, the others being stopped.   *)
(* DumpResize models how the region is replaced; here a resize is one      *)
(* step.                                                                   *)
(***************************************************************************)
EXTENDS DumpText, FiniteSets

CONSTANTS
  FilterSets,     \* filters that are set
  PageSizes,      \* sizes the region may be given
  HandleSizes,    \* sizes the handle table may be given
  HandleRatio,    \* 16: the part of the region the table may take
  PageKinds,      \* the pages the walk may meet
  SymLen,         \* length of a call site printed by name
  MaxPages        \* bound: tracked pages of the walk

VARIABLES
  md_pageowner_dump_size,
  page_owner_handles_size,
  page_owner_filter,        \* a set of filters
  accounted,                \* accounted_call_site_list
  po_mem,                   \* the region
  po_pos,                   \* how far the text has got
  nr_handles,
  po_log,                   \* history: the records, in order
  po_dumped,                \* history: the pages that have one
  po_pages                  \* pages left to visit (bound)

po_settings == <<md_pageowner_dump_size, page_owner_handles_size,
                 page_owner_filter, accounted>>
po_walk == <<po_mem, po_pos, nr_handles, po_log, po_dumped, po_pages>>

Filters == {"unaccounted", "slab", "anon", "file"}

Sites == UNION {{Stack[h][i] : i \in DOMAIN Stack[h]} : h \in Handles}

PageKind == [lru : BOOLEAN, slab : BOOLEAN, swapbacked : BOOLEAN, handle : Handles]

ASSUME PageOwnerAssumption ==
  /\ PageKinds \subseteq PageKind
  /\ PageSizes \subseteq RegionSizes /\ InitSize \in PageSizes
  /\ FilterSets \subseteq SUBSET Filters
  /\ HandleSizes \subseteq TableSizes
  /\ SymLen \in 0..RecordMax - 1

POInit ==
  /\ md_pageowner_dump_size = InitSize
  /\ page_owner_handles_size = HandleWidth * 2
  /\ page_owner_filter = Filters
  /\ accounted = {}
  /\ po_mem = Fresh(md_pageowner_dump_size)
  /\ po_pos = 0
  /\ nr_handles = 0
  /\ po_log = <<>>
  /\ po_dumped = {}
  /\ po_pages = MaxPages

-----------------------------------------------------------------------------
(* page_owner_filter_write: any combination of the four. *)
FilterWrite(f) ==
  /\ phase = "running"
  /\ page_owner_filter' = f
  /\ UNCHANGED <<phase, md_pageowner_dump_size, page_owner_handles_size,
                 accounted, po_walk>>

(* page_owner_handle_write: the limit is that of the region's size now. *)
HandleWrite(size) ==
  /\ phase = "running"
  /\ size <= md_pageowner_dump_size \div HandleRatio
  /\ page_owner_handles_size' = size
  /\ UNCHANGED <<phase, md_pageowner_dump_size, page_owner_filter,
                 accounted, po_walk>>

(* page_owner_call_site_write. *)
CallSiteWrite(s) ==
  /\ phase = "running"
  /\ accounted' = accounted \cup {s}
  /\ UNCHANGED <<phase, md_pageowner_dump_size, page_owner_handles_size,
                 page_owner_filter, po_walk>>

(* page_owner_dump_size_write: a new region, zeroed.  The size of the handle
   table stays what it was. *)
PageSizeWrite(size) ==
  /\ phase = "running"
  /\ md_pageowner_dump_size' = size
  /\ po_mem' = Fresh(size)
  /\ UNCHANGED <<phase, page_owner_handles_size, page_owner_filter, accounted,
                 po_pos, nr_handles, po_log, po_dumped, po_pages>>

-----------------------------------------------------------------------------
TableStart == md_pageowner_dump_size - page_owner_handles_size

(* What is left of the region. *)
Left == md_pageowner_dump_size - po_pos

NoFlags(p) == ~p.lru /\ ~p.slab /\ ~p.swapbacked

(* check_unaccounted prints each call site of the page's stack over the text
   to come, to look for the accounted names in it. *)
Scratches(p) ==
  /\ page_owner_filter # Filters
  /\ "unaccounted" \in page_owner_filter
  /\ NoFlags(p)
  /\ Stack[p.handle] # <<>>

AfterScratch(p) ==
  IF Scratches(p) THEN PutText(po_mem, po_pos, Printed(SymLen, Left)) ELSE po_mem

(* It takes accounted_call_site_lock for each, unless the line does not fit.  With
   the lock held by a CPU that was stopped it never gets it. *)
SitesBlocked(p) ==
  Scratches(p) /\ Printed(SymLen, Left) # Left - 1 /\ "call_site" \in stopped

CheckUnaccounted(p) ==
  /\ NoFlags(p)
  /\ Stack[p.handle] # <<>> => Printed(SymLen, Left) # Left - 1
  /\ \A i \in DOMAIN Stack[p.handle] : Stack[p.handle][i] \notin accounted

(* The filter of dump_page_owner_md.  0x8 asks for LRU pages with
   ~(flags & PG_swapbacked), a bitwise complement that is never 0. *)
Selected(p) ==
  \/ page_owner_filter = Filters
  \/ "unaccounted" \in page_owner_filter /\ CheckUnaccounted(p)
  \/ "slab" \in page_owner_filter /\ p.slab
  \/ "anon" \in page_owner_filter /\ p.swapbacked
  \/ "file" \in page_owner_filter /\ p.lru

(* One allocated page with a handle; the walk passes over all others. *)
DumpPage(p) ==
  /\ phase = "pageowner"
  /\ po_pages > 0
  /\ po_pages' = po_pages - 1
  /\ \/ /\ SitesBlocked(p)
        /\ po_mem' = AfterScratch(p)
        /\ phase' = "blocked"
        /\ UNCHANGED <<po_pos, nr_handles, po_log, po_dumped>>
     \/ /\ ~SitesBlocked(p) /\ ~Selected(p)
        /\ po_mem' = AfterScratch(p)
        /\ UNCHANGED <<phase, po_pos, nr_handles, po_log, po_dumped>>
     \/ /\ ~SitesBlocked(p) /\ Selected(p)
        /\ LET r == Record(AfterScratch(p), nr_handles, p.handle, po_pos, Left,
                           TableStart, md_pageowner_dump_size)
           IN /\ po_mem' = r.mem
              /\ nr_handles' = r.nr
              /\ po_log' = Append(po_log, r.log)
              /\ po_dumped' = po_dumped \cup {p}
              /\ po_pos' = po_pos + r.len
              /\ phase' = IF r.len = Left - 1 THEN "between" ELSE phase
  /\ UNCHANGED po_settings

(* Mutant of PagesEnd: only a full region ends the walk. *)
PagesEndWhenFull ==
  /\ phase = "pageowner"
  /\ Left = 1
  /\ phase' = "between"
  /\ UNCHANGED <<po_settings, po_walk>>

(* The last page has been visited. *)
PagesEnd ==
  /\ phase = "pageowner"
  /\ phase' = "between"
  /\ UNCHANGED <<po_settings, po_walk>>

PageOwnerNext ==
  \/ \E f \in FilterSets : FilterWrite(f)
  \/ \E h \in HandleSizes : HandleWrite(h)
  \/ \E s \in Sites : CallSiteWrite(s)
  \/ \E s \in PageSizes : PageSizeWrite(s)
  \/ \E p \in PageKinds : DumpPage(p)
  \/ PagesEnd

-----------------------------------------------------------------------------
(* Nothing before or behind the region is written, in whatever order its
   size, the size of the handle table and the filter were set: found_stack
   computes the place of the table from two sizes that are set apart, and
   the table may start in front of a region that has become smaller. *)
PageOwnerInside == ~Outside(po_mem, md_pageowner_dump_size)

(* The text and the handles share the region from both ends: a handle that is
   stored never damages a record, neither one before nor the one being
   written. *)
TextIntact == \A c \in 0..po_pos - 1 : po_mem[c] = Text

PageStacksResolve == Resolves(po_log, TableStart)

(* What page_owner_filter_write says of the filters, "0x4 - Anon" and "0x8 -
   File": a page that is dumped is one of those asked for. *)
FilterKept ==
  \A p \in po_dumped :
    \/ page_owner_filter = Filters
    \/ "unaccounted" \in page_owner_filter /\ NoFlags(p)
    \/ "slab" \in page_owner_filter /\ p.slab
    \/ "anon" \in page_owner_filter /\ p.swapbacked
    \/ "file" \in page_owner_filter /\ p.lru /\ ~p.swapbacked
=============================================================================
