------------------------- MODULE MemoryDumpsProofs -------------------------
(***************************************************************************)
(* Proofs about the writers of the memory dumps, for regions, handle       *)
(* tables, stacks, pages, caches, buffers and processes of any number and  *)
(* size: where the two owner dumps write, that a record without its stack  *)
(* names one that was printed, and what the dma-buf dumps list and leave.  *)
(***************************************************************************)
EXTENDS MemoryDumps, NaturalsInduction, WellFoundedInduction, TLAPS

-----------------------------------------------------------------------------
(***************************************************************************)
(* A region with text from the front and a handle table at t.  While the   *)
(* text is a record away from the table, every handle in it is that of a   *)
(* record printed with its stack.                                          *)
(***************************************************************************)
LogRecord == [start : Int, handle : Handles, full : BOOLEAN]

TableLogged(m, t, nr, log) ==
  \A i \in 0..nr - 1 :
    \E j \in DOMAIN log :
      /\ log[j].full
      /\ \A b \in 1..HandleWidth : m[t + HandleWidth * i + b - 1] = log[j].handle[b]

OwnerInv(m, pos, nr, log, t, size) ==
  /\ nr \in Nat /\ HandleWidth * nr <= size - t
  /\ log \in Seq(LogRecord)
  /\ pos + RecordMax <= t => TableLogged(m, t, nr, log)
  /\ Resolves(log, t)

(* scnprintf prints less than it has room for, and all of what fits. *)
LEMMA PrintedFacts ==
  ASSUME NEW len \in Nat, NEW count \in Nat \ {0}
  PROVE  /\ Printed(len, count) \in 0..count - 1
         /\ Printed(len, count) <= len
  BY DEF Printed

(* Handles of the same bytes are the same. *)
LEMMA HandleEqual ==
  ASSUME NEW g \in Handles, NEW h \in Handles, \A b \in 1..HandleWidth : g[b] = h[b]
  PROVE  g = h
  <1>1. g \in Seq(0..7) /\ h \in Seq(0..7) /\ Len(g) = 2 /\ Len(h) = 2
    BY HandlesAssumption DEF HandleWidth
  <1>2. DOMAIN g = 1..2 /\ DOMAIN h = 1..2
    BY <1>1
  <1> QED
    BY <1>1, <1>2 DEF HandleWidth

(* Text that ends before the table does not change it. *)
LEMMA PutTextTable ==
  ASSUME NEW size \in RegionSizes, NEW m, NEW t \in Nat, NEW nr \in Nat, NEW log,
         HandleWidth * nr <= size - t, NEW pos \in Nat, NEW n \in Nat, pos + n < t,
         TableLogged(m, t, nr, log)
  PROVE  TableLogged(PutText(m, pos, n), t, nr, log)
  <1>1. ASSUME NEW i \in 0..nr - 1, NEW b \in 1..HandleWidth
        PROVE  PutText(m, pos, n)[t + HandleWidth * i + b - 1] = m[t + HandleWidth * i + b - 1]
    <2>1. t + HandleWidth * i + b - 1 \in 0..size - 1 /\ t + HandleWidth * i + b - 1 > pos + n
      BY DEF HandleWidth, RegionSizes
    <2>2. t + HandleWidth * i + b - 1 \in Cells
      BY <2>1 DEF RegionSizes
    <2> QED
      BY <2>1, <2>2 DEF PutText
  <1> QED
    BY <1>1 DEF TableLogged

(* What one record does to the region and to the table. *)
LEMMA RecordStep ==
  ASSUME NEW size \in RegionSizes, NEW hs \in TableSizes, NEW t, t = size - hs,
         NEW m, NEW pos \in Nat, NEW nr, NEW log, OwnerInv(m, pos, nr, log, t, size),
         NEW count \in Nat \ {0}, NEW h \in Handles,
         NEW r, r = Record(m, nr, h, pos, count, t, size)
  PROVE  /\ r.len \in 0..count - 1
         /\ OwnerInv(r.mem, pos + r.len, r.nr, Append(log, r.log), t, size)
         /\ \A c \in Cells : c < pos => r.mem[c] = m[c]
         /\ \A c \in Cells : c \in pos..pos + r.len - 1 => r.mem[c] = Text
         /\ \A c \in Cells : c \notin 0..size - 1 /\ c \notin pos..pos + r.len => r.mem[c] = m[c]
  <1> DEFINE known == Dedupes(pos, t) /\ Known(m, t, nr, h)
             store == Dedupes(pos, t) /\ ~known /\ HandleRoom(t, nr, size)
             n == Printed(IF known THEN HdrLen ELSE FullLen(h), count)
             m1 == IF store THEN StoreHandle(m, t, nr, h) ELSE m
             rec == [start |-> pos, handle |-> h, full |-> ~known]
             lg == Append(log, rec)
  <1>1. /\ r.mem = PutText(m1, pos, n) /\ r.nr = (IF store THEN nr + 1 ELSE nr)
        /\ r.len = n /\ r.log = rec
    BY DEF Record
  <1>2. /\ size \in Nat /\ size > 0 /\ hs \in Nat /\ hs > 0 /\ hs % 2 = 0 /\ t \in Int
        /\ nr \in Nat /\ 2 * nr <= hs /\ 0..size - 1 \subseteq Cells /\ Cells \subseteq Int
    BY HandlesAssumption DEF RegionSizes, TableSizes, HandleWidth, OwnerInv
  <1>3. n \in 0..count - 1 /\ n < RecordMax /\ RecordMax \in Nat
    <2>1. /\ HdrLen \in Nat /\ EntLen \in Nat /\ Len(Stack[h]) \in Nat
          /\ FullLen(h) < RecordMax /\ RecordMax \in Nat
      BY HandlesAssumption, RecordAssumption
    <2>2. EntLen * Len(Stack[h]) \in Nat
      BY <2>1
    <2>3. FullLen(h) \in Nat /\ HdrLen <= FullLen(h)
      BY <2>1, <2>2 DEF FullLen
    <2>4. CASE known
      BY <2>1, <2>3, <2>4, PrintedFacts
    <2>5. CASE ~known
      BY <2>1, <2>3, <2>5, PrintedFacts
    <2> QED
      BY <2>4, <2>5
  <1>4. rec \in LogRecord /\ log \in Seq(LogRecord)
    BY DEF LogRecord, OwnerInv
  <1>0. rec.start = pos /\ rec.handle = h /\ (rec.full <=> ~known)
    OBVIOUS
  <1> HIDE DEF rec
  <1>5. store => t >= 0 /\ pos <= t /\ 2 * nr + 2 <= hs
    <2>1. store => pos <= t /\ 2 * nr < hs
      BY <1>2 DEF Dedupes, HandleRoom, HandleWidth
    <2> HIDE DEF store
    <2> QED
      BY <1>2, <2>1
  <1>6. \A c \in Cells : c \notin t + 2 * nr .. t + 2 * nr + 1 => m1[c] = m[c]
    <2>1. 2 * (nr + 1) - 1 = 2 * nr + 1
      BY <1>2
    <2> QED
      BY <1>2, <2>1 DEF StoreHandle, HandleWidth
  <1>7. store => \A b \in 1..2 : m1[t + 2 * nr + b - 1] = h[b]
    <2> SUFFICES ASSUME store, NEW b \in 1..2
                 PROVE  StoreHandle(m, t, nr, h)[t + 2 * nr + b - 1] = h[b]
      OBVIOUS
    <2> DEFINE c == t + 2 * nr + b - 1
    <2>1. c \in 0..size - 1
      BY <1>2, <1>5
    <2>2. c \in Cells /\ c \in t + 2 * nr .. t + 2 * (nr + 1) - 1 /\ c - t - 2 * nr + 1 = b
      BY <1>2, <2>1
    <2> HIDE DEF c
    <2> QED
      BY <2>2 DEF StoreHandle, HandleWidth, c
  <1>8. OwnerInv(m, pos, nr, log, t, size)
    OBVIOUS
  <1>9. Len(log) \in Nat /\ lg \in Seq(LogRecord) /\ Len(lg) = Len(log) + 1
        /\ DOMAIN log = 1..Len(log) /\ DOMAIN lg = 1..Len(log) + 1
        /\ lg[Len(log) + 1] = rec /\ \A j \in 1..Len(log) : lg[j] = log[j]
    BY <1>4
  <1>10. known /\ pos + RecordMax <= t => \E j \in 1..Len(log) : log[j].full /\ log[j].handle = h
    <2> SUFFICES ASSUME known, pos + RecordMax <= t
                 PROVE  \E j \in 1..Len(log) : log[j].full /\ log[j].handle = h
      OBVIOUS
    <2>1. PICK i \in 0..nr - 1 : \A b \in 1..HandleWidth : m[t + HandleWidth * i + b - 1] = h[b]
      BY DEF Known
    <2>2. PICK j \in DOMAIN log :
             /\ log[j].full
             /\ \A b \in 1..HandleWidth : m[t + HandleWidth * i + b - 1] = log[j].handle[b]
      BY DEF OwnerInv, TableLogged
    <2>3. log[j].handle \in Handles
      <3>1. log[j] \in LogRecord
        BY <1>4, <2>2
      <3> QED
        BY <3>1 DEF LogRecord
    <2>4. \A b \in 1..HandleWidth : log[j].handle[b] = h[b]
      BY <2>1, <2>2
    <2>5. log[j].handle = h
      BY <2>3, <2>4, HandleEqual
    <2> QED
      BY <1>9, <2>2, <2>5
  <1>11. Resolves(lg, t)
    <2> SUFFICES ASSUME NEW i \in DOMAIN lg, ~lg[i].full, lg[i].start + RecordMax <= t
                 PROVE  \E j \in 1..i - 1 : lg[j].full /\ lg[j].handle = lg[i].handle
      BY DEF Resolves
    <2>1. CASE i = Len(log) + 1
      <3>1. known /\ pos + RecordMax <= t /\ lg[i].handle = h
        BY <1>0, <1>9, <2>1
      <3>2. PICK j \in 1..Len(log) : log[j].full /\ log[j].handle = h
        BY <1>10, <3>1
      <3>3. j \in 1..i - 1 /\ lg[j] = log[j]
        BY <1>9, <2>1
      <3> HIDE DEF lg
      <3> QED
        BY <3>1, <3>2, <3>3
    <2>2. CASE i \in 1..Len(log)
      <3>1. lg[i] = log[i]
        BY <1>9, <2>2
      <3>2. PICK j \in 1..i - 1 : log[j].full /\ log[j].handle = log[i].handle
        BY <1>9, <2>2, <3>1 DEF OwnerInv, Resolves
      <3>3. lg[j] = log[j]
        BY <1>9, <2>2
      <3> QED
        BY <3>1, <3>2, <3>3
    <2> QED
      BY <1>9, <2>1, <2>2
  <1> HIDE DEF known, store, n, m1, lg
  <1>12. pos + n + RecordMax <= t => TableLogged(PutText(m1, pos, n), t, r.nr, lg)
    <2> SUFFICES ASSUME pos + n + RecordMax <= t
                 PROVE  TableLogged(PutText(m1, pos, n), t, r.nr, lg)
      OBVIOUS
    <2>1. pos + RecordMax <= t /\ pos + n < t /\ t \in Nat
      BY <1>2, <1>3
    <2>2. TableLogged(m, t, nr, log)
      BY <2>1 DEF OwnerInv
    <2>3. TableLogged(m1, t, r.nr, lg)
      <3> SUFFICES ASSUME NEW i \in 0..r.nr - 1
                   PROVE  \E j \in DOMAIN lg :
                            /\ lg[j].full
                            /\ \A b \in 1..2 : m1[t + 2 * i + b - 1] = lg[j].handle[b]
        BY DEF TableLogged, HandleWidth
      <3>1. CASE i \in 0..nr - 1
        <4>1. PICK j \in DOMAIN log :
                 /\ log[j].full
                 /\ \A b \in 1..2 : m[t + 2 * i + b - 1] = log[j].handle[b]
          BY <2>2, <3>1 DEF TableLogged, HandleWidth
        <4>2. \A b \in 1..2 : m1[t + 2 * i + b - 1] = m[t + 2 * i + b - 1]
          <5> TAKE b \in 1..2
          <5>1. /\ t + 2 * i + b - 1 \in 0..size - 1
                /\ t + 2 * i + b - 1 \notin t + 2 * nr .. t + 2 * nr + 1
            BY <1>2, <2>1, <3>1
          <5> QED
            BY <1>2, <1>6, <5>1
        <4> QED
          BY <1>9, <4>1, <4>2
      <3>2. CASE i \notin 0..nr - 1
        <4>1. store /\ i = nr
          BY <1>1, <1>2, <3>2
        <4>2. lg[Len(log) + 1].full /\ lg[Len(log) + 1].handle = h
          BY <1>0, <1>9, <4>1 DEF store
        <4>3. Len(log) + 1 \in DOMAIN lg
          BY <1>9
        <4> QED
          BY <1>7, <4>1, <4>2, <4>3
      <3> QED
        BY <3>1, <3>2
    <2>4. r.nr \in Nat /\ HandleWidth * r.nr <= size - t
      BY <1>1, <1>2, <1>5 DEF HandleWidth
    <2>5. n \in Nat
      BY <1>3
    <2> QED
      BY <2>1, <2>3, <2>4, <2>5, PutTextTable
  <1>13. OwnerInv(r.mem, pos + r.len, r.nr, Append(log, r.log), t, size)
    <2>1. r.nr \in Nat /\ HandleWidth * r.nr <= size - t
      BY <1>1, <1>2, <1>5 DEF HandleWidth
    <2> QED
      BY <1>1, <1>9, <1>11, <1>12, <2>1 DEF OwnerInv, lg
  <1>14. ASSUME NEW c \in Cells, c < pos PROVE r.mem[c] = m[c]
    <2>1. c \in Int /\ ~(store /\ c \in t + 2 * nr .. t + 2 * nr + 1)
      BY <1>2, <1>5, <1>14
    <2>2. m1[c] = m[c]
      BY <1>6, <2>1 DEF m1
    <2>3. r.mem[c] = m1[c]
      BY <1>1, <1>2, <1>3, <1>14 DEF PutText
    <2> QED
      BY <2>2, <2>3
  <1>15. \A c \in Cells : c \in pos..pos + r.len - 1 => r.mem[c] = Text
    BY <1>1 DEF PutText
  <1>16. ASSUME NEW c \in Cells, c \notin 0..size - 1, c \notin pos..pos + r.len
         PROVE  r.mem[c] = m[c]
    <2>1. c \in Int /\ ~(store /\ c \in t + 2 * nr .. t + 2 * nr + 1)
      BY <1>2, <1>5, <1>16
    <2>2. m1[c] = m[c]
      BY <1>6, <2>1 DEF m1
    <2>3. c \notin pos..pos + n - 1 /\ c # pos + n
      BY <1>1, <1>2, <1>3, <1>16
    <2>4. r.mem[c] = m1[c]
      BY <1>1, <2>3 DEF PutText
    <2> QED
      BY <2>2, <2>4
  <1> QED
    BY <1>1, <1>3, <1>13, <1>14, <1>15, <1>16

-----------------------------------------------------------------------------
(***************************************************************************)
(* The page owner dump.  The settings only change before the walk, while   *)
(* nothing is written yet.                                                 *)
(***************************************************************************)
PageInv ==
  /\ md_pageowner_dump_size \in RegionSizes /\ page_owner_handles_size \in TableSizes
  /\ po_pos \in 0..md_pageowner_dump_size - 1
  /\ OwnerInv(po_mem, po_pos, nr_handles, po_log, TableStart, md_pageowner_dump_size)
  /\ PageOwnerInside
  /\ TextIntact
  /\ phase = "running" => po_pos = 0 /\ nr_handles = 0 /\ po_log = <<>>

(* Before the walk the invariant holds of any region and any table. *)
LEMMA FreshOwnerInv ==
  ASSUME NEW size \in RegionSizes, NEW hs \in TableSizes, NEW m
  PROVE  OwnerInv(m, 0, 0, <<>>, size - hs, size)
  <1>1. size \in Nat /\ hs \in Nat /\ hs > 0
    BY DEF RegionSizes, TableSizes
  <1>2. HandleWidth * 0 <= size - (size - hs)
    BY <1>1 DEF HandleWidth
  <1>3. 0..0 - 1 = {} /\ DOMAIN << >> = {}
    OBVIOUS
  <1> QED
    BY <1>2, <1>3 DEF OwnerInv, TableLogged, Resolves

LEMMA FreshInside ==
  ASSUME NEW size \in RegionSizes
  PROVE  ~Outside(Fresh(size), size)
  BY DEF Outside, Fresh

LEMMA InitPageInv == Init => PageInv
  <1> SUFFICES ASSUME Init PROVE PageInv
    OBVIOUS
  <1>1. /\ md_pageowner_dump_size = InitSize /\ page_owner_handles_size = 4
        /\ po_mem = Fresh(md_pageowner_dump_size) /\ po_pos = 0 /\ nr_handles = 0 /\ po_log = <<>>
    BY DEF Init, POInit, HandleWidth
  <1>2. InitSize \in RegionSizes /\ 4 \in TableSizes
    BY PageOwnerAssumption DEF TableSizes, HandleWidth
  <1>3. 0 \in 0..InitSize - 1
    BY <1>2 DEF RegionSizes
  <1>4. 0..0 - 1 = {}
    OBVIOUS
  <1> QED
    BY <1>1, <1>2, <1>3, <1>4, FreshOwnerInv, FreshInside
       DEF PageInv, TableStart, PageOwnerInside, TextIntact

(* The settings, before the panic. *)
LEMMA PageSettingsKeep ==
  ASSUME PageInv, phase = "running", phase' = phase,
         UNCHANGED <<po_pos, nr_handles, po_log>>,
         md_pageowner_dump_size' \in RegionSizes, page_owner_handles_size' \in TableSizes,
         PageOwnerInside'
  PROVE  PageInv'
  <1>1. po_pos' = 0 /\ nr_handles' = 0 /\ po_log' = <<>>
    BY DEF PageInv
  <1>2. OwnerInv(po_mem', 0, 0, <<>>, TableStart', md_pageowner_dump_size')
    BY FreshOwnerInv DEF TableStart
  <1>3. 0 \in 0..md_pageowner_dump_size' - 1
    <2>1. \A s \in RegionSizes : 0 \in 0..s - 1
      BY DEF RegionSizes
    <2> QED
      BY <2>1
  <1>4. 0..0 - 1 = {}
    OBVIOUS
  <1> QED
    BY <1>1, <1>2, <1>3, <1>4 DEF PageInv, TextIntact

(* What check_unaccounted prints over the text to come does no harm. *)
LEMMA ScratchKeeps ==
  ASSUME PageInv, NEW p
  PROVE  LET m == AfterScratch(p)
         IN /\ OwnerInv(m, po_pos, nr_handles, po_log, TableStart, md_pageowner_dump_size)
            /\ ~Outside(m, md_pageowner_dump_size)
            /\ \A c \in 0..po_pos - 1 : m[c] = Text
  <1> DEFINE size == md_pageowner_dump_size
             n == Printed(SymLen, Left)
             m == PutText(po_mem, po_pos, n)
             t == TableStart
  <1>1. /\ size \in Nat /\ size > 0 /\ 0..size - 1 \subseteq Cells /\ Cells \subseteq Int
        /\ page_owner_handles_size \in Nat /\ page_owner_handles_size > 0
        /\ po_pos \in Nat /\ po_pos < size /\ Left = size - po_pos /\ t \in Int
    BY HandlesAssumption DEF PageInv, RegionSizes, TableSizes, Left, TableStart
  <1>2. n \in Nat /\ n < Left /\ n <= SymLen /\ SymLen \in Nat /\ SymLen < RecordMax
        /\ RecordMax \in Nat
    <2>1. SymLen \in Nat /\ SymLen < RecordMax /\ RecordMax \in Nat
      BY PageOwnerAssumption, RecordAssumption
    <2>2. Left \in Nat \ {0}
      BY <1>1
    <2> QED
      BY <2>1, <2>2, PrintedFacts
  <1> SUFFICES /\ OwnerInv(m, po_pos, nr_handles, po_log, t, size)
               /\ ~Outside(m, size)
               /\ \A c \in 0..po_pos - 1 : m[c] = Text
    BY DEF AfterScratch, PageInv, PageOwnerInside, TextIntact
  <1> HIDE DEF n
  <1>3. po_pos + RecordMax <= t => TableLogged(m, t, nr_handles, po_log)
    <2> SUFFICES ASSUME po_pos + RecordMax <= t PROVE TableLogged(m, t, nr_handles, po_log)
      OBVIOUS
    <2>1. t \in Nat /\ po_pos + n < t
      BY <1>1, <1>2
    <2>2. TableLogged(po_mem, t, nr_handles, po_log) /\ nr_handles \in Nat
          /\ HandleWidth * nr_handles <= size - t
      BY DEF PageInv, OwnerInv
    <2> QED
      BY <1>1, <1>2, <2>1, <2>2, PutTextTable DEF PageInv
  <1>4. OwnerInv(m, po_pos, nr_handles, po_log, t, size)
    BY <1>3 DEF OwnerInv, PageInv
  <1>5. ASSUME NEW c \in Cells \ (0..size - 1) PROVE m[c] = Foreign
    <2>1. c \notin po_pos..po_pos + n - 1 /\ c # po_pos + n
      BY <1>1, <1>2
    <2>2. po_mem[c] = Foreign
      BY DEF PageInv, PageOwnerInside, Outside
    <2> QED
      BY <2>1, <2>2 DEF PutText
  <1>6. ASSUME NEW c \in 0..po_pos - 1 PROVE m[c] = Text
    <2>1. c \in Cells /\ c \notin po_pos..po_pos + n - 1 /\ c # po_pos + n
      BY <1>1, <1>2
    <2>2. po_mem[c] = Text
      BY DEF PageInv, TextIntact
    <2> QED
      BY <2>1, <2>2 DEF PutText
  <1> QED
    BY <1>4, <1>5, <1>6 DEF Outside

(* dump_page_owner_md, for one page. *)
LEMMA DumpPageKeeps ==
  ASSUME PageInv, NEW p \in PageKinds, DumpPage(p)
  PROVE  PageInv'
  <1> DEFINE size == md_pageowner_dump_size
             m == AfterScratch(p)
             t == TableStart
  <1>1. /\ size \in Nat /\ size > 0 /\ 0..size - 1 \subseteq Cells /\ Cells \subseteq Int
        /\ po_pos \in Nat /\ po_pos < size /\ Left = size - po_pos
    BY HandlesAssumption DEF PageInv, RegionSizes, Left
  <1>2. /\ OwnerInv(m, po_pos, nr_handles, po_log, t, size)
        /\ ~Outside(m, size)
        /\ \A c \in 0..po_pos - 1 : m[c] = Text
    BY ScratchKeeps
  <1>3. size' = size /\ page_owner_handles_size' = page_owner_handles_size /\ t' = t
        /\ phase = "pageowner"
    BY DEF DumpPage, po_settings, TableStart
  <1>4. CASE SitesBlocked(p) \/ ~Selected(p)
    <2>1. po_mem' = m /\ UNCHANGED <<po_pos, nr_handles, po_log>> /\ phase' # "running"
      BY <1>3, <1>4 DEF DumpPage
    <2> QED
      BY <1>2, <1>3, <2>1 DEF PageInv, PageOwnerInside, TextIntact
  <1>5. CASE ~SitesBlocked(p) /\ Selected(p)
    <2> DEFINE r == Record(m, nr_handles, p.handle, po_pos, Left, t, size)
    <2>1. /\ po_mem' = r.mem /\ nr_handles' = r.nr /\ po_log' = Append(po_log, r.log)
          /\ po_pos' = po_pos + r.len /\ phase' # "running"
      BY <1>3, <1>5 DEF DumpPage
    <2>2. p.handle \in Handles
      BY PageOwnerAssumption DEF PageKind
    <2>3. /\ size \in RegionSizes /\ page_owner_handles_size \in TableSizes
          /\ t = size - page_owner_handles_size /\ Left \in Nat \ {0}
      BY <1>1 DEF PageInv, TableStart
    <2> HIDE DEF m, t, r
    <2>4. /\ r.len \in 0..Left - 1
          /\ OwnerInv(r.mem, po_pos + r.len, r.nr, Append(po_log, r.log), t, size)
          /\ \A c \in Cells : c < po_pos => r.mem[c] = m[c]
          /\ \A c \in Cells : c \in po_pos..po_pos + r.len - 1 => r.mem[c] = Text
          /\ \A c \in Cells : c \notin 0..size - 1 /\ c \notin po_pos..po_pos + r.len
                                => r.mem[c] = m[c]
      BY <1>1, <1>2, <2>2, <2>3, RecordStep DEF r
    <2>5. r.len \in Nat /\ po_pos + r.len < size
      BY <1>1, <2>4
    <2>6. ~Outside(r.mem, size)
      <3> SUFFICES ASSUME NEW c \in Cells \ (0..size - 1) PROVE r.mem[c] = Foreign
        BY DEF Outside
      <3>1. c \notin po_pos..po_pos + r.len
        BY <1>1, <2>5
      <3>2. m[c] = Foreign
        BY <1>2 DEF Outside
      <3> QED
        BY <2>4, <3>1, <3>2
    <2>7. ASSUME NEW c \in 0..po_pos + r.len - 1 PROVE r.mem[c] = Text
      <3>1. c \in Cells
        BY <1>1, <2>5
      <3>2. CASE c < po_pos
        <4>1. c \in 0..po_pos - 1
          BY <1>1, <3>2
        <4> QED
          BY <1>2, <2>4, <3>1, <3>2, <4>1
      <3>3. CASE ~(c < po_pos)
        <4>1. c \in po_pos..po_pos + r.len - 1
          BY <1>1, <2>5, <3>3
        <4> QED
          BY <2>4, <3>1, <4>1
      <3> QED
        BY <3>2, <3>3
    <2>8. po_pos + r.len \in 0..size - 1
      BY <1>1, <2>5
    <2> QED
      BY <1>3, <2>1, <2>3, <2>4, <2>6, <2>7, <2>8 DEF PageInv, PageOwnerInside, TextIntact, t
  <1> QED
    BY <1>4, <1>5

LEMMA PageOwnerKeeps ==
  ASSUME PageInv, PageOwnerNext
  PROVE  PageInv'
  <1>1. ASSUME NEW f \in FilterSets, FilterWrite(f) PROVE PageInv'
    BY <1>1 DEF FilterWrite, po_walk, PageInv, TableStart, PageOwnerInside, TextIntact
  <1>2. ASSUME NEW h \in HandleSizes, HandleWrite(h) PROVE PageInv'
    <2>1. /\ phase = "running" /\ phase' = phase /\ UNCHANGED <<po_pos, nr_handles, po_log>>
          /\ md_pageowner_dump_size' = md_pageowner_dump_size /\ po_mem' = po_mem
          /\ page_owner_handles_size' = h
      BY <1>2 DEF HandleWrite, po_walk
    <2>2. h \in TableSizes
      BY PageOwnerAssumption
    <2> QED
      BY <2>1, <2>2, PageSettingsKeep DEF PageInv, PageOwnerInside
  <1>3. ASSUME NEW s \in Sites, CallSiteWrite(s) PROVE PageInv'
    BY <1>3 DEF CallSiteWrite, po_walk, PageInv, TableStart, PageOwnerInside, TextIntact
  <1>4. ASSUME NEW s \in PageSizes, PageSizeWrite(s) PROVE PageInv'
    <2>1. /\ phase = "running" /\ phase' = phase /\ UNCHANGED <<po_pos, nr_handles, po_log>>
          /\ md_pageowner_dump_size' = s /\ po_mem' = Fresh(s)
          /\ page_owner_handles_size' = page_owner_handles_size
      BY <1>4 DEF PageSizeWrite
    <2>2. s \in RegionSizes
      BY PageOwnerAssumption
    <2>3. PageOwnerInside'
      BY <2>1, <2>2, FreshInside DEF PageOwnerInside
    <2> QED
      BY <2>1, <2>2, <2>3, PageSettingsKeep DEF PageInv
  <1>5. ASSUME NEW p \in PageKinds, DumpPage(p) PROVE PageInv'
    BY <1>5, DumpPageKeeps
  <1>6. CASE PagesEnd
    BY <1>6 DEF PagesEnd, po_settings, po_walk, PageInv, TableStart, PageOwnerInside, TextIntact
  <1> QED
    BY <1>1, <1>2, <1>3, <1>4, <1>5, <1>6 DEF PageOwnerNext

-----------------------------------------------------------------------------
(***************************************************************************)
(* The slab owner dump.  The headings move the start without a word to the *)
(* size, so the text may leave the region, but never by more than they are *)
(* long; and a heading ends before the table as long as a record would.    *)
(***************************************************************************)
(* Where the walk over the caches may be. *)
CacheWalks == [left : SUBSET Caches, in : BOOLEAN, node : BOOLEAN]

SlabInv ==
  /\ md_slabowner_dump_size \in RegionSizes /\ slab_owner_handles_size \in TableSizes
  /\ so_start \in Nat /\ so_offset \in 0..md_slabowner_dump_size - 1
  /\ so_cache \in CacheWalks
  /\ OwnerInv(so_mem, so_start + so_offset, num_handles, so_log, SlabTable,
              md_slabowner_dump_size)
  /\ SlabOverrunBounded
  /\ phase = "running" => so_start = 0 /\ so_offset = 0 /\ num_handles = 0 /\ so_log = <<>>

(* The first of some caches is one of them. *)
LEMMA FirstOfIn ==
  ASSUME NEW S, S \subseteq Nat, S # {}
  PROVE  FirstOf(S) \in S
  <1>1. IsWellFoundedOn(OpToRel(<, Nat), Nat)
    BY NatLessThanWellFounded
  <1>2. PICK x \in S : \A y \in S : ~(<<y, x>> \in OpToRel(<, Nat))
    BY <1>1, WFMin, Zenon
  <1>3. \A y \in S : ~(y < x)
    BY <1>2 DEF OpToRel
  <1>4. \A y \in S : x <= y
    BY <1>3
  <1> QED
    BY <1>4 DEF FirstOf

(* A fresh region is foreign from its end on. *)
LEMMA FreshBounded ==
  ASSUME NEW size \in RegionSizes, NEW c \in Cells, c >= size + 0
  PROVE  Fresh(size)[c] = Foreign
  <1>1. size \in Nat /\ c \in Int
    BY HandlesAssumption DEF RegionSizes
  <1> QED
    BY <1>1 DEF Fresh

LEMMA InitSlabInv == Init => SlabInv
  <1> SUFFICES ASSUME Init PROVE SlabInv
    OBVIOUS
  <1>1. /\ md_slabowner_dump_size = InitSize /\ slab_owner_handles_size = 4
        /\ so_mem = Fresh(md_slabowner_dump_size) /\ so_start = 0 /\ so_offset = 0
        /\ num_handles = 0 /\ so_log = <<>> /\ so_cache \in CacheWalks
    BY DEF Init, SOInit, HandleWidth, CacheWalks
  <1>2. InitSize \in RegionSizes /\ 4 \in TableSizes
    BY SlabOwnerAssumption DEF TableSizes, HandleWidth
  <1>3. 0 \in 0..InitSize - 1
    BY <1>2 DEF RegionSizes
  <1>4. 0 + 0 = 0
    OBVIOUS
  <1> QED
    BY <1>1, <1>2, <1>3, <1>4, FreshOwnerInv, FreshBounded
       DEF SlabInv, SlabTable, SlabOverrunBounded

(* The settings, before the panic. *)
LEMMA SlabSettingsKeep ==
  ASSUME SlabInv, phase = "running", phase' = phase,
         UNCHANGED <<so_start, so_offset, so_cache, num_handles, so_log>>,
         md_slabowner_dump_size' \in RegionSizes, slab_owner_handles_size' \in TableSizes,
         SlabOverrunBounded'
  PROVE  SlabInv'
  <1>1. so_start' = 0 /\ so_offset' = 0 /\ num_handles' = 0 /\ so_log' = <<>>
    BY DEF SlabInv
  <1>2. OwnerInv(so_mem', 0, 0, <<>>, SlabTable', md_slabowner_dump_size')
    BY FreshOwnerInv DEF SlabTable
  <1>3. 0 \in 0..md_slabowner_dump_size' - 1
    <2>1. \A s \in RegionSizes : 0 \in 0..s - 1
      BY DEF RegionSizes
    <2> QED
      BY <2>1
  <1>4. 0 + 0 = 0
    OBVIOUS
  <1> QED
    BY <1>1, <1>2, <1>3, <1>4 DEF SlabInv

(* The name of a cache, or the empty line behind its objects. *)
LEMMA SlabLineKeeps ==
  ASSUME SlabInv, phase = "slabowner", NEW len \in 0..RecordMax - 1, SlabLine(len),
         UNCHANGED <<so_settings, so_offset, num_handles, so_log>>,
         so_cache' \in CacheWalks
  PROVE  SlabInv'
  <1> DEFINE size == md_slabowner_dump_size
             n == Printed(len, size)
             t == SlabTable
             pos == so_start + so_offset
  <1>1. /\ size \in Nat /\ size > 0 /\ 0..size - 1 \subseteq Cells /\ Cells \subseteq Int
        /\ slab_owner_handles_size \in Nat /\ slab_owner_handles_size > 0
        /\ so_start \in Nat /\ so_offset \in Nat /\ t = size - slab_owner_handles_size
        /\ so_offset < size
    BY HandlesAssumption DEF SlabInv, RegionSizes, TableSizes, SlabTable
  <1>2. len \in Nat /\ len < RecordMax /\ RecordMax \in Nat
    BY RecordAssumption
  <1>3. n \in Nat /\ n < size /\ n <= len /\ (n = size - 1 => len >= size - 1)
    <2>1. n \in 0..size - 1 /\ n <= len
      BY <1>1, <1>2, PrintedFacts
    <2> QED
      BY <1>1, <1>2, <2>1
  <1>4. so_mem' = PutText(so_mem, so_start, n) /\ size' = size /\ t' = t
        /\ slab_owner_handles_size' = slab_owner_handles_size
        /\ phase' # "running"
    BY DEF SlabLine, so_settings, SlabTable
  <1>5. (so_start' = so_start /\ n = size - 1) \/ so_start' = so_start + n
    BY DEF SlabLine
  <1> HIDE DEF n
  <1>6. so_start' \in Nat /\ so_start' >= so_start
    BY <1>1, <1>3, <1>5
  <1>7. SlabOverrunBounded'
    <2> SUFFICES ASSUME NEW c \in Cells, c >= size + so_start' PROVE so_mem'[c] = Foreign
      BY <1>4 DEF SlabOverrunBounded
    <2>0. c \in Int /\ so_start' \in Int /\ so_start \in Int /\ size \in Int /\ n \in Int
      BY <1>1, <1>3, <1>6
    <2>a. \A x, y, z \in Int : z >= y /\ c >= x + z => c >= x + y
      BY <2>0
    <2>b. c >= size + so_start
      BY <1>6, <2>0, <2>a, Zenon
    <2>1. c >= size + so_start /\ c \notin so_start..so_start + n - 1 /\ c # so_start + n
      BY <1>3, <2>0, <2>b
    <2>2. so_mem[c] = Foreign
      BY <2>1 DEF SlabInv, SlabOverrunBounded
    <2> QED
      BY <1>4, <2>1, <2>2 DEF PutText
  <1>8. so_start' + so_offset + RecordMax <= t => TableLogged(so_mem', t, num_handles, so_log)
    <2> SUFFICES ASSUME so_start' + so_offset + RecordMax <= t
                 PROVE  TableLogged(so_mem', t, num_handles, so_log)
      OBVIOUS
    <2>0. /\ so_start' \in Nat /\ so_start \in Nat /\ so_offset \in Nat /\ RecordMax \in Nat
          /\ t \in Int /\ so_start' >= so_start
      BY <1>1, <1>2, <1>6
    <2>a. \A x, y, z, r, u \in Int : z >= y /\ z + x + r <= u => y + x + r <= u
      OBVIOUS
    <2>b. pos + RecordMax <= t
      <3>1. so_start' \in Int /\ so_start \in Int /\ so_offset \in Int /\ RecordMax \in Int
        BY <2>0
      <3> QED
        BY <2>0, <2>a, <3>1, Zenon
    <2>1. pos + RecordMax <= t /\ t \in Nat /\ pos \in Nat
      BY <2>0, <2>b
    <2>2. so_start' = so_start + n
      BY <1>1, <1>2, <1>3, <1>5, <2>1
    <2>3. so_start + n < t
      BY <1>1, <1>2, <1>3, <2>2
    <2>4. TableLogged(so_mem, t, num_handles, so_log) /\ num_handles \in Nat
          /\ HandleWidth * num_handles <= size - t
      BY <2>1 DEF SlabInv, OwnerInv
    <2> HIDE DEF t
    <2> QED
      BY <1>1, <1>3, <1>4, <2>1, <2>3, <2>4, PutTextTable DEF SlabInv
  <1>9. OwnerInv(so_mem', so_start' + so_offset, num_handles, so_log, t, size)
    BY <1>8 DEF SlabInv, OwnerInv
  <1>10. UNCHANGED <<so_offset, num_handles, so_log>>
    OBVIOUS
  <1> QED
    BY <1>4, <1>6, <1>7, <1>9, <1>10 DEF SlabInv

(* dump_tracking, for one object. *)
LEMMA SlabObjectKeeps ==
  ASSUME SlabInv, NEW h \in Handles, SlabObject(h)
  PROVE  SlabInv'
  <1> DEFINE size == md_slabowner_dump_size
             t == SlabTable
             pos == so_start + so_offset
             r == Record(so_mem, num_handles, h, pos, SlabLeft, t, size)
  <1>1. /\ size \in Nat /\ size > 0 /\ Cells \subseteq Int
        /\ so_start \in Nat /\ so_offset \in Nat /\ so_offset < size
        /\ SlabLeft = size - so_offset /\ SlabLeft \in Nat \ {0} /\ pos \in Nat
    BY HandlesAssumption DEF SlabInv, RegionSizes, SlabLeft
  <1>2. /\ so_mem' = r.mem /\ num_handles' = r.nr /\ so_log' = Append(so_log, r.log)
        /\ so_offset' = so_offset + r.len /\ phase' # "running"
        /\ UNCHANGED <<so_start, so_cache, size, slab_owner_handles_size>> /\ t' = t
    BY DEF SlabObject, SlabLocked, so_settings, SlabTable
  <1>3. /\ size \in RegionSizes /\ slab_owner_handles_size \in TableSizes
        /\ t = size - slab_owner_handles_size
        /\ OwnerInv(so_mem, pos, num_handles, so_log, t, size)
    BY DEF SlabInv, SlabTable
  <1> HIDE DEF t, pos, r
  <1>4. /\ r.len \in 0..SlabLeft - 1
        /\ OwnerInv(r.mem, pos + r.len, r.nr, Append(so_log, r.log), t, size)
        /\ \A c \in Cells : c \notin 0..size - 1 /\ c \notin pos..pos + r.len
                              => r.mem[c] = so_mem[c]
    <2>1. /\ size \in RegionSizes /\ slab_owner_handles_size \in TableSizes
          /\ t = size - slab_owner_handles_size /\ pos \in Nat /\ SlabLeft \in Nat \ {0}
          /\ OwnerInv(so_mem, pos, num_handles, so_log, t, size)
      BY <1>1, <1>3
    <2>2. r = Record(so_mem, num_handles, h, pos, SlabLeft, t, size)
      BY DEF r
    <2> HIDE DEF size
    <2>3. r.len \in 0..SlabLeft - 1
      BY <2>1, <2>2, RecordStep
    <2>4. OwnerInv(r.mem, pos + r.len, r.nr, Append(so_log, r.log), t, size)
      BY <2>1, <2>2, RecordStep
    <2>5. \A c \in Cells : c \notin 0..size - 1 /\ c \notin pos..pos + r.len
                            => r.mem[c] = so_mem[c]
      BY <2>1, <2>2, RecordStep
    <2> QED
      BY <2>3, <2>4, <2>5
  <1>5. r.len \in Nat /\ so_offset + r.len \in 0..size - 1
    BY <1>1, <1>4
  <1>6. so_start + (so_offset + r.len) = pos + r.len
    BY <1>1, <1>5 DEF pos
  <1>7. SlabOverrunBounded'
    <2> SUFFICES ASSUME NEW c \in Cells, c >= size + so_start PROVE r.mem[c] = Foreign
      BY <1>2 DEF SlabOverrunBounded
    <2>1. c \in Int /\ c \notin 0..size - 1 /\ c \notin pos..pos + r.len
      BY <1>1, <1>5 DEF pos
    <2>2. so_mem[c] = Foreign
      BY DEF SlabInv, SlabOverrunBounded
    <2> QED
      BY <1>4, <2>1, <2>2
  <1>8. OwnerInv(so_mem', so_start' + so_offset', num_handles', so_log', t', size')
    BY <1>2, <1>4, <1>6
  <1> QED
    BY <1>2, <1>5, <1>7, <1>8 DEF SlabInv, t

LEMMA SlabOwnerKeeps ==
  ASSUME SlabInv, SlabOwnerNext
  PROVE  SlabInv'
  <1>1. ASSUME NEW f \in SUBSET Caches, SlabFilterWrite(f) PROVE SlabInv'
    BY <1>1 DEF SlabFilterWrite, so_walk, SlabInv, SlabTable, SlabOverrunBounded
  <1>2. ASSUME NEW h \in SlabHandleSizes, SlabHandleWrite(h) PROVE SlabInv'
    <2>1. /\ phase = "running" /\ phase' = phase
          /\ UNCHANGED <<so_start, so_offset, so_cache, num_handles, so_log, so_mem>>
          /\ md_slabowner_dump_size' = md_slabowner_dump_size
          /\ slab_owner_handles_size' = h
      BY <1>2 DEF SlabHandleWrite, so_walk
    <2>2. h \in TableSizes
      BY SlabOwnerAssumption
    <2> QED
      BY <2>1, <2>2, SlabSettingsKeep DEF SlabInv, SlabOverrunBounded
  <1>3. ASSUME NEW s \in SlabSizes, SlabSizeWrite(s) PROVE SlabInv'
    <2>1. /\ phase = "running" /\ phase' = phase
          /\ UNCHANGED <<so_start, so_offset, so_cache, num_handles, so_log>>
          /\ md_slabowner_dump_size' = s /\ so_mem' = Fresh(s)
          /\ slab_owner_handles_size' = slab_owner_handles_size
      BY <1>3 DEF SlabSizeWrite
    <2>2. s \in RegionSizes
      BY SlabOwnerAssumption
    <2>3. so_start' = 0
      BY <2>1 DEF SlabInv
    <2>4. SlabOverrunBounded'
      BY <2>1, <2>2, <2>3, FreshBounded DEF SlabOverrunBounded
    <2> QED
      BY <2>1, <2>2, <2>4, SlabSettingsKeep DEF SlabInv
  <1>4. CASE SlabCache
    <2> DEFINE left == so_cache.left \cap slab_owner_filter
               c == FirstOf(left)
    <2>1. left \subseteq Nat /\ left # {} /\ left \subseteq Caches
      BY <1>4, SlabOwnerAssumption DEF SlabCache, SlabInv, CacheWalks
    <2>2. c \in Caches
      BY <2>1, FirstOfIn
    <2>3. CacheName[c] \in 0..RecordMax - 1
      BY <2>2, SlabOwnerAssumption
    <2>4. /\ phase = "slabowner" /\ SlabLine(CacheName[c])
          /\ so_cache' = [left |-> so_cache.left \ {c}, in |-> TRUE, node |-> TRUE]
          /\ UNCHANGED <<so_settings, so_offset, num_handles, so_log>>
      BY <1>4 DEF SlabCache
    <2>5. so_cache' \in CacheWalks
      BY <2>4 DEF SlabInv, CacheWalks
    <2> HIDE DEF c
    <2> QED
      BY <2>3, <2>4, <2>5, SlabLineKeeps
  <1>5. ASSUME NEW h \in Handles, SlabObject(h) PROVE SlabInv'
    BY <1>5, SlabObjectKeeps
  <1>6. CASE SlabBlocked \/ SlabExhausted \/ SlabUnlock \/ SlabsEnd
    <2>1. UNCHANGED <<so_settings, so_walk>> /\ phase' # "running"
      BY <1>6 DEF SlabBlocked, SlabExhausted, SlabUnlock, SlabsEnd, SlabLocked
    <2> QED
      BY <2>1 DEF so_settings, so_walk, SlabInv, SlabTable, SlabOverrunBounded
  <1>7. CASE SlabCacheEnd
    <2>1. /\ phase = "slabowner" /\ SlabLine(1)
          /\ so_cache' = [so_cache EXCEPT !.in = FALSE]
          /\ UNCHANGED <<so_settings, so_offset, num_handles, so_log>>
      BY <1>7 DEF SlabCacheEnd
    <2>2. so_cache' \in CacheWalks
      BY <2>1 DEF SlabInv, CacheWalks
    <2>3. 1 \in 0..RecordMax - 1
      BY RecordAssumption
    <2> QED
      BY <2>1, <2>2, <2>3, SlabLineKeeps
  <1>8. CASE SlabLock
    <2>1. /\ phase' = "slabowner" /\ so_cache' = [so_cache EXCEPT !.node = FALSE]
          /\ UNCHANGED <<so_settings, so_mem, so_start, so_offset, num_handles, so_log>>
      BY <1>8 DEF SlabLock
    <2>2. so_cache' \in CacheWalks
      BY <2>1 DEF SlabInv, CacheWalks
    <2> QED
      BY <2>1, <2>2 DEF so_settings, SlabInv, SlabTable, SlabOverrunBounded
  <1> QED
    BY <1>1, <1>2, <1>3, <1>4, <1>5, <1>6, <1>7, <1>8 DEF SlabOwnerNext

-----------------------------------------------------------------------------
(***************************************************************************)
(* The dma-buf dumps.  Each is written once: a name that left todo does    *)
(* not come back, so what a dump leaves behind is not met by another one.  *)
(***************************************************************************)
DumpNames == {"pageowner", "slabowner", "dma_info", "dma_procs"}

(* Still to be written, or being written. *)
ToCome(d) == d \in todo \/ d = phase

LEMMA OrderNames ==
  /\ ToSet(Order) \subseteq DumpNames
  /\ \A i \in DOMAIN Order : Order[i] \in DumpNames
  <1>1. DOMAIN Order = 1..4
    BY DEF Order
  <1>2. \A i \in DOMAIN Order : Order[i] \in DumpNames
    BY <1>1 DEF Order, DumpNames
  <1> QED
    BY <1>2 DEF ToSet

(* Lines move the offset forward, and never past the last byte but one. *)
LEMMA AfterFacts ==
  ASSUME dma_size \in Nat \ {0}, NEW offset \in 0..dma_size - 1, NEW k \in Nat
  PROVE  /\ After(offset, k) \in 0..dma_size - 1
         /\ After(offset, k) >= offset
         /\ k = 0 => After(offset, k) = offset
  <1>1. LineLen \in Nat
    BY DmaAssumption
  <1>2. k * LineLen \in Nat
    BY <1>1
  <1>3. k = 0 => k * LineLen = 0
    BY <1>1
  <1>4. dma_size - offset \in Nat \ {0}
    OBVIOUS
  <1>5. Printed(k * LineLen, dma_size - offset) \in 0..(dma_size - offset) - 1
    BY <1>2, <1>4, PrintedFacts
  <1>6. k = 0 => Printed(k * LineLen, dma_size - offset) = 0
    BY <1>3, <1>4 DEF Printed
  <1> QED
    BY <1>4, <1>5, <1>6 DEF After

Procs == [threads : Seq(Files \cup {NoFiles}), fds : Seq(Bufs), leader : Files \cup {NoFiles},
          group_leader_files : Files \cup {NoFiles}, first : BOOLEAN, in : BOOLEAN]

InfoInv ==
  /\ dma_size \in Nat \ {0}
  /\ todo \subseteq DumpNames
  /\ phase \notin todo
  /\ di_offset \in 0..dma_size - 1

LEMMA InitInfoInv == Init => InfoInv
  <1> SUFFICES ASSUME Init PROVE InfoInv
    OBVIOUS
  <1>1. dma_size \in Nat \ {0} /\ di_offset = 0
    BY DmaAssumption DEF Init, DInit
  <1>2. todo \subseteq DumpNames /\ phase = "running"
    BY OrderNames, RegisteredAssumption DEF Init
  <1> QED
    BY <1>1, <1>2 DEF InfoInv, DumpNames

(* What a step of md_dma_buf_info leaves alone, and where it leads. *)
LEMMA InfoFrame ==
  ASSUME BufInfo
  PROVE  /\ phase = "dma_info" /\ UNCHANGED <<dma_size, dp_vars>>
         /\ phase' \in {phase, "between", "blocked"}
  <1>1. CASE (\E t \in BOOLEAN : BufInfoStart(t)) \/ BufBlocked \/ BufInfoEnd
    BY <1>1 DEF BufInfoStart, BufBlocked, BufInfoEnd, Info
  <1>2. CASE (\E b \in BufKinds : BufLock(b)) \/ BufFences \/ BufPut \/ BufUnlock
    BY <1>2 DEF BufLock, BufFences, BufPut, BufUnlock, Goto, Info
  <1>3. CASE BufName \/ BufDevices \/ BufDevice \/ BufTotal
    BY <1>3 DEF BufName, BufDevices, BufDevice, BufTotal, InfoLine, Info
  <1>4. CASE BufExcl
    BY <1>4 DEF BufExcl, InfoLine, Goto, Info
  <1>5. CASE BufFence
    BY <1>5 DEF BufFence, InfoLine, Goto, Info
  <1> QED
    BY <1>1, <1>2, <1>3, <1>4, <1>5 DEF BufInfo

(* It adds no line, one, or at its start two. *)
LEMMA InfoOffset ==
  ASSUME BufInfo
  PROVE  di_offset' \in {di_offset, 0, After(0, 2), After(di_offset, 1)}
  <1>1. CASE (\E t \in BOOLEAN : BufInfoStart(t)) \/ BufBlocked \/ BufInfoEnd
    BY <1>1 DEF BufInfoStart, BufBlocked, BufInfoEnd, di_vars
  <1>2. CASE (\E b \in BufKinds : BufLock(b)) \/ BufFences \/ BufPut \/ BufUnlock
    BY <1>2 DEF BufLock, BufFences, BufPut, BufUnlock, Goto
  <1>3. CASE BufName \/ BufDevices \/ BufDevice \/ BufTotal
    BY <1>3 DEF BufName, BufDevices, BufDevice, BufTotal, InfoLine
  <1>4. CASE BufExcl
    BY <1>4 DEF BufExcl, InfoLine, Goto
  <1>5. CASE BufFence
    BY <1>5 DEF BufFence, InfoLine, Goto
  <1> QED
    BY <1>1, <1>2, <1>3, <1>4, <1>5 DEF BufInfo

(* So does md_dma_buf_procs, and it has lines of its own. *)
LEMMA ProcFrame ==
  ASSUME DmaBufNext, ~BufInfo
  PROVE  /\ phase = "dma_procs" /\ UNCHANGED <<dma_size, di_offset, di_at>>
         /\ phase' \in {phase, "between", "blocked"}
  BY DEF DmaBufNext, ProcStart, ProcBlocked, ProcThread, ProcFd, ProcUnlock, ProcEnd, ProcsEnd,
         Cut, GoOn, di_vars

LEMMA InfoKeeps ==
  ASSUME InfoInv, UNCHANGED todo, DmaBufNext
  PROVE  InfoInv'
  <1>1. /\ dma_size \in Nat \ {0} /\ todo \subseteq DumpNames /\ phase \notin todo
        /\ di_offset \in 0..dma_size - 1 /\ todo' = todo
    BY DEF InfoInv
  <1>2. "between" \notin todo /\ "blocked" \notin todo
    BY <1>1 DEF DumpNames
  <1>3. 0 \in 0..dma_size - 1 /\ After(0, 2) \in 0..dma_size - 1
        /\ After(di_offset, 1) \in 0..dma_size - 1
    <2>1. 0 \in 0..dma_size - 1 /\ 1 \in Nat /\ 2 \in Nat
      BY <1>1
    <2>2. After(0, 2) \in 0..dma_size - 1
      BY <1>1, <2>1, AfterFacts
    <2>3. After(di_offset, 1) \in 0..dma_size - 1
      BY <1>1, <2>1, AfterFacts
    <2> QED
      BY <2>1, <2>2, <2>3
  <1>4. CASE BufInfo
    BY <1>1, <1>2, <1>3, <1>4, InfoFrame, InfoOffset DEF InfoInv
  <1>5. CASE ~BufInfo
    BY <1>1, <1>2, <1>5, ProcFrame DEF InfoInv
  <1> QED
    BY <1>4, <1>5

-----------------------------------------------------------------------------
(***************************************************************************)
(* What the dump holds.  The list_lock is held only inside a node, and     *)
(* task_lock only at a thread; while dump_bufinfo goes on, where it is     *)
(* says what it holds, and once it has given up the region is full.        *)
(***************************************************************************)
ListHeld == held["list"] = 1 => phase = "slabowner" /\ so_cache.in /\ ~so_cache.node

TaskHeld ==
  /\ held["task"] = 1 => phase = "dma_procs" /\ dp_proc.in
  /\ ToCome("dma_procs") /\ held["task"] = 0 => dp_proc.fds = <<>>

RcuAt == {"excl", "shared", "put"}
ResvAt == {"name", "fences", "devices"} \cup RcuAt

(* What dump_bufinfo holds where it is. *)
HeldAt ==
  /\ held["resv"] = IF di_at \in ResvAt THEN 1 ELSE 0
  /\ held["rcu"] = IF di_at \in RcuAt THEN 1 ELSE 0
  /\ held["fence"] = IF di_at = "put" THEN 1 ELSE 0

(* What it may have left. *)
HeldAfter ==
  /\ held["fence"] <= held["rcu"] /\ held["rcu"] <= held["resv"]
  /\ ~Full(di_offset) => held["resv"] = 0

InfoHeld ==
  /\ ToCome("dma_info") => HeldAt
  /\ "dma_info" \in todo => di_at = "start"
  /\ phase # "dma_info" => HeldAfter

HeldInv == held \in [Holds -> {0, 1}] /\ ListHeld /\ TaskHeld /\ InfoHeld

LEMMA InitHeldInv == Init => HeldInv
  <1> SUFFICES ASSUME Init PROVE HeldInv
    OBVIOUS
  <1>1. /\ held = [l \in Holds |-> 0] /\ di_at = "start" /\ dp_proc = NoProc
        /\ phase = "running"
    BY DEF Init, DInit
  <1>2. held \in [Holds -> {0, 1}] /\ \A l \in Holds : held[l] = 0
    BY <1>1
  <1>3. {"list", "resv", "rcu", "fence", "task"} \subseteq Holds
    BY DEF Holds
  <1>4. ListHeld /\ TaskHeld
    BY <1>1, <1>2, <1>3 DEF ListHeld, TaskHeld, NoProc
  <1>5. HeldAt /\ HeldAfter
    BY <1>1, <1>2, <1>3 DEF HeldAt, HeldAfter, ResvAt, RcuAt
  <1> QED
    BY <1>1, <1>2, <1>4, <1>5 DEF HeldInv, InfoHeld

LEMMA TakeFacts ==
  ASSUME held \in [Holds -> {0, 1}], NEW l \in Holds, held[l] = 0, Take(l)
  PROVE  /\ held' \in [Holds -> {0, 1}] /\ held'[l] = 1
         /\ \A k \in Holds : k # l => held'[k] = held[k]
  BY DEF Take

LEMMA GiveFacts ==
  ASSUME held \in [Holds -> {0, 1}], NEW l \in Holds, held[l] = 1, Give(l)
  PROVE  /\ held' \in [Holds -> {0, 1}] /\ held'[l] = 0
         /\ \A k \in Holds : k # l => held'[k] = held[k]
  BY DEF Give

(* A step that keeps what is held, and the walks that hold it. *)
LEMMA HeldStays ==
  ASSUME HeldInv, UNCHANGED <<held, dma_vars>>, todo' \subseteq todo,
         ToCome("dma_info")' => ToCome("dma_info"), ToCome("dma_procs")' => ToCome("dma_procs"),
         held["list"] = 1 => phase' = phase /\ UNCHANGED so_cache,
         phase' # phase => phase # "dma_procs" /\ phase # "dma_info"
  PROVE  HeldInv'
  <1>1. UNCHANGED <<dma_size, di_offset, di_at, dp_proc>>
    BY DEF dma_vars, di_vars, dp_vars
  <1>2. ListHeld' /\ TaskHeld'
    BY <1>1 DEF HeldInv, ListHeld, TaskHeld
  <1>3. HeldAt' = HeldAt /\ HeldAfter' = HeldAfter
    BY <1>1 DEF HeldAt, HeldAfter, Full
  <1>4. InfoHeld'
    BY <1>1, <1>3 DEF HeldInv, InfoHeld
  <1> QED
    BY <1>2, <1>4 DEF HeldInv

(* The walk over the caches takes a list_lock and gives it back. *)
LEMMA SlabHolds ==
  ASSUME HeldInv, SlabInv, InfoInv, UNCHANGED <<todo, dma_vars>>, SlabOwnerNext
  PROVE  HeldInv'
  <1> DEFINE H == {"list", "resv", "rcu", "fence", "task"}
  <1>1. H = Holds /\ held \in [Holds -> {0, 1}]
    BY DEF Holds, HeldInv
  <1>2. UNCHANGED <<dma_size, di_offset, di_at, dp_proc, todo>>
    BY DEF dma_vars, di_vars, dp_vars
  <1>3. ASSUME held["list"] = 0, UNCHANGED held,
               phase' # phase => phase = "slabowner" /\ phase' \in {"between", "blocked"}
        PROVE  HeldInv'
    <2>1. ToCome("dma_info")' => ToCome("dma_info")
      BY <1>2, <1>3 DEF ToCome
    <2>2. ToCome("dma_procs")' => ToCome("dma_procs")
      BY <1>2, <1>3 DEF ToCome
    <2> QED
      BY <1>2, <1>3, <2>1, <2>2, HeldStays
  <1>4. ASSUME phase = "slabowner", phase' \in {phase, "between"},
               held' \in [Holds -> {0, 1}], \A k \in Holds : k # "list" => held'[k] = held[k],
               held'["list"] = 1 => phase' = phase /\ so_cache'.in /\ ~so_cache'.node
        PROVE  HeldInv'
    <2>1. held'["resv"] = held["resv"] /\ held'["rcu"] = held["rcu"]
          /\ held'["fence"] = held["fence"] /\ held'["task"] = held["task"]
      BY <1>1, <1>4
    <2>2. HeldAt' = HeldAt /\ HeldAfter' = HeldAfter
      BY <1>2, <2>1 DEF HeldAt, HeldAfter, Full
    <2>3. ToCome("dma_info")' => ToCome("dma_info")
      BY <1>2, <1>4 DEF ToCome
    <2>4. ToCome("dma_procs")' => ToCome("dma_procs")
      BY <1>2, <1>4 DEF ToCome
    <2>5. ListHeld' /\ TaskHeld'
      BY <1>2, <1>4, <2>1, <2>4 DEF HeldInv, ListHeld, TaskHeld
    <2>6. InfoHeld'
      BY <1>2, <1>4, <2>2, <2>3 DEF HeldInv, InfoHeld
    <2> QED
      BY <1>4, <2>5, <2>6 DEF HeldInv
  <1>5. held["list"] \in {0, 1} /\ (held["list"] = 1 => phase = "slabowner" /\ so_cache.in /\ ~so_cache.node)
    BY <1>1 DEF HeldInv, ListHeld
  <1>6. ASSUME NEW f \in SUBSET Caches, SlabFilterWrite(f) PROVE HeldInv'
    BY <1>3, <1>5, <1>6 DEF SlabFilterWrite
  <1>7. ASSUME NEW h \in SlabHandleSizes, SlabHandleWrite(h) PROVE HeldInv'
    BY <1>3, <1>5, <1>7 DEF SlabHandleWrite
  <1>8. ASSUME NEW s \in SlabSizes, SlabSizeWrite(s) PROVE HeldInv'
    BY <1>3, <1>5, <1>8 DEF SlabSizeWrite
  <1>9. CASE SlabCache \/ SlabsEnd
    BY <1>3, <1>5, <1>9 DEF SlabCache, SlabsEnd, SlabLine
  <1>10. CASE SlabBlocked
    BY <1>3, <1>5, <1>10 DEF SlabBlocked
  <1>11. CASE SlabCacheEnd
    BY <1>3, <1>11 DEF SlabCacheEnd, SlabLine
  <1>12. ASSUME NEW h \in Handles, SlabObject(h) PROVE HeldInv'
    BY <1>1, <1>4, <1>5, <1>12 DEF SlabObject, SlabLocked
  <1>13. CASE SlabLock
    <2>1. held["list"] = 0 /\ Take("list") /\ phase = "slabowner" /\ phase' = phase
          /\ so_cache.in /\ so_cache' = [so_cache EXCEPT !.node = FALSE]
      BY <1>5, <1>13 DEF SlabLock
    <2>2. so_cache'.in /\ ~so_cache'.node
      BY <2>1 DEF SlabInv, CacheWalks
    <2>3. held' \in [Holds -> {0, 1}] /\ \A k \in Holds : k # "list" => held'[k] = held[k]
      BY <1>1, <2>1, TakeFacts
    <2> QED
      BY <1>4, <2>1, <2>2, <2>3
  <1>14. CASE SlabExhausted \/ SlabUnlock
    <2>1. held["list"] = 1 /\ Give("list") /\ phase = "slabowner" /\ phase' \in {phase, "between"}
      BY <1>5, <1>14 DEF SlabExhausted, SlabUnlock, SlabLocked
    <2>2. held' \in [Holds -> {0, 1}] /\ held'["list"] = 0
          /\ \A k \in Holds : k # "list" => held'[k] = held[k]
      BY <1>1, <2>1, GiveFacts
    <2> QED
      BY <1>4, <2>1, <2>2
  <1> QED
    BY <1>6, <1>7, <1>8, <1>9, <1>10, <1>11, <1>12, <1>13, <1>14 DEF SlabOwnerNext

(* A step of dump_bufinfo: it holds what its new place says, or has left no more
   than a full region excuses. *)
LEMMA InfoStepHolds ==
  ASSUME HeldInv, InfoInv, UNCHANGED <<todo, so_cache>>, BufInfo,
         held' \in [Holds -> {0, 1}], held'["list"] = held["list"], held'["task"] = held["task"],
         phase' = phase => HeldAt',
         phase' # phase => HeldAfter'
  PROVE  HeldInv'
  <1>1. /\ phase = "dma_info" /\ dp_proc' = dp_proc /\ phase' \in {phase, "between", "blocked"}
        /\ "dma_info" \notin todo /\ todo' = todo
    BY InfoFrame DEF dp_vars, InfoInv
  <1>2. held["list"] # 1 /\ held["task"] # 1
    BY <1>1 DEF HeldInv, ListHeld, TaskHeld
  <1>3. ToCome("dma_procs")' => ToCome("dma_procs")
    BY <1>1 DEF ToCome
  <1>4. ListHeld' /\ TaskHeld'
    BY <1>1, <1>2, <1>3 DEF HeldInv, ListHeld, TaskHeld
  <1>5. InfoHeld'
    BY <1>1 DEF InfoHeld, ToCome
  <1> QED
    BY <1>4, <1>5 DEF HeldInv

(* dump_bufinfo takes the reservation lock, the RCU read side and references of
   fences and gives them back in turn, or gives up with the region full. *)
LEMMA InfoHolds ==
  ASSUME HeldInv, InfoInv, UNCHANGED <<todo, so_cache>>, BufInfo
  PROVE  HeldInv'
  <1>1. /\ held \in [Holds -> {0, 1}] /\ phase = "dma_info" /\ HeldAt
        /\ {"list", "resv", "rcu", "fence", "task"} \subseteq Holds
    BY InfoFrame DEF HeldInv, InfoHeld, ToCome, Holds
  <1> DEFINE Keeps(k) == held'[k] = held[k]
             Same == held' \in [Holds -> {0, 1}] /\ Keeps("list") /\ Keeps("task")
  <1>2. UNCHANGED held => Same /\ Keeps("resv") /\ Keeps("rcu") /\ Keeps("fence")
    BY <1>1
  <1>3. ASSUME NEW next, InfoLine(next), dma_size' = dma_size
        PROVE  \/ phase' = phase /\ di_at' = next
               \/ di_at' = di_at /\ Full(di_offset)'
    BY <1>3 DEF InfoLine, Full
  <1>4. ASSUME NEW next, Goto(next) PROVE phase' = phase /\ di_at' = next
    BY <1>4 DEF Goto
  <1>5. dma_size' = dma_size
    BY InfoFrame
  <1> HIDE DEF Same, Keeps
  <1>6. CASE (\E t \in BOOLEAN : BufInfoStart(t)) \/ BufBlocked \/ BufInfoEnd
    <2>1. UNCHANGED held /\ di_at \in {"start", "next"} /\ (phase' = phase => di_at' = "next")
      BY <1>6 DEF BufInfoStart, BufBlocked, BufInfoEnd, Info
    <2>2. held["resv"] = 0 /\ held["rcu"] = 0 /\ held["fence"] = 0
      BY <1>1, <2>1 DEF HeldAt, ResvAt, RcuAt
    <2>3. HeldAfter'
      BY <2>1, <2>2 DEF HeldAfter
    <2>4. phase' = phase => HeldAt'
      BY <2>1, <2>2 DEF HeldAt, ResvAt, RcuAt
    <2> QED
      BY <1>2, <2>1, <2>3, <2>4, InfoStepHolds DEF Same, Keeps
  <1>7. ASSUME NEW b \in BufKinds, BufLock(b) PROVE HeldInv'
    <2>1. Take("resv") /\ di_at = "next" /\ di_at' = "name" /\ phase' = phase
      BY <1>7 DEF BufLock, Info
    <2>2. held["resv"] = 0 /\ held["rcu"] = 0 /\ held["fence"] = 0
      BY <1>1, <2>1 DEF HeldAt, ResvAt, RcuAt
    <2>3. Same /\ held'["resv"] = 1 /\ Keeps("rcu") /\ Keeps("fence")
      BY <1>1, <2>1, <2>2, TakeFacts DEF Same, Keeps
    <2>4. HeldAt'
      BY <2>1, <2>2, <2>3 DEF HeldAt, ResvAt, RcuAt, Keeps
    <2> QED
      BY <2>1, <2>3, <2>4, InfoStepHolds DEF Same, Keeps
  <1>8. CASE BufName \/ BufDevice \/ BufTotal
    <2>1. /\ UNCHANGED held
          /\ \/ di_at = "name" /\ InfoLine("fences")
             \/ di_at = "devices" /\ InfoLine("devices")
             \/ di_at = "total" /\ InfoLine("next")
      BY <1>8 DEF BufName, BufDevice, BufTotal, Info
    <2>2. /\ \/ phase' = phase /\ di_at = "name" /\ di_at' = "fences"
             \/ phase' = phase /\ di_at = "devices" /\ di_at' = "devices"
             \/ phase' = phase /\ di_at = "total" /\ di_at' = "next"
             \/ di_at' = di_at /\ Full(di_offset)'
          /\ di_at \in {"name", "devices", "total"}
      BY <1>3, <1>5, <2>1
    <2>3. HeldAt'
      BY <1>1, <2>1, <2>2 DEF HeldAt, ResvAt, RcuAt
    <2>4. phase' # phase => HeldAfter'
      BY <1>1, <2>1, <2>2 DEF HeldAt, HeldAfter, ResvAt, RcuAt
    <2> QED
      BY <1>2, <2>1, <2>3, <2>4, InfoStepHolds DEF Same, Keeps
  <1>9. CASE BufFences
    <2>1. Take("rcu") /\ di_at = "fences" /\ di_at' = "excl" /\ phase' = phase
      BY <1>4, <1>9 DEF BufFences, Info
    <2>2. held["resv"] = 1 /\ held["rcu"] = 0 /\ held["fence"] = 0
      BY <1>1, <2>1 DEF HeldAt, ResvAt, RcuAt
    <2>3. Same /\ held'["rcu"] = 1 /\ Keeps("resv") /\ Keeps("fence")
      BY <1>1, <2>1, <2>2, TakeFacts DEF Same, Keeps
    <2>4. HeldAt'
      BY <2>1, <2>2, <2>3 DEF HeldAt, ResvAt, RcuAt, Keeps
    <2> QED
      BY <2>1, <2>3, <2>4, InfoStepHolds DEF Same, Keeps
  <1>10. CASE BufExcl
    <2>1. UNCHANGED held /\ di_at = "excl" /\ (InfoLine("shared") \/ Goto("shared"))
      BY <1>10 DEF BufExcl, Info
    <2>2. \/ phase' = phase /\ di_at' = "shared"
          \/ di_at' = di_at /\ Full(di_offset)'
      BY <1>3, <1>4, <1>5, <2>1
    <2>3. HeldAt'
      BY <1>1, <2>1, <2>2 DEF HeldAt, ResvAt, RcuAt
    <2>4. phase' # phase => HeldAfter'
      BY <1>1, <2>1, <2>2 DEF HeldAt, HeldAfter, ResvAt, RcuAt
    <2> QED
      BY <1>2, <2>1, <2>3, <2>4, InfoStepHolds DEF Same, Keeps
  <1>11. CASE BufFence
    <2>1. /\ di_at = "shared"
          /\ (Goto("shared") /\ UNCHANGED held) \/ (Take("fence") /\ InfoLine("put"))
      BY <1>11 DEF BufFence, Info
    <2>2. held["resv"] = 1 /\ held["rcu"] = 1 /\ held["fence"] = 0
      BY <1>1, <2>1 DEF HeldAt, ResvAt, RcuAt
    <2>3. CASE Goto("shared") /\ UNCHANGED held
      <3>1. phase' = phase /\ HeldAt'
        BY <1>1, <1>4, <2>1, <2>3 DEF HeldAt
      <3> QED
        BY <1>2, <2>3, <3>1, InfoStepHolds DEF Same, Keeps
    <2>4. CASE Take("fence") /\ InfoLine("put")
      <3>1. Same /\ held'["fence"] = 1 /\ Keeps("resv") /\ Keeps("rcu")
        BY <1>1, <2>2, <2>4, TakeFacts DEF Same, Keeps
      <3>2. \/ phase' = phase /\ di_at' = "put"
            \/ Full(di_offset)'
        BY <1>3, <1>5, <2>4
      <3>3. phase' = phase => HeldAt'
        <4>1. phase' = phase => di_at' = "put"
          BY <1>1, <2>4 DEF InfoLine
        <4> QED
          BY <2>2, <3>1, <4>1 DEF HeldAt, ResvAt, RcuAt, Keeps
      <3>4. phase' # phase => HeldAfter'
        BY <2>2, <3>1, <3>2 DEF HeldAfter, Keeps
      <3> QED
        BY <3>1, <3>3, <3>4, InfoStepHolds DEF Same, Keeps
    <2> QED
      BY <2>1, <2>3, <2>4
  <1>12. CASE BufPut
    <2>1. Give("fence") /\ di_at = "put" /\ di_at' = "shared" /\ phase' = phase
      BY <1>4, <1>12 DEF BufPut, Info
    <2>2. held["resv"] = 1 /\ held["rcu"] = 1 /\ held["fence"] = 1
      BY <1>1, <2>1 DEF HeldAt, ResvAt, RcuAt
    <2>3. Same /\ held'["fence"] = 0 /\ Keeps("resv") /\ Keeps("rcu")
      BY <1>1, <2>1, <2>2, GiveFacts DEF Same, Keeps
    <2>4. HeldAt'
      BY <2>1, <2>2, <2>3 DEF HeldAt, ResvAt, RcuAt, Keeps
    <2> QED
      BY <2>1, <2>3, <2>4, InfoStepHolds DEF Same, Keeps
  <1>13. CASE BufDevices
    <2>1. Give("rcu") /\ di_at = "shared" /\ InfoLine("devices")
      BY <1>13 DEF BufDevices, Info
    <2>2. held["resv"] = 1 /\ held["rcu"] = 1 /\ held["fence"] = 0
      BY <1>1, <2>1 DEF HeldAt, ResvAt, RcuAt
    <2>3. Same /\ held'["rcu"] = 0 /\ Keeps("resv") /\ Keeps("fence")
      BY <1>1, <2>1, <2>2, GiveFacts DEF Same, Keeps
    <2>4. phase' = phase => di_at' = "devices"
      BY <1>1, <2>1 DEF InfoLine
    <2>5. phase' # phase => Full(di_offset)'
      BY <1>3, <1>5, <2>1
    <2>6. phase' = phase => HeldAt'
      BY <2>2, <2>3, <2>4 DEF HeldAt, ResvAt, RcuAt, Keeps
    <2>7. phase' # phase => HeldAfter'
      BY <2>2, <2>3, <2>5 DEF HeldAfter, Keeps
    <2> QED
      BY <2>3, <2>6, <2>7, InfoStepHolds DEF Same, Keeps
  <1>14. CASE BufUnlock
    <2>1. Give("resv") /\ di_at = "devices" /\ di_at' = "total" /\ phase' = phase
      BY <1>4, <1>14 DEF BufUnlock, Info
    <2>2. held["resv"] = 1 /\ held["rcu"] = 0 /\ held["fence"] = 0
      BY <1>1, <2>1 DEF HeldAt, ResvAt, RcuAt
    <2>3. Same /\ held'["resv"] = 0 /\ Keeps("rcu") /\ Keeps("fence")
      BY <1>1, <2>1, <2>2, GiveFacts DEF Same, Keeps
    <2>4. HeldAt'
      BY <2>1, <2>2, <2>3 DEF HeldAt, ResvAt, RcuAt, Keeps
    <2> QED
      BY <2>1, <2>3, <2>4, InfoStepHolds DEF Same, Keeps
  <1> QED
    BY <1>6, <1>7, <1>8, <1>9, <1>10, <1>11, <1>12, <1>13, <1>14 DEF BufInfo

(* The walk over the processes takes task_lock of a thread and gives it back, on
   every way out. *)
LEMMA ProcHolds ==
  ASSUME HeldInv, InfoInv, UNCHANGED <<todo, so_cache>>, DmaBufNext, ~BufInfo,
         dp_proc \in Procs
  PROVE  HeldInv'
  <1>1. /\ held \in [Holds -> {0, 1}] /\ phase = "dma_procs" /\ TaskHeld
        /\ UNCHANGED <<dma_size, di_offset, di_at>> /\ phase' \in {phase, "between", "blocked"}
        /\ {"list", "resv", "rcu", "fence", "task"} \subseteq Holds
    BY ProcFrame DEF HeldInv, Holds
  <1>2. "dma_procs" \notin todo' /\ "between" \notin todo' /\ held["list"] = 0
        /\ held["task"] \in {0, 1}
    BY <1>1 DEF InfoInv, DumpNames, HeldInv, ListHeld
  <1>3. ASSUME held' \in [Holds -> {0, 1}],
               \A k \in Holds : k # "task" => held'[k] = held[k],
               held'["task"] = 1 => phase' = phase /\ dp_proc'.in,
               phase' = phase /\ held'["task"] = 0 => dp_proc'.fds = <<>>
        PROVE  HeldInv'
    <2>1. held'["resv"] = held["resv"] /\ held'["rcu"] = held["rcu"]
          /\ held'["fence"] = held["fence"] /\ held'["list"] = 0
      BY <1>1, <1>2, <1>3
    <2>2. HeldAt' = HeldAt /\ HeldAfter' = HeldAfter
      BY <1>1, <2>1 DEF HeldAt, HeldAfter, Full
    <2>3. ToCome("dma_info")' => ToCome("dma_info")
      BY <1>1 DEF ToCome
    <2>4. ToCome("dma_procs")' => phase' = phase
      BY <1>1, <1>2 DEF ToCome
    <2>5. ListHeld' /\ TaskHeld'
      BY <1>1, <1>3, <2>1, <2>4 DEF ListHeld, TaskHeld
    <2>6. InfoHeld'
      BY <1>1, <2>2, <2>3 DEF HeldInv, InfoHeld
    <2> QED
      BY <1>3, <2>5, <2>6 DEF HeldInv
  <1>4. held["task"] = 0 => dp_proc.fds = <<>>
    BY <1>1 DEF TaskHeld, ToCome
  <1>5. held["task"] = 1 => dp_proc.in
    BY <1>1 DEF TaskHeld
  <1>6. ASSUME NEW p \in ProcKinds, ProcStart(p) PROVE HeldInv'
    <2>1. UNCHANGED held /\ ~dp_proc.in /\ phase' = phase /\ dp_proc'.fds = <<>>
      BY <1>6 DEF ProcStart, NoProc
    <2>2. held["task"] # 1
      BY <1>5, <2>1
    <2> QED
      BY <1>1, <1>3, <2>1, <2>2
  <1>7. CASE ProcBlocked \/ ProcEnd
    <2>1. UNCHANGED held /\ held["task"] = 0
      BY <1>7 DEF ProcBlocked, ProcEnd
    <2>2. dp_proc'.fds = <<>>
      BY <1>4, <1>7, <2>1 DEF ProcBlocked, ProcEnd, dp_vars, NoProc
    <2> QED
      BY <1>1, <1>3, <2>1, <2>2
  <1>8. CASE ProcThread
    <2>1. held["task"] = 0 /\ dp_proc.in
      BY <1>8 DEF ProcThread
    <2>2. CASE Cut /\ UNCHANGED held
      <3>1. phase' # phase
        BY <1>1, <2>2 DEF Cut
      <3> QED
        BY <1>1, <1>3, <2>1, <2>2, <3>1
    <2>3. CASE GoOn /\ Take("task")
      <3>1. held' \in [Holds -> {0, 1}] /\ held'["task"] = 1
            /\ \A k \in Holds : k # "task" => held'[k] = held[k]
        BY <1>1, <2>1, <2>3, TakeFacts
      <3>2. phase' = phase /\ dp_proc'.in
        BY <1>8, <2>1, <2>3 DEF GoOn, ProcThread, Procs
      <3> QED
        BY <1>3, <3>1, <3>2
    <2> QED
      BY <1>8, <2>2, <2>3 DEF ProcThread
  <1>9. CASE ProcFd
    <2>1. held["task"] = 1 /\ dp_proc.in
      BY <1>2, <1>4, <1>5, <1>9 DEF ProcFd
    <2>2. CASE Cut /\ Give("task")
      <3>1. held' \in [Holds -> {0, 1}] /\ held'["task"] = 0
            /\ \A k \in Holds : k # "task" => held'[k] = held[k]
        BY <1>1, <2>1, <2>2, GiveFacts
      <3>2. phase' # phase
        BY <1>1, <2>2 DEF Cut
      <3> QED
        BY <1>3, <3>1, <3>2
    <2>3. CASE GoOn /\ UNCHANGED held
      <3>1. phase' = phase /\ dp_proc' = [dp_proc EXCEPT !.fds = Tail(@)]
        BY <1>9, <2>3 DEF GoOn, ProcFd
      <3>2. dp_proc'.in
        BY <2>1, <3>1 DEF Procs
      <3> QED
        BY <1>1, <1>3, <2>1, <2>3, <3>1, <3>2
    <2> QED
      BY <1>9, <2>2, <2>3 DEF ProcFd
  <1>10. CASE ProcUnlock
    <2>1. held["task"] = 1 /\ Give("task") /\ dp_proc.fds = <<>> /\ dp_proc' = dp_proc
      BY <1>2, <1>10 DEF ProcUnlock, dp_vars
    <2>2. held' \in [Holds -> {0, 1}] /\ held'["task"] = 0
          /\ \A k \in Holds : k # "task" => held'[k] = held[k]
      BY <1>1, <2>1, GiveFacts
    <2> QED
      BY <1>3, <2>1, <2>2
  <1>11. CASE ProcsEnd
    <2>1. UNCHANGED held /\ phase' # phase /\ ~dp_proc.in
      BY <1>1, <1>11 DEF ProcsEnd
    <2>2. held["task"] # 1
      BY <1>5, <2>1
    <2> QED
      BY <1>1, <1>3, <2>1, <2>2
  <1> QED
    BY <1>6, <1>7, <1>8, <1>9, <1>10, <1>11 DEF DmaBufNext

-----------------------------------------------------------------------------
(***************************************************************************)
(* md_dma_buf_procs.  dp_left + 1 is the number of the process being       *)
(* listed.  As long as the walk goes on, what a process has open is        *)
(* listed, or is still to come: in the files being visited, or in those of *)
(* a thread that was not looked at.  The files a thread shares with its    *)
(* leader are passed over, and that is safe because the leader is the      *)
(* first of its threads.                                                   *)
(***************************************************************************)
(* The list has an entry of process n with this hash. *)
HasEntry(log, n, h) == \E i \in DOMAIN log : log[i][1] = n /\ BufHash[log[i][2]] = h

NoRepetition(log) ==
  \A i, j \in DOMAIN log :
    log[i][1] = log[j][1] /\ BufHash[log[i][2]] = BufHash[log[j][2]] => i = j

(* Buffer b of the process being listed is still to be visited. *)
InFiles(b) == b \in ToSet(dp_proc.fds)
InThreads(b) == \E f \in ToSet(dp_proc.threads) \cap Files : b \in ToSet(FdTable[f])

ProcTypes ==
  /\ dp_offset \in 0..dma_size - 1
  /\ dp_left \in Nat /\ dp_count \in Nat /\ dp_ret \in Int
  /\ dp_log \in Seq(Nat \X Bufs)
  /\ dp_open \subseteq Nat \X Bufs
  /\ dp_proc \in Procs
  /\ \A i \in DOMAIN dp_log : dp_log[i][1] > dp_left
  /\ \A o \in dp_open : o[1] > dp_left

(* Numbers and hashes while the walk goes on. *)
WalkCounts ==
  /\ dp_ret >= 0
  /\ dp_count > 0 => ~Full(dp_offset)
  /\ dp_count = 0 => dma_buf_hash = {}
  /\ ~dp_proc.in => dma_buf_hash = {} /\ dp_proc.fds = <<>>
  /\ dp_proc.in => \A h : h \in dma_buf_hash <=> HasEntry(dp_log, dp_left + 1, h)

(* The leader's files come first, and are visited unless it has exited. *)
WalkLeader ==
  /\ dp_proc.group_leader_files \in {NoFiles, dp_proc.leader}
  /\ dp_proc.first => /\ dp_proc.fds = <<>> /\ dp_proc.threads # <<>>
                      /\ Head(dp_proc.threads) = dp_proc.leader
  /\ dp_proc.in /\ ~dp_proc.first /\ dp_proc.leader # NoFiles =>
       /\ dp_ret = 0
       /\ \A b \in ToSet(FdTable[dp_proc.leader]) :
            HasEntry(dp_log, dp_left + 1, BufHash[b]) \/ InFiles(b)

WalkCovers ==
  \A o \in dp_open :
    \/ HasEntry(dp_log, o[1], BufHash[o[2]])
    \/ dp_proc.in /\ o[1] = dp_left + 1 /\ (InFiles(o[2]) \/ InThreads(o[2]))

ProcInv ==
  /\ ProcTypes
  /\ ToCome("dma_procs") => ~dp_err
  /\ NoRepetition(dp_log)
  /\ ProcsCutOnlyFor
  /\ ~dp_err => WalkCounts /\ WalkLeader /\ WalkCovers

(* The elements of a sequence are its head and those of its tail. *)
LEMMA HeadTail ==
  ASSUME NEW S, NEW s \in Seq(S), s # <<>>
  PROVE  /\ Head(s) \in S /\ Tail(s) \in Seq(S)
         /\ \A x \in ToSet(s) : x = Head(s) \/ x \in ToSet(Tail(s))
  <1>1. Head(s) \in S /\ Tail(s) \in Seq(S) /\ Len(s) \in Nat /\ Len(s) > 0
    OBVIOUS
  <1>2. ASSUME NEW x \in ToSet(s) PROVE x = Head(s) \/ x \in ToSet(Tail(s))
    <2>1. PICK i \in DOMAIN s : x = s[i]
      BY DEF ToSet
    <2>2. i \in 1..Len(s)
      BY <2>1
    <2>3. CASE i = 1
      BY <2>1, <2>3
    <2>4. CASE i # 1
      <3>1. i - 1 \in 1..Len(s) - 1
        BY <1>1, <2>2, <2>4
      <3>2. i - 1 \in DOMAIN Tail(s) /\ Tail(s)[i - 1] = s[i]
        BY <1>1, <2>2, <3>1
      <3> QED
        BY <2>1, <3>2 DEF ToSet
    <2> QED
      BY <2>3, <2>4
  <1> QED
    BY <1>1, <1>2

LEMMA NothingInEmpty == ToSet(<<>>) = {}
  BY DEF ToSet

LEMMA InitProcInv == Init => ProcInv
  <1> SUFFICES ASSUME Init PROVE ProcInv
    OBVIOUS
  <1>1. /\ dma_size \in Nat \ {0} /\ dp_offset = 0 /\ dp_ret = 0 /\ dp_count = 0
        /\ dma_buf_hash = {} /\ dp_proc = NoProc /\ dp_left = MaxProcs /\ dp_err = FALSE
        /\ dp_log = <<>> /\ dp_open = {}
    BY DmaAssumption DEF Init, DInit
  <1>2. MaxProcs \in Nat
    BY DmaAssumption
  <1>3. NoProc \in Procs
    BY DEF NoProc, Procs
  <1>4. DOMAIN << >> = {} /\ << >> \in Seq(Nat \X Bufs)
    OBVIOUS
  <1>5. ~NoProc.in /\ ~NoProc.first /\ NoProc.fds = <<>> /\ NoProc.group_leader_files = NoFiles
    BY DEF NoProc
  <1>6. ProcTypes
    BY <1>1, <1>2, <1>3, <1>4 DEF ProcTypes
  <1>7. WalkCounts /\ WalkLeader /\ WalkCovers
    BY <1>1, <1>5 DEF WalkCounts, WalkLeader, WalkCovers
  <1> QED
    BY <1>1, <1>4, <1>6, <1>7 DEF ProcInv, NoRepetition, ProcsCutOnlyFor

(* The next process: nothing of it is listed, and all of it is to come. *)
LEMMA ProcStartKeeps ==
  ASSUME ProcInv, NEW p \in ProcKinds, ProcStart(p)
  PROVE  ProcInv'
  <1>1. /\ phase' = "dma_procs" /\ ~dp_proc.in /\ dp_left > 0 /\ dp_left' = dp_left - 1
        /\ UNCHANGED <<dma_size, dp_offset, dp_ret, dp_count, dma_buf_hash, dp_err, dp_log>>
        /\ dp_open' = dp_open \cup
             UNION {{<<dp_left, b>> : b \in ToSet(FdTable[f])} : f \in ToSet(p) \cap Files}
    BY DEF ProcStart
  <1>2. ~dp_err /\ WalkCounts /\ WalkCovers /\ ProcTypes
    BY DEF ProcInv, ProcStart, ToCome
  <1>3. p \in Seq(Files \cup {NoFiles}) /\ p # <<>>
    BY DmaAssumption DEF ProcKind
  <1>4. Head(p) = p[1] /\ p[1] \in Files \cup {NoFiles}
    BY <1>3
  <1>5. /\ dp_proc'.threads = p /\ dp_proc'.leader = p[1] /\ dp_proc'.fds = <<>>
        /\ dp_proc'.group_leader_files = NoFiles /\ dp_proc'.first /\ dp_proc'.in
        /\ dp_proc' \in Procs
    <2>1. dp_proc' = [threads |-> p, fds |-> << >>, leader |-> p[1],
                      group_leader_files |-> NoFiles, first |-> TRUE, in |-> TRUE]
      BY DEF ProcStart, NoProc
    <2>2. << >> \in Seq(Bufs)
      OBVIOUS
    <2>3. dp_proc' \in Procs
      BY <1>3, <1>4, <2>1, <2>2 DEF Procs
    <2> QED
      BY <2>1, <2>3
  <1>6. dp_left \in Nat /\ dp_left' \in Nat /\ dp_left' + 1 = dp_left
    BY <1>1, <1>2 DEF ProcTypes
  <1>7. \A o \in dp_open' : \/ o \in dp_open
                            \/ \E f \in ToSet(p) \cap Files : \E b \in ToSet(FdTable[f]) :
                                 o = <<dp_left, b>>
    BY <1>1
  <1>8. \A f \in Files : ToSet(FdTable[f]) \subseteq Bufs
    BY DmaAssumption DEF ToSet
  <1>9. ProcTypes'
    <2>1. \A o \in dp_open' : o \in Nat \X Bufs /\ o[1] > dp_left'
      <3> TAKE o \in dp_open'
      <3>1. CASE o \in dp_open
        <4>1. o \in Nat \X Bufs /\ o[1] > dp_left
          BY <1>2, <3>1 DEF ProcTypes
        <4>2. o[1] \in Nat
          BY <4>1
        <4>3. o[1] > dp_left'
          BY <1>1, <1>6, <4>1, <4>2
        <4> QED
          BY <4>1, <4>3
      <3>2. CASE \E f \in ToSet(p) \cap Files : \E b \in ToSet(FdTable[f]) : o = <<dp_left, b>>
        <4>1. PICK f \in ToSet(p) \cap Files : \E b \in ToSet(FdTable[f]) : o = <<dp_left, b>>
          BY <3>2
        <4>2. PICK b \in ToSet(FdTable[f]) : o = <<dp_left, b>>
          BY <4>1
        <4>3. b \in Bufs
          BY <1>8, <4>1, <4>2
        <4>4. dp_left > dp_left'
          BY <1>1, <1>6
        <4> QED
          BY <1>6, <4>2, <4>3, <4>4
      <3> QED
        BY <1>7, <3>1, <3>2
    <2>2. \A i \in DOMAIN dp_log : dp_log[i][1] > dp_left'
      <3> TAKE i \in DOMAIN dp_log
      <3>1. dp_log[i] \in Nat \X Bufs /\ dp_log[i][1] > dp_left
        BY <1>2 DEF ProcTypes
      <3>2. dp_log[i][1] \in Nat
        BY <3>1
      <3> QED
        BY <1>6, <3>1, <3>2
    <2> QED
      BY <1>1, <1>2, <1>5, <1>6, <2>1, <2>2 DEF ProcTypes
  <1>10. \A h : ~HasEntry(dp_log, dp_left' + 1, h)
    <2>1. \A i \in DOMAIN dp_log : dp_log[i][1] # dp_left
      BY <1>2, <1>6 DEF ProcTypes
    <2> QED
      BY <1>6, <2>1 DEF HasEntry
  <1>11. WalkCounts'
    BY <1>1, <1>2, <1>5, <1>10 DEF WalkCounts, Full
  <1>12. WalkLeader'
    BY <1>3, <1>4, <1>5 DEF WalkLeader
  <1>13. WalkCovers'
    <2> SUFFICES ASSUME NEW o \in dp_open'
                 PROVE  \/ HasEntry(dp_log, o[1], BufHash[o[2]])
                        \/ o[1] = dp_left' + 1 /\ InThreads(o[2])'
      BY <1>1, <1>5 DEF WalkCovers
    <2>1. CASE o \in dp_open
      BY <1>1, <1>2, <2>1 DEF WalkCovers
    <2>2. CASE \E f \in ToSet(p) \cap Files : \E b \in ToSet(FdTable[f]) : o = <<dp_left, b>>
      <3>1. PICK f \in ToSet(p) \cap Files : \E b \in ToSet(FdTable[f]) : o = <<dp_left, b>>
        BY <2>2
      <3>2. o[1] = dp_left /\ o[2] \in ToSet(FdTable[f])
        BY <3>1
      <3> QED
        BY <1>5, <1>6, <3>1, <3>2 DEF InThreads
    <2> QED
      BY <1>7, <2>1, <2>2
  <1> QED
    BY <1>1, <1>2, <1>9, <1>11, <1>12, <1>13 DEF ProcInv, ProcsCutOnlyFor

(* One thread: its files are visited, or nothing of them is new. *)
LEMMA ProcThreadKeeps ==
  ASSUME ProcInv, InfoInv, HeldInv, UNCHANGED todo, ProcThread
  PROVE  ProcInv'
  <1> DEFINE files == Head(dp_proc.threads)
             leader == dp_proc.leader
             glf == IF dp_proc.group_leader_files = NoFiles THEN leader
                    ELSE dp_proc.group_leader_files
             visit == Iterates(files, glf, dp_proc.first)
  <1>1. /\ phase = "dma_procs" /\ dp_proc.in /\ dp_proc.fds = <<>> /\ dp_proc.threads # <<>>
        /\ UNCHANGED <<dma_size, dp_offset, dp_count, dma_buf_hash, dp_left, dp_log, dp_open>>
        /\ dp_proc' = [dp_proc EXCEPT !.threads = Tail(@), !.group_leader_files = glf,
                                      !.first = FALSE,
                                      !.fds = IF visit THEN FdTable[files] ELSE <<>>]
        /\ dp_ret' = IF visit THEN 0 ELSE dp_ret
        /\ IF dp_ret' # 0 THEN Cut ELSE GoOn
    BY DEF ProcThread, RetOf, HeldInv, TaskHeld, ToCome
  <1>2. ~dp_err /\ WalkCounts /\ WalkLeader /\ WalkCovers /\ ProcTypes /\ NoRepetition(dp_log)
    BY <1>1 DEF ProcInv, ToCome
  <1>3. /\ dp_proc \in Procs /\ dp_ret \in Int /\ dp_ret >= 0
    BY <1>2 DEF ProcTypes, WalkCounts
  <1>4. /\ files \in Files \cup {NoFiles} /\ Tail(dp_proc.threads) \in Seq(Files \cup {NoFiles})
        /\ \A x \in ToSet(dp_proc.threads) : x = files \/ x \in ToSet(Tail(dp_proc.threads))
    <2>1. dp_proc.threads \in Seq(Files \cup {NoFiles})
      BY <1>3 DEF Procs
    <2> QED
      BY <1>1, <2>1, HeadTail
  <1>5. glf = leader /\ leader \in Files \cup {NoFiles}
    BY <1>2, <1>3 DEF WalkLeader, Procs
  <1> HIDE DEF glf
  <1>6. /\ visit <=> files # NoFiles /\ (leader # files \/ dp_proc.first)
        /\ dp_proc.first => files = leader
    BY <1>2, <1>5 DEF Iterates, WalkLeader
  <1>7. (IF visit THEN FdTable[files] ELSE <<>>) \in Seq(Bufs)
    <2>1. visit => FdTable[files] \in Seq(Bufs)
      BY <1>4, <1>6, DmaAssumption
    <2>2. << >> \in Seq(Bufs)
      OBVIOUS
    <2> QED
      BY <2>1, <2>2, Zenon
  <1> HIDE DEF visit
  <1>8. /\ dp_proc'.threads = Tail(dp_proc.threads) /\ dp_proc'.leader = leader
        /\ dp_proc'.group_leader_files = leader /\ dp_proc'.first = FALSE
        /\ dp_proc'.fds = (IF visit THEN FdTable[files] ELSE <<>>)
        /\ dp_proc'.in = dp_proc.in
    BY <1>1, <1>3, <1>5 DEF Procs
  <1>9. dp_proc' \in Procs
    BY <1>1, <1>3, <1>4, <1>5, <1>7 DEF Procs
  <1> HIDE DEF files
  <1>10. dp_ret' \in Int /\ dp_ret' >= 0
    BY <1>1, <1>3
  <1>11. ProcTypes'
    BY <1>1, <1>2, <1>9, <1>10 DEF ProcTypes
  <1>12. leader # NoFiles /\ ~dp_proc.first => dp_ret = 0
    BY <1>1, <1>2 DEF WalkLeader
  <1>13. dp_ret' # 0 => ~visit /\ dp_ret' = dp_ret /\ leader = NoFiles
    BY <1>1, <1>6, <1>12
  <1>14. ProcsCutOnlyFor'
    <2>1. dp_ret' # 0 => dp_ret' > 0 /\ leader = NoFiles
      BY <1>10, <1>13
    <2>2. dp_ret' = 0 => ~dp_err'
      BY <1>1, <1>2 DEF GoOn
    <2> QED
      BY <1>8, <2>1, <2>2 DEF ProcsCutOnlyFor
  <1>15. WalkCounts'
    BY <1>1, <1>2, <1>8, <1>10 DEF WalkCounts, Full
  <1>16. ASSUME leader # NoFiles, NEW b \in ToSet(FdTable[leader]), ~visit
         PROVE  HasEntry(dp_log, dp_left + 1, BufHash[b])
    <2>1. ~dp_proc.first
      BY <1>6, <1>16
    <2>2. ~InFiles(b)
      BY <1>1, NothingInEmpty DEF InFiles
    <2> QED
      BY <1>1, <1>2, <1>16, <2>1, <2>2 DEF WalkLeader
  <1>17. ASSUME leader # NoFiles, NEW b \in ToSet(FdTable[leader])
         PROVE  HasEntry(dp_log, dp_left + 1, BufHash[b]) \/ InFiles(b)'
    <2>1. CASE ~visit
      BY <1>16, <1>17, <2>1
    <2>2. CASE visit /\ files = leader
      BY <1>8, <2>2 DEF InFiles
    <2>3. CASE visit /\ files # leader
      <3>1. ~dp_proc.first
        BY <1>6, <2>3
      <3>2. ~InFiles(b)
        BY <1>1, NothingInEmpty DEF InFiles
      <3> QED
        BY <1>1, <1>2, <1>17, <3>1, <3>2 DEF WalkLeader
    <2> QED
      BY <2>1, <2>2, <2>3
  <1>18. dp_ret' = 0 => WalkLeader'
    BY <1>1, <1>8, <1>17 DEF WalkLeader
  <1>19. WalkCovers'
    <2> SUFFICES ASSUME NEW o \in dp_open
                 PROVE  \/ HasEntry(dp_log, o[1], BufHash[o[2]])
                        \/ o[1] = dp_left + 1 /\ (InFiles(o[2])' \/ InThreads(o[2])')
      BY <1>1, <1>8 DEF WalkCovers
    <2>1. ~InFiles(o[2])
      BY <1>1, NothingInEmpty DEF InFiles
    <2>2. \/ HasEntry(dp_log, o[1], BufHash[o[2]])
          \/ o[1] = dp_left + 1 /\ InThreads(o[2])
      BY <1>2, <2>1 DEF WalkCovers
    <2>3. ASSUME o[1] = dp_left + 1,
                 NEW f \in ToSet(dp_proc.threads) \cap Files, o[2] \in ToSet(FdTable[f])
          PROVE  \/ HasEntry(dp_log, o[1], BufHash[o[2]])
                 \/ InFiles(o[2])' \/ InThreads(o[2])'
      <3>1. CASE f \in ToSet(Tail(dp_proc.threads))
        BY <1>8, <2>3, <3>1 DEF InThreads
      <3>2. CASE f = files /\ visit
        BY <1>8, <2>3, <3>2 DEF InFiles
      <3>3. CASE f = files /\ ~visit
        <4>1. f = leader /\ leader # NoFiles
          BY <1>6, <3>3, DmaAssumption
        <4> QED
          BY <1>16, <2>3, <3>3, <4>1
      <3> QED
        BY <1>4, <3>1, <3>2, <3>3
    <2> QED
      BY <2>2, <2>3 DEF InThreads
  <1>20. ToCome("dma_procs")' => ~dp_err'
    <2>1. "dma_procs" \notin todo'
      BY <1>1 DEF InfoInv
    <2>2. phase' = "dma_procs" => dp_err' = dp_err
      BY <1>1 DEF Cut, GoOn
    <2> QED
      BY <1>2, <2>1, <2>2 DEF ToCome
  <1>21. ~dp_err' => dp_ret' = 0
    BY <1>1 DEF Cut
  <1>22. NoRepetition(dp_log')
    BY <1>1, <1>2
  <1> QED
    BY <1>11, <1>14, <1>15, <1>18, <1>19, <1>20, <1>21, <1>22 DEF ProcInv

(* One open dma-buf: it has an entry, or gets one, unless the region is full. *)
LEMMA ProcFdKeeps ==
  ASSUME ProcInv, InfoInv, UNCHANGED todo, ProcFd
  PROVE  ProcInv'
  <1> DEFINE b == Head(dp_proc.fds)
             head == IF dp_count = 0 THEN 1 ELSE 0
             lines == IF Listed(b) \/ Full(After(dp_offset, head)) THEN head ELSE head + 2
             entry == <<dp_left + 1, b>>
  <1>1. /\ phase = "dma_procs" /\ dp_proc.fds # <<>>
        /\ UNCHANGED <<dma_size, dp_left, dp_open>>
        /\ dp_offset' = After(dp_offset, lines)
        /\ dp_proc' = [dp_proc EXCEPT !.fds = Tail(@)]
        /\ dp_ret' = IF lines > 0 /\ Full(dp_offset') THEN -1 ELSE 0
        /\ IF dp_ret' # 0 THEN Cut ELSE GoOn
    BY DEF ProcFd
  <1>2. \/ lines = head /\ UNCHANGED <<dma_buf_hash, dp_count, dp_log>>
        \/ /\ lines # head /\ dma_buf_hash' = dma_buf_hash \cup {BufHash[b]}
           /\ dp_count' = dp_count + 1 /\ dp_log' = Append(dp_log, entry)
    BY DEF ProcFd
  <1>3. ~dp_err /\ WalkCounts /\ WalkLeader /\ WalkCovers /\ ProcTypes /\ NoRepetition(dp_log)
    BY <1>1 DEF ProcInv, ToCome
  <1>4. /\ dp_proc \in Procs /\ dp_offset \in 0..dma_size - 1 /\ dp_count \in Nat
        /\ dp_left \in Nat /\ dp_log \in Seq(Nat \X Bufs) /\ dma_size \in Nat \ {0}
    BY <1>3 DEF ProcTypes, InfoInv
  <1>5. /\ b \in Bufs /\ Tail(dp_proc.fds) \in Seq(Bufs)
        /\ \A x \in ToSet(dp_proc.fds) : x = b \/ x \in ToSet(Tail(dp_proc.fds))
    <2>1. dp_proc.fds \in Seq(Bufs)
      BY <1>4 DEF Procs
    <2> QED
      BY <1>1, <2>1, HeadTail
  <1>6. dp_proc.in /\ ~dp_proc.first
    BY <1>1, <1>3 DEF WalkCounts, WalkLeader
  <1>7. /\ dp_proc'.threads = dp_proc.threads /\ dp_proc'.leader = dp_proc.leader
        /\ dp_proc'.group_leader_files = dp_proc.group_leader_files
        /\ dp_proc'.fds = Tail(dp_proc.fds)
        /\ dp_proc'.in = dp_proc.in /\ dp_proc'.first = dp_proc.first
    BY <1>1, <1>4 DEF Procs
  <1>8. dp_proc' \in Procs
    BY <1>1, <1>4, <1>5 DEF Procs
  <1> HIDE DEF b
  <1>9. head \in Nat /\ lines \in Nat /\ (lines = head \/ lines > 0)
    OBVIOUS
  <1>10. dp_offset' \in 0..dma_size - 1
    BY <1>1, <1>4, <1>9, AfterFacts
  <1>11. lines = head /\ ~Full(dp_offset') => Listed(b) /\ dp_count > 0 /\ lines = 0
    <2> SUFFICES ASSUME lines = head, ~Full(dp_offset')
                 PROVE  Listed(b) /\ dp_count > 0 /\ lines = 0
      OBVIOUS
    <2>1. ~Full(After(dp_offset, head))
      BY <1>1
    <2>2. Listed(b)
      BY <2>1
    <2>3. dp_count # 0
      BY <1>3, <2>2 DEF Listed, WalkCounts
    <2> QED
      BY <1>4, <2>2, <2>3
  <1>12. lines # head => ~Listed(b) /\ lines > 0
    BY <1>9
  <1>13. lines = 0 => ~Full(dp_offset') /\ dp_count > 0
    <2> SUFFICES ASSUME lines = 0 PROVE ~Full(dp_offset') /\ dp_count > 0
      OBVIOUS
    <2>1. dp_count # 0 /\ dp_count > 0
      BY <1>4
    <2>2. After(dp_offset, 0) = dp_offset
      BY <1>4, AfterFacts
    <2>3. dp_offset' = dp_offset
      BY <1>1, <2>2
    <2>4. ~Full(dp_offset)
      BY <1>3, <2>1 DEF WalkCounts
    <2> QED
      BY <1>1, <2>1, <2>3, <2>4 DEF Full
  <1> HIDE DEF lines, head
  <1>14. dp_ret' \in {-1, 0} /\ (dp_ret' = 0 <=> ~Full(dp_offset'))
    <2>1. lines > 0 \/ lines = 0
      BY <1>9
    <2> QED
      BY <1>1, <1>13, <2>1
  <1>15. /\ dp_log' \in Seq(Nat \X Bufs)
         /\ \A i \in DOMAIN dp_log' : dp_log'[i][1] > dp_left
         /\ \A n, h : HasEntry(dp_log, n, h) => HasEntry(dp_log', n, h)
         /\ NoRepetition(dp_log')
         /\ lines = head \/ HasEntry(dp_log', dp_left + 1, BufHash[b])
         /\ \A h : h \in dma_buf_hash' <=> HasEntry(dp_log', dp_left + 1, h)
    <2>1. CASE dp_log' = dp_log /\ dma_buf_hash' = dma_buf_hash /\ lines = head
      BY <1>3, <1>6, <2>1 DEF ProcTypes, WalkCounts
    <2>2. CASE /\ lines # head /\ dp_log' = Append(dp_log, entry)
               /\ dma_buf_hash' = dma_buf_hash \cup {BufHash[b]}
      <3>1. entry \in Nat \X Bufs /\ entry[1] = dp_left + 1 /\ entry[2] = b
        BY <1>4, <1>5
      <3>2. /\ dp_log' \in Seq(Nat \X Bufs) /\ DOMAIN dp_log = 1..Len(dp_log)
            /\ DOMAIN dp_log' = 1..Len(dp_log) + 1 /\ Len(dp_log) \in Nat
            /\ dp_log'[Len(dp_log) + 1] = entry
            /\ \A i \in 1..Len(dp_log) : dp_log'[i] = dp_log[i]
        BY <1>4, <2>2, <3>1
      <3> HIDE DEF entry
      <3>3. \A i \in DOMAIN dp_log' : i \in DOMAIN dp_log \/ i = Len(dp_log) + 1
        BY <3>2
      <3>4. \A i \in DOMAIN dp_log' : dp_log'[i][1] > dp_left
        <4>1. \A i \in DOMAIN dp_log : dp_log[i][1] > dp_left
          BY <1>3 DEF ProcTypes
        <4>2. dp_left + 1 > dp_left
          BY <1>4
        <4> QED
          BY <3>1, <3>2, <3>3, <4>1, <4>2
      <3>5. ~HasEntry(dp_log, dp_left + 1, BufHash[b])
        BY <1>3, <1>6, <1>12, <2>2 DEF Listed, WalkCounts
      <3>6. \A n, h : HasEntry(dp_log', n, h) <=>
                        HasEntry(dp_log, n, h) \/ (n = dp_left + 1 /\ h = BufHash[b])
        <4>1. Len(dp_log) + 1 \in DOMAIN dp_log' /\ DOMAIN dp_log \subseteq DOMAIN dp_log'
          BY <3>2
        <4>2. ASSUME NEW n, NEW h, HasEntry(dp_log', n, h)
              PROVE  HasEntry(dp_log, n, h) \/ (n = dp_left + 1 /\ h = BufHash[b])
          <5>1. PICK i \in DOMAIN dp_log' : dp_log'[i][1] = n /\ BufHash[dp_log'[i][2]] = h
            BY <4>2 DEF HasEntry
          <5>2. CASE i = Len(dp_log) + 1
            BY <3>1, <3>2, <5>1, <5>2
          <5>3. CASE i \in DOMAIN dp_log
            <6>1. dp_log'[i] = dp_log[i]
              BY <3>2, <5>3
            <6>2. dp_log[i][1] = n /\ BufHash[dp_log[i][2]] = h
              BY <5>1, <6>1
            <6> QED
              BY <5>3, <6>2 DEF HasEntry
          <5> QED
            BY <3>3, <5>2, <5>3
        <4>3. ASSUME NEW n, NEW h, HasEntry(dp_log, n, h) PROVE HasEntry(dp_log', n, h)
          <5>1. PICK i \in DOMAIN dp_log : dp_log[i][1] = n /\ BufHash[dp_log[i][2]] = h
            BY <4>3 DEF HasEntry
          <5>2. dp_log'[i] = dp_log[i] /\ i \in DOMAIN dp_log'
            BY <3>2, <4>1
          <5> QED
            BY <5>1, <5>2 DEF HasEntry
        <4>4. HasEntry(dp_log', dp_left + 1, BufHash[b])
          BY <3>1, <3>2, <4>1 DEF HasEntry
        <4> QED
          BY <4>2, <4>3, <4>4
      <3>7. NoRepetition(dp_log')
        <4> SUFFICES ASSUME NEW i \in DOMAIN dp_log', NEW j \in DOMAIN dp_log',
                            dp_log'[i][1] = dp_log'[j][1],
                            BufHash[dp_log'[i][2]] = BufHash[dp_log'[j][2]]
                     PROVE  i = j
          BY DEF NoRepetition
        <4>1. CASE i \in DOMAIN dp_log /\ j \in DOMAIN dp_log
          BY <1>3, <3>2, <4>1 DEF NoRepetition
        <4>2. CASE i = Len(dp_log) + 1 /\ j \in DOMAIN dp_log
          BY <3>1, <3>2, <3>5, <4>2 DEF HasEntry
        <4>3. CASE j = Len(dp_log) + 1 /\ i \in DOMAIN dp_log
          BY <3>1, <3>2, <3>5, <4>3 DEF HasEntry
        <4> QED
          BY <3>3, <4>1, <4>2, <4>3
      <3>8. \A h : h \in dma_buf_hash <=> HasEntry(dp_log, dp_left + 1, h)
        BY <1>3, <1>6 DEF WalkCounts
      <3>9. \A h : h \in dma_buf_hash' <=> HasEntry(dp_log', dp_left + 1, h)
        BY <2>2, <3>6, <3>8, Zenon
      <3>10. /\ \A n, h : HasEntry(dp_log, n, h) => HasEntry(dp_log', n, h)
             /\ HasEntry(dp_log', dp_left + 1, BufHash[b])
        BY <3>6, Zenon
      <3> QED
        BY <3>2, <3>4, <3>7, <3>9, <3>10, Zenon
    <2> QED
      BY <1>2, <2>1, <2>2
  <1>16. ~Full(dp_offset') => HasEntry(dp_log', dp_left + 1, BufHash[b])
    BY <1>3, <1>6, <1>11, <1>15 DEF Listed, WalkCounts
  <1>17. dp_count' \in Nat /\ (dp_count' = 0 => dma_buf_hash' = {})
    BY <1>2, <1>3, <1>4 DEF WalkCounts
  <1>18. ProcTypes'
    BY <1>1, <1>3, <1>8, <1>10, <1>14, <1>15, <1>17 DEF ProcTypes
  <1>f. Full(dp_offset)' <=> Full(dp_offset')
    BY <1>1 DEF Full
  <1>19. ProcsCutOnlyFor'
    <2>1. dp_err' => dp_ret' # 0
      BY <1>1, <1>3 DEF GoOn
    <2> QED
      BY <1>14, <1>f, <2>1 DEF ProcsCutOnlyFor
  <1>20. dp_ret' = 0 => WalkCounts'
    <2> SUFFICES ASSUME dp_ret' = 0 PROVE WalkCounts'
      OBVIOUS
    <2>1. ~Full(dp_offset)' /\ dp_ret' >= 0 /\ dp_proc'.in
      BY <1>6, <1>7, <1>14, <1>f
    <2>2. dp_left' = dp_left
      BY <1>1
    <2> QED
      BY <1>15, <1>17, <2>1, <2>2 DEF WalkCounts
  <1>21. ASSUME dp_ret' = 0, NEW x, InFiles(x)
         PROVE  HasEntry(dp_log', dp_left + 1, BufHash[x]) \/ InFiles(x)'
    BY <1>5, <1>7, <1>14, <1>16, <1>21 DEF InFiles
  <1>22. dp_ret' = 0 => WalkLeader'
    BY <1>1, <1>3, <1>6, <1>7, <1>15, <1>21 DEF WalkLeader
  <1>23. dp_ret' = 0 => WalkCovers'
    <2> SUFFICES ASSUME dp_ret' = 0, NEW o \in dp_open
                 PROVE  \/ HasEntry(dp_log', o[1], BufHash[o[2]])
                        \/ o[1] = dp_left + 1 /\ (InFiles(o[2])' \/ InThreads(o[2])')
      BY <1>1, <1>6, <1>7 DEF WalkCovers
    <2>1. CASE HasEntry(dp_log, o[1], BufHash[o[2]])
      BY <1>15, <2>1
    <2>2. CASE o[1] = dp_left + 1 /\ InThreads(o[2])
      BY <1>7, <2>2 DEF InThreads
    <2>3. CASE o[1] = dp_left + 1 /\ InFiles(o[2])
      BY <1>21, <2>3
    <2> QED
      BY <1>3, <2>1, <2>2, <2>3 DEF WalkCovers
  <1>24. ToCome("dma_procs")' => ~dp_err'
    <2>1. "dma_procs" \notin todo'
      BY <1>1 DEF InfoInv
    <2>2. phase' = "dma_procs" => dp_err' = dp_err
      BY <1>1 DEF Cut, GoOn
    <2> QED
      BY <1>3, <2>1, <2>2 DEF ToCome
  <1>25. ~dp_err' => dp_ret' = 0
    BY <1>1 DEF Cut
  <1> QED
    BY <1>15, <1>18, <1>19, <1>20, <1>22, <1>23, <1>24, <1>25 DEF ProcInv

(* The end of a process: all it has open was listed. *)
LEMMA ProcEndKeeps ==
  ASSUME ProcInv, InfoInv, HeldInv, UNCHANGED todo, ProcEnd
  PROVE  ProcInv'
  <1>1. /\ phase = "dma_procs" /\ dp_proc.in /\ dp_proc.fds = <<>> /\ dp_proc.threads = <<>>
        /\ dp_proc' = NoProc /\ UNCHANGED <<dma_size, dp_left, dp_log, dp_open>>
    BY DEF ProcEnd, HeldInv, TaskHeld, ToCome
  <1>2. ~dp_err /\ WalkCounts /\ WalkCovers /\ ProcTypes /\ NoRepetition(dp_log)
    BY <1>1 DEF ProcInv, ToCome
  <1>3. /\ dma_size \in Nat \ {0} /\ dp_offset \in 0..dma_size - 1 /\ dp_count \in Nat
        /\ dp_ret \in Int /\ dp_ret >= 0
    BY <1>2 DEF InfoInv, ProcTypes, WalkCounts
  <1>4. /\ NoProc \in Procs /\ ~NoProc.in /\ ~NoProc.first /\ NoProc.fds = <<>>
        /\ NoProc.group_leader_files = NoFiles
    BY DEF NoProc, Procs
  <1>5. After(dp_offset, 1) \in 0..dma_size - 1 /\ After(dp_offset, 1) >= dp_offset
    BY <1>3, AfterFacts
  <1>6. /\ dp_offset' \in 0..dma_size - 1 /\ dp_ret' \in Int /\ dp_ret' >= 0 /\ dp_count' \in Nat
    <2>1. CASE dp_count = 0
      BY <1>3, <2>1 DEF ProcEnd
    <2>2. CASE dp_count > 0
      <3>1. dp_offset' = After(dp_offset, 1) /\ dp_ret' = dp_offset' - dp_offset
        BY <1>3, <2>2 DEF ProcEnd
      <3>2. dp_count' = dp_count \/ dp_count' = 0
        BY <1>3, <2>2 DEF ProcEnd
      <3>3. dp_offset' \in 0..dma_size - 1 /\ dp_offset' >= dp_offset
        BY <1>5, <3>1
      <3> QED
        BY <1>3, <3>1, <3>2, <3>3
    <2> QED
      BY <1>3, <2>1, <2>2
  <1>7. ProcTypes'
    BY <1>1, <1>2, <1>4, <1>6 DEF ProcTypes
  <1>8. \/ GoOn /\ dp_count' = 0 /\ dma_buf_hash' = {}
        \/ Cut /\ Full(dp_offset')
    BY <1>2, <1>3 DEF ProcEnd, WalkCounts, HashAfterTotal
  <1>9. Full(dp_offset)' <=> Full(dp_offset')
    BY <1>1 DEF Full
  <1>10. ProcsCutOnlyFor'
    BY <1>2, <1>8, <1>9 DEF ProcsCutOnlyFor, GoOn
  <1>11. ~dp_err' => WalkCounts'
    <2> SUFFICES ASSUME ~dp_err' PROVE WalkCounts'
      OBVIOUS
    <2>1. dp_count' = 0 /\ dma_buf_hash' = {}
      BY <1>8 DEF Cut
    <2> QED
      BY <1>1, <1>4, <1>6, <2>1 DEF WalkCounts
  <1>12. WalkLeader'
    BY <1>1, <1>4 DEF WalkLeader
  <1>13. WalkCovers'
    <2>1. \A x : ~InFiles(x) /\ ~InThreads(x)
      BY <1>1, NothingInEmpty DEF InFiles, InThreads
    <2> QED
      BY <1>1, <1>2, <2>1 DEF WalkCovers
  <1>14. ToCome("dma_procs")' => ~dp_err'
    <2>1. "dma_procs" \notin todo'
      BY <1>1 DEF InfoInv
    <2>2. phase' = "dma_procs" => dp_err' = dp_err
      BY <1>8 DEF Cut, GoOn
    <2> QED
      BY <1>2, <2>1, <2>2 DEF ToCome
  <1> QED
    BY <1>1, <1>2, <1>7, <1>10, <1>11, <1>12, <1>13, <1>14 DEF ProcInv

(* Steps that leave the walk over the processes alone. *)
LEMMA ProcStays ==
  ASSUME ProcInv, UNCHANGED <<dma_size, dp_vars>>,
         ToCome("dma_procs")' => ToCome("dma_procs")
  PROVE  ProcInv'
  <1>1. UNCHANGED <<dma_size, dp_offset, dp_ret, dp_count, dma_buf_hash, dp_proc, dp_left,
                    dp_err, dp_log, dp_open>>
    BY DEF dp_vars
  <1>2. ProcTypes' = ProcTypes /\ ProcsCutOnlyFor' = ProcsCutOnlyFor
    BY <1>1 DEF ProcTypes, ProcsCutOnlyFor, Full
  <1>3. WalkCounts' = WalkCounts /\ WalkLeader' = WalkLeader /\ WalkCovers' = WalkCovers
    BY <1>1 DEF WalkCounts, WalkLeader, WalkCovers, InFiles, InThreads, Full
  <1> QED
    BY <1>1, <1>2, <1>3 DEF ProcInv

LEMMA ProcsKeep ==
  ASSUME ProcInv, InfoInv, HeldInv, UNCHANGED todo, DmaBufNext
  PROVE  ProcInv'
  <1>1. CASE BufInfo \/ ProcBlocked \/ ProcUnlock \/ ProcsEnd
    <2>1. CASE BufInfo
      BY <2>1, InfoFrame, ProcStays DEF ToCome
    <2>2. CASE ProcBlocked \/ ProcUnlock \/ ProcsEnd
      <3>1. UNCHANGED <<dma_size, dp_vars>> /\ phase' \in {phase, "between", "blocked"}
        BY <2>2 DEF ProcBlocked, ProcUnlock, ProcsEnd
      <3> QED
        BY <3>1, ProcStays DEF ToCome
    <2> QED
      BY <1>1, <2>1, <2>2
  <1>2. CASE (\E p \in ProcKinds : ProcStart(p)) \/ ProcThread \/ ProcFd \/ ProcEnd
    BY <1>2, ProcStartKeeps, ProcThreadKeeps, ProcFdKeeps, ProcEndKeeps
  <1> QED
    BY <1>1, <1>2 DEF DmaBufNext

-----------------------------------------------------------------------------
(***************************************************************************)
(* The whole: the dumps share nothing but the phase, what is to do and     *)
(* what is held.                                                           *)
(***************************************************************************)
DumpsInv == PageInv /\ SlabInv /\ InfoInv /\ HeldInv /\ ProcInv

(* Steps that leave a writer alone and do not go back before the panic. *)
LEMMA PageStays ==
  ASSUME PageInv, UNCHANGED page_vars, phase' = "running" => phase = "running"
  PROVE  PageInv'
  BY DEF PageInv, page_vars, po_settings, po_walk, TableStart, PageOwnerInside, TextIntact

LEMMA SlabStays ==
  ASSUME SlabInv, UNCHANGED slab_vars, phase' = "running" => phase = "running"
  PROVE  SlabInv'
  BY DEF SlabInv, slab_vars, so_settings, so_walk, SlabTable, SlabOverrunBounded

LEMMA InfoStays ==
  ASSUME InfoInv, UNCHANGED dma_vars, todo' \subseteq todo, phase' \notin todo'
  PROVE  InfoInv'
  BY DEF InfoInv, dma_vars, di_vars

(* A writer goes on, ends its dump, or waits for a lock. *)
LEMMA PagePhase ==
  ASSUME PageOwnerNext
  PROVE  phase' = phase \/ (phase = "pageowner" /\ phase' \in {"between", "blocked"})
  BY DEF PageOwnerNext, FilterWrite, HandleWrite, CallSiteWrite, PageSizeWrite, DumpPage, PagesEnd

LEMMA SlabPhase == SlabOwnerNext => phase' \in {phase, "between", "blocked"}
  BY DEF SlabOwnerNext, SlabFilterWrite, SlabHandleWrite, SlabSizeWrite, SlabCache, SlabLine,
         SlabLock, SlabBlocked, SlabObject, SlabLocked, SlabExhausted, SlabUnlock, SlabCacheEnd,
         SlabsEnd

LEMMA DmaPhase == DmaBufNext => phase' \in {phase, "between", "blocked"}
  BY InfoFrame, ProcFrame

LEMMA InitDumpsInv == Init => DumpsInv
  BY InitPageInv, InitSlabInv, InitInfoInv, InitHeldInv, InitProcInv DEF DumpsInv

(* A step that leaves the dma-buf dumps and what is held alone. *)
LEMMA DmaStays ==
  ASSUME InfoInv, HeldInv, ProcInv, UNCHANGED <<held, dma_vars>>, todo' \subseteq todo,
         phase' \notin todo', phase' \in todo \cup {phase, "between", "blocked", "end"},
         held["list"] = 1 => phase' = phase /\ UNCHANGED so_cache,
         phase' # phase => phase # "dma_procs" /\ phase # "dma_info"
  PROVE  InfoInv' /\ HeldInv' /\ ProcInv'
  <1>1. ToCome("dma_info")' => ToCome("dma_info")
    BY DEF ToCome
  <1>2. ToCome("dma_procs")' => ToCome("dma_procs")
    BY DEF ToCome
  <1>3. UNCHANGED <<dma_size, dp_vars>>
    BY DEF dma_vars
  <1> QED
    BY <1>1, <1>2, <1>3, InfoStays, HeldStays, ProcStays

LEMMA DumpsKeep ==
  ASSUME DumpsInv, [Next]_vars
  PROVE  DumpsInv'
  <1>1. PageInv /\ SlabInv /\ InfoInv /\ HeldInv /\ ProcInv
    BY DEF DumpsInv
  <1>2. /\ "between" \notin todo /\ "blocked" \notin todo /\ "end" \notin todo
        /\ phase \notin todo
    BY <1>1 DEF InfoInv, DumpNames
  <1>3. held["list"] = 1 => phase = "slabowner"
    BY <1>1 DEF HeldInv, ListHeld
  <1>4. CASE Panic \/ UNCHANGED vars
    <2>1. /\ UNCHANGED <<held, todo, page_vars, slab_vars, dma_vars>>
          /\ phase' = phase \/ (phase = "running" /\ phase' = "between")
      BY <1>4 DEF Panic, vars
    <2>2. so_cache' = so_cache
      BY <2>1 DEF slab_vars, so_walk
    <2>3. InfoInv' /\ HeldInv' /\ ProcInv'
      BY <1>1, <1>2, <1>3, <2>1, <2>2, DmaStays
    <2> QED
      BY <1>1, <2>1, <2>3, PageStays, SlabStays DEF DumpsInv
  <1>5. CASE NextDump
    <2>1. UNCHANGED <<held, page_vars, slab_vars, dma_vars>> /\ phase = "between"
      BY <1>5 DEF NextDump
    <2>2. \/ phase' \in todo /\ phase' \in DumpNames /\ todo' = todo \ {phase'}
          \/ phase' = "end" /\ todo' = todo
      BY <1>5, OrderNames DEF NextDump
    <2>3. phase' # "running" /\ phase' \notin todo' /\ todo' \subseteq todo
      BY <1>2, <2>2 DEF DumpNames
    <2>4. InfoInv' /\ HeldInv' /\ ProcInv'
      BY <1>1, <1>3, <2>1, <2>2, <2>3, DmaStays
    <2> QED
      BY <1>1, <2>1, <2>3, <2>4, PageStays, SlabStays DEF DumpsInv
  <1>6. CASE PageStep
    <2>1. PageOwnerNext /\ UNCHANGED <<held, todo, slab_vars, dma_vars>>
      BY <1>6 DEF PageStep
    <2>2. phase' = phase \/ (phase = "pageowner" /\ phase' \in {"between", "blocked"})
      BY <2>1, PagePhase
    <2>3. so_cache' = so_cache
      BY <2>1 DEF slab_vars, so_walk
    <2>4. InfoInv' /\ HeldInv' /\ ProcInv'
      BY <1>1, <1>2, <1>3, <2>1, <2>2, <2>3, DmaStays
    <2> QED
      BY <1>1, <2>1, <2>2, <2>4, PageOwnerKeeps, SlabStays DEF DumpsInv
  <1>7. CASE SlabStep
    <2>1. SlabOwnerNext /\ UNCHANGED <<todo, page_vars, dma_vars>>
      BY <1>7 DEF SlabStep
    <2>2. phase' \in {phase, "between", "blocked"}
      BY <2>1, SlabPhase
    <2>3. ToCome("dma_procs")' => ToCome("dma_procs")
      BY <2>1, <2>2 DEF ToCome
    <2>4. UNCHANGED <<dma_size, dp_vars>>
      BY <2>1 DEF dma_vars
    <2>5. InfoInv'
      BY <1>1, <1>2, <2>1, <2>2, InfoStays
    <2>6. HeldInv'
      BY <1>1, <2>1, SlabHolds
    <2>7. ProcInv'
      BY <1>1, <2>3, <2>4, ProcStays
    <2>8. PageInv' /\ SlabInv'
      BY <1>1, <2>1, <2>2, PageStays, SlabOwnerKeeps
    <2> QED
      BY <2>5, <2>6, <2>7, <2>8 DEF DumpsInv
  <1>8. CASE DmaStep
    <2>1. DmaBufNext /\ UNCHANGED <<todo, page_vars, slab_vars>>
      BY <1>8 DEF DmaStep
    <2>2. phase' = "running" => phase = "running"
      BY <2>1, DmaPhase
    <2>3. so_cache' = so_cache
      BY <2>1 DEF slab_vars, so_walk
    <2>4. dp_proc \in Procs
      BY <1>1 DEF ProcInv, ProcTypes
    <2>5. HeldInv'
      BY <1>1, <2>1, <2>3, <2>4, InfoHolds, ProcHolds
    <2> QED
      BY <1>1, <2>1, <2>2, <2>5, PageStays, SlabStays, InfoKeeps, ProcsKeep DEF DumpsInv
  <1> QED
    BY <1>4, <1>5, <1>6, <1>7, <1>8 DEF Next

LEMMA DumpsAlways == Spec => []DumpsInv
  <1>1. Init => DumpsInv
    BY InitDumpsInv
  <1>2. DumpsInv /\ [Next]_vars => DumpsInv'
    BY DumpsKeep
  <1> QED
    BY <1>1, <1>2, PTL DEF Spec

(* dump_page_owner_md never writes outside the region of the page owner dump,
   whatever was set before the panic: a record, a scratch print of
   check_unaccounted and a handle stored in the table all stay inside. *)
THEOREM PageOwnerStaysInside == Spec => []PageOwnerInside
  <1>1. DumpsInv => PageOwnerInside
    BY DEF DumpsInv, PageInv
  <1> QED
    BY <1>1, DumpsAlways, PTL

(* No byte of the page owner's text is lost to a terminator, to a scratch
   print or to a handle that is stored. *)
THEOREM PageTextIntact == Spec => []TextIntact
  <1>1. DumpsInv => TextIntact
    BY DEF DumpsInv, PageInv
  <1> QED
    BY <1>1, DumpsAlways, PTL

(* A record printed without its stack (found_stack, find_stack) names the
   handle of an earlier record that has it. *)
THEOREM StacksAlwaysResolve == Spec => []StacksResolve
  <1>1. DumpsInv => StacksResolve
    BY DEF DumpsInv, PageInv, SlabInv, OwnerInv, StacksResolve, PageStacksResolve,
           SlabStacksResolve
  <1> QED
    BY <1>1, DumpsAlways, PTL

(* md_dump_slabowner leaves its region by no more than its headings are long:
   each moves the start, and none is taken off the size. *)
THEOREM SlabOverrun == Spec => []SlabOverrunBounded
  <1>1. DumpsInv => SlabOverrunBounded
    BY DEF DumpsInv, SlabInv
  <1> QED
    BY <1>1, DumpsAlways, PTL

(* Whatever the walks take they give back, but for what dump_bufinfo keeps when
   its region is full: for each of its exits, and for any number of buffers,
   fences, devices, caches, processes and threads. *)
THEOREM LocksGivenBack == Spec => []LocksLeftOnlyWhenFull
  <1>1. DumpsInv => LocksLeftOnlyWhenFull
    <2> SUFFICES ASSUME DumpsInv PROVE LocksLeftOnlyWhenFull
      OBVIOUS
    <2>1. /\ held \in [Holds -> {0, 1}] /\ ListHeld /\ TaskHeld /\ InfoHeld
          /\ Holds = {"list", "resv", "rcu", "fence", "task"}
      BY DEF DumpsInv, HeldInv, Holds
    <2>2. phase # "slabowner" => held["list"] = 0
      BY <2>1 DEF ListHeld
    <2>3. phase # "dma_procs" => held["task"] = 0
      BY <2>1 DEF TaskHeld
    <2>4. Info("next") => \A l \in Holds : held[l] = 0
      <3> SUFFICES ASSUME Info("next") PROVE \A l \in Holds : held[l] = 0
        OBVIOUS
      <3>1. phase = "dma_info" /\ di_at = "next" /\ HeldAt
        BY <2>1 DEF Info, InfoHeld, ToCome
      <3>2. held["resv"] = 0 /\ held["rcu"] = 0 /\ held["fence"] = 0
        BY <3>1 DEF HeldAt, ResvAt, RcuAt
      <3> QED
        BY <2>1, <2>2, <2>3, <3>1, <3>2
    <2>5. ASSUME phase \in {"between", "end"}
          PROVE  /\ held["list"] = 0 /\ held["task"] = 0
                 /\ ~Full(di_offset) => \A l \in Holds : held[l] = 0
                 /\ \A l \in Holds : held[l] \in {0, 1}
                 /\ held["fence"] <= held["rcu"] /\ held["rcu"] <= held["resv"]
      <3>1. held["list"] = 0 /\ held["task"] = 0 /\ HeldAfter
        BY <2>1, <2>2, <2>3, <2>5 DEF InfoHeld
      <3>2. \A l \in Holds : held[l] \in {0, 1}
        BY <2>1
      <3>3. held["resv"] \in {0, 1} /\ held["rcu"] \in {0, 1} /\ held["fence"] \in {0, 1}
        BY <2>1
      <3>4. ~Full(di_offset) => held["resv"] = 0 /\ held["rcu"] = 0 /\ held["fence"] = 0
        BY <3>1, <3>3 DEF HeldAfter
      <3> QED
        BY <2>1, <3>1, <3>2, <3>4 DEF HeldAfter
    <2> QED
      BY <2>4, <2>5 DEF LocksLeftOnlyWhenFull
  <1> QED
    BY <1>1, DumpsAlways, PTL

(* md_dma_buf_procs lists what a process has open, each buffer once. *)
THEOREM ProcListsAlwaysComplete == Spec => []ProcListsComplete
  <1>1. DumpsInv => ProcListsComplete
    <2> SUFFICES ASSUME DumpsInv PROVE ProcListsComplete
      OBVIOUS
    <2>1. NoRepetition(dp_log) /\ (~dp_err => WalkCovers)
      BY DEF DumpsInv, ProcInv
    <2> QED
      BY <2>1 DEF ProcListsComplete, NoRepetition, WalkCovers, HasEntry
  <1> QED
    BY <1>1, DumpsAlways, PTL

(* md_dma_buf_procs gives up only when its region is full, or at a process
   whose leader has exited, because of the length left in ret. *)
THEOREM ProcsCutReasons == Spec => []ProcsCutOnlyFor
  <1>1. DumpsInv => ProcsCutOnlyFor
    BY DEF DumpsInv, ProcInv
  <1> QED
    BY <1>1, DumpsAlways, PTL
=============================================================================
