------------------------------ MODULE DumpText ------------------------------
(***************************************************************************)
(* What the writers of the memory dumps have in common: bounded printing   *)
(* into a region (scnprintf), and for the two owner dumps a table of stack *)
(* handles at the end of the same region, so that a stack is printed once  *)
(* and later records only name it.                                         *)
(*                                                                         *)
(* A region is a function from positions to bytes.  Its domain is wider    *)
(* than the region, so that a write before or after it can be seen.  The   *)
(* content of a text does not matter: it is Text, ended by Nul.  A handle  *)
(* has HandleWidth bytes, the low one first.                               *)
(***************************************************************************)
EXTENDS Integers, Sequences

CONSTANTS
  Cells,    \* positions around and inside a region
  InitSize, \* SZ_2M, the size of an owner dump's region at boot
  Handles,  \* stack handles: pairs of bytes
  Stack,    \* handle -> the call sites of its stack
  HdrLen,   \* length of the first line of a record
  EntLen,   \* length of the line of one call site
  RecordMax \* no text written at once is longer, its terminator included

VARIABLES
  phase,    \* what the system is doing: running, or which dump is written
  stopped,  \* locks that CPUs hold which the panic has stopped
  held      \* how often the dump itself holds what it takes

Text == 9
Nul == 0
Foreign == 8
HandleWidth == 2

ASSUME HandlesAssumption ==
  /\ \A h \in Handles : h \in Seq(0..7) /\ Len(h) = HandleWidth
  /\ HdrLen \in Nat \ {0} /\ EntLen \in Nat \ {0}
  /\ Cells \subseteq Int

(* Locks of which the dump takes one or more: accounted_call_site_lock, list_lock
   of a node, the mutex of the list of dma-bufs, the reservation lock of a buffer,
   task_lock of a thread, file_lock of its files (taken by iterate_fd). *)
Locks == {"call_site", "list", "dmabufs", "resv", "task", "files"}

(* What it holds from one step to another: the RCU read side of dump_bufinfo and
   a reference of a fence too. *)
Holds == {"list", "resv", "rcu", "fence", "task"}

Take(l) == held' = [held EXCEPT ![l] = @ + 1]
Give(l) == held' = [held EXCEPT ![l] = @ - 1]

(* Sizes a region can be given: cma_alloc has none of less than a page. *)
RegionSizes == {s \in Nat \ {0} : 0..s - 1 \subseteq Cells}

(* A handle table holds a number of whole handles. *)
TableSizes == {s \in Nat \ {0} : s % HandleWidth = 0}

(* A region of size bytes, zeroed when it was registered. *)
Fresh(size) == [c \in Cells |-> IF c \in 0..size - 1 THEN Nul ELSE Foreign]

(* The result of scnprintf: what fits in front of the terminator. *)
Printed(len, count) == IF len < count THEN len ELSE count - 1

(* scnprintf of n characters at a position. *)
PutText(m, at, n) ==
  [c \in Cells |-> IF c \in at..at + n - 1 THEN Text
                   ELSE IF c = at + n THEN Nul ELSE m[c]]

Outside(m, size) == \E c \in Cells \ 0..size - 1 : m[c] # Foreign

-----------------------------------------------------------------------------
(* Mutant of Known: handles are compared without their low byte. *)
KnownHighByte(m, t, nr, h) ==
  \E i \in 0..nr - 1 : m[t + HandleWidth * i + 1] = h[2]

(* found_stack, find_stack: is h one of the nr handles of the table at t? *)
Known(m, t, nr, h) ==
  \E i \in 0..nr - 1 :
    \A b \in 1..HandleWidth : m[t + HandleWidth * i + b - 1] = h[b]

(* There is room for one more handle before the end of the region. *)
HandleRoom(t, nr, size) == t + HandleWidth * nr < size

StoreHandle(m, t, nr, h) ==
  [c \in Cells |-> IF c \in t + HandleWidth * nr .. t + HandleWidth * (nr + 1) - 1
                   THEN h[c - t - HandleWidth * nr + 1] ELSE m[c]]

(* A record with its stack, and one that only names the handle. *)
FullLen(h) == HdrLen + EntLen * Len(Stack[h])

ASSUME RecordAssumption ==
  /\ RecordMax \in Nat \ {0, 1}
  /\ \A h \in Handles : Len(Stack[h]) \in Nat /\ FullLen(h) < RecordMax

(* Mutant of Dedupes: the table is consulted wherever the text has got to. *)
DedupesAlways(pos, t) == TRUE

(* Mutant of Dedupes: the table is taken to be one handle further on. *)
DedupesPast(pos, t) == pos <= t + HandleWidth

(* The table is consulted until the text has passed its start. *)
Dedupes(pos, t) == pos <= t

(* One record at pos, count bytes being left: dump_page_owner_md after its
   filter, dump_tracking.  The several prints of a record stop where the
   region is full, which is one print of the whole. *)
Record(m, nr, h, pos, count, t, size) ==
  LET known == Dedupes(pos, t) /\ Known(m, t, nr, h)
      store == Dedupes(pos, t) /\ ~known /\ HandleRoom(t, nr, size)
      n     == Printed(IF known THEN HdrLen ELSE FullLen(h), count)
  IN [mem |-> PutText(IF store THEN StoreHandle(m, t, nr, h) ELSE m, pos, n),
      nr  |-> IF store THEN nr + 1 ELSE nr,
      len |-> n,
      log |-> [start |-> pos, handle |-> h, full |-> ~known]]

(* A record without its stack names the handle of an earlier record with it.
   The table can be trusted only while the text is away from it: the text
   or the terminator of a record can run into it, and its first handle is
   looked up once more if the text ends exactly there. *)
Resolves(log, t) ==
  \A i \in DOMAIN log :
    ~log[i].full /\ log[i].start + RecordMax <= t
      => \E j \in 1..i - 1 : log[j].full /\ log[j].handle = log[i].handle
=============================================================================
