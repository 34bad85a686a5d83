------------------------------ MODULE BootLog ------------------------------
(***************************************************************************)
(* xbl_log/dump_boot_log.c: the probe of xbl-log joins the boot loader's   *)
(* log and two counters of the secure world into one buffer, which it      *)
(* grows part by part, and shows it as a debugfs file.  The driver may be  *)
(* unbound and bound again.                                                *)
(*                                                                         *)
(* Buffers have generations: devm_krealloc moves the contents to a new one *)
(* and frees the old.  A part is the range it occupies and how much of it  *)
(* was written.                                                            *)
(*                                                                         *)
(* External: of_find_node_by_name puts the node the search starts from;    *)
(* devm_memremap fails with an error pointer, devm_ioremap with NULL;      *)
(* debugfs lets a read in progress end before a file is removed; what devm *)
(* allocated is freed after a failed probe and after remove.               *)
(***************************************************************************)
EXTENDS Integers, Sequences

CONSTANTS
  UefiSizes,          \* resource_size of the uefi-log node
  Digits,             \* how many digits a counter may have
  MaxBinds            \* bound: probes

ASSUME BootLogAssumption ==
  UefiSizes \subseteq Nat /\ Digits \subseteq 1..10 /\ MaxBinds \in Nat

VARIABLES
  state,              \* "unbound", "part", "publish", "bound", "oops"
  binds,              \* probes so far
  parts,              \* the parts of the buffer: from, to, written
  buf_size,
  xbl_buf,            \* the generation, 0 for NULL
  live,               \* generations not freed
  dbg_data,           \* data and size of the blob
  dbg_file,           \* the file exists
  reader,             \* a read is in progress
  refs                \* references to device nodes held, minus those dropped

vars == <<state, binds, parts, buf_size, xbl_buf, live, dbg_data, dbg_file, reader, refs>>

-----------------------------------------------------------------------------
CHAR_WIDTH == 8
TZ_STR_LEN == 12
TZ_SIZE == (CHAR_WIDTH * 4 - 1) \div 3 + 1

(* "TZ Start [%u]\n" or "TZ End   [%u]\n", without the NUL. *)
TzText(digits) == 10 + digits + 2

NoBlob == [data |-> 0, size |-> 0]

Init ==
  /\ state = "unbound" /\ binds = 0
  /\ parts = <<>> /\ buf_size = 0 /\ xbl_buf = 0 /\ live = {}
  /\ dbg_data = NoBlob /\ dbg_file = FALSE /\ reader = FALSE
  /\ refs = 0

(* What the driver core does after a failed probe or a remove. *)
DevmRelease ==
  /\ state' = "unbound"
  /\ parts' = <<>> /\ buf_size' = 0 /\ xbl_buf' = 0 /\ live' = {}
  /\ dbg_data' = NoBlob

-----------------------------------------------------------------------------
(* The beginning of xbl_log_probe: xbl_data and /reserved-memory. *)
Probe ==
  /\ state = "unbound" /\ binds < MaxBinds
  /\ binds' = binds + 1
  /\ \/ state' = "part" /\ refs' = refs + 1
     \/ UNCHANGED <<state, refs>>           \* no memory, or no such node
  /\ UNCHANGED <<parts, buf_size, xbl_buf, live, dbg_data, dbg_file, reader>>

(* map_addr_range gives up and the probe fails.  The search has put the
   parent, which put_node does once more; a node whose address cannot be
   parsed keeps its reference. *)
PartFails ==
  /\ state = "part"
  /\ DevmRelease
  /\ \/ refs' = refs - 2                    \* no node, no size, no mapping
     \/ refs' = refs - 2 + 1                \* of_address_to_resource failed
  /\ UNCHANGED <<binds, dbg_file, reader>>

(* Mutant of PartPos: the part starts at the new end. *)
PartPosEnd(sz) == buf_size + sz

(* pos = buf_size - sz, buf_size being the new one. *)
PartPos(sz) == (buf_size + sz) - sz

(* append_buf_data: sz bytes at the end, of which text are written. *)
AppendBufData(sz, text) ==
  /\ buf_size' = buf_size + sz
  /\ \/ /\ xbl_buf' = binds * 4 + Len(parts) + 1
        /\ live' = (live \ {xbl_buf}) \cup {xbl_buf'}
        /\ parts' = Append(parts, [from |-> PartPos(sz), to |-> PartPos(sz) + sz,
                                   written |-> text])
        /\ state' = IF Len(parts) = 2 THEN "publish" ELSE "part"
     \/ /\ xbl_buf' = 0                     \* no memory: a write to NULL + pos
        /\ state' = "oops"
        /\ UNCHANGED <<parts, live>>

(* The uefi-log part, all but the last byte of the region.  The test for NULL
   lets the error pointer of a failed mapping through. *)
UefiPart(size) ==
  /\ state = "part" /\ Len(parts) = 0 /\ size > 0
  /\ \/ AppendBufData(size - 1, size - 1)
     \/ /\ size > 1
        /\ state' = "oops"
        /\ UNCHANGED <<parts, buf_size, xbl_buf, live>>
  /\ refs' = refs - 1
  /\ UNCHANGED <<binds, dbg_data, dbg_file, reader>>

TzPartSize == TZ_SIZE + TZ_STR_LEN

MinOf(a, b) == IF a <= b THEN a ELSE b

(* tz-start-count and tz-end-count; scnprintf cuts, and ends with a NUL. *)
TzPart(digits) ==
  /\ state = "part" /\ Len(parts) \in {1, 2}
  /\ AppendBufData(TzPartSize, MinOf(TzText(digits) + 1, TzPartSize))
  /\ refs' = refs - 1
  /\ UNCHANGED <<binds, dbg_data, dbg_file, reader>>

(* The end of the probe: the blob, the file, put_node. *)
Publish ==
  /\ state = "publish"
  /\ refs' = refs - 1
  /\ \/ /\ dbg_data' = [data |-> xbl_buf, size |-> buf_size]
        /\ dbg_file' = TRUE
        /\ state' = "bound"
        /\ UNCHANGED <<parts, buf_size, xbl_buf, live>>
     \/ /\ DevmRelease                      \* debugfs_create_blob failed
        /\ UNCHANGED dbg_file
  /\ UNCHANGED <<binds, reader>>

(* External: someone reads the file. *)
Read ==
  /\ dbg_file
  /\ reader' = ~reader
  /\ UNCHANGED <<state, binds, parts, buf_size, xbl_buf, live, dbg_data, dbg_file, refs>>

(* Mutant of RemoveFile: the file is left. *)
RemoveFileNever == UNCHANGED dbg_file

(* debugfs_remove_recursive waits for the readers. *)
RemoveFile == ~reader /\ dbg_file' = FALSE

(* xbl_log_remove, then the driver core. *)
Remove ==
  /\ state = "bound"
  /\ RemoveFile
  /\ DevmRelease
  /\ UNCHANGED <<binds, reader, refs>>

Next ==
  \/ Probe \/ PartFails
  \/ \E size \in UefiSizes : UefiPart(size)
  \/ \E digits \in Digits : TzPart(digits)
  \/ Publish \/ Read \/ Remove

Spec == Init /\ [][Next]_vars

-----------------------------------------------------------------------------
(* Type invariant of the driver. *)
TypeOK ==
  /\ state \in {"unbound", "part", "publish", "bound", "oops"}
  /\ binds \in 0..MaxBinds
  /\ Len(parts) <= 3 /\ buf_size \in Nat /\ xbl_buf \in Nat
  /\ \A i \in DOMAIN parts :
       /\ parts[i].from <= parts[i].to /\ parts[i].to <= buf_size
       /\ parts[i].written <= parts[i].to - parts[i].from
  /\ live \subseteq Nat /\ dbg_data \in [data : Nat, size : Nat]
  /\ dbg_file \in BOOLEAN /\ reader \in BOOLEAN /\ refs \in Int

(* As long as the file can be read, what it shows is the last of the buffers,
   all of it and nothing after it, and that one is not freed. *)
FileBacked ==
  dbg_file \/ reader => /\ dbg_data.data = xbl_buf /\ xbl_buf \in live
                        /\ dbg_data.size = buf_size

(* The parts lie one behind the other and fill the buffer: growing it never
   leaves a gap or writes over an earlier part, or past the end, and every
   counter is there with its bracket, newline and NUL. *)
PartsTile ==
  state # "oops" =>
    \A i \in DOMAIN parts :
      /\ parts[i].from = (IF i = 1 THEN 0 ELSE parts[i - 1].to)
      /\ i = Len(parts) => parts[i].to = buf_size
      /\ i # 1 => \E d \in Digits : parts[i].written = TzText(d) + 1

-----------------------------------------------------------------------------
(* Refuted: the probe leaves the device nodes as it found them. *)
NodesBalanced == state \in {"unbound", "bound"} => refs = 0

(* Refuted: the file shows only bytes that were written.  devm_krealloc does
   not clear, and a counter with fewer digits leaves the rest of its part. *)
NoStaleBytes ==
  dbg_file => \A i \in DOMAIN parts : parts[i].written = parts[i].to - parts[i].from

(* Refuted: "mem remap failed" (dump_boot_log.c:97), a part that cannot be
   mapped or allocated fails the probe. *)
FailuresHandled == state # "oops"
=============================================================================
