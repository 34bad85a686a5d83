----------------------------- MODULE DumpResize -----------------------------
(***************************************************************************)
(* minidump_memory.c, the buffer of one memory dump (page owner, slab      *)
(* owner, dma-buf): it is taken from the contiguous memory area, registered *)
(* as a minidump region and published for the panic handler, and user      *)
(* space may give it another size, in megabytes, at any time.              *)
(*                                                                         *)
(* Four dumps share this code.  The file of the page owner is written      *)
(* under a mutex, those of the others are not: constant Locked.  A panic   *)
(* may come between any two steps and finds dump_addr and dump_size as     *)
(* they are then (md_dump_process).                                        *)
(*                                                                         *)
(* The region table is reduced to the one region of this name.  In SMEM    *)
(* mode an add fails if there is one, or if the table is full, and a       *)
(* remove with stale addresses takes the entry out and fails.  In          *)
(* resource-manager mode both are queued: MinidumpRM has the works, here   *)
(* is what they do to the one region.                                      *)
(***************************************************************************)
EXTENDS Integers, FiniteSets, FiniteSetsExt

CONSTANTS
  Buffers,          \* where the contiguous memory area may place a buffer
  NULL,
  CmaSize,          \* megabytes of the area
  W,                \* an int holds 2^W megabytes, the upper half negative (12)
  BootSize,         \* initial dump size
  Sizes,            \* what user space writes
  Writers,          \* processes that write the debugfs file
  Locked,           \* does a write of the file hold a mutex?
  Modes             \* is_rm_minidump, chosen at boot

ASSUME ResizeAssumption ==
  /\ NULL \notin Buffers
  /\ CmaSize \in Nat /\ W \in Nat \ {0}
  /\ BootSize \in Nat \ {0}
  /\ Sizes \subseteq Nat
  /\ Locked \in BOOLEAN
  /\ Modes \subseteq {"smem", "rm"}

VARIABLES
  cma,              \* buffers in use -> their size
  mode,
  region,           \* the minidump region of this name
  rm,               \* how far the works have got with it, in mode "rm"
  dump_addr, dump_size,
  work,             \* what each process is doing
  bootFailed,       \* history: the registration at boot has failed
  broken            \* history: a remove has failed with "Minidump is broken"

vars == <<cma, mode, region, rm, dump_addr, dump_size, work, bootFailed, broken>>

-----------------------------------------------------------------------------
(* The init of the log module, which registers the first buffer. *)
Boot == 0

Procs == {Boot} \cup Writers

Region == [buf : Buffers, size : Nat]

NoRegion == [buf |-> NULL, size |-> 0]

(* stage: why a buffer is being registered; size: how large; mdr: the region
   md_get_region found, or the buffer that was allocated. *)
Idle == [pc |-> "idle", stage |-> "none", size |-> 0, mdr |-> NoRegion]

Go(p, pc) == work' = [work EXCEPT ![p].pc = pc]

Return(p) == work' = [work EXCEPT ![p] = Idle]

AllIdle == \A p \in Procs : work[p] = Idle

(* md_register_memory_dump takes an int: the bytes modulo 2^32, as signed. *)
ToInt(size) == size % 2^W

CmaAlloc(b, n) ==
  /\ b \notin DOMAIN cma
  /\ n \in 1..2^(W - 1) - 1
  /\ FoldSet(LAMBDA c, acc : acc + cma[c], n, DOMAIN cma) <= CmaSize
  /\ cma' = [c \in DOMAIN cma \cup {b} |-> IF c = b THEN n ELSE cma[c]]

CmaRelease(b) == cma' = [c \in DOMAIN cma \ {b} |-> cma[c]]

(* md_register_panic_data: the size is set from the start, the buffer is
   about to be registered, and the debugfs file appears afterwards. *)
Init ==
  /\ cma = [b \in {} |-> 0]
  /\ mode \in Modes
  /\ region = NoRegion
  /\ rm = "none"
  /\ dump_addr = NULL
  /\ dump_size = BootSize
  /\ work = [p \in Procs |-> IF p = Boot
                             THEN [Idle EXCEPT !.pc = "alloc", !.stage = "boot",
                                               !.size = BootSize]
                             ELSE Idle]
  /\ bootFailed = FALSE
  /\ broken = FALSE

-----------------------------------------------------------------------------
(* A write of the debugfs file, up to the branch of update_dump_size. *)
Write(p, size) ==
  /\ work[Boot] = Idle
  /\ work[p] = Idle
  /\ Locked => AllIdle
  /\ work' = [work EXCEPT ![p] =
                IF dump_size = 0
                THEN [Idle EXCEPT !.pc = "alloc", !.stage = "first", !.size = size]
                ELSE [Idle EXCEPT !.pc = "get", !.size = size]]
  /\ UNCHANGED <<cma, mode, region, rm, dump_addr, dump_size, bootFailed, broken>>

(* md_unregister_memory_dump: md_get_region.  Until the add work has written
   the ELF header, resource-manager mode finds an address of 0. *)
GetRegion(p) ==
  /\ work[p].pc = "get"
  /\ IF region = NoRegion \/ rm = "queued" THEN Return(p)
     ELSE work' = [work EXCEPT ![p].pc = "remove", ![p].mdr = region]
  /\ UNCHANGED <<cma, mode, region, rm, dump_addr, dump_size, bootFailed, broken>>

(* md_unregister_memory_dump: msm_minidump_remove_region, which finds the
   entry by its name and the ELF header by the addresses. *)
RemoveRegion(p) ==
  /\ work[p].pc = "remove"
  /\ mode = "smem"
  /\ region' = NoRegion
  /\ \/ /\ region = work[p].mdr
        /\ Go(p, "release")
        /\ UNCHANGED broken
     \/ /\ Return(p)
        /\ broken' = (broken \/ region # NoRegion)
  /\ UNCHANGED <<cma, mode, rm, dump_addr, dump_size, bootFailed>>

(* The same in resource-manager mode: the remove is queued, if there is
   memory for the request. *)
RemoveQueued(p) ==
  /\ work[p].pc = "remove"
  /\ mode = "rm"
  /\ \/ /\ Go(p, "release")
        /\ rm' = IF rm = "registered" THEN "removing" ELSE rm
     \/ /\ Return(p)
        /\ UNCHANGED rm
  /\ UNCHANGED <<cma, mode, region, dump_addr, dump_size, bootFailed, broken>>

(* md_unregister_memory_dump: cma_release.  In resource-manager mode the page
   is computed from the physical address, which md_get_region returns as the
   virtual one; no such page is in the area, and cma_release gives up. *)
Release(p) ==
  /\ work[p].pc = "release"
  /\ IF mode = "smem" THEN CmaRelease(work[p].mdr.buf) ELSE UNCHANGED cma
  /\ Go(p, "clear")
  /\ UNCHANGED <<mode, region, rm, dump_addr, dump_size, bootFailed, broken>>

(* Mutant of Clear: a dump that is switched off keeps its address. *)
ClearKeepAddr(p) ==
  /\ work[p].pc = "clear"
  /\ IF work[p].size = 0
     THEN dump_size' = 0 /\ Return(p) /\ UNCHANGED dump_addr
     ELSE /\ work' = [work EXCEPT ![p].pc = "alloc", ![p].stage = "resize"]
          /\ dump_addr' = NULL /\ UNCHANGED dump_size
  /\ UNCHANGED <<cma, mode, region, rm, bootFailed, broken>>

(* update_dump_size once the old buffer is gone. *)
Clear(p) ==
  /\ work[p].pc = "clear"
  /\ dump_addr' = NULL
  /\ IF work[p].size = 0
     THEN dump_size' = 0 /\ Return(p)
     ELSE /\ work' = [work EXCEPT ![p].pc = "alloc", ![p].stage = "resize"]
          /\ UNCHANGED dump_size
  /\ UNCHANGED <<cma, mode, region, rm, bootFailed, broken>>

-----------------------------------------------------------------------------
(* Mutant of RegisterFailed: a dump that could not fall back keeps its size. *)
RegisterFailedKeepSize(p) ==
  CASE work[p].stage = "resize" ->
         /\ work' = [work EXCEPT ![p] = [Idle EXCEPT !.pc = "alloc", !.stage = "fallback",
                                                     !.size = dump_size]]
         /\ UNCHANGED <<dump_size, bootFailed>>
    [] OTHER ->
         /\ bootFailed' = (bootFailed \/ work[p].stage = "boot")
         /\ Return(p)
         /\ UNCHANGED dump_size

(* Mutant of RegisterFailed: the old size is tried again and again. *)
RegisterFailedRetry(p) ==
  CASE work[p].stage \in {"resize", "fallback"} ->
         /\ work' = [work EXCEPT ![p] = [Idle EXCEPT !.pc = "alloc", !.stage = "fallback",
                                                     !.size = dump_size]]
         /\ UNCHANGED <<dump_size, bootFailed>>
    [] work[p].stage \in {"boot", "first"} ->
         /\ bootFailed' = (bootFailed \/ work[p].stage = "boot")
         /\ Return(p)
         /\ UNCHANGED dump_size

(* md_register_memory_dump has returned false: a resize falls back to the old
   size, and switches the dump off when that fails too. *)
RegisterFailed(p) ==
  CASE work[p].stage = "resize" ->
         /\ work' = [work EXCEPT ![p] = [Idle EXCEPT !.pc = "alloc", !.stage = "fallback",
                                                     !.size = dump_size]]
         /\ UNCHANGED <<dump_size, bootFailed>>
    [] work[p].stage = "fallback" ->
         /\ dump_size' = 0
         /\ Return(p)
         /\ UNCHANGED bootFailed
    [] work[p].stage \in {"boot", "first"} ->
         /\ bootFailed' = (bootFailed \/ work[p].stage = "boot")
         /\ Return(p)
         /\ UNCHANGED dump_size

(* md_register_memory_dump: cma_alloc, which may fail even with room. *)
Alloc(p) ==
  LET n == ToInt(work[p].size) IN
  /\ work[p].pc = "alloc"
  /\ \/ \E b \in Buffers :
          /\ CmaAlloc(b, n)
          /\ work' = [work EXCEPT ![p].pc = "add", ![p].mdr = [buf |-> b, size |-> n]]
          /\ UNCHANGED <<dump_size, bootFailed>>
     \/ /\ RegisterFailed(p)
        /\ UNCHANGED cma
  /\ UNCHANGED <<mode, region, rm, dump_addr, broken>>

(* Mutant of Add: the buffer of a failed registration is kept. *)
AddKeepBuffer(p) ==
  /\ work[p].pc = "add"
  /\ \/ /\ region = NoRegion
        /\ region' = work[p].mdr
        /\ rm' = IF mode = "rm" THEN "queued" ELSE rm
        /\ Go(p, "publish")
        /\ UNCHANGED <<cma, dump_size, bootFailed>>
     \/ /\ RegisterFailed(p)
        /\ UNCHANGED <<cma, region, rm>>
  /\ UNCHANGED <<mode, dump_addr, broken>>

(* md_register_memory_dump: msm_minidump_add_region.  In resource-manager mode
   the entry is reserved and the rest is queued. *)
Add(p) ==
  /\ work[p].pc = "add"
  /\ \/ /\ region = NoRegion
        /\ region' = work[p].mdr
        /\ rm' = IF mode = "rm" THEN "queued" ELSE rm
        /\ Go(p, "publish")
        /\ UNCHANGED <<cma, dump_size, bootFailed>>
     \/ /\ CmaRelease(work[p].mdr.buf)
        /\ RegisterFailed(p)
        /\ UNCHANGED <<region, rm>>
  /\ UNCHANGED <<mode, dump_addr, broken>>

(* The end of md_register_memory_dump. *)
Publish(p) ==
  /\ work[p].pc = "publish"
  /\ dump_addr' = work[p].mdr.buf
  /\ IF work[p].stage \in {"first", "resize"} THEN Go(p, "setsize") ELSE Return(p)
  /\ UNCHANGED <<cma, mode, region, rm, dump_size, bootFailed, broken>>

(* update_dump_size after a successful registration. *)
SetSize(p) ==
  /\ work[p].pc = "setsize"
  /\ dump_size' = work[p].size
  /\ Return(p)
  /\ UNCHANGED <<cma, mode, region, rm, dump_addr, bootFailed, broken>>

(* md_rm_add_work: registered, with an ELF header, or the entry is dropped. *)
AddWork ==
  /\ rm = "queued"
  /\ \/ /\ rm' = "registered"
        /\ UNCHANGED region
     \/ /\ rm' = "none"
        /\ region' = NoRegion
  /\ UNCHANGED <<cma, mode, dump_addr, dump_size, work, bootFailed, broken>>

(* md_rm_remove_work: the slot is given up; msm_minidump_clear_headers does
   not find the exchanged addresses, so the entry stays. *)
RemoveWork ==
  /\ rm = "removing"
  /\ rm' = "left"
  /\ UNCHANGED <<cma, mode, region, dump_addr, dump_size, work, bootFailed, broken>>

Step(p) ==
  \/ GetRegion(p) \/ RemoveRegion(p) \/ RemoveQueued(p) \/ Release(p) \/ Clear(p)
  \/ Alloc(p) \/ Add(p) \/ Publish(p) \/ SetSize(p)

Next ==
  \/ \E p \in Writers, size \in Sizes : Write(p, size)
  \/ \E p \in Procs : Step(p)
  \/ AddWork \/ RemoveWork

(* A process that is in the kernel goes on; nobody has to write. *)
Spec == Init /\ [][Next]_vars /\ \A p \in Procs : WF_vars(Step(p))

-----------------------------------------------------------------------------
(* Type invariant; a dump size is one that was asked for. *)
TypeOK ==
  /\ DOMAIN cma \subseteq Buffers
  /\ mode \in Modes
  /\ region \in Region \cup {NoRegion}
  /\ rm \in {"none", "queued", "registered", "removing", "left"}
  /\ dump_addr \in Buffers \cup {NULL}
  /\ dump_size \in Sizes \cup {0, BootSize}
  /\ \A p \in Procs :
       /\ work[p].pc \in {"idle", "get", "remove", "release", "clear", "alloc", "add",
                          "publish", "setsize"}
       /\ work[p].stage \in {"none", "boot", "first", "resize", "fallback"}
       /\ work[p].mdr \in Region \cup {NoRegion}
  /\ bootFailed \in BOOLEAN /\ broken \in BOOLEAN

(* Refuted.  minidump_memory.c:267, "Complete registration before adding
   enteries": a panic never writes outside a buffer that is allocated.  Whether
   that buffer is also the region the minidump has is ConsistentAtRest. *)
DumpStaysInside ==
  dump_addr # NULL => dump_addr \in DOMAIN cma /\ dump_size <= cma[dump_addr]

(* The code keeps that except in two windows of a resize: the old address is
   still published between cma_release and the store of NULL, and the new
   buffer is published with the old size until the new one is stored.  A
   failure anywhere, a fallback and a failed remove open no other. *)
UnsafeOnlyInWindows ==
  DumpStaysInside \/ \E p \in Procs : work[p].pc \in {"clear", "setsize"}

(* Between writes the published address, the registered region, the buffer
   and the size are those of one buffer, or there is none of them
   (update_dump_size, whatever failed and fell back on the way).  A size
   without a buffer, which no later write can change, is left only by a
   failure at boot; a failed remove loses the region, and so does an add work
   that fails; a remove work leaves the entry of the old buffer. *)
ConsistentAtRest ==
  AllIdle /\ ~broken =>
    IF dump_addr = NULL
    THEN /\ region = NoRegion \/ rm \in {"removing", "left"}
         /\ dump_size = 0 \/ bootFailed
    ELSE /\ \/ region = [buf |-> dump_addr, size |-> dump_size]
            \/ mode = "rm" /\ rm = "none" /\ region = NoRegion
         /\ dump_addr \in DOMAIN cma
         /\ cma[dump_addr] = dump_size

(* Between writes no memory of the area is held but the published buffer,
   also after a failed remove; in resource-manager mode a resize costs the
   buffer of the entry that is left, and no second one. *)
NoBufferLeak == AllIdle => DOMAIN cma = {dump_addr, region.buf} \ {NULL}

(* Refuted in resource-manager mode: a dump that is off has given its name
   back, so that it can be switched on again. *)
OffMeansFree == AllIdle /\ ~broken /\ dump_addr = NULL => region = NoRegion

(* Every write of the file returns: the fallback is tried once. *)
WritesReturn == \A p \in Procs : work[p].pc # "idle" ~> work[p].pc = "idle"
=============================================================================
