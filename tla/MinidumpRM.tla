----------------------------- MODULE MinidumpRM -----------------------------
(***************************************************************************)
(* msm_minidump.c in resource-manager mode ("qcom,minidump-rm"):           *)
(* a call only reserves or finds the entry and queues a work; the work     *)
(* registers the range with the hypervisor's resource manager, outside the *)
(* lock, and then brings the entry and the ELF header up to date.          *)
(*                                                                         *)
(* Between the two locked sections of a work other calls run, so the index *)
(* the work found in the first one is stale in the second unless nothing   *)
(* else moves entries.  What guarantees that is the queue: it is allocated *)
(* with max_active 1, so one work runs at a time.                          *)
(*                                                                         *)
(* The resource manager (gh_rm_minidump_...) is external: a call registers a *)
(* range under a fresh slot number or takes a slot back, or fails.         *)
(***************************************************************************)
EXTENDS ElfHeader, Sequences, SequencesExt

CONSTANTS
  Workers,          \* kernel threads that may serve the queue
  RmSlots,          \* slot numbers the resource manager has for regions; the
                    \* one of the ELF header is taken once and never given back
  MaxQueue,         \* bound: works waiting on the queue
  MaxEarly,         \* bound: regions waiting on the pending list
  RemoveSources     \* what callers pass to remove: "caller", "md_get_region"

ASSUME RmAssumption ==
  /\ Workers # {}
  /\ RmSlots \subseteq Nat \ {0}
  /\ MaxQueue \in Nat /\ MaxEarly \in Nat
  /\ RemoveSources \subseteq {"caller", "md_get_region"}

VARIABLES
  probe,            \* how far msm_minidump_driver_probe has come
  pending_list,
  num_regions,
  entry,            \* minidump_rm_table->entry: name and slot number
  elf,              \* minidump_elfheader
  wq,               \* minidump_rm_wq: the works not yet started, in order
  work,             \* what each worker is doing
  rm,               \* the resource manager: slot -> the range it dumps
  client,           \* the region each caller last registered or moved
  rmFailed          \* history: a call of the resource manager has failed

vars == <<probe, pending_list, num_regions, entry, elf, wq, work, rm, client, rmFailed>>

-----------------------------------------------------------------------------
Slots == 0..MAX_NUM_ENTRIES - 1

NoEntry == [name |-> NoName, slot_num |-> 0]

(* What the resource manager keeps of a registration. *)
RmRange(e) == [name |-> e.name, phys_addr |-> e.phys_addr, size |-> e.size]

Idle == [pc |-> "idle", cmd |-> "none", entry |-> NoRegion, entryno |-> 0, slot |-> 0]

MdInitDone == probe = "done"

(* md_rm_entry_num: the entries of a name; the code takes the first. *)
EntrySlots(n) == {i \in 0..num_regions - 1 : entry[i].name = n}

EntryNum(n) == Min(EntrySlots(n))

(* md_get_region: the addresses come from the ELF program header, the
   physical one from p_vaddr and the virtual one from p_paddr. *)
GetRegion(n) ==
  LET ph == elf.phdr[EntryNum(n) + FIXED_PROGRAMS]
  IN IF EntrySlots(n) = {} THEN NoRegion
     ELSE [name |-> n, virt_addr |-> ph.p_paddr, phys_addr |-> ph.p_vaddr,
           size |-> ph.p_memsz]

Request(cmd, e) == [cmd |-> cmd, entry |-> e]

Init ==
  /\ probe = "none"
  /\ pending_list = <<>>
  /\ num_regions = 0
  /\ entry = [i \in Slots |-> NoEntry]
  /\ elf = AddHeader
  /\ wq = <<>>
  /\ work = [w \in Workers |-> Idle]
  /\ rm = [s \in {} |-> NoRegion]
  /\ client = [n \in Names |-> NoRegion]
  /\ rmFailed = FALSE

-----------------------------------------------------------------------------
(* The probe allocates the table and the queue and writes the ELF header. *)
ProbeTable ==
  /\ probe = "none"
  /\ probe' = "table"
  /\ elf' = AddHeader
  /\ UNCHANGED <<pending_list, num_regions, entry, wq, work, rm, client, rmFailed>>

ProbeFail ==
  /\ probe = "none"
  /\ probe' = "failed"
  /\ UNCHANGED <<pending_list, num_regions, entry, elf, wq, work, rm, client, rmFailed>>

(* The locked part of the probe: the first k pending regions get their entry
   and an add work.  All of them, unless memory for a work runs out; then the
   probe returns an error in the middle. *)
DrainPending(k) ==
  /\ entry' = [i \in Slots |-> IF i < k THEN [entry[i] EXCEPT !.name = pending_list[i + 1].name]
                               ELSE entry[i]]
  /\ wq' = wq \o [i \in 1..k |-> Request("MINIDUMP_ADD", pending_list[i])]
  /\ pending_list' = SubSeq(pending_list, k + 1, Len(pending_list))
  /\ UNCHANGED <<num_regions, elf, work, rm, client, rmFailed>>

ProbeDrain ==
  /\ probe = "table"
  /\ probe' = "drained"
  /\ DrainPending(Len(pending_list))

(* Memory for a work runs out in the middle.  The driver core then releases
   the table, which devm_kzalloc gave the probe, while the works already queued
   still read and write it: the queue is not released with it, and nothing
   clears minidump_rm_table.  The model goes on with the contents the table had,
   which is what the works find as long as nobody has been given that memory;
   what they do to a new owner of it is not modelled. *)
ProbeNoMemory ==
  /\ probe = "table"
  /\ probe' = "failed"
  /\ \E k \in 0..Len(pending_list) - 1 : DrainPending(k)

(* smp_store_release(&md_init_done, true). *)
ProbeDone ==
  /\ probe = "drained"
  /\ probe' = "done"
  /\ UNCHANGED <<pending_list, num_regions, entry, elf, wq, work, rm, client, rmFailed>>

-----------------------------------------------------------------------------
(* msm_minidump_add_region once md_init_done is set: md_rm_add_region
   reserves the next entry and queues the work. *)
AddRegion(e) ==
  /\ MdInitDone
  /\ ValidateRegion(e)
  /\ num_regions < MAX_NUM_ENTRIES
  /\ Len(wq) < MaxQueue
  /\ EntrySlots(e.name) = {}
  /\ entry' = [entry EXCEPT ![num_regions] = [name |-> e.name, slot_num |-> 0]]
  /\ wq' = Append(wq, Request("MINIDUMP_ADD", e))
  /\ num_regions' = num_regions + 1
  /\ client' = [client EXCEPT ![e.name] = e]
  /\ UNCHANGED <<probe, pending_list, elf, work, rm, rmFailed>>

(* msm_minidump_add_region before that: the pending list, whether or not the
   probe has already drained it.  Names are not compared here; the model's
   callers give each name once before init is done. *)
AddPending(e) ==
  /\ ~MdInitDone
  /\ ValidateRegion(e)
  /\ num_regions < MAX_NUM_ENTRIES
  /\ Len(pending_list) < MaxEarly
  /\ client[e.name] = NoRegion
  /\ pending_list' = Append(pending_list, e)
  /\ num_regions' = num_regions + 1
  /\ client' = [client EXCEPT ![e.name] = e]
  /\ UNCHANGED <<probe, entry, elf, wq, work, rm, rmFailed>>

(* msm_minidump_update_region: md_rm_update looks the name up and queues. *)
UpdateRegion(e) ==
  /\ MdInitDone
  /\ ValidateRegion(e)
  /\ Len(wq) < MaxQueue
  /\ EntrySlots(e.name) # {}
  /\ wq' = Append(wq, Request("MINIDUMP_UPDATE", e))
  /\ client' = [client EXCEPT ![e.name] = e]
  /\ UNCHANGED <<probe, pending_list, num_regions, entry, elf, work, rm, rmFailed>>

(* msm_minidump_remove_region: md_rm_remove_region queues.  The caller passes
   its own copy of the region, or what md_get_region gave it. *)
RemoveRegion(n) ==
  /\ MdInitDone
  /\ Len(wq) < MaxQueue
  /\ EntrySlots(n) # {}
  /\ \E e \in (IF "caller" \in RemoveSources THEN {client[n]} ELSE {})
              \cup (IF "md_get_region" \in RemoveSources /\ GetRegion(n).virt_addr # 0
                    THEN {GetRegion(n)} ELSE {}) :
       wq' = Append(wq, Request("MINIDUMP_REMOVE", e))
  /\ UNCHANGED <<probe, pending_list, num_regions, entry, elf, work, rm, client, rmFailed>>

-----------------------------------------------------------------------------
(* Mutant of MayStart: the queue is not serialised. *)
MayStartUnserialised(w) == work[w].pc = "idle"

(* alloc_workqueue("minidump_wq", WQ_HIGHPRI | WQ_UNBOUND, 1): a work starts
   only when no other work of this queue runs. *)
MayStart(w) == \A v \in Workers : work[v].pc = "idle"

(* minidump_rm_work takes the oldest work; a work that finds nothing to do in
   its first locked section is over at once. *)
StartWork(w, cmd) ==
  /\ MayStart(w)
  /\ wq # <<>>
  /\ Head(wq).cmd = cmd
  /\ wq' = Tail(wq)
  /\ UNCHANGED <<probe, pending_list, num_regions, elf, rm, client, rmFailed>>

Continue(w, pc, entryno, slot) ==
  work' = [work EXCEPT ![w] = [pc |-> pc, cmd |-> Head(wq).cmd, entry |-> Head(wq).entry,
                               entryno |-> entryno, slot |-> slot]]

(* md_rm_add_work, first locked section. *)
AddWorkFind(w) ==
  LET e == Head(wq).entry IN
  /\ StartWork(w, "MINIDUMP_ADD")
  /\ IF EntrySlots(e.name) # {}
     THEN Continue(w, "register", EntryNum(e.name), 0)
     ELSE UNCHANGED work
  /\ UNCHANGED entry

(* md_rm_remove_work, first locked section: the slot number is cleared "to
   avoid double remove"; an entry without one is left alone. *)
RemoveWorkFind(w) ==
  LET e == Head(wq).entry
      k == EntryNum(e.name)
  IN
  /\ StartWork(w, "MINIDUMP_REMOVE")
  /\ IF EntrySlots(e.name) # {} /\ entry[k].slot_num # 0
     THEN /\ Continue(w, "deregister", k, entry[k].slot_num)
          /\ entry' = [entry EXCEPT ![k].slot_num = 0]
     ELSE UNCHANGED <<entry, work>>

(* md_rm_update_work, first locked section: "clear slot number to avoid
   remove during update". *)
UpdateWorkFind(w) ==
  LET e == Head(wq).entry
      k == EntryNum(e.name)
  IN
  /\ StartWork(w, "MINIDUMP_UPDATE")
  /\ IF EntrySlots(e.name) # {}
     THEN /\ Continue(w, "deregister", k, entry[k].slot_num)
          /\ entry' = [entry EXCEPT ![k].slot_num = 0]
     ELSE UNCHANGED <<entry, work>>

(* Mutant of Deregister: a failed call is tried again. *)
DeregisterRetry(w) ==
  /\ work[w].pc = "deregister"
  /\ \/ /\ work[w].slot \in DOMAIN rm
        /\ rm' = [s \in DOMAIN rm \ {work[w].slot} |-> rm[s]]
        /\ work' = [work EXCEPT ![w].pc = IF work[w].cmd = "MINIDUMP_UPDATE"
                                          THEN "register" ELSE "finish",
                                ![w].slot = 0]
        /\ UNCHANGED rmFailed
     \/ /\ rmFailed' = TRUE
        /\ UNCHANGED <<rm, work>>
  /\ UNCHANGED <<probe, pending_list, num_regions, entry, elf, wq, client>>

(* gh_rm_minidump_deregister_slot, called without the lock.  It fails for a
   slot that is not registered and may fail for one that is; the work then
   returns. *)
Deregister(w) ==
  /\ work[w].pc = "deregister"
  /\ \/ /\ work[w].slot \in DOMAIN rm
        /\ rm' = [s \in DOMAIN rm \ {work[w].slot} |-> rm[s]]
        /\ work' = [work EXCEPT ![w].pc = IF work[w].cmd = "MINIDUMP_UPDATE"
                                          THEN "register" ELSE "finish",
                                ![w].slot = 0]
        /\ UNCHANGED rmFailed
     \/ /\ work' = [work EXCEPT ![w] = Idle]
        /\ rmFailed' = TRUE
        /\ UNCHANGED rm
  /\ UNCHANGED <<probe, pending_list, num_regions, entry, elf, wq, client>>

(* gh_rm_minidump_register_range, called without the lock: a free slot, or a
   failure.  An update that fails here returns; an add goes on to drop its
   entry. *)
Register(w) ==
  /\ work[w].pc = "register"
  /\ \/ \E s \in RmSlots \ DOMAIN rm :
          /\ rm' = [t \in DOMAIN rm \cup {s} |->
                      IF t = s THEN RmRange(work[w].entry) ELSE rm[t]]
          /\ work' = [work EXCEPT ![w].pc = "finish", ![w].slot = s]
          /\ UNCHANGED rmFailed
     \/ /\ work' = IF work[w].cmd = "MINIDUMP_UPDATE"
                   THEN [work EXCEPT ![w] = Idle]
                   ELSE [work EXCEPT ![w].pc = "drop"]
        /\ rmFailed' = TRUE
        /\ UNCHANGED rm
  /\ UNCHANGED <<probe, pending_list, num_regions, entry, elf, wq, client>>

-----------------------------------------------------------------------------
(* Every second locked section ends the work. *)
FinishWork(w, pc, cmd) ==
  /\ work[w].pc = pc
  /\ work[w].cmd = cmd
  /\ work' = [work EXCEPT ![w] = Idle]
  /\ UNCHANGED <<probe, pending_list, wq, client, rmFailed>>

(* md_rm_add_work after a failed registration: the entry found in the first
   section is dropped, by its number. *)
AddWorkDrop(w) ==
  /\ FinishWork(w, "drop", "MINIDUMP_ADD")
  /\ entry' = RemoveSlot(entry, work[w].entryno, num_regions, NoEntry)
  /\ num_regions' = num_regions - 1
  /\ UNCHANGED <<elf, rm>>

(* Mutant of AddWorkFinish: the slot number is not kept. *)
AddWorkFinishNoSlot(w) ==
  /\ FinishWork(w, "finish", "MINIDUMP_ADD")
  /\ elf' = AddElfHeader(elf, work[w].entry)
  /\ UNCHANGED <<num_regions, entry, rm>>

(* md_rm_add_work, second locked section: the slot number goes into the
   entry found in the first section, if it still has that name ("minidump
   table is corrupt" otherwise, and the slot is given back); the ELF header
   is added in either case. *)
AddWorkFinish(w) ==
  LET e == work[w].entry
      k == work[w].entryno
      s == work[w].slot
  IN
  /\ FinishWork(w, "finish", "MINIDUMP_ADD")
  /\ elf' = AddElfHeader(elf, e)
  /\ IF entry[k].name = e.name
     THEN /\ entry' = [entry EXCEPT ![k].slot_num = s]
          /\ UNCHANGED rm
     ELSE /\ rm' = [t \in DOMAIN rm \ {s} |-> rm[t]]
          /\ UNCHANGED entry
  /\ UNCHANGED num_regions

(* Mutant of UpdateWorkFinish: the ELF header keeps the old addresses. *)
UpdateWorkFinishNoElf(w) ==
  /\ FinishWork(w, "finish", "MINIDUMP_UPDATE")
  /\ entry' = [entry EXCEPT ![work[w].entryno].slot_num = work[w].slot]
  /\ UNCHANGED <<num_regions, elf, rm>>

(* md_rm_update_work, second locked section. *)
UpdateWorkFinish(w) ==
  LET e == work[w].entry
      k == work[w].entryno
  IN
  /\ FinishWork(w, "finish", "MINIDUMP_UPDATE")
  /\ IF entry[k].name = e.name
     THEN /\ entry' = [entry EXCEPT ![k].slot_num = work[w].slot]
          /\ elf' = UpdateElfHeader(elf, k, e)
     ELSE UNCHANGED <<entry, elf>>
  /\ UNCHANGED <<num_regions, rm>>

(* md_rm_remove_work, second locked section: the entry goes only if its ELF
   header was found and cleared. *)
RemoveWorkFinish(w) ==
  LET e == work[w].entry
      k == work[w].entryno
  IN
  /\ FinishWork(w, "finish", "MINIDUMP_REMOVE")
  /\ IF entry[k].name = e.name /\ CanClearHeaders(elf, e)
     THEN /\ elf' = ClearHeaders(elf, e)
          /\ entry' = RemoveSlot(entry, k, num_regions, NoEntry)
          /\ num_regions' = num_regions - 1
     ELSE UNCHANGED <<elf, entry, num_regions>>
  /\ UNCHANGED rm

Worker(w) ==
  \/ AddWorkFind(w) \/ RemoveWorkFind(w) \/ UpdateWorkFind(w)
  \/ Deregister(w) \/ Register(w)
  \/ AddWorkDrop(w) \/ AddWorkFinish(w)
  \/ UpdateWorkFinish(w) \/ RemoveWorkFinish(w)

Probe == ProbeTable \/ ProbeFail \/ ProbeDrain \/ ProbeNoMemory \/ ProbeDone

Caller ==
  \/ \E e \in Regions : AddRegion(e) \/ AddPending(e) \/ UpdateRegion(e)
  \/ \E n \in Names : RemoveRegion(n)

Next == Probe \/ Caller \/ \E w \in Workers : Worker(w)

(* The kernel runs queued works, and the calls of the resource manager
   return; callers and the probe may stop at any time. *)
Spec == Init /\ [][Next]_vars /\ WF_vars(\E w \in Workers : Worker(w))

-----------------------------------------------------------------------------
(* Type invariant. *)
TypeOK ==
  /\ probe \in {"none", "failed", "table", "drained", "done"}
  /\ pending_list \in Seq(Region)
  /\ num_regions \in 0..MAX_NUM_ENTRIES
  /\ entry \in [Slots -> [name : Names \cup {NoName}, slot_num : RmSlots \cup {0}]]
  /\ ElfTypeOK(elf)
  /\ wq \in Seq([cmd : {"MINIDUMP_ADD", "MINIDUMP_UPDATE", "MINIDUMP_REMOVE"},
                 entry : Region])
  /\ work \in [Workers -> [pc : {"idle", "register", "deregister", "finish", "drop"},
                           cmd : {"none", "MINIDUMP_ADD", "MINIDUMP_UPDATE",
                                  "MINIDUMP_REMOVE"},
                           entry : Region \cup {NoRegion},
                           entryno : Slots, slot : RmSlots \cup {0}]]
  /\ DOMAIN rm \subseteq RmSlots
  /\ rmFailed \in BOOLEAN

(* The entry a work found before it called the resource manager is still
   there, under the same name and number, when the call is back: the branches
   "minidump table is corrupt" (msm_minidump.c:341, 383, 431) are never taken,
   and the add that drops its entry drops its own. *)
WorkIndexStable ==
  \A w \in Workers :
    work[w].pc # "idle" =>
      /\ work[w].entryno < num_regions
      /\ entry[work[w].entryno].name = work[w].entry.name

SlotsMatchElf ==
  probe = "done" /\ pending_list = <<>> =>
    \A i \in 0..num_regions - 1 :
      entry[i].slot_num # 0 =>
        /\ entry[i].slot_num \in DOMAIN rm
        /\ LET ph == elf.phdr[i + FIXED_PROGRAMS]
               sh == elf.shdr[i + FIXED_SECTIONS]
           IN rm[entry[i].slot_num] =
                [name |-> LookupString(elf, sh.sh_name),
                 phys_addr |-> ph.p_paddr, size |-> ph.p_memsz]

HeadersArePrefix ==
  probe \in {"drained", "done"} /\ pending_list = <<>> =>
    /\ elf.e_phnum - FIXED_PROGRAMS <= num_regions
    /\ elf.e_shnum - FIXED_SECTIONS = elf.e_phnum - FIXED_PROGRAMS
    /\ \A i \in 0..elf.e_phnum - FIXED_PROGRAMS - 1 :
         LookupString(elf, elf.shdr[i + FIXED_SECTIONS].sh_name) = entry[i].name

(* A slot number in the table is a live registration, and what the resource
   manager dumps for it is what the ELF header tells the parser to expect in
   that position: same name, same physical address, same size.  The headers
   are those of a prefix of the table, in its order: works run in the order of
   the calls, so the entries without a header yet are the youngest, and
   md_rm_update_work and md_get_region may find headers by position. *)
RmMatchesElf == SlotsMatchElf /\ HeadersArePrefix

(* While no call of the resource manager fails, no registration is lost:
   between two works every slot in use belongs to exactly one entry. *)
NoSlotLeak ==
  (\A w \in Workers : work[w].pc = "idle") /\ ~rmFailed =>
    \A s \in DOMAIN rm :
      Cardinality({i \in 0..num_regions - 1 : entry[i].slot_num = s}) = 1

(* Every work that has started ends, and a full queue gets room again. *)
WorksEnd ==
  /\ \A w \in Workers : work[w].pc # "idle" ~> work[w].pc = "idle"
  /\ Len(wq) = MaxQueue ~> Len(wq) < MaxQueue

(* An entry that a call reserved does not stay half made: it ends up with a
   slot of the resource manager or out of the table (md_rm_add_work), also
   when updates take its slot away in between, unless the resource manager
   has failed or a region was left on the pending list: that one holds a table
   position without an ELF header, and the positions after it are off. *)
AddsSettle ==
  \A n \in Names :
    EntrySlots(n) # {} ~> \/ EntrySlots(n) = {}
                          \/ entry[EntryNum(n)].slot_num # 0
                          \/ rmFailed
                          \/ MdInitDone /\ pending_list # <<>>

-----------------------------------------------------------------------------
(* What comments say and the code does not keep. *)

(* msm_minidump.c:700, a region that came too early goes to the "pending
   list, need free after initialized": when init is done the list is empty.
   A region registered after the drain and before md_init_done stays on it. *)
PendingDrained == MdInitDone => pending_list = <<>>

(* minidump.h:33, a region's phys_addr is the "Physical address of the entry
   to dump": md_get_region returns the addresses the caller registered.  In
   this mode it swaps the two. *)
GetRegionReturnsRegistered ==
  \A i \in 0..num_regions - 1 :
    entry[i].slot_num # 0 /\ wq = <<>> =>
      GetRegion(entry[i].name).phys_addr = rm[entry[i].slot_num].phys_addr
=============================================================================
