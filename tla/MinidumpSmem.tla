---------------------------- MODULE MinidumpSmem ----------------------------
(***************************************************************************)
(* msm_minidump.c in SMEM mode (compatible "qcom,minidump"): the region    *)
(* table, the subsystem table of contents the boot loader reads from       *)
(* shared memory, and the ELF header, kept in step by add, update and      *)
(* remove while the probe brings the driver up.                            *)
(*                                                                         *)
(* Atomicity.  msm_minidump_add_region and the drain of the probe hold     *)
(* mdt_lock; msm_minidump_remove_region holds mdt_lock and the write side  *)
(* of mdt_remove_lock; msm_minidump_update_region holds its read side, so  *)
(* it excludes removes.  It may overlap an add, which writes only the slot *)
(* after the used ones.  The boot loader, which reads the table of         *)
(* contents after a crash, takes no lock; but an add makes its region      *)
(* visible with one store (the count), an update with one (the address),   *)
(* and a remove switches the table off meanwhile.  Each of these three is  *)
(* one action.  The drain is not: it enables the table first and then adds *)
(* one region after the other, so it is a step for each of them, with      *)
(* mdt_lock held in between.  Nor is the rest of the probe: it allocates   *)
(* the tables, drains, gives the lock back, publishes md_init_done, and    *)
(* calls fall between.                                                     *)
(*                                                                         *)
(* The arrays have one slot more than the code's: slot MAX_NUM_ENTRIES is  *)
(* the memory just past the array.                                         *)
(***************************************************************************)
EXTENDS ElfHeader, Sequences, SequencesExt

CONSTANTS
  RegionBound,      \* bound: slots in use at any time (no bound from MAX_NUM_ENTRIES on)
  MaxEarly,         \* bound: regions registered before the probe drains them
  EarlyDuplicates   \* may a name be registered twice before the probe?

ASSUME EarlyAssumption ==
  RegionBound \in Nat /\ MaxEarly \in Nat /\ EarlyDuplicates \in BOOLEAN

VARIABLES
  probe,            \* how far msm_minidump_driver_probe has come
  pending_list,     \* regions registered before the table was enabled
  num_regions,      \* regions registered, pending ones included
  entry,            \* minidump_table->entry
  first_removed_entry,
  ss_region_count,  \* md_ss_toc->ss_region_count, 0 before the probe
  md_regions,       \* minidump_table->md_regions
  md_ss_toc_init,   \* md_ss_toc->md_ss_toc_init
  elf,              \* minidump_elfheader
  regno,            \* what each caller remembers: the number its add returned
  faults            \* history: the calls that went wrong, and why they could

vars == <<probe, pending_list, num_regions, entry, first_removed_entry,
          ss_region_count, md_regions, md_ss_toc_init, elf, regno, faults>>

-----------------------------------------------------------------------------
(* first_removed_entry starts at INT_MAX: above every region number. *)
INT_MAX == MAX_NUM_ENTRIES + 1

NotRegistered == -1

Slots == 0..MAX_NUM_ENTRIES

(* struct md_ss_region, an entry of the table of contents. *)
SsRegion == [name : Names \cup {NoName, KelfHdr}, seq_num : Nat,
             md_valid : BOOLEAN, region_base_address : Nat, region_size : Nat]

NoSsRegion == [name |-> NoName, seq_num |-> 0, md_valid |-> FALSE,
               region_base_address |-> 0, region_size |-> 0]

(* The ELF header's own region, number 0 of the table of contents. *)
KelfRegion == [name |-> KelfHdr, seq_num |-> 0, md_valid |-> TRUE,
               region_base_address |-> 0, region_size |-> ElfhSize]

(* The probe holds mdt_lock; the boot loader already finds a valid table. *)
Draining == probe = "drain"

(* What an add finds once it has mdt_lock: md_ss_enable_status is
   MD_SS_ENABLED, and the drain is over. *)
Enabled == probe \in {"enabled", "done"}

(* Or: no table, or one that is not enabled.  When the probe failed after
   minidump_table was set ("freed"), devm has freed what it points to; as long
   as nobody else uses that memory it still reads as not enabled. *)
NotEnabledYet == probe \in {"none", "table", "failed", "freed"}

(* md_init_done, published with smp_store_release. *)
MdInitDone == probe = "done"

(* md_entry_num: the slots of a name; the code takes the first. *)
EntrySlots(n) == {i \in 0..num_regions - 1 : entry[i].name = n}

(* md_region_num: the regions of a name; the code takes the last. *)
RegionSlots(n) == {i \in 0..ss_region_count - 1 : md_regions[i].name = n}

(* md_get_region: the first entry of that name, zeroes when there is none. *)
GetRegion(n) ==
  IF EntrySlots(n) = {} THEN NoRegion ELSE entry[Min(EntrySlots(n))]

(* The region md_add_ss_toc appends: a name already in the table gets the
   highest sequence number of that name, plus one. *)
MkSsRegion(e) ==
  [name |-> e.name,
   seq_num |-> IF RegionSlots(e.name) = {} THEN 0
               ELSE Max({md_regions[i].seq_num : i \in RegionSlots(e.name)}) + 1,
   md_valid |-> TRUE,
   region_base_address |-> e.phys_addr,
   region_size |-> e.size]

(* Another live region covers the same physical range. *)
Aliased(e) ==
  \E i \in 0..num_regions - 1 : /\ entry[i].name \notin {NoName, e.name}
                                /\ entry[i].phys_addr = e.phys_addr
                                /\ entry[i].size = e.size

AliasFault(e) == IF Aliased(e) THEN {"alias"} ELSE {}

Init ==
  /\ probe = "none"
  /\ pending_list = <<>>
  /\ num_regions = 0
  /\ entry = [i \in Slots |-> NoRegion]
  /\ first_removed_entry = INT_MAX
  /\ ss_region_count = 0
  /\ md_regions = [i \in Slots |-> NoSsRegion]
  /\ md_ss_toc_init = 0
  /\ elf = AddHeader
  /\ regno = [n \in Names |-> NotRegistered]
  /\ faults = {}

-----------------------------------------------------------------------------
(* The first part of the probe: find the global table in SMEM, allocate the
   local one, count the ELF header as region 0 (msm_minidump_add_header). *)
ProbeTable ==
  /\ probe = "none"
  /\ probe' = "table"
  /\ ss_region_count' = 1
  /\ md_regions' = [md_regions EXCEPT ![0] = KelfRegion]
  /\ elf' = AddHeader
  /\ UNCHANGED <<pending_list, num_regions, entry, first_removed_entry,
                 md_ss_toc_init, regno, faults>>

(* The probe gives up (no SMEM, no global table, no memory); there is no
   second attempt and regions stay on the pending list.  Without memory for
   md_regions it leaves minidump_table behind, which devm frees. *)
ProbeFail ==
  /\ probe = "none"
  /\ probe' \in {"failed", "freed"}
  /\ UNCHANGED <<pending_list, num_regions, entry, first_removed_entry,
                 ss_region_count, md_regions, md_ss_toc_init, elf, regno, faults>>

(* The locked part of the probe begins: the table is valid from here on,
   with region 0 only. *)
ProbeEnable ==
  /\ probe = "table"
  /\ probe' = "drain"
  /\ md_ss_toc_init' = 1
  /\ UNCHANGED <<pending_list, num_regions, entry, first_removed_entry,
                 ss_region_count, md_regions, elf, regno, faults>>

(* region_number: regions the drain has moved so far, which region 0 precedes. *)
RegionNumber == ss_region_count - 1

(* One pending region is moved.  It goes to entry[region_number], and
   md_add_ss_toc writes it once more to entry[num_regions], the slot after all
   of them.  No ELF header is added for it. *)
DrainRegion ==
  /\ Draining
  /\ pending_list # <<>>
  /\ LET e == Head(pending_list) IN
     /\ entry' = [entry EXCEPT ![RegionNumber] = e, ![num_regions] = e]
     /\ md_regions' = [md_regions EXCEPT ![ss_region_count] = MkSsRegion(e)]
  /\ ss_region_count' = ss_region_count + 1
  /\ pending_list' = Tail(pending_list)
  /\ faults' = faults \cup {"early"}
  /\ UNCHANGED <<probe, num_regions, first_removed_entry, md_ss_toc_init, elf, regno>>

(* Mutant of ProbeUnlock: mdt_lock is given back with regions still pending. *)
ProbeUnlockEarly ==
  /\ Draining
  /\ probe' = "enabled"
  /\ UNCHANGED <<pending_list, num_regions, entry, first_removed_entry,
                 ss_region_count, md_regions, md_ss_toc_init, elf, regno, faults>>

(* The list is empty and mdt_lock free again. *)
ProbeUnlock ==
  /\ Draining
  /\ pending_list = <<>>
  /\ probe' = "enabled"
  /\ UNCHANGED <<pending_list, num_regions, entry, first_removed_entry,
                 ss_region_count, md_regions, md_ss_toc_init, elf, regno, faults>>

(* smp_store_release(&md_init_done, true). *)
ProbeDone ==
  /\ probe = "enabled"
  /\ probe' = "done"
  /\ UNCHANGED <<pending_list, num_regions, entry, first_removed_entry,
                 ss_region_count, md_regions, md_ss_toc_init, elf, regno, faults>>

-----------------------------------------------------------------------------
(* Mutant of CanAdd: the table of contents is not checked for room. *)
CanAddNoTocRoom(e) ==
  /\ num_regions < MAX_NUM_ENTRIES
  /\ EntrySlots(e.name) = {}

(* Mutant of CanAdd: a name already in the table is accepted. *)
CanAddDuplicate(e) ==
  /\ num_regions < MAX_NUM_ENTRIES
  /\ ss_region_count < MAX_NUM_ENTRIES

(* The guard of msm_minidump_add_region once the table is enabled. *)
CanAdd(e) ==
  /\ num_regions < MAX_NUM_ENTRIES
  /\ ss_region_count < MAX_NUM_ENTRIES
  /\ EntrySlots(e.name) = {}

(* msm_minidump_add_region on an enabled table: md_add_ss_toc and
   md_add_elf_header. *)
AddRegion(e) ==
  /\ Enabled
  /\ ValidateRegion(e)
  /\ CanAdd(e)
  /\ num_regions < RegionBound
  /\ entry' = [entry EXCEPT ![num_regions] = e]
  /\ md_regions' = [md_regions EXCEPT ![ss_region_count] = MkSsRegion(e)]
  /\ ss_region_count' = ss_region_count + 1
  /\ elf' = AddElfHeader(elf, e)
  /\ regno' = [regno EXCEPT ![e.name] = num_regions]
  /\ num_regions' = num_regions + 1
  /\ faults' = faults \cup AliasFault(e)
                      \cup (IF SectionsFit(elf') THEN {} ELSE {"overlap"})
  /\ UNCHANGED <<probe, pending_list, first_removed_entry, md_ss_toc_init>>

(* msm_minidump_add_region before that: the region waits on pending_list. *)
AddPending(e) ==
  /\ NotEnabledYet
  /\ ValidateRegion(e)
  /\ num_regions < MAX_NUM_ENTRIES
  /\ Len(pending_list) < MaxEarly
  /\ EarlyDuplicates \/ \A i \in DOMAIN pending_list : pending_list[i].name # e.name
  /\ pending_list' = Append(pending_list, e)
  /\ regno' = [regno EXCEPT ![e.name] = num_regions]
  /\ num_regions' = num_regions + 1
  /\ UNCHANGED <<probe, entry, first_removed_entry, ss_region_count,
                 md_regions, md_ss_toc_init, elf, faults>>

(* msm_minidump_add_region reads the freed minidump_table (line 670) and finds
   what its new user put there: it follows a stray pointer, or takes the table
   for an enabled one and writes to it.  Nothing is claimed from there on. *)
AddToFreedTable(e) ==
  /\ probe = "freed"
  /\ ValidateRegion(e)
  /\ num_regions < MAX_NUM_ENTRIES
  /\ probe' = "lost"
  /\ UNCHANGED <<pending_list, num_regions, entry, first_removed_entry,
                 ss_region_count, md_regions, md_ss_toc_init, elf, regno, faults>>

(* md_update_ss_toc refuses a number at or above the first removed entry
   ("was moved") and a name that is not in the table. *)
CanUpdate(r, n) ==
  /\ r < first_removed_entry
  /\ EntrySlots(n) # {}

(* msm_minidump_update_region(r, e), r being the number e's add returned.
   The ELF header is written whatever md_update_ss_toc returned. *)
UpdateRegion(e) ==
  LET r == regno[e.name] IN
  /\ MdInitDone
  /\ r # NotRegistered
  /\ ValidateRegion(e)
  /\ r < MAX_NUM_ENTRIES
  /\ elf' = UpdateElfHeader(elf, r, e)
  /\ \/ /\ CanUpdate(r, e.name)
        /\ entry' = [entry EXCEPT ![r].virt_addr = e.virt_addr,
                                  ![r].phys_addr = e.phys_addr]
        /\ md_regions' = [md_regions EXCEPT
                            ![r + 1].region_base_address = e.phys_addr]
        /\ faults' = faults \cup AliasFault([entry[r] EXCEPT
                                               !.phys_addr = e.phys_addr])
     \/ /\ ~CanUpdate(r, e.name)
        /\ faults' = faults \cup {"update"}
        /\ UNCHANGED <<entry, md_regions>>
  /\ UNCHANGED <<probe, pending_list, num_regions, first_removed_entry,
                 ss_region_count, md_ss_toc_init, regno>>

(* Mutant of FirstRemoved: only the first remove is remembered. *)
FirstRemovedOnce(entryno) ==
  IF first_removed_entry = INT_MAX THEN entryno ELSE first_removed_entry

(* Mutant of FirstRemoved: the mark is set one below the removed entry. *)
FirstRemovedBelow(entryno) ==
  IF first_removed_entry > entryno THEN entryno - 1 ELSE first_removed_entry

(* The lowest entry ever removed: numbers below it are still positions. *)
FirstRemoved(entryno) ==
  IF first_removed_entry > entryno THEN entryno ELSE first_removed_entry

(* msm_minidump_remove_region(e), md_remove_ss_toc included.  The entry and
   the region are gone before the ELF header is looked for; when that fails
   the counts keep their values and the table of contents stays off. *)
RemoveRegion(e) ==
  /\ MdInitDone
  /\ EntrySlots(e.name) # {}
  /\ RegionSlots(e.name) # {}
  /\ LET entryno == Min(EntrySlots(e.name))
         rgno == Max(RegionSlots(e.name))
     IN /\ first_removed_entry' = FirstRemoved(entryno)
        /\ entry' = RemoveSlot(entry, entryno, num_regions, NoRegion)
        /\ md_regions' = RemoveSlot(md_regions, rgno, ss_region_count, NoSsRegion)
  /\ \/ /\ CanClearHeaders(elf, e)
        /\ elf' = ClearHeaders(elf, e)
        /\ ss_region_count' = ss_region_count - 1
        /\ num_regions' = num_regions - 1
        /\ md_ss_toc_init' = 1
        /\ UNCHANGED faults
     \/ /\ ~CanClearHeaders(elf, e)
        /\ md_ss_toc_init' = 0
        /\ faults' = faults \cup {"remove"}
        /\ UNCHANGED <<elf, ss_region_count, num_regions>>
  /\ UNCHANGED <<probe, pending_list, regno>>

(* The only remover, md_unregister_memory_dump, passes on what md_get_region
   gave it just before, so lookup and remove are one step here; DumpResize
   takes them apart. *)
Next ==
  \/ ProbeTable
  \/ ProbeFail
  \/ ProbeEnable
  \/ DrainRegion
  \/ ProbeUnlock
  \/ ProbeDone
  \/ \E e \in Regions : \/ AddRegion(e) \/ AddPending(e) \/ AddToFreedTable(e)
                        \/ UpdateRegion(e)
  \/ \E n \in Names : EntrySlots(n) # {} /\ RemoveRegion(GetRegion(n))

Spec == Init /\ [][Next]_vars

-----------------------------------------------------------------------------
(* Type invariant of the driver's tables. *)
TypeOK ==
  /\ probe \in {"none", "failed", "freed", "lost", "table", "drain", "enabled", "done"}
  /\ pending_list \in Seq(Region)
  /\ num_regions \in 0..MAX_NUM_ENTRIES
  /\ entry \in [Slots -> Region \cup {NoRegion}]
  /\ first_removed_entry \in 0..INT_MAX
  /\ ss_region_count \in 0..MAX_NUM_ENTRIES + 1
  /\ md_regions \in [Slots -> SsRegion]
  /\ md_ss_toc_init \in {0, 1}
  /\ ElfTypeOK(elf)
  /\ regno \in [Names -> -1..MAX_NUM_ENTRIES - 1]
  /\ faults \subseteq {"early", "alias", "overlap", "update", "remove"}

(* Nothing is ever written past the end of entry[] or md_regions[]: region 0
   of the table of contents is the ELF header, so add (msm_minidump.c:673)
   must stop one region before the entry table is full. *)
TablesNotOverrun ==
  /\ ss_region_count <= MAX_NUM_ENTRIES
  /\ entry[MAX_NUM_ENTRIES] = NoRegion
  /\ md_regions[MAX_NUM_ENTRIES] = NoSsRegion

(* Entry i of the driver's table and region i + 1 of the boot loader's table
   of contents describe the same memory.  md_update_ss_toc writes both from
   one number, and md_remove_ss_toc finds the one by its first and the other
   by its last occurrence, so an update or a remove would hit two different
   regions if they ever came apart, after a failed remove too. *)
TocMirrorsEntries ==
  Enabled =>
    /\ ss_region_count = num_regions + 1
    /\ md_regions[0] = KelfRegion
    /\ \A i \in 0..num_regions - 1 :
         /\ md_regions[i + 1].name = entry[i].name
         /\ md_regions[i + 1].region_base_address = entry[i].phys_addr
         /\ md_regions[i + 1].region_size = entry[i].size

(* What went wrong so far can have disturbed the ELF header: a drained
   region has none, and a failed remove, a refused update or a section past
   its area leave it out of step. *)
ElfDisturbed == faults \cap {"early", "overlap", "update", "remove"} # {}

(* The ELF header describes exactly the entry table, in order: section i + 4
   carries the name, address and size of entry i, program header i + 1 its
   addresses and size, and the dump offsets are contiguous from the end of
   the header. *)
HeadersAgree ==
  /\ elf.e_shnum = num_regions + FIXED_SECTIONS
  /\ elf.e_phnum = num_regions + FIXED_PROGRAMS
  /\ \A i \in 0..num_regions - 1 :
       LET sh == elf.shdr[i + FIXED_SECTIONS]
           ph == elf.phdr[i + FIXED_PROGRAMS]
       IN /\ LookupString(elf, sh.sh_name) = entry[i].name
          /\ sh.sh_addr = entry[i].virt_addr
          /\ sh.sh_size = entry[i].size
          /\ ph.p_vaddr = entry[i].virt_addr
          /\ ph.p_paddr = entry[i].phys_addr
          /\ ph.p_memsz = entry[i].size
          /\ ph.p_offset = sh.sh_offset
          /\ sh.sh_offset + sh.sh_size =
               IF i = num_regions - 1 THEN elf.elf_offset
               ELSE elf.shdr[i + FIXED_SECTIONS + 1].sh_offset
  /\ num_regions > 0 => elf.shdr[FIXED_SECTIONS].sh_offset = ElfhSize

(* Until one of these happens the ELF header and the entry table agree,
   whatever was added, moved and removed (md_add_elf_header,
   md_update_elf_header and msm_minidump_clear_headers). *)
ElfMirrorsEntries == Enabled /\ ~ElfDisturbed => HeadersAgree

(* The number an add returned stays good: as long as md_update_ss_toc does
   not refuse it as moved, the slot with that number is still the caller's
   own region, however many others were added and removed in between. *)
NumbersStayValid ==
  Enabled =>
    \A n \in Names :
      regno[n] # NotRegistered /\ regno[n] < first_removed_entry
        => regno[n] < num_regions /\ entry[regno[n]].name = n

(* A remove of a live region fails (the driver then reports "Minidump is
   broken", msm_minidump.c:820, and leaves the table of contents off) only
   after a drained region, a refused update, two regions over the same memory
   or an overlap of the headers. *)
RemoveBreaksOnlyFor ==
  "remove" \in faults \/ (Enabled /\ md_ss_toc_init = 0)
    => faults \cap {"early", "alias", "overlap", "update"} # {}

-----------------------------------------------------------------------------
(* What comments and messages of the driver say and the code does not keep. *)

(* msm_minidump.c:768, "Remove entry from: entry list, ss region list and elf
   header": a region registered before the probe can be removed like any
   other.  The drain gives it no ELF header, so its remove fails. *)
DrainedRegionsRemovable ==
  "remove" \in faults => faults \cap {"alias", "overlap", "update"} # {}

(* minidump.h:74, msm_minidump_update_region returns a "Negetive error
   number on failures": an update that is refused changes nothing.  The ELF
   header at the stale number is rewritten all the same. *)
RefusedUpdateChangesNothing ==
  Enabled /\ faults \subseteq {"alias", "update"} => HeadersAgree

(* msm_minidump.c:820, "Minidump is broken..disable Minidump collection":
   once a remove has failed the table of contents stays off.  The next remove
   that succeeds switches it on again. *)
BrokenStaysDisabled ==
  "remove" \in faults => md_ss_toc_init = 0

(* msm_minidump.c:837, the header buffer has room for "MAX_NUM_ENTRIES+4 of
   section and program elf headers".  The program headers start after
   MAX_NUM_ENTRIES section headers, so the last four sections land on them. *)
SectionsStayInArea == SectionsFit(elf)
=============================================================================
