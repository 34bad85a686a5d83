---------------------------- MODULE SmemRegistry ----------------------------
(***************************************************************************)
(* The SMEM driver implements RegionRegistry: the registry is read off the *)
(* pending list or the entry table, what the boot loader would save off    *)
(* the table of contents.  They are kept by different code, so that a step *)
(* of the driver is a step of the registry only if the tables agree, if    *)
(* each call hits its own region, and if the drain publishes every early   *)
(* region before anybody is served again.                                  *)
(***************************************************************************)
EXTENDS MinidumpSmem

Unused == [phys_addr |-> 0, size |-> 0]

MemoryOf(e) == [phys_addr |-> e.phys_addr, size |-> e.size]

PendingOf(n) == {i \in DOMAIN pending_list : pending_list[i].name = n}

(* The memory a name stands for: its entry, or its place on the pending list. *)
RegisteredMemory ==
  [n \in Names |->
     IF EntrySlots(n) # {} THEN MemoryOf(GetRegion(n))
     ELSE IF PendingOf(n) # {} THEN MemoryOf(pending_list[Min(PendingOf(n))])
     ELSE Unused]

TocOn == md_ss_toc_init = 1

(* What the boot loader reads: every region but the header's own, leaving
   out the empty slot a failed remove counts. *)
CollectedMemory ==
  IF TocOn
  THEN {[name |-> md_regions[i].name,
         phys_addr |-> md_regions[i].region_base_address,
         size |-> md_regions[i].region_size] :
          i \in {j \in 1..ss_region_count - 1 : md_regions[j].name # NoName}}
  ELSE {}

OwnedMemory == [n \in Names |-> {MemoryOf(e) : e \in {f \in Regions : f.name = n}}]

Registry == INSTANCE RegionRegistry
              WITH Owned      <- OwnedMemory,
                   registry   <- RegisteredMemory,
                   collecting <- TocOn,
                   collected  <- CollectedMemory

(* Every behaviour of the driver is one of the registry: an update or a
   remove never reaches another client's region (md_update_ss_toc takes the
   number on trust, md_remove_ss_toc looks the name up twice); the boot loader
   never finds a region that is not registered, not even while the probe
   drains the pending list behind a table that is valid already
   (msm_minidump.c:1033); and no call is served before that table lists all
   that is registered, which it then does whatever was registered early,
   moved, removed or half removed. *)
RefinesRegistry == Registry!Spec
=============================================================================
