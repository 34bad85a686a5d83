# Verification of the debug modules: minidump and memory dump

TLA+ models of the kernel modules in this repository, the TLC runs that check
them on small instances, and TLAPS proofs about each of them. The modules
collect, before a crash, the list of memory that the boot loader, the
hypervisor or the firmware has to save after it. Nothing reports an error at
that moment: a table that is wrong is noticed when the dump of a crash cannot
be read. Most of what can go wrong needs several calls, or calls of several
actors, in a particular order.

`PROJECT.json` lists components, runs, mutants, the map from definitions to
source lines, findings, hazards and theorems. This file explains them.

## 1. Inventory

| Component | State | Operations | Source |
|---|---|---|---|
| ELF header of the minidump | section headers, program headers, string table, end offset of the dump | add header, add, update and clear a region | `minidump/msm_minidump.c` |
| Region table, SMEM mode | pending list, `entry[]`, table of contents `md_regions[]`, counts, `first_removed_entry`, `md_ss_toc_init` | probe, `msm_minidump_add_region`, `..._update_region`, `..._remove_region`, `md_get_region` | `minidump/msm_minidump.c` |
| Region table, resource-manager mode | pending list, `entry[]` with slot numbers, work queue, running work, registrations in the hypervisor | the same calls, which queue works; add, update and remove work | `minidump/msm_minidump.c` |
| Size of the memory dump buffers | published address and size, buffer, region | boot registration, four debugfs size files, panic | `minidump/minidump_memory.c`, `minidump_log.c` |
| CPU subsystem register dump | `core_reg_num`, counts, used memory, dump memory | `core_reg_num`, `register_config` (store, show), `register_reset` | `memory_dump_v2/memory_dump_v2.c` |
| SPR dump | per CPU: index, used memory, dump memory | `spr_config` (store, show), `sprs_register_reset`, probe | `memory_dump_v2/memory_dump_v2.c` |
| Memory dump table | apps table, position in the allocation | `mem_dump_alloc`, `msm_dump_data_register` | `memory_dump_v2/memory_dump_v2.c` |
| Minidump log: regions | numbers of the stack, suspend and module regions, order of registration | `msm_minidump_log_init`, scheduler hook, interrupt, PM notifier, module notifier | `minidump/minidump_log.c` |
| Minidump log: handlers | `md_in_oops_handler`, `md_handle_done`, `die_cpu`, published buffers | die notifier, panic notifier, `md_dump_process` | `minidump/minidump_log.c` |
| Contents of the memory dumps | filters, sizes, handle tables, position in a region, locks held | debugfs files; walks over pages, slabs, dma-bufs, processes | `minidump/minidump_memory.c` |
| XBL boot log | one text buffer, debugfs file | probe, remove | `xbl_log/dump_boot_log.c` |
| KASLR offset store | three words of IMEM | init | `kaslr_store/kaslr_store.c` |

How they interact. Every producer (log, memory dumps, memory dump table) is a
client of the region table: it calls `msm_minidump_add_region`, keeps the
region number and later updates or removes. The region table writes the ELF
header, and either the table of contents in shared memory or, through works on
a queue, the registrations of the hypervisor's resource manager. User space
writes sysfs and debugfs files. A panic reads what is published at that moment.

What is hard, and what makes each part correct:

* *ELF header and region table.* Positions carry meaning: entry *i*, region
  *i + 1*, section *i + 4* and program header *i + 1* belong together, and a
  remove shifts all of them. They must stay aligned through any sequence of
  calls and through failures in the middle of a remove; numbers that callers
  keep must stay good or be refused; the arrays have different capacities.
* *Resource-manager mode.* A work gives up the lock for a slow external call
  and goes on with what it found before. What the hypervisor dumps must be
  what the ELF header says; no slot may be lost; works must end.
* *Dump buffers.* Several writers, a fallback, failures at every step, and a
  panic at any moment: the address, size, region and buffer must belong
  together.
* *Register dump, SPR dump.* Offsets and sums from user input in `u32`; the
  areas of one block of memory must not meet, and the firmware's answers must
  fit.
* *Dump table.* Two passes over the device tree that must agree, and a counter
  without a lock.
* *Log regions.* Every context switch on every CPU updates regions by numbers
  kept since boot, while others register and remove. A CPU must have the stack
  of its own task in the dump, and a module all its pages or none.
* *Handlers.* A plain flag keeps several CPUs, and a fault inside the dump,
  from writing the same buffers. It must not be left set, and the dump must
  hold the CPU that panicked.
* *Dump contents.* Text and a table of handles grow towards each other in one
  region; every print may be the one that fills it; locks are taken on the
  way. Nothing outside the region may be written, a reference must lead to the
  stack it stands for, lists must be complete, and the dump must end.
* *Boot log.* A buffer that moves as it grows and that a file shows.

The hazards, at their lines, are in `PROJECT.json`; each names the properties
that would catch it. Where a property excepts the case itself, because the code
does get it wrong, the hazard says so and names the refuted property that states
it without the exception.

## 2. Modules

| Module | Models | Uses |
|---|---|---|
| `ElfHeader` | the header as a record and operators on it | |
| `MinidumpSmem` | the driver in SMEM mode | `ElfHeader` |
| `RegionRegistry` | what the region table promises: a map from names to memory, and what is collected | |
| `SmemRegistry` | the refinement mapping from the driver to it | `MinidumpSmem`, `RegionRegistry` |
| `ElfHeaderProofs` | lemmas about the operations on the header | `ElfHeader`, TLAPS |
| `MinidumpSmemProofs` | theorems about the driver, that it refines the registry, and about the log as its client | `SmemRegistry`, `LogRegions`, `ElfHeaderProofs`, TLAPS |
| `LogRegions` | `minidump_log.c` as a client of the driver | `MinidumpSmem` |
| `MinidumpRM` | the driver in resource-manager mode, the queue, the resource manager | `ElfHeader` |
| `DumpResize` | buffers of the memory dumps | |
| `DumpFormat` | the header words both lists share | |
| `CpussRegDump` | register list in the dump memory | `DumpFormat` |
| `SprDump` | SPR lists of the CPUs | `DumpFormat` |
| `DumpTable` | carving and registration of dump blocks | |
| `PanicDump` | die and panic handlers on several CPUs | |
| `DumpText` | bounded printing into a region, handle table | |
| `PageOwnerDump`, `SlabOwnerDump`, `DmaBufDump` | settings and walk of each dump | `DumpText` |
| `MemoryDumps` | the dumps of one panic, one after the other | the three before |
| `BootLog` | the boot log driver | |
| `MemoryDumpV2Proofs` | theorems about the register dump, the SPR dump and the dump table | `CpussRegDump`, `SprDump`, `DumpTable`, TLAPS |
| `MinidumpRMProofs` | theorems about resource-manager mode | `MinidumpRM`, `ElfHeaderProofs`, TLAPS |
| `DumpResizeProofs`, `PanicDumpProofs`, `MemoryDumpsProofs`, `BootLogProofs` | theorems about the module of that name | that module, TLAPS |
| `MC...` | instances for TLC (`MCSprDump.cfg` needs no module: it instantiates `SprDump`) | the module of that name |

### ElfHeader, MinidumpSmem

`ElfHeader` has one operator per function of the source that touches the
header (`AddElfHeader`, `UpdateElfHeader`, `ClearHeaders`, ...), each from the
old header to the new one. Names are model values with a length (`NameLen`),
so that the string table is a map from offsets to names: adding a name,
shifting the names behind a removed one and correcting the `sh_name` of the
sections are what the code does with the bytes. Identification fields, flags
and types of the headers are constant and left out.

`MinidumpSmem` keeps the variables of the driver under their names. `regno` is
what callers remember (the return value of their add), and `faults` a history
of what has gone wrong and could disturb the header. The two arrays have one
slot more than in the code: the memory behind the array, so that an overrun is
a visible write and not an evaluation error.

| Action | Code |
|---|---|
| `ProbeTable`, `ProbeFail` | `msm_minidump_driver_probe` before the locked section |
| `ProbeEnable`, `DrainRegion`, `ProbeUnlock`, `ProbeDone` | the locked section: the table becomes valid, the pending regions are moved one by one, the lock is given back; then `md_init_done` |
| `AddToFreedTable` | an add that reads the table a failed probe has left to the driver core; nothing is claimed from there on |
| `AddRegion`, `AddPending` | `msm_minidump_add_region` with the table enabled or not |
| `UpdateRegion` | `msm_minidump_update_region`, with the write of the ELF header that also follows a refused update |
| `RemoveRegion` | `msm_minidump_remove_region`, in the order of the code: entry, region, and only then the header, which may not be found |

An add holds `mdt_lock`, a remove holds it together with the write side
of `mdt_remove_lock`, and an update holds the read side; each is one action.
The drain holds `mdt_lock` too, but it is not one action: the table is valid from
its first step on (`msm_minidump.c:1033`), and the boot loader, which reads it
after a crash, takes no lock. An update may overlap an add. The add writes only the slot behind the used
ones and then the count, so it commutes with the update.

### RegionRegistry, SmemRegistry

`RegionRegistry` knows names, the memory registered under each, whether the
boot loader finds a valid table, and what it would save. A client changes what
is registered under its own name and nothing else. The boot loader finds nothing
until the driver comes up, which publishes what was registered before, one region
after the other; a crash in between leaves some of it out. Nobody is served until
that is complete, and from then on the boot loader sees all of the registry or
nothing. `SmemRegistry` reads the registry off the pending list
or, once enabled, the entry table, and what would be saved off the table of
contents. As they are kept by different code, `RefinesRegistry` says that every
call hits its own region in both, that the boot loader never finds what is not
registered, in the middle of the drain either, that no call is served before the
table is complete, and that a failed remove leaves no ghost behind. It makes no claim
about the ELF header; `ElfMirrorsEntries` does.

### LogRegions

The composition of the driver with its main client. The steps of the driver
are those of `MinidumpSmem`; `todo` is what `msm_minidump_log_init` has still
to do, in its order, one region per step. `upd[c]` holds the pages CPU `c` has
still to update. The scheduler hook and the interrupt run with interrupts off,
so a CPU does nothing else in between, but all other CPUs do. Tasks and the
scheduler are external: any CPU may switch to any task no other CPU runs.
`intruded` is history: a region of someone else was added while a module's
pages were. `ClientAdd` is any other driver (`msm_dump_data_register`, or the
region `MEMDUMP` of `mem_dump_alloc`), which registers at any time, before the
probe too; its regions then have no ELF header, and the positions of all later
ones are off by that much. `WholePages` is the number of pages
`md_module_process` asks for, the size divided down, and `ModulePages` the number
`register_vmap_mem` adds.

### PanicDump

Each CPU has a stack of frames, each at a place of the die notifier or of
`md_dump_process`; the test of `md_in_oops_handler` and its assignment are two
steps. Around them is what the kernel guarantees and no more: die notifiers
run under `die_lock`, the first CPU to panic stops those that take interrupts
and does not wait for the others, a fault inside the dump comes back through
the die notifier on the same CPU. Boot is part of the model, buffer by buffer,
so that an oops or a panic may come before a buffer is registered or a
notifier is. `raced` is history: two frames stood between test and set at once.

`md_dump_process` is exported, so a driver's task may run it. A fault inside it
ends in a panic (`Died`) only in an interrupt or with `panic_on_oops`; otherwise
the task is killed (`Killed`) with the flag set and the dump unfinished. The
history `killed` records that. A panic of another CPU may stop such a task in the
middle as well (`StopCpu`). Faults in interrupt handlers that interrupt a dump are
faults inside it; those that interrupt it between its claim and the store of
the flag are not modelled.

### DumpText, PageOwnerDump, SlabOwnerDump, DmaBufDump, MemoryDumps

A region is a function from positions to bytes over more positions than it
has, so that a write outside is visible. What is printed does not matter, only
its length; a text ends in a NUL, and handles are bytes that text may destroy.
`Record` is the common part of both owner dumps: look the handle up, store it
or not, print the stack or not. `RecordMax` bounds the length of a record, as
the room the code asks for before it prints one does. The debugfs files change filters and sizes
until the panic; then `MemoryDumps` runs the walks in the order of
`md_dump_process`. Pages, objects, buffers and processes the walks meet are
drawn from small sets, so every sequence of them up to the bound is covered.

`held` counts what the dump holds: `list_lock` of a node, the reservation lock,
the RCU read side and a fence in `dump_bufinfo`, `task_lock` of a thread. Each is
taken in one step and given back in another, and every line between may fill the
region and leave the walk. `stopped` is the set of locks that CPUs held which the
panic has stopped, of six kinds; a walk that needs one of them gets no further
(`"blocked"`).

### BootLog

The probe part by part; a part either grows the buffer, fails the probe, or
meets a failure the code does not notice (`"oops"`). Buffers have generations,
so that a file showing a freed one is visible. Device nodes are counted. The
driver may be bound again.

### MinidumpRM

A call reserves or finds an entry and appends a work to `wq`. A worker takes
it (`StartWork`), looks the entry up under the lock (`...Find`), calls the
resource manager without it (`Register`, `Deregister`), and finishes under the
lock (`...Finish`). `rm` is the resource manager: a map from slot numbers to
ranges. It is external and modelled from its use: a registration takes a free
slot or fails, a deregistration frees one or fails. `MayStart` is
`alloc_workqueue(..., 1)`: one work at a time although several threads serve
the queue.

`md_rm_update` is the one call that looks at the table without `mdt_lock`,
while a work may be moving entries. It is one action all the same: a name it
finds was in the table at some moment of its walk, and the work looks it up
again under the lock; a name it misses is reported as an error and nothing has
changed.

When memory runs out in the middle of the drain (`ProbeNoMemory`) the driver core
frees the table, while works already queued go on using it. The model keeps the
contents of that memory as they were; what the works do to a new owner of it is
not modelled.

### DumpResize

One buffer, its region and the pair `dump_addr`, `dump_size`. A write of the
size file is a process that goes through `update_dump_size` step by step;
every step that another CPU could observe is an action. `cma_alloc` is
external: it takes any free place if the size is positive and fits, and may
fail at any time. The `int` parameter of `md_register_memory_dump` is
arithmetic modulo `2^W` megabytes with the upper half negative. `Locked` tells
the file with a mutex from the three without. Sizes are in megabytes. In
resource-manager mode (`mode = "rm"`) the add reserves the entry and the rest
of it and of the remove are works; `rm` says how far they have got with the one
region. `md_get_region` exchanges the two addresses there, so the remove work
gives up the slot and keeps the entry, and `cma_release` gets a page that is
not in the area.

### CpussRegDump, SprDump

The dump memory is a function from word indices to values, written at the
indices the code computes. `percore`, `system` and `accepted` are history: the
registers whose store returned success; so is `answers`, the bytes the firmware
will write for them, counted without wrapping. The `u32` arithmetic of `CpussRegDump`
is arithmetic modulo `2^W`. A store is one action because it holds the mutex,
except `core_reg_num_store`, which is two (`CoreRegNumCheck`,
`CoreRegNumUpdate`). `RegisterConfigShow` and `SprConfigShow` are the two
readers, as functions of the memory.

### DumpTable

The initial state is any device tree of a given set. The first loop of
`mem_dump_alloc` is `NodeSize`, one node a step: it adds to `total_size` and
`no_of_nodes`, and the history `counted` keeps where each node has brought the
sum. The allocation may fail before it or after it. The second loop is `NodeSkip`, `NodeRegister`, `NodeFull`; one registration is
three steps (`RegisterCheck` inside the caller's action, `RegisterWrite`,
`RegisterCount`), and the number used to write and to count is the one loaded
first or the current one, since the compiler may keep it. Nothing locks the table,
so the probe and the drivers may all be inside at once; an entry may then be
written behind the table, which grows for it. `met` is history: the entries whose
registration overlapped another.

## 3. Runs

Each property is described above its definition. Every property of a passing
run has a mutant: a plausible bug in one definition, under which TLC finds
that property violated. Nearly every state machine has a type invariant `TypeOK`; it is
checked where the proofs need it (`smem_headers`) and holds in the other
instances too.

| Run | Shows | Bounds, and why they are enough |
|---|---|---|
| `smem_headers` | types; the driver implements the registry; the table of contents mirrors the entries always; the ELF header until a named fault; numbers stay valid or are refused; a remove fails only for a named cause | 3 names, 2 of them with 2 places, 3 slots in use, up to 2 early regions, so that a crash may come between them. A remove has a neighbour on each side, two names can come to the same place (aliasing), names have different lengths |
| `log_regions` | neither array overrun; stacks current; suspend regions agree; no update refused, no remove fails unless a driver was early; modules whole | 2 CPUs, 2 tasks and idle, stacks of 1 page, a module of 2 pages, 11 slots, 1 other driver: the module fits exactly, or not at all after others; the table runs full |
| `rm_works` | a work's index stays good; registrations match the header; headers are a prefix; no slot lost | 2 names, one at 2 places, 2 workers, 2 queued works, 2 slots, 1 early region: add, update and remove of one region are in flight together, and slots run out |
| `rm_liveness` | works end; reserved entries settle | 1 worker, 1 queued work |
| `reg_dump` | areas apart; accounting exact; reading back gives what was accepted | 2 writers, 17 words, `u32` of 8 bits, every command in both parts, values that do not fit and that wrap |
| `spr_dump` | lists complete, terminated, with room for answers | 2 CPUs, 17 words: a fourth register does not fit; register 0 included |
| `resize` | address, region, buffer and size agree at rest; a panic meets a bad pair only in two windows; no buffer lost but one in resource-manager mode; writes return | both modes, 2 writers, 3 places, 4 MB of area, sizes 0, 1, 3 and 5 (too large), failures anywhere |
| `dump_table` | blocks inside and apart; entries registered alone stay; the table complete as long as no two registrations overlap | every tree of up to 4 of 5 kinds of node, 3 slots, 2 drivers that overlap the probe and each other: the table runs full from both sides, and over |
| `memory_dumps` | owner dumps stay in the region or overrun it by a bounded amount; records and handles do not damage each other; references resolve; locks given back, and left only by a full region; process lists complete; cut short only for a named cause; the dump ends or waits for a lock of a stopped CPU | regions of 6 to 31 bytes, so that every line of every record can be the one that fills them, and handle tables larger than the region; 2 handles that share a byte; 5 kinds of page, 4 pages, 2 caches, 5 objects, 3 dma-bufs of 4 kinds, 3 processes of 5 kinds (shared files, own files, exited leader, zombie); no lock with a stopped CPU, the one of the call sites, or the five others |
| `panic_dump` | one dump; one writer unless raced; no flag left but by a killed task; own context; buffers owned | 3 CPUs (symmetric), 3 faults, 3 buffers, room for 2 contexts: dying, panicking and calling CPU at once, a fault inside the dump that panics or kills the task, a full context buffer |
| `boot_log` | parts tile the buffer; counters whole; the file never shows a freed buffer | sizes 0, 1, 2 and 40, counters of 1, 9 and 10 digits, 3 probes |

`MCLogStacks` asks the questions of `log_regions` of 3 tasks with stacks of 2
pages, so that another CPU comes between the pages of one stack; it passes and
is not listed.

Deadlock is checked in `reg_dump` and `spr_dump`, whose files can always be
written. In the others the system may stop: a table that is full or a probe
that failed leaves nothing to do, nobody has to write a size, and after a panic
the system is down.

Fairness. `MinidumpRM` assumes weak fairness of the steps of the workers taken
together: the kernel runs queued works, and calls of the resource manager
return. Callers and the probe may stop at any time.
`DumpResize` assumes that a process inside the kernel goes on. `MemoryDumps`
assumes it of the CPU that panicked, which runs alone; a lock whose holder was
stopped, of any of the six kinds the dump takes, is never given to it, and
`DumpsEnd` names that exception. No run
assumes that an allocation or a registration ever succeeds.

### Where the code does not keep what it says

One run is expected to be violated; `PROJECT.json` quotes the comment it
refutes.

| Run | What the code does |
|---|---|
| `rm_late_add` | a region registered between drain and `md_init_done` is never registered |

Other promises are stated next to the properties that hold, under "Refuted",
and mark the limit of what a passing run or a theorem claims. TLC refutes
those of the first table on the instance of the run named (its configuration
with this property in place of its own), and those of the second on an
instance of their own, kept as a configuration that is not among the runs.

| Instance | Property | What the code does |
|---|---|---|
| `smem_headers` | `BrokenStaysDisabled` | after a failed remove ("Minidump is broken..disable Minidump collection", `msm_minidump.c:820`) the next successful one enables the collection again |
| `smem_headers` | `DrainedRegionsRemovable` | a region registered before the probe gets no ELF header; its remove fails and switches the minidump off |
| `smem_headers` | `RefusedUpdateChangesNothing` | an update refused as moved rewrites another region's ELF header |
| `reg_dump` | `NeverWiped` | a register stored between check and update of `core_reg_num` is dropped ("register available in list", `memory_dump_v2.c:241`) |
| `reg_dump` | `HeaderNotOverwritten` | a system register stored before the first format lands on the magic word |
| `reg_dump` with `Configs <- MCConfigsZero` | `ShowsConfigured` | a long read at offset 0 is a zero word, which reading back passes over |
| `log_regions` | `ModulesAlwaysWhole` | a region added between the look at the room and the pages of a module leaves the module in part |
| `log_regions` | `TraceBufCollected` | the trace buffer is in use although pstore's region took its name ("Complete registration before adding enteries", `minidump_log.c:595`) |
| `resize` | `OffMeansFree` | in resource-manager mode a resize leaves the old entry, both registrations find the name taken, and the dump is off for good |
| `resize` | `DumpStaysInside` | a panic during a resize finds released memory or a smaller buffer |
| `panic_dump` | `PanicDumped` | a panic while another CPU is in its die notifier finds the flag set and leaves no dump |
| `panic_dump` | `FreshContext` | a CPU that survived an oops panics later; `die_cpu` still names it and its registers are left out |
| `panic_dump` | `NeverRaced` | two CPUs test the flag before either sets it, and both write |
| `memory_dumps` | `SlabOwnerInside` | records end behind the region, by the length of the headings |
| `memory_dumps` | `SlabTextIntact` | the heading of a cache is printed over the records of the one before |
| `memory_dumps` | `ProcsCutMeansFull` | "region exhausted" (`minidump_memory.c:1314`) at a process whose leader has exited: `ret` is a length left from the process before |
| `memory_dumps` | `DumpsAlwaysEnd` | the dump waits for a lock whose holder was stopped: that of the call sites, of a node's slabs, of the list of dma-bufs or of one of them, of a thread or of its files |
| `boot_log` | `NodesBalanced` | the search drops the parent node, and the probe drops it again |
| `boot_log` | `NoStaleBytes` | a short counter leaves bytes `devm_krealloc` did not clear |
| `boot_log` | `FailuresHandled` | "mem remap failed" (`dump_boot_log.c:97`) tests for NULL what returns an error pointer; the result of `devm_krealloc` is not tested |

| Configuration | Property | What the code does |
|---|---|---|
| `MCSmemSections` | `SectionsStayInArea` | the last section headers are written over the program headers; `msm_minidump.c:837` reserves room for all |
| `MCSmemEarlyFull` | `TablesNotOverrun` | as many early regions as slots overrun both arrays in the drain |
| `MCSmemEarlyTwice` | `TocMirrorsEntries` | a name registered twice early takes the two tables apart |
| `MCRmGetRegion` | `GetRegionReturnsRegistered` | `md_get_region` exchanges the two addresses in this mode |
| `MCRegWrap` | `AreasDisjoint` | `core_reg_num` = 0x80000000 wraps to a layout for no registers |
| `MCResizeUnlocked` | `ConsistentAtRest` | of two unlocked writes, one publishes the buffer the other has released |
| `MCResizeTruncated` | `ConsistentAtRest` | 4097 MB makes a buffer of 1 MB with a dump size of 4097 MB |
| `MCDumpTableOverlap` | `EveryEntryKept` | of two registrations at once one is lost although both return 0 |
| `MCLogModuleReload` | `ModuleCurrent` | a module that is reloaded elsewhere keeps its old regions, its names being taken |
| `MCDumpFilter` | `FilterKept` | "0x8 - File" (`minidump_memory.c:604`) also selects anonymous LRU pages: `~` of a masked flag is never 0 |

The passing runs exclude such an input where it would hide everything
else: `EarlyDuplicates = FALSE`, `MaxEarly` below the number of
slots, removes by the caller's own addresses in `rm_works`, no read at offset 0
and no wrapping `core_reg_num` in `reg_dump`, sizes below the range of `int`
and `Locked = TRUE` in `resize`, a module whose data begins and ends at a page in
`log_regions`. Where it does not, the property names the fault and claims the rest
(`ElfMirrorsEntries`, `RemoveBreaksOnlyFor`, `NoSlotLeak`, `AddsSettle`,
`ConsistentAtRest`, `UnsafeOnlyInWindows`, `CallsNeverFail`, `ModulesWhole`,
`EntriesComplete`, `OneWriter`, `FlagMeansWriter`, `OwnContext`,
`SlabOverrunBounded`, `LocksLeftOnlyWhenFull`, `ProcsCutOnlyFor`, `DumpsEnd`).

### Modelling assumptions

* A read of a sysfs file is not cut at `PAGE_SIZE`.
* In resource-manager mode a caller registers a name once before the probe has
  finished.
* `MinidumpSmem`: lookup and remove of `md_unregister_memory_dump` are one
  step; `DumpResize` takes them apart.
* The header is written once by `msm_minidump_add_header`; its ignored failure
  (a NULL dereference, or a zeroed header) is not modelled.
* `LogRegions`: SMEM mode, a probe that succeeds (otherwise the log is never
  started), stacks mapped page by page, one key module; with
  `CONFIG_QCOM_DYN_MINIDUMP_STACK`, so `dump_stack_minidump` returns at once.
  Other drivers add regions and do not update or remove them, as in this
  repository.
* `PanicDump`: `seq_buf` has no lock, so of two writers at once one text may be
  lost; otherwise a context is in the buffer whole or, the buffer being full,
  not at all.
* `MemoryDumps` is the dump of a panic: settings do not change while it is
  written, as all other CPUs are stopped. In a dump that a driver starts, which
  `PanicDump` has and where the other CPUs go on, sizes and filters may change
  under the walks; that is not modelled, and nothing here speaks of the contents
  of such a dump. All lines of a dma-buf dump have one length; a resize is
  one step, `DumpResize` taking it apart.
* `BootLog`: a reader of the file is inside debugfs' own protection, which
  `debugfs_remove_recursive` waits for.

## 4. Proofs

Each theorem holds for every value of the constants that the named `ASSUME` of
its module allows: tables, names, CPUs, writers, sizes and devices of any
number. The last column names what a theorem assumes besides.

| Module | Theorem | Property | Hypothesis |
|---|---|---|---|
| `MinidumpSmemProofs` | `TypeCorrect` | `TypeOK` | `EarlyDuplicates = FALSE` |
| | `TocMirrors` | `TocMirrorsEntries` | the same |
| | `NumbersValid` | `NumbersStayValid` | the same |
| | `NotOverrun` | `TablesNotOverrun` | the same, and `MaxEarly < MAX_NUM_ENTRIES` |
| | `DriverRefinesRegistry` | `RefinesRegistry` | `EarlyDuplicates = FALSE` |
| | `ElfMirrors` | `ElfMirrorsEntries` | the same |
| | `RemoveBreaksOnly` | `RemoveBreaksOnlyFor` | the same |
| | `CallsAlwaysSucceed` | `CallsNeverFail` | the same, `RegionsKnown`, `NamesApart`, `DumpApart` |
| | `StacksAlwaysCurrent` | `StacksCurrent` | the same |
| | `ModulesWholeOrIntruded` | `ModulesWhole` | the same, `ModuleValid`, `WholePages = ModulePages` |
| `MinidumpRMProofs` | `IndexAlwaysStable` | `WorkIndexStable` | |
| | `NeverSlotLeak` | `NoSlotLeak` | |
| | `RmAlwaysMatchesElf` | `RmMatchesElf` | `OneSize` |
| `DumpResizeProofs` | `OnlyTwoWindows` | `UnsafeOnlyInWindows` | `Locked`, `SizesFit` |
| | `AlwaysConsistentAtRest` | `ConsistentAtRest` | the same |
| | `NeverBufferLeak` | `NoBufferLeak` | the same |
| `MemoryDumpV2Proofs` | `AreasAlwaysDisjoint` | `AreasDisjoint` | `NumsFit` |
| | `OutputAlwaysFits` | `OutputFits` | the same |
| | `SprListsAlwaysComplete` | `SprListComplete` | `EmptyFits` |
| | `BlocksAlwaysInside` | `BlocksInside` | |
| | `EntriesAlwaysComplete` | `EntriesComplete` | |
| `PanicDumpProofs` | `BuffersAlwaysOwned` | `BuffersOwned` | |
| | `AtMostOneDump` | `DumpedOnce` | |
| | `AtMostOneWriter` | `OneWriter` | |
| | `FlagAlwaysOwned` | `FlagMeansWriter` | |
| | `AlwaysOwnContext` | `OwnContext` | |
| `MemoryDumpsProofs` | `PageOwnerStaysInside` | `PageOwnerInside` | |
| | `PageTextIntact` | `TextIntact` | |
| | `StacksAlwaysResolve` | `StacksResolve` | |
| | `SlabOverrun` | `SlabOverrunBounded` | |
| | `LocksGivenBack` | `LocksLeftOnlyWhenFull` | |
| | `ProcListsAlwaysComplete` | `ProcListsComplete` | |
| | `ProcsCutReasons` | `ProcsCutOnlyFor` | |
| `BootLogProofs` | `FileAlwaysBacked` | `FileBacked` | |
| | `PartsAlwaysTile` | `PartsTile` | |

What they stand for; with three exceptions, which the list names, TLC has a
counterexample without them:

* `EarlyDuplicates = FALSE`, no name registered twice before the probe:
  `MCSmemEarlyTwice`. `MaxEarly < MAX_NUM_ENTRIES`: `MCSmemEarlyFull`.
* `Locked`, all writers of a size file take the mutex: `MCResizeUnlocked`.
  `SizesFit`, every size survives the conversion to `int`:
  `MCResizeTruncated`.
* `NumsFit`, `2 * n + 6` does not wrap for any `core_reg_num` that is written:
  `MCRegWrap`.
* `OneSize`, a name is always registered and updated with one size:
  `md_update_elf_header` does not write sizes, the update work passes the new one
  to the resource manager. The callers in the repository (stacks, suspend
  context) keep it. The run `rm_works` with `Regions <- MCTwoSizes` has the
  counterexample.
* `EmptyFits`, the memory of a CPU holds an empty SPR list. The code does not
  check it and the device tree has to promise it; otherwise the first reset
  writes outside the memory, which the model has no words for.
* `RegionsKnown`, the regions of the log are regions: this only ties the
  constants of `LogRegions` to the set `Regions` the driver is stated with.
* `NamesApart`, a name says what a region is for. The names are format strings of
  `minidump_log.c` with a CPU and a page (`KSTACK`, `KSUSPSTK`), constants, or
  those of modules. Only pstore, the trace buffer, the panic data and other drivers
  may share one, as `KFTRACE` is. Nothing was tried without it.
* `DumpApart`, the memory of the dump is nobody else's: `cma_alloc` gave it out.
  With a dump of one page at the place of a stack the run `log_regions` has a
  remove that breaks the minidump.
* `ModuleValid`, `validate_region` accepts each page of the module. With a name
  that is too long for one page only, the run has a module with a hole.
  These four are evaluated by TLC on the instances (`LogHypotheses` in
  `MCLogRegions`).
* `WholePages = ModulePages`, the data of a module begins and ends at a page. The
  code divides its size down (`minidump_log.c:1181`) and adds every page it
  touches (`minidump_log.c:1137`), so otherwise it asks for less room than it
  takes. With `WholePages = 1` the run `log_regions` has a module in part.

All proofs have one shape: an inductive invariant, a lemma that it holds
initially, one lemma per action or group of actions, one for `Next`, and a last
step that combines them. What follows says what each invariant adds to the property and
why.

### ElfHeaderProofs

`WellFormed(h, k)`: section and program headers describe the same `k` regions in
the same order, the regions in the dump and the names in the string table being
packed without a gap. Such a header is a table of `k` rows (`Row`). Adding
appends a row (`AddWellFormed`), updating changes the addresses of one
(`UpdateWellFormed`), clearing takes one out and moves the later ones up
(`ClearWellFormed`). Clearing is where something can go wrong: the program
header is found by address and size, the section header by name, and the two
may belong to different rows unless the names are distinct and no other region
lies at the address.

### MinidumpSmemProofs: tables

`IndInv` is `TypeOK`, `TocMirrorsEntries` and `NumbersStayValid` with five more
parts, each of which some action needs.

* `PendingInv`: before the drain the tables are empty, the list holds distinct
  names, and its length is `num_regions`.
* `DrainInv`: in the middle of the drain the first regions are in both tables,
  each the other's mirror, and the rest still on the list; together (`Early`) they
  are the list there was. `entry[num_regions]` may hold a copy of any of them.
* `LiveNamesDistinct`: no two live entries share a name. A remove looks up the
  first entry and the last region of a name. Only if there is one of each are
  they each other's mirror (`OneSlotPerName`). An add of a new name keeps this
  because it looks for the name in the table of contents, which by the mirror
  holds the same names (`NoSlotNoRegion`).
* `FirstRemovedBound`: `first_removed_entry` is `INT_MAX` or at most the count.
  A number handed out after the first remove is then never below it, so it is
  refused and nothing has to be known about its slot.
* `HeaderCounts`: the ELF arrays have room whenever the table has; this is what
  types the header operations.

A failed remove is the case that needs most: the tables have been shifted and
the counts have not, so that the last counted slot of both is empty, and the
mirror holds there too. `NotOverrun` rests on `IndInv` and on `RoomInv`:
once enabled the entry table is never completely full, and before that the
list is no longer than `MaxEarly`.

### MinidumpSmemProofs: refinement

The mapping reads the registry from the pending list before the drain and from
the entries after it, and what is collected from the table of contents. To
`IndInv` comes `LiveInv`: a registered region is not empty, or the mapping
would take it for none, and the table is valid from the first step of the drain
on and not before.

1. `EnabledMemory`, `PendingMemory` for the list, and `DrainMemory` in between: a
   name stands for the one entry, or place on the list, that carries it.
2. `Agrees`: outside the drain the collected set is the listing of the registry or
   empty. This is where `TocMirrorsEntries` enters, and it settles the variable
   `collected` of every abstract step.
3. One lemma per action. The first step of the drain maps to `Enable`, each of
   the next to one `Publish` (`DrainRefines`): the region changes from the list to
   the table, so the registry stays and one row is added to what is collected. An
   add maps to `Register`, an update to
   `Move`: that it changes its own name only is `NumbersStayValid`. A remove
   maps to `Unregister` after the shift, failed ones too, and the rest stutters.

### MinidumpSmemProofs: ELF header

`ElfInv`: the header is well formed without a region before the drain, and until
a named fault it has one row for each entry, equal to it. It needs `IndInv`: a
remove finds the row of its entry because live names are distinct.
`FaultsInv` adds what a failed remove says about the past: without aliasing no
two entries have the same address and size (`MemoryDistinct`), so the program
header a remove finds is its own, and the headers of a live region are always
found.

### MinidumpSmemProofs: the log

The driver promises an update only below the first removed slot, and a remove
only where no other region has the same memory. That the log stays within both
does not follow from a guard: it follows from the order of
`msm_minidump_log_init`. `Ordered` states that order as a relation between any
two steps of the list (`Before`), and `LogInitOrdered` shows it of the list, part
by part.

`CallInv` is what `CallsNeverFail` needs. `TodoInv`: what is left of the list is
in order. While it is not empty there is no dump (`NoDumpYet`), as the dump is its
last step; so whatever is updated has a slot below every dump and below
everything ever removed (`KeptInv`). `ApartInv`: the entry of the dump is the only
one at its memory. `EarlyInv`: before the drain is over there are only regions of
other drivers. `StepCalls` reduces every step of the system to one call of
the driver, `LogCallDriverInv` shows that the calls keep the tables so.

`StackInv` is what `StacksCurrent` needs besides.

* `BootInv`: which flags are set, by what is still on the list. Once
  `md_current_stack_init` is set the hook is in place and no stack is left to be
  registered. While that step is ahead, so is the interrupt.
* `CpuInv`: before the flag every registered stack is the dummy. After it, a CPU
  is moving its pages to its own task (each page is there or among the updates
  left), or idle, or has the dummy and the interrupt ahead. The CPU that
  sends the interrupt is not interrupted itself: it runs the task whose stack the
  dummy is, and that it is the only one (`OneCpu`) is why it may be left out.
* `SuspInv`: the same for the task that suspended last.

A step of anyone else leaves those regions alone (`Stay`): adds go behind them,
removes are behind them, updates of other names have other slots.

`WholeInv`, for `ModulesWhole`: all pages are in, or none, or the missing ones are
exactly those left to register, each valid, with a free name, and with room for
all of them. `Room` asks for that once, before the first page; a page takes one
slot and is one page less, so the room stays enough until something else takes
a slot, which is what `intruded` records. A page is therefore never refused half
way. The dump being removed meanwhile only makes room.

### MinidumpRMProofs

`WorkIndexStable` is about a work between two sections under `mdt_lock`. It is
inductive with `TypeInv`, `QueueType`, `OneWork` (the queue is ordered: at most
one work runs) and `BeforeDrain` (no work before the table exists). A call
appends an entry or changes none, and entries move only in the last step of a
remove work or of an add work that failed, which is then the one that runs.

`NoSlotLeak` is about states without a work. Its invariant follows a slot
through the works, as long as no call has failed:

* `EntrySlotInv`: a slot in the table is registered and in one entry only;
* `AddsInv`: an add that waits is the only one of its name, and its entry has
  no slot yet. Otherwise its registration would write over one;
* `WorkersInv`: the entry of a running work has no slot, as the work took it
  out or has not put it in, and no other add of that name waits;
* `AllOwned`: every registered slot is in an entry or with the running work.

`RmMatchesElf` ties the hypervisor's registrations to the ELF header, two tables
written by different steps of a work. Its invariant `RowInv` holds whatever
the resource manager refuses; it says nothing once a region came between the
drain and `md_init_done`, for which no add work is ever queued.

* `HeadersInv`: the header is well formed with `Rows` rows, and row *i* is entry
  *i*. Headers are written by the add work, not by the add, so the last
  entries may have none.
* `NamesInv`, `RequestsInv`: names are distinct, and so an entry found by name
  is the entry the work is about.
* `RowSlotsInv`: an entry with a slot has a row, and that slot is registered
  with what the row says; no two entries share a slot.
* `AddsWait`: the adds that wait or run are those of the entries without a
  header, in their order. So an add work always writes the row of the first
  entry that has none, although it appends without looking at the index.
* `RowWork`: what the running work found before it gave up the lock. An update
  or a remove is about an entry with a row, or stops for lack of a slot.

A failed add work takes its entry out of the middle of the table. `DropRows`
shows that rows, slots and waiting adds keep their order.

### DumpResizeProofs

`Phase` says for each program counter of a write what buffer there is, what is
published and what the region table has; `AtRest` says it between writes.
`Exclusive`, from the mutex, lets each step be looked at alone. The two windows
are the two program counters whose phase does not give address and size of one
buffer. In resource-manager mode the works run between any two steps
(`RmInv`), so `Registered` and `Left` have to allow for an entry the add work
dropped and one a remove work left.

### MemoryDumpV2Proofs: register dump

`Layout(q)`: the position of every area as a function of `core_reg_num` and of
the number `q` of words of system registers. `AreasDisjoint` alone says that
areas do not overlap and not where they are, so it would not survive the next
store; that the count of used registers bounds `core_reg_end_index`, and that
the output offset is at most `used_memory`, is what makes the guards of
`register_config_store` sufficient. u32 arithmetic stays in: `NumsFit` rules
out one wrap, the checks of the code the others.

`AnswerInv` adds that `used_memory` is the output offset and the answers of all
accepted registers: a core register costs one answer a core, and `ProductFits`
and `AnswerFacts` show that the product the code forms in `u32` did not wrap
when its check passed. `OutputFits` is then the check itself.

### MemoryDumpV2Proofs: SPR dump

`Listed`: the list of a CPU is its accepted registers in order, one word each,
with the terminator behind them, and the answers still fit. `SprInv` says it of
every CPU that has been reset, and nothing before, where the index is that of
zeroed memory. The probe resets all CPUs, so `SprListComplete` holds after it
whatever was stored before.

### MemoryDumpV2Proofs: dump table

A count is read, used and stored in separate steps by any number of callers, so
the table itself is no invariant once two have met. What is: a call reads a count
that was never below what is safe.

* `AloneInv`: while a call has met no other, nothing has changed since it began,
  and its entry is in the slot it counts next.
* `KeptInv`: an entry that was registered alone is in a counted slot below the
  number every call under way has read. Such a call writes at or above that number
  and stores a count above it, so neither the entry nor its being counted can be
  undone.
* `UnmetInv`: before any two calls have met, the counted slots are the registered
  entries, each in one slot (`Counted`), and the table has grown for none.
* `Placed`: all registered addresses are below `offset`, so that the next block
  is new.

`BlocksInside` compares the two passes. `SizedInv`: `total_size` is the count at
the node the first loop has come to, and counts only grow. `CarvedInv`: before
a node, `offset` is at most what the first loop had counted there. A node that
is carved moves both by its size, one that is skipped moves only the count; the
last page is rounded up (`AlignCovers`), so the allocation covers every block.

### PanicDumpProofs

A CPU has a stack of handler frames, as a fault inside a handler starts
another. All parts are about two statements on all stacks, `None(s, P)` (no
frame is in one of the places `P`) and `Single(s, P)` (at most one is). Lemmas
about push, pop and goto reduce each action to what it does to these.

* `HandlerInv`: a flag that is set has a writer or was left by a killed task;
  without a race, writers have set it, and nobody is past the test and about to
  set it again (`Setting`). After a task was killed inside the dump, without a
  race, the flag is set and nobody writes or is about to.
* `TopInv`: a frame of the die notifier is the topmost of its CPU, as it runs with
  interrupts off. A killed task thus takes no such frame with it.
* `OnceInv`: `md_handle_done` is given to one frame, which enters the dump
  once.
* `ContextInv`: whoever is past the place where its context is written has one:
  the CPU named by `die_cpu`, and the one that dumps.
* `BootInv`: buffers are allocated, registered and published in order, and at
  most one is between these steps.

`AtMostOneWriter` counts frames, so the set of CPUs is assumed finite.

### MemoryDumpsProofs

The dumps share the phase and the list of what is still to do, so the invariant
is one part per dump, and each part is untouched by the actions of the others.

* `OwnerInv`, for both owner dumps: while the text is a record away from the
  handle table, every handle in the table is that of a record printed with its
  stack, so a record without one refers to a stack that is there. The condition
  on the distance is the point: a heading or a last record may run into the
  table, and after that nothing is looked up any more.
* `PageInv`: the text ends at least a handle before the table and inside the
  region, whatever size and filter were set before the panic.
* `SlabInv`: position and remaining size of a walk drift apart by the length of
  the headings printed so far, one for each cache that was taken; this bounds
  the overrun.
* `HeldInv`: what is held, by place. `HeldAt` says it for each step of
  `dump_bufinfo`, `HeldAfter` for the state a full region leaves: locks that nest,
  each once; `ListHeld` and `TaskHeld` tie the two spinlocks to the middle of
  their walks. A name that has left `todo` does not come back (`ToCome`), so what
  one dump leaves is not met by a second walk.
* `ProcInv`: `WalkCounts` ties the hash to the lines printed for this process;
  `WalkLeader` says that the files of the leader come first, which is why
  threads that share them may be passed over; `WalkCovers` says that each open
  buffer is listed or among the files and threads still ahead.

### BootLogProofs

`StateInv`: how far the probe has come is how many parts there are, and the
buffer they are in is not freed. `FileInv`: the file exists in "bound" only, and
no step changes the buffer there.

### Only model-checked

* All liveness properties (`WorksEnd`, `AddsSettle`, `WritesReturn`,
  `DumpsEnd`): fairness is out of the prover's reach.
* `ShowsConfigured`: what a recursive function over the words of the memory
  returns for every list needs induction over data.
* `TablesNotOverrun` with the log as client, which `NotOverrun` has for any
  client. `PendingDrained` is refuted.

## 5. Not modelled, and the plan

Not modelled, and why:

* the text of the run queues, memory and slab statistics
  (`md_dump_runqueues`, `md_dump_meminfo`, `md_dump_slabinfo`), and
  `md_kmsg_dump`: lists of lines into a `seq_buf` or the kernel's own buffer,
  with no control that a property could be about;
* the trace ring (`md_dump_trace_buf`, `minidump_add_trace_event`,
  `md_trace_oops_*`), `md_ipi_stop` and `md_get_present_module`: nothing in the
  repository registers or calls them;
* the KASLR store: three writes in a straight line that nothing here reads;
* what the driver core releases after a failed `mem_dump_alloc`, and the reuse of a
  region table it has freed after a failed probe; the NULL or zeroed header after
  a failed `msm_minidump_add_header`;
* the contents of a dump that a driver starts while the other CPUs run;
* `LogRegions` in resource-manager mode;
* build and packaging.

The order of the work was: the ELF header and the SMEM driver, as everything
else is a client of it, with its proofs; resource-manager mode; the memory dump
driver; the resizing of buffers; then the registry and the refinement, the log
as a client, the handlers, the contents of the dumps and the boot log; then the
proofs of section 4. Every safety property of a passing run is proved but
`ShowsConfigured`.
