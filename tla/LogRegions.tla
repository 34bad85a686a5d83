----------------------------- MODULE LogRegions -----------------------------
(***************************************************************************)
(* minidump_log.c as a client of the SMEM driver (MinidumpSmem): the probe *)
(* ends in msm_minidump_log_init, which registers the log's regions in a   *)
(* fixed order.  From then on every context switch moves the regions of    *)
(* the CPU's stack to the task that runs next, a suspend moves the suspend *)
(* regions, a key module that comes live gets a region for each page of    *)
(* its data, and a memory dump is removed and added again when its size is *)
(* changed (DumpResize).  Other drivers register their regions whenever    *)
(* they come up, also before the probe drains them (memory_dump_v2.c).     *)
(* With a probe that fails there is no log, so it is left out here.        *)
(*                                                                         *)
(* Each add, update and remove is a step of the driver; other CPUs come    *)
(* between the pages of one stack.  The scheduler hook and the interrupt   *)
(* run with interrupts off, so a CPU does nothing else before its update   *)
(* is complete.  Stacks are mapped page by page (CONFIG_VMAP_STACK).       *)
(*                                                                         *)
(* External: tasks, and which CPU runs which of them.                      *)
(***************************************************************************)
EXTENDS MinidumpSmem

CONSTANTS
  NCpu, StackPages,   \* STACK_NUM_PAGES
  Tasks, InitTask, IdleTask,
  StackOf,            \* physical address of each page of a task's stack
  TaskAt,             \* and of its task_struct
  KSTACK, KSUSPSTK,   \* region names by CPU and page, by page
  KSUSPTASK, KMSG, KFTRACE,
  PstoreRegions,      \* what register_pstore_info adds
  TraceBuf, MsgBuf,   \* regions of md_register_trace_buf, md_kmsg_dump_register
  ModulesBuf,         \* and of md_register_module_data
  PanicRegions,       \* what md_register_panic_data adds
  DumpName, DumpRegions,   \* a memory dump and where it may be
  ModulePages, ModuleName, ModulePlaces, \* a key module
  WholePages,         \* its size in pages, rounded down
  MaxLoads,           \* bound: loads of that module
  ClientRegions       \* what other drivers add

CPUs == 0..NCpu - 1

ASSUME LogAssumption ==
  /\ NCpu \in Nat \ {0} /\ StackPages \in Nat \ {0}
  /\ InitTask \in Tasks /\ IdleTask \notin Tasks
  /\ StackOf \in [Tasks -> [1..StackPages -> Nat]] /\ TaskAt \in [Tasks -> Nat]
  /\ KSTACK \in [CPUs -> [1..StackPages -> Names]] /\ KSUSPSTK \in [1..StackPages -> Names]
  /\ {KSUSPTASK, KMSG, KFTRACE, DumpName} \subseteq Names
  /\ WholePages \in Nat /\ ModulePages \in WholePages..WholePages + 2
  /\ ModuleName \in [1..ModulePages -> Names] /\ MaxLoads \in Nat

VARIABLES
  todo,               \* what msm_minidump_log_init has still to do
  hooked,             \* md_current_stack_notifer is registered
  md_current_stack_init,
  susp_init,          \* md_suspend_context.init
  watched,            \* md_module_nb is registered
  current,            \* the task each CPU runs
  upd,                \* the updates each CPU has still to do
  ipi,                \* CPUs that md_current_stack_ipi_handler is still to run on
  susp, susp_task,    \* the updates of a suspend still to do, and who does them
  module,             \* where the key module is, 0 when it is not loaded
  module_todo,        \* its pages still to register
  loads,              \* how often it was loaded
  intruded            \* history: something else was registered meanwhile

init_vars   == <<todo, hooked, md_current_stack_init, susp_init, watched>>
stack_vars  == <<current, upd, ipi, susp, susp_task>>
module_vars == <<module, module_todo, loads, intruded>>
log_vars    == <<init_vars, stack_vars, module_vars>>

PageSize == 4

PageRegion(n, page) ==
  [name |-> n, virt_addr |-> page + 1, phys_addr |-> page, size |-> PageSize]

(* The regions of a stack, once it is a given task's. *)
StackRegions(names, t) == [p \in 1..StackPages |-> PageRegion(names[p], StackOf[t][p])]

TaskRegion(t) == PageRegion(KSUSPTASK, TaskAt[t])

Step(op) == [op |-> op, e |-> NoRegion]
Adds(es) == [i \in DOMAIN es |-> [op |-> "add", e |-> es[i]]]

(* register_current_stack registers the stack of the task it runs in as a
   dummy for every CPU. *)
CpuStackRegions ==
  [i \in 1..NCpu * StackPages |->
     LET c == (i - 1) \div StackPages
     IN StackRegions(KSTACK[c], InitTask)[i - c * StackPages]]

(* Mutant of StackPart: the other CPUs are not told to update their dummies. *)
StackPartNoIpi == Adds(CpuStackRegions) \o <<Step("hook"), Step("flag")>>

(* register_current_stack. *)
StackPart == Adds(CpuStackRegions) \o <<Step("hook"), Step("flag"), Step("ipi"), Step("wait")>>

(* register_suspend_context. *)
SuspendPart == Adds(StackRegions(KSUSPSTK, InitTask)) \o Adds(<<TaskRegion(InitTask)>>)
                 \o <<Step("susp")>>

(* register_pstore_info: a region for each part of ramoops that has a size. *)
PstorePart == Adds(PstoreRegions)

(* md_register_trace_buf, whatever becomes of the region. *)
TracePart == Adds(<<TraceBuf>>)

(* md_register_module_data, and md_register_panic_data with the memory dump
   last. *)
PanicPart ==
  Adds(<<ModulesBuf>>) \o <<Step("modules")>> \o Adds(PanicRegions) \o <<Step("dump")>>

(* Mutant of LogInit: the memory dumps are registered first. *)
LogInitDumpsFirst ==
  Adds(<<MsgBuf>>) \o PanicPart \o StackPart \o SuspendPart
    \o PstorePart \o TracePart

(* msm_minidump_log_init. *)
LogInit ==
  Adds(<<MsgBuf>>) \o StackPart \o SuspendPart
    \o PstorePart \o TracePart \o PanicPart

LInit ==
  /\ Init
  /\ todo = LogInit
  /\ hooked = FALSE /\ md_current_stack_init = FALSE
  /\ susp_init = FALSE /\ watched = FALSE
  /\ current = [c \in CPUs |-> IF c = 0 THEN InitTask ELSE IdleTask]
  /\ upd = [c \in CPUs |-> <<>>]
  /\ ipi = {} /\ susp = <<>> /\ susp_task = InitTask
  /\ module = 0 /\ module_todo = <<>> /\ loads = 0 /\ intruded = FALSE

-----------------------------------------------------------------------------
(* msm_minidump_add_region, which may refuse. *)
TryAdd(e) ==
  \/ AddRegion(e)
  \/ /\ ~(ValidateRegion(e) /\ CanAdd(e))
     /\ UNCHANGED vars

(* Every page of a stack has its number; update_md_stack does nothing else. *)
Registered(names) == \A p \in 1..StackPages : regno[names[p]] # NotRegistered

Runs(t) == \E c \in CPUs : current[c] = t /\ upd[c] = <<>>

Doing(op) == todo # <<>> /\ Head(todo).op = op /\ Runs(InitTask)

Intrude == intruded' = (intruded \/ module_todo # <<>>)

ProbeStep ==
  /\ ProbeTable \/ ProbeEnable \/ DrainRegion \/ ProbeUnlock \/ ProbeDone
  /\ UNCHANGED log_vars

(* One region of the log.  When KMSG is refused nothing more is registered. *)
LogAdd ==
  /\ MdInitDone
  /\ Doing("add")
  /\ LET e == Head(todo).e IN
     /\ TryAdd(e)
     /\ todo' = IF e.name = KMSG /\ num_regions' = num_regions THEN <<>> ELSE Tail(todo)
  /\ Intrude
  /\ UNCHANGED <<hooked, md_current_stack_init, susp_init, watched, stack_vars,
                 module, module_todo, loads>>

(* register_trace_sched_switch, md_current_stack_init = 1,
   md_suspend_context.init = true, and register_module_notifier if KMODULES
   was registered (it is nobody else's name). *)
LogFlag ==
  /\ \/ Doing("hook") /\ hooked' = TRUE /\ UNCHANGED <<md_current_stack_init, susp_init, watched>>
     \/ Doing("flag") /\ md_current_stack_init' = TRUE /\ UNCHANGED <<hooked, susp_init, watched>>
     \/ Doing("susp") /\ susp_init' = TRUE /\ UNCHANGED <<hooked, md_current_stack_init, watched>>
     \/ /\ Doing("modules")
        /\ watched' = (regno[ModulesBuf.name] # NotRegistered)
        /\ UNCHANGED <<hooked, md_current_stack_init, susp_init>>
  /\ todo' = Tail(todo)
  /\ UNCHANGED <<vars, stack_vars, module_vars>>

(* smp_call_function interrupts the other CPUs and waits for them. *)
LogIpi ==
  /\ \/ Doing("ipi") /\ \E c \in CPUs : current[c] = InitTask /\ ipi' = CPUs \ {c}
     \/ Doing("wait") /\ ipi = {} /\ UNCHANGED ipi
  /\ todo' = Tail(todo)
  /\ UNCHANGED <<vars, hooked, md_current_stack_init, susp_init, watched, current, upd,
                 susp, susp_task, module_vars>>

(* md_register_memory_dump at boot. *)
LogDump ==
  /\ Doing("dump")
  /\ \E e \in DumpRegions : TryAdd(e)
  /\ todo' = Tail(todo)
  /\ Intrude
  /\ UNCHANGED <<hooked, md_current_stack_init, susp_init, watched, stack_vars,
                 module, module_todo, loads>>

-----------------------------------------------------------------------------
(* update_md_cpu_stack. *)
CpuStackUpdate(c, t) ==
  IF t # IdleTask /\ md_current_stack_init /\ Registered(KSTACK[c])
  THEN StackRegions(KSTACK[c], t) ELSE <<>>

Preemptible(c) ==
  /\ upd[c] = <<>>
  /\ ~(todo # <<>> /\ Head(todo).op = "wait" /\ current[c] = InitTask)

(* A context switch, md_current_stack_notifer included. *)
Switch(c, t) ==
  /\ Preemptible(c)
  /\ t # current[c]
  /\ t = IdleTask \/ \A d \in CPUs : current[d] # t
  /\ current' = [current EXCEPT ![c] = t]
  /\ upd' = [upd EXCEPT ![c] = IF hooked THEN CpuStackUpdate(c, t) ELSE <<>>]
  /\ UNCHANGED <<vars, init_vars, ipi, susp, susp_task, module_vars>>

(* md_current_stack_ipi_handler. *)
Ipi(c) ==
  /\ c \in ipi
  /\ upd[c] = <<>>
  /\ ipi' = ipi \ {c}
  /\ upd' = [upd EXCEPT ![c] = CpuStackUpdate(c, current[c])]
  /\ UNCHANGED <<vars, init_vars, current, susp, susp_task, module_vars>>

(* update_stack_entry, one page. *)
UpdatePage(c) ==
  /\ upd[c] # <<>>
  /\ UpdateRegion(Head(upd[c]))
  /\ upd' = [upd EXCEPT ![c] = Tail(@)]
  /\ UNCHANGED <<init_vars, current, ipi, susp, susp_task, module_vars>>

(* update_md_suspend_currents: stack and task, each if it has its number. *)
SuspendUpdate(t) ==
  (IF Registered(KSUSPSTK) THEN StackRegions(KSUSPSTK, t) ELSE <<>>)
    \o (IF regno[KSUSPTASK] # NotRegistered THEN <<TaskRegion(t)>> ELSE <<>>)

(* PM_SUSPEND_PREPARE, in the task that suspends. *)
Suspend(t) ==
  /\ susp_init /\ susp = <<>>
  /\ Runs(t)
  /\ susp' = SuspendUpdate(t)
  /\ susp_task' = t
  /\ UNCHANGED <<vars, init_vars, current, upd, ipi, module_vars>>

SuspendPage ==
  /\ susp # <<>>
  /\ Runs(susp_task)
  /\ UpdateRegion(Head(susp))
  /\ susp' = Tail(susp)
  /\ UNCHANGED <<init_vars, current, upd, ipi, susp_task, module_vars>>

-----------------------------------------------------------------------------
(* Mutant of Room: one page too many. *)
RoomOne == WholePages <= MAX_NUM_ENTRIES - num_regions

(* msm_minidump_get_available_region leaves one slot, which is the one the ELF
   header has in the table of contents.  The size is divided down, so data that
   begins or ends within a page may have up to two pages more than asked for. *)
Room == WholePages < MAX_NUM_ENTRIES - num_regions

(* md_module_notify for a key module that is live: its pages, if there is room
   for all of them just now. *)
LoadModule(place) ==
  /\ watched
  /\ MdInitDone
  /\ module = 0 /\ module_todo = <<>> /\ loads < MaxLoads
  /\ module' = place
  /\ loads' = loads + 1
  /\ module_todo' = IF Room
                    THEN [p \in 1..ModulePages |->
                            PageRegion(ModuleName[p], place + (p - 1) * PageSize)]
                    ELSE <<>>
  /\ UNCHANGED <<vars, init_vars, stack_vars, intruded>>

(* register_vmap_mem, one page; the result is not looked at. *)
ModulePage ==
  /\ module_todo # <<>>
  /\ TryAdd(Head(module_todo))
  /\ module_todo' = Tail(module_todo)
  /\ UNCHANGED <<init_vars, stack_vars, module, loads, intruded>>

(* The notifier ignores a module that goes: its regions stay. *)
UnloadModule ==
  /\ module # 0 /\ module_todo = <<>>
  /\ module' = 0
  /\ UNCHANGED <<vars, init_vars, stack_vars, module_todo, loads, intruded>>

(* update_dump_size: the old region goes, then the new one comes. *)
RemoveDump ==
  /\ MdInitDone
  /\ EntrySlots(DumpName) # {}
  /\ RemoveRegion(GetRegion(DumpName))
  /\ UNCHANGED log_vars

AddDump ==
  /\ todo = <<>> /\ MdInitDone
  /\ EntrySlots(DumpName) = {}
  /\ \E e \in DumpRegions : TryAdd(e)
  /\ Intrude
  /\ UNCHANGED <<init_vars, stack_vars, module, module_todo, loads>>

(* msm_minidump_add_region of another driver. *)
ClientAdd ==
  /\ \E e \in ClientRegions : AddPending(e) \/ (Enabled /\ TryAdd(e))
  /\ Intrude
  /\ UNCHANGED <<init_vars, stack_vars, module, module_todo, loads>>

-----------------------------------------------------------------------------
LogStep   == LogAdd \/ LogFlag \/ LogIpi \/ LogDump
StackStep == \/ \E c \in CPUs : \/ \E t \in Tasks \cup {IdleTask} : Switch(c, t)
                                \/ Ipi(c) \/ UpdatePage(c)
             \/ \E t \in Tasks : Suspend(t)
             \/ SuspendPage
ModuleStep == \/ \E place \in ModulePlaces : LoadModule(place)
              \/ ModulePage \/ UnloadModule

LNext ==
  ProbeStep \/ LogStep \/ StackStep \/ ModuleStep \/ RemoveDump \/ AddDump \/ ClientAdd

LSpec == LInit /\ [][LNext]_<<vars, log_vars>>

-----------------------------------------------------------------------------
(* What the proofs assume of the constants (TLC evaluates it in MCLogRegions):
   the regions the log uses are among those the driver is looked at with. *)
RegionsKnown ==
  /\ PstoreRegions \in Seq(Regions) /\ PanicRegions \in Seq(Regions)
  /\ {MsgBuf, TraceBuf, ModulesBuf} \cup DumpRegions \cup ClientRegions \subseteq Regions
  /\ \A t \in Tasks :
       /\ TaskRegion(t) \in Regions
       /\ \A p \in 1..StackPages :
            /\ PageRegion(KSUSPSTK[p], StackOf[t][p]) \in Regions
            /\ \A c \in CPUs : PageRegion(KSTACK[c][p], StackOf[t][p]) \in Regions
  /\ \A place \in ModulePlaces, p \in 1..ModulePages :
       PageRegion(ModuleName[p], place + (p - 1) * PageSize) \in Regions

StackNames   == {KSTACK[c][p] : c \in CPUs, p \in 1..StackPages}
SuspendNames == {KSUSPSTK[p] : p \in 1..StackPages} \cup {KSUSPTASK}
ModuleNames  == {ModuleName[p] : p \in 1..ModulePages}
OtherNames   == {e.name : e \in {PstoreRegions[i] : i \in DOMAIN PstoreRegions}
                               \cup {PanicRegions[i] : i \in DOMAIN PanicRegions}
                               \cup {TraceBuf, ModulesBuf} \cup ClientRegions}

(* Names say what a region is for.  Only pstore, the trace buffer, the panic
   data and other drivers may have a name in common (pstore and the trace buffer
   do: KFTRACE). *)
NamesApart ==
  /\ MsgBuf.name = KMSG
  /\ \A e \in DumpRegions : e.name = DumpName
  /\ \A c, d \in CPUs, p, q \in 1..StackPages : KSTACK[c][p] = KSTACK[d][q] => c = d /\ p = q
  /\ \A p, q \in 1..StackPages : KSUSPSTK[p] = KSUSPSTK[q] => p = q
  /\ \A p \in 1..StackPages : KSUSPSTK[p] # KSUSPTASK
  /\ \A p, q \in 1..ModulePages : ModuleName[p] = ModuleName[q] => p = q
  /\ DumpName # KMSG /\ StackNames \cap SuspendNames = {}
  /\ {KMSG, DumpName} \cap (StackNames \cup SuspendNames \cup ModuleNames \cup OtherNames) = {}
  /\ (ModuleNames \cup OtherNames) \cap (StackNames \cup SuspendNames) = {}
  /\ ModuleNames \cap OtherNames = {}

(* The memory of the dump, which cma_alloc gave out, is nobody else's. *)
DumpApart == \A d \in DumpRegions, e \in Regions : e.name # DumpName => e.phys_addr # d.phys_addr

(* validate_region has nothing against the pages of the module. *)
ModuleValid ==
  \A place \in ModulePlaces, p \in 1..ModulePages :
    ValidateRegion(PageRegion(ModuleName[p], place + (p - 1) * PageSize))

-----------------------------------------------------------------------------
(* What the boot loader finds under a name. *)
Collects(n, page) ==
  \E i \in 1..ss_region_count - 1 : /\ md_regions[i].name = n
                                    /\ md_regions[i].region_base_address = page

Settled(c) == upd[c] = <<>> /\ c \notin ipi /\ \A i \in DOMAIN todo :
                todo[i].op \notin {"hook", "flag", "ipi"}

CpuStacksCurrent ==
  \A c \in CPUs :
    Settled(c) /\ current[c] # IdleTask /\ Registered(KSTACK[c])
      => \A p \in 1..StackPages : Collects(KSTACK[c][p], StackOf[current[c]][p])

SuspendAgrees ==
  susp_init /\ susp = <<>> /\ Registered(KSUSPSTK) /\ regno[KSUSPTASK] # NotRegistered
    => \E t \in Tasks : /\ \A p \in 1..StackPages : Collects(KSUSPSTK[p], StackOf[t][p])
                        /\ Collects(KSUSPTASK, TaskAt[t])

(* A CPU that is between two context switches has the whole stack of its own
   task in the minidump: also the CPUs that were busy while only dummies were
   registered, and the CPU the registration itself ran on.  And stack and task
   of the suspend regions belong to one task. *)
StacksCurrent == CpuStacksCurrent /\ SuspendAgrees

(* In the system the repository builds no update is refused as moved: all that
   is ever removed was registered after everything that is updated.  Nor does a
   remove break the minidump, as what is removed shares its memory with nothing,
   unless the sections have run into the program headers or another driver was
   early: the numbers of the headers are off by one from then on. *)
CallsNeverFail ==
  /\ "update" \notin faults
  /\ "remove" \in faults => faults \cap {"overlap", "early"} # {}

(* A key module has all its pages in the minidump or none, unless something
   else was registered while its pages were. *)
ModulesWhole ==
  module_todo = <<>> /\ ~intruded
    => {EntrySlots(ModuleName[p]) = {} : p \in 1..ModulePages} # BOOLEAN

-----------------------------------------------------------------------------
(* Refuted: the same, whoever else registers (the room is looked up under
   mdt_lock, which is free again before the first page is added). *)
ModulesAlwaysWhole ==
  module_todo = <<>>
    => {EntrySlots(ModuleName[p]) = {} : p \in 1..ModulePages} # BOOLEAN

(* Refuted: the regions of a key module are where it is.  They stay when it
   goes, and when it comes back elsewhere its names are taken. *)
ModuleCurrent ==
  module # 0 /\ module_todo = <<>>
    => \A p \in 1..ModulePages : EntrySlots(ModuleName[p]) # {}
          => Collects(ModuleName[p], module + (p - 1) * PageSize)

(* Refuted: "Complete registration before adding enteries"
   (minidump_log.c:595).  The buffer is handed out when its registration was
   refused too, as pstore has a region of that name. *)
TraceBufCollected ==
  MdInitDone /\ todo = <<>> => Collects(KFTRACE, TraceBuf.phys_addr)
=============================================================================
