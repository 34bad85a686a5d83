----------------------------- MODULE PanicDump -----------------------------
(***************************************************************************)
(* The die and panic handlers of minidump_log.c.  md_die_context_notify    *)
(* and md_dump_process write to buffers that msm_minidump_log_init         *)
(* registered, and keep out of each other's way with a plain flag,         *)
(* md_in_oops_handler: it is read and set in two steps, and another CPU    *)
(* may come between them.  md_handle_done is atomic.                       *)
(*                                                                         *)
(* Each CPU has a stack of frames; a frame is the place its function has   *)
(* arrived at.  A fault inside the dump puts a frame on top of it.         *)
(*                                                                         *)
(* External: the kernel runs the die notifiers under its die_lock with     *)
(* interrupts off; the first CPU to panic stops the ones that take         *)
(* interrupts and goes on without waiting for the others; a CPU that       *)
(* panics after it stops itself.  md_dump_process is exported, so a driver *)
(* outside the repository may call it at any time.                         *)
(*                                                                         *)
(* md_ipi_stop, the writer of regs_before_stop, is registered nowhere:     *)
(* md_dump_other_cpus_context prints headings without a context.           *)
(***************************************************************************)
EXTENDS Naturals, Sequences, FiniteSets

CONSTANTS
  CPUs, NoCpu,
  SlubDebug,          \* CONFIG_SLUB_DEBUG
  CntxtRoom,          \* contexts that fit into KCNTXT
  MaxFaults           \* bound: oopses, panics and driver calls

ASSUME PanicAssumption ==
  /\ IsFiniteSet(CPUs) /\ NoCpu \notin CPUs /\ SlubDebug \in BOOLEAN
  /\ CntxtRoom \in Nat /\ MaxFaults \in Nat

VARIABLES
  boot,               \* what msm_minidump_log_init does next
  live,               \* buffers allocated and not freed
  regions,            \* buffers that are regions of the minidump
  published,          \* buffers whose global pointer is set
  handlers,           \* notifiers registered
  md_in_oops_handler, md_handle_done, die_cpu,
  cntxt,              \* the contexts in KCNTXT, in order
  overflow,           \* its seq_buf has no room left
  sections,           \* the parts the dump has written
  stack,              \* the frames of each CPU, the running one first
  cause,              \* history: the fault each CPU handles
  faults,             \* history: how many there were
  killed,             \* history: a task was killed inside the dump
  dumps,              \* history: how often the body of the dump was entered
  raced,              \* history: two frames were between test and set at once
  die_lock, panic_cpu, stopped, down   \* external: the kernel's

boot_vars   == <<boot, live, regions, published, handlers>>
flag_vars   == <<md_in_oops_handler, md_handle_done, die_cpu, dumps, raced>>
text_vars   == <<cntxt, overflow, sections>>
kernel_vars == <<cause, faults, killed, die_lock, panic_cpu, stopped, down>>
vars == <<boot_vars, flag_vars, text_vars, kernel_vars, stack>>

-----------------------------------------------------------------------------
(* md_register_panic_data, in order; the memory dumps that follow are
   registered like them (DumpResize). *)
Buffers == <<"KRUNQUEUE", "KCNTXT", "MEMINFO">>
             \o (IF SlubDebug THEN <<"SLABINFO">> ELSE <<>>)
BufferSet == {Buffers[i] : i \in DOMAIN Buffers}

DieBody  == {"die_buf", "die_print", "die_clear"}
DumpBody == {"panic_regs", "others", "runqueues", "meminfo", "slabinfo", "memory", "clear"}
Places   == DieBody \cup DumpBody \cup
              {"die_test", "die_set", "died", "test", "claim", "set", "panicked"}

Running(c) == c \notin stopped /\ ~down
Idle(c)    == Running(c) /\ stack[c] = <<>>
At(c, p)   == Running(c) /\ stack[c] # <<>> /\ Head(stack[c]) = p

Goto(c, p)  == stack' = [stack EXCEPT ![c] = <<p>> \o Tail(@)]
Return(c)   == stack' = [stack EXCEPT ![c] = Tail(@)]
Call(c, ps) == stack' = [stack EXCEPT ![c] = ps \o @]

(* The frames, of any CPU, that are in one of these places. *)
Frames(ps) == UNION {{<<c, i>> : i \in {j \in DOMAIN stack[c] : stack[c][j] \in ps}} :
                       c \in CPUs}
Writers == Frames(DieBody \cup DumpBody)

Init ==
  /\ boot = <<1, "alloc">>
  /\ live = {} /\ regions = {} /\ published = {} /\ handlers = {}
  /\ md_in_oops_handler = FALSE /\ md_handle_done = 0 /\ die_cpu = NoCpu
  /\ cntxt = <<>> /\ overflow = FALSE /\ sections = {}
  /\ stack = [c \in CPUs |-> <<>>]
  /\ cause = [c \in CPUs |-> 0]
  /\ faults = 0 /\ killed = FALSE /\ dumps = 0 /\ raced = FALSE
  /\ die_lock = NoCpu /\ panic_cpu = NoCpu /\ stopped = {} /\ down = FALSE

-----------------------------------------------------------------------------
(* msm_minidump_log_init runs as a task on a CPU that is in no handler. *)
Booting(at) == boot[2] = at /\ \E c \in CPUs : Idle(c)

NextBuffer ==
  boot' = IF boot[1] < Len(Buffers) THEN <<boot[1] + 1, "alloc">> ELSE <<0, "panic">>

(* md_register_panic_entries: the buffer and its seq_buf ... *)
AllocBuffer ==
  /\ Booting("alloc")
  /\ \/ /\ live' = live \cup {Buffers[boot[1]]}
        /\ boot' = <<boot[1], "add">>
     \/ /\ NextBuffer                       \* no memory
        /\ UNCHANGED live
  /\ UNCHANGED <<regions, published, handlers, flag_vars, text_vars, kernel_vars, stack>>

(* Mutant of Refused: the buffers are freed although the pointer is set. *)
RefusedButPublished(b) == live' = live \ {b} /\ published' = published \cup {b}

(* err_entry_reg: the region was refused. *)
Refused(b) == live' = live \ {b} /\ UNCHANGED published

(* ... the region ... *)
AddEntry ==
  /\ Booting("add")
  /\ LET b == Buffers[boot[1]] IN
     \/ /\ regions' = regions \cup {b}
        /\ boot' = <<boot[1], "publish">>
        /\ UNCHANGED <<live, published>>
     \/ /\ Refused(b)
        /\ NextBuffer
        /\ UNCHANGED regions
  /\ UNCHANGED <<handlers, flag_vars, text_vars, kernel_vars, stack>>

(* ... and, after a barrier, the global pointer. *)
Publish ==
  /\ Booting("publish")
  /\ published' = published \cup {Buffers[boot[1]]}
  /\ NextBuffer
  /\ UNCHANGED <<live, regions, handlers, flag_vars, text_vars, kernel_vars, stack>>

(* The panic notifier, then the die notifier. *)
RegisterHandlers ==
  /\ \/ Booting("panic") /\ handlers' = {"panic"} /\ boot' = <<0, "die">>
     \/ Booting("die") /\ handlers' = {"panic", "die"} /\ boot' = <<0, "done">>
  /\ UNCHANGED <<live, regions, published, flag_vars, text_vars, kernel_vars, stack>>

-----------------------------------------------------------------------------
(* External: a fault gets to the die notifiers, from a task or from inside
   the dump. *)
Oops(c) ==
  /\ Idle(c) \/ \E p \in DumpBody : At(c, p)
  /\ die_lock = NoCpu /\ faults < MaxFaults
  /\ die_lock' = c
  /\ faults' = faults + 1 /\ cause' = [cause EXCEPT ![c] = faults + 1]
  /\ Call(c, IF "die" \in handlers THEN <<"die_test", "died">> ELSE <<"died">>)
  /\ UNCHANGED <<killed, panic_cpu, stopped, down, boot_vars, flag_vars, text_vars>>

(* External: the end of die(), outside interrupts and without panic_on_oops: the
   task is killed, with all it was doing.  Its CPU goes on with another. *)
Killed(c) ==
  /\ At(c, "died")
  /\ die_lock' = NoCpu
  /\ stack' = [stack EXCEPT ![c] = <<>>]
  /\ killed' = (killed \/ \E i \in DOMAIN stack[c] : stack[c][i] \in DumpBody)
  /\ UNCHANGED <<cause, faults, panic_cpu, stopped, down, boot_vars, flag_vars, text_vars>>

(* External: the end of die() otherwise, the kernel panics. *)
Died(c) ==
  /\ At(c, "died")
  /\ \/ /\ panic_cpu \in {NoCpu, c}
        /\ panic_cpu' = c
        /\ stack' = [stack EXCEPT ![c] =
             (IF "panic" \in handlers THEN <<"test", "panicked">> ELSE <<"panicked">>)
             \o Tail(@)]
        /\ UNCHANGED stopped
     \/ /\ panic_cpu \notin {NoCpu, c}
        /\ stopped' = stopped \cup {c}
        /\ UNCHANGED <<panic_cpu, stack>>
  /\ UNCHANGED <<cause, faults, killed, die_lock, down, boot_vars, flag_vars, text_vars>>

(* External: panic() without an oops. *)
Panic(c) ==
  /\ Idle(c)
  /\ faults < MaxFaults
  /\ panic_cpu \in {NoCpu, c}
  /\ panic_cpu' = c
  /\ faults' = faults + 1 /\ cause' = [cause EXCEPT ![c] = faults + 1]
  /\ Call(c, IF "panic" \in handlers THEN <<"test", "panicked">> ELSE <<"panicked">>)
  /\ UNCHANGED <<killed, die_lock, stopped, down, boot_vars, flag_vars, text_vars>>

(* External: the CPU that panicked stops one that takes its interrupt, be it in
   the middle of a dump that a driver has started. *)
StopCpu(c) ==
  /\ panic_cpu \notin {NoCpu, c}
  /\ Running(c)
  /\ \A i \in DOMAIN stack[c] : stack[c][i] \notin {"died", "panicked"}
  /\ stopped' = stopped \cup {c}
  /\ UNCHANGED <<cause, faults, killed, die_lock, panic_cpu, down, boot_vars, flag_vars,
                 text_vars, stack>>

(* External: the end of panic(), the system resets. *)
Reset(c) ==
  /\ At(c, "panicked")
  /\ down' = TRUE
  /\ UNCHANGED <<cause, faults, killed, die_lock, panic_cpu, stopped, boot_vars, flag_vars,
                 text_vars, stack>>

(* External: a driver calls md_dump_process. *)
CallDump(c) ==
  /\ Idle(c)
  /\ faults < MaxFaults
  /\ faults' = faults + 1 /\ cause' = [cause EXCEPT ![c] = faults + 1]
  /\ Call(c, <<"test">>)
  /\ UNCHANGED <<killed, die_lock, panic_cpu, stopped, down, boot_vars, flag_vars, text_vars>>

-----------------------------------------------------------------------------
(* md_in_oops_handler = true, a plain store: another frame may have tested the
   flag and not yet set it. *)
SetFlag ==
  /\ raced' = (raced \/ Cardinality(Frames({"die_set", "claim", "set"})) > 1)
  /\ md_in_oops_handler' = TRUE

(* md_reg_context_data and its heading, 32 pages for all contexts together.
   seq_buf has no lock: of two writers at once one may overwrite the other. *)
PutContext(r) ==
  \/ /\ Len(cntxt) < CntxtRoom
     /\ cntxt' = Append(cntxt, r)
     /\ UNCHANGED overflow
  \/ /\ Len(cntxt) = CntxtRoom
     /\ overflow' = TRUE
     /\ UNCHANGED cntxt
  \/ /\ Cardinality(Writers) > 1
     /\ UNCHANGED <<cntxt, overflow>>

(* md_die_context_notify: if (md_in_oops_handler) return. *)
DieTest(c) ==
  /\ At(c, "die_test")
  /\ IF md_in_oops_handler THEN Return(c) ELSE Goto(c, "die_set")
  /\ UNCHANGED <<boot_vars, flag_vars, text_vars, kernel_vars>>

DieSet(c) ==
  /\ At(c, "die_set")
  /\ SetFlag
  /\ Goto(c, "die_buf")
  /\ UNCHANGED <<md_handle_done, die_cpu, dumps, boot_vars, text_vars, kernel_vars>>

(* Mutant of NoDieBuf: the flag stays set. *)
NoDieBufKept == UNCHANGED <<md_in_oops_handler, die_cpu>>

(* Without a buffer the flag is cleared and nothing is printed. *)
NoDieBuf == md_in_oops_handler' = FALSE /\ UNCHANGED die_cpu

DieBuf(c) ==
  /\ At(c, "die_buf")
  /\ \/ /\ "KCNTXT" \notin published
        /\ NoDieBuf
        /\ Return(c)
     \/ /\ "KCNTXT" \in published
        /\ die_cpu' = c
        /\ Goto(c, "die_print")
        /\ UNCHANGED md_in_oops_handler
  /\ UNCHANGED <<md_handle_done, dumps, raced, boot_vars, text_vars, kernel_vars>>

DiePrint(c) ==
  /\ At(c, "die_print")
  /\ PutContext([kind |-> "die", cpu |-> c, fault |-> cause[c]])
  /\ Goto(c, "die_clear")
  /\ UNCHANGED <<sections, boot_vars, flag_vars, kernel_vars>>

DieClear(c) ==
  /\ At(c, "die_clear")
  /\ md_in_oops_handler' = FALSE
  /\ Return(c)
  /\ UNCHANGED <<md_handle_done, die_cpu, dumps, raced, boot_vars, text_vars, kernel_vars>>

-----------------------------------------------------------------------------
(* Mutant of Busy: the flag is not tested. *)
BusyNever == FALSE

(* Another handler is at work. *)
Busy == md_in_oops_handler

(* md_dump_process: if (md_in_oops_handler) return. *)
DumpTest(c) ==
  /\ At(c, "test")
  /\ IF Busy THEN Return(c) ELSE Goto(c, "claim")
  /\ UNCHANGED <<boot_vars, flag_vars, text_vars, kernel_vars>>

(* Mutant of MayClaim: the counter is not limited. *)
MayClaimAgain == TRUE

(* atomic_add_unless(&md_handle_done, 1, 1). *)
MayClaim == md_handle_done # 1

DumpClaim(c) ==
  /\ At(c, "claim")
  /\ \/ MayClaim /\ md_handle_done' = 1 /\ Goto(c, "set")
     \/ ~MayClaim /\ Return(c) /\ UNCHANGED md_handle_done
  /\ UNCHANGED <<md_in_oops_handler, die_cpu, dumps, raced, boot_vars, text_vars,
                 kernel_vars>>

DumpSet(c) ==
  /\ At(c, "set")
  /\ SetFlag
  /\ dumps' = dumps + 1
  /\ Goto(c, IF "KCNTXT" \in published THEN "panic_regs" ELSE "runqueues")
  /\ UNCHANGED <<md_handle_done, die_cpu, boot_vars, text_vars, kernel_vars>>

(* Mutant of Shown: any earlier oops will do. *)
ShownAny(c) == die_cpu # NoCpu

(* The context of this CPU is in the buffer already. *)
Shown(c) == die_cpu = c

(* md_dump_panic_regs, unless this CPU died. *)
DumpPanicRegs(c) ==
  /\ At(c, "panic_regs")
  /\ \/ Shown(c) /\ UNCHANGED <<cntxt, overflow>>
     \/ ~Shown(c) /\ PutContext([kind |-> "panic", cpu |-> c, fault |-> cause[c]])
  /\ Goto(c, "others")
  /\ UNCHANGED <<sections, boot_vars, flag_vars, kernel_vars>>

(* The parts of the dump, in order, each into its own buffer. *)
NextPart == [others |-> "runqueues", runqueues |-> "meminfo", meminfo |-> "slabinfo",
             slabinfo |-> "memory", memory |-> "clear"]
BufferOf == [others |-> "KCNTXT", runqueues |-> "KRUNQUEUE", meminfo |-> "MEMINFO",
             slabinfo |-> "SLABINFO"]

(* md_dump_other_cpus_context, md_dump_runqueues, md_dump_meminfo,
   md_dump_slabinfo, and the memory dumps (MemoryDumps). *)
DumpPart(c, p) ==
  /\ At(c, p)
  /\ sections' = IF p = "memory" \/ BufferOf[p] \in published THEN sections \cup {p}
                 ELSE sections
  /\ Goto(c, NextPart[p])
  /\ UNCHANGED <<cntxt, overflow, boot_vars, flag_vars, kernel_vars>>

DumpClear(c) ==
  /\ At(c, "clear")
  /\ md_in_oops_handler' = FALSE
  /\ Return(c)
  /\ UNCHANGED <<md_handle_done, die_cpu, dumps, raced, boot_vars, text_vars, kernel_vars>>

-----------------------------------------------------------------------------
Boot == AllocBuffer \/ AddEntry \/ Publish \/ RegisterHandlers

Die(c) == DieTest(c) \/ DieSet(c) \/ DieBuf(c) \/ DiePrint(c) \/ DieClear(c)

Dump(c) == \/ DumpTest(c) \/ DumpClaim(c) \/ DumpSet(c) \/ DumpPanicRegs(c)
           \/ \E p \in DOMAIN NextPart : DumpPart(c, p)
           \/ DumpClear(c)

Kernel(c) == Oops(c) \/ Killed(c) \/ Died(c) \/ Panic(c) \/ StopCpu(c) \/ Reset(c) \/ CallDump(c)

Next == Boot \/ \E c \in CPUs : Die(c) \/ Dump(c) \/ Kernel(c)

Spec == Init /\ [][Next]_vars

-----------------------------------------------------------------------------
(* Type invariant of the handlers. *)
TypeOK ==
  /\ boot \in (1..Len(Buffers)) \X {"alloc", "add", "publish"}
                \cup {0} \X {"panic", "die", "done"}
  /\ live \subseteq BufferSet /\ regions \subseteq BufferSet /\ published \subseteq BufferSet
  /\ handlers \subseteq {"panic", "die"}
  /\ md_in_oops_handler \in BOOLEAN /\ md_handle_done \in {0, 1}
  /\ die_cpu \in CPUs \cup {NoCpu}
  /\ cntxt \in Seq([kind : {"die", "panic"}, cpu : CPUs, fault : 1..MaxFaults])
  /\ Len(cntxt) <= CntxtRoom
  /\ overflow \in BOOLEAN /\ raced \in BOOLEAN /\ killed \in BOOLEAN /\ down \in BOOLEAN
  /\ sections \subseteq DOMAIN NextPart
  /\ \A c \in CPUs : stack[c] \in Seq(Places)
  /\ cause \in [CPUs -> 0..MaxFaults] /\ faults \in 0..MaxFaults
  /\ dumps \in Nat
  /\ die_lock \in CPUs \cup {NoCpu} /\ panic_cpu \in CPUs \cup {NoCpu}
  /\ stopped \subseteq CPUs

(* The buffers are written for one dump only, however many CPUs panic or call
   md_dump_process, and whatever faults inside it. *)
DumpedOnce == dumps <= 1

(* Unless two CPUs both saw the flag clear before either set it, at most one
   handler writes: neither another CPU's nor, after a fault in the dump, the
   same CPU's once more. *)
OneWriter == raced \/ Cardinality(Writers) <= 1

(* A flag that is set belongs to a handler that has not ended, or was left
   behind by a task that was killed inside the dump.  Such a task leaves it for
   good, unless CPUs raced: it turns away every later oops and the dump of every
   later panic, and nobody writes any more. *)
FlagMeansWriter ==
  /\ md_in_oops_handler => Writers # {} \/ killed
  /\ killed /\ ~raced => md_in_oops_handler /\ Writers = {}

(* A dump with a context buffer never leaves out the CPU it runs on: there is
   a context of that CPU, if only from an earlier oops, unless the buffer is
   full or writers raced. *)
OwnContext ==
  \A c \in CPUs : "others" \in sections /\ At(c, "runqueues")
    => overflow \/ raced \/ \E i \in DOMAIN cntxt : cntxt[i].cpu = c

(* What a handler may write to is memory that is not freed and that the boot
   loader collects; between two registrations nothing else is allocated. *)
BuffersOwned ==
  /\ published \subseteq regions /\ regions \subseteq live
  /\ boot[2] \notin {"add", "publish"} => live = published

-----------------------------------------------------------------------------
(* Refuted: the context in the dump is that of the panic, not of an oops the
   same CPU survived before (die_cpu is never reset). *)
FreshContext ==
  \A c \in CPUs : "others" \in sections /\ At(c, "runqueues")
    => overflow \/ raced \/ \E i \in DOMAIN cntxt :
                               cntxt[i].cpu = c /\ cntxt[i].fault = cause[c]

(* Refuted: a panic with the notifier registered leaves a dump.  When another
   CPU is in its die notifier just then, md_dump_process returns, and no other
   CPU will call it. *)
PanicDumped == down /\ "panic" \in handlers /\ boot[2] = "done" => md_handle_done = 1

(* Refuted: the flag keeps writers apart. *)
NeverRaced == ~raced
=============================================================================
