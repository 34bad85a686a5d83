----------------------------- MODULE DmaBufDump -----------------------------
(***************************************************************************)
(* The two dma-buf dumps of minidump_memory.c.  md_dma_buf_info lists all  *)
(* buffers with their fences and attached devices; md_dma_buf_procs lists, *)
(* process by process, the buffers its threads have open.                  *)
(*                                                                         *)
(* All lines have the same length.  A dump is over when its region is full *)
(* to the last byte but one.                                               *)
(***************************************************************************)
EXTENDS DumpText, SequencesExt, FiniteSets

CONSTANTS
  DmaSizes,      \* sizes of the two regions
  LineLen,       \* length of a line
  BufKinds,      \* buffers md_dma_buf_info may meet
  MaxBufs,       \* bound: buffers it meets
  FdTable,       \* files_struct -> the dma-bufs open in it
  BufHash,       \* dma-buf -> its place in dma_buf_hash
  ProcKinds,     \* processes md_dma_buf_procs may meet
  MaxProcs,      \* bound: processes it meets
  NoFiles        \* files of a thread that has exited

VARIABLES
  dma_size,      \* size of the region being filled
  di_offset,
  di_at,         \* where dump_bufinfo is
  di_buf,        \* the buffer it lists, its fences and devices to come
  di_left,       \* buffers left (bound)
  dp_offset,
  dp_ret,        \* ret of md_dma_buf_procs
  dp_count,      \* dma_buf_priv.count
  dma_buf_hash,  \* the places that are taken
  dp_proc,       \* the process being listed, its threads and files to come
  dp_left,
  dp_err,        \* the walk left through err
  dp_log,        \* history: process number and buffer of each entry listed
  dp_open        \* history: what the processes visited have open

di_vars == <<di_offset, di_at, di_buf, di_left>>
dp_vars == <<dp_offset, dp_ret, dp_count, dma_buf_hash, dp_proc, dp_left,
             dp_err, dp_log, dp_open>>

Files == DOMAIN FdTable
Bufs == DOMAIN BufHash

BufKind == [excl : BOOLEAN, shared : Nat, attached : Nat]

(* The first thread is the group leader. *)
ProcKind == Seq(Files \cup {NoFiles}) \ {<<>>}

ASSUME DmaAssumption ==
  /\ DmaSizes \subseteq Nat \ {0} /\ LineLen \in Nat \ {0}
  /\ MaxProcs \in Nat /\ NoFiles \notin Files
  /\ \A b \in BufKinds : b \in BufKind
  /\ \A p \in ProcKinds : p \in ProcKind
  /\ \A f \in Files : FdTable[f] \in Seq(Bufs)

NoBuf == [excl |-> FALSE, shared |-> 0, attached |-> 0]

NoProc == [threads |-> <<>>, fds |-> <<>>, leader |-> NoFiles,
           group_leader_files |-> NoFiles, first |-> FALSE, in |-> FALSE]

DInit ==
  /\ dma_size \in DmaSizes
  /\ di_offset = 0 /\ di_at = "start" /\ di_buf = NoBuf /\ di_left = MaxBufs
  /\ dp_offset = 0 /\ dp_ret = 0 /\ dp_count = 0
  /\ dma_buf_hash = {}
  /\ dp_proc = NoProc
  /\ dp_left = MaxProcs
  /\ dp_err = FALSE
  /\ dp_log = <<>>
  /\ dp_open = {}

(* The offset after k more lines. *)
After(offset, k) == offset + Printed(k * LineLen, dma_size - offset)

Full(offset) == offset = dma_size - 1

-----------------------------------------------------------------------------
Info(at) == phase = "dma_info" /\ di_at = at

(* The two heading lines of md_dma_buf_info; outside a task it does nothing. *)
BufInfoStart(in_task) ==
  /\ Info("start")
  /\ di_offset' = IF in_task THEN After(0, 2) ELSE 0
  /\ di_at' = "next"
  /\ phase' = IF in_task THEN phase ELSE "between"
  /\ UNCHANGED <<held, dma_size, di_buf, di_left, dp_vars>>

(* get_each_dmabuf waits for the mutex of the list, dump_bufinfo for the
   reservation lock of a buffer: a lock whose holder the panic has stopped is
   never given. *)
BufBlocked ==
  /\ Info("next")
  /\ \/ "dmabufs" \in stopped /\ di_left = MaxBufs
     \/ "resv" \in stopped /\ di_left > 0
  /\ phase' = "blocked"
  /\ UNCHANGED <<held, dma_size, di_vars, dp_vars>>

(* dma_resv_lock of the next buffer. *)
BufLock(b) ==
  /\ Info("next")
  /\ di_left > 0
  /\ Take("resv")
  /\ di_at' = "name" /\ di_buf' = b /\ di_left' = di_left - 1
  /\ UNCHANGED <<phase, dma_size, di_offset, dp_vars>>

(* A line, and where it leads: "DMABUF_INFO minidump region exhausted" if it
   fills the region, and then nothing is given back. *)
InfoLine(next) ==
  /\ di_offset' = After(di_offset, 1)
  /\ \/ Full(di_offset') /\ phase' = "between" /\ UNCHANGED di_at
     \/ ~Full(di_offset') /\ di_at' = next /\ UNCHANGED phase

Goto(next) == di_at' = next /\ UNCHANGED <<phase, di_offset>>

BufName ==
  /\ Info("name")
  /\ InfoLine("fences")
  /\ UNCHANGED <<held, dma_size, di_buf, di_left, dp_vars>>

(* rcu_read_lock.  Nobody writes the fences while the lock is held, so that they
   are not read a second time. *)
BufFences ==
  /\ Info("fences")
  /\ Take("rcu")
  /\ Goto("excl")
  /\ UNCHANGED <<dma_size, di_buf, di_left, dp_vars>>

BufExcl ==
  /\ Info("excl")
  /\ IF di_buf.excl THEN InfoLine("shared") ELSE Goto("shared")
  /\ UNCHANGED <<held, dma_size, di_buf, di_left, dp_vars>>

(* dma_fence_get_rcu, which fails for a fence that is going away, and its line. *)
BufFence ==
  /\ Info("shared") /\ di_buf.shared > 0
  /\ di_buf' = [di_buf EXCEPT !.shared = @ - 1]
  /\ \/ Goto("shared") /\ UNCHANGED held
     \/ Take("fence") /\ InfoLine("put")
  /\ UNCHANGED <<dma_size, di_left, dp_vars>>

(* Mutant of BufPut: the reference is kept. *)
BufPutNot ==
  /\ Info("put")
  /\ Goto("shared")
  /\ UNCHANGED <<held, dma_size, di_buf, di_left, dp_vars>>

(* dma_fence_put. *)
BufPut ==
  /\ Info("put")
  /\ Give("fence")
  /\ Goto("shared")
  /\ UNCHANGED <<dma_size, di_buf, di_left, dp_vars>>

(* rcu_read_unlock, and the heading of the devices. *)
BufDevices ==
  /\ Info("shared") /\ di_buf.shared = 0
  /\ Give("rcu")
  /\ InfoLine("devices")
  /\ UNCHANGED <<dma_size, di_buf, di_left, dp_vars>>

BufDevice ==
  /\ Info("devices") /\ di_buf.attached > 0
  /\ di_buf' = [di_buf EXCEPT !.attached = @ - 1]
  /\ InfoLine("devices")
  /\ UNCHANGED <<held, dma_size, di_left, dp_vars>>

(* dma_resv_unlock. *)
BufUnlock ==
  /\ Info("devices") /\ di_buf.attached = 0
  /\ Give("resv")
  /\ Goto("total")
  /\ UNCHANGED <<dma_size, di_buf, di_left, dp_vars>>

BufTotal ==
  /\ Info("total")
  /\ InfoLine("next")
  /\ UNCHANGED <<held, dma_size, di_buf, di_left, dp_vars>>

(* The line with the totals. *)
BufInfoEnd ==
  /\ Info("next")
  /\ di_offset' = After(di_offset, 1)
  /\ phase' = "between"
  /\ UNCHANGED <<held, dma_size, di_at, di_buf, di_left, dp_vars>>

BufInfo ==
  \/ \E t \in BOOLEAN : BufInfoStart(t)
  \/ BufBlocked
  \/ \E b \in BufKinds : BufLock(b)
  \/ BufName \/ BufFences \/ BufExcl \/ BufFence \/ BufPut
  \/ BufDevices \/ BufDevice \/ BufUnlock \/ BufTotal
  \/ BufInfoEnd

-----------------------------------------------------------------------------
Cut == /\ dp_err' = TRUE /\ phase' = "between"
GoOn == /\ UNCHANGED <<dp_err, phase>>

(* for_each_process: the next one; ret keeps its value. *)
ProcStart(p) ==
  /\ phase = "dma_procs"
  /\ ~dp_proc.in
  /\ dp_left > 0
  /\ dp_left' = dp_left - 1
  /\ dp_proc' = [NoProc EXCEPT !.threads = p, !.leader = p[1], !.first = TRUE, !.in = TRUE]
  /\ dp_open' = dp_open \cup
       UNION {{<<dp_left, b>> : b \in ToSet(FdTable[f])} : f \in ToSet(p) \cap Files}
  /\ UNCHANGED <<phase, held, dma_size, di_vars, dp_offset, dp_ret, dp_count,
                 dma_buf_hash, dp_err, dp_log>>

(* The files of a thread are visited if they are not its leader's. *)
Iterates(files, glf, isLeader) == files # NoFiles /\ (glf # files \/ isLeader)

(* Mutant of RetOf: the result of iterate_fd is not assigned. *)
RetOfKept(visit) == dp_ret

(* ret after a thread whose files, if visited, could all be listed. *)
RetOf(visit) == IF visit THEN 0 ELSE dp_ret

(* task_lock of the next thread, or file_lock of its files, may be held by a CPU
   that was stopped. *)
ProcBlocked ==
  /\ phase = "dma_procs"
  /\ dp_proc.in /\ held["task"] = 0 /\ dp_proc.threads # <<>>
  /\ {"task", "files"} \cap stopped # {}
  /\ phase' = "blocked"
  /\ UNCHANGED <<held, dma_size, di_vars, dp_vars>>

(* for_each_thread: task_lock of one thread; ret is the result of iterate_fd,
   which is 0 unless get_dma_info fails, or what it was before.  If that is not 0
   the lock is given back and the walk is over. *)
ProcThread ==
  /\ phase = "dma_procs"
  /\ dp_proc.in /\ held["task"] = 0 /\ dp_proc.threads # <<>>
  /\ LET files == Head(dp_proc.threads)
         glf   == IF dp_proc.group_leader_files = NoFiles THEN dp_proc.leader
                  ELSE dp_proc.group_leader_files
         visit == Iterates(files, glf, dp_proc.first)
     IN /\ dp_proc' = [dp_proc EXCEPT !.threads = Tail(@),
                                      !.group_leader_files = glf,
                                      !.first = FALSE,
                                      !.fds = IF visit THEN FdTable[files] ELSE <<>>]
        /\ dp_ret' = RetOf(visit)
        /\ IF dp_ret' # 0 THEN Cut /\ UNCHANGED held ELSE GoOn /\ Take("task")
  /\ UNCHANGED <<dma_size, di_vars, dp_offset, dp_count, dma_buf_hash, dp_left,
                 dp_log, dp_open>>

(* The buffer, or one with its hash, was listed for this process. *)
Listed(b) == BufHash[b] \in dma_buf_hash

(* get_dma_info for one open dma-buf: the heading if it is the first of the
   process, then, if it is new, two lines.  An error ends iterate_fd, the lock is
   given back and the walk is over. *)
ProcFd ==
  /\ phase = "dma_procs"
  /\ dp_proc.fds # <<>>
  /\ LET b     == Head(dp_proc.fds)
         head  == IF dp_count = 0 THEN 1 ELSE 0
         lines == IF Listed(b) \/ Full(After(dp_offset, head)) THEN head ELSE head + 2
     IN /\ dp_offset' = After(dp_offset, lines)
        /\ \/ /\ lines = head
              /\ UNCHANGED <<dma_buf_hash, dp_count, dp_log>>
           \/ /\ lines # head
              /\ dma_buf_hash' = dma_buf_hash \cup {BufHash[b]}
              /\ dp_count' = dp_count + 1
              /\ dp_log' = Append(dp_log, <<dp_left + 1, b>>)
        /\ dp_proc' = [dp_proc EXCEPT !.fds = Tail(@)]
        /\ dp_ret' = IF lines > 0 /\ Full(dp_offset') THEN -1 ELSE 0
        /\ IF dp_ret' # 0 THEN Cut /\ Give("task") ELSE GoOn /\ UNCHANGED held
  /\ UNCHANGED <<dma_size, di_vars, dp_left, dp_open>>

(* task_unlock, after the last of the files. *)
ProcUnlock ==
  /\ phase = "dma_procs"
  /\ held["task"] > 0 /\ dp_proc.fds = <<>>
  /\ Give("task")
  /\ UNCHANGED <<phase, dma_size, di_vars, dp_vars>>

(* Mutant of HashAfterTotal: the places are kept for the next process. *)
HashAfterTotalKept == dma_buf_hash

(* memset(dma_buf_hash, 0). *)
HashAfterTotal == {}

(* The totals of a process that has buffers; ret is the length of the line. *)
ProcEnd ==
  /\ phase = "dma_procs"
  /\ dp_proc.in /\ held["task"] = 0 /\ dp_proc.threads = <<>>
  /\ dp_proc' = NoProc
  /\ \/ /\ dp_count = 0
        /\ GoOn
        /\ UNCHANGED <<dp_offset, dp_ret, dp_count, dma_buf_hash>>
     \/ /\ dp_count > 0
        /\ dp_offset' = After(dp_offset, 1)
        /\ dp_ret' = dp_offset' - dp_offset
        /\ \/ /\ Full(dp_offset')
              /\ Cut
              /\ UNCHANGED <<dp_count, dma_buf_hash>>
           \/ /\ ~Full(dp_offset')
              /\ dp_count' = 0
              /\ dma_buf_hash' = HashAfterTotal
              /\ GoOn
  /\ UNCHANGED <<held, dma_size, di_vars, dp_left, dp_log, dp_open>>

ProcsEnd ==
  /\ phase = "dma_procs"
  /\ ~dp_proc.in
  /\ phase' = "between"
  /\ UNCHANGED <<held, dma_size, di_vars, dp_vars>>

DmaBufNext ==
  \/ BufInfo
  \/ \E p \in ProcKinds : ProcStart(p)
  \/ ProcBlocked
  \/ ProcThread
  \/ ProcFd
  \/ ProcUnlock
  \/ ProcEnd
  \/ ProcsEnd

-----------------------------------------------------------------------------
(* Whatever the walks take they give back, on every way out but one: between two
   buffers dump_bufinfo holds nothing, and when the dump goes on after a walk only
   the exit "DMABUF_INFO minidump region exhausted" has left something held, the
   reservation lock, the RCU read side and a reference of a fence, each at most
   once.  The spinlocks are given back by the exits of a full region too. *)
LocksLeftOnlyWhenFull ==
  /\ Info("next") => \A l \in Holds : held[l] = 0
  /\ phase \in {"between", "end"} =>
       /\ held["list"] = 0 /\ held["task"] = 0
       /\ ~Full(di_offset) => \A l \in Holds : held[l] = 0
       /\ \A l \in Holds : held[l] \in {0, 1}
       /\ held["fence"] <= held["rcu"] /\ held["rcu"] <= held["resv"]

(* A list of a process is complete and without repetitions once the process
   is done: threads share files with their leader, or have their own, or the
   leader has exited and several threads share what was its table; the same
   buffer may be open many times.  Two buffers with one hash count as one. *)
ProcListsComplete ==
  /\ \A i, j \in DOMAIN dp_log :
       dp_log[i][1] = dp_log[j][1] /\ BufHash[dp_log[i][2]] = BufHash[dp_log[j][2]] => i = j
  /\ ~dp_err /\ ~dp_proc.in =>
       \A o \in dp_open : \E i \in DOMAIN dp_log :
         dp_log[i][1] = o[1] /\ BufHash[dp_log[i][2]] = BufHash[o[2]]

(* The walk over the processes is cut short only if the region is full, or at
   a process whose leader has exited, directly after one with buffers: the
   length of that one's last line is still in ret (minidump_memory.c:1300). *)
ProcsCutOnlyFor ==
  dp_err /\ ~Full(dp_offset) => dp_proc.leader = NoFiles /\ dp_ret > 0

(* minidump_memory.c:1314, "DMABUF_PROCS Minidump region exhausted": the walk
   is cut short only if the region is full. *)
ProcsCutMeansFull == dp_err => Full(dp_offset)
=============================================================================
