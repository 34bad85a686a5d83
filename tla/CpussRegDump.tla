---------------------------- MODULE CpussRegDump ----------------------------
(***************************************************************************)
(* memory_dump_v2.c, the CPU subsystem register dump: user space lists in  *)
(* sysfs the registers the firmware has to read, write or wait for when    *)
(* the system crashes, and the driver lays the list out in the dump        *)
(* memory.                                                                 *)
(*                                                                         *)
(*   words 0..3    magic, version, index of the first system register,     *)
(*                 byte offset of the firmware's output                    *)
(*   words 4..     per-core registers, then a zero word                    *)
(*   words 5+2n..  system registers, then a zero word (n = core_reg_num)   *)
(*   then          the output                                              *)
(*                                                                         *)
(* Every store holds the device's mutex, except that core_reg_num_store    *)
(* gives it up between its check and update_reg_dump_table.  A store of    *)
(* another file, or of the same one, falls in between.  The u32 arithmetic *)
(* is arithmetic modulo 2^W.                                               *)
(***************************************************************************)
EXTENDS DumpFormat, SequencesExt

CONSTANTS
  W,                \* width of the C type u32 (32)
  DumpSize,         \* bytes of dump memory: cpussregdata->size
  NumCores,         \* num_possible_cpus()
  MAX_EXTRA_VALUE,  \* largest count of 'R' and 'd' (0xffffff)
  Writers,          \* processes that write the sysfs files
  Nums,             \* what they write to core_reg_num
  Configs           \* what they write to register_config

U32 == 0..2^W - 1

Cmds == {"r", "R", "d", "w"}

ASSUME DumpAssumption ==
  /\ W \in Nat \ {0}
  /\ DumpSize \in U32 /\ DumpSize % 4 = 0
  /\ NumCores \in Nat \ {0}
  /\ MAX_EXTRA_VALUE \in Nat /\ 4 * MAX_EXTRA_VALUE < 2^W
  /\ Nums \subseteq U32
  /\ Configs \subseteq [offset : U32, val : U32, cmd : Cmds, per_core : BOOLEAN]

VARIABLES
  core_reg_num, core_reg_used_num, core_reg_end_index,
  sys_reg_size, used_memory,
  mem,              \* the dump memory, by word
  store,            \* each writer: idle, or the number it is about to set
  percore, system,  \* history: the registers accepted since the last format
  answers,          \* history: bytes the firmware writes for them
  formatted,        \* history: update_reg_dump_table has succeeded once
  wiped             \* history: core_reg_num_store has dropped a register

vars == <<core_reg_num, core_reg_used_num, core_reg_end_index, sys_reg_size,
          used_memory, mem, store, percore, system, answers, formatted, wiped>>

-----------------------------------------------------------------------------
FORMAT_VERSION_2 == 2
CORE_REG_NUM_DEFAULT == 1

CMD_READ == 0
CMD_READ_WORD == 1
CMD_WRITE == 2
CMD_EXTRA == 3
CMD_DELAY == MAX_EXTRA_VALUE + 1
CMD_REPEAT_READ == 2 * (MAX_EXTRA_VALUE + 1)

Words == 0..DumpSize \div 4 - 1

Idle == -1

(* cpuss_regdump_init: everything is zero.  The sysfs files appear without a
   call of update_reg_dump_table. *)
Init ==
  /\ core_reg_num = 0 /\ core_reg_used_num = 0 /\ core_reg_end_index = 0
  /\ sys_reg_size = 0 /\ used_memory = 0
  /\ mem = [i \in Words |-> 0]
  /\ store = [p \in Writers |-> Idle]
  /\ percore = <<>> /\ system = <<>> /\ answers = 0
  /\ formatted = FALSE /\ wiped = FALSE

-----------------------------------------------------------------------------
(* update_reg_dump_table(n): the index and the offset it computes. *)
SystemIndex(n) == (SYSTEM_REGS_INPUT_INDEX + 2 * n) % 2^W

OutputOffset(n) == (((SystemIndex(n) + 1) % 2^W) * 4) % 2^W

TableFits(n) ==
  /\ OutputOffset(n) < DumpSize
  /\ OutputOffset(n) \div 4 >= (SystemIndex(n) + 1) % 2^W

Format(n) ==
  [i \in Words |->
     CASE i = MAGIC_INDEX          -> INPUT_DATA_BY_HLOS
       [] i = FORMAT_VERSION_INDEX -> FORMAT_VERSION_2
       [] i = SYS_REG_INPUT_INDEX  -> SystemIndex(n)
       [] i = OUTPUT_DUMP_INDEX    -> OutputOffset(n)
       [] i \in PERCORE_INDEX..SystemIndex(n) -> 0
       [] OTHER -> Fill]

UpdateRegDumpTable(n) ==
  \/ /\ TableFits(n)
     /\ core_reg_num' = n
     /\ core_reg_used_num' = 0
     /\ core_reg_end_index' = PERCORE_INDEX
     /\ sys_reg_size' = 0
     /\ used_memory' = OutputOffset(n)
     /\ mem' = Format(n)
     /\ percore' = <<>> /\ system' = <<>> /\ answers' = 0
     /\ formatted' = TRUE
  \/ /\ ~TableFits(n)
     /\ UNCHANGED <<core_reg_num, core_reg_used_num, core_reg_end_index,
                    sys_reg_size, used_memory, mem, percore, system, answers, formatted>>

(* core_reg_num_store, up to the unlock: the list must be empty ("register
   available in list" otherwise); a number already set needs no update. *)
CoreRegNumCheck(p, n) ==
  /\ store[p] = Idle
  /\ core_reg_used_num = 0 /\ sys_reg_size = 0
  /\ n # core_reg_num
  /\ store' = [store EXCEPT ![p] = n]
  /\ UNCHANGED <<core_reg_num, core_reg_used_num, core_reg_end_index, sys_reg_size,
                 used_memory, mem, percore, system, answers, formatted, wiped>>

(* core_reg_num_store, after the unlock. *)
CoreRegNumUpdate(p) ==
  /\ store[p] # Idle
  /\ UpdateRegDumpTable(store[p])
  /\ wiped' = (wiped \/ (TableFits(store[p]) /\ percore \o system # <<>>))
  /\ store' = [store EXCEPT ![p] = Idle]

(* register_reset_store. *)
RegisterReset ==
  /\ UpdateRegDumpTable(CORE_REG_NUM_DEFAULT)
  /\ UNCHANGED <<store, wiped>>

-----------------------------------------------------------------------------
(* register_config_store, before the mutex: alignment, and the output bytes
   the firmware needs for one instance of the register. *)
ValidConfig(r) ==
  /\ r.offset % 4 = 0
  /\ r.cmd \in {"r", "R"} => r.val # 0
  /\ r.cmd = "r" => r.val % 4 = 0

ReserveSize(r) ==
  CASE r.cmd = "R" -> (r.val * 4) % 2^W
    [] r.cmd = "r" -> r.val
    [] OTHER -> 4

(* What the firmware writes for one instance; MAX_EXTRA_VALUE words at most
   are a u32, so nothing wraps for a register that is accepted. *)
AnswerSize(r) ==
  CASE r.cmd = "R" -> r.val * 4
    [] r.cmd = "r" -> r.val
    [] OTHER -> 4

(* The memory a system register takes: its words and its output. *)
SystemWords(r) == IF r.cmd = "r" /\ ReserveSize(r) = 4 THEN 1 ELSE 2

(* Mutant of SystemExtra: every register counts as one word. *)
SystemExtraWord(r) == (4 + ReserveSize(r)) % 2^W

SystemExtra(r) == (4 * SystemWords(r) + ReserveSize(r)) % 2^W

(* config_cpuss_register: the words of a register, and the counts that do
   not fit in one. *)
Encodable(r) == r.cmd \in {"R", "d"} => r.val <= MAX_EXTRA_VALUE

(* Mutant of Encode: a repeated read is written as a delay. *)
EncodeRepeatAsDelay(r) ==
  CASE r.cmd = "r" /\ r.val > 4  -> <<r.offset + CMD_READ, r.val>>
    [] r.cmd = "r" /\ r.val <= 4 -> <<r.offset + CMD_READ_WORD>>
    [] r.cmd = "w" -> <<r.offset + CMD_WRITE, r.val>>
    [] OTHER -> <<r.offset + CMD_EXTRA, r.val + CMD_DELAY>>

Encode(r) ==
  CASE r.cmd = "r" /\ r.val > 4  -> <<r.offset + CMD_READ, r.val>>
    [] r.cmd = "r" /\ r.val <= 4 -> <<r.offset + CMD_READ_WORD>>
    [] r.cmd = "R" -> <<r.offset + CMD_EXTRA, r.val + CMD_REPEAT_READ>>
    [] r.cmd = "d" -> <<CMD_EXTRA, r.val + CMD_DELAY>>
    [] r.cmd = "w" -> <<r.offset + CMD_WRITE, r.val>>

(* The words from index k on become those of s.  A word that would land past
   the dump memory, which takes a table that was never formatted, is lost. *)
WriteWords(k, s) ==
  [i \in Words |-> IF i - k \in 0..Len(s) - 1 THEN s[i - k + 1] ELSE mem[i]]

EnoughMemory(extra) ==
  /\ (used_memory + extra) % 2^W <= DumpSize
  /\ (used_memory + extra) % 2^W >= used_memory

(* Mutant of CoreRoom: one register more than core_reg_num. *)
CoreRoomOneMore == core_reg_used_num <= core_reg_num

CoreRoom == core_reg_used_num # core_reg_num

(* register_config_store of a per-core register. *)
ConfigPerCore(r) ==
  LET extra == (ReserveSize(r) * NumCores) % 2^W IN
  /\ r.per_core
  /\ ValidConfig(r)
  /\ CoreRoom
  /\ extra \div NumCores >= ReserveSize(r)
  /\ EnoughMemory(extra)
  /\ Encodable(r)
  /\ mem' = WriteWords(core_reg_end_index, Encode(r))
  /\ core_reg_end_index' = core_reg_end_index + Len(Encode(r))
  /\ core_reg_used_num' = core_reg_used_num + 1
  /\ used_memory' = (used_memory + extra) % 2^W
  /\ percore' = Append(percore, r)
  /\ answers' = answers + AnswerSize(r) * NumCores
  /\ UNCHANGED <<core_reg_num, sys_reg_size, store, system, formatted, wiped>>

(* The list of system registers ends with a zero word at index k, and the
   output starts after it. *)
Terminate(m, k) ==
  [i \in Words |-> CASE i = OUTPUT_DUMP_INDEX -> ((k + 1) * 4) % 2^W
                     [] i = k /\ i # OUTPUT_DUMP_INDEX -> 0
                     [] OTHER -> m[i]]

(* register_config_store of a system register: the place comes from the
   header in the dump memory. *)
ConfigSystem(r) ==
  LET end   == (mem[SYS_REG_INPUT_INDEX] + sys_reg_size \div 4) % 2^W
      extra == SystemExtra(r)
  IN
  /\ ~r.per_core
  /\ ValidConfig(r)
  /\ extra >= ReserveSize(r)
  /\ EnoughMemory(extra)
  /\ Encodable(r)
  /\ mem' = Terminate(WriteWords(end, Encode(r)), end + Len(Encode(r)))
  /\ sys_reg_size' = sys_reg_size + 4 * Len(Encode(r))
  /\ used_memory' = (used_memory + extra) % 2^W
  /\ system' = Append(system, r)
  /\ answers' = answers + AnswerSize(r)
  /\ UNCHANGED <<core_reg_num, core_reg_used_num, core_reg_end_index, store,
                 percore, formatted, wiped>>

Next ==
  \/ \E p \in Writers : CoreRegNumUpdate(p) \/ \E n \in Nums : CoreRegNumCheck(p, n)
  \/ RegisterReset
  \/ \E r \in Configs : ConfigPerCore(r) \/ ConfigSystem(r)

Spec == Init /\ [][Next]_vars

-----------------------------------------------------------------------------
(* register_config_show: a zero word is passed over, the two low bits of any
   other say how many words belong to it and what they mean. *)
Shown(o, v, c) == [offset |-> o, val |-> v, cmd |-> c]

ShowAt(i) ==
  LET o == mem[i] - (mem[i] % 4)
      v == mem[i + 1]
  IN CASE mem[i] % 4 = CMD_READ      -> Shown(o, v, "r")
       [] mem[i] % 4 = CMD_READ_WORD -> Shown(o, 4, "r")
       [] mem[i] % 4 = CMD_WRITE     -> Shown(o, v, "w")
       [] mem[i] % 4 = CMD_EXTRA     ->
            Shown(o, v % (MAX_EXTRA_VALUE + 1),
                  IF v - (v % (MAX_EXTRA_VALUE + 1)) = CMD_DELAY THEN "d" ELSE "R")

(* "system registers:", printed where these start. *)
SystemHeading == Shown(0, 0, "system registers")

RegisterConfigShow ==
  LET start == mem[SYS_REG_INPUT_INDEX]
      end   == start + sys_reg_size \div 4 + 1
      show[i \in Nat] ==
        IF i >= end THEN <<>>
        ELSE (IF i = start THEN <<SystemHeading>> ELSE <<>>) \o
             IF mem[i] = 0 THEN show[i + 1]
             ELSE <<ShowAt(i)>> \o show[i + (IF mem[i] % 4 = CMD_READ_WORD THEN 1 ELSE 2)]
  IN show[PERCORE_INDEX]

-----------------------------------------------------------------------------
(* Type invariant. *)
TypeOK ==
  /\ core_reg_num \in U32 /\ core_reg_used_num \in U32
  /\ core_reg_end_index \in U32 /\ sys_reg_size \in U32
  /\ used_memory \in 0..DumpSize
  /\ mem \in [Words -> Nat]
  /\ store \in [Writers -> U32 \cup {Idle}]
  /\ percore \in Seq(Configs) /\ system \in Seq(Configs) /\ answers \in Nat
  /\ formatted \in BOOLEAN /\ wiped \in BOOLEAN

(* The header survives and no area of the dump memory reaches into the next:
   the per-core registers end before the zero word in front of the system
   registers, these end with a zero word just before the output, and the
   output starts inside the memory (update_reg_dump_table, and
   register_config_store which trusts the counts). *)
AreasDisjoint ==
  formatted =>
    LET start == mem[SYS_REG_INPUT_INDEX]
        end   == start + sys_reg_size \div 4
    IN /\ mem[MAGIC_INDEX] = INPUT_DATA_BY_HLOS
       /\ mem[FORMAT_VERSION_INDEX] = FORMAT_VERSION_2
       /\ core_reg_end_index \in PERCORE_INDEX..start - 1
       /\ mem[start - 1] = 0
       /\ end \in Words /\ mem[end] = 0
       /\ mem[OUTPUT_DUMP_INDEX] = (end + 1) * 4
       /\ mem[OUTPUT_DUMP_INDEX] <= DumpSize

(* What the firmware writes stays inside the dump memory: from the output
   offset in the header on there is room for every core's copy of every
   per-core register and for every system register.  used_memory, the only
   thing register_config_store checks, accounts for exactly that. *)
OutputFits ==
  formatted =>
    /\ used_memory = mem[OUTPUT_DUMP_INDEX] + answers
    /\ used_memory <= DumpSize

(* What reading register_config back should print for an accepted register;
   a delay has no offset. *)
Expected(r) == Shown(IF r.cmd = "d" THEN 0 ELSE r.offset, r.val, r.cmd)

(* register_config_show, "shows configs of per-core and system registers"
   (memory_dump_v2.c:267): reading the file back gives exactly the registers
   accepted since the table was formatted, in order, the per-core ones first
   (for a list whose text fits the page a sysfs file can return). *)
ShowsConfigured ==
  formatted =>
    RegisterConfigShow = [i \in DOMAIN percore |-> Expected(percore[i])]
                           \o <<SystemHeading>>
                           \o [i \in DOMAIN system |-> Expected(system[i])]

-----------------------------------------------------------------------------
(* What comments and messages say and the code does not keep. *)

(* memory_dump_v2.c:241, "Couldn't set core_reg_num, register available in
   list": setting core_reg_num never drops a register.  One that is added
   between the check and the update is dropped. *)
NeverWiped == ~wiped

(* memory_dump_v2.c:107, "Set bit 0 if percore reg dump initialized": the
   files of the register dump appear when the dump is initialised, so no
   register is ever written over the header.  Nothing formats the table at
   probe time, and the first system register lands on the magic word. *)
HeaderNotOverwritten == mem[MAGIC_INDEX] \in {0, INPUT_DATA_BY_HLOS}
=============================================================================
