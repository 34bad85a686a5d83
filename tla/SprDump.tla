------------------------------ MODULE SprDump ------------------------------
(***************************************************************************)
(* memory_dump_v2.c, the special purpose registers of each CPU: user space *)
(* writes their numbers to spr_config, one word per register; the firmware *)
(* answers with two words per register behind the list.                    *)
(*                                                                         *)
(* The probe creates the sysfs files first and calls reset_sprs_dump_table *)
(* afterwards, so a store may come before the table has its header.  Every *)
(* store and the reset hold the device's mutex.                            *)
(***************************************************************************)
EXTENDS DumpFormat

CONSTANTS
  Cpus,             \* CPUs with a dump node: sprdata[i] is not NULL
  SprSize,          \* bytes of each CPU's dump memory
  Sprs              \* register numbers user space writes

ASSUME SprAssumption ==
  /\ SprSize \in Nat /\ SprSize % 4 = 0
  /\ Sprs \subseteq Nat

VARIABLES
  spr_probed,       \* the probe has called reset_sprs_dump_table
  sprs_data_index, spr_used_memory,
  spr_mem,          \* each CPU's dump memory, by word
  accepted          \* history: registers accepted since the last reset

spr_vars == <<spr_probed, sprs_data_index, spr_used_memory, spr_mem, accepted>>

-----------------------------------------------------------------------------
SPR_DATA_HEADER_SIZE == 5
SPR_DATA_HEADER_TAIL_SIZE == 1
SPR_INPUT_DATA_TAIL_SIZE == 1
SPR_INPUT_DATA_SIZE == 1
SPR_OUTPUT_DATA_SIZE == 2

FORMAT_VERSION_1 == 1

SprWords == 0..SprSize \div 4 - 1

(* What one register takes: its number and the firmware's answer. *)
Reserved == (SPR_INPUT_DATA_SIZE + SPR_OUTPUT_DATA_SIZE) * 4

EmptySize == (SPR_DATA_HEADER_SIZE + SPR_INPUT_DATA_TAIL_SIZE) * 4

(* sprs_dump_init. *)
SprInit ==
  /\ spr_probed = FALSE
  /\ sprs_data_index = [c \in Cpus |-> 0]
  /\ spr_used_memory = [c \in Cpus |-> 0]
  /\ spr_mem = [c \in Cpus |-> [i \in SprWords |-> 0]]
  /\ accepted = [c \in Cpus |-> <<>>]

-----------------------------------------------------------------------------
Cleared ==
  [i \in SprWords |->
     CASE i = MAGIC_INDEX          -> INPUT_DATA_BY_HLOS
       [] i = FORMAT_VERSION_INDEX -> FORMAT_VERSION_1
       [] i = SYS_REG_INPUT_INDEX  -> SYSTEM_REGS_INPUT_INDEX
       [] i = OUTPUT_DUMP_INDEX    -> EmptySize
       [] i \in PERCORE_INDEX..PERCORE_INDEX + SPR_DATA_HEADER_TAIL_SIZE
                                + SPR_INPUT_DATA_TAIL_SIZE - 1 -> 0
       [] OTHER -> Fill]

(* Mutant of ResetSprsDumpTable: the index survives the reset. *)
ResetSprsDumpTableKeepIndex ==
  /\ spr_used_memory' = [c \in Cpus |-> EmptySize]
  /\ spr_mem' = [c \in Cpus |-> Cleared]
  /\ accepted' = [c \in Cpus |-> <<>>]
  /\ UNCHANGED sprs_data_index

(* reset_sprs_dump_table. *)
ResetSprsDumpTable ==
  /\ sprs_data_index' = [c \in Cpus |-> 0]
  /\ spr_used_memory' = [c \in Cpus |-> EmptySize]
  /\ spr_mem' = [c \in Cpus |-> Cleared]
  /\ accepted' = [c \in Cpus |-> <<>>]

(* The end of mem_dump_alloc. *)
ProbeReset ==
  /\ ~spr_probed
  /\ spr_probed' = TRUE
  /\ ResetSprsDumpTable

(* sprs_register_reset_store, from the moment the file exists. *)
SprsRegisterReset ==
  /\ ResetSprsDumpTable
  /\ UNCHANGED spr_probed

Fits(c) == SprSize > spr_used_memory[c] + Reserved

(* spr_config_store: the number, a zero word behind it, and the offset of the
   output behind that. *)
SprConfig(c, spr) ==
  LET index == sprs_data_index[c] IN
  /\ Fits(c)
  /\ spr_mem' = [spr_mem EXCEPT ![c] =
       [i \in SprWords |->
          CASE i = OUTPUT_DUMP_INDEX ->
                 (SPR_DATA_HEADER_SIZE + index + SPR_INPUT_DATA_TAIL_SIZE + 1) * 4
            [] i = SPR_DATA_HEADER_SIZE + index -> spr
            [] i = SPR_DATA_HEADER_SIZE + index + 1 -> 0
            [] OTHER -> @[i]]]
  /\ sprs_data_index' = [sprs_data_index EXCEPT ![c] = @ + 1]
  /\ spr_used_memory' = [spr_used_memory EXCEPT ![c] = @ + Reserved]
  /\ accepted' = [accepted EXCEPT ![c] = Append(@, spr)]
  /\ UNCHANGED spr_probed

SprNext ==
  \/ ProbeReset
  \/ SprsRegisterReset
  \/ \E c \in Cpus, spr \in Sprs : SprConfig(c, spr)

SprSpec == SprInit /\ [][SprNext]_spr_vars

-----------------------------------------------------------------------------
(* spr_config_show: the words of the list. *)
SprConfigShow(c) ==
  [i \in 1..sprs_data_index[c] |-> spr_mem[c][SPR_DATA_HEADER_SIZE + i - 1]]

(* Once the probe is over, the firmware finds for every CPU the header, the
   accepted registers in order, a zero word, and behind it room for two words
   per register inside the dump memory, whatever was stored or reset before
   and after the probe's own reset (reset_sprs_dump_table, spr_config_store,
   spr_config_show). *)
SprListComplete ==
  spr_probed =>
    \A c \in Cpus :
      LET n == sprs_data_index[c] IN
      /\ spr_mem[c][MAGIC_INDEX] = INPUT_DATA_BY_HLOS
      /\ spr_mem[c][SYS_REG_INPUT_INDEX] = SPR_DATA_HEADER_SIZE
      /\ SprConfigShow(c) = accepted[c]
      /\ spr_mem[c][SPR_DATA_HEADER_SIZE + n] = 0
      /\ spr_mem[c][OUTPUT_DUMP_INDEX] = (SPR_DATA_HEADER_SIZE + n + SPR_INPUT_DATA_TAIL_SIZE) * 4
      /\ spr_mem[c][OUTPUT_DUMP_INDEX] + n * SPR_OUTPUT_DATA_SIZE * 4 <= SprSize

(* Type invariant; the words written lie inside the dump memory, before the
   first reset too. *)
SprTypeOK ==
  /\ spr_probed \in BOOLEAN
  /\ spr_used_memory \in [Cpus -> 0..SprSize]
  /\ spr_mem \in [Cpus -> [SprWords -> Nat]]
  /\ accepted \in [Cpus -> Seq(Sprs)]
  /\ \A c \in Cpus : SPR_DATA_HEADER_SIZE + sprs_data_index[c] \in SprWords
=============================================================================
