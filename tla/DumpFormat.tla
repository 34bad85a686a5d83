----------------------------- MODULE DumpFormat -----------------------------
(* memory_dump_v2.c, struct reg_dump_data: the words with which the register
   dump of the CPU subsystem and that of each CPU's special purpose registers
   begin. *)
EXTENDS Integers, Sequences

CONSTANT Fill       \* the word 0xDEDEDEDE

ASSUME FillAssumption == Fill \in Nat

MAGIC_INDEX == 0
FORMAT_VERSION_INDEX == 1
SYS_REG_INPUT_INDEX == 2
OUTPUT_DUMP_INDEX == 3
PERCORE_INDEX == 4
SYSTEM_REGS_INPUT_INDEX == 5

INPUT_DATA_BY_HLOS == 12648430
=============================================================================
