------------------------ MODULE MemoryDumpV2Proofs ------------------------
(***************************************************************************)
(* Proofs about the three parts of memory_dump_v2.c that lay out memory:   *)
(* the register dump of the CPU subsystem, the dump table, and the special *)
(* purpose registers.  They share no state, and no part of this module     *)
(* uses another.                                                           *)
(*                                                                         *)
(* Part 1, CpussRegDump, for dump memory of any size, any width of u32,    *)
(* and any numbers and registers user space writes: the areas of the dump  *)
(* memory never run into each other, and the output has room.              *)
(*                                                                         *)
(* register_config_store compares only counts and sums: the number of      *)
(* per-core registers with core_reg_num, and used_memory with the size.    *)
(* The invariant says what these stand for: two words per register are     *)
(* reserved before the system registers, and used_memory is never behind   *)
(* the end of the list.                                                    *)
(***************************************************************************)
EXTENDS CpussRegDump, SprDump, DumpTable, FiniteSetTheorems, TLAPS

(* No number that user space writes makes the index of the first system
   register wrap around; with one that does the areas overlap. *)
NumsFit == \A n \in Nums \cup {CORE_REG_NUM_DEFAULT} : 2 * n + 6 < 2^W

(* The header, and what the counts mean, while the list of system registers
   is q words long. *)
Layout(q) ==
  /\ core_reg_num \in Nat /\ core_reg_used_num \in 0..core_reg_num
  /\ mem[MAGIC_INDEX] = INPUT_DATA_BY_HLOS
  /\ mem[FORMAT_VERSION_INDEX] = FORMAT_VERSION_2
  /\ mem[SYS_REG_INPUT_INDEX] = 5 + 2 * core_reg_num
  /\ core_reg_end_index \in 4..4 + 2 * core_reg_used_num
  /\ mem[4 + 2 * core_reg_num] = 0
  /\ sys_reg_size = 4 * q
  /\ mem[5 + 2 * core_reg_num + q] = 0
  /\ mem[OUTPUT_DUMP_INDEX] = 4 * (6 + 2 * core_reg_num + q)
  /\ mem[OUTPUT_DUMP_INDEX] <= used_memory

TypeInv ==
  /\ used_memory \in 0..DumpSize
  /\ DOMAIN mem = Words
  /\ store \in [Writers -> Nums \cup {Idle}]

IndInv == TypeInv /\ (formatted => \E q \in Nat : Layout(q))

-----------------------------------------------------------------------------
(* u32 arithmetic. *)
LEMMA Width == /\ 2^W \in Nat \ {0} /\ DumpSize \in Nat /\ DumpSize < 2^W
               /\ DumpSize % 4 = 0
  <1>1. 2^W \in Int
    BY DumpAssumption
  <1>2. DumpSize \in 0..2^W - 1 /\ DumpSize % 4 = 0
    BY DumpAssumption DEF U32
  <1> DEFINE M == 2^W
  <1>3. M \in Int /\ DumpSize \in 0..M - 1
    BY <1>1, <1>2
  <1> HIDE DEF M
  <1>4. M \in Nat \ {0} /\ DumpSize \in Nat /\ DumpSize < M
    BY <1>3
  <1> QED
    BY <1>2, <1>4 DEF M

LEMMA ModSmall ==
  ASSUME NEW m \in Nat \ {0}, NEW a \in 0..m - 1
  PROVE  a % m = a
  OBVIOUS

LEMMA ModOnce ==
  ASSUME NEW m \in Nat \ {0}, NEW a \in m..2 * m - 1
  PROVE  a % m = a - m
  OBVIOUS

(* A sum of two u32 that is not below one of them has not wrapped. *)
LEMMA SumFits ==
  ASSUME NEW m \in Nat \ {0}, NEW a \in 0..m - 1, NEW b \in 0..m - 1, (a + b) % m >= a
  PROVE  (a + b) % m = a + b
  <1>1. CASE a + b < m
    <2>1. a + b \in 0..m - 1
      BY <1>1
    <2> QED
      BY <2>1, ModSmall
  <1>2. CASE a + b >= m
    <2>1. a + b \in m..2 * m - 1
      BY <1>2
    <2>2. (a + b) % m = a + b - m
      BY <2>1, ModOnce
    <2> QED
      BY <2>2
  <1> QED
    BY <1>1, <1>2

LEMMA ModRange ==
  ASSUME NEW m \in Nat \ {0}, NEW a \in Nat
  PROVE  a % m \in 0..m - 1
  OBVIOUS

(* The words of the dump memory. *)
LEMMA WordIn ==
  ASSUME NEW i \in Nat, 4 * (i + 1) <= DumpSize
  PROVE  i \in Words
  BY Width DEF Words

LEMMA ModLe ==
  ASSUME NEW m \in Nat \ {0}, NEW a \in Nat
  PROVE  a % m <= a
  <1>1. CASE a < m
    <2>1. a \in 0..m - 1
      BY <1>1
    <2> QED
      BY <2>1, ModSmall
  <1>2. CASE a >= m
    <2>1. a % m \in 0..m - 1
      BY ModRange
    <2> QED
      BY <1>2, <2>1
  <1> QED
    BY <1>1, <1>2

-----------------------------------------------------------------------------
(* update_reg_dump_table: a number that passes its test has the layout it
   stands for, with room for the end of both lists. *)
LEMMA TableFacts ==
  ASSUME NEW n \in Nat, 2 * n + 6 < 2^W, TableFits(n)
  PROVE  /\ SystemIndex(n) = 5 + 2 * n
         /\ OutputOffset(n) = 4 * (6 + 2 * n)
         /\ 4 * (6 + 2 * n) < DumpSize
  <1> DEFINE M == 2^W
  <1>1. M \in Nat \ {0} /\ 2 * n + 6 < M
    BY Width
  <1>2. SystemIndex(n) = (5 + 2 * n) % M
    BY DEF SystemIndex, SYSTEM_REGS_INPUT_INDEX
  <1>3. OutputOffset(n) = (((SystemIndex(n) + 1) % M) * 4) % M
    BY DEF OutputOffset
  <1>4. OutputOffset(n) < DumpSize /\ OutputOffset(n) \div 4 >= (SystemIndex(n) + 1) % M
    BY DEF TableFits
  <1> HIDE DEF M
  <1>5. SystemIndex(n) = 5 + 2 * n
    <2>1. 5 + 2 * n \in 0..M - 1
      BY <1>1
    <2> QED
      BY <1>1, <1>2, <2>1, ModSmall
  <1>6. (SystemIndex(n) + 1) % M = 6 + 2 * n
    <2>1. SystemIndex(n) + 1 = 6 + 2 * n /\ 6 + 2 * n \in 0..M - 1
      BY <1>1, <1>5
    <2> QED
      BY <1>1, <2>1, ModSmall
  <1> DEFINE x == 6 + 2 * n
             o == (x * 4) % M
  <1>7. o = OutputOffset(n) /\ o \div 4 >= x
    BY <1>3, <1>4, <1>6
  <1>8. x * 4 \in Nat
    OBVIOUS
  <1>9. o \in 0..M - 1 /\ o <= x * 4
    BY <1>1, <1>8, ModRange, ModLe
  <1> HIDE DEF o
  <1>10. o = x * 4
    BY <1>1, <1>7, <1>9
  <1> QED
    BY <1>4, <1>5, <1>7, <1>10

LEMMA UpdateKeeps ==
  ASSUME NumsFit, IndInv, NEW n \in Nums \cup {CORE_REG_NUM_DEFAULT}, UpdateRegDumpTable(n),
         store' \in [Writers -> Nums \cup {Idle}]
  PROVE  IndInv'
  <1>1. CASE ~TableFits(n)
    <2>1. UNCHANGED <<core_reg_num, core_reg_used_num, core_reg_end_index, sys_reg_size,
                      used_memory, mem, formatted>>
      BY <1>1 DEF UpdateRegDumpTable
    <2> QED
      BY <2>1 DEF IndInv, TypeInv, Layout
  <1>2. CASE TableFits(n)
    <2>1. n \in Nat /\ 2 * n + 6 < 2^W
      <3>1. 2^W \in Nat \ {0} /\ CORE_REG_NUM_DEFAULT = 1
        BY Width DEF CORE_REG_NUM_DEFAULT
      <3>2. \A m \in U32 : m \in Nat
        BY <3>1 DEF U32
      <3>3. n \in Nat
        BY <3>1, <3>2, DumpAssumption
      <3> QED
        BY <3>3 DEF NumsFit
    <2>2. /\ SystemIndex(n) = 5 + 2 * n
          /\ OutputOffset(n) = 4 * (6 + 2 * n)
          /\ 4 * (6 + 2 * n) < DumpSize
      BY <1>2, <2>1, TableFacts
    <2>3. /\ core_reg_num' = n /\ core_reg_used_num' = 0 /\ core_reg_end_index' = 4
          /\ sys_reg_size' = 0 /\ used_memory' = 4 * (6 + 2 * n) /\ mem' = Format(n)
      BY <1>2, <2>2 DEF UpdateRegDumpTable, PERCORE_INDEX
    <2>4. \A i \in 0..5 + 2 * n : i \in Words
      <3>1. ASSUME NEW i \in 0..5 + 2 * n PROVE i \in Nat /\ 4 * (i + 1) <= DumpSize
        BY <2>1, <2>2, Width
      <3> QED
        BY <3>1, WordIn
    <2>5. /\ DOMAIN mem' = Words
          /\ mem'[0] = INPUT_DATA_BY_HLOS /\ mem'[1] = FORMAT_VERSION_2
          /\ mem'[2] = 5 + 2 * n /\ mem'[3] = 4 * (6 + 2 * n)
          /\ \A i \in 4..5 + 2 * n : mem'[i] = 0
      <3>1. /\ \A i \in 0..3 : i \in Words
            /\ \A i \in 4..5 + 2 * n : i \in Words /\ i \notin 0..3
        BY <2>1, <2>4
      <3>2. DOMAIN mem' = Words
        BY <2>3 DEF Format
      <3>3. mem'[0] = INPUT_DATA_BY_HLOS /\ mem'[1] = FORMAT_VERSION_2
        BY <2>3, <3>1 DEF Format, MAGIC_INDEX, FORMAT_VERSION_INDEX, SYS_REG_INPUT_INDEX,
           OUTPUT_DUMP_INDEX, PERCORE_INDEX
      <3>4. mem'[2] = 5 + 2 * n /\ mem'[3] = 4 * (6 + 2 * n)
        BY <2>2, <2>3, <3>1 DEF Format, MAGIC_INDEX, FORMAT_VERSION_INDEX, SYS_REG_INPUT_INDEX,
           OUTPUT_DUMP_INDEX, PERCORE_INDEX
      <3>5. \A i \in 4..5 + 2 * n : mem'[i] = 0
        BY <2>2, <2>3, <3>1 DEF Format, MAGIC_INDEX, FORMAT_VERSION_INDEX, SYS_REG_INPUT_INDEX,
           OUTPUT_DUMP_INDEX, PERCORE_INDEX
      <3> QED
        BY <3>2, <3>3, <3>4, <3>5
    <2>6. TypeInv'
      BY <2>1, <2>2, <2>3, <2>5, Width DEF TypeInv
    <2>7. Layout(0)'
      <3>1. 4 + 2 * n \in 4..5 + 2 * n /\ 5 + 2 * n + 0 \in 4..5 + 2 * n
        BY <2>1
      <3> QED
        BY <2>1, <2>3, <2>5, <3>1 DEF Layout, MAGIC_INDEX, FORMAT_VERSION_INDEX,
           SYS_REG_INPUT_INDEX, OUTPUT_DUMP_INDEX
    <2> QED
      BY <2>6, <2>7 DEF IndInv
  <1> QED
    BY <1>1, <1>2

-----------------------------------------------------------------------------
(* register_config_store counts as many words as config_cpuss_register
   writes, and its sizes are u32. *)
LEMMA ConfigFacts ==
  ASSUME NumsFit, NEW r \in Configs, ValidConfig(r)
  PROVE  /\ Len(Encode(r)) \in {1, 2} /\ SystemWords(r) = Len(Encode(r))
         /\ ReserveSize(r) \in 0..2^W - 1
  <1> DEFINE M == 2^W
  <1>1. M \in Nat \ {0} /\ 8 < M
    <2>1. 2 * 1 + 6 < M
      BY DEF NumsFit, CORE_REG_NUM_DEFAULT
    <2>2. M \in Nat \ {0}
      BY Width
    <2> HIDE DEF M
    <2> QED
      BY <2>1, <2>2
  <1>2. r \in [offset : 0..M - 1, val : 0..M - 1, cmd : Cmds, per_core : BOOLEAN]
    BY DumpAssumption DEF U32
  <1>3. ReserveSize(r) = CASE r.cmd = "R" -> (r.val * 4) % M
                           [] r.cmd = "r" -> r.val
                           [] OTHER -> 4
    BY DEF ReserveSize
  <1> HIDE DEF M
  <1>4. r.val \in 0..M - 1 /\ r.val \in Nat /\ r.cmd \in {"r", "R", "d", "w"}
    BY <1>1, <1>2 DEF Cmds
  <1>5. (r.val * 4) % M \in 0..M - 1
    <2>1. r.val * 4 \in Nat
      BY <1>4
    <2> QED
      BY <1>1, <2>1, ModRange
  <1>6. ReserveSize(r) \in 0..M - 1
    BY <1>1, <1>3, <1>4, <1>5
  <1>7. CASE r.cmd = "r"
    <2>1. r.val # 0 /\ r.val % 4 = 0 /\ ReserveSize(r) = r.val
      BY <1>3, <1>7 DEF ValidConfig
    <2>2. r.val <= 4 <=> r.val = 4
      BY <1>4, <2>1
    <2>3. CASE r.val <= 4
      <3>1. Encode(r) = <<r.offset + CMD_READ_WORD>>
        BY <1>4, <1>7, <2>3 DEF Encode
      <3>2. SystemWords(r) = 1
        BY <1>7, <2>1, <2>2, <2>3 DEF SystemWords
      <3> QED
        BY <3>1, <3>2, <1>6 DEF M
    <2>4. CASE r.val > 4
      <3>1. Encode(r) = <<r.offset + CMD_READ, r.val>>
        BY <1>4, <1>7, <2>4 DEF Encode
      <3>2. SystemWords(r) = 2
        BY <1>4, <1>7, <2>1, <2>4 DEF SystemWords
      <3> QED
        BY <3>1, <3>2, <1>6 DEF M
    <2> QED
      BY <1>4, <2>3, <2>4
  <1>8. CASE r.cmd # "r"
    <2>1. SystemWords(r) = 2
      BY <1>8 DEF SystemWords
    <2>2. Len(Encode(r)) = 2
      BY <1>4, <1>8 DEF Encode
    <2> QED
      BY <2>1, <2>2, <1>6 DEF M
  <1> QED
    BY <1>7, <1>8

(* What the test of used_memory gives. *)
LEMMA MemoryFacts ==
  ASSUME TypeInv, NEW extra \in 0..2^W - 1, EnoughMemory(extra)
  PROVE  /\ (used_memory + extra) % 2^W = used_memory + extra
         /\ used_memory + extra <= DumpSize /\ used_memory \in Nat
  <1> DEFINE M == 2^W
             u == used_memory
  <1>1. M \in Nat \ {0} /\ DumpSize \in Nat /\ DumpSize < M /\ extra \in 0..M - 1
    BY Width
  <1>2. u \in 0..DumpSize /\ (u + extra) % M <= DumpSize /\ (u + extra) % M >= u
    BY DEF TypeInv, EnoughMemory
  <1> HIDE DEF M, u
  <1>3. u \in 0..M - 1
    BY <1>1, <1>2
  <1>4. (u + extra) % M = u + extra
    BY <1>1, <1>2, <1>3, SumFits
  <1> QED
    BY <1>2, <1>4 DEF M, u

LEMMA WriteFacts ==
  ASSUME NEW k \in Int, NEW s, Len(s) \in Nat
  PROVE  /\ DOMAIN WriteWords(k, s) = Words
         /\ \A i \in Words : i < k \/ i >= k + Len(s) => WriteWords(k, s)[i] = mem[i]
  <1>1. DOMAIN WriteWords(k, s) = Words
    BY DEF WriteWords
  <1>2. ASSUME NEW i \in Words, i < k \/ i >= k + Len(s)
        PROVE  WriteWords(k, s)[i] = mem[i]
    <2>1. i \in Int
      BY Width DEF Words
    <2> DEFINE l == Len(s)
    <2> HIDE DEF l
    <2>2. i - k \notin 0..l - 1
      BY <1>2, <2>1 DEF l
    <2> QED
      BY <2>2 DEF WriteWords, l
  <1> QED
    BY <1>1, <1>2

(* The memory words of the layout exist. *)
LEMMA LayoutWords ==
  ASSUME TypeInv, NEW q \in Nat, Layout(q)
  PROVE  /\ 4 * (6 + 2 * core_reg_num + q) <= DumpSize
         /\ \A i \in 0..5 + 2 * core_reg_num + q : i \in Words
  <1> DEFINE n == core_reg_num
             u == used_memory
  <1>1. n \in Nat /\ 4 * (6 + 2 * n + q) <= u /\ u \in 0..DumpSize /\ DumpSize \in Nat
    BY Width DEF Layout, TypeInv
  <1> HIDE DEF n, u
  <1>2. 4 * (6 + 2 * n + q) <= DumpSize
    BY <1>1
  <1>3. ASSUME NEW i \in 0..5 + 2 * n + q PROVE i \in Nat /\ 4 * (i + 1) <= DumpSize
    BY <1>1, <1>2
  <1> QED
    BY <1>2, <1>3, WordIn DEF n

(* The per-core registers stay before the zero word that ends them. *)
LEMMA PerCoreKeeps ==
  ASSUME NumsFit, IndInv, NEW r \in Configs, ConfigPerCore(r)
  PROVE  IndInv'
  <1> DEFINE n == core_reg_num
             u == used_memory
             end == core_reg_end_index
             used == core_reg_used_num
             len == Len(Encode(r))
             extra == (ReserveSize(r) * NumCores) % 2^W
  <1>1. len \in {1, 2} /\ ReserveSize(r) \in 0..2^W - 1
    BY ConfigFacts DEF ConfigPerCore
  <1>2. extra \in 0..2^W - 1
    <2>1. 2^W \in Nat \ {0}
      BY Width
    <2>2. ReserveSize(r) \in Nat
      BY <1>1, <2>1
    <2>3. ReserveSize(r) * NumCores \in Nat
      BY <2>2, DumpAssumption
    <2> QED
      BY <2>1, <2>3, ModRange
  <1>3. TypeInv /\ EnoughMemory(extra)
    BY DEF ConfigPerCore, IndInv
  <1>4. (u + extra) % 2^W = u + extra /\ u + extra <= DumpSize /\ u \in Nat
    BY <1>2, <1>3, MemoryFacts
  <1>5. /\ mem' = WriteWords(end, Encode(r)) /\ core_reg_end_index' = end + len
        /\ core_reg_used_num' = used + 1 /\ used_memory' = u + extra /\ used # n
        /\ UNCHANGED <<core_reg_num, sys_reg_size, store, formatted>>
    BY <1>4 DEF ConfigPerCore, CoreRoom
  <1>6. used_memory' \in 0..DumpSize /\ u <= used_memory'
    <2>1. 2^W \in Nat \ {0} /\ DumpSize \in Nat
      BY Width
    <2> HIDE DEF extra, u
    <2>2. extra \in Nat
      BY <1>2, <2>1
    <2> QED
      BY <1>4, <1>5, <2>1, <2>2
  <1>7. DOMAIN mem' = Words
    BY <1>5 DEF WriteWords
  <1>8. TypeInv'
    BY <1>3, <1>5, <1>6, <1>7 DEF TypeInv
  <1>9. ASSUME NEW q \in Nat, Layout(q) PROVE Layout(q)'
    <2>1. /\ n \in Nat /\ used \in 0..n /\ end \in 4..4 + 2 * used
          /\ mem[0] = INPUT_DATA_BY_HLOS /\ mem[1] = FORMAT_VERSION_2
          /\ mem[2] = 5 + 2 * n /\ mem[4 + 2 * n] = 0 /\ sys_reg_size = 4 * q
          /\ mem[5 + 2 * n + q] = 0 /\ mem[3] = 4 * (6 + 2 * n + q) /\ mem[3] <= u
      BY <1>9 DEF Layout, MAGIC_INDEX, FORMAT_VERSION_INDEX, SYS_REG_INPUT_INDEX, OUTPUT_DUMP_INDEX
    <2>2. \A i \in 0..5 + 2 * n + q : i \in Words
      BY <1>3, <1>9, LayoutWords
    <2> HIDE DEF n, used, end, len, u, extra
    <2>3. end \in Int /\ len \in Nat /\ used + 1 \in 0..n /\ end + len \in 4..4 + 2 * (used + 1)
          /\ end + len <= 4 + 2 * n /\ 4 <= end
      BY <1>1, <1>5, <2>1
    <2>4. \A i \in Words : i < end \/ i >= end + len => mem'[i] = mem[i]
      BY <1>5, <2>3, WriteFacts DEF len
    <2>5. /\ 0 \in 0..5 + 2 * n + q /\ 1 \in 0..5 + 2 * n + q /\ 2 \in 0..5 + 2 * n + q
          /\ 3 \in 0..5 + 2 * n + q /\ 4 + 2 * n \in 0..5 + 2 * n + q
          /\ 5 + 2 * n + q \in 0..5 + 2 * n + q
          /\ 0 < end /\ 1 < end /\ 2 < end /\ 3 < end
          /\ 4 + 2 * n >= end + len /\ 5 + 2 * n + q >= end + len
      BY <2>1, <2>3
    <2>6. /\ mem'[0] = mem[0] /\ mem'[1] = mem[1] /\ mem'[2] = mem[2] /\ mem'[3] = mem[3]
          /\ mem'[4 + 2 * n] = 0 /\ mem'[5 + 2 * n + q] = 0
      BY <2>1, <2>2, <2>4, <2>5
    <2>7. mem'[3] <= used_memory'
      BY <1>4, <1>6, <2>1, <2>6, Width
    <2>8. core_reg_num' = n /\ sys_reg_size' = 4 * q
      BY <1>5, <2>1 DEF n
    <2> QED
      BY <1>5, <2>1, <2>3, <2>6, <2>7, <2>8
         DEF Layout, MAGIC_INDEX, FORMAT_VERSION_INDEX, SYS_REG_INPUT_INDEX, OUTPUT_DUMP_INDEX
  <1> QED
    BY <1>5, <1>8, <1>9 DEF IndInv

(* The system registers take words that used_memory has counted, and their
   zero word moves with them. *)
LEMMA SystemKeeps ==
  ASSUME NumsFit, IndInv, NEW r \in Configs, ConfigSystem(r)
  PROVE  IndInv'
  <1> DEFINE n == core_reg_num
             u == used_memory
             len == Len(Encode(r))
             size == ReserveSize(r)
             extra == SystemExtra(r)
             at == (mem[SYS_REG_INPUT_INDEX] + sys_reg_size \div 4) % 2^W
             M == 2^W
  <1>1. len \in {1, 2} /\ size \in 0..M - 1 /\ SystemWords(r) = len
    BY ConfigFacts DEF ConfigSystem
  <1>2. M \in Nat \ {0} /\ 8 < M /\ DumpSize \in Nat /\ DumpSize < M
    <2>1. 2 * 1 + 6 < M
      BY DEF NumsFit, CORE_REG_NUM_DEFAULT
    <2>2. M \in Nat \ {0} /\ DumpSize \in Nat /\ DumpSize < M
      BY Width
    <2> HIDE DEF M
    <2> QED
      BY <2>1, <2>2
  <1>3. extra = (4 * len + size) % M /\ extra >= size /\ TypeInv /\ EnoughMemory(extra)
    BY <1>1 DEF SystemExtra, ConfigSystem, IndInv
  <1>4. extra = 4 * len + size /\ extra \in 0..M - 1
    <2> HIDE DEF extra, len, size, M
    <2>1. 4 * len \in 0..M - 1 /\ size + 4 * len = 4 * len + size
      BY <1>1, <1>2
    <2>2. (size + 4 * len) % M >= size
      BY <1>3, <2>1
    <2>3. (size + 4 * len) % M = size + 4 * len
      BY <1>1, <1>2, <2>1, <2>2, SumFits
    <2>4. size + 4 * len \in Nat
      BY <1>1, <1>2, <2>1
    <2> QED
      BY <1>2, <1>3, <2>1, <2>3, <2>4, ModRange
  <1>5. (u + extra) % M = u + extra /\ u + extra <= DumpSize /\ u \in Nat
    BY <1>3, <1>4, MemoryFacts
  <1>6. /\ mem' = Terminate(WriteWords(at, Encode(r)), at + len)
        /\ sys_reg_size' = sys_reg_size + 4 * len
        /\ used_memory' = u + extra
        /\ UNCHANGED <<core_reg_num, core_reg_used_num, core_reg_end_index, store, formatted>>
    BY <1>5 DEF ConfigSystem
  <1>7. DOMAIN mem' = Words
    BY <1>6 DEF Terminate
  <1>8. used_memory' \in 0..DumpSize /\ u + 4 * len <= used_memory'
    <2> HIDE DEF extra, u, len, size, M
    <2> QED
      BY <1>1, <1>2, <1>4, <1>5, <1>6
  <1>9. TypeInv'
    BY <1>3, <1>6, <1>7, <1>8 DEF TypeInv
  <1>10. ASSUME NEW q \in Nat, Layout(q) PROVE Layout(q + len)'
    <2>1. /\ n \in Nat /\ core_reg_used_num \in 0..n
          /\ core_reg_end_index \in 4..4 + 2 * core_reg_used_num
          /\ mem[0] = INPUT_DATA_BY_HLOS /\ mem[1] = FORMAT_VERSION_2
          /\ mem[2] = 5 + 2 * n /\ mem[4 + 2 * n] = 0 /\ sys_reg_size = 4 * q
          /\ mem[3] = 4 * (6 + 2 * n + q) /\ mem[3] <= u
      BY <1>10 DEF Layout, MAGIC_INDEX, FORMAT_VERSION_INDEX, SYS_REG_INPUT_INDEX, OUTPUT_DUMP_INDEX
    <2>2. at = (5 + 2 * n + (4 * q) \div 4) % M
      BY <2>1 DEF SYS_REG_INPUT_INDEX
    <2> DEFINE k == at + len
               m == WriteWords(at, Encode(r))
    <2> HIDE DEF n, u, len, size, extra, M
    <2>3. at = 5 + 2 * n + q
      <3>1. 5 + 2 * n + (4 * q) \div 4 = 5 + 2 * n + q
        OBVIOUS
      <3>2. 5 + 2 * n + q \in 0..M - 1
        BY <1>1, <1>2, <1>5, <1>8, <2>1
      <3> QED
        BY <1>2, <2>2, <3>1, <3>2, ModSmall
    <2> HIDE DEF at
    <2>4. /\ k = 5 + 2 * n + (q + len) /\ k \in Nat /\ q + len \in Nat
          /\ 4 * (k + 1) <= used_memory' /\ (k + 1) * 4 \in 0..M - 1
          /\ 4 * (k + 1) <= DumpSize
      <3> DEFINE v == used_memory'
                 o == mem[3]
      <3>1. /\ v \in 0..DumpSize /\ u + 4 * len <= v /\ u \in Nat
            /\ o = 4 * (6 + 2 * n + q) /\ o <= u /\ n \in Nat
        BY <1>5, <1>8, <2>1
      <3> HIDE DEF v, o
      <3>2. k = 5 + 2 * n + (q + len) /\ k \in Nat /\ q + len \in Nat
        BY <1>1, <2>3, <3>1
      <3> HIDE DEF k
      <3>3. 4 * (k + 1) = o + 4 * len
        BY <1>1, <3>1, <3>2
      <3>4. 4 * (k + 1) <= v /\ 4 * (k + 1) <= DumpSize /\ (k + 1) * 4 \in 0..M - 1
        BY <1>1, <1>2, <3>1, <3>2, <3>3
      <3> QED
        BY <3>2, <3>4 DEF v
    <2>5. ((k + 1) * 4) % M = (k + 1) * 4
      BY <1>2, <2>4, ModSmall
    <2>6. \A i \in 0..k : i \in Words
      <3>1. ASSUME NEW i \in 0..k PROVE i \in Nat /\ 4 * (i + 1) <= DumpSize
        BY <1>2, <2>4
      <3> QED
        BY <3>1, WordIn
    <2>7. \A i \in Words : i < at => m[i] = mem[i]
      <3>1. at \in Int /\ len \in Nat
        BY <1>1, <2>1, <2>3
      <3> QED
        BY <3>1, WriteFacts DEF len
    <2>8. /\ 0 \in 0..k /\ 1 \in 0..k /\ 2 \in 0..k /\ 3 \in 0..k /\ 4 + 2 * n \in 0..k /\ k \in 0..k
          /\ 0 < at /\ 1 < at /\ 2 < at /\ 4 + 2 * n < at
          /\ k # 0 /\ k # 1 /\ k # 2 /\ k # 3 /\ k # 4 + 2 * n /\ 4 + 2 * n # 3
      BY <1>1, <2>1, <2>3, <2>4
    <2>9. mem' = [i \in Words |-> CASE i = 3 -> ((k + 1) * 4) % M
                                    [] i = k /\ i # 3 -> 0
                                    [] OTHER -> m[i]]
      BY <1>6 DEF Terminate, OUTPUT_DUMP_INDEX, M
    <2> HIDE DEF k, m
    <2>10. /\ \A i \in Words : i # 3 /\ i # k => mem'[i] = m[i]
           /\ 3 \in Words => mem'[3] = ((k + 1) * 4) % M
           /\ k \in Words /\ k # 3 => mem'[k] = 0
      BY <2>9
    <2>11. mem'[3] = 4 * (k + 1) /\ mem'[k] = 0
      <3>1. (k + 1) * 4 = 4 * (k + 1)
        BY <2>4
      <3> QED
        BY <2>5, <2>6, <2>8, <2>10, <3>1
    <2>12. mem'[0] = mem[0] /\ mem'[1] = mem[1] /\ mem'[2] = mem[2] /\ mem'[4 + 2 * n] = mem[4 + 2 * n]
      BY <2>6, <2>7, <2>8, <2>10
    <2>13. /\ core_reg_num' = n /\ sys_reg_size' = 4 * (q + len)
           /\ k = 5 + 2 * n + (q + len) /\ 4 * (k + 1) = 4 * (6 + 2 * n + (q + len))
      BY <1>1, <1>6, <2>1, <2>4 DEF n
    <2> QED
      BY <1>6, <2>1, <2>4, <2>11, <2>12, <2>13
         DEF Layout, MAGIC_INDEX, FORMAT_VERSION_INDEX, SYS_REG_INPUT_INDEX, OUTPUT_DUMP_INDEX
  <1>11. formatted' => \E q \in Nat : Layout(q)'
    <2> SUFFICES ASSUME formatted' PROVE \E q \in Nat : Layout(q)'
      OBVIOUS
    <2>1. PICK q \in Nat : Layout(q)
      BY <1>6 DEF IndInv
    <2>2. q + len \in Nat
      BY <1>1
    <2> QED
      BY <1>10, <2>1, <2>2
  <1> QED
    BY <1>9, <1>11 DEF IndInv

LEMMA InitIndInv == Init => IndInv
  BY Width DEF Init, IndInv, TypeInv

LEMMA NextIndInv ==
  ASSUME NumsFit, IndInv, [Next]_vars
  PROVE  IndInv'
  <1>1. CASE UNCHANGED vars
    BY <1>1 DEF vars, IndInv, TypeInv, Layout
  <1>2. ASSUME NEW p \in Writers, CoreRegNumUpdate(p) PROVE IndInv'
    <2>1. store[p] \in Nums /\ store' \in [Writers -> Nums \cup {Idle}]
      BY <1>2 DEF CoreRegNumUpdate, IndInv, TypeInv
    <2> QED
      BY <1>2, <2>1, UpdateKeeps DEF CoreRegNumUpdate
  <1>3. ASSUME NEW p \in Writers, NEW n \in Nums, CoreRegNumCheck(p, n) PROVE IndInv'
    <2>1. store' \in [Writers -> Nums \cup {Idle}]
      BY <1>3 DEF CoreRegNumCheck, IndInv, TypeInv
    <2> QED
      BY <1>3, <2>1 DEF CoreRegNumCheck, IndInv, TypeInv, Layout
  <1>4. CASE RegisterReset
    BY <1>4, UpdateKeeps DEF RegisterReset, IndInv, TypeInv
  <1>5. ASSUME NEW r \in Configs, ConfigPerCore(r) \/ ConfigSystem(r) PROVE IndInv'
    BY <1>5, PerCoreKeeps, SystemKeeps
  <1> QED
    BY <1>1, <1>2, <1>3, <1>4, <1>5 DEF Next

LEMMA IndInvImplies == IndInv => AreasDisjoint
  <1> SUFFICES ASSUME IndInv, formatted PROVE AreasDisjoint
    BY DEF AreasDisjoint
  <1>1. PICK q \in Nat : Layout(q)
    BY DEF IndInv
  <1> DEFINE n == core_reg_num
             start == mem[SYS_REG_INPUT_INDEX]
             end == start + sys_reg_size \div 4
  <1>2. /\ n \in Nat /\ core_reg_used_num \in 0..n
        /\ core_reg_end_index \in 4..4 + 2 * core_reg_used_num
        /\ mem[MAGIC_INDEX] = INPUT_DATA_BY_HLOS /\ mem[FORMAT_VERSION_INDEX] = FORMAT_VERSION_2
        /\ start = 5 + 2 * n /\ mem[4 + 2 * n] = 0 /\ sys_reg_size = 4 * q
        /\ mem[5 + 2 * n + q] = 0 /\ mem[OUTPUT_DUMP_INDEX] = 4 * (6 + 2 * n + q)
    BY <1>1 DEF Layout
  <1>3. 4 * (6 + 2 * n + q) <= DumpSize /\ \A i \in 0..5 + 2 * n + q : i \in Words
    BY <1>1, LayoutWords DEF IndInv
  <1>4. end = 5 + 2 * n + q /\ start - 1 = 4 + 2 * n
    <2>1. (4 * q) \div 4 = q
      OBVIOUS
    <2> QED
      BY <1>2, <2>1
  <1> HIDE DEF n
  <1>5. core_reg_end_index \in 4..4 + 2 * n /\ 5 + 2 * n + q \in 0..5 + 2 * n + q
    BY <1>2
  <1>6. mem[OUTPUT_DUMP_INDEX] = (end + 1) * 4 /\ mem[OUTPUT_DUMP_INDEX] <= DumpSize
    BY <1>2, <1>3, <1>4
  <1>7. end \in Words /\ mem[end] = 0 /\ mem[start - 1] = 0
    BY <1>2, <1>3, <1>4, <1>5
  <1>8. core_reg_end_index \in PERCORE_INDEX..start - 1
    BY <1>4, <1>5 DEF PERCORE_INDEX
  <1> QED
    BY <1>2, <1>6, <1>7, <1>8 DEF AreasDisjoint

(* Whatever user space stores in core_reg_num, register_config and
   register_reset, in whatever order, the header, the per-core registers, the
   system registers and the output keep to their own words of the dump memory,
   as long as no core_reg_num wraps around u32. *)
THEOREM AreasAlwaysDisjoint ==
  ASSUME NumsFit
  PROVE  Spec => []AreasDisjoint
  <1>1. IndInv /\ [Next]_vars => IndInv'
    BY NextIndInv
  <1> QED
    BY <1>1, InitIndInv, IndInvImplies, PTL DEF Spec

-----------------------------------------------------------------------------
(* The memory that is spoken for is the output that is to come. *)
AnswerInv ==
  formatted => answers \in Nat /\ used_memory = mem[OUTPUT_DUMP_INDEX] + answers

(* For an accepted register the size in u32 is the true one. *)
LEMMA AnswerFacts ==
  ASSUME NEW r \in Configs, Encodable(r)
  PROVE  ReserveSize(r) = AnswerSize(r) /\ AnswerSize(r) \in Nat
  <1> DEFINE M == 2^W
  <1>1. M \in Nat \ {0} /\ MAX_EXTRA_VALUE \in Nat /\ 4 * MAX_EXTRA_VALUE < M
    BY Width, DumpAssumption
  <1>2. r.val \in 0..M - 1
    BY DumpAssumption DEF U32
  <1>3. r.cmd = "R" => (r.val * 4) % M = r.val * 4
    <2> DEFINE v == r.val
    <2>1. v \in 0..M - 1 /\ (r.cmd = "R" => v <= MAX_EXTRA_VALUE)
      BY <1>2 DEF Encodable
    <2> HIDE DEF M, v
    <2> SUFFICES ASSUME r.cmd = "R" PROVE (v * 4) % M = v * 4
      BY DEF v
    <2>2. v * 4 \in 0..M - 1
      BY <1>1, <2>1
    <2> QED
      BY <1>1, <2>2, ModSmall
  <1>4. ReserveSize(r) = AnswerSize(r)
    BY <1>3 DEF ReserveSize, AnswerSize
  <1>5. AnswerSize(r) \in Nat
    <2> HIDE DEF M
    <2>1. r.val \in Nat /\ r.val * 4 \in Nat
      BY <1>1, <1>2
    <2> QED
      BY <2>1 DEF AnswerSize
  <1> QED
    BY <1>4, <1>5

(* A product that passes the test of register_config_store has not wrapped. *)
LEMMA ProductFits ==
  ASSUME NEW m \in Nat \ {0}, NEW a \in Nat, NEW k \in Nat \ {0},
         ((a * k) % m) \div k >= a
  PROVE  (a * k) % m = a * k
  <1> DEFINE x == a * k
             y == x % m
             q == y \div k
  <1>1. x \in Nat
    OBVIOUS
  <1>2. y \in Nat /\ y <= x
    <2> HIDE DEF x
    <2> QED
      BY <1>1, ModRange, ModLe
  <1>3. q >= a
    OBVIOUS
  <1>4. \A z, d \in Int : d > 0 => d * (z \div d) <= z
    OBVIOUS
  <1> HIDE DEF y
  <1>5. q \in Int /\ k * q <= y
    BY <1>2, <1>4
  <1> HIDE DEF q
  <1>6. k * a <= k * q
    BY <1>3, <1>5
  <1>7. k * a = x
    OBVIOUS
  <1> HIDE DEF x
  <1>8. k * a \in Int /\ k * q \in Int
    BY <1>5
  <1>9. y = x
    BY <1>1, <1>2, <1>5, <1>6, <1>7, <1>8
  <1> QED
    BY <1>9 DEF x, y

(* Where the output starts follows from the length of the list. *)
LEMMA OutputStart ==
  ASSUME NEW q \in Nat, Layout(q)
  PROVE  /\ mem[OUTPUT_DUMP_INDEX] = 4 * (6 + 2 * core_reg_num) + sys_reg_size
         /\ mem[OUTPUT_DUMP_INDEX] \in Nat /\ core_reg_num \in Nat /\ sys_reg_size \in Nat
  BY DEF Layout

LEMMA OutputStartNext ==
  ASSUME IndInv', formatted'
  PROVE  /\ mem'[OUTPUT_DUMP_INDEX] = 4 * (6 + 2 * core_reg_num') + sys_reg_size'
         /\ mem'[OUTPUT_DUMP_INDEX] \in Nat
  <1>1. PICK q \in Nat : Layout(q)'
    BY DEF IndInv
  <1> DEFINE n == core_reg_num'
             s == sys_reg_size'
             o == mem'[OUTPUT_DUMP_INDEX]
  <1>2. n \in Nat /\ s = 4 * q /\ o = 4 * (6 + 2 * n + q)
    BY <1>1 DEF Layout
  <1> HIDE DEF n, s, o
  <1>3. o = 4 * (6 + 2 * n) + s /\ o \in Nat
    BY <1>2
  <1> QED
    BY <1>3 DEF n, s, o

LEMMA NextAnswerInv ==
  ASSUME NumsFit, IndInv, IndInv', AnswerInv, [Next]_vars
  PROVE  AnswerInv'
  <1>1. CASE UNCHANGED vars
    BY <1>1 DEF vars, AnswerInv
  <1>2. ASSUME NEW n \in Nums \cup {CORE_REG_NUM_DEFAULT}, UpdateRegDumpTable(n) PROVE AnswerInv'
    <2>1. CASE ~TableFits(n)
      BY <1>2, <2>1 DEF UpdateRegDumpTable, AnswerInv
    <2>2. CASE TableFits(n)
      <3>1. /\ used_memory' = OutputOffset(n) /\ answers' = 0 /\ formatted' = TRUE
            /\ core_reg_num' = n /\ sys_reg_size' = 0
        BY <1>2, <2>2 DEF UpdateRegDumpTable
      <3>2. n \in Nat /\ 2 * n + 6 < 2^W
        <4>1. 2^W \in Nat \ {0} /\ CORE_REG_NUM_DEFAULT = 1
          BY Width DEF CORE_REG_NUM_DEFAULT
        <4>2. \A m \in U32 : m \in Nat
          BY <4>1 DEF U32
        <4> QED
          BY <4>1, <4>2, DumpAssumption DEF NumsFit
      <3>3. OutputOffset(n) = 4 * (6 + 2 * n)
        BY <2>2, <3>2, TableFacts
      <3>4. mem'[OUTPUT_DUMP_INDEX] = 4 * (6 + 2 * n) + 0
        BY <3>1, OutputStartNext
      <3> QED
        BY <3>1, <3>2, <3>3, <3>4 DEF AnswerInv
    <2> QED
      BY <2>1, <2>2
  <1>3. ASSUME NEW p \in Writers, CoreRegNumUpdate(p) PROVE AnswerInv'
    <2>1. store[p] \in Nums
      BY <1>3 DEF CoreRegNumUpdate, IndInv, TypeInv
    <2> QED
      BY <1>2, <1>3, <2>1 DEF CoreRegNumUpdate
  <1>4. ASSUME NEW p \in Writers, NEW n \in Nums, CoreRegNumCheck(p, n) PROVE AnswerInv'
    BY <1>4 DEF CoreRegNumCheck, AnswerInv
  <1>5. CASE RegisterReset
    BY <1>2, <1>5 DEF RegisterReset
  <1>6. ASSUME NEW r \in Configs, ConfigPerCore(r) \/ ConfigSystem(r), formatted'
        PROVE  answers' \in Nat /\ used_memory' = mem'[OUTPUT_DUMP_INDEX] + answers'
    <2> DEFINE M == 2^W
               u == used_memory
               o == mem[OUTPUT_DUMP_INDEX]
               s == sys_reg_size
               a == AnswerSize(r)
               n == 4 * (6 + 2 * core_reg_num)
    <2>1. formatted /\ core_reg_num' = core_reg_num
      BY <1>6 DEF ConfigPerCore, ConfigSystem
    <2>2. PICK q \in Nat : Layout(q)
      BY <2>1 DEF IndInv
    <2>3. /\ o = n + s /\ s \in Nat /\ n \in Nat
          /\ answers \in Nat /\ u = o + answers
      BY <2>1, <2>2, OutputStart DEF AnswerInv
    <2>4. mem'[OUTPUT_DUMP_INDEX] = n + sys_reg_size'
      BY <1>6, <2>1, OutputStartNext
    <2>5. M \in Nat \ {0} /\ TypeInv /\ NumCores \in Nat \ {0}
      BY Width, DumpAssumption DEF IndInv
    <2>6. ReserveSize(r) = a /\ a \in Nat
      BY <1>6, AnswerFacts DEF ConfigPerCore, ConfigSystem
    <2>7. CASE ConfigPerCore(r)
      <3> DEFINE e == (a * NumCores) % M
      <3>1. /\ e \div NumCores >= a /\ EnoughMemory(e)
            /\ used_memory' = (u + e) % M /\ sys_reg_size' = s
            /\ answers' = answers + a * NumCores
        BY <2>6, <2>7 DEF ConfigPerCore
      <3>2. e = a * NumCores /\ a * NumCores \in Nat /\ e \in 0..M - 1
        <4> HIDE DEF M, a
        <4>1. a * NumCores \in Nat
          BY <2>5, <2>6
        <4>2. e \in 0..M - 1
          BY <2>5, <4>1, ModRange
        <4> QED
          BY <2>5, <2>6, <3>1, <4>1, <4>2, ProductFits
      <3> HIDE DEF e
      <3>3. used_memory' = u + e
        BY <2>5, <3>1, <3>2, MemoryFacts
      <3> DEFINE w == a * NumCores
      <3>4. w \in Nat /\ answers' = answers + w /\ used_memory' = u + w
        BY <3>1, <3>2, <3>3
      <3> HIDE DEF w, u, o, s, n
      <3> QED
        BY <2>3, <2>4, <3>1, <3>4
    <2>8. CASE ConfigSystem(r)
      <3> DEFINE e == SystemExtra(r)
                 l == Len(Encode(r))
      <3>1. l \in {1, 2} /\ SystemWords(r) = l /\ a \in 0..M - 1
        BY <2>6, <2>8, ConfigFacts DEF ConfigSystem
      <3>2. /\ e = (4 * l + a) % M /\ e >= a /\ EnoughMemory(e)
            /\ used_memory' = (u + e) % M /\ sys_reg_size' = s + 4 * l
            /\ answers' = answers + a
        BY <2>6, <2>8, <3>1 DEF ConfigSystem, SystemExtra
      <3>3. e = 4 * l + a /\ e \in 0..M - 1
        <4>1. 8 < M
          <5>1. 2 * 1 + 6 < M
            BY DEF NumsFit, CORE_REG_NUM_DEFAULT
          <5> HIDE DEF M
          <5> QED
            BY <2>5, <5>1
        <4> HIDE DEF M, a, e, l
        <4>2. 4 * l \in 0..M - 1 /\ a + 4 * l = 4 * l + a /\ a + 4 * l \in Nat
          BY <2>5, <2>6, <3>1, <4>1
        <4>3. (a + 4 * l) % M = a + 4 * l
          BY <2>5, <3>1, <3>2, <4>2, SumFits
        <4>4. (a + 4 * l) % M \in 0..M - 1
          BY <2>5, <4>2, ModRange
        <4> QED
          BY <3>2, <4>2, <4>3, <4>4
      <3> HIDE DEF e, l
      <3>4. used_memory' = u + e
        BY <2>5, <3>2, <3>3, MemoryFacts
      <3> HIDE DEF a, u, o, s, n
      <3> QED
        BY <2>3, <2>4, <2>6, <3>1, <3>2, <3>3, <3>4
    <2> QED
      BY <1>6, <2>7, <2>8
  <1>7. ASSUME NEW r \in Configs, ConfigPerCore(r) \/ ConfigSystem(r) PROVE AnswerInv'
    BY <1>6, <1>7 DEF AnswerInv
  <1> QED
    BY <1>1, <1>3, <1>4, <1>5, <1>7 DEF Next

(* Behind the output offset that the header names there is room in the dump
   memory for what the firmware writes for every accepted register, although
   register_config_store checks nothing but u32 sums and products, as long as
   no core_reg_num wraps around u32. *)
THEOREM OutputAlwaysFits ==
  ASSUME NumsFit
  PROVE  Spec => []OutputFits
  <1> DEFINE I == IndInv /\ AnswerInv
  <1>1. Init => I
    BY InitIndInv DEF Init, AnswerInv
  <1>2. I /\ [Next]_vars => I'
    BY NextIndInv, NextAnswerInv
  <1>3. I => OutputFits
    <2> SUFFICES ASSUME I PROVE OutputFits
      OBVIOUS
    <2>1. used_memory <= DumpSize
      BY Width DEF IndInv, TypeInv
    <2> QED
      BY <2>1 DEF AnswerInv, OutputFits
  <1> QED
    BY <1>1, <1>2, <1>3, PTL DEF Spec

-----------------------------------------------------------------------------
(***************************************************************************)
(* Part 2, DumpTable, for tables of any size, any device trees and any     *)
(* number of drivers that call at any time.  First, an entry registered    *)
(* without another call beside it stays in the table, and until two calls  *)
(* overlap the table holds exactly the entries whose registration          *)
(* returned 0.                                                             *)
(*                                                                         *)
(* Calls that race may set the count back, so the count alone does not     *)
(* protect a slot.  The invariant adds that every call under way loaded    *)
(* its count after the entry was counted: it writes behind the entry, and  *)
(* the count it leaves includes it.                                        *)
(***************************************************************************)
Node == [size : Property, id : Property]

Records == [id : Property, addr : Nat]

CallRecords == [pc : {"idle", "write", "count"}, entry : Records, n : Nat]

TableTypeInv ==
  /\ nodes \in Seq(Node) /\ next \in Nat \ {0}
  /\ offset \in Nat \ {0}
  /\ num_entries \in Nat
  /\ Slots \subseteq DOMAIN entries
  /\ call \in [Callers -> CallRecords]
  /\ registered \subseteq Records

Busy(c) == call[c] # NoCall

(* A call under way that has met no other. *)
Alone(c) == Busy(c) /\ call[c].entry \notin met

(* Nothing has changed since it began. *)
AloneInv ==
  \A c \in Callers : Alone(c) =>
    /\ \A d \in Callers \ {c} : call[d] = NoCall
    /\ call[c].n = num_entries /\ num_entries < MAX_NUM_ENTRIES
    /\ call[c].pc = "count" => entries[num_entries] = call[c].entry

(* Entry e is in slot i, out of reach of the calls under way. *)
Kept(e, i) ==
  /\ i < num_entries /\ entries[i] = e
  /\ \A c \in Callers : Busy(c) => i < call[c].n

KeptInv == \A e \in registered \ met : \E i \in Slots : Kept(e, i)

(* The first k entries. *)
First(k) == {entries[i] : i \in 0..k - 1}

(* The counted slots are the registered entries, each in one slot. *)
Counted ==
  /\ IsFiniteSet(registered) /\ num_entries = Cardinality(registered)
  /\ registered = First(num_entries)

(* Before any two calls have met. *)
UnmetInv ==
  met = {} => /\ Counted /\ DOMAIN entries = Slots /\ num_entries <= MAX_NUM_ENTRIES
              /\ \A c \in Callers : Busy(c) => call[c].entry \notin registered

(* The memory behind offset is not registered yet. *)
Placed ==
  /\ \A e \in registered : e.addr < offset
  /\ \A c \in Callers : Busy(c) => call[c].entry.addr < offset

TableInv == TableTypeInv /\ AloneInv /\ KeptInv /\ UnmetInv /\ Placed

-----------------------------------------------------------------------------
LEMMA IdleRecord == NoCall \in CallRecords /\ NoCall.pc = "idle" /\ NoEntry \in Records
  <1>1. NoEntry \in Records
    BY DEF NoEntry, Records, Property
  <1> QED
    BY <1>1 DEF NoCall, CallRecords

LEMMA InitTableInv == TableInit => TableInv
  <1> SUFFICES ASSUME TableInit PROVE TableInv
    OBVIOUS
  <1>1. nodes \in Seq(Node)
    BY TableAssumption DEF TableInit, Node
  <1>2. offset \in Nat \ {0} /\ num_entries \in Nat /\ num_entries <= MAX_NUM_ENTRIES
    BY TableAssumption DEF TableInit
  <1>3. DOMAIN entries = Slots /\ call \in [Callers -> CallRecords] /\ registered = {}
    BY IdleRecord DEF TableInit
  <1>4. Counted
    <2>1. num_entries = 0
      BY DEF TableInit
    <2>2. {entries[i] : i \in 0..num_entries - 1} = {}
      BY <2>1
    <2> QED
      BY <1>3, <2>1, <2>2, FS_EmptySet DEF Counted, First
  <1>5. \A c \in Callers : ~Busy(c)
    BY DEF TableInit, Busy
  <1> QED
    BY <1>1, <1>2, <1>3, <1>4, <1>5
    DEF TableInit, TableInv, TableTypeInv, AloneInv, Alone, KeptInv, UnmetInv, Placed

(* A step that starts no call and ends none; the probe may skip a block. *)
LEMMA QuietKeeps ==
  ASSUME TableInv, UNCHANGED <<nodes, num_entries, entries, call, registered, met>>,
         next' \in Nat \ {0}, offset' \in Nat \ {0}, offset <= offset'
  PROVE  TableInv'
  <1>1. TableTypeInv' /\ AloneInv'
    BY DEF TableInv, TableTypeInv, AloneInv, Alone, Busy
  <1>2. KeptInv'
    BY DEF TableInv, KeptInv, Kept, Busy
  <1>3. UnmetInv'
    BY DEF TableInv, UnmetInv, Counted, First, Busy
  <1>4. Placed'
    BY DEF TableInv, TableTypeInv, Placed, Busy, CallRecords, Records
  <1> QED
    BY <1>1, <1>2, <1>3, <1>4 DEF TableInv

(* The probe places a block. *)
LEMMA CarveFacts ==
  ASSUME TableTypeInv, CarveBlock
  PROVE  /\ offset' \in Nat \ {0} /\ offset < offset' /\ next' \in Nat \ {0}
         /\ nodes[next].id \in Property
  <1>1. next \in 1..Len(nodes) /\ nodes \in Seq(Node)
    BY DEF TableTypeInv, CarveBlock
  <1>2. nodes[next] \in Node
    BY <1>1
  <1>3. nodes[next].size # NoProperty
    BY DEF CarveBlock
  <1>4. nodes[next].size \in Nat /\ nodes[next].id \in Property
    BY <1>2, <1>3 DEF Node, Property
  <1> DEFINE o == offset
             s == nodes[next].size
  <1>5. offset' = o + s + DataSize /\ o \in Nat \ {0} /\ next' = next + 1 /\ next \in Nat \ {0}
    BY DEF CarveBlock, TableTypeInv
  <1>6. s \in Nat /\ DataSize \in Nat \ {0}
    BY <1>4, TableAssumption
  <1> HIDE DEF o, s
  <1>7. offset' \in Nat \ {0} /\ o < offset'
    BY <1>5, <1>6
  <1> QED
    BY <1>4, <1>5, <1>7 DEF o

(* register_dump_table_entry begins: alone, or it meets those under way. *)
LEMMA CheckKeeps ==
  ASSUME TableInv, NEW c \in Callers, NEW e \in Records, RegisterCheck(c, e),
         e \notin registered, UNCHANGED <<nodes, num_entries, entries, registered>>,
         offset' \in Nat \ {0}, offset <= offset', e.addr < offset', next' \in Nat \ {0}
  PROVE  TableInv'
  <1> DEFINE v == [pc |-> "write", entry |-> e, n |-> num_entries]
  <1>1. /\ call' = [call EXCEPT ![c] = v] /\ num_entries < MAX_NUM_ENTRIES
        /\ met \subseteq met' /\ num_entries \in Nat
    BY DEF RegisterCheck, TableRoom, TableInv, TableTypeInv
  <1>2. v \in CallRecords /\ v.pc = "write" /\ v.n = num_entries /\ v.entry = e
    BY <1>1 DEF CallRecords
  <1> HIDE DEF v
  <1>3. /\ call' \in [Callers -> CallRecords] /\ call'[c] = v
        /\ \A d \in Callers \ {c} : call'[d] = call[d]
    BY <1>1, <1>2 DEF TableInv, TableTypeInv
  <1>4. \/ met' = met /\ \A d \in Callers \ {c} : call[d] = NoCall
        \/ e \in met' /\ \A d \in Callers \ {c} : Busy(d) => call[d].entry \in met'
    <2>1. CASE Meets(c) = {}
      BY <2>1 DEF RegisterCheck, Meets
    <2>2. CASE Meets(c) # {}
      <3>1. met' = met \cup Meets(c) \cup {e}
        BY <2>2 DEF RegisterCheck
      <3>2. \A d \in Callers \ {c} : Busy(d) => call[d].entry \in Meets(c)
        BY DEF Meets, Busy
      <3> QED
        BY <3>1, <3>2
    <2> QED
      BY <2>1, <2>2
  <1>5. TableTypeInv'
    BY <1>3 DEF TableInv, TableTypeInv
  <1>6. AloneInv'
    <2> SUFFICES ASSUME NEW d \in Callers, Alone(d)'
                 PROVE  /\ \A x \in Callers \ {d} : call'[x] = NoCall
                        /\ call'[d].n = num_entries /\ num_entries < MAX_NUM_ENTRIES
                        /\ call'[d].pc = "count" => entries[num_entries] = call'[d].entry
      BY DEF AloneInv
    <2>1. met' = met /\ \A x \in Callers \ {c} : call[x] = NoCall
      BY <1>2, <1>3, <1>4 DEF Alone, Busy
    <2>2. d = c
      BY <1>3, <2>1 DEF Alone, Busy
    <2> QED
      BY <1>1, <1>2, <1>3, <2>1, <2>2
  <1>7. KeptInv'
    <2> SUFFICES ASSUME NEW f \in registered \ met' PROVE \E i \in Slots : Kept(f, i)'
      BY DEF KeptInv
    <2>1. PICK i \in Slots : Kept(f, i)
      BY <1>1 DEF TableInv, KeptInv
    <2>2. i < num_entries' /\ entries'[i] = f
      BY <2>1 DEF Kept
    <2>3. \A d \in Callers : Busy(d)' => i < call'[d].n
      BY <1>2, <1>3, <2>1 DEF Kept, Busy
    <2> QED
      BY <2>2, <2>3 DEF Kept
  <1>8. UnmetInv'
    <2> SUFFICES ASSUME met' = {} PROVE /\ Counted' /\ DOMAIN entries' = Slots
                                        /\ num_entries' <= MAX_NUM_ENTRIES
                                        /\ \A d \in Callers : Busy(d)' => call'[d].entry \notin registered'
      BY DEF UnmetInv
    <2>1. met = {} /\ \A x \in Callers \ {c} : call[x] = NoCall
      BY <1>1, <1>4
    <2>2. Counted /\ DOMAIN entries = Slots /\ num_entries <= MAX_NUM_ENTRIES
      BY <2>1 DEF TableInv, UnmetInv
    <2> QED
      BY <1>2, <1>3, <2>1, <2>2 DEF Counted, First, Busy
  <1>9. Placed'
    <2>1. /\ offset \in Nat
          /\ \A f \in registered : f.addr \in Nat /\ f.addr < offset
          /\ \A d \in Callers : Busy(d) => call[d].entry.addr \in Nat /\ call[d].entry.addr < offset
      BY DEF TableInv, TableTypeInv, Placed, CallRecords, Records
    <2> QED
      BY <1>2, <1>3, <2>1 DEF Placed, Busy
  <1> QED
    BY <1>5, <1>6, <1>7, <1>8, <1>9 DEF TableInv

(* It writes to the slot of a count loaded since it began. *)
LEMMA WriteKeeps ==
  ASSUME TableInv, NEW c \in Callers, RegisterWrite(c)
  PROVE  TableInv'
  <1>1. Busy(c) /\ call[c].pc = "write" /\ call[c] \in CallRecords /\ num_entries \in Nat
    BY IdleRecord DEF RegisterWrite, Busy, TableInv, TableTypeInv
  <1>2. PICK k \in {call[c].n, num_entries} :
          /\ entries' = Written(k, call[c].entry)
          /\ call' = [call EXCEPT ![c].pc = "count", ![c].n = k]
    BY DEF RegisterWrite
  <1>3. UNCHANGED <<nodes, next, offset, num_entries, registered, met>>
    BY DEF RegisterWrite, sizing
  <1> DEFINE v == [call[c] EXCEPT !.pc = "count", !.n = k]
  <1>4. /\ v \in CallRecords /\ v.pc = "count" /\ v.n = k /\ v.entry = call[c].entry /\ k \in Nat
    BY <1>1 DEF CallRecords
  <1>5. call' = [call EXCEPT ![c] = v]
    BY <1>2 DEF TableInv, TableTypeInv
  <1> HIDE DEF v
  <1>6. /\ call' \in [Callers -> CallRecords] /\ call'[c] = v
        /\ \A d \in Callers \ {c} : call'[d] = call[d]
    BY <1>4, <1>5 DEF TableInv, TableTypeInv
  <1>7. /\ DOMAIN entries' = DOMAIN entries \cup {k} /\ entries'[k] = call[c].entry
        /\ \A i \in DOMAIN entries : i # k => entries'[i] = entries[i]
    BY <1>2 DEF Written
  <1>8. Alone(c) => /\ k = num_entries /\ num_entries < MAX_NUM_ENTRIES
                    /\ \A d \in Callers \ {c} : call[d] = NoCall
    BY DEF TableInv, AloneInv
  <1>9. TableTypeInv'
    BY <1>3, <1>6, <1>7 DEF TableInv, TableTypeInv
  <1>10. AloneInv'
    <2> SUFFICES ASSUME NEW d \in Callers, Alone(d)'
                 PROVE  /\ \A x \in Callers \ {d} : call'[x] = NoCall
                        /\ call'[d].n = num_entries' /\ num_entries' < MAX_NUM_ENTRIES
                        /\ call'[d].pc = "count" => entries'[num_entries'] = call'[d].entry
      BY DEF AloneInv
    <2>1. CASE d = c
      <3>1. Alone(c)
        BY <1>1, <1>3, <1>4, <1>6, <2>1 DEF Alone
      <3> QED
        BY <1>3, <1>4, <1>6, <1>7, <1>8, <2>1, <3>1
    <2>2. CASE d # c
      <3>1. Alone(d)
        BY <1>3, <1>6, <2>2 DEF Alone, Busy
      <3> QED
        BY <1>1, <2>2, <3>1 DEF TableInv, AloneInv, Busy
    <2> QED
      BY <2>1, <2>2
  <1>11. KeptInv'
    <2> SUFFICES ASSUME NEW f \in registered \ met PROVE \E i \in Slots : Kept(f, i)'
      BY <1>3 DEF KeptInv
    <2>1. PICK i \in Slots : Kept(f, i)
      BY DEF TableInv, KeptInv
    <2>2. i < k /\ i \in Nat /\ i \in DOMAIN entries
      BY <1>1, <2>1 DEF Kept, Slots, TableInv, TableTypeInv
    <2>3. i < num_entries' /\ entries'[i] = f
      BY <1>3, <1>4, <1>7, <2>1, <2>2 DEF Kept
    <2>4. \A d \in Callers : Busy(d)' => i < call'[d].n
      BY <1>4, <1>6, <2>1, <2>2 DEF Kept, Busy
    <2> QED
      BY <2>3, <2>4 DEF Kept
  <1>12. UnmetInv'
    <2> SUFFICES ASSUME met = {} PROVE /\ Counted' /\ DOMAIN entries' = Slots
                                       /\ num_entries' <= MAX_NUM_ENTRIES
                                       /\ \A d \in Callers : Busy(d)' => call'[d].entry \notin registered'
      BY <1>3 DEF UnmetInv
    <2>1. /\ Counted /\ DOMAIN entries = Slots /\ num_entries <= MAX_NUM_ENTRIES
          /\ \A d \in Callers : Busy(d) => call[d].entry \notin registered
      BY DEF TableInv, UnmetInv
    <2>2. k = num_entries /\ k \in Slots /\ \A i \in 0..num_entries - 1 : i \in Slots /\ i # k
      BY <1>1, <1>8, <2>1, TableAssumption DEF Alone, Slots
    <2>3. {entries'[i] : i \in 0..num_entries - 1} = {entries[i] : i \in 0..num_entries - 1}
      BY <1>7, <2>1, <2>2
    <2>4. Counted'
      BY <1>3, <2>1, <2>3 DEF Counted, First
    <2> QED
      BY <1>1, <1>3, <1>4, <1>6, <1>7, <2>1, <2>2, <2>4 DEF Busy
  <1>13. Placed'
    BY <1>1, <1>3, <1>4, <1>6 DEF TableInv, Placed, Busy
  <1> QED
    BY <1>9, <1>10, <1>11, <1>12, <1>13 DEF TableInv

(* It counts its entry, and the entry is registered. *)
LEMMA CountKeeps ==
  ASSUME TableInv, NEW c \in Callers, RegisterCount(c)
  PROVE  TableInv'
  <1> DEFINE e == call[c].entry
  <1>1. /\ Busy(c) /\ call[c].pc = "count" /\ call[c].n \in Nat /\ num_entries \in Nat
        /\ e \in Records /\ e.addr < offset
    BY IdleRecord DEF RegisterCount, Busy, TableInv, TableTypeInv, CallRecords, Placed
  <1>2. PICK k \in {call[c].n, num_entries} : num_entries' = k + 1
    BY DEF RegisterCount
  <1>3. /\ registered' = registered \cup {e} /\ call' = [call EXCEPT ![c] = NoCall]
        /\ UNCHANGED <<nodes, next, offset, entries, met>>
    BY DEF RegisterCount, sizing
  <1> HIDE DEF e
  <1>4. /\ call' \in [Callers -> CallRecords] /\ ~Busy(c)'
        /\ \A d \in Callers \ {c} : call'[d] = call[d]
    BY <1>3, IdleRecord DEF TableInv, TableTypeInv, Busy
  <1>5. e \notin met => /\ k = num_entries /\ num_entries < MAX_NUM_ENTRIES
                        /\ entries[num_entries] = e
                        /\ \A d \in Callers \ {c} : call[d] = NoCall
    BY <1>1 DEF TableInv, AloneInv, Alone, e
  <1>6. TableTypeInv'
    <2>1. k + 1 \in Nat
      BY <1>1
    <2> QED
      BY <1>1, <1>2, <1>3, <1>4, <2>1 DEF TableInv, TableTypeInv
  <1>7. AloneInv'
    <2> SUFFICES ASSUME NEW d \in Callers, Alone(d)' PROVE FALSE
      BY DEF AloneInv
    <2>1. d # c /\ Alone(d)
      BY <1>3, <1>4 DEF Alone, Busy
    <2> QED
      BY <1>1, <2>1 DEF TableInv, AloneInv, Busy
  <1>8. KeptInv'
    <2> SUFFICES ASSUME NEW f \in registered' \ met PROVE \E i \in Slots : Kept(f, i)'
      BY <1>3 DEF KeptInv
    <2>1. CASE f \in registered
      <3>1. PICK i \in Slots : Kept(f, i)
        BY <2>1 DEF TableInv, KeptInv
      <3>2. i < k /\ i \in Int /\ k \in Nat
        BY <1>1, <3>1, TableAssumption DEF Kept, Slots
      <3>3. i < num_entries' /\ entries'[i] = f
        BY <1>2, <1>3, <3>1, <3>2 DEF Kept
      <3>4. \A d \in Callers : Busy(d)' => i < call'[d].n
        BY <1>4, <3>1 DEF Kept, Busy
      <3> QED
        BY <3>3, <3>4 DEF Kept
    <2>2. CASE f = e
      <3>1. /\ k = num_entries /\ num_entries < MAX_NUM_ENTRIES /\ entries[num_entries] = e
            /\ \A d \in Callers \ {c} : call[d] = NoCall
        BY <1>5, <2>2
      <3>2. num_entries \in Slots /\ num_entries < num_entries'
        BY <1>1, <1>2, <3>1, TableAssumption DEF Slots
      <3>3. \A d \in Callers : ~Busy(d)'
        BY <1>4, <3>1 DEF Busy
      <3>4. \E i \in Slots : i < num_entries' /\ entries'[i] = f
        BY <1>3, <2>2, <3>1, <3>2
      <3> QED
        BY <3>3, <3>4 DEF Kept
    <2> QED
      BY <1>3, <2>1, <2>2
  <1>9. UnmetInv'
    <2> SUFFICES ASSUME met = {} PROVE /\ Counted' /\ DOMAIN entries' = Slots
                                       /\ num_entries' <= MAX_NUM_ENTRIES
                                       /\ \A d \in Callers : Busy(d)' => call'[d].entry \notin registered'
      BY <1>3 DEF UnmetInv
    <2> DEFINE N == num_entries
               R == registered
    <2>1. /\ IsFiniteSet(R) /\ N = Cardinality(R) /\ R = First(N) /\ N \in Nat
          /\ DOMAIN entries = Slots /\ e \notin R
      BY <1>1 DEF TableInv, UnmetInv, Counted, e
    <2>2. /\ N < MAX_NUM_ENTRIES /\ num_entries' = N + 1 /\ entries[N] = e
          /\ \A d \in Callers \ {c} : call[d] = NoCall
      BY <1>2, <1>5
    <2> HIDE DEF N, R
    <2>3. IsFiniteSet(R \cup {e}) /\ Cardinality(R \cup {e}) = N + 1
      BY <2>1, FS_AddElement
    <2>4. First(N + 1) = First(N) \cup {entries[N]}
      <3>1. 0..N + 1 - 1 = (0..N - 1) \cup {N}
        BY <2>1
      <3> QED
        BY <3>1 DEF First
    <2>5. First(num_entries)' = First(N + 1)
      BY <1>3, <2>2 DEF First
    <2>6. registered' = R \cup {e}
      BY <1>3 DEF R
    <2>7. Counted'
      BY <2>1, <2>2, <2>3, <2>4, <2>5, <2>6 DEF Counted
    <2>8. N + 1 <= MAX_NUM_ENTRIES
      BY <2>1, <2>2, TableAssumption
    <2> QED
      BY <1>3, <1>4, <2>1, <2>2, <2>7, <2>8 DEF Busy
  <1>10. Placed'
    BY <1>1, <1>3, <1>4 DEF TableInv, Placed, Busy
  <1> QED
    BY <1>6, <1>7, <1>8, <1>9, <1>10 DEF TableInv

LEMMA NextTableInv ==
  ASSUME TableInv, [TableNext]_table_vars
  PROVE  TableInv'
  <1>0. offset \in Nat \ {0} /\ next \in Nat \ {0} /\ offset <= offset
    BY DEF TableInv, TableTypeInv
  <1>1. CASE \/ NodeSize \/ InitMemoryDump \/ InitAppsTable \/ AllocFail
             \/ ProbeReturn \/ UNCHANGED table_vars
    <2>1. UNCHANGED <<nodes, next, offset, num_entries, entries, call, registered, met>>
      BY <1>1 DEF NodeSize, NodeSizeBy, InitMemoryDump, InitAppsTable, AllocFail, ProbeReturn,
                  table_vars, sizing
    <2> QED
      BY <1>0, <2>1, QuietKeeps
  <1>2. CASE NodeSkip
    <2>1. next' \in Nat \ {0}
      BY <1>0, <1>2 DEF NodeSkip
    <2> QED
      BY <1>0, <1>2, <2>1, QuietKeeps DEF NodeSkip, sizing
  <1>3. CASE NodeRegister
    <2> DEFINE e == [id |-> nodes[next].id, addr |-> offset]
    <2>1. /\ offset' \in Nat \ {0} /\ offset < offset' /\ next' \in Nat \ {0}
          /\ nodes[next].id \in Property /\ offset \in Nat
      BY <1>3, CarveFacts DEF NodeRegister, TableInv, TableTypeInv
    <2>2. e \in Records /\ e.addr = offset /\ e.addr < offset' /\ offset <= offset'
      BY <2>1 DEF Records
    <2>3. e \notin registered
      BY <2>1, <2>2 DEF TableInv, Placed
    <2>4. Probe \in Callers
      BY DEF Callers
    <2> QED
      BY <1>3, <2>1, <2>2, <2>3, <2>4, CheckKeeps DEF NodeRegister, sizing
  <1>4. CASE NodeFull
    <2>1. offset' \in Nat \ {0} /\ offset < offset' /\ next' \in Nat \ {0} /\ offset \in Nat
      BY <1>4, CarveFacts DEF NodeFull, TableInv, TableTypeInv
    <2>2. UNCHANGED <<nodes, num_entries, entries, call, registered, met>>
      BY <1>4 DEF NodeFull, sizing
    <2>3. offset <= offset'
      BY <2>1
    <2> QED
      BY <2>1, <2>2, <2>3, QuietKeeps
  <1>5. ASSUME NEW d \in Drivers, DriverRegister(d) PROVE TableInv'
    <2> DEFINE e == [id |-> d, addr |-> 0]
    <2>1. d \in Nat /\ d \in Callers
      BY TableAssumption DEF Callers
    <2>2. e \in Records /\ e.addr = 0 /\ e.id = d
      BY <2>1 DEF Records, Property
    <2>3. /\ UNCHANGED <<nodes, next, offset, num_entries, entries, registered>>
          /\ RegisterCheck(d, e) /\ e \notin registered
      BY <1>5 DEF DriverRegister, sizing
    <2>4. offset' \in Nat \ {0} /\ offset <= offset' /\ e.addr < offset' /\ next' \in Nat \ {0}
      BY <1>0, <2>2, <2>3
    <2> HIDE DEF e
    <2> QED
      BY <2>1, <2>2, <2>3, <2>4, CheckKeeps
  <1>6. ASSUME NEW c \in Callers, RegisterWrite(c) \/ RegisterCount(c) PROVE TableInv'
    BY <1>6, WriteKeeps, CountKeeps
  <1> QED
    BY <1>1, <1>2, <1>3, <1>4, <1>5, <1>6 DEF TableNext

(* However the callers of register_dump_table_entry interleave, an entry whose
   call overlapped no other is in a counted slot of the apps table for good.
   Until two calls overlap, nothing is written behind the table, and between
   calls it holds exactly the entries whose registration returned 0. *)
THEOREM EntriesAlwaysComplete == TableSpec => []EntriesComplete
  <1>1. TableInv /\ [TableNext]_table_vars => TableInv'
    BY NextTableInv
  <1>2. TableInv => EntriesComplete
    <2> SUFFICES ASSUME TableInv PROVE EntriesComplete
      OBVIOUS
    <2>1. \A e \in registered \ met : \E i \in Slots : i < num_entries /\ entries[i] = e
      BY DEF TableInv, KeptInv, Kept
    <2>2. met = {} => /\ DOMAIN entries = Slots /\ num_entries <= MAX_NUM_ENTRIES
                      /\ InTable = registered /\ num_entries = Cardinality(registered)
      BY DEF TableInv, UnmetInv, Counted, First, InTable
    <2> QED
      BY <2>1, <2>2 DEF EntriesComplete
  <1> QED
    BY <1>1, <1>2, InitTableInv, PTL DEF TableSpec

-----------------------------------------------------------------------------
(***************************************************************************)
(* The blocks of the second loop, with overlapping registrations or not.   *)
(* The first loop counts a node with a size; the second serves it only if  *)
(* it has an id too.  So what the second loop has handed out before a node *)
(* is never more than what the first had counted there, and the counts     *)
(* only grow.                                                              *)
(***************************************************************************)
(* What the first loop counts for a node. *)
Need(node) == IF HasSize(node) THEN node.size + DataSize ELSE 0

SizedInv ==
  /\ nodes \in Seq(Node)
  /\ total_size \in Nat /\ no_of_nodes \in Nat
  /\ counted \in Seq(Int) /\ Len(counted) \in 1..Len(nodes) + 1
  /\ counted[1] = 2 * TableSize
  /\ counted[Len(counted)] = total_size + DataSize * no_of_nodes
  /\ \A i \in 1..Len(counted) - 1 : counted[i + 1] = counted[i] + Need(nodes[i])
  /\ \A i \in 1..Len(counted) : counted[i] <= counted[Len(counted)]
  /\ memdump \in {"set", "apps"} => AllSized

BlocksApart(B) ==
  \A b, c \in B : b # c => \/ b.addr + DataSize + b.size <= c.addr
                           \/ c.addr + DataSize + c.size <= b.addr

CarvedInv ==
  /\ next \in 1..Len(nodes) + 1 /\ offset \in Nat
  /\ 2 * TableSize <= offset
  /\ blocks # {} => memdump = "apps"
  /\ next # 1 => memdump = "apps"
  /\ next <= Len(counted) /\ offset <= counted[next]
  /\ blocks \subseteq [id : Property, addr : Nat, size : Nat]
  /\ \A b \in blocks : b.addr >= 2 * TableSize /\ b.addr + DataSize + b.size <= offset
  /\ BlocksApart(blocks)

LEMMA NodeNeed ==
  ASSUME NEW node \in Node
  PROVE  Need(node) \in Nat /\ (HasSize(node) => node.size \in Nat)
  <1>1. DataSize \in Nat /\ node.size \in Nat \cup {NoProperty}
    BY TableAssumption DEF Node, Property
  <1>2. HasSize(node) => node.size \in Nat
    BY <1>1 DEF HasSize
  <1> QED
    BY <1>1, <1>2 DEF Need

(* ALIGN never makes a size smaller. *)
LEMMA AlignCovers ==
  ASSUME NEW n \in Nat, NEW a \in Nat \ {0}
  PROVE  n <= Align(n, a)
  <1>1. \A m \in Int : \A d \in Int : d > 0 => m - d < d * (m \div d)
    OBVIOUS
  <1> DEFINE q == (n + a - 1) \div a
  <1>2. n + a - 1 \in Int /\ a \in Int /\ a > 0 /\ q \in Int
    OBVIOUS
  <1>3. (n + a - 1) - a < a * q
    BY <1>1, <1>2
  <1>4. Align(n, a) = q * a /\ q * a = a * q /\ a * q \in Int
    BY <1>2 DEF Align
  <1> HIDE DEF q
  <1> QED
    BY <1>3, <1>4

LEMMA NodeSizeKeeps ==
  ASSUME SizedInv, CarvedInv, NodeSize
  PROVE  SizedInv' /\ CarvedInv'
  <1> DEFINE L == Len(counted)
             node == nodes[L]
             last == counted[L]
             t == counted'[L + 1]
  <1>1. /\ L \in 1..Len(nodes) /\ Len(nodes) \in Nat /\ memdump = "none" /\ nodes' = nodes
        /\ UNCHANGED <<nodes, memdump, next, offset, blocks>>
    BY DEF NodeSize, NodeSizeBy, SizedInv, AllSized
  <1>2. node \in Node /\ Need(node) \in Nat /\ (HasSize(node) => node.size \in Nat)
    BY <1>1, NodeNeed DEF SizedInv
  <1>3. /\ total_size' \in Nat /\ no_of_nodes' \in Nat
        /\ total_size' + DataSize * no_of_nodes' = last + Need(node)
    <2> DEFINE T == total_size
               K == no_of_nodes
    <2>1. T \in Nat /\ K \in Nat /\ DataSize \in Nat /\ last = T + DataSize * K
      BY TableAssumption DEF SizedInv
    <2>2. CASE HasSize(node)
      <3>1. total_size' = T + node.size /\ no_of_nodes' = K + 1 /\ Need(node) = node.size + DataSize
        BY <2>2 DEF NodeSize, NodeSizeBy, Need
      <3> DEFINE z == node.size
                 N == Need(node)
      <3>2. z \in Nat /\ total_size' = T + z /\ no_of_nodes' = K + 1 /\ N = z + DataSize
        BY <1>2, <2>2, <3>1
      <3> HIDE DEF z, T, K, N, last
      <3>3. DataSize * (K + 1) = DataSize * K + DataSize /\ DataSize * K \in Nat
        BY <2>1
      <3>4. T + z + DataSize * (K + 1) = last + N
        BY <2>1, <3>2, <3>3
      <3>5. total_size' + DataSize * no_of_nodes' = last + N
        BY <3>2, <3>4
      <3> QED
        BY <2>1, <3>2, <3>5 DEF N
    <2>3. CASE ~HasSize(node)
      BY <2>1, <2>3 DEF NodeSize, NodeSizeBy, Need
    <2> QED
      BY <2>2, <2>3
  <1>4. /\ counted' = Append(counted, last + Need(node))
        /\ counted \in Seq(Int) /\ last \in Int /\ L \in Nat
    BY <1>1, <1>3 DEF NodeSize, NodeSizeBy, SizedInv
  <1> DEFINE v == last + Need(node)
  <1>5. v \in Int /\ last <= v
    BY <1>2, <1>4
  <1>6. /\ counted' \in Seq(Int) /\ Len(counted') = L + 1 /\ counted'[L + 1] = v
        /\ \A i \in 1..L : counted'[i] = counted[i]
    <2> HIDE DEF v, last
    <2>1. counted' = Append(counted, v)
      BY <1>4 DEF v
    <2> QED
      BY <1>4, <1>5, <2>1
  <1>7. \A i \in 1..L : counted[i + 1]' = counted'[i] + Need(nodes[i])
    <2> SUFFICES ASSUME NEW i \in 1..L PROVE counted'[i + 1] = counted'[i] + Need(nodes[i])
      OBVIOUS
    <2>1. CASE i = L
      BY <1>6, <2>1
    <2>2. CASE i < L
      <3>1. i \in 1..L - 1 /\ i + 1 \in 1..L
        BY <1>1, <2>2
      <3>2. counted[i + 1] = counted[i] + Need(nodes[i])
        BY <3>1 DEF SizedInv
      <3> QED
        BY <1>6, <3>1, <3>2
    <2> QED
      BY <1>1, <2>1, <2>2
  <1>8. \A i \in 1..L + 1 : counted'[i] <= v
    <2> SUFFICES ASSUME NEW i \in 1..L + 1 PROVE counted'[i] <= v
      OBVIOUS
    <2>1. CASE i = L + 1
      BY <1>5, <1>6, <2>1
    <2>2. CASE i \in 1..L
      <3>1. counted[i] <= last /\ counted[i] \in Int
        BY <1>4, <2>2 DEF SizedInv
      <3> HIDE DEF v, last
      <3> QED
        BY <1>4, <1>5, <1>6, <2>2, <3>1
    <2> QED
      BY <1>1, <2>1, <2>2
  <1>9. counted'[1] = 2 * TableSize
    BY <1>1, <1>6 DEF SizedInv
  <1>10. SizedInv'
    <2>1. Len(counted)' \in 1..Len(nodes)' + 1 /\ Len(counted)' - 1 = L
      BY <1>1, <1>6
    <2>2. counted'[Len(counted')] = total_size' + DataSize * no_of_nodes'
      BY <1>3, <1>6
    <2>3. \A i \in 1..Len(counted)' - 1 : counted'[i + 1] = counted'[i] + Need(nodes[i])'
      <3>1. \A i \in 1..L : Need(nodes[i])' = Need(nodes[i])
        BY <1>1 DEF Need, HasSize
      <3> QED
        BY <1>7, <2>1, <3>1
    <2>4. \A i \in 1..Len(counted)' : counted'[i] <= counted'[Len(counted')]
      BY <1>6, <1>8
    <2>5. nodes' \in Seq(Node) /\ memdump' = "none"
      BY <1>1 DEF SizedInv
    <2> QED
      BY <1>3, <1>6, <1>9, <2>1, <2>2, <2>3, <2>4, <2>5 DEF SizedInv
  <1>11. CarvedInv'
    <2>1. next = 1 /\ offset <= counted[1] /\ blocks = {}
      BY <1>1 DEF CarvedInv
    <2>2. next' <= Len(counted)' /\ offset' <= counted'[next']
      BY <1>1, <1>6, <2>1
    <2> QED
      BY <1>1, <2>1, <2>2 DEF CarvedInv, BlocksApart
  <1> QED
    BY <1>10, <1>11

(* The second loop hands out the block of a node with a size and an id. *)
LEMMA CarveKeeps ==
  ASSUME SizedInv, CarvedInv, CarveBlock, UNCHANGED sizing, memdump = "apps", memdump' = memdump
  PROVE  CarvedInv'
  <1> DEFINE node == nodes[next]
             b == Block(node)
             o == offset
  <1>1. /\ next \in 1..Len(nodes) /\ Len(counted) = Len(nodes) + 1 /\ node \in Node
        /\ Len(nodes) \in Nat /\ nodes' = nodes /\ counted' = counted
    BY DEF SizedInv, CarvedInv, CarveBlock, AllSized, sizing
  <1>2. /\ HasSize(node) /\ node.size \in Nat /\ node.id \in Property
        /\ Need(node) = node.size + DataSize
    <2>1. node.size # NoProperty
      BY DEF CarveBlock
    <2>2. HasSize(node)
      BY <2>1 DEF HasSize
    <2> QED
      BY <1>1, <2>2, NodeNeed DEF Need, Node
  <1>3. counted[next + 1] = counted[next] + node.size + DataSize
    <2>1. next \in 1..Len(counted) - 1 /\ counted[next] \in Int
      BY <1>1 DEF SizedInv
    <2>2. counted[next + 1] = counted[next] + Need(node)
      BY <2>1 DEF SizedInv
    <2>3. DataSize \in Nat
      BY TableAssumption
    <2> HIDE DEF node
    <2> QED
      BY <1>2, <2>1, <2>2, <2>3
  <1>4. /\ offset' = o + node.size + DataSize /\ next' = next + 1 /\ blocks' = blocks \cup {b}
        /\ o \in Nat /\ 2 * TableSize <= o /\ o <= counted[next]
        /\ DataSize \in Nat \ {0} /\ 2 * TableSize \in Nat /\ counted[next] \in Int
    BY <1>1, TableAssumption DEF CarveBlock, CarvedInv, SizedInv
  <1>5. b.id = node.id /\ b.addr = o /\ b.size = node.size
        /\ b \in [id : Property, addr : Nat, size : Nat]
    BY <1>2, <1>4 DEF Block
  <1> DEFINE z == node.size
  <1>6. z \in Nat /\ offset' = o + z + DataSize /\ counted[next + 1] = counted[next] + z + DataSize
    BY <1>2, <1>3, <1>4
  <1> HIDE DEF z, node, b, o
  <1>7. /\ offset' \in Nat /\ 2 * TableSize <= offset' /\ offset' <= counted'[next'] /\ o <= offset'
    BY <1>1, <1>4, <1>6
  <1>8. next' \in 1..Len(nodes)' + 1 /\ next' <= Len(counted)'
    BY <1>1, <1>4
  <1>9. \A c \in blocks' : c.addr >= 2 * TableSize /\ c.addr + DataSize + c.size <= offset'
    <2> SUFFICES ASSUME NEW c \in blocks'
                 PROVE  c.addr >= 2 * TableSize /\ c.addr + DataSize + c.size <= offset'
      OBVIOUS
    <2>1. CASE c = b
      BY <1>4, <1>5, <1>6, <2>1 DEF z
    <2>2. CASE c \in blocks
      <3>1. /\ c.addr \in Nat /\ c.size \in Nat
            /\ c.addr >= 2 * TableSize /\ c.addr + DataSize + c.size <= o
        BY <2>2 DEF CarvedInv, o
      <3> QED
        BY <1>4, <1>7, <3>1
    <2> QED
      BY <1>4, <2>1, <2>2
  <1>10. BlocksApart(blocks')
    <2> SUFFICES ASSUME NEW c \in blocks', NEW d \in blocks', c # d
                 PROVE  \/ c.addr + DataSize + c.size <= d.addr
                        \/ d.addr + DataSize + d.size <= c.addr
      BY DEF BlocksApart
    <2>1. CASE c \in blocks /\ d \in blocks
      BY <2>1 DEF CarvedInv, BlocksApart
    <2>2. CASE c = b /\ d \in blocks
      BY <1>5, <2>2 DEF CarvedInv, o
    <2>3. CASE d = b /\ c \in blocks
      BY <1>5, <2>3 DEF CarvedInv, o
    <2> QED
      BY <1>4, <2>1, <2>2, <2>3
  <1>11. blocks' \subseteq [id : Property, addr : Nat, size : Nat]
    BY <1>4, <1>5 DEF CarvedInv
  <1>12. BlocksApart(blocks)'
    BY <1>10 DEF BlocksApart
  <1> QED
    BY <1>7, <1>8, <1>9, <1>11, <1>12 DEF CarvedInv

LEMMA NextBlocksInv ==
  ASSUME SizedInv, CarvedInv, [TableNext]_table_vars
  PROVE  SizedInv' /\ CarvedInv'
  <1>1. CASE NodeSize
    BY <1>1, NodeSizeKeeps
  <1>2. ASSUME UNCHANGED sizing, memdump' \in {"set", "apps"} => memdump \in {"set", "apps"} \/ AllSized
        PROVE  SizedInv'
    BY <1>2 DEF SizedInv, sizing, AllSized, Need, HasSize
  <1>3. ASSUME UNCHANGED sizing, UNCHANGED <<next, offset, blocks>>,
               memdump = "apps" => memdump' = "apps"
        PROVE  CarvedInv'
    BY <1>3 DEF CarvedInv, sizing, BlocksApart
  <1>4. CASE InitMemoryDump \/ InitAppsTable \/ AllocFail \/ ProbeReturn \/ UNCHANGED table_vars
    <2>1. /\ UNCHANGED sizing /\ UNCHANGED <<next, offset, blocks>>
          /\ memdump = "apps" => memdump' = "apps"
          /\ memdump' \in {"set", "apps"} => memdump \in {"set", "apps"} \/ AllSized
      BY <1>4 DEF InitMemoryDump, InitAppsTable, AllocFail, ProbeReturn, table_vars
    <2> QED
      BY <2>1, <1>2, <1>3
  <1>5. CASE NodeRegister \/ NodeFull
    <2>1. CarveBlock /\ UNCHANGED sizing /\ memdump = "apps" /\ memdump' = memdump
      BY <1>5 DEF NodeRegister, NodeFull, RegisterCheck
    <2> QED
      BY <2>1, <1>2, CarveKeeps
  <1>6. CASE NodeSkip
    <2>1. /\ UNCHANGED sizing /\ UNCHANGED <<offset, blocks, memdump>> /\ memdump = "apps"
          /\ next' = next + 1 /\ next <= Len(nodes)
      BY <1>6 DEF NodeSkip
    <2>2. next \in 1..Len(nodes) /\ Len(counted) = Len(nodes) + 1 /\ Len(nodes) \in Nat
      BY <2>1 DEF SizedInv, CarvedInv, AllSized
    <2>3. counted[next] \in Int /\ counted[next + 1] = counted[next] + Need(nodes[next])
          /\ nodes[next] \in Node
      BY <2>2 DEF SizedInv
    <2>4. Need(nodes[next]) \in Nat
      BY <2>3, NodeNeed
    <2> DEFINE x == Need(nodes[next])
    <2>5. x \in Nat /\ counted[next + 1] = counted[next] + x /\ offset \in Nat /\ offset <= counted[next]
      BY <2>3, <2>4 DEF CarvedInv
    <2> HIDE DEF x
    <2>6. offset <= counted[next + 1]
      BY <2>3, <2>5
    <2>7. nodes' = nodes /\ counted' = counted /\ next' \in 1..Len(nodes) + 1 /\ next' <= Len(counted)
      BY <2>1, <2>2 DEF sizing
    <2>8. CarvedInv'
      BY <2>1, <2>6, <2>7 DEF CarvedInv, BlocksApart
    <2> QED
      BY <2>1, <2>8, <1>2
  <1>7. CASE \/ \E d \in Drivers : DriverRegister(d)
             \/ \E c \in Callers : RegisterWrite(c) \/ RegisterCount(c)
    <2>1. UNCHANGED sizing /\ UNCHANGED <<next, offset, blocks, memdump>>
      BY <1>7 DEF DriverRegister, RegisterWrite, RegisterCount
    <2> QED
      BY <2>1, <1>2, <1>3
  <1> QED
    BY <1>1, <1>4, <1>5, <1>6, <1>7 DEF TableNext

LEMMA InitBlocksInv == TableInit => SizedInv /\ CarvedInv
  <1> SUFFICES ASSUME TableInit PROVE SizedInv /\ CarvedInv
    OBVIOUS
  <1>1. /\ nodes \in Seq(Node) /\ Len(nodes) \in Nat
        /\ TableSize \in Nat /\ DataSize \in Nat /\ 2 * TableSize \in Nat
    <2>1. nodes \in Seq(Node)
      BY TableAssumption DEF TableInit, Node
    <2> QED
      BY <2>1, TableAssumption
  <1>2. /\ counted = <<2 * TableSize>> /\ total_size = 2 * TableSize /\ no_of_nodes = 0
        /\ memdump = "none" /\ next = 1 /\ offset = 2 * TableSize /\ blocks = {}
    BY DEF TableInit
  <1>3. counted \in Seq(Int) /\ Len(counted) = 1 /\ counted[1] = 2 * TableSize
    BY <1>1, <1>2
  <1>4. total_size + DataSize * no_of_nodes = 2 * TableSize
    BY <1>1, <1>2
  <1>5. SizedInv
    BY <1>1, <1>2, <1>3, <1>4 DEF SizedInv
  <1>6. CarvedInv
    BY <1>1, <1>2, <1>3 DEF CarvedInv, BlocksApart
  <1> QED
    BY <1>5, <1>6

(* Every block mem_dump_alloc hands out lies, with its header, behind the two
   tables and inside the allocation, and no two blocks overlap, for every
   device tree: nodes without a size or an id included. *)
THEOREM BlocksAlwaysInside == TableSpec => []BlocksInside
  <1>1. SizedInv /\ CarvedInv /\ [TableNext]_table_vars => (SizedInv /\ CarvedInv)'
    BY NextBlocksInv
  <1>2. SizedInv /\ CarvedInv => BlocksInside
    <2> SUFFICES ASSUME SizedInv, CarvedInv PROVE BlocksInside
      OBVIOUS
    <2> DEFINE last == counted[Len(counted)]
               n == total_size + DataSize * no_of_nodes
    <2>1. /\ last = n /\ last \in Int /\ counted[next] \in Int /\ counted[next] <= last
          /\ offset \in Nat /\ offset <= counted[next]
      BY DEF SizedInv, CarvedInv
    <2>2. SZ_4K \in Nat \ {0} /\ DataSize \in Nat /\ n \in Nat
      BY <2>1, TableAssumption
    <2>3. n <= TotalSize /\ TotalSize \in Int
      <3> HIDE DEF n
      <3>1. n <= Align(n, SZ_4K) /\ Align(n, SZ_4K) \in Int
        BY <2>2, AlignCovers DEF Align
      <3> QED
        BY <3>1 DEF TotalSize, n
    <2> HIDE DEF last, n
    <2>4. offset <= TotalSize
      BY <2>1, <2>2, <2>3
    <2>5. \A b \in blocks : /\ b.addr >= 2 * TableSize
                            /\ b.addr + DataSize + b.size <= TotalSize
      <3> SUFFICES ASSUME NEW b \in blocks
                   PROVE  b.addr >= 2 * TableSize /\ b.addr + DataSize + b.size <= TotalSize
        OBVIOUS
      <3>1. /\ b.addr \in Nat /\ b.size \in Nat /\ b.addr >= 2 * TableSize
            /\ b.addr + DataSize + b.size <= offset
        BY DEF CarvedInv
      <3> QED
        BY <2>1, <2>2, <2>3, <2>4, <3>1
    <2> QED
      BY <2>5 DEF BlocksInside, CarvedInv, BlocksApart
  <1> QED
    BY <1>1, <1>2, InitBlocksInv, PTL DEF TableSpec

-----------------------------------------------------------------------------
(***************************************************************************)
(* Part 3, SprDump, for any number of CPUs and registers and dump memory   *)
(* of any size that holds the empty list: after the probe the lists are    *)
(* complete, terminated, and leave room for the firmware's answers.        *)
(*                                                                         *)
(* Nothing is claimed of what stores leave behind before the first reset;  *)
(* the reset has to undo all of it, the index included.                    *)
(***************************************************************************)
(* reset_sprs_dump_table writes an empty list without a look at the size of
   the memory, which the device tree gives. *)
EmptyFits == EmptySize <= SprSize

(* Memory m holds the list a of n registers, u bytes being spoken for. *)
Listed(m, n, u, a) ==
  /\ m \in [SprWords -> Int] /\ n \in Nat /\ u \in Nat
  /\ u = EmptySize + n * Reserved /\ u <= SprSize
  /\ m[MAGIC_INDEX] = INPUT_DATA_BY_HLOS
  /\ m[SYS_REG_INPUT_INDEX] = SPR_DATA_HEADER_SIZE
  /\ m[OUTPUT_DUMP_INDEX] = (SPR_DATA_HEADER_SIZE + n + SPR_INPUT_DATA_TAIL_SIZE) * 4
  /\ a \in Seq(Int) /\ Len(a) = n
  /\ \A i \in 1..n : m[SPR_DATA_HEADER_SIZE + i - 1] = a[i]
  /\ m[SPR_DATA_HEADER_SIZE + n] = 0

SprInv ==
  /\ sprs_data_index \in [Cpus -> Int] /\ DOMAIN spr_used_memory = Cpus
  /\ DOMAIN spr_mem = Cpus /\ DOMAIN accepted = Cpus
  /\ spr_probed => \A c \in Cpus :
       Listed(spr_mem[c], sprs_data_index[c], spr_used_memory[c], accepted[c])

LEMMA SprWordsBound ==
  ASSUME NEW k \in Nat, 4 * k + 4 <= SprSize
  PROVE  k \in SprWords
  <1>1. SprSize \in Nat /\ SprSize % 4 = 0
    BY SprAssumption
  <1>2. SprSize = 4 * (SprSize \div 4)
    BY <1>1
  <1> QED
    BY <1>1, <1>2 DEF SprWords

LEMMA ClearedListed ==
  ASSUME EmptyFits
  PROVE  Listed(Cleared, 0, EmptySize, <<>>)
  <1>1. SprSize \in Nat /\ Fill \in Nat /\ EmptySize = 24 /\ 24 <= SprSize
    BY SprAssumption, FillAssumption
    DEF EmptyFits, EmptySize, SPR_DATA_HEADER_SIZE, SPR_INPUT_DATA_TAIL_SIZE
  <1>2. 0 \in SprWords /\ 2 \in SprWords /\ 3 \in SprWords /\ 5 \in SprWords
    BY <1>1, SprWordsBound
  <1>3. Cleared \in [SprWords -> Int]
    BY <1>1 DEF Cleared, INPUT_DATA_BY_HLOS, FORMAT_VERSION_1, SYSTEM_REGS_INPUT_INDEX
  <1>4. /\ Cleared[0] = INPUT_DATA_BY_HLOS /\ Cleared[2] = 5 /\ Cleared[3] = 24 /\ Cleared[5] = 0
    BY <1>1, <1>2
    DEF Cleared, MAGIC_INDEX, FORMAT_VERSION_INDEX, SYS_REG_INPUT_INDEX, OUTPUT_DUMP_INDEX,
        PERCORE_INDEX, SYSTEM_REGS_INPUT_INDEX, SPR_DATA_HEADER_TAIL_SIZE, SPR_INPUT_DATA_TAIL_SIZE
  <1>5. Reserved = 12
    BY DEF Reserved, SPR_INPUT_DATA_SIZE, SPR_OUTPUT_DATA_SIZE
  <1>6. << >> \in Seq(Int) /\ Len(<< >>) = 0 /\ \A i \in 1..0 : FALSE
    OBVIOUS
  <1> QED
    BY <1>1, <1>3, <1>4, <1>5, <1>6
    DEF Listed, MAGIC_INDEX, SYS_REG_INPUT_INDEX, OUTPUT_DUMP_INDEX, SPR_DATA_HEADER_SIZE,
        SPR_INPUT_DATA_TAIL_SIZE

(* One accepted register more. *)
LEMMA StoreListed ==
  ASSUME NEW m, NEW n, NEW u, NEW a, Listed(m, n, u, a), SprSize > u + Reserved,
         NEW spr \in Int, NEW g,
         g = [i \in SprWords |->
                CASE i = OUTPUT_DUMP_INDEX ->
                       (SPR_DATA_HEADER_SIZE + n + SPR_INPUT_DATA_TAIL_SIZE + 1) * 4
                  [] i = SPR_DATA_HEADER_SIZE + n -> spr
                  [] i = SPR_DATA_HEADER_SIZE + n + 1 -> 0
                  [] OTHER -> m[i]]
  PROVE  Listed(g, n + 1, u + Reserved, Append(a, spr))
  <1> USE DEF MAGIC_INDEX, SYS_REG_INPUT_INDEX, OUTPUT_DUMP_INDEX, SPR_DATA_HEADER_SIZE,
              SPR_INPUT_DATA_TAIL_SIZE
  <1>0. /\ m \in [SprWords -> Int] /\ n \in Nat /\ a \in Seq(Int) /\ Len(a) = n
        /\ m[0] = INPUT_DATA_BY_HLOS /\ m[2] = 5
    BY Zenon DEF Listed
  <1>1. /\ n \in Nat /\ u \in Nat /\ Reserved = 12 /\ EmptySize = 24 /\ SprSize \in Nat
        /\ u = 24 + n * 12 /\ SprSize > 36 + 12 * n
    BY SprAssumption DEF Listed, Reserved, EmptySize, SPR_INPUT_DATA_SIZE, SPR_OUTPUT_DATA_SIZE
  <1>2. \A k \in Nat : k <= 6 + n => k \in SprWords
    <2> SUFFICES ASSUME NEW k \in Nat, k <= 6 + n PROVE k \in SprWords
      OBVIOUS
    <2>1. 4 * k + 4 <= SprSize
      BY <1>1
    <2> QED
      BY <2>1, SprWordsBound
  <1>3. g = [i \in SprWords |->
               CASE i = 3 -> (7 + n) * 4 [] i = 5 + n -> spr [] i = 6 + n -> 0 [] OTHER -> m[i]]
    BY <1>1
  <1>4. /\ g[3] = (7 + n) * 4 /\ g[5 + n] = spr /\ g[6 + n] = 0
    BY <1>1, <1>2, <1>3
  <1>5. \A k \in Nat : k < 5 + n /\ k # 3 => g[k] = m[k]
    BY <1>1, <1>2, <1>3
  <1>6. g \in [SprWords -> Int]
    <2>1. m \in [SprWords -> Int] /\ (7 + n) * 4 \in Int
      BY <1>0
    <2> QED
      BY <1>3, <2>1
  <1>7. g[0] = INPUT_DATA_BY_HLOS /\ g[2] = 5
    <2>1. 0 \in Nat /\ 0 < 5 + n /\ 0 # 3 /\ 2 \in Nat /\ 2 < 5 + n /\ 2 # 3
      BY <1>0
    <2>2. g[0] = m[0] /\ g[2] = m[2]
      BY <1>5, <2>1, Zenon
    <2> QED
      BY <1>0, <2>2, Zenon
  <1> DEFINE b == Append(a, spr)
  <1>8. /\ b \in Seq(Int) /\ Len(b) = n + 1 /\ b[n + 1] = spr /\ \A i \in 1..n : b[i] = a[i]
    BY <1>0
  <1>9. \A i \in 1..n + 1 : g[5 + i - 1] = b[i]
    <2> HIDE DEF b
    <2> SUFFICES ASSUME NEW i \in 1..n + 1 PROVE g[5 + i - 1] = b[i]
      OBVIOUS
    <2>1. CASE i = n + 1
      <3>1. 5 + i - 1 = 5 + n
        BY <1>1, <2>1
      <3> QED
        BY <1>4, <1>8, <2>1, <3>1
    <2>2. CASE i \in 1..n
      <3>1. 5 + i - 1 \in Nat /\ 5 + i - 1 < 5 + n /\ 5 + i - 1 # 3
        BY <1>1, <2>2
      <3>2. m[5 + i - 1] = a[i]
        BY <2>2 DEF Listed
      <3> QED
        BY <1>5, <1>8, <2>2, <3>1, <3>2
    <2> QED
      BY <1>1, <2>1, <2>2
  <1>10. u + Reserved = EmptySize + (n + 1) * Reserved /\ u + Reserved <= SprSize /\ n + 1 \in Nat
         /\ u + Reserved \in Nat
    BY <1>1
  <1>11. 5 + (n + 1) = 6 + n /\ (5 + (n + 1) + 1) * 4 = (7 + n) * 4
    BY <1>1
  <1> HIDE DEF b
  <1>12. Listed(g, n + 1, u + Reserved, b)
    BY <1>4, <1>6, <1>7, <1>8, <1>9, <1>10, <1>11 DEF Listed
  <1> QED
    BY <1>12 DEF b

LEMMA NextSprInv ==
  ASSUME EmptyFits, SprInv, [SprNext]_spr_vars
  PROVE  SprInv'
  <1>1. CASE ResetSprsDumpTable
    <2>1. /\ \A c \in Cpus : /\ spr_mem'[c] = Cleared /\ sprs_data_index'[c] = 0
                             /\ spr_used_memory'[c] = EmptySize /\ accepted'[c] = << >>
          /\ sprs_data_index' \in [Cpus -> Int] /\ DOMAIN spr_used_memory' = Cpus
          /\ DOMAIN spr_mem' = Cpus /\ DOMAIN accepted' = Cpus
      BY <1>1 DEF ResetSprsDumpTable
    <2> QED
      BY <2>1, ClearedListed DEF SprInv
  <1>2. ASSUME NEW c \in Cpus, NEW spr \in Sprs, SprConfig(c, spr) PROVE SprInv'
    <2> DEFINE n == sprs_data_index[c]
               u == spr_used_memory[c]
               m == spr_mem[c]
               a == accepted[c]
               g == [i \in SprWords |->
                       CASE i = OUTPUT_DUMP_INDEX ->
                              (SPR_DATA_HEADER_SIZE + n + SPR_INPUT_DATA_TAIL_SIZE + 1) * 4
                         [] i = SPR_DATA_HEADER_SIZE + n -> spr
                         [] i = SPR_DATA_HEADER_SIZE + n + 1 -> 0
                         [] OTHER -> m[i]]
    <2>1. /\ SprSize > u + Reserved /\ spr_probed' = spr_probed
          /\ spr_mem' = [spr_mem EXCEPT ![c] = g]
          /\ sprs_data_index' = [sprs_data_index EXCEPT ![c] = n + 1]
          /\ spr_used_memory' = [spr_used_memory EXCEPT ![c] = u + Reserved]
          /\ accepted' = [accepted EXCEPT ![c] = Append(a, spr)]
      BY <1>2 DEF SprConfig, Fits
    <2> DEFINE b == Append(a, spr)
               v == u + Reserved
    <2> HIDE DEF g, b, v
    <2>2. /\ spr_mem'[c] = g /\ sprs_data_index'[c] = n + 1 /\ spr_used_memory'[c] = v
          /\ accepted'[c] = b
          /\ \A d \in Cpus : d # c => /\ spr_mem'[d] = spr_mem[d]
                                      /\ sprs_data_index'[d] = sprs_data_index[d]
                                      /\ spr_used_memory'[d] = spr_used_memory[d]
                                      /\ accepted'[d] = accepted[d]
          /\ sprs_data_index' \in [Cpus -> Int] /\ DOMAIN spr_used_memory' = Cpus
          /\ DOMAIN spr_mem' = Cpus /\ DOMAIN accepted' = Cpus
      <3>1. n + 1 \in Int
        BY DEF SprInv
      <3> QED
        BY <2>1, <3>1 DEF SprInv, b, v
    <2>3. ASSUME spr_probed PROVE Listed(g, n + 1, v, b)
      <3>1. Listed(m, n, u, a) /\ spr \in Int
        BY <2>3, SprAssumption DEF SprInv
      <3> HIDE DEF m, n, u, a
      <3> QED
        BY <2>1, <3>1, StoreListed DEF g, b, v
    <2> QED
      BY <2>1, <2>2, <2>3 DEF SprInv
  <1>3. CASE UNCHANGED spr_vars
    BY <1>3 DEF SprInv, spr_vars
  <1> QED
    BY <1>1, <1>2, <1>3 DEF SprNext, ProbeReset, SprsRegisterReset

(* After the probe each CPU's memory holds the header, the registers that
   spr_config_store accepted since the last reset, in order, a zero word, and
   room for the answers, provided it holds the empty list. *)
THEOREM SprListsAlwaysComplete ==
  ASSUME EmptyFits
  PROVE  SprSpec => []SprListComplete
  <1>1. SprInit => SprInv
    BY DEF SprInit, SprInv
  <1>2. SprInv /\ [SprNext]_spr_vars => SprInv'
    BY NextSprInv
  <1>3. SprInv => SprListComplete
    <2> SUFFICES ASSUME SprInv, spr_probed, NEW c \in Cpus
                 PROVE  LET n == sprs_data_index[c] IN
                        /\ spr_mem[c][MAGIC_INDEX] = INPUT_DATA_BY_HLOS
                        /\ spr_mem[c][SYS_REG_INPUT_INDEX] = SPR_DATA_HEADER_SIZE
                        /\ SprConfigShow(c) = accepted[c]
                        /\ spr_mem[c][SPR_DATA_HEADER_SIZE + n] = 0
                        /\ spr_mem[c][OUTPUT_DUMP_INDEX]
                             = (SPR_DATA_HEADER_SIZE + n + SPR_INPUT_DATA_TAIL_SIZE) * 4
                        /\ spr_mem[c][OUTPUT_DUMP_INDEX] + n * SPR_OUTPUT_DATA_SIZE * 4 <= SprSize
      BY DEF SprListComplete
    <2> DEFINE n == sprs_data_index[c]
               m == spr_mem[c]
               a == accepted[c]
    <2>1. Listed(m, n, spr_used_memory[c], a)
      BY DEF SprInv
    <2>2. SprConfigShow(c) = [i \in 1..n |-> m[SPR_DATA_HEADER_SIZE + i - 1]]
      BY DEF SprConfigShow
    <2> HIDE DEF n, m, a
    <2>3. [i \in 1..n |-> m[SPR_DATA_HEADER_SIZE + i - 1]] = a
      <3>1. a \in Seq(Int) /\ Len(a) = n /\ n \in Nat
            /\ \A i \in 1..n : m[SPR_DATA_HEADER_SIZE + i - 1] = a[i]
        BY <2>1 DEF Listed
      <3>2. a = [i \in 1..n |-> a[i]]
        BY <3>1
      <3> QED
        BY <3>1, <3>2
    <2>4. m[OUTPUT_DUMP_INDEX] + n * SPR_OUTPUT_DATA_SIZE * 4 <= SprSize
      <3>1. /\ n \in Nat /\ SprSize \in Nat /\ 24 + n * 12 <= SprSize
            /\ m[OUTPUT_DUMP_INDEX] = (6 + n) * 4
        BY <2>1, SprAssumption
        DEF Listed, Reserved, EmptySize, SPR_INPUT_DATA_SIZE, SPR_OUTPUT_DATA_SIZE,
            SPR_DATA_HEADER_SIZE, SPR_INPUT_DATA_TAIL_SIZE
      <3> QED
        BY <3>1 DEF SPR_OUTPUT_DATA_SIZE
    <2> QED
      BY <2>1, <2>2, <2>3, <2>4 DEF Listed, n, m, a
  <1> QED
    BY <1>1, <1>2, <1>3, PTL DEF SprSpec
=============================================================================
