----------------------------- MODULE ElfHeader -----------------------------
(***************************************************************************)
(* The ELF header of the minidump: the section headers, the program        *)
(* headers and the string table that msm_minidump.c keeps so that a parser *)
(* can find every registered region in the dump.  The three operations on  *)
(* it (add, update, clear) are operators from a header to a header; the    *)
(* SMEM driver and the resource-manager driver both use them.              *)
(*                                                                         *)
(* A header is a record                                                    *)
(*   e_shnum, e_phnum   how many section and program headers are in use    *)
(*   shdr, phdr         the two header arrays                              *)
(*   elf_offset         where the next region's bytes go in the dump       *)
(*   strtab             the string table: start offset -> name             *)
(*   strtable_idx       the first free offset of the string table          *)
(*                                                                         *)
(* The first FIXED_SECTIONS sections (NULL, STR_TBL, minidump_table,       *)
(* linux_banner) and the first program header (linux_banner) are written   *)
(* by msm_minidump_add_header.  They never match a region: their names are *)
(* not region names and the banner's size, 6 bytes, is not aligned.        *)
(***************************************************************************)
EXTENDS Integers, FiniteSets, FiniteSetsExt

CONSTANTS
  MAX_NUM_ENTRIES,  \* slots of every region table (CONFIG_MINIDUMP_MAX_ENTRIES + 1)
  MAX_NAME_LENGTH,  \* longest name validate_region accepts
  Names,            \* the names regions are registered under
  NameLen,          \* strlen of each name
  Regions,          \* the regions callers register, move and remove
  ElfhSize,         \* size of the header buffer: where the first region goes
  StrBase           \* string table offset after the fixed section names

(* The name of a zeroed slot. *)
NoName == ""

(* What region 0 of the table of contents is called. *)
KelfHdr == "KELF_HDR"

ASSUME MaxAssumption == MAX_NUM_ENTRIES \in Nat \ {0}
ASSUME NamesAssumption ==
  /\ NoName \notin Names
  /\ KelfHdr \notin Names
  /\ NameLen \in [Names -> Nat \ {0}]
  /\ MAX_NAME_LENGTH \in Nat
ASSUME HeaderAssumption == ElfhSize \in Nat /\ StrBase \in Nat \ {0}

-----------------------------------------------------------------------------
(* struct md_region, without the id that nothing in the driver reads. *)
Region == [name : Names, virt_addr : Nat, phys_addr : Nat, size : Nat]

NoRegion == [name |-> NoName, virt_addr |-> 0, phys_addr |-> 0, size |-> 0]

(* No caller registers an empty region. *)
ASSUME RegionsAssumption ==
  /\ Regions \subseteq Region
  /\ \A e \in Regions : e.size > 0

(* validate_region: name length, a virtual address, 4-byte alignment. *)
ValidateRegion(e) ==
  /\ NameLen[e.name] <= MAX_NAME_LENGTH
  /\ e.virt_addr # 0
  /\ e.size % 4 = 0

(* memmove of the slots after k one slot down, memset of the last used one:
   how every table of the driver drops slot k of its first cnt slots. *)
RemoveSlot(a, k, cnt, zero) ==
  [i \in DOMAIN a |-> IF i = cnt - 1 THEN zero
                      ELSE IF k <= i /\ i < cnt - 1 THEN a[i + 1]
                      ELSE a[i]]

-----------------------------------------------------------------------------
FIXED_SECTIONS == 4
FIXED_PROGRAMS == 1

Section == [sh_name : Int, sh_addr : Nat, sh_size : Nat, sh_offset : Int]
Program == [p_offset : Int, p_vaddr : Nat, p_paddr : Nat, p_memsz : Nat]

NoSection == [sh_name |-> 0, sh_addr |-> 0, sh_size |-> 0, sh_offset |-> 0]
NoProgram == [p_offset |-> 0, p_vaddr |-> 0, p_paddr |-> 0, p_memsz |-> 0]

(* The buffer is sized for MAX_NUM_ENTRIES + 4 headers of each kind.  The
   driver lays the program headers out after MAX_NUM_ENTRIES section headers
   only; SectionsFit says whether the sections stay inside that area. *)
SectionIdx == 0..MAX_NUM_ENTRIES + 3
ProgramIdx == 0..MAX_NUM_ENTRIES + 3

ElfTypeOK(elf) ==
  /\ DOMAIN elf = {"e_shnum", "e_phnum", "shdr", "phdr", "elf_offset",
                   "strtab", "strtable_idx"}
  /\ elf.e_shnum \in Nat
  /\ elf.e_phnum \in Nat
  /\ elf.shdr \in [SectionIdx -> Section]
  /\ elf.phdr \in [ProgramIdx -> Program]
  /\ elf.elf_offset \in Int
  /\ elf.strtable_idx \in Int
  /\ DOMAIN elf.strtab \subseteq Int
  /\ \A o \in DOMAIN elf.strtab : elf.strtab[o] \in Names

SectionsFit(elf) == elf.e_shnum <= MAX_NUM_ENTRIES

(* msm_minidump_add_header: the fixed sections and the banner's program. *)
AddHeader ==
  [e_shnum |-> FIXED_SECTIONS, e_phnum |-> FIXED_PROGRAMS,
   shdr |-> [i \in SectionIdx |-> NoSection],
   phdr |-> [i \in ProgramIdx |-> NoProgram],
   elf_offset |-> ElfhSize,
   strtab |-> [o \in {} |-> NoName],
   strtable_idx |-> StrBase]

(* elf_lookup_string: the string at an offset that is not past the table. *)
LookupString(elf, o) ==
  IF o <= elf.strtable_idx /\ o \in DOMAIN elf.strtab
  THEN elf.strtab[o] ELSE NoName

(* set_section_name: append the name, return the offset it starts at. *)
SetSectionName(elf, n) ==
  [o \in DOMAIN elf.strtab \cup {elf.strtable_idx} |->
     IF o = elf.strtable_idx THEN n ELSE elf.strtab[o]]

(* md_add_elf_header: one more section and one more program header, both at
   the current end of the dump. *)
AddElfHeader(elf, e) ==
  [e_shnum |-> elf.e_shnum + 1,
   e_phnum |-> elf.e_phnum + 1,
   shdr |-> [elf.shdr EXCEPT ![elf.e_shnum] =
               [sh_name |-> elf.strtable_idx, sh_addr |-> e.virt_addr,
                sh_size |-> e.size, sh_offset |-> elf.elf_offset]],
   phdr |-> [elf.phdr EXCEPT ![elf.e_phnum] =
               [p_offset |-> elf.elf_offset, p_vaddr |-> e.virt_addr,
                p_paddr |-> e.phys_addr, p_memsz |-> e.size]],
   elf_offset |-> elf.elf_offset + e.size,
   strtab |-> SetSectionName(elf, e.name),
   strtable_idx |-> elf.strtable_idx + NameLen[e.name] + 1]

(* md_update_elf_header: the headers are found by position alone, and only
   the addresses are written. *)
UpdateElfHeader(elf, entryno, e) ==
  [elf EXCEPT
     !.shdr = [@ EXCEPT ![entryno + FIXED_SECTIONS].sh_addr = e.virt_addr],
     !.phdr = [@ EXCEPT ![entryno + FIXED_PROGRAMS].p_vaddr = e.virt_addr,
                        ![entryno + FIXED_PROGRAMS].p_paddr = e.phys_addr]]

-----------------------------------------------------------------------------
(* Mutant of MatchingPrograms: the virtual address is compared. *)
MatchingProgramsByVirt(elf, e) ==
  {i \in 0..elf.e_phnum - 1 : /\ elf.phdr[i].p_vaddr = e.phys_addr
                              /\ elf.phdr[i].p_memsz = e.size}

(* msm_minidump_clear_headers.  The program header is found by physical
   address and size, the section by name, virtual address and size; the first
   match counts, and the two must lie at the same offset of the dump. *)
MatchingPrograms(elf, e) ==
  {i \in 0..elf.e_phnum - 1 : /\ elf.phdr[i].p_paddr = e.phys_addr
                              /\ elf.phdr[i].p_memsz = e.size}

MatchingSections(elf, e) ==
  {i \in 0..elf.e_shnum - 1 : /\ LookupString(elf, elf.shdr[i].sh_name) = e.name
                              /\ elf.shdr[i].sh_addr = e.virt_addr
                              /\ elf.shdr[i].sh_size = e.size}

CanClearHeaders(elf, e) ==
  /\ MatchingPrograms(elf, e) # {}
  /\ MatchingSections(elf, e) # {}
  /\ elf.shdr[Min(MatchingSections(elf, e))].sh_offset =
       elf.phdr[Min(MatchingPrograms(elf, e))].p_offset

(* Mutant of RemoveString: the later strings move one byte too few. *)
RemoveStringKeepNul(strtab, o, strln) ==
  LET kept == {q \in DOMAIN strtab : q < o}
      moved == {q - strln + 1 : q \in {r \in DOMAIN strtab : r > o}}
  IN [q \in kept \cup moved |-> IF q \in kept THEN strtab[q] ELSE strtab[q + strln - 1]]

(* The memmove that takes a string of the given length (NUL included) out of
   the string table: every later string moves down by that length. *)
RemoveString(strtab, o, strln) ==
  LET kept == {q \in DOMAIN strtab : q < o}
      moved == {q - strln : q \in {r \in DOMAIN strtab : r > o}}
  IN [q \in kept \cup moved |-> IF q \in kept THEN strtab[q] ELSE strtab[q + strln]]

(* A header after the cleared one: its bytes, and a section's name, move
   down by what was taken out. *)
MoveProgram(ph, esize) ==
  [p_offset |-> ph.p_offset - esize, p_vaddr |-> ph.p_vaddr,
   p_paddr |-> ph.p_paddr, p_memsz |-> ph.p_memsz]

MoveSection(sh, esize, strln) ==
  [sh_name |-> sh.sh_name - strln, sh_addr |-> sh.sh_addr,
   sh_size |-> sh.sh_size, sh_offset |-> sh.sh_offset - esize]

MovePrograms(elf, pidx, esize) ==
  [i \in ProgramIdx |-> IF pidx < i /\ i < elf.e_phnum
                        THEN MoveProgram(elf.phdr[i], esize) ELSE elf.phdr[i]]

MoveSections(elf, shidx, esize, strln) ==
  [i \in SectionIdx |-> IF shidx < i /\ i < elf.e_shnum
                        THEN MoveSection(elf.shdr[i], esize, strln) ELSE elf.shdr[i]]

(* The rest of msm_minidump_clear_headers, once both headers are found. *)
ClearHeaders(elf, e) ==
  LET pidx  == Min(MatchingPrograms(elf, e))
      shidx == Min(MatchingSections(elf, e))
      strln == NameLen[e.name] + 1
  IN [e_shnum |-> elf.e_shnum - 1,
      e_phnum |-> elf.e_phnum - 1,
      phdr |-> RemoveSlot(MovePrograms(elf, pidx, e.size),
                          pidx, elf.e_phnum, NoProgram),
      shdr |-> RemoveSlot(MoveSections(elf, shidx, e.size, strln),
                          shidx, elf.e_shnum, NoSection),
      elf_offset |-> elf.elf_offset - e.size,
      strtab |-> RemoveString(elf.strtab, elf.shdr[shidx].sh_name, strln),
      strtable_idx |-> elf.strtable_idx - strln]
=============================================================================
