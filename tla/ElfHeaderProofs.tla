-------------------------- MODULE ElfHeaderProofs --------------------------
(***************************************************************************)
(* Lemmas about the operations of ElfHeader, for both drivers.             *)
(*                                                                         *)
(* A header is well formed for k regions if both header arrays describe    *)
(* them in the same order, and if the regions in the dump and the names in *)
(* the string table are packed without a gap.  Then it is nothing but a    *)
(* table of k rows: adding appends a row, updating changes the addresses   *)
(* of one, and clearing takes one out, which is the one asked for although *)
(* the code looks its two halves up by different keys.                     *)
(***************************************************************************)
EXTENDS ElfHeader, NaturalsInduction, WellFoundedInduction, TLAPS

(* k pieces, the i-th of length l[i] at s[i], fill base..end - 1 in order. *)
Packed(s, l, k, base, end) ==
  /\ \A i \in 0..k - 1 : s[i] \in Int /\ l[i] \in Nat /\ l[i] > 0
  /\ \A i \in 0..k - 1 : s[i] + l[i] = IF i = k - 1 THEN end ELSE s[i + 1]
  /\ k > 0 => s[0] = base
  /\ k = 0 => end = base
  /\ \A i \in 0..k - 1 : base <= s[i] /\ s[i] + l[i] <= end
  /\ \A i, j \in 0..k - 1 : i < j => s[i] + l[i] <= s[j]

(* One more piece at the end. *)
LEMMA PackedAppend ==
  ASSUME NEW k \in Nat, NEW s, NEW l, NEW base \in Int, NEW end \in Int,
         Packed(s, l, k, base, end),
         NEW n \in Nat, n > 0, NEW s1, NEW l1,
         \A i \in 0..k - 1 : s1[i] = s[i] /\ l1[i] = l[i],
         s1[k] = end, l1[k] = n
  PROVE  Packed(s1, l1, k + 1, base, end + n)
  <1> USE DEF Packed
  <1>0. (k + 1) - 1 = k /\ 0..k = (0..k - 1) \cup {k}
    OBVIOUS
  <1>1. base <= end
    <2>1. CASE k = 0
      BY <2>1
    <2>2. CASE k > 0
      <3>1. 0 \in 0..k - 1
        BY <2>2
      <3> QED
        BY <3>1
    <2> QED
      BY <2>1, <2>2
  <1>2. \A i \in 0..k : s1[i] \in Int /\ l1[i] \in Nat /\ l1[i] > 0
    BY <1>0
  <1>3. \A i \in 0..k : s1[i] + l1[i] = IF i = k THEN end + n ELSE s1[i + 1]
    <2> SUFFICES ASSUME NEW i \in 0..k
                 PROVE  s1[i] + l1[i] = IF i = k THEN end + n ELSE s1[i + 1]
      OBVIOUS
    <2>1. CASE i = k
      BY <2>1
    <2>2. CASE i = k - 1
      BY <2>2
    <2>3. CASE i < k - 1
      <3>1. i \in 0..k - 1 /\ i + 1 \in 0..k - 1
        BY <2>3
      <3> QED
        BY <2>3, <3>1
    <2> QED
      BY <2>1, <2>2, <2>3
  <1>4. s1[0] = base
    <2>1. CASE k = 0
      BY <2>1
    <2>2. CASE k > 0
      BY <2>2
    <2> QED
      BY <2>1, <2>2
  <1>5. \A i \in 0..k : base <= s1[i] /\ s1[i] + l1[i] <= end + n
    <2> SUFFICES ASSUME NEW i \in 0..k PROVE base <= s1[i] /\ s1[i] + l1[i] <= end + n
      OBVIOUS
    <2>1. CASE i = k
      BY <1>1, <2>1
    <2>2. CASE i \in 0..k - 1
      <3>1. s1[i] = s[i] /\ l1[i] = l[i] /\ s[i] \in Int /\ l[i] \in Nat
        BY <2>2
      <3>2. base <= s[i] /\ s[i] + l[i] <= end
        BY <2>2
      <3> QED
        BY <3>1, <3>2
    <2> QED
      BY <1>0, <2>1, <2>2
  <1>6. \A i, j \in 0..k : i < j => s1[i] + l1[i] <= s1[j]
    <2> SUFFICES ASSUME NEW i \in 0..k, NEW j \in 0..k, i < j
                 PROVE  s1[i] + l1[i] <= s1[j]
      OBVIOUS
    <2>1. i \in 0..k - 1
      OBVIOUS
    <2>2. CASE j = k
      BY <2>1, <2>2
    <2>3. CASE j \in 0..k - 1
      BY <2>1, <2>3
    <2> QED
      BY <1>0, <2>2, <2>3
  <1> QED
    BY <1>0, <1>2, <1>3, <1>4, <1>5, <1>6

(* Piece m is taken out, and the pieces after it move down. *)
LEMMA PackedRemove ==
  ASSUME NEW k \in Nat, NEW s, NEW l, NEW base \in Int, NEW end \in Int,
         Packed(s, l, k, base, end),
         NEW m \in 0..k - 1, NEW s1, NEW l1,
         \A i \in 0..k - 2 : /\ s1[i] = IF i < m THEN s[i] ELSE s[i + 1] - l[m]
                             /\ l1[i] = IF i < m THEN l[i] ELSE l[i + 1]
  PROVE  Packed(s1, l1, k - 1, base, end - l[m])
  <1> USE DEF Packed
  <1>0. (k - 1) - 1 = k - 2 /\ \A i \in 0..k - 2 : i \in 0..k - 1 /\ i + 1 \in 0..k - 1
    OBVIOUS
  <1>m. s[m] \in Int /\ l[m] \in Nat /\ l[m] > 0
    OBVIOUS
  <1>1. \A i \in 0..k - 2 : s1[i] \in Int /\ l1[i] \in Nat /\ l1[i] > 0
    BY <1>0, <1>m
  <1>2. \A i \in 0..k - 2 : s1[i] + l1[i] = IF i = k - 2 THEN end - l[m] ELSE s1[i + 1]
    <2> SUFFICES ASSUME NEW i \in 0..k - 2
                 PROVE  s1[i] + l1[i] = IF i = k - 2 THEN end - l[m] ELSE s1[i + 1]
      OBVIOUS
    <2>1. CASE i = k - 2
      <3>1. CASE i < m
        <4>1. m = k - 1 /\ s[i] + l[i] = s[i + 1] /\ i + 1 = m
          BY <3>1, <2>1, <1>0
        <4>2. s[m] + l[m] = end
          BY <4>1
        <4> QED
          BY <4>1, <4>2, <3>1, <2>1, <1>0, <1>m
      <3>2. CASE ~(i < m)
        BY <3>2, <2>1, <1>0, <1>m
      <3> QED
        BY <3>1, <3>2
    <2>2. CASE i # k - 2
      <3>0. i + 1 \in 0..k - 2 /\ i + 2 \in 0..k - 1 /\ (i + 1) + 1 = i + 2
        BY <2>2
      <3>1. s[i] + l[i] = s[i + 1] /\ s[i + 1] + l[i + 1] = s[i + 2]
        BY <3>0, <1>0
      <3>2. CASE i + 1 < m
        BY <2>2, <3>0, <3>1, <3>2
      <3>3. CASE i + 1 = m
        BY <2>2, <3>0, <3>1, <3>3, <1>m
      <3>4. CASE m <= i
        BY <2>2, <3>0, <3>1, <3>4, <1>m
      <3> QED
        BY <3>2, <3>3, <3>4
    <2> QED
      BY <2>1, <2>2
  <1>3. k - 1 > 0 => s1[0] = base
    <2> SUFFICES ASSUME k - 1 > 0 PROVE s1[0] = base
      OBVIOUS
    <2>1. CASE m = 0
      <3>1. s[0] + l[0] = s[0 + 1]
        OBVIOUS
      <3> QED
        BY <2>1, <3>1, <1>m
    <2>2. CASE m > 0
      BY <2>2
    <2> QED
      BY <2>1, <2>2
  <1>4. k - 1 = 0 => end - l[m] = base
    BY <1>m
  <1>5. \A i \in 0..k - 2 : base <= s1[i] /\ s1[i] + l1[i] <= end - l[m]
    <2> SUFFICES ASSUME NEW i \in 0..k - 2
                 PROVE  base <= s1[i] /\ s1[i] + l1[i] <= end - l[m]
      OBVIOUS
    <2>1. CASE i < m
      <3>1. s[i] + l[i] <= s[m] /\ s[m] + l[m] <= end /\ base <= s[i]
        BY <2>1, <1>0
      <3> QED
        BY <2>1, <3>1, <1>0, <1>m
    <2>2. CASE m <= i
      <3>1. m < i + 1 /\ s[m] + l[m] <= s[i + 1] /\ base <= s[m] /\ s[i + 1] + l[i + 1] <= end
        BY <2>2, <1>0
      <3> QED
        BY <2>2, <3>1, <1>0, <1>m
    <2> QED
      BY <2>1, <2>2
  <1>6. \A i, j \in 0..k - 2 : i < j => s1[i] + l1[i] <= s1[j]
    <2> SUFFICES ASSUME NEW i \in 0..k - 2, NEW j \in 0..k - 2, i < j
                 PROVE  s1[i] + l1[i] <= s1[j]
      OBVIOUS
    <2>1. i + 1 \in 0..k - 1 /\ j + 1 \in 0..k - 1 /\ i \in 0..k - 1 /\ j \in 0..k - 1
      BY <1>0
    <2>2. CASE j < m
      BY <2>1, <2>2
    <2>3. CASE i < m /\ m <= j
      <3>1. s[i] + l[i] <= s[m] /\ s[m] + l[m] <= s[j + 1]
        BY <2>1, <2>3
      <3> QED
        BY <2>1, <2>3, <3>1, <1>m
    <2>4. CASE m <= i
      <3>1. s[i + 1] + l[i + 1] <= s[j + 1]
        BY <2>1
      <3> QED
        BY <2>1, <2>4, <3>1, <1>m
    <2> QED
      BY <2>2, <2>3, <2>4
  <1> QED
    BY <1>0, <1>1, <1>2, <1>3, <1>4, <1>5, <1>6
-----------------------------------------------------------------------------
(* The headers of region i, and what they say of it. *)
Sec(h, i) == h.shdr[i + FIXED_SECTIONS]
Prog(h, i) == h.phdr[i + FIXED_PROGRAMS]

NameAt(h, i) == h.strtab[Sec(h, i).sh_name]

Row(h, i) == [name |-> NameAt(h, i), virt_addr |-> Prog(h, i).p_vaddr,
              phys_addr |-> Prog(h, i).p_paddr, size |-> Prog(h, i).p_memsz]

(* Where the regions lie in the dump, and the names in the string table. *)
Offsets(h, k) == [i \in 0..k - 1 |-> Sec(h, i).sh_offset]
Lengths(h, k) == [i \in 0..k - 1 |-> Sec(h, i).sh_size]
NameStarts(h, k) == [i \in 0..k - 1 |-> Sec(h, i).sh_name]
NameSizes(h, k) == [i \in 0..k - 1 |-> NameLen[NameAt(h, i)] + 1]

(* The section and the program header of a region agree. *)
Paired(h, k) ==
  \A i \in 0..k - 1 : /\ Prog(h, i).p_offset = Sec(h, i).sh_offset
                      /\ Prog(h, i).p_vaddr = Sec(h, i).sh_addr
                      /\ Prog(h, i).p_memsz = Sec(h, i).sh_size

(* The string table holds the names of the sections and nothing else. *)
Named(h, k) ==
  /\ \A i \in 0..k - 1 : Sec(h, i).sh_name \in DOMAIN h.strtab
  /\ \A o \in DOMAIN h.strtab : \E i \in 0..k - 1 : o = Sec(h, i).sh_name

(* No fixed header can be taken for that of a region. *)
FixedApart(h) ==
  /\ \A i \in 0..FIXED_SECTIONS - 1 : h.shdr[i].sh_name = 0
  /\ h.phdr[0].p_memsz = 0

WellFormed(h, k) ==
  /\ ElfTypeOK(h)
  /\ h.e_shnum = k + FIXED_SECTIONS /\ h.e_phnum = k + FIXED_PROGRAMS
  /\ FixedApart(h) /\ Paired(h, k) /\ Named(h, k)
  /\ Packed(Offsets(h, k), Lengths(h, k), k, ElfhSize, h.elf_offset)
  /\ Packed(NameStarts(h, k), NameSizes(h, k), k, StrBase, h.strtable_idx)

-----------------------------------------------------------------------------
(* Dropping a slot of a table of S leaves a table of S. *)
LEMMA RemoveSlotType ==
  ASSUME NEW S, NEW m \in Int, NEW a \in [0..m -> S], NEW k, NEW cnt \in Int,
         cnt - 1 <= m, NEW zero \in S
  PROVE  RemoveSlot(a, k, cnt, zero) \in [0..m -> S]
  <1> SUFFICES ASSUME NEW i \in 0..m
               PROVE  RemoveSlot(a, k, cnt, zero)[i] \in S
    BY DEF RemoveSlot
  <1>1. CASE i < cnt - 1
    <2>1. a[i + 1] \in S /\ a[i] \in S
      BY <1>1
    <2> QED
      BY <2>1, <1>1 DEF RemoveSlot
  <1>2. CASE ~(i < cnt - 1)
    BY <1>2 DEF RemoveSlot
  <1> QED
    BY <1>1, <1>2

(* The ELF operations keep the header's type. *)
LEMMA AddElfHeaderType ==
  ASSUME NEW h, ElfTypeOK(h), NEW e \in Region
  PROVE  ElfTypeOK(AddElfHeader(h, e))
  <1> DEFINE g == AddElfHeader(h, e)
  <1>1. NameLen[e.name] \in Nat /\ e.size \in Nat /\ e.virt_addr \in Nat
        /\ e.phys_addr \in Nat /\ e.name \in Names
    BY NamesAssumption DEF Region
  <1>2. /\ DOMAIN g = DOMAIN h
        /\ g.e_shnum = h.e_shnum + 1
        /\ g.e_phnum = h.e_phnum + 1
        /\ g.elf_offset = h.elf_offset + e.size
        /\ g.strtab = SetSectionName(h, e.name)
        /\ g.strtable_idx = h.strtable_idx + NameLen[e.name] + 1
    BY DEF AddElfHeader, ElfTypeOK
  <1>3. g.shdr \in [SectionIdx -> Section]
    BY <1>1 DEF AddElfHeader, ElfTypeOK, Section
  <1>4. g.phdr \in [ProgramIdx -> Program]
    BY <1>1 DEF AddElfHeader, ElfTypeOK, Program
  <1>5. /\ DOMAIN g.strtab \subseteq Int
        /\ \A o \in DOMAIN g.strtab : g.strtab[o] \in Names
    BY <1>1, <1>2 DEF ElfTypeOK, SetSectionName
  <1> QED
    BY <1>1, <1>2, <1>3, <1>4, <1>5 DEF ElfTypeOK

(* md_update_elf_header writes addresses at positions that exist. *)
LEMMA UpdateElfHeaderType ==
  ASSUME NEW h, ElfTypeOK(h), NEW e \in Region, NEW r \in Int
  PROVE  /\ ElfTypeOK(UpdateElfHeader(h, r, e))
         /\ UpdateElfHeader(h, r, e).e_shnum = h.e_shnum
         /\ UpdateElfHeader(h, r, e).e_phnum = h.e_phnum
  <1> DEFINE g == UpdateElfHeader(h, r, e)
  <1>1. e.virt_addr \in Nat /\ e.phys_addr \in Nat
    BY DEF Region
  <1>2. /\ DOMAIN g = DOMAIN h
        /\ g.e_shnum = h.e_shnum
        /\ g.e_phnum = h.e_phnum
        /\ g.elf_offset = h.elf_offset
        /\ g.strtab = h.strtab
        /\ g.strtable_idx = h.strtable_idx
    BY DEF UpdateElfHeader, ElfTypeOK
  <1>3. g.shdr \in [SectionIdx -> Section]
    BY <1>1 DEF UpdateElfHeader, ElfTypeOK, Section
  <1>4. g.phdr \in [ProgramIdx -> Program]
    BY <1>1 DEF UpdateElfHeader, ElfTypeOK, Program
  <1> QED
    BY <1>2, <1>3, <1>4 DEF ElfTypeOK

(* msm_minidump_clear_headers, when it finds both headers. *)
LEMMA ClearHeadersType ==
  ASSUME NEW h, ElfTypeOK(h), NEW e \in Region, CanClearHeaders(h, e),
         h.e_shnum <= MAX_NUM_ENTRIES + 4, h.e_phnum <= MAX_NUM_ENTRIES + 4
  PROVE  /\ ElfTypeOK(ClearHeaders(h, e))
         /\ ClearHeaders(h, e).e_shnum = h.e_shnum - 1
         /\ ClearHeaders(h, e).e_phnum = h.e_phnum - 1
  <1> DEFINE g == ClearHeaders(h, e)
             pidx == Min(MatchingPrograms(h, e))
             shidx == Min(MatchingSections(h, e))
             strln == NameLen[e.name] + 1
             phdrs == MovePrograms(h, pidx, e.size)
             shdrs == MoveSections(h, shidx, e.size, strln)
             strs == RemoveString(h.strtab, h.shdr[shidx].sh_name, strln)
  <1>1. strln \in Nat /\ e.size \in Nat
    BY NamesAssumption DEF Region
  <1>2. h.e_shnum - 1 \in Nat /\ h.e_phnum - 1 \in Nat
    BY DEF CanClearHeaders, MatchingPrograms, MatchingSections, ElfTypeOK
  <1>3. g = [e_shnum |-> h.e_shnum - 1,
             e_phnum |-> h.e_phnum - 1,
             phdr |-> RemoveSlot(phdrs, pidx, h.e_phnum, NoProgram),
             shdr |-> RemoveSlot(shdrs, shidx, h.e_shnum, NoSection),
             elf_offset |-> h.elf_offset - e.size,
             strtab |-> strs,
             strtable_idx |-> h.strtable_idx - strln]
    BY DEF ClearHeaders
  <1>4. phdrs \in [ProgramIdx -> Program]
    <2>1. \A i \in ProgramIdx : h.phdr[i] \in Program
                                /\ MoveProgram(h.phdr[i], e.size) \in Program
      BY <1>1 DEF ElfTypeOK, Program, MoveProgram
    <2> HIDE DEF pidx
    <2> QED
      BY <2>1 DEF MovePrograms
  <1>5. shdrs \in [SectionIdx -> Section]
    <2>1. \A i \in SectionIdx : h.shdr[i] \in Section
                                /\ MoveSection(h.shdr[i], e.size, strln) \in Section
      BY <1>1 DEF ElfTypeOK, Section, MoveSection
    <2> HIDE DEF shidx
    <2> QED
      BY <2>1 DEF MoveSections
  <1>6. NoProgram \in Program /\ NoSection \in Section
    BY DEF NoProgram, Program, NoSection, Section
  <1>7. /\ DOMAIN strs \subseteq Int
        /\ \A o \in DOMAIN strs : strs[o] \in Names
    <2> DEFINE o0 == h.shdr[shidx].sh_name
    <2>1. DOMAIN h.strtab \subseteq Int /\ \A o \in DOMAIN h.strtab : h.strtab[o] \in Names
      BY DEF ElfTypeOK
    <2> HIDE DEF strln, o0
    <2>2. \A r \in DOMAIN h.strtab : r - strln \in Int /\ (r - strln) + strln = r
      BY <2>1, <1>1
    <2> QED
      BY <2>1, <2>2 DEF RemoveString
  <1> HIDE DEF g, pidx, shidx, phdrs, shdrs, strln, strs
  <1>8. RemoveSlot(phdrs, pidx, h.e_phnum, NoProgram) \in [ProgramIdx -> Program]
    <2> DEFINE m == MAX_NUM_ENTRIES + 3
    <2>1. m \in Int /\ h.e_phnum \in Int /\ h.e_phnum - 1 <= m
      BY MaxAssumption DEF ElfTypeOK
    <2>2. phdrs \in [0..m -> Program]
      BY <1>4 DEF ProgramIdx
    <2> HIDE DEF m
    <2>3. RemoveSlot(phdrs, pidx, h.e_phnum, NoProgram) \in [0..m -> Program]
      BY <2>1, <2>2, <1>6, RemoveSlotType
    <2> QED
      BY <2>3 DEF m, ProgramIdx
  <1>9. RemoveSlot(shdrs, shidx, h.e_shnum, NoSection) \in [SectionIdx -> Section]
    <2> DEFINE m == MAX_NUM_ENTRIES + 3
    <2>1. m \in Int /\ h.e_shnum \in Int /\ h.e_shnum - 1 <= m
      BY MaxAssumption DEF ElfTypeOK
    <2>2. shdrs \in [0..m -> Section]
      BY <1>5 DEF SectionIdx
    <2> HIDE DEF m
    <2>3. RemoveSlot(shdrs, shidx, h.e_shnum, NoSection) \in [0..m -> Section]
      BY <2>1, <2>2, <1>6, RemoveSlotType
    <2> QED
      BY <2>3 DEF m, SectionIdx
  <1>10. h.elf_offset - e.size \in Int /\ h.strtable_idx - strln \in Int
    BY <1>1 DEF ElfTypeOK
  <1>11. ElfTypeOK(g) /\ g.e_shnum = h.e_shnum - 1 /\ g.e_phnum = h.e_phnum - 1
    BY <1>2, <1>3, <1>7, <1>8, <1>9, <1>10 DEF ElfTypeOK
  <1> QED
    BY <1>11 DEF g

(* msm_minidump_add_header starts from a well-formed header. *)
LEMMA AddHeaderType == ElfTypeOK(AddHeader)
  <1>1. NoProgram \in Program /\ NoSection \in Section
    BY DEF NoProgram, Program, NoSection, Section
  <1> QED
    BY <1>1, HeaderAssumption DEF AddHeader, ElfTypeOK, FIXED_SECTIONS, FIXED_PROGRAMS

-----------------------------------------------------------------------------
(* The least number of a set. *)
LEMMA MinIn ==
  ASSUME NEW S, S \subseteq Nat, S # {}
  PROVE  Min(S) \in S /\ \A y \in S : Min(S) <= y
  <1>1. IsWellFoundedOn(OpToRel(<, Nat), Nat)
    BY NatLessThanWellFounded
  <1>2. PICK x \in S : \A y \in S : ~(<<y, x>> \in OpToRel(<, Nat))
    BY <1>1, WFMin, Zenon
  <1>3. \A y \in S : ~(y < x)
    BY <1>2 DEF OpToRel
  <1>4. \A y \in S : x <= y
    BY <1>3
  <1> QED
    BY <1>4 DEF Min

(* The least element of a singleton, and its greatest. *)
LEMMA MinMaxSingleton ==
  ASSUME NEW k \in Int
  PROVE  Min({k}) = k /\ Max({k}) = k
  BY DEF Min, Max

(* What a well-formed header says of region i. *)
LEMMA RowFacts ==
  ASSUME NEW k \in Nat, k <= MAX_NUM_ENTRIES, NEW h, WellFormed(h, k), NEW i \in 0..k - 1
  PROVE  /\ i + FIXED_SECTIONS \in SectionIdx /\ i + FIXED_PROGRAMS \in ProgramIdx
         /\ Sec(h, i) \in Section /\ Prog(h, i) \in Program
         /\ Sec(h, i).sh_name \in DOMAIN h.strtab
         /\ NameAt(h, i) \in Names /\ Row(h, i) \in Region /\ Row(h, i).size > 0
         /\ Sec(h, i).sh_name >= StrBase /\ Sec(h, i).sh_name < h.strtable_idx
         /\ LookupString(h, Sec(h, i).sh_name) = Row(h, i).name
  <1>1. /\ i + FIXED_SECTIONS \in SectionIdx /\ i + FIXED_PROGRAMS \in ProgramIdx
        /\ Sec(h, i) \in Section /\ Prog(h, i) \in Program
    BY MaxAssumption DEF WellFormed, ElfTypeOK, Sec, Prog, SectionIdx, ProgramIdx,
       FIXED_SECTIONS, FIXED_PROGRAMS
  <1>2. Sec(h, i).sh_name \in DOMAIN h.strtab
    BY DEF WellFormed, Named
  <1>3. NameAt(h, i) \in Names
    BY <1>2 DEF WellFormed, ElfTypeOK, NameAt
  <1>4. Row(h, i) \in Region
    BY <1>1, <1>3 DEF Row, Region, Program
  <1>5. Lengths(h, k)[i] > 0
    BY DEF WellFormed, Packed
  <1>6. Row(h, i).size > 0
    BY <1>5 DEF Row, Lengths, WellFormed, Paired
  <1>7. /\ NameStarts(h, k)[i] >= StrBase /\ NameSizes(h, k)[i] > 0
        /\ NameStarts(h, k)[i] + NameSizes(h, k)[i] <= h.strtable_idx
    BY HeaderAssumption DEF WellFormed, Packed, ElfTypeOK
  <1>8. NameStarts(h, k)[i] = Sec(h, i).sh_name /\ NameSizes(h, k)[i] = NameLen[NameAt(h, i)] + 1
    BY DEF NameStarts, NameSizes
  <1>9. Sec(h, i).sh_name \in Int /\ NameLen[NameAt(h, i)] \in Nat /\ h.strtable_idx \in Int
    BY <1>1, <1>3, NamesAssumption DEF Section, WellFormed, ElfTypeOK
  <1>10. Sec(h, i).sh_name >= StrBase /\ Sec(h, i).sh_name < h.strtable_idx
    BY <1>7, <1>8, <1>9, HeaderAssumption
  <1>11. LookupString(h, Sec(h, i).sh_name) = Row(h, i).name
    BY <1>2, <1>9, <1>10 DEF LookupString, Row, NameAt
  <1> QED
    BY <1>1, <1>2, <1>3, <1>4, <1>6, <1>10, <1>11

(* The header that msm_minidump_add_header writes has no rows. *)
LEMMA AddHeaderWellFormed == WellFormed(AddHeader, 0)
  <1>1. ElfTypeOK(AddHeader)
    BY AddHeaderType
  <1>2. AddHeader.e_shnum = 0 + FIXED_SECTIONS /\ AddHeader.e_phnum = 0 + FIXED_PROGRAMS
    BY DEF AddHeader, FIXED_SECTIONS, FIXED_PROGRAMS
  <1>3. FixedApart(AddHeader)
    BY MaxAssumption DEF FixedApart, AddHeader, NoSection, NoProgram, SectionIdx, ProgramIdx,
       FIXED_SECTIONS
  <1>4. 0..0 - 1 = {} /\ DOMAIN AddHeader.strtab = {}
    BY DEF AddHeader
  <1>5. AddHeader.elf_offset = ElfhSize /\ AddHeader.strtable_idx = StrBase
    BY DEF AddHeader
  <1> QED
    BY <1>1, <1>2, <1>3, <1>4, <1>5 DEF WellFormed, Paired, Named, Packed

(* md_add_elf_header appends a row. *)
LEMMA AddWellFormed ==
  ASSUME NEW k \in Nat, k < MAX_NUM_ENTRIES, NEW h, WellFormed(h, k),
         NEW e \in Region, e.size > 0
  PROVE  /\ WellFormed(AddElfHeader(h, e), k + 1)
         /\ \A i \in 0..k - 1 : Row(AddElfHeader(h, e), i) = Row(h, i)
         /\ Row(AddElfHeader(h, e), k) = e
  <1> DEFINE g == AddElfHeader(h, e)
  <1>1. ElfTypeOK(h) /\ ElfTypeOK(g)
    BY AddElfHeaderType DEF WellFormed
  <1>2. /\ e.name \in Names /\ e.virt_addr \in Nat /\ e.phys_addr \in Nat /\ e.size \in Nat
        /\ NameLen[e.name] \in Nat /\ NameLen[e.name] > 0
    BY NamesAssumption DEF Region
  <1>3. h.e_shnum = k + 4 /\ h.e_phnum = k + 1
    BY DEF WellFormed, FIXED_SECTIONS, FIXED_PROGRAMS
  <1>4. /\ g.e_shnum = k + 5 /\ g.e_phnum = k + 2
        /\ g.elf_offset = h.elf_offset + e.size
        /\ g.strtable_idx = h.strtable_idx + (NameLen[e.name] + 1)
        /\ g.strtab = SetSectionName(h, e.name)
    BY <1>1, <1>2, <1>3 DEF AddElfHeader, ElfTypeOK
  <1>5. /\ \A i \in SectionIdx : i # k + 4 => g.shdr[i] = h.shdr[i]
        /\ \A i \in ProgramIdx : i # k + 1 => g.phdr[i] = h.phdr[i]
        /\ g.shdr[k + 4] = [sh_name |-> h.strtable_idx, sh_addr |-> e.virt_addr,
                            sh_size |-> e.size, sh_offset |-> h.elf_offset]
        /\ g.phdr[k + 1] = [p_offset |-> h.elf_offset, p_vaddr |-> e.virt_addr,
                            p_paddr |-> e.phys_addr, p_memsz |-> e.size]
    <2>1. k + 4 \notin {} /\ k + 4 \in SectionIdx /\ k + 1 \in ProgramIdx
      BY MaxAssumption DEF SectionIdx, ProgramIdx
    <2>2. DOMAIN h.shdr = SectionIdx /\ DOMAIN h.phdr = ProgramIdx
      BY <1>1 DEF ElfTypeOK
    <2> QED
      BY <1>3, <2>1, <2>2 DEF AddElfHeader
  <1>6. \A i \in 0..k - 1 : i + 4 \in SectionIdx /\ i + 1 \in ProgramIdx
                            /\ i + 4 # k + 4 /\ i + 1 # k + 1
    BY MaxAssumption DEF SectionIdx, ProgramIdx
  <1>7. \A i \in 0..k - 1 : Sec(g, i) = Sec(h, i) /\ Prog(g, i) = Prog(h, i)
    BY <1>5, <1>6 DEF Sec, Prog, FIXED_SECTIONS, FIXED_PROGRAMS
  <1>8. /\ Sec(g, k) = [sh_name |-> h.strtable_idx, sh_addr |-> e.virt_addr,
                        sh_size |-> e.size, sh_offset |-> h.elf_offset]
        /\ Prog(g, k) = [p_offset |-> h.elf_offset, p_vaddr |-> e.virt_addr,
                         p_paddr |-> e.phys_addr, p_memsz |-> e.size]
    BY <1>5 DEF Sec, Prog, FIXED_SECTIONS, FIXED_PROGRAMS
  <1>9. \A i \in 0..k - 1 : /\ Sec(h, i).sh_name \in DOMAIN h.strtab
                            /\ Sec(h, i).sh_name < h.strtable_idx /\ NameAt(h, i) \in Names
                            /\ Sec(h, i).sh_name \in Int
    BY RowFacts, MaxAssumption DEF Section
  <1>10. h.strtable_idx \in Int /\ h.elf_offset \in Int
    BY <1>1 DEF ElfTypeOK
  <1>11. /\ DOMAIN g.strtab = DOMAIN h.strtab \cup {h.strtable_idx}
         /\ g.strtab[h.strtable_idx] = e.name
         /\ \A o \in DOMAIN h.strtab : o # h.strtable_idx => g.strtab[o] = h.strtab[o]
    BY <1>4 DEF SetSectionName
  <1>12. \A i \in 0..k - 1 : NameAt(g, i) = NameAt(h, i)
    <2> SUFFICES ASSUME NEW i \in 0..k - 1 PROVE NameAt(g, i) = NameAt(h, i)
      OBVIOUS
    <2>1. Sec(h, i).sh_name \in DOMAIN h.strtab /\ Sec(h, i).sh_name # h.strtable_idx
      BY <1>9, <1>10
    <2> QED
      BY <2>1, <1>7, <1>11 DEF NameAt
  <1>13. NameAt(g, k) = e.name
    BY <1>8, <1>11 DEF NameAt
  <1> HIDE DEF g
  <1>14. \A i \in 0..k - 1 : Row(g, i) = Row(h, i)
    BY <1>7, <1>12 DEF Row
  <1>15. Row(g, k) = e
    BY <1>8, <1>13 DEF Row, Region
  <1>16. 0..(k + 1) - 1 = 0..k /\ 0..k = (0..k - 1) \cup {k} /\ k \notin 0..k - 1
    OBVIOUS
  <1>17. Paired(g, k + 1)
    BY <1>7, <1>8, <1>16 DEF Paired, WellFormed
  <1>18. Named(g, k + 1)
    <2>1. \A i \in 0..k : Sec(g, i).sh_name \in DOMAIN g.strtab
      BY <1>7, <1>8, <1>9, <1>11, <1>16
    <2>2. ASSUME NEW o \in DOMAIN g.strtab PROVE \E i \in 0..k : o = Sec(g, i).sh_name
      <3>1. CASE o = h.strtable_idx
        BY <3>1, <1>8, <1>16
      <3>2. CASE o \in DOMAIN h.strtab
        <4>1. PICK i \in 0..k - 1 : o = Sec(h, i).sh_name
          BY <3>2 DEF WellFormed, Named
        <4> QED
          BY <4>1, <1>7, <1>16
      <3> QED
        BY <3>1, <3>2, <1>11
    <2> QED
      BY <2>1, <2>2, <1>16 DEF Named
  <1>19. FixedApart(g)
    <2>1. \A i \in 0..3 : i \in SectionIdx /\ i # k + 4
      BY MaxAssumption DEF SectionIdx
    <2>2. 0 \in ProgramIdx /\ 0 # k + 1
      BY MaxAssumption DEF ProgramIdx
    <2> QED
      BY <2>1, <2>2, <1>5 DEF FixedApart, WellFormed, FIXED_SECTIONS
  <1>20. Packed(Offsets(g, k + 1), Lengths(g, k + 1), k + 1, ElfhSize, g.elf_offset)
    <2>1. Packed(Offsets(h, k), Lengths(h, k), k, ElfhSize, h.elf_offset)
      BY DEF WellFormed
    <2>2. /\ \A i \in 0..k - 1 : /\ Offsets(g, k + 1)[i] = Offsets(h, k)[i]
                                 /\ Lengths(g, k + 1)[i] = Lengths(h, k)[i]
          /\ Offsets(g, k + 1)[k] = h.elf_offset /\ Lengths(g, k + 1)[k] = e.size
      BY <1>7, <1>8, <1>16 DEF Offsets, Lengths
    <2> QED
      BY <2>1, <2>2, <1>2, <1>4, <1>10, HeaderAssumption, PackedAppend
  <1>21. Packed(NameStarts(g, k + 1), NameSizes(g, k + 1), k + 1, StrBase, g.strtable_idx)
    <2>1. Packed(NameStarts(h, k), NameSizes(h, k), k, StrBase, h.strtable_idx)
      BY DEF WellFormed
    <2>2. /\ \A i \in 0..k - 1 : /\ NameStarts(g, k + 1)[i] = NameStarts(h, k)[i]
                                 /\ NameSizes(g, k + 1)[i] = NameSizes(h, k)[i]
          /\ NameStarts(g, k + 1)[k] = h.strtable_idx
          /\ NameSizes(g, k + 1)[k] = NameLen[e.name] + 1
      BY <1>7, <1>8, <1>12, <1>13, <1>16 DEF NameStarts, NameSizes
    <2>3. NameLen[e.name] + 1 \in Nat /\ NameLen[e.name] + 1 > 0 /\ StrBase \in Int
      BY <1>2, HeaderAssumption
    <2> QED
      BY <2>1, <2>2, <2>3, <1>4, <1>10, PackedAppend
  <1>22. WellFormed(g, k + 1)
    BY <1>1, <1>4, <1>17, <1>18, <1>19, <1>20, <1>21 DEF WellFormed, FIXED_SECTIONS, FIXED_PROGRAMS
  <1> QED
    BY <1>14, <1>15, <1>22 DEF g

(* md_update_elf_header changes the addresses of one row. *)
LEMMA UpdateWellFormed ==
  ASSUME NEW k \in Nat, k <= MAX_NUM_ENTRIES, NEW h, WellFormed(h, k),
         NEW e \in Region, NEW r \in 0..k - 1
  PROVE  /\ WellFormed(UpdateElfHeader(h, r, e), k)
         /\ \A i \in 0..k - 1 : i # r => Row(UpdateElfHeader(h, r, e), i) = Row(h, i)
         /\ Row(UpdateElfHeader(h, r, e), r) =
              [name |-> Row(h, r).name, virt_addr |-> e.virt_addr,
               phys_addr |-> e.phys_addr, size |-> Row(h, r).size]
  <1> DEFINE g == UpdateElfHeader(h, r, e)
  <1>1. ElfTypeOK(h) /\ ElfTypeOK(g)
    BY UpdateElfHeaderType DEF WellFormed
  <1>2. /\ g.e_shnum = h.e_shnum /\ g.e_phnum = h.e_phnum /\ g.elf_offset = h.elf_offset
        /\ g.strtab = h.strtab /\ g.strtable_idx = h.strtable_idx
        /\ g.shdr = [h.shdr EXCEPT ![r + 4].sh_addr = e.virt_addr]
        /\ g.phdr = [h.phdr EXCEPT ![r + 1].p_vaddr = e.virt_addr,
                                   ![r + 1].p_paddr = e.phys_addr]
    BY <1>1 DEF UpdateElfHeader, ElfTypeOK, FIXED_SECTIONS, FIXED_PROGRAMS
  <1>3. \A i \in 0..k - 1 : /\ i + 4 \in SectionIdx /\ i + 1 \in ProgramIdx
                            /\ Sec(h, i) \in Section /\ Prog(h, i) \in Program
    BY RowFacts DEF FIXED_SECTIONS, FIXED_PROGRAMS
  <1>4. DOMAIN h.shdr = SectionIdx /\ DOMAIN h.phdr = ProgramIdx
    BY <1>1 DEF ElfTypeOK
  <1>5. \A i \in 0..k - 1 : i # r => Sec(g, i) = Sec(h, i) /\ Prog(g, i) = Prog(h, i)
    BY <1>2, <1>3, <1>4 DEF Sec, Prog, FIXED_SECTIONS, FIXED_PROGRAMS
  <1>6. /\ Sec(g, r) = [Sec(h, r) EXCEPT !.sh_addr = e.virt_addr]
        /\ Prog(g, r) = [Prog(h, r) EXCEPT !.p_vaddr = e.virt_addr, !.p_paddr = e.phys_addr]
    BY <1>2, <1>3, <1>4 DEF Sec, Prog, FIXED_SECTIONS, FIXED_PROGRAMS
  <1>7. /\ Sec(g, r).sh_name = Sec(h, r).sh_name /\ Sec(g, r).sh_size = Sec(h, r).sh_size
        /\ Sec(g, r).sh_offset = Sec(h, r).sh_offset /\ Sec(g, r).sh_addr = e.virt_addr
        /\ Prog(g, r).p_offset = Prog(h, r).p_offset /\ Prog(g, r).p_memsz = Prog(h, r).p_memsz
        /\ Prog(g, r).p_vaddr = e.virt_addr /\ Prog(g, r).p_paddr = e.phys_addr
    BY <1>3, <1>6 DEF Section, Program
  <1>8. FixedApart(g)
    <2>1. \A i \in 0..3 : i \in SectionIdx /\ i # r + 4
      BY MaxAssumption DEF SectionIdx
    <2>2. 0 \in ProgramIdx /\ 0 # r + 1
      BY MaxAssumption DEF ProgramIdx
    <2> QED
      BY <2>1, <2>2, <1>2, <1>4 DEF FixedApart, WellFormed, FIXED_SECTIONS
  <1> HIDE DEF g
  <1>9. \A i \in 0..k - 1 : /\ Sec(g, i).sh_name = Sec(h, i).sh_name
                            /\ Sec(g, i).sh_size = Sec(h, i).sh_size
                            /\ Sec(g, i).sh_offset = Sec(h, i).sh_offset
                            /\ Prog(g, i).p_offset = Prog(h, i).p_offset
                            /\ Prog(g, i).p_memsz = Prog(h, i).p_memsz
                            /\ NameAt(g, i) = NameAt(h, i)
    BY <1>2, <1>5, <1>7 DEF NameAt
  <1>10. Paired(g, k)
    BY <1>5, <1>7, <1>9 DEF Paired, WellFormed
  <1>11. Named(g, k)
    BY <1>2, <1>9 DEF Named, WellFormed
  <1>12. /\ Offsets(g, k) = Offsets(h, k) /\ Lengths(g, k) = Lengths(h, k)
         /\ NameStarts(g, k) = NameStarts(h, k) /\ NameSizes(g, k) = NameSizes(h, k)
    BY <1>9 DEF Offsets, Lengths, NameStarts, NameSizes
  <1>13. WellFormed(g, k)
    BY <1>1, <1>2, <1>8, <1>10, <1>11, <1>12 DEF WellFormed
  <1>14. \A i \in 0..k - 1 : i # r => Row(g, i) = Row(h, i)
    BY <1>5, <1>9 DEF Row
  <1>15. Row(g, r) = [name |-> Row(h, r).name, virt_addr |-> e.virt_addr,
                      phys_addr |-> e.phys_addr, size |-> Row(h, r).size]
    BY <1>7, <1>9 DEF Row
  <1> QED
    BY <1>13, <1>14, <1>15 DEF g

-----------------------------------------------------------------------------
(* No two regions of the header have the same name. *)
DistinctRows(h, k) == \A i, j \in 0..k - 1 : Row(h, i).name = Row(h, j).name => i = j

(* A section that matches is that of a row; none of the fixed ones is. *)
LEMMA SectionMatch ==
  ASSUME NEW k \in Nat, k <= MAX_NUM_ENTRIES, NEW h, WellFormed(h, k), NEW e, e.name \in Names
  PROVE  \A j : j \in MatchingSections(h, e) <=>
           \E m \in 0..k - 1 : /\ j = m + FIXED_SECTIONS
                               /\ Row(h, m).name = e.name
                               /\ Row(h, m).virt_addr = e.virt_addr
                               /\ Row(h, m).size = e.size
  <1>1. h.e_shnum = k + 4
    BY DEF WellFormed, FIXED_SECTIONS
  <1>2. ASSUME NEW i \in 0..3 PROVE i \notin MatchingSections(h, e)
    <2>1. h.shdr[i].sh_name = 0
      BY DEF WellFormed, FixedApart, FIXED_SECTIONS
    <2>2. 0 \notin DOMAIN h.strtab
      <3>1. \A o \in DOMAIN h.strtab : \E m \in 0..k - 1 : o = Sec(h, m).sh_name
        BY DEF WellFormed, Named
      <3>2. \A m \in 0..k - 1 : Sec(h, m).sh_name >= StrBase
        BY RowFacts
      <3> QED
        BY <3>1, <3>2, HeaderAssumption
    <2>3. LookupString(h, h.shdr[i].sh_name) = NoName
      BY <2>1, <2>2 DEF LookupString
    <2> QED
      BY <2>3, NamesAssumption DEF MatchingSections
  <1>3. ASSUME NEW m \in 0..k - 1
        PROVE  m + 4 \in MatchingSections(h, e) <=>
                 /\ Row(h, m).name = e.name /\ Row(h, m).virt_addr = e.virt_addr
                 /\ Row(h, m).size = e.size
    <2>1. m + 4 \in 0..h.e_shnum - 1
      BY <1>1
    <2>2. LookupString(h, h.shdr[m + 4].sh_name) = Row(h, m).name
      BY RowFacts DEF Sec, FIXED_SECTIONS
    <2>3. h.shdr[m + 4].sh_addr = Row(h, m).virt_addr /\ h.shdr[m + 4].sh_size = Row(h, m).size
      BY DEF WellFormed, Paired, Row, Sec, FIXED_SECTIONS
    <2> QED
      BY <2>1, <2>2, <2>3 DEF MatchingSections
  <1> SUFFICES ASSUME NEW j
               PROVE  j \in MatchingSections(h, e) <=>
                        \E m \in 0..k - 1 : /\ j = m + 4
                                            /\ Row(h, m).name = e.name
                                            /\ Row(h, m).virt_addr = e.virt_addr
                                            /\ Row(h, m).size = e.size
    BY DEF FIXED_SECTIONS
  <1>4. ASSUME j \in MatchingSections(h, e)
        PROVE  \E m \in 0..k - 1 : /\ j = m + 4
                                   /\ Row(h, m).name = e.name
                                   /\ Row(h, m).virt_addr = e.virt_addr
                                   /\ Row(h, m).size = e.size
    <2>1. j \in 0..k + 3
      BY <1>1, <1>4 DEF MatchingSections
    <2>2. j \notin 0..3
      BY <1>2, <1>4
    <2>3. j - 4 \in 0..k - 1 /\ j = (j - 4) + 4
      BY <2>1, <2>2
    <2> QED
      BY <1>3, <1>4, <2>3
  <1> QED
    BY <1>3, <1>4

(* The same for programs, if the region is not empty. *)
LEMMA ProgramMatch ==
  ASSUME NEW k \in Nat, k <= MAX_NUM_ENTRIES, NEW h, WellFormed(h, k), NEW e, e.size # 0
  PROVE  \A j : j \in MatchingPrograms(h, e) <=>
           \E m \in 0..k - 1 : /\ j = m + FIXED_PROGRAMS
                               /\ Row(h, m).phys_addr = e.phys_addr
                               /\ Row(h, m).size = e.size
  <1>1. h.e_phnum = k + 1
    BY DEF WellFormed, FIXED_PROGRAMS
  <1>2. 0 \notin MatchingPrograms(h, e)
    BY DEF WellFormed, FixedApart, MatchingPrograms
  <1>3. \A m \in 0..k - 1 :
          m + 1 \in MatchingPrograms(h, e) <=>
            Row(h, m).phys_addr = e.phys_addr /\ Row(h, m).size = e.size
    BY <1>1 DEF MatchingPrograms, Row, Prog, FIXED_PROGRAMS
  <1> SUFFICES ASSUME NEW j
               PROVE  j \in MatchingPrograms(h, e) <=>
                        \E m \in 0..k - 1 : /\ j = m + 1
                                            /\ Row(h, m).phys_addr = e.phys_addr
                                            /\ Row(h, m).size = e.size
    BY DEF FIXED_PROGRAMS
  <1>4. ASSUME j \in MatchingPrograms(h, e)
        PROVE  \E m \in 0..k - 1 : /\ j = m + 1
                                   /\ Row(h, m).phys_addr = e.phys_addr
                                   /\ Row(h, m).size = e.size
    <2>1. j \in 0..k
      BY <1>1, <1>4 DEF MatchingPrograms
    <2>2. j # 0
      BY <1>2, <1>4
    <2>3. j - 1 \in 0..k - 1 /\ j = (j - 1) + 1
      BY <2>1, <2>2
    <2> QED
      BY <1>3, <1>4, <2>3
  <1> QED
    BY <1>3, <1>4

(* The two headers msm_minidump_clear_headers finds belong to the region asked
   for: the section is the only one of that name, and a program at the same
   offset of the dump cannot be another one's. *)
LEMMA ClearFinds ==
  ASSUME NEW k \in Nat, k <= MAX_NUM_ENTRIES, NEW h, WellFormed(h, k), DistinctRows(h, k),
         NEW e \in Region, CanClearHeaders(h, e)
  PROVE  \E m \in 0..k - 1 : /\ Row(h, m) = e
                             /\ Min(MatchingSections(h, e)) = m + FIXED_SECTIONS
                             /\ Min(MatchingPrograms(h, e)) = m + FIXED_PROGRAMS
  <1> DEFINE MS == MatchingSections(h, e)
             MP == MatchingPrograms(h, e)
  <1>0. e.name \in Names
    BY DEF Region
  <1>1. MS # {} /\ MP # {}
    BY DEF CanClearHeaders
  <1>2. PICK m \in 0..k - 1 : /\ m + FIXED_SECTIONS \in MS
                              /\ Row(h, m).name = e.name
                              /\ Row(h, m).virt_addr = e.virt_addr
                              /\ Row(h, m).size = e.size
    BY <1>0, <1>1, SectionMatch
  <1>3. MS = {m + FIXED_SECTIONS}
    BY <1>0, <1>2, SectionMatch DEF DistinctRows
  <1>4. Min(MS) = m + FIXED_SECTIONS
    BY <1>3, MinMaxSingleton DEF FIXED_SECTIONS
  <1>5. e.size # 0
    BY <1>2, RowFacts
  <1>6. Min(MP) \in MP
    <2>1. MP \subseteq Nat
      BY DEF MatchingPrograms, WellFormed, ElfTypeOK
    <2> QED
      BY <1>1, <2>1, MinIn
  <1>7. PICK p \in 0..k - 1 : /\ Min(MP) = p + FIXED_PROGRAMS
                              /\ Row(h, p).phys_addr = e.phys_addr
    BY <1>5, <1>6, ProgramMatch
  <1>8. Sec(h, m).sh_offset = Prog(h, p).p_offset
    BY <1>4, <1>7 DEF CanClearHeaders, Sec, Prog
  <1>9. Offsets(h, k)[m] = Offsets(h, k)[p]
    BY <1>8 DEF Offsets, WellFormed, Paired
  <1>10. m = p
    <2> DEFINE s == Offsets(h, k)
               l == Lengths(h, k)
    <2>1. /\ \A i \in 0..k - 1 : s[i] \in Int /\ l[i] \in Nat /\ l[i] > 0
          /\ \A i, j \in 0..k - 1 : i < j => s[i] + l[i] <= s[j]
      BY DEF WellFormed, Packed
    <2> HIDE DEF s, l
    <2>2. s[m] = s[p]
      BY <1>9 DEF s
    <2>3. ~(m < p) /\ ~(p < m)
      BY <2>1, <2>2
    <2> QED
      BY <2>3
  <1>11. Row(h, m) = e
    BY <1>2, <1>7, <1>10 DEF Row, Region
  <1> QED
    BY <1>4, <1>7, <1>10, <1>11

(* A row whose memory no other row has can be cleared. *)
LEMMA ClearPossible ==
  ASSUME NEW k \in Nat, k <= MAX_NUM_ENTRIES, NEW h, WellFormed(h, k), DistinctRows(h, k),
         NEW m \in 0..k - 1,
         \A i \in 0..k - 1 : i # m => \/ Row(h, i).phys_addr # Row(h, m).phys_addr
                                      \/ Row(h, i).size # Row(h, m).size
  PROVE  CanClearHeaders(h, Row(h, m))
  <1> DEFINE e == Row(h, m)
             MS == MatchingSections(h, e)
             MP == MatchingPrograms(h, e)
  <1>0. e.name \in Names /\ e.size # 0
    BY RowFacts DEF Region
  <1> HIDE DEF e
  <1>1. MS = {m + FIXED_SECTIONS}
    BY <1>0, SectionMatch DEF DistinctRows, e
  <1>2. MP = {m + FIXED_PROGRAMS}
    BY <1>0, ProgramMatch DEF e
  <1>3. Min(MS) = m + FIXED_SECTIONS /\ Min(MP) = m + FIXED_PROGRAMS
    BY <1>1, <1>2, MinMaxSingleton DEF FIXED_SECTIONS, FIXED_PROGRAMS
  <1>4. Sec(h, m).sh_offset = Prog(h, m).p_offset
    BY DEF WellFormed, Paired
  <1> QED
    BY <1>1, <1>2, <1>3, <1>4 DEF CanClearHeaders, Sec, Prog, e

(* The headers and the names that are left are the other rows', moved down. *)
LEMMA ClearMoves ==
  ASSUME NEW k \in Nat, k <= MAX_NUM_ENTRIES, NEW h, WellFormed(h, k),
         NEW e \in Region, NEW m \in 0..k - 1, Row(h, m) = e,
         Min(MatchingSections(h, e)) = m + FIXED_SECTIONS,
         Min(MatchingPrograms(h, e)) = m + FIXED_PROGRAMS
  PROVE  LET g == ClearHeaders(h, e)
             L == NameLen[e.name] + 1
         IN /\ g.elf_offset = h.elf_offset - e.size
            /\ g.strtable_idx = h.strtable_idx - L
            /\ FixedApart(g)
            /\ g.strtab = RemoveString(h.strtab, Sec(h, m).sh_name, L)
            /\ \A i \in 0..k - 2 :
                 IF i < m THEN Sec(g, i) = Sec(h, i) /\ Prog(g, i) = Prog(h, i)
                          ELSE /\ Sec(g, i) = MoveSection(Sec(h, i + 1), e.size, L)
                               /\ Prog(g, i) = MoveProgram(Prog(h, i + 1), e.size)
  <1> DEFINE g == ClearHeaders(h, e)
             L == NameLen[e.name] + 1
             shdrs == MoveSections(h, m + 4, e.size, L)
             phdrs == MovePrograms(h, m + 1, e.size)
  <1>1. h.e_shnum = k + 4 /\ h.e_phnum = k + 1 /\ ElfTypeOK(h)
    BY DEF WellFormed, FIXED_SECTIONS, FIXED_PROGRAMS
  <1>2. g = [e_shnum |-> h.e_shnum - 1,
             e_phnum |-> h.e_phnum - 1,
             phdr |-> RemoveSlot(phdrs, m + 1, k + 1, NoProgram),
             shdr |-> RemoveSlot(shdrs, m + 4, k + 4, NoSection),
             elf_offset |-> h.elf_offset - e.size,
             strtab |-> RemoveString(h.strtab, h.shdr[m + 4].sh_name, L),
             strtable_idx |-> h.strtable_idx - L]
    BY <1>1 DEF ClearHeaders, FIXED_SECTIONS, FIXED_PROGRAMS
  <1> HIDE DEF g, L
  <1>3. DOMAIN shdrs = SectionIdx /\ DOMAIN phdrs = ProgramIdx
    BY DEF MoveSections, MovePrograms
  <1>4. ASSUME NEW i \in 0..k - 2, i < m
        PROVE  Sec(g, i) = Sec(h, i) /\ Prog(g, i) = Prog(h, i)
    <2>1. i + 4 \in SectionIdx /\ i + 1 \in ProgramIdx
      BY MaxAssumption DEF SectionIdx, ProgramIdx
    <2>2. i + 4 # (k + 4) - 1 /\ ~(m + 4 <= i + 4) /\ i + 1 # (k + 1) - 1 /\ ~(m + 1 <= i + 1)
      BY <1>4
    <2>3. g.shdr[i + 4] = shdrs[i + 4] /\ g.phdr[i + 1] = phdrs[i + 1]
      BY <1>2, <1>3, <2>1, <2>2 DEF RemoveSlot
    <2>4. shdrs[i + 4] = h.shdr[i + 4] /\ phdrs[i + 1] = h.phdr[i + 1]
      BY <1>4, <2>1 DEF MoveSections, MovePrograms
    <2> QED
      BY <2>3, <2>4 DEF Sec, Prog, FIXED_SECTIONS, FIXED_PROGRAMS
  <1>5. ASSUME NEW i \in 0..k - 2, ~(i < m)
        PROVE  /\ Sec(g, i) = MoveSection(Sec(h, i + 1), e.size, L)
               /\ Prog(g, i) = MoveProgram(Prog(h, i + 1), e.size)
    <2>1. i + 4 \in SectionIdx /\ i + 1 \in ProgramIdx /\ i + 5 \in SectionIdx /\ i + 2 \in ProgramIdx
      BY MaxAssumption DEF SectionIdx, ProgramIdx
    <2>2. /\ i + 4 # (k + 4) - 1 /\ m + 4 <= i + 4 /\ i + 4 < (k + 4) - 1
          /\ i + 1 # (k + 1) - 1 /\ m + 1 <= i + 1 /\ i + 1 < (k + 1) - 1
          /\ (i + 4) + 1 = i + 5 /\ (i + 1) + 1 = i + 2
      BY <1>5
    <2>3. g.shdr[i + 4] = shdrs[i + 5] /\ g.phdr[i + 1] = phdrs[i + 2]
      BY <1>2, <1>3, <2>1, <2>2 DEF RemoveSlot
    <2>4. m + 4 < i + 5 /\ i + 5 < h.e_shnum /\ m + 1 < i + 2 /\ i + 2 < h.e_phnum
      BY <1>1, <1>5
    <2>5. /\ shdrs[i + 5] = MoveSection(h.shdr[i + 5], e.size, L)
          /\ phdrs[i + 2] = MoveProgram(h.phdr[i + 2], e.size)
      BY <2>1, <2>4 DEF MoveSections, MovePrograms
    <2>6. (i + 1) + 4 = i + 5 /\ (i + 1) + 1 = i + 2
      OBVIOUS
    <2> QED
      BY <2>3, <2>5, <2>6 DEF Sec, Prog, FIXED_SECTIONS, FIXED_PROGRAMS
  <1>6. FixedApart(g)
    <2>1. ASSUME NEW i \in 0..3 PROVE g.shdr[i].sh_name = 0
      <3>1. i \in SectionIdx /\ i # (k + 4) - 1 /\ ~(m + 4 <= i) /\ ~(m + 4 < i)
        BY MaxAssumption DEF SectionIdx
      <3>2. g.shdr[i] = h.shdr[i]
        BY <1>2, <1>3, <3>1 DEF RemoveSlot, MoveSections
      <3> QED
        BY <3>2 DEF WellFormed, FixedApart, FIXED_SECTIONS
    <2>2. g.phdr[0].p_memsz = 0
      <3>1. 0 \in ProgramIdx /\ 0 # (k + 1) - 1 /\ ~(m + 1 <= 0) /\ ~(m + 1 < 0)
        BY MaxAssumption DEF ProgramIdx
      <3>2. g.phdr[0] = h.phdr[0]
        BY <1>2, <1>3, <3>1 DEF RemoveSlot, MovePrograms
      <3> QED
        BY <3>2 DEF WellFormed, FixedApart
    <2> QED
      BY <2>1, <2>2 DEF FixedApart, FIXED_SECTIONS
  <1>7. /\ g.elf_offset = h.elf_offset - e.size
        /\ g.strtable_idx = h.strtable_idx - L
        /\ g.strtab = RemoveString(h.strtab, Sec(h, m).sh_name, L)
    BY <1>2 DEF Sec, FIXED_SECTIONS
  <1> QED
    BY <1>4, <1>5, <1>6, <1>7 DEF g, L

(* Once row m is gone, row i is what was row Left(m, i), and its name starts at
   NameLeft. *)
Left(m, i) == IF i < m THEN i ELSE i + 1

NameLeft(h, m, L, i) == IF i < m THEN Sec(h, i).sh_name ELSE Sec(h, i + 1).sh_name - L

(* The names that are left are the names of the other rows. *)
LEMMA RemoveStringNames ==
  ASSUME NEW k \in Nat, k <= MAX_NUM_ENTRIES, NEW h, WellFormed(h, k), NEW m \in 0..k - 1,
         NEW L, L = NameLen[NameAt(h, m)] + 1,
         NEW t, t = RemoveString(h.strtab, Sec(h, m).sh_name, L)
  PROVE  /\ L \in Nat
         /\ \A i \in 0..k - 2 : /\ NameLeft(h, m, L, i) \in DOMAIN t
                                /\ t[NameLeft(h, m, L, i)] = NameAt(h, Left(m, i))
         /\ \A o \in DOMAIN t : \E i \in 0..k - 2 : o = NameLeft(h, m, L, i)
  <1> DEFINE o0 == Sec(h, m).sh_name
             kept == {q \in DOMAIN h.strtab : q < o0}
             moved == {q - L : q \in {r \in DOMAIN h.strtab : r > o0}}
             S(j) == Sec(h, j).sh_name
  <1>1. L \in Nat
    BY RowFacts, NamesAssumption
  <1>2. /\ DOMAIN t = kept \cup moved
        /\ \A q \in kept : t[q] = h.strtab[q]
        /\ \A q \in moved : q \notin kept => t[q] = h.strtab[q + L]
    BY DEF RemoveString
  <1>3. \A j \in 0..k - 1 : S(j) \in Int /\ S(j) \in DOMAIN h.strtab
    BY RowFacts DEF Section
  <1>4. /\ \A j \in 0..k - 1 : j < m => S(j) < o0
        /\ \A j \in 0..k - 1 : m < j => o0 + L <= S(j) /\ o0 < S(j)
    <2> DEFINE s == NameStarts(h, k)
               l == NameSizes(h, k)
    <2>1. /\ \A i \in 0..k - 1 : s[i] \in Int /\ l[i] \in Nat /\ l[i] > 0
          /\ \A i, j \in 0..k - 1 : i < j => s[i] + l[i] <= s[j]
      BY DEF WellFormed, Packed
    <2>2. \A j \in 0..k - 1 : s[j] = S(j)
      BY DEF NameStarts
    <2>3. l[m] = L
      BY DEF NameSizes
    <2> HIDE DEF s, l, S
    <2>4. s[m] = o0
      BY <2>2 DEF S
    <2> QED
      BY <2>1, <2>2, <2>3, <2>4
  <1>5. \A o \in DOMAIN h.strtab : \E j \in 0..k - 1 : o = S(j)
    BY DEF WellFormed, Named
  <1>6. \A i \in 0..k - 2 : i \in 0..k - 1 /\ i + 1 \in 0..k - 1
    OBVIOUS
  <1>7. o0 \in Int
    BY <1>3
  <1> HIDE DEF o0
  <1>8. ASSUME NEW i \in 0..k - 2, i < m PROVE S(i) \in DOMAIN t /\ t[S(i)] = NameAt(h, i)
    <2>1. S(i) \in kept
      BY <1>3, <1>4, <1>6, <1>8
    <2> QED
      BY <1>2, <2>1 DEF NameAt
  <1>9. ASSUME NEW i \in 0..k - 2, ~(i < m)
        PROVE  S(i + 1) - L \in DOMAIN t /\ t[S(i + 1) - L] = NameAt(h, i + 1)
    <2>1. o0 + L <= S(i + 1) /\ o0 < S(i + 1) /\ S(i + 1) \in Int /\ S(i + 1) \in DOMAIN h.strtab
      BY <1>3, <1>4, <1>6, <1>9
    <2> DEFINE q == S(i + 1)
    <2> HIDE DEF S
    <2>2. q - L \in moved /\ q - L \notin kept /\ (q - L) + L = q
      BY <2>1, <1>1, <1>7
    <2> QED
      BY <1>2, <2>2 DEF NameAt, S
  <1>10. ASSUME NEW o \in DOMAIN t
         PROVE  \E i \in 0..k - 2 : o = IF i < m THEN S(i) ELSE S(i + 1) - L
    <2>1. CASE o \in kept
      <3>1. PICK j \in 0..k - 1 : o = S(j)
        BY <1>5, <2>1
      <3>2. j < m
        <4>1. S(j) < o0
          BY <2>1, <3>1
        <4>2. j # m
          BY <4>1, <1>7 DEF o0
        <4>3. ~(m < j)
          BY <1>3, <1>4, <1>7, <4>1
        <4> QED
          BY <4>2, <4>3
      <3>3. j \in 0..k - 2
        BY <3>2
      <3> QED
        BY <3>1, <3>2, <3>3
    <2>2. CASE o \in moved
      <3>1. PICK r \in DOMAIN h.strtab : r > o0 /\ o = r - L
        BY <2>2
      <3>2. PICK j \in 0..k - 1 : r = S(j)
        BY <1>5
      <3>3. j > m
        <4>1. j # m
          BY <3>1, <3>2, <1>7 DEF o0
        <4>2. ~(j < m)
          BY <1>3, <1>4, <1>7, <3>1, <3>2
        <4> QED
          BY <4>1, <4>2
      <3>4. j - 1 \in 0..k - 2 /\ (j - 1) + 1 = j /\ ~(j - 1 < m)
        BY <3>3
      <3>5. o = S((j - 1) + 1) - L
        BY <3>1, <3>2, <3>4
      <3> QED
        BY <3>4, <3>5
    <2> QED
      BY <1>2, <2>1, <2>2
  <1> QED
    BY <1>1, <1>8, <1>9, <1>10 DEF o0, Left, NameLeft

(* msm_minidump_clear_headers takes the row of the region out, and only it. *)
LEMMA ClearWellFormed ==
  ASSUME NEW k \in Nat, k <= MAX_NUM_ENTRIES, NEW h, WellFormed(h, k), DistinctRows(h, k),
         NEW e \in Region, CanClearHeaders(h, e)
  PROVE  \E m \in 0..k - 1 :
           /\ Row(h, m) = e
           /\ WellFormed(ClearHeaders(h, e), k - 1)
           /\ \A i \in 0..k - 2 :
                Row(ClearHeaders(h, e), i) = Row(h, Left(m, i))
  <1>1. PICK m \in 0..k - 1 : /\ Row(h, m) = e
                              /\ Min(MatchingSections(h, e)) = m + FIXED_SECTIONS
                              /\ Min(MatchingPrograms(h, e)) = m + FIXED_PROGRAMS
    BY ClearFinds
  <1> DEFINE g == ClearHeaders(h, e)
             L == NameLen[e.name] + 1
  <1>2. /\ g.elf_offset = h.elf_offset - e.size
        /\ g.strtable_idx = h.strtable_idx - L
        /\ FixedApart(g)
        /\ g.strtab = RemoveString(h.strtab, Sec(h, m).sh_name, L)
        /\ \A i \in 0..k - 2 :
             IF i < m THEN Sec(g, i) = Sec(h, i) /\ Prog(g, i) = Prog(h, i)
                      ELSE /\ Sec(g, i) = MoveSection(Sec(h, i + 1), e.size, L)
                           /\ Prog(g, i) = MoveProgram(Prog(h, i + 1), e.size)
    BY <1>1, ClearMoves
  <1>3. ElfTypeOK(g) /\ g.e_shnum = (k - 1) + 4 /\ g.e_phnum = (k - 1) + 1
    <2>1. ElfTypeOK(h) /\ h.e_shnum = k + 4 /\ h.e_phnum = k + 1
      BY DEF WellFormed, FIXED_SECTIONS, FIXED_PROGRAMS
    <2>2. h.e_shnum <= MAX_NUM_ENTRIES + 4 /\ h.e_phnum <= MAX_NUM_ENTRIES + 4
      BY <2>1, MaxAssumption
    <2>3. ElfTypeOK(g) /\ g.e_shnum = h.e_shnum - 1 /\ g.e_phnum = h.e_phnum - 1
      BY <2>1, <2>2, ClearHeadersType
    <2> QED
      BY <2>1, <2>3
  <1>4. NameAt(h, m) = e.name /\ Sec(h, m).sh_size = e.size
    BY <1>1 DEF Row, WellFormed, Paired
  <1> HIDE DEF g, L
  <1>5. /\ L \in Nat
        /\ \A i \in 0..k - 2 : /\ NameLeft(h, m, L, i) \in DOMAIN g.strtab
                               /\ g.strtab[NameLeft(h, m, L, i)] = NameAt(h, Left(m, i))
        /\ \A o \in DOMAIN g.strtab : \E i \in 0..k - 2 : o = NameLeft(h, m, L, i)
    <2>1. L = NameLen[NameAt(h, m)] + 1
      BY <1>4 DEF L
    <2>2. g.strtab = RemoveString(h.strtab, Sec(h, m).sh_name, L)
      BY <1>2
    <2> QED
      BY <2>1, <2>2, RemoveStringNames
  <1>6. \A i \in 0..k - 2 : i \in 0..k - 1 /\ i + 1 \in 0..k - 1 /\ Left(m, i) \in 0..k - 1
    BY DEF Left
  <1>7. \A i \in 0..k - 2 :
          /\ Sec(g, i).sh_name = NameLeft(h, m, L, i)
          /\ Sec(g, i).sh_offset = IF i < m THEN Sec(h, i).sh_offset
                                            ELSE Sec(h, i + 1).sh_offset - e.size
          /\ Prog(g, i).p_offset = IF i < m THEN Prog(h, i).p_offset
                                            ELSE Prog(h, i + 1).p_offset - e.size
          /\ Sec(g, i).sh_addr = Sec(h, Left(m, i)).sh_addr
          /\ Sec(g, i).sh_size = Sec(h, Left(m, i)).sh_size
          /\ Prog(g, i).p_vaddr = Prog(h, Left(m, i)).p_vaddr
          /\ Prog(g, i).p_paddr = Prog(h, Left(m, i)).p_paddr
          /\ Prog(g, i).p_memsz = Prog(h, Left(m, i)).p_memsz
    BY <1>2 DEF MoveSection, MoveProgram, Left, NameLeft
  <1>8. \A i \in 0..k - 2 : NameAt(g, i) = NameAt(h, Left(m, i))
    BY <1>5, <1>7 DEF NameAt
  <1>9. \A i \in 0..k - 2 : Row(g, i) = Row(h, Left(m, i))
    BY <1>7, <1>8 DEF Row
  <1>10. (k - 1) - 1 = k - 2 /\ k - 1 \in Nat
    OBVIOUS
  <1>11. Paired(g, k - 1)
    <2>1. \A j \in 0..k - 1 : /\ Prog(h, j).p_offset = Sec(h, j).sh_offset
                              /\ Prog(h, j).p_vaddr = Sec(h, j).sh_addr
                              /\ Prog(h, j).p_memsz = Sec(h, j).sh_size
      BY DEF WellFormed, Paired
    <2> SUFFICES ASSUME NEW i \in 0..k - 2
                 PROVE  /\ Prog(g, i).p_offset = Sec(g, i).sh_offset
                        /\ Prog(g, i).p_vaddr = Sec(g, i).sh_addr
                        /\ Prog(g, i).p_memsz = Sec(g, i).sh_size
      BY <1>10 DEF Paired
    <2> QED
      BY <2>1, <1>6, <1>7 DEF Left
  <1>12. Named(g, k - 1)
    <2>1. \A i \in 0..k - 2 : Sec(g, i).sh_name \in DOMAIN g.strtab
      BY <1>5, <1>7
    <2>2. ASSUME NEW o \in DOMAIN g.strtab PROVE \E i \in 0..k - 2 : o = Sec(g, i).sh_name
      <3>1. PICK i \in 0..k - 2 : o = NameLeft(h, m, L, i)
        BY <1>5
      <3> QED
        BY <1>7, <3>1
    <2> QED
      BY <2>1, <2>2, <1>10 DEF Named
  <1>13. Packed(Offsets(g, k - 1), Lengths(g, k - 1), k - 1, ElfhSize, g.elf_offset)
    <2> DEFINE s == Offsets(h, k)
               l == Lengths(h, k)
               s1 == Offsets(g, k - 1)
               l1 == Lengths(g, k - 1)
    <2>1. Packed(s, l, k, ElfhSize, h.elf_offset)
      BY DEF WellFormed
    <2>2. l[m] = e.size
      BY <1>4 DEF Lengths
    <2>3. \A i \in 0..k - 2 : /\ s1[i] = IF i < m THEN s[i] ELSE s[i + 1] - l[m]
                              /\ l1[i] = IF i < m THEN l[i] ELSE l[i + 1]
      BY <1>6, <1>7, <1>10, <2>2 DEF Left, Offsets, Lengths
    <2>4. h.elf_offset \in Int /\ ElfhSize \in Int
      BY HeaderAssumption DEF WellFormed, ElfTypeOK
    <2> HIDE DEF s, l, s1, l1
    <2>5. Packed(s1, l1, k - 1, ElfhSize, h.elf_offset - l[m])
      BY <2>1, <2>3, <2>4, PackedRemove
    <2> QED
      BY <2>2, <2>5, <1>2 DEF s1, l1
  <1>14. Packed(NameStarts(g, k - 1), NameSizes(g, k - 1), k - 1, StrBase, g.strtable_idx)
    <2> DEFINE s == NameStarts(h, k)
               l == NameSizes(h, k)
               s1 == NameStarts(g, k - 1)
               l1 == NameSizes(g, k - 1)
    <2>1. Packed(s, l, k, StrBase, h.strtable_idx)
      BY DEF WellFormed
    <2>2. l[m] = L
      BY <1>4 DEF NameSizes, L
    <2>3. \A i \in 0..k - 2 : /\ s1[i] = IF i < m THEN s[i] ELSE s[i + 1] - l[m]
                              /\ l1[i] = IF i < m THEN l[i] ELSE l[i + 1]
      BY <1>6, <1>7, <1>8, <1>10, <2>2 DEF Left, NameLeft, NameStarts, NameSizes
    <2>4. h.strtable_idx \in Int /\ StrBase \in Int
      BY HeaderAssumption DEF WellFormed, ElfTypeOK
    <2> HIDE DEF s, l, s1, l1
    <2>5. Packed(s1, l1, k - 1, StrBase, h.strtable_idx - l[m])
      BY <2>1, <2>3, <2>4, PackedRemove
    <2> QED
      BY <2>2, <2>5, <1>2 DEF s1, l1
  <1>15. WellFormed(g, k - 1)
    BY <1>2, <1>3, <1>11, <1>12, <1>13, <1>14 DEF WellFormed, FIXED_SECTIONS, FIXED_PROGRAMS
  <1> QED
    BY <1>1, <1>9, <1>15 DEF g
=============================================================================
