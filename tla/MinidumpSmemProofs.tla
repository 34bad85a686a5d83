------------------------- MODULE MinidumpSmemProofs -------------------------
(***************************************************************************)
(* Proofs about MinidumpSmem for every number of entries, every set of     *)
(* names and regions: the types, that the boot loader's table of contents  *)
(* mirrors the driver's entry table, that region numbers stay valid, that  *)
(* neither table is overrun; that the driver implements RegionRegistry;    *)
(* that the ELF header describes the entries until a named fault; and that *)
(* a remove fails for a named cause only.  Last, about its client, the log *)
(* (LogRegions).                                                           *)
(*                                                                         *)
(* The mirror is not inductive by itself: md_remove_ss_toc drops the first *)
(* entry and the last region of a name, which are each other's mirror only *)
(* if live names are distinct, and they are distinct after the drain only  *)
(* if they were on the pending list.  In the middle of the drain some of   *)
(* them are in the tables already and the rest still on the list.          *)
(***************************************************************************)
EXTENDS SmemRegistry, LogRegions, ElfHeaderProofs, FiniteSetTheorems, TLAPS

(* The state while regions are only collected on the pending list. *)
PendingInv ==
  ~Enabled /\ ~Draining =>
    /\ num_regions = Len(pending_list)
    /\ first_removed_entry = INT_MAX
    /\ elf.e_shnum = FIXED_SECTIONS
    /\ elf.e_phnum = FIXED_PROGRAMS
    /\ probe = "table" => ss_region_count = 1 /\ md_regions[0] = KelfRegion
    /\ \A i \in Slots : entry[i] = NoRegion
    /\ \A i, j \in 1..Len(pending_list) :
         pending_list[i].name = pending_list[j].name => i = j
    /\ \A n \in Names : regno[n] # NotRegistered =>
         /\ regno[n] + 1 \in 1..Len(pending_list)
         /\ pending_list[regno[n] + 1].name = n

(* The region that was or will be drained to slot i. *)
Early(i) == IF i < RegionNumber THEN entry[i] ELSE pending_list[i - RegionNumber + 1]

(* The state in the middle of the drain: the first regions are in both tables,
   each the other's mirror, the others are still on the list. *)
DrainInv ==
  /\ Enabled => pending_list = <<>>
  /\ Draining =>
       /\ ss_region_count >= 1
       /\ num_regions = RegionNumber + Len(pending_list)
       /\ first_removed_entry = INT_MAX
       /\ elf.e_shnum = FIXED_SECTIONS
       /\ elf.e_phnum = FIXED_PROGRAMS
       /\ md_regions[0] = KelfRegion
       /\ \A i \in 0..RegionNumber - 1 :
            /\ entry[i].name \in Names
            /\ md_regions[i + 1].name = entry[i].name
            /\ md_regions[i + 1].region_base_address = entry[i].phys_addr
            /\ md_regions[i + 1].region_size = entry[i].size
       /\ \A i \in RegionNumber..num_regions - 1 : entry[i] = NoRegion
       /\ \A i, j \in 0..num_regions - 1 : Early(i).name = Early(j).name => i = j
       /\ \A n \in Names : regno[n] # NotRegistered =>
            /\ regno[n] \in 0..num_regions - 1
            /\ Early(regno[n]).name = n

(* Two live entries have different names; zeroed ones are not live. *)
LiveNamesDistinct ==
  Enabled =>
    \A i, j \in 0..num_regions - 1 :
      entry[i].name \in Names /\ entry[i].name = entry[j].name => i = j

(* A number handed out from now on is never below the first removed entry. *)
FirstRemovedBound ==
  Enabled => first_removed_entry = INT_MAX \/ first_removed_entry <= num_regions

(* The ELF arrays have room for one more header whenever the table has. *)
HeaderCounts ==
  Enabled =>
    /\ elf.e_shnum <= num_regions + FIXED_SECTIONS
    /\ elf.e_phnum <= num_regions + FIXED_PROGRAMS

IndInv ==
  /\ TypeOK
  /\ PendingInv
  /\ DrainInv
  /\ TocMirrorsEntries
  /\ LiveNamesDistinct
  /\ NumbersStayValid
  /\ FirstRemovedBound
  /\ HeaderCounts

-----------------------------------------------------------------------------
(* A name in the table is in one entry k and in one region, k + 1: the first
   entry md_entry_num finds and the last region md_region_num finds are each
   other's mirror. *)
LEMMA OneSlotPerName ==
  ASSUME IndInv, Enabled, NEW n \in Names, EntrySlots(n) # {}
  PROVE  \E k \in 0..num_regions - 1 :
           /\ entry[k].name = n
           /\ EntrySlots(n) = {k} /\ Min(EntrySlots(n)) = k
           /\ RegionSlots(n) = {k + 1} /\ Max(RegionSlots(n)) = k + 1
  <1> USE DEF IndInv
  <1>1. PICK k \in EntrySlots(n) : TRUE
    OBVIOUS
  <1>2. k \in 0..num_regions - 1 /\ entry[k].name = n
    BY <1>1 DEF EntrySlots
  <1>3. EntrySlots(n) = {k}
    BY <1>2 DEF EntrySlots, LiveNamesDistinct
  <1>4. num_regions \in Nat /\ ss_region_count = num_regions + 1
    BY DEF TypeOK, TocMirrorsEntries
  <1>5. k + 1 \in RegionSlots(n)
    BY <1>2, <1>4 DEF RegionSlots, TocMirrorsEntries
  <1>6. ASSUME NEW i \in RegionSlots(n) PROVE i = k + 1
    <2>1. i \in 0..num_regions /\ md_regions[i].name = n
      BY <1>4 DEF RegionSlots
    <2>2. i # 0
      BY <2>1, NamesAssumption DEF TocMirrorsEntries, KelfRegion
    <2>3. i - 1 \in 0..num_regions - 1 /\ md_regions[(i - 1) + 1].name = n
      BY <2>1, <2>2, <1>4
    <2>4. entry[i - 1].name = n
      BY <2>3 DEF TocMirrorsEntries
    <2> QED
      BY <2>1, <2>3, <2>4, <1>2, <1>4 DEF LiveNamesDistinct
  <1>7. RegionSlots(n) = {k + 1}
    BY <1>5, <1>6
  <1>8. Min(EntrySlots(n)) = k /\ Max(RegionSlots(n)) = k + 1
    BY <1>2, <1>3, <1>4, <1>7, MinMaxSingleton
  <1> QED
    BY <1>2, <1>3, <1>7, <1>8

(* A name that is not in the entry table is not in the table of contents. *)
LEMMA NoSlotNoRegion ==
  ASSUME IndInv, Enabled, NEW n \in Names, EntrySlots(n) = {}
  PROVE  RegionSlots(n) = {}
  <1> USE DEF IndInv
  <1>1. num_regions \in Nat /\ ss_region_count = num_regions + 1
    BY DEF TypeOK, TocMirrorsEntries
  <1> SUFFICES ASSUME NEW i \in 0..num_regions, md_regions[i].name = n
               PROVE  FALSE
    BY <1>1 DEF RegionSlots
  <1>2. i # 0
    BY NamesAssumption DEF TocMirrorsEntries, KelfRegion
  <1>3. i - 1 \in 0..num_regions - 1 /\ md_regions[(i - 1) + 1].name = n
    BY <1>1, <1>2
  <1>4. entry[i - 1].name = n
    BY <1>3 DEF TocMirrorsEntries
  <1> QED
    BY <1>3, <1>4 DEF EntrySlots

-----------------------------------------------------------------------------
(* The initial states satisfy the inductive invariant. *)
LEMMA InitIndInv == Init => IndInv
  <1> SUFFICES ASSUME Init PROVE IndInv
    OBVIOUS
  <1> USE DEF Init
  <1>1. ~Enabled /\ ~Draining
    BY DEF Enabled, Draining
  <1>2. NoSsRegion \in SsRegion
    BY DEF NoSsRegion, SsRegion
  <1>3. TypeOK
    BY <1>2, AddHeaderType, MaxAssumption DEF TypeOK, Slots, INT_MAX, NotRegistered
  <1>4. PendingInv
    BY DEF PendingInv, AddHeader
  <1> QED
    BY <1>1, <1>3, <1>4 DEF IndInv, DrainInv, TocMirrorsEntries, LiveNamesDistinct,
       NumbersStayValid, FirstRemovedBound, HeaderCounts

(* The table of contents starts with region 0, the ELF header's. *)
LEMMA ProbeTableIndInv == IndInv /\ ProbeTable => IndInv'
  <1> SUFFICES ASSUME IndInv, ProbeTable PROVE IndInv'
    OBVIOUS
  <1> USE DEF IndInv, ProbeTable
  <1>1. ~Enabled /\ ~Enabled' /\ ~Draining /\ ~Draining'
    BY DEF Enabled, Draining
  <1>2. KelfRegion \in SsRegion
    BY HeaderAssumption DEF KelfRegion, SsRegion
  <1>3. TypeOK'
    BY <1>2, AddHeaderType, MaxAssumption DEF TypeOK, Slots
  <1>4. PendingInv'
    BY <1>1, MaxAssumption DEF PendingInv, AddHeader, TypeOK, Slots
  <1> QED
    BY <1>1, <1>3, <1>4 DEF DrainInv, TocMirrorsEntries, LiveNamesDistinct,
       NumbersStayValid, FirstRemovedBound, HeaderCounts

(* A probe that gives up changes no table, nor does a call that finds its
   table freed. *)
LEMMA ProbeFailIndInv ==
  ASSUME IndInv, ProbeFail \/ \E e \in Regions : AddToFreedTable(e)
  PROVE  IndInv'
  <1> USE DEF IndInv
  <1>1. /\ ~Enabled /\ ~Enabled' /\ ~Draining /\ ~Draining'
        /\ probe' \in {"failed", "freed", "lost"}
        /\ UNCHANGED <<pending_list, num_regions, entry, first_removed_entry, ss_region_count,
                       md_regions, md_ss_toc_init, elf, regno, faults>>
    BY DEF Enabled, Draining, ProbeFail, AddToFreedTable
  <1>2. TypeOK'
    BY <1>1 DEF TypeOK
  <1>3. PendingInv'
    BY <1>1 DEF PendingInv
  <1> QED
    BY <1>1, <1>2, <1>3 DEF DrainInv, TocMirrorsEntries, LiveNamesDistinct,
       NumbersStayValid, FirstRemovedBound, HeaderCounts

(* md_init_done is published after the tables are complete. *)
LEMMA ProbeDoneIndInv == IndInv /\ ProbeDone => IndInv'
  <1> SUFFICES ASSUME IndInv, ProbeDone PROVE IndInv'
    OBVIOUS
  <1> USE DEF IndInv, ProbeDone
  <1>1. Enabled /\ Enabled' /\ ~Draining'
    BY DEF Enabled, Draining
  <1>2. TypeOK'
    BY DEF TypeOK
  <1> QED
    BY <1>1, <1>2 DEF PendingInv, DrainInv, TocMirrorsEntries, LiveNamesDistinct,
       NumbersStayValid, FirstRemovedBound, HeaderCounts

(* The drain begins with all regions on the list and region 0 in the table. *)
LEMMA ProbeEnableIndInv == IndInv /\ ProbeEnable => IndInv'
  <1> SUFFICES ASSUME IndInv, ProbeEnable PROVE IndInv'
    OBVIOUS
  <1> USE DEF IndInv, ProbeEnable
  <1>1. ~Enabled /\ ~Draining /\ ~Enabled' /\ Draining'
    BY DEF Enabled, Draining
  <1> DEFINE L == Len(pending_list)
  <1>2. /\ L \in Nat /\ num_regions = L /\ ss_region_count = 1 /\ L <= MAX_NUM_ENTRIES
        /\ md_regions[0] = KelfRegion
    BY <1>1 DEF PendingInv, TypeOK
  <1>3. TypeOK'
    BY DEF TypeOK
  <1>4. RegionNumber' = 0 /\ \A i : Early(i)' = IF i < 0 THEN entry[i] ELSE pending_list[i - 0 + 1]
    BY <1>2 DEF RegionNumber, Early
  <1>5. \A i \in 0..L - 1 : i + 1 \in 1..L /\ Early(i)' = pending_list[i + 1] /\ entry[i] = NoRegion
    BY <1>1, <1>2, <1>4, MaxAssumption DEF PendingInv, Slots
  <1>6. \A i, j \in 0..L - 1 : Early(i)'.name = Early(j)'.name => i = j
    <2> SUFFICES ASSUME NEW i \in 0..L - 1, NEW j \in 0..L - 1,
                        Early(i)'.name = Early(j)'.name
                 PROVE  i = j
      OBVIOUS
    <2>1. i + 1 \in 1..L /\ j + 1 \in 1..L /\ pending_list[i + 1].name = pending_list[j + 1].name
      BY <1>5
    <2>2. i + 1 = j + 1
      BY <2>1, <1>1 DEF PendingInv
    <2> QED
      BY <2>2, <1>2
  <1>7. ASSUME NEW n \in Names, regno[n] # NotRegistered
        PROVE  regno[n] \in 0..L - 1 /\ pending_list[regno[n] + 1].name = n
    <2>1. regno[n] + 1 \in 1..L /\ pending_list[regno[n] + 1].name = n
      BY <1>1, <1>7 DEF PendingInv
    <2> QED
      BY <2>1, <1>2 DEF TypeOK
  <1>8. DrainInv'
    <2>1. \A n \in Names : regno'[n] # NotRegistered =>
             regno'[n] \in 0..num_regions' - 1 /\ Early(regno[n])'.name = n
      BY <1>2, <1>5, <1>7
    <2>2. first_removed_entry' = INT_MAX /\ elf'.e_shnum = FIXED_SECTIONS
          /\ elf'.e_phnum = FIXED_PROGRAMS
      BY <1>1 DEF PendingInv
    <2>3. \A i \in 0..num_regions' - 1 : entry'[i] = NoRegion
      BY <1>2, <1>5
    <2>4. \A i, j \in 0..num_regions' - 1 : Early(i)'.name = Early(j)'.name => i = j
      BY <1>2, <1>6
    <2>5. ss_region_count' >= 1 /\ num_regions' = 0 + Len(pending_list') /\ md_regions'[0] = KelfRegion
      BY <1>2
    <2> QED
      BY <1>1, <1>4, <2>1, <2>2, <2>3, <2>4, <2>5 DEF DrainInv, NotRegistered
  <1> QED
    BY <1>1, <1>3, <1>8 DEF PendingInv, TocMirrorsEntries, LiveNamesDistinct,
       NumbersStayValid, FirstRemovedBound, HeaderCounts

(* In the middle of the drain: what is known of the region that is moved next. *)
LEMMA NextDrained ==
  ASSUME IndInv, DrainRegion
  PROVE  LET R == RegionNumber  e == Head(pending_list) IN
         /\ R \in 0..num_regions - 1 /\ num_regions \in 0..MAX_NUM_ENTRIES
         /\ ss_region_count = R + 1 /\ R \in Slots /\ R + 1 \in Slots /\ num_regions \in Slots
         /\ e \in Region /\ e = Early(R)
         /\ RegionSlots(e.name) = {}
         /\ entry' = [entry EXCEPT ![R] = e, ![num_regions] = e]
         /\ md_regions' = [md_regions EXCEPT ![R + 1] = MkSsRegion(e)]
         /\ MkSsRegion(e) = [name |-> e.name, seq_num |-> 0, md_valid |-> TRUE,
                             region_base_address |-> e.phys_addr, region_size |-> e.size]
         /\ RegionNumber' = R + 1
         /\ Len(pending_list') = Len(pending_list) - 1
         /\ \A i \in 1..Len(pending_list) - 1 : pending_list'[i] = pending_list[i + 1]
         /\ \A i \in 0..num_regions - 1 : Early(i)' = Early(i)
  <1> USE DEF IndInv, DrainRegion
  <1> DEFINE R == RegionNumber
             L == Len(pending_list)
             N == num_regions
             e == Head(pending_list)
  <1>1. /\ Draining /\ pending_list # <<>> /\ pending_list \in Seq(Region)
        /\ entry \in [Slots -> Region \cup {NoRegion}]
    BY DEF TypeOK
  <1>2. /\ L \in Nat /\ L >= 1 /\ e = pending_list[1] /\ e \in Region
        /\ Len(pending_list') = L - 1 /\ \A i \in 1..L - 1 : pending_list'[i] = pending_list[i + 1]
    BY <1>1
  <1>3. /\ ss_region_count \in Int /\ ss_region_count >= 1 /\ N = R + L
        /\ N \in 0..MAX_NUM_ENTRIES /\ MAX_NUM_ENTRIES \in Nat
    BY <1>1, MaxAssumption DEF DrainInv, TypeOK
  <1>4. /\ ss_region_count = R + 1 /\ R \in Nat /\ R < N /\ R' = R + 1
    BY <1>2, <1>3 DEF RegionNumber
  <1> HIDE DEF R, L, N, e
  <1>5. R \in 0..N - 1 /\ R \in Slots /\ R + 1 \in Slots /\ N \in Slots
    BY <1>2, <1>3, <1>4 DEF Slots, N
  <1>6. e = Early(R)
    <2>1. Early(R) = pending_list[R - R + 1] /\ R - R + 1 = 1
      BY <1>4 DEF Early, R
    <2> QED
      BY <2>1, <1>2
  <1>7. RegionSlots(e.name) = {}
    <2> SUFFICES ASSUME NEW i \in 0..ss_region_count - 1, md_regions[i].name = e.name
                 PROVE  FALSE
      BY DEF RegionSlots
    <2>1. i \in 0..R
      BY <1>4
    <2>2. i # 0
      BY <1>1, <1>2, NamesAssumption DEF DrainInv, KelfRegion, Region
    <2>3. i - 1 \in 0..R - 1 /\ i - 1 \in 0..N - 1 /\ (i - 1) + 1 = i /\ i - 1 # R
      BY <2>1, <2>2, <1>4, <1>5
    <2>4. entry[i - 1].name = e.name
      <3>1. \A j \in 0..R - 1 : md_regions[j + 1].name = entry[j].name
        BY <1>1 DEF DrainInv, R
      <3> QED
        BY <3>1, <2>3
    <2>5. Early(i - 1) = entry[i - 1]
      <3>1. i - 1 < R
        BY <2>1, <1>4
      <3> QED
        BY <3>1 DEF Early, R
    <2>6. \A j, k \in 0..N - 1 : Early(j).name = Early(k).name => j = k
      BY <1>1 DEF DrainInv, N
    <2>7. R \in 0..N - 1 /\ Early(i - 1).name = Early(R).name
      BY <2>4, <2>5, <1>5, <1>6
    <2> QED
      BY <2>3, <2>6, <2>7
  <1>8. MkSsRegion(e) = [name |-> e.name, seq_num |-> 0, md_valid |-> TRUE,
                         region_base_address |-> e.phys_addr, region_size |-> e.size]
    BY <1>7 DEF MkSsRegion
  <1>9. /\ entry' = [entry EXCEPT ![R] = e, ![N] = e]
        /\ md_regions' = [md_regions EXCEPT ![R + 1] = MkSsRegion(e)]
    BY <1>4 DEF R, N, e
  <1>10. ASSUME NEW i \in 0..N - 1 PROVE Early(i)' = Early(i)
    <2>1. i \in Slots /\ i # N
      BY <1>3 DEF Slots
    <2>2. CASE i < R
      <3>1. entry'[i] = entry[i] /\ i < R'
        BY <2>1, <2>2, <1>1, <1>4, <1>9
      <3> QED
        BY <3>1, <2>2 DEF Early, R
    <2>3. CASE i = R
      <3>1. entry'[i] = e /\ i < R'
        BY <2>1, <2>3, <1>1, <1>4, <1>9
      <3> QED
        BY <3>1, <2>3, <1>6 DEF Early, R
    <2>4. CASE i > R
      <3>1. /\ ~(i < R) /\ ~(i < R') /\ i - R \in 1..L - 1 /\ i - R' + 1 = i - R
        BY <2>4, <1>2, <1>3, <1>4
      <3>2. pending_list'[i - R] = pending_list[i - R + 1]
        BY <3>1, <1>2
      <3>3. Early(i)' = pending_list'[i - R' + 1]
        BY <3>1 DEF Early, R
      <3>4. Early(i) = pending_list[i - R + 1]
        BY <3>1 DEF Early, R
      <3> QED
        BY <3>1, <3>2, <3>3, <3>4
    <2> QED
      BY <2>2, <2>3, <2>4, <1>4
  <1> QED
    BY <1>2, <1>3, <1>4, <1>5, <1>6, <1>7, <1>8, <1>9, <1>10 DEF R, L, N, e

(* The drain moves one region from the list to the tables. *)
LEMMA DrainRegionIndInv == IndInv /\ DrainRegion => IndInv'
  <1> SUFFICES ASSUME IndInv, DrainRegion PROVE IndInv'
    OBVIOUS
  <1> USE DEF IndInv
  <1> DEFINE R == RegionNumber
             L == Len(pending_list)
             N == num_regions
             e == Head(pending_list)
  <1>1. /\ Draining /\ Draining' /\ ~Enabled /\ ~Enabled'
        /\ pending_list' = Tail(pending_list) /\ ss_region_count' = ss_region_count + 1
        /\ faults' = faults \cup {"early"}
        /\ UNCHANGED <<probe, num_regions, first_removed_entry, md_ss_toc_init, elf, regno>>
    BY DEF DrainRegion, Draining, Enabled
  <1>2. /\ R \in 0..N - 1 /\ N \in 0..MAX_NUM_ENTRIES
        /\ ss_region_count = R + 1 /\ R \in Slots /\ R + 1 \in Slots /\ N \in Slots
        /\ e \in Region /\ e = Early(R)
        /\ entry' = [entry EXCEPT ![R] = e, ![N] = e]
        /\ md_regions' = [md_regions EXCEPT ![R + 1] = MkSsRegion(e)]
        /\ MkSsRegion(e) = [name |-> e.name, seq_num |-> 0, md_valid |-> TRUE,
                            region_base_address |-> e.phys_addr, region_size |-> e.size]
        /\ R' = R + 1
        /\ Len(pending_list') = L - 1
        /\ \A i \in 0..N - 1 : Early(i)' = Early(i)
    BY NextDrained
  <1>3. /\ N = R + L /\ MAX_NUM_ENTRIES \in Nat /\ L \in Nat
        /\ entry \in [Slots -> Region \cup {NoRegion}] /\ md_regions \in [Slots -> SsRegion]
        /\ pending_list # <<>>
    BY <1>1, MaxAssumption DEF DrainInv, TypeOK, DrainRegion
  <1> HIDE DEF R, L, N, e
  <1>4. TypeOK'
    <2>1. MkSsRegion(e) \in SsRegion
      BY <1>2 DEF SsRegion, Region
    <2>2. entry' \in [Slots -> Region \cup {NoRegion}] /\ md_regions' \in [Slots -> SsRegion]
      BY <2>1, <1>2, <1>3
    <2>3. pending_list' \in Seq(Region)
      BY <1>1, <1>3 DEF TypeOK
    <2>4. ss_region_count' \in 0..MAX_NUM_ENTRIES + 1
      BY <1>1, <1>2, <1>3
    <2> QED
      BY <2>2, <2>3, <2>4, <1>1 DEF TypeOK
  <1>5. DrainInv'
    <2>1. ss_region_count' >= 1 /\ num_regions' = R' + Len(pending_list')
      <3>1. num_regions' = N /\ N = R + L /\ R \in Int /\ L \in Nat /\ R >= 0
        BY <1>1, <1>2, <1>3 DEF N
      <3>2. R' = R + 1 /\ Len(pending_list') = L - 1
        BY <1>2
      <3>3. ss_region_count' >= 1
        BY <1>1, <1>2, <3>1
      <3> QED
        BY <3>1, <3>2, <3>3
    <2>2. md_regions'[0] = KelfRegion
      <3>1. 0 # R + 1 /\ 0 \in Slots
        BY <1>2, <1>3 DEF Slots
      <3> QED
        BY <3>1, <1>1, <1>2, <1>3 DEF DrainInv
    <2>3. ASSUME NEW i \in 0..R' - 1
          PROVE  /\ entry'[i].name \in Names
                 /\ md_regions'[i + 1].name = entry'[i].name
                 /\ md_regions'[i + 1].region_base_address = entry'[i].phys_addr
                 /\ md_regions'[i + 1].region_size = entry'[i].size
      <3>1. i \in 0..R /\ i \in Slots /\ i + 1 \in Slots /\ i # N
        BY <1>2, <1>3 DEF Slots
      <3>2. CASE i = R
        <4>1. entry'[i] = e /\ md_regions'[i + 1] = MkSsRegion(e)
          BY <3>1, <3>2, <1>2, <1>3
        <4> QED
          BY <4>1, <1>2 DEF Region
      <3>3. CASE i # R
        <4>1. i \in 0..R - 1 /\ i + 1 # R + 1
          BY <3>1, <3>3, <1>2
        <4>2. entry'[i] = entry[i] /\ md_regions'[i + 1] = md_regions[i + 1]
          BY <4>1, <3>1, <3>3, <1>2, <1>3
        <4>3. /\ entry[i].name \in Names
              /\ md_regions[i + 1].name = entry[i].name
              /\ md_regions[i + 1].region_base_address = entry[i].phys_addr
              /\ md_regions[i + 1].region_size = entry[i].size
          BY <4>1, <1>1 DEF DrainInv, R
        <4> QED
          BY <4>2, <4>3
      <3> QED
        BY <3>2, <3>3
    <2>4. ASSUME NEW i \in R'..N - 1 PROVE entry'[i] = NoRegion
      <3>1. i \in R..N - 1 /\ i \in Slots /\ i # N /\ i # R
        BY <1>2, <1>3 DEF Slots
      <3>2. entry[i] = NoRegion
        BY <3>1, <1>1 DEF DrainInv, R, N
      <3> QED
        BY <3>1, <3>2, <1>2, <1>3
    <2>5. \A i, j \in 0..N - 1 : Early(i)'.name = Early(j)'.name => i = j
      <3>1. \A i, j \in 0..N - 1 : Early(i).name = Early(j).name => i = j
        BY <1>1 DEF DrainInv, N
      <3> QED
        BY <3>1, <1>2
    <2>6. ASSUME NEW n \in Names, regno[n] # NotRegistered
          PROVE  regno[n] \in 0..N - 1 /\ Early(regno[n])'.name = n
      <3>1. regno[n] \in 0..N - 1 /\ Early(regno[n]).name = n
        BY <2>6, <1>1 DEF DrainInv, N
      <3>2. PICK k \in 0..N - 1 : k = regno[n]
        BY <3>1
      <3>3. Early(k)' = Early(k) /\ regno' = regno
        BY <1>1, <1>2
      <3> QED
        BY <3>1, <3>2, <3>3
    <2>7. first_removed_entry' = INT_MAX /\ elf'.e_shnum = FIXED_SECTIONS
          /\ elf'.e_phnum = FIXED_PROGRAMS
      BY <1>1 DEF DrainInv
    <2> QED
      BY <1>1, <2>1, <2>2, <2>3, <2>4, <2>5, <2>6, <2>7 DEF DrainInv, R, N, NotRegistered
  <1> QED
    BY <1>1, <1>4, <1>5 DEF PendingInv, TocMirrorsEntries, LiveNamesDistinct,
       NumbersStayValid, FirstRemovedBound, HeaderCounts

(* When the list is empty both tables hold all regions. *)
LEMMA ProbeUnlockIndInv == IndInv /\ ProbeUnlock => IndInv'
  <1> SUFFICES ASSUME IndInv, ProbeUnlock PROVE IndInv'
    OBVIOUS
  <1> USE DEF IndInv, ProbeUnlock
  <1>1. Draining /\ ~Enabled /\ Enabled' /\ ~Draining' /\ pending_list = <<>>
    BY DEF Draining, Enabled
  <1>2. /\ num_regions = RegionNumber /\ ss_region_count = num_regions + 1
        /\ num_regions \in Nat
    BY <1>1 DEF DrainInv, RegionNumber, TypeOK
  <1>3. TypeOK'
    BY DEF TypeOK
  <1>4. TocMirrorsEntries'
    BY <1>1, <1>2 DEF DrainInv, TocMirrorsEntries
  <1>5. \A i \in 0..num_regions - 1 : Early(i) = entry[i]
    BY <1>2 DEF Early
  <1>6. LiveNamesDistinct' /\ NumbersStayValid'
    BY <1>1, <1>2, <1>5 DEF DrainInv, LiveNamesDistinct, NumbersStayValid, NotRegistered
  <1>7. FirstRemovedBound' /\ HeaderCounts'
    BY <1>1, <1>2 DEF DrainInv, FirstRemovedBound, HeaderCounts, FIXED_SECTIONS, FIXED_PROGRAMS
  <1> QED
    BY <1>1, <1>3, <1>4, <1>6, <1>7 DEF PendingInv, DrainInv

(* A region that has to wait is a new last element with a new name. *)
LEMMA AddPendingIndInv ==
  ASSUME EarlyDuplicates = FALSE, NEW e \in Regions, IndInv, AddPending(e)
  PROVE  IndInv'
  <1> USE DEF IndInv, AddPending
  <1> DEFINE L == Len(pending_list)
  <1>1. ~Enabled /\ ~Enabled' /\ ~Draining /\ ~Draining'
    BY DEF Enabled, Draining, NotEnabledYet
  <1>2. e \in Region /\ e.name \in Names
    BY RegionsAssumption DEF Region
  <1>3. /\ L \in Nat /\ num_regions = L /\ L + 1 <= MAX_NUM_ENTRIES
        /\ pending_list' = Append(pending_list, e)
        /\ Len(pending_list') = L + 1
        /\ pending_list'[L + 1] = e
        /\ \A i \in 1..L : pending_list'[i] = pending_list[i]
    BY <1>1, <1>2, MaxAssumption DEF PendingInv, TypeOK
  <1>4. TypeOK'
    <2>1. pending_list' \in Seq(Region)
      BY <1>2, <1>3 DEF TypeOK
    <2>2. ElfTypeOK(elf)'
      BY DEF TypeOK
    <2>3. num_regions' \in 0..MAX_NUM_ENTRIES /\ num_regions \in -1..MAX_NUM_ENTRIES - 1
      BY <1>3, MaxAssumption
    <2>4. regno' \in [Names -> -1..MAX_NUM_ENTRIES - 1]
      BY <2>3 DEF TypeOK
    <2> QED
      BY <2>1, <2>2, <2>3, <2>4 DEF TypeOK
  <1>5. \A i \in 1..L : pending_list[i].name # e.name
    <2>1. DOMAIN pending_list = 1..L
      BY DEF TypeOK
    <2> QED
      BY <2>1
  <1>6. \A i, j \in 1..L + 1 : pending_list'[i].name = pending_list'[j].name => i = j
    <2> SUFFICES ASSUME NEW i \in 1..L + 1, NEW j \in 1..L + 1,
                        pending_list'[i].name = pending_list'[j].name
                 PROVE  i = j
      OBVIOUS
    <2>1. CASE i \in 1..L /\ j \in 1..L
      BY <2>1, <1>1, <1>3 DEF PendingInv
    <2>2. CASE i = L + 1 /\ j \in 1..L
      BY <2>2, <1>3, <1>5
    <2>3. CASE i \in 1..L /\ j = L + 1
      BY <2>3, <1>3, <1>5
    <2>4. CASE i = L + 1 /\ j = L + 1
      BY <2>4
    <2> QED
      BY <2>1, <2>2, <2>3, <2>4, <1>3
  <1>7. ASSUME NEW n \in Names, regno'[n] # NotRegistered
        PROVE  regno'[n] + 1 \in 1..L + 1 /\ pending_list'[regno'[n] + 1].name = n
    <2>1. CASE n = e.name
      <3>1. regno'[n] = L
        BY <2>1, <1>2, <1>3 DEF TypeOK
      <3> QED
        BY <3>1, <2>1, <1>3
    <2>2. CASE n # e.name
      <3>1. regno'[n] = regno[n]
        BY <2>2, <1>2 DEF TypeOK
      <3>2. regno[n] + 1 \in 1..L /\ pending_list[regno[n] + 1].name = n
        BY <3>1, <1>1, <1>7 DEF PendingInv
      <3> QED
        BY <3>1, <3>2, <1>3
    <2> QED
      BY <2>1, <2>2
  <1>8. PendingInv'
    <2>1. \A n \in Names : regno'[n] # NotRegistered =>
            regno'[n] + 1 \in 1..Len(pending_list') /\ pending_list'[regno'[n] + 1].name = n
      BY <1>3, <1>7
    <2>2. \A i, j \in 1..Len(pending_list') :
            pending_list'[i].name = pending_list'[j].name => i = j
      BY <1>3, <1>6
    <2>3. num_regions' = Len(pending_list')
      BY <1>3
    <2> QED
      BY <1>1, <2>1, <2>2, <2>3 DEF PendingInv, NotRegistered
  <1> QED
    BY <1>1, <1>4, <1>8 DEF DrainInv, TocMirrorsEntries, LiveNamesDistinct,
       NumbersStayValid, FirstRemovedBound, HeaderCounts

(* A region added to the enabled table takes the first free slot of both
   tables, under a name that neither has. *)
LEMMA AddRegionIndInv ==
  ASSUME NEW e \in Regions, IndInv, AddRegion(e)
  PROVE  IndInv'
  <1> USE DEF IndInv, AddRegion
  <1> DEFINE N == num_regions
  <1>1. Enabled /\ Enabled' /\ ~Draining'
    BY DEF Enabled, Draining
  <1>2. /\ e \in Region /\ e.name \in Names /\ e.phys_addr \in Nat
        /\ e.size \in Nat /\ e.virt_addr \in Nat
    BY RegionsAssumption DEF Region
  <1>3. /\ N \in Nat /\ N < MAX_NUM_ENTRIES /\ MAX_NUM_ENTRIES \in Nat
        /\ ss_region_count = N + 1 /\ N + 1 < MAX_NUM_ENTRIES
        /\ N \in Slots /\ N + 1 \in Slots
        /\ num_regions' = N + 1 /\ ss_region_count' = N + 2
    BY <1>1, MaxAssumption DEF CanAdd, TypeOK, TocMirrorsEntries, Slots
  <1>4. EntrySlots(e.name) = {} /\ RegionSlots(e.name) = {}
    BY <1>1, <1>2, NoSlotNoRegion DEF CanAdd
  <1>5. /\ entry'[N] = e
        /\ \A i \in 0..N - 1 : i \in Slots /\ entry'[i] = entry[i] /\ entry[i].name # e.name
        /\ entry' \in [Slots -> Region \cup {NoRegion}]
    <2>1. entry' = [entry EXCEPT ![N] = e] /\ entry \in [Slots -> Region \cup {NoRegion}]
      BY DEF TypeOK
    <2>2. \A i \in 0..N - 1 : i \in Slots /\ i # N
      BY <1>3 DEF Slots
    <2>3. \A i \in 0..N - 1 : entry[i].name # e.name
      BY <1>4 DEF EntrySlots
    <2> QED
      BY <2>1, <2>2, <2>3, <1>2, <1>3
  <1>6. MkSsRegion(e) = [name |-> e.name, seq_num |-> 0, md_valid |-> TRUE,
                         region_base_address |-> e.phys_addr, region_size |-> e.size]
    BY <1>4 DEF MkSsRegion
  <1>7. /\ md_regions' = [md_regions EXCEPT ![N + 1] = MkSsRegion(e)]
        /\ \A i \in 0..N : i \in Slots /\ md_regions'[i] = md_regions[i]
        /\ md_regions'[N + 1] = MkSsRegion(e)
        /\ md_regions' \in [Slots -> SsRegion]
    <2>1. MkSsRegion(e) \in SsRegion
      BY <1>2, <1>6 DEF SsRegion
    <2> QED
      BY <2>1, <1>3 DEF TypeOK, Slots
  <1>8. regno' \in [Names -> -1..MAX_NUM_ENTRIES - 1]
    <2>1. N \in -1..MAX_NUM_ENTRIES - 1
      BY <1>3
    <2>2. regno' = [regno EXCEPT ![e.name] = N] /\ regno \in [Names -> -1..MAX_NUM_ENTRIES - 1]
      BY DEF TypeOK
    <2> QED
      BY <2>1, <2>2
  <1>9. ElfTypeOK(elf') /\ elf'.e_shnum = elf.e_shnum + 1 /\ elf'.e_phnum = elf.e_phnum + 1
    <2>1. ElfTypeOK(AddElfHeader(elf, e))
      BY <1>2, AddElfHeaderType DEF TypeOK
    <2> QED
      BY <2>1 DEF AddElfHeader
  <1>10. TypeOK'
    <2>1. faults' \subseteq {"early", "alias", "overlap", "update", "remove"}
      BY DEF TypeOK, AliasFault
    <2>2. num_regions' \in 0..MAX_NUM_ENTRIES /\ ss_region_count' \in 0..MAX_NUM_ENTRIES + 1
      BY <1>3
    <2> QED
      BY <2>1, <2>2, <1>5, <1>7, <1>8, <1>9 DEF TypeOK
  <1>11. TocMirrorsEntries'
    <2>1. md_regions'[0] = KelfRegion
      BY <1>1, <1>3, <1>7 DEF TocMirrorsEntries
    <2>2. ASSUME NEW i \in 0..N
          PROVE  /\ md_regions'[i + 1].name = entry'[i].name
                 /\ md_regions'[i + 1].region_base_address = entry'[i].phys_addr
                 /\ md_regions'[i + 1].region_size = entry'[i].size
      <3>1. CASE i = N
        BY <3>1, <1>5, <1>6, <1>7
      <3>2. CASE i \in 0..N - 1
        <4>1. i + 1 \in 0..N
          BY <3>2, <1>3
        <4> QED
          BY <4>1, <3>2, <1>1, <1>5, <1>7 DEF TocMirrorsEntries
      <3> QED
        BY <3>1, <3>2, <1>3
    <2> QED
      BY <2>1, <2>2, <1>3 DEF TocMirrorsEntries
  <1>12. LiveNamesDistinct'
    <2> SUFFICES ASSUME NEW i \in 0..N, NEW j \in 0..N,
                        entry'[i].name \in Names, entry'[i].name = entry'[j].name
                 PROVE  i = j
      BY <1>3 DEF LiveNamesDistinct
    <2>1. CASE i \in 0..N - 1 /\ j \in 0..N - 1
      BY <2>1, <1>1, <1>5 DEF LiveNamesDistinct
    <2>2. CASE i = N \/ j = N
      BY <2>2, <1>3, <1>5
    <2> QED
      BY <2>1, <2>2, <1>3
  <1>13. NumbersStayValid'
    <2> SUFFICES ASSUME NEW n \in Names, regno'[n] # NotRegistered,
                        regno'[n] < first_removed_entry
                 PROVE  regno'[n] < N + 1 /\ entry'[regno'[n]].name = n
      BY <1>3 DEF NumbersStayValid
    <2>1. CASE n = e.name
      <3>1. regno'[n] = N
        BY <2>1, <1>2 DEF TypeOK
      <3> QED
        BY <3>1, <2>1, <1>3, <1>5
    <2>2. CASE n # e.name
      <3>1. regno'[n] = regno[n] /\ regno[n] \in 0..MAX_NUM_ENTRIES - 1
        BY <2>2, <1>2, <1>3 DEF TypeOK, NotRegistered
      <3>2. regno[n] < N /\ entry[regno[n]].name = n
        BY <3>1, <1>1 DEF NumbersStayValid
      <3> QED
        BY <3>1, <3>2, <1>3, <1>5
    <2> QED
      BY <2>1, <2>2
  <1>14. FirstRemovedBound' /\ HeaderCounts'
    <2>1. elf.e_shnum \in Nat /\ elf.e_phnum \in Nat /\ first_removed_entry \in Int
      BY DEF TypeOK, ElfTypeOK
    <2> QED
      BY <2>1, <1>1, <1>3, <1>9 DEF FirstRemovedBound, HeaderCounts,
         FIXED_SECTIONS, FIXED_PROGRAMS
  <1> QED
    BY <1>1, <1>10, <1>11, <1>12, <1>13, <1>14 DEF PendingInv, DrainInv

(* An accepted update writes the caller's own slot in both tables. *)
LEMMA UpdateRegionIndInv ==
  ASSUME NEW e \in Regions, IndInv, UpdateRegion(e)
  PROVE  IndInv'
  <1> USE DEF IndInv
  <1> DEFINE r == regno[e.name]
             N == num_regions
  <1>1. Enabled /\ Enabled' /\ ~Draining'
    BY DEF UpdateRegion, MdInitDone, Enabled, Draining
  <1>2. /\ e \in Region /\ e.name \in Names /\ e.phys_addr \in Nat /\ e.virt_addr \in Nat
    BY RegionsAssumption DEF Region
  <1>3. r \in 0..MAX_NUM_ENTRIES - 1 /\ N \in 0..MAX_NUM_ENTRIES
    BY <1>2, MaxAssumption DEF UpdateRegion, TypeOK, NotRegistered
  <1>4. /\ UNCHANGED <<probe, pending_list, num_regions, first_removed_entry,
                       ss_region_count, md_ss_toc_init, regno>>
        /\ elf' = UpdateElfHeader(elf, r, e)
    BY DEF UpdateRegion
  <1>5. ElfTypeOK(elf') /\ elf'.e_shnum = elf.e_shnum /\ elf'.e_phnum = elf.e_phnum
    <2>1. r \in Int /\ ElfTypeOK(elf)
      BY <1>3, MaxAssumption DEF TypeOK
    <2> HIDE DEF r
    <2> QED
      BY <2>1, <1>2, <1>4, UpdateElfHeaderType
  <1>6. HeaderCounts' /\ FirstRemovedBound' /\ PendingInv' /\ DrainInv'
    BY <1>1, <1>4, <1>5 DEF HeaderCounts, FirstRemovedBound, PendingInv, DrainInv
  <1>7. CASE ~CanUpdate(r, e.name)
    <2>1. UNCHANGED <<entry, md_regions>> /\ faults' = faults \cup {"update"}
      BY <1>7 DEF UpdateRegion
    <2>2. TypeOK'
      BY <2>1, <1>4, <1>5 DEF TypeOK
    <2> QED
      BY <2>1, <2>2, <1>1, <1>4, <1>6
         DEF TocMirrorsEntries, LiveNamesDistinct, NumbersStayValid
  <1>8. CASE CanUpdate(r, e.name)
    <2>1. /\ entry' = [entry EXCEPT ![r].virt_addr = e.virt_addr,
                                    ![r].phys_addr = e.phys_addr]
          /\ md_regions' = [md_regions EXCEPT ![r + 1].region_base_address = e.phys_addr]
          /\ faults' = faults \cup AliasFault([entry[r] EXCEPT !.phys_addr = e.phys_addr])
      BY <1>8 DEF UpdateRegion
    <2>2. r < N /\ entry[r].name = e.name
      BY <1>1, <1>2, <1>3, <1>8 DEF CanUpdate, NumbersStayValid, NotRegistered
    <2>3. entry[r] \in Region /\ r \in Slots /\ r + 1 \in Slots /\ md_regions[r + 1] \in SsRegion
      BY <2>2, <1>2, <1>3, NamesAssumption, MaxAssumption DEF TypeOK, Slots, NoRegion
    <2>4. /\ entry'[r] = [name |-> e.name, virt_addr |-> e.virt_addr,
                          phys_addr |-> e.phys_addr, size |-> entry[r].size]
          /\ \A i \in Slots : i # r => entry'[i] = entry[i]
          /\ entry' \in [Slots -> Region \cup {NoRegion}]
      BY <2>1, <2>2, <2>3, <1>2 DEF TypeOK, Region
    <2>5. /\ md_regions'[r + 1].name = md_regions[r + 1].name
          /\ md_regions'[r + 1].region_size = md_regions[r + 1].region_size
          /\ md_regions'[r + 1].region_base_address = e.phys_addr
          /\ \A i \in Slots : i # r + 1 => md_regions'[i] = md_regions[i]
          /\ md_regions' \in [Slots -> SsRegion]
      BY <2>1, <2>3, <1>2 DEF TypeOK, SsRegion
    <2>6. TypeOK'
      <3>1. faults' \subseteq {"early", "alias", "overlap", "update", "remove"}
        BY <2>1 DEF TypeOK, AliasFault
      <3> QED
        BY <3>1, <2>4, <2>5, <1>4, <1>5 DEF TypeOK
    <2>7. \A i \in 0..N - 1 : i \in Slots /\ i + 1 \in Slots /\ entry'[i].name = entry[i].name
      BY <2>2, <2>4, <1>3, MaxAssumption DEF Slots
    <2>8. TocMirrorsEntries'
      <3>1. md_regions'[0] = KelfRegion
        <4>1. md_regions[0] = KelfRegion
          BY <1>1 DEF TocMirrorsEntries
        <4>2. 0 \in Slots /\ 0 # r + 1
          BY <1>3, MaxAssumption DEF Slots
        <4> QED
          BY <2>5, <4>1, <4>2
      <3>2. ASSUME NEW i \in 0..N - 1
            PROVE  /\ md_regions'[i + 1].name = entry'[i].name
                   /\ md_regions'[i + 1].region_base_address = entry'[i].phys_addr
                   /\ md_regions'[i + 1].region_size = entry'[i].size
        <4>1. CASE i = r
          BY <4>1, <2>2, <2>4, <2>5, <1>1 DEF TocMirrorsEntries
        <4>2. CASE i # r
          <5>1. i + 1 # r + 1
            BY <4>2, <1>3
          <5> QED
            BY <5>1, <4>2, <2>4, <2>5, <2>7, <1>1 DEF TocMirrorsEntries
        <4> QED
          BY <4>1, <4>2
      <3> QED
        BY <3>1, <3>2, <1>1, <1>4 DEF TocMirrorsEntries
    <2>9. LiveNamesDistinct'
      BY <2>7, <1>1, <1>4 DEF LiveNamesDistinct
    <2>10. NumbersStayValid'
      <3> SUFFICES ASSUME NEW n \in Names, regno[n] # NotRegistered,
                          regno[n] < first_removed_entry
                   PROVE  regno[n] < N /\ entry'[regno[n]].name = n
        BY <1>4 DEF NumbersStayValid
      <3>1. regno[n] < N /\ entry[regno[n]].name = n /\ regno[n] \in 0..MAX_NUM_ENTRIES - 1
        BY <1>1, <1>3 DEF NumbersStayValid, TypeOK, NotRegistered
      <3> QED
        BY <3>1, <2>7, <1>3
    <2> QED
      BY <2>6, <2>8, <2>9, <2>10, <1>6
  <1> QED
    BY <1>7, <1>8

(* A remove drops entry k and its mirror, region k + 1; everything above
   moves one slot down in both tables, and every number from k on is refused
   from now on.  When the ELF header is not found both tables keep a zeroed
   last slot. *)
LEMMA RemoveRegionIndInv ==
  ASSUME NEW n \in Names, IndInv, EntrySlots(n) # {}, RemoveRegion(GetRegion(n))
  PROVE  IndInv'
  <1> USE DEF IndInv
  <1> DEFINE N == num_regions
             e == GetRegion(n)
  <1>1. Enabled /\ Enabled' /\ ~Draining'
    BY DEF RemoveRegion, MdInitDone, Enabled, Draining
  <1>2. PICK k \in 0..N - 1 :
          /\ entry[k].name = n
          /\ EntrySlots(n) = {k} /\ Min(EntrySlots(n)) = k
          /\ RegionSlots(n) = {k + 1} /\ Max(RegionSlots(n)) = k + 1
    BY <1>1, OneSlotPerName
  <1>3. /\ N \in Nat /\ N <= MAX_NUM_ENTRIES /\ MAX_NUM_ENTRIES \in Nat
        /\ ss_region_count = N + 1 /\ k \in Nat /\ k < N
    BY <1>1, <1>2, MaxAssumption DEF TypeOK, TocMirrorsEntries
  <1>4. e = entry[k] /\ e.name = n /\ e \in Region
    <2>1. e = entry[k]
      BY <1>2 DEF GetRegion
    <2>2. k \in Slots
      BY <1>3 DEF Slots
    <2> QED
      BY <2>1, <2>2, <1>2, NamesAssumption DEF TypeOK, NoRegion
  <1> HIDE DEF e
  <1>5. /\ RemoveRegion(e)
        /\ Min(EntrySlots(e.name)) = k
        /\ Max(RegionSlots(e.name)) = k + 1
    BY <1>2, <1>4 DEF e
  <1>6. /\ first_removed_entry' = FirstRemoved(k)
        /\ entry' = RemoveSlot(entry, k, N, NoRegion)
        /\ md_regions' = RemoveSlot(md_regions, k + 1, N + 1, NoSsRegion)
        /\ UNCHANGED <<probe, pending_list, regno>>
    BY <1>3, <1>5 DEF RemoveRegion
  <1>7. entry' \in [Slots -> Region \cup {NoRegion}]
    <2> DEFINE S == Region \cup {NoRegion}
               m == MAX_NUM_ENTRIES
    <2>1. /\ entry \in [0..m -> S] /\ NoRegion \in S
          /\ m \in Int /\ N \in Int /\ N - 1 <= m
      BY <1>3 DEF TypeOK, Slots
    <2> HIDE DEF S, m
    <2>2. RemoveSlot(entry, k, N, NoRegion) \in [0..m -> S]
      BY <2>1, RemoveSlotType
    <2> QED
      BY <2>2, <1>6 DEF Slots, S, m
  <1>8. md_regions' \in [Slots -> SsRegion]
    <2> DEFINE m == MAX_NUM_ENTRIES
               c == N + 1
    <2>1. NoSsRegion \in SsRegion
      BY DEF NoSsRegion, SsRegion
    <2>2. md_regions \in [0..m -> SsRegion] /\ m \in Int /\ c \in Int /\ c - 1 <= m
      BY <1>3 DEF TypeOK, Slots
    <2> HIDE DEF m, c
    <2>3. RemoveSlot(md_regions, k + 1, c, NoSsRegion) \in [0..m -> SsRegion]
      BY <2>1, <2>2, RemoveSlotType
    <2> QED
      BY <2>3, <1>6 DEF Slots, m, c
  <1>9. ASSUME NEW i \in 0..N - 1
        PROVE  entry'[i] = IF i = N - 1 THEN NoRegion
                           ELSE IF k <= i THEN entry[i + 1] ELSE entry[i]
    <2>1. i \in DOMAIN entry /\ (i # N - 1 => i < N - 1)
      BY <1>3 DEF TypeOK, Slots
    <2> QED
      BY <2>1, <1>3, <1>6 DEF RemoveSlot
  <1>10. ASSUME NEW i \in 0..N
         PROVE  md_regions'[i] = IF i = N THEN NoSsRegion
                                 ELSE IF k + 1 <= i THEN md_regions[i + 1] ELSE md_regions[i]
    <2>1. i \in DOMAIN md_regions /\ (i # N => i < N) /\ (N + 1) - 1 = N
      BY <1>3 DEF TypeOK, Slots
    <2> QED
      BY <2>1, <1>3, <1>6 DEF RemoveSlot
  <1>11. ASSUME NEW i \in 0..N - 1
         PROVE  /\ md_regions'[i + 1].name = entry'[i].name
                /\ md_regions'[i + 1].region_base_address = entry'[i].phys_addr
                /\ md_regions'[i + 1].region_size = entry'[i].size
    <2>1. i + 1 \in 0..N /\ (i = N - 1 <=> i + 1 = N) /\ (k <= i <=> k + 1 <= i + 1)
      BY <1>3
    <2>2. CASE i = N - 1
      BY <2>1, <2>2, <1>9, <1>10 DEF NoRegion, NoSsRegion
    <2>3. CASE i # N - 1 /\ k <= i
      <3>1. i + 1 \in 0..N - 1
        BY <2>3, <1>3
      <3> QED
        BY <3>1, <2>1, <2>3, <1>1, <1>9, <1>10 DEF TocMirrorsEntries
    <2>4. CASE i # N - 1 /\ ~(k <= i)
      BY <2>1, <2>4, <1>1, <1>9, <1>10 DEF TocMirrorsEntries
    <2> QED
      BY <2>2, <2>3, <2>4
  <1>12. md_regions'[0] = KelfRegion
    BY <1>1, <1>3, <1>10 DEF TocMirrorsEntries
  <1>13. ASSUME NEW i \in 0..N - 1, NEW j \in 0..N - 1,
                entry'[i].name \in Names, entry'[i].name = entry'[j].name
         PROVE  i = j
    <2>1. i # N - 1 /\ j # N - 1
      BY <1>9, <1>13, NamesAssumption DEF NoRegion
    <2> DEFINE src(x) == IF k <= x THEN x + 1 ELSE x
    <2>2. src(i) \in 0..N - 1 /\ src(j) \in 0..N - 1
      BY <2>1, <1>3
    <2>3. entry'[i] = entry[src(i)] /\ entry'[j] = entry[src(j)]
      BY <2>1, <1>9
    <2>4. src(i) = src(j)
      <3> HIDE DEF src
      <3> QED
        BY <2>2, <2>3, <1>1, <1>13 DEF LiveNamesDistinct
    <2> QED
      BY <2>4, <1>3
  <1>14. /\ first_removed_entry' \in 0..INT_MAX
         /\ first_removed_entry' <= k
         /\ first_removed_entry' <= first_removed_entry
    BY <1>3, <1>6 DEF FirstRemoved, TypeOK, INT_MAX
  <1>15. ASSUME NEW m \in Names, regno[m] # NotRegistered, regno[m] < first_removed_entry'
         PROVE  regno[m] < N - 1 /\ entry'[regno[m]].name = m
    <2>1. regno[m] \in Nat /\ regno[m] < k /\ regno[m] < first_removed_entry
      BY <1>3, <1>14, <1>15 DEF TypeOK, NotRegistered, INT_MAX
    <2>2. entry[regno[m]].name = m
      BY <2>1, <1>1 DEF NumbersStayValid, NotRegistered
    <2>3. regno[m] \in 0..N - 1 /\ regno[m] # N - 1 /\ regno[m] < N - 1 /\ ~(k <= regno[m])
      BY <2>1, <1>3
    <2> QED
      BY <2>2, <2>3, <1>9
  <1>16. PendingInv' /\ DrainInv'
    BY <1>1, <1>6 DEF PendingInv, DrainInv
  <1>17. CASE CanClearHeaders(elf, e)
    <2>1. /\ elf' = ClearHeaders(elf, e) /\ ss_region_count' = N /\ num_regions' = N - 1
          /\ md_ss_toc_init' = 1 /\ faults' = faults
      BY <1>3, <1>5, <1>17 DEF RemoveRegion
    <2>2. elf.e_shnum <= N + 4 /\ elf.e_phnum <= N + 1 /\ elf.e_shnum \in Nat
          /\ elf.e_phnum \in Nat /\ ElfTypeOK(elf)
      BY <1>1 DEF HeaderCounts, FIXED_SECTIONS, FIXED_PROGRAMS, TypeOK, ElfTypeOK
    <2>3. elf.e_shnum <= MAX_NUM_ENTRIES + 4 /\ elf.e_phnum <= MAX_NUM_ENTRIES + 4
      BY <2>2, <1>3
    <2>4. /\ ElfTypeOK(elf')
          /\ elf'.e_shnum = elf.e_shnum - 1 /\ elf'.e_phnum = elf.e_phnum - 1
      BY <2>1, <2>2, <2>3, <1>4, <1>17, ClearHeadersType
    <2>5. TypeOK'
      <3>1. num_regions' \in 0..MAX_NUM_ENTRIES /\ ss_region_count' \in 0..MAX_NUM_ENTRIES + 1
        BY <2>1, <1>3
      <3> QED
        BY <3>1, <2>1, <2>4, <1>6, <1>7, <1>8, <1>14 DEF TypeOK
    <2>6. TocMirrorsEntries'
      BY <2>1, <1>3, <1>11, <1>12 DEF TocMirrorsEntries
    <2>7. LiveNamesDistinct'
      BY <2>1, <1>3, <1>13 DEF LiveNamesDistinct
    <2>8. NumbersStayValid'
      BY <2>1, <1>6, <1>15 DEF NumbersStayValid, NotRegistered
    <2>9. FirstRemovedBound' /\ HeaderCounts'
      BY <2>1, <2>2, <2>4, <1>3, <1>14 DEF FirstRemovedBound, HeaderCounts,
         FIXED_SECTIONS, FIXED_PROGRAMS, INT_MAX
    <2> QED
      BY <2>5, <2>6, <2>7, <2>8, <2>9, <1>16
  <1>18. CASE ~CanClearHeaders(elf, e)
    <2>1. /\ UNCHANGED <<elf, ss_region_count, num_regions>>
          /\ md_ss_toc_init' = 0 /\ faults' = faults \cup {"remove"}
      BY <1>5, <1>18 DEF RemoveRegion
    <2>2. TypeOK'
      BY <2>1, <1>6, <1>7, <1>8, <1>14 DEF TypeOK
    <2>3. TocMirrorsEntries'
      BY <2>1, <1>3, <1>11, <1>12 DEF TocMirrorsEntries
    <2>4. LiveNamesDistinct'
      BY <2>1, <1>13 DEF LiveNamesDistinct
    <2>5. NumbersStayValid'
      <3> SUFFICES ASSUME NEW m \in Names, regno[m] # NotRegistered,
                          regno[m] < first_removed_entry'
                   PROVE  regno[m] < N /\ entry'[regno[m]].name = m
        BY <2>1, <1>6 DEF NumbersStayValid, NotRegistered
      <3>1. regno[m] \in Int
        BY DEF TypeOK
      <3> QED
        BY <3>1, <1>3, <1>15
    <2>6. FirstRemovedBound' /\ HeaderCounts'
      BY <2>1, <1>1, <1>3, <1>14 DEF FirstRemovedBound, HeaderCounts, INT_MAX
    <2> QED
      BY <2>2, <2>3, <2>4, <2>5, <2>6, <1>16
  <1> QED
    BY <1>17, <1>18

(* One step per disjunct of Next. *)
LEMMA NextIndInv ==
  ASSUME EarlyDuplicates = FALSE
  PROVE  IndInv /\ [Next]_vars => IndInv'
  <1> SUFFICES ASSUME IndInv, [Next]_vars PROVE IndInv'
    OBVIOUS
  <1>1. CASE ProbeTable \/ ProbeEnable \/ DrainRegion \/ ProbeUnlock \/ ProbeDone
    BY <1>1, ProbeTableIndInv, ProbeEnableIndInv, DrainRegionIndInv, ProbeUnlockIndInv,
       ProbeDoneIndInv
  <1>2. CASE \E e \in Regions : AddRegion(e) \/ AddPending(e) \/ UpdateRegion(e)
    BY <1>2, AddRegionIndInv, AddPendingIndInv, UpdateRegionIndInv
  <1>5. CASE ProbeFail \/ \E e \in Regions : AddToFreedTable(e)
    BY <1>5, ProbeFailIndInv
  <1>3. CASE \E n \in Names : EntrySlots(n) # {} /\ RemoveRegion(GetRegion(n))
    BY <1>3, RemoveRegionIndInv
  <1>4. CASE UNCHANGED vars
    <2> USE <1>4 DEF vars, IndInv
    <2>1. (Enabled' <=> Enabled) /\ (Draining' <=> Draining)
      BY DEF Enabled, Draining
    <2>2. TypeOK' /\ PendingInv' /\ DrainInv'
      BY <2>1 DEF TypeOK, PendingInv, DrainInv, RegionNumber, Early
    <2>3. TocMirrorsEntries' /\ LiveNamesDistinct' /\ NumbersStayValid'
      BY <2>1 DEF TocMirrorsEntries, LiveNamesDistinct, NumbersStayValid
    <2>4. FirstRemovedBound' /\ HeaderCounts'
      BY <2>1 DEF FirstRemovedBound, HeaderCounts
    <2> QED
      BY <2>2, <2>3, <2>4
  <1> QED
    BY <1>1, <1>2, <1>3, <1>4, <1>5 DEF Next

(* If no name is registered twice before the probe, the driver's tables keep
   their types: every index and count the code uses is in range. *)
THEOREM TypeCorrect ==
  ASSUME EarlyDuplicates = FALSE
  PROVE  Spec => []TypeOK
  <1>1. IndInv => TypeOK
    BY DEF IndInv
  <1> QED
    BY <1>1, InitIndInv, NextIndInv, PTL DEF Spec

(* Under the same condition the boot loader's table of contents mirrors the
   entry table in every reachable state, failed removes included. *)
THEOREM TocMirrors ==
  ASSUME EarlyDuplicates = FALSE
  PROVE  Spec => []TocMirrorsEntries
  <1>1. IndInv => TocMirrorsEntries
    BY DEF IndInv
  <1> QED
    BY <1>1, InitIndInv, NextIndInv, PTL DEF Spec

(* Under the same condition a region number that md_update_ss_toc accepts is
   the position of the caller's own region. *)
THEOREM NumbersValid ==
  ASSUME EarlyDuplicates = FALSE
  PROVE  Spec => []NumbersStayValid
  <1>1. IndInv => NumbersStayValid
    BY DEF IndInv
  <1> QED
    BY <1>1, InitIndInv, NextIndInv, PTL DEF Spec

-----------------------------------------------------------------------------
(* What TablesNotOverrun rests on: room for one more region. *)
RoomInv ==
  /\ TablesNotOverrun
  /\ Enabled => num_regions < MAX_NUM_ENTRIES
  /\ ~Enabled => num_regions <= MaxEarly

(* A step from a state with room writes neither past entry[] nor past
   md_regions[], if fewer regions than slots may be pending. *)
LEMMA NextRoomInv ==
  ASSUME MaxEarly < MAX_NUM_ENTRIES, IndInv, IndInv', RoomInv, [Next]_vars
  PROVE  RoomInv'
  <1> USE DEF RoomInv
  <1> DEFINE M == MAX_NUM_ENTRIES
             N == num_regions
  <1>1. /\ M \in Nat /\ M > 0 /\ M \in Slots /\ MaxEarly \in Nat
        /\ N \in Nat /\ ss_region_count \in Nat /\ first_removed_entry \in Int
        /\ entry \in [Slots -> Region \cup {NoRegion}] /\ md_regions \in [Slots -> SsRegion]
        /\ pending_list \in Seq(Region) /\ Len(pending_list) \in Nat
    BY MaxAssumption, EarlyAssumption DEF IndInv, TypeOK, Slots
  <1>2. CASE ProbeTable
    BY <1>1, <1>2 DEF ProbeTable, TablesNotOverrun, Enabled
  <1>3. CASE ProbeFail \/ ProbeEnable \/ ProbeDone \/ UNCHANGED vars
             \/ \E e \in Regions : AddToFreedTable(e)
    BY <1>3 DEF ProbeFail, ProbeEnable, ProbeDone, AddToFreedTable, vars, TablesNotOverrun, Enabled
  <1>9. CASE ProbeUnlock
    BY <1>9, <1>1 DEF ProbeUnlock, TablesNotOverrun, Enabled, Draining
  <1>4. CASE DrainRegion
    <2> DEFINE e == Head(pending_list)
               R == RegionNumber
    <2>1. /\ ~Enabled /\ ~Enabled' /\ num_regions' = N /\ N <= MaxEarly
          /\ ss_region_count' = ss_region_count + 1
      BY <1>4 DEF Enabled, Draining, DrainRegion
    <2>2. /\ R \in 0..N - 1 /\ ss_region_count = R + 1
          /\ entry' = [entry EXCEPT ![R] = e, ![N] = e]
          /\ md_regions' = [md_regions EXCEPT ![R + 1] = MkSsRegion(e)]
      BY <1>4, NextDrained
    <2> HIDE DEF e, R
    <2>3. R # M /\ N # M /\ R + 1 # M /\ ss_region_count' <= M
      BY <2>1, <2>2, <1>1
    <2>4. entry'[M] = entry[M] /\ md_regions'[M] = md_regions[M]
      BY <2>2, <2>3, <1>1
    <2> QED
      BY <2>1, <2>3, <2>4 DEF TablesNotOverrun
  <1>5. ASSUME NEW e \in Regions, AddRegion(e) PROVE RoomInv'
    <2> USE <1>5 DEF AddRegion
    <2>1. Enabled /\ Enabled' /\ ss_region_count = N + 1 /\ N + 1 < M
      BY DEF Enabled, CanAdd, IndInv, TocMirrorsEntries
    <2>2. entry'[M] = entry[M] /\ md_regions'[M] = md_regions[M]
      BY <2>1, <1>1
    <2>3. ss_region_count' <= M /\ num_regions' < M
      BY <2>1, <1>1
    <2> QED
      BY <2>1, <2>2, <2>3 DEF TablesNotOverrun
  <1>6. ASSUME NEW e \in Regions, AddPending(e) PROVE RoomInv'
    <2> USE <1>6 DEF AddPending
    <2>1. ~Enabled /\ ~Draining /\ ~Enabled'
      BY DEF Enabled, Draining, NotEnabledYet
    <2>2. num_regions' <= MaxEarly
      BY <2>1, <1>1 DEF IndInv, PendingInv
    <2> QED
      BY <2>1, <2>2 DEF TablesNotOverrun
  <1>7. ASSUME NEW e \in Regions, UpdateRegion(e) PROVE RoomInv'
    <2> DEFINE r == regno[e.name]
    <2>1. /\ Enabled /\ Enabled'
          /\ UNCHANGED <<num_regions, ss_region_count>>
      BY <1>7 DEF UpdateRegion, MdInitDone, Enabled
    <2>2. CASE CanUpdate(r, e.name)
      <3>1. e.name \in Names /\ r # NotRegistered /\ r < first_removed_entry
        BY <1>7, <2>2, RegionsAssumption DEF Region, UpdateRegion, CanUpdate
      <3>2. r < N /\ r \in Int
        BY <3>1, <2>1 DEF IndInv, NumbersStayValid, TypeOK
      <3>3. r # M /\ r + 1 # M
        BY <3>2, <2>1, <1>1 DEF IndInv, TocMirrorsEntries, TablesNotOverrun
      <3>4. /\ entry' = [entry EXCEPT ![r].virt_addr = e.virt_addr,
                                      ![r].phys_addr = e.phys_addr]
            /\ md_regions' = [md_regions EXCEPT ![r + 1].region_base_address = e.phys_addr]
        BY <1>7, <2>2 DEF UpdateRegion
      <3>5. entry'[M] = entry[M] /\ md_regions'[M] = md_regions[M]
        <4> HIDE DEF r
        <4> QED
          BY <3>3, <3>4, <1>1
      <3> QED
        BY <3>5, <2>1 DEF TablesNotOverrun
    <2>3. CASE ~CanUpdate(r, e.name)
      BY <1>7, <2>1, <2>3 DEF UpdateRegion, TablesNotOverrun
    <2> QED
      BY <2>2, <2>3
  <1>8. ASSUME NEW e, RemoveRegion(e) PROVE RoomInv'
    <2>1. /\ Enabled /\ Enabled'
          /\ num_regions' \in {N, N - 1}
          /\ ss_region_count' \in {ss_region_count, ss_region_count - 1}
      BY <1>8 DEF RemoveRegion, MdInitDone, Enabled
    <2>2. PICK k, g : /\ entry' = RemoveSlot(entry, k, N, NoRegion)
                      /\ md_regions' = RemoveSlot(md_regions, g, ss_region_count, NoSsRegion)
      BY <1>8 DEF RemoveRegion
    <2>3. N - 1 < M /\ ss_region_count - 1 < M
      BY <2>1, <1>1 DEF TablesNotOverrun
    <2>4. M \in DOMAIN entry /\ M \in DOMAIN md_regions
      BY <1>1
    <2>5. entry'[M] = entry[M] /\ md_regions'[M] = md_regions[M]
      BY <2>2, <2>3, <2>4, <1>1 DEF RemoveSlot
    <2> QED
      BY <2>1, <2>5, <1>1 DEF TablesNotOverrun
  <1> QED
    BY <1>2, <1>3, <1>4, <1>5, <1>6, <1>7, <1>8, <1>9 DEF Next

(* With distinct early names and fewer early regions than slots, nothing is
   ever written past the end of the entry table or the table of contents. *)
THEOREM NotOverrun ==
  ASSUME EarlyDuplicates = FALSE, MaxEarly < MAX_NUM_ENTRIES
  PROVE  Spec => []TablesNotOverrun
  <1>1. Init => RoomInv
    BY MaxAssumption, EarlyAssumption
       DEF Init, RoomInv, TablesNotOverrun, Enabled, Slots
  <1>2. RoomInv => TablesNotOverrun
    BY DEF RoomInv
  <1>3. IndInv /\ IndInv' /\ RoomInv /\ [Next]_vars => RoomInv'
    BY NextRoomInv
  <1> QED
    BY <1>1, <1>2, <1>3, InitIndInv, NextIndInv, PTL DEF Spec

-----------------------------------------------------------------------------
(***************************************************************************)
(* The driver implements RegionRegistry, as SmemRegistry states it.        *)
(*                                                                         *)
(* The argument has two halves.  Agreement is about states: in each of     *)
(* them, but for the drain, what the boot loader would collect is the      *)
(* listing of what is registered, by the mirror of the two tables.         *)
(* StepRefines is about steps, and need only follow the registered memory: *)
(* every action of the driver is one of the registry or a stutter.  A step *)
(* of the drain registers nothing and adds one row to what is collected.   *)
(***************************************************************************)
(* A registered region is not empty, so it is not taken for none, and no
   table of contents is valid before the drain begins. *)
LiveInv ==
  /\ ~Enabled /\ ~Draining => md_ss_toc_init = 0
  /\ Draining => md_ss_toc_init = 1
  /\ ~Enabled => \A i \in 1..Len(pending_list) : pending_list[i].size > 0
  /\ Enabled \/ Draining =>
       \A i \in 0..num_regions - 1 : entry[i].name \in Names => entry[i].size > 0

Inv == IndInv /\ LiveInv

(* What the boot loader would collect is what is registered, or nothing. *)
Agrees == CollectedMemory = Registry!Seen(RegisteredMemory, TocOn)

-----------------------------------------------------------------------------
(* On an enabled table a name stands for the one entry that carries it. *)
LEMMA EnabledMemory ==
  IndInv /\ Enabled =>
    \A n \in Names :
      /\ \A k \in 0..num_regions - 1 :
           entry[k].name = n => RegisteredMemory[n] = MemoryOf(entry[k])
      /\ (\A k \in 0..num_regions - 1 : entry[k].name # n) => RegisteredMemory[n] = Unused
  <1> SUFFICES ASSUME IndInv, Enabled, NEW n \in Names
               PROVE  /\ \A k \in 0..num_regions - 1 :
                           entry[k].name = n => RegisteredMemory[n] = MemoryOf(entry[k])
                      /\ (\A k \in 0..num_regions - 1 : entry[k].name # n)
                           => RegisteredMemory[n] = Unused
    OBVIOUS
  <1>1. ASSUME NEW k \in 0..num_regions - 1, entry[k].name = n
        PROVE  RegisteredMemory[n] = MemoryOf(entry[k])
    <2>1. k \in EntrySlots(n)
      BY <1>1 DEF EntrySlots
    <2>2. EntrySlots(n) = {k} /\ Min(EntrySlots(n)) = k
      BY <2>1, OneSlotPerName
    <2> QED
      BY <2>1, <2>2 DEF RegisteredMemory, GetRegion
  <1>2. ASSUME \A k \in 0..num_regions - 1 : entry[k].name # n
        PROVE  RegisteredMemory[n] = Unused
    <2>1. EntrySlots(n) = {} /\ PendingOf(n) = {}
      BY <1>2 DEF EntrySlots, PendingOf, IndInv, DrainInv
    <2> QED
      BY <2>1 DEF RegisteredMemory
  <1> QED
    BY <1>1, <1>2

(* Before that it stands for the one pending region that carries it. *)
LEMMA PendingMemory ==
  IndInv /\ ~Enabled /\ ~Draining =>
    \A n \in Names :
      /\ \A k \in 1..Len(pending_list) :
           pending_list[k].name = n => RegisteredMemory[n] = MemoryOf(pending_list[k])
      /\ (\A k \in 1..Len(pending_list) : pending_list[k].name # n)
           => RegisteredMemory[n] = Unused
  <1> SUFFICES ASSUME IndInv, ~Enabled, ~Draining, NEW n \in Names
               PROVE  /\ \A k \in 1..Len(pending_list) :
                           pending_list[k].name = n
                             => RegisteredMemory[n] = MemoryOf(pending_list[k])
                      /\ (\A k \in 1..Len(pending_list) : pending_list[k].name # n)
                           => RegisteredMemory[n] = Unused
    OBVIOUS
  <1>1. DOMAIN pending_list = 1..Len(pending_list)
    BY DEF IndInv, TypeOK
  <1>4. EntrySlots(n) = {}
    <2>1. \A i \in 0..num_regions - 1 : i \in Slots
      BY MaxAssumption DEF Slots, IndInv, TypeOK
    <2> QED
      BY <2>1, NamesAssumption DEF EntrySlots, IndInv, PendingInv, NoRegion
  <1>2. ASSUME NEW k \in 1..Len(pending_list), pending_list[k].name = n
        PROVE  RegisteredMemory[n] = MemoryOf(pending_list[k])
    <2>1. PendingOf(n) = {k}
      BY <1>1, <1>2 DEF PendingOf, IndInv, PendingInv
    <2>2. Min(PendingOf(n)) = k
      BY <2>1, MinMaxSingleton
    <2> QED
      BY <2>1, <2>2, <1>4 DEF RegisteredMemory
  <1>3. ASSUME \A k \in 1..Len(pending_list) : pending_list[k].name # n
        PROVE  RegisteredMemory[n] = Unused
    <2>1. PendingOf(n) = {}
      BY <1>1, <1>3 DEF PendingOf
    <2> QED
      BY <2>1, <1>4 DEF RegisteredMemory
  <1> QED
    BY <1>2, <1>3

(* In the middle of the drain it stands for the one region that carries it,
   drained already or not. *)
LEMMA DrainMemory ==
  IndInv /\ Draining =>
    \A n \in Names :
      /\ \A k \in 0..num_regions - 1 :
           Early(k).name = n => RegisteredMemory[n] = MemoryOf(Early(k))
      /\ (\A k \in 0..num_regions - 1 : Early(k).name # n) => RegisteredMemory[n] = Unused
  <1> SUFFICES ASSUME IndInv, Draining, NEW n \in Names
               PROVE  /\ \A k \in 0..num_regions - 1 :
                           Early(k).name = n => RegisteredMemory[n] = MemoryOf(Early(k))
                      /\ (\A k \in 0..num_regions - 1 : Early(k).name # n)
                           => RegisteredMemory[n] = Unused
    OBVIOUS
  <1> DEFINE R == RegionNumber
             L == Len(pending_list)
             N == num_regions
  <1>1. /\ N = R + L /\ R \in Nat /\ L \in Nat /\ DOMAIN pending_list = 1..L
    BY DEF IndInv, DrainInv, TypeOK, RegionNumber
  <1>2. /\ \A i \in R..N - 1 : entry[i].name # n
        /\ \A i, j \in 0..N - 1 : Early(i).name = Early(j).name => i = j
    BY NamesAssumption DEF IndInv, DrainInv, NoRegion
  <1>3. /\ \A i \in 0..R - 1 : Early(i) = entry[i] /\ i \in 0..N - 1
        /\ \A i \in 1..L : Early(R + i - 1) = pending_list[i] /\ R + i - 1 \in 0..N - 1
    <2>1. \A i \in 0..R - 1 : Early(i) = entry[i] /\ i \in 0..N - 1
      BY <1>1 DEF Early
    <2>2. ASSUME NEW i \in 1..L
          PROVE  Early(R + i - 1) = pending_list[i] /\ R + i - 1 \in 0..N - 1
      <3>1. ~(R + i - 1 < R) /\ (R + i - 1) - R + 1 = i /\ R + i - 1 \in 0..N - 1
        BY <1>1
      <3> QED
        BY <3>1 DEF Early
    <2> QED
      BY <2>1, <2>2
  <1>4. \A i \in 0..N - 1 : i \in 0..R - 1 \/ i \in R..N - 1
    BY <1>1
  <1> HIDE DEF R, L, N
  <1>5. ASSUME NEW k \in 0..N - 1, Early(k).name = n
        PROVE  RegisteredMemory[n] = MemoryOf(Early(k))
    <2>1. CASE k < R
      <3>1. k \in 0..R - 1 /\ entry[k].name = n /\ Early(k) = entry[k]
        BY <2>1, <1>1, <1>3, <1>5
      <3>2. \A i \in 0..N - 1 : entry[i].name = n => i = k
        BY <3>1, <1>2, <1>3, <1>4, <1>5
      <3>3. EntrySlots(n) = {k}
        BY <3>1, <3>2 DEF EntrySlots, N
      <3>4. Min(EntrySlots(n)) = k
        BY <3>3, MinMaxSingleton
      <3> QED
        BY <3>1, <3>3, <3>4 DEF RegisteredMemory, GetRegion
    <2>2. CASE k >= R
      <3>1. /\ k - R + 1 \in 1..L /\ R + (k - R + 1) - 1 = k
        BY <2>2, <1>1
      <3>2. PICK p \in 1..L : p = k - R + 1
        BY <3>1
      <3>3. Early(k) = pending_list[p] /\ R + p - 1 = k
        BY <3>1, <3>2, <1>3
      <3>4. \A i \in 0..N - 1 : entry[i].name # n
        BY <2>2, <1>1, <1>2, <1>3, <1>4, <1>5
      <3>5. EntrySlots(n) = {}
        BY <3>4 DEF EntrySlots, N
      <3>6. ASSUME NEW q \in 1..L, pending_list[q].name = n PROVE q = p
        <4>1. R + q - 1 = k
          BY <3>6, <1>2, <1>3, <1>5
        <4> QED
          BY <4>1, <3>3, <1>1
      <3>7. PendingOf(n) = {p}
        BY <3>3, <3>6, <1>1, <1>5 DEF PendingOf
      <3>8. Min(PendingOf(n)) = p
        BY <3>7, MinMaxSingleton
      <3> QED
        BY <3>3, <3>5, <3>7, <3>8 DEF RegisteredMemory
    <2> QED
      BY <2>1, <2>2, <1>1
  <1>6. ASSUME \A k \in 0..N - 1 : Early(k).name # n
        PROVE  RegisteredMemory[n] = Unused
    <2>1. \A i \in 0..N - 1 : entry[i].name # n
      BY <1>2, <1>3, <1>4, <1>6
    <2>2. \A i \in 1..L : pending_list[i].name # n
      BY <1>3, <1>6
    <2>3. EntrySlots(n) = {} /\ PendingOf(n) = {}
      BY <2>1, <2>2, <1>1 DEF EntrySlots, PendingOf, N
    <2> QED
      BY <2>3 DEF RegisteredMemory
  <1> QED
    BY <1>5, <1>6 DEF N

(* The mirror of the tables makes the boot loader's view that of the registry. *)
LEMMA Agreement == Inv /\ ~Draining => Agrees
  <1> SUFFICES ASSUME Inv, ~Draining PROVE CollectedMemory = Registry!Seen(RegisteredMemory, TocOn)
    BY DEF Agrees
  <1> USE DEF Inv
  <1> DEFINE NameRow(n) == [name |-> n, phys_addr |-> RegisteredMemory[n].phys_addr,
                        size |-> RegisteredMemory[n].size]
             Live == {m \in Names : RegisteredMemory[m] # Registry!Nothing}
             Toc == {j \in 1..ss_region_count - 1 : md_regions[j].name # NoName}
             TocRow(i) == [name |-> md_regions[i].name,
                           phys_addr |-> md_regions[i].region_base_address,
                           size |-> md_regions[i].region_size]
  <1>1. CASE ~TocOn
    BY <1>1 DEF CollectedMemory, Registry!Seen
  <1>2. CASE TocOn
    <2>1. Enabled
      BY <1>2 DEF TocOn, LiveInv
    <2>2. CollectedMemory = {TocRow(i) : i \in Toc}
      BY <1>2 DEF CollectedMemory
    <2>3. Registry!Seen(RegisteredMemory, TocOn) = {NameRow(n) : n \in Live}
      BY <1>2 DEF Registry!Seen, Registry!Listing
    <2>4. num_regions \in Nat /\ num_regions <= MAX_NUM_ENTRIES /\ ss_region_count = num_regions + 1
      BY <2>1 DEF IndInv, TypeOK, TocMirrorsEntries
    <2>5. ASSUME NEW k \in 0..num_regions - 1, entry[k].name \in Names
          PROVE  /\ RegisteredMemory[entry[k].name] = MemoryOf(entry[k])
                 /\ entry[k].name \in Live
                 /\ TocRow(k + 1) = NameRow(entry[k].name)
      <3>1. RegisteredMemory[entry[k].name] = MemoryOf(entry[k])
        BY <2>1, <2>5, EnabledMemory
      <3>2. entry[k].size > 0
        BY <2>1, <2>5 DEF LiveInv
      <3>3. MemoryOf(entry[k]).size = entry[k].size /\ MemoryOf(entry[k]).phys_addr = entry[k].phys_addr
        BY DEF MemoryOf
      <3>4. RegisteredMemory[entry[k].name] # Registry!Nothing
        BY <3>1, <3>2, <3>3 DEF Registry!Nothing
      <3>5. TocRow(k + 1) = NameRow(entry[k].name)
        BY <2>1, <3>1, <3>3 DEF IndInv, TocMirrorsEntries
      <3> QED
        BY <2>5, <3>1, <3>4, <3>5
    <2>6. ASSUME NEW i \in Toc PROVE \E n \in Live : TocRow(i) = NameRow(n)
      <3>1. i - 1 \in 0..num_regions - 1 /\ (i - 1) + 1 = i
        BY <2>4
      <3>2. md_regions[i].name = entry[i - 1].name
        BY <2>1, <3>1 DEF IndInv, TocMirrorsEntries
      <3>3. i - 1 \in Slots
        BY <2>4, <3>1, MaxAssumption DEF Slots
      <3>4. entry[i - 1].name \in Names
        BY <3>2, <3>3 DEF IndInv, TypeOK, Region, NoRegion
      <3> HIDE DEF NameRow, TocRow, Live
      <3> QED
        BY <2>5, <3>1, <3>4
    <2>7. ASSUME NEW n \in Live PROVE \E i \in Toc : NameRow(n) = TocRow(i)
      <3>1. PICK k \in 0..num_regions - 1 : entry[k].name = n
        BY <2>1, EnabledMemory DEF Unused, Registry!Nothing
      <3>2. k + 1 \in 1..ss_region_count - 1
        BY <2>4
      <3>3. md_regions[k + 1].name = n
        BY <2>1, <3>1 DEF IndInv, TocMirrorsEntries
      <3>4. n \in Names /\ n # NoName
        BY NamesAssumption
      <3>5. k + 1 \in Toc
        BY <3>2, <3>3, <3>4
      <3> HIDE DEF NameRow, TocRow, Live, Toc
      <3> QED
        BY <2>5, <3>1, <3>4, <3>5
    <2> HIDE DEF NameRow, TocRow, Live, Toc
    <2> QED
      BY <2>2, <2>3, <2>6, <2>7
  <1> QED
    BY <1>1, <1>2

(* The same about the state after a step. *)
LEMMA AgreementPrimed == Inv' /\ ~Draining' => Agrees'
  BY Agreement, PTL

(* After a step that leaves the table enabled, the registry is what it holds. *)
LEMMA EnabledMemoryPrimed ==
  IndInv' /\ Enabled' =>
    \A n \in Names :
      /\ \A k \in 0..num_regions' - 1 :
           entry'[k].name = n => RegisteredMemory'[n] = MemoryOf(entry'[k])
      /\ (\A k \in 0..num_regions' - 1 : entry'[k].name # n) => RegisteredMemory'[n] = Unused
  <1>1. (IndInv /\ Enabled =>
           \A n \in Names :
             /\ \A k \in 0..num_regions - 1 :
                  entry[k].name = n => RegisteredMemory[n] = MemoryOf(entry[k])
             /\ (\A k \in 0..num_regions - 1 : entry[k].name # n)
                  => RegisteredMemory[n] = Unused)'
    BY EnabledMemory, PTL
  <1> QED
    BY <1>1 DEF MemoryOf, Unused

(* After a step that leaves it off, the registry is the pending list. *)
LEMMA PendingMemoryPrimed ==
  IndInv' /\ ~Enabled' /\ ~Draining' =>
    \A n \in Names :
      /\ \A k \in 1..Len(pending_list') :
           pending_list'[k].name = n => RegisteredMemory'[n] = MemoryOf(pending_list'[k])
      /\ (\A k \in 1..Len(pending_list') : pending_list'[k].name # n)
           => RegisteredMemory'[n] = Unused
  <1>1. (IndInv /\ ~Enabled /\ ~Draining =>
           \A n \in Names :
             /\ \A k \in 1..Len(pending_list) :
                  pending_list[k].name = n => RegisteredMemory[n] = MemoryOf(pending_list[k])
             /\ (\A k \in 1..Len(pending_list) : pending_list[k].name # n)
                  => RegisteredMemory[n] = Unused)'
    BY PendingMemory, PTL
  <1> QED
    BY <1>1 DEF MemoryOf, Unused

(* A step that keeps the registered memory and the switch is a stutter. *)
LEMMA Stutter ==
  ASSUME Inv, Inv', ~Draining, ~Draining', RegisteredMemory' = RegisteredMemory, TocOn' = TocOn
  PROVE  UNCHANGED Registry!rvars
  BY Agreement, AgreementPrimed DEF Agrees, Registry!Seen, Registry!Listing, Registry!rvars

(* RegisteredMemory is a function on the names. *)
LEMMA MemoryDomain ==
  /\ RegisteredMemory = [n \in Names |-> RegisteredMemory[n]]
  /\ RegisteredMemory' = [n \in Names |-> RegisteredMemory'[n]]
  BY DEF RegisteredMemory

(* Only the memory of n changes. *)
LEMMA OneNameChanges ==
  ASSUME NEW n \in Names, \A m \in Names \ {n} : RegisteredMemory'[m] = RegisteredMemory[m]
  PROVE  RegisteredMemory' = [RegisteredMemory EXCEPT ![n] = RegisteredMemory'[n]]
  <1> DEFINE f == RegisteredMemory
             g == RegisteredMemory'
  <1>1. f = [m \in Names |-> f[m]] /\ g = [m \in Names |-> g[m]]
    BY MemoryDomain
  <1> HIDE DEF f, g
  <1>2. g = [f EXCEPT ![n] = g[n]]
    <2>1. \A m \in Names : m # n => g[m] = f[m]
      BY DEF f, g
    <2> QED
      BY <1>1, <2>1
  <1> QED
    BY <1>2 DEF f, g

-----------------------------------------------------------------------------
(* The probe's steps before and after the drain leave the registry alone, and
   so does a call that is lost in a freed table. *)
LEMMA ProbeRefines ==
  ASSUME Inv, Inv', \/ ProbeTable \/ ProbeFail \/ ProbeUnlock \/ ProbeDone \/ UNCHANGED vars
                    \/ \E e \in Regions : AddToFreedTable(e)
  PROVE  UNCHANGED Registry!rvars
  <1>1. UNCHANGED <<pending_list, num_regions, entry, md_ss_toc_init>>
    BY DEF ProbeTable, ProbeFail, ProbeUnlock, ProbeDone, AddToFreedTable, vars
  <1>2. RegisteredMemory' = RegisteredMemory /\ TocOn' = TocOn
    BY <1>1 DEF RegisteredMemory, EntrySlots, GetRegion, PendingOf, TocOn
  <1>3. CASE ProbeTable
    <2>1. ~Draining /\ ~Draining'
      BY <1>3 DEF ProbeTable, Draining
    <2> QED
      BY <2>1, <1>2, Stutter
  <1>4. CASE ~ProbeTable
    <2>1. UNCHANGED <<ss_region_count, md_regions>>
      BY <1>4 DEF ProbeFail, ProbeUnlock, ProbeDone, AddToFreedTable, vars
    <2>2. CollectedMemory' = CollectedMemory
      BY <2>1, <1>2 DEF CollectedMemory
    <2> QED
      BY <2>2, <1>2 DEF Registry!rvars
  <1> QED
    BY <1>3, <1>4

(* The table of contents becomes valid with no region but the header's own. *)
LEMMA EnableRefines ==
  ASSUME Inv, Inv', ProbeEnable
  PROVE  Registry!Enable
  <1>1. /\ ~Enabled /\ ~Draining /\ ss_region_count' = 1
        /\ md_ss_toc_init = 0 /\ md_ss_toc_init' = 1
        /\ UNCHANGED <<pending_list, num_regions, entry>>
    BY DEF ProbeEnable, Enabled, Draining, Inv, IndInv, PendingInv, LiveInv
  <1>2. RegisteredMemory' = RegisteredMemory
    BY <1>1 DEF RegisteredMemory, EntrySlots, GetRegion, PendingOf
  <1>3. ~TocOn /\ TocOn'
    BY <1>1 DEF TocOn
  <1>4. CollectedMemory' = {}
    <2>1. 1..ss_region_count' - 1 = {}
      BY <1>1
    <2> QED
      BY <2>1, <1>3 DEF CollectedMemory
  <1> QED
    BY <1>2, <1>3, <1>4 DEF Registry!Enable

(* After a step of the drain: the same as DrainMemory. *)
LEMMA DrainMemoryPrimed ==
  IndInv' /\ Draining' =>
    \A n \in Names :
      /\ \A k \in 0..num_regions' - 1 :
           Early(k)'.name = n => RegisteredMemory'[n] = MemoryOf(Early(k)')
      /\ (\A k \in 0..num_regions' - 1 : Early(k)'.name # n) => RegisteredMemory'[n] = Unused
  <1>1. (IndInv /\ Draining =>
           \A n \in Names :
             /\ \A k \in 0..num_regions - 1 :
                  Early(k).name = n => RegisteredMemory[n] = MemoryOf(Early(k))
             /\ (\A k \in 0..num_regions - 1 : Early(k).name # n)
                  => RegisteredMemory[n] = Unused)'
    BY DrainMemory, PTL
  <1> QED
    BY <1>1 DEF MemoryOf, Unused

(* A step of the drain publishes one region registered before, and changes
   nothing that is registered. *)
LEMMA DrainRefines ==
  ASSUME Inv, Inv', DrainRegion
  PROVE  Registry!Publish
  <1> DEFINE R == RegionNumber
             N == num_regions
             e == Head(pending_list)
             row == [name |-> e.name, phys_addr |-> e.phys_addr, size |-> e.size]
             TocRow(i) == [name |-> md_regions[i].name,
                           phys_addr |-> md_regions[i].region_base_address,
                           size |-> md_regions[i].region_size]
             NewRow(i) == [name |-> md_regions'[i].name,
                           phys_addr |-> md_regions'[i].region_base_address,
                           size |-> md_regions'[i].region_size]
  <1>1. /\ Draining /\ Draining' /\ ~Enabled /\ num_regions' = N /\ pending_list # <<>>
        /\ md_ss_toc_init = 1 /\ md_ss_toc_init' = 1 /\ IndInv /\ IndInv'
        /\ pending_list \in Seq(Region)
    BY DEF DrainRegion, Draining, Enabled, Inv, IndInv, LiveInv, TypeOK
  <1>2. /\ R \in 0..N - 1 /\ N \in 0..MAX_NUM_ENTRIES /\ ss_region_count = R + 1
        /\ R + 1 \in Slots /\ e \in Region /\ e = Early(R) /\ RegionSlots(e.name) = {}
        /\ md_regions' = [md_regions EXCEPT ![R + 1] = MkSsRegion(e)]
        /\ MkSsRegion(e) = [name |-> e.name, seq_num |-> 0, md_valid |-> TRUE,
                            region_base_address |-> e.phys_addr, region_size |-> e.size]
        /\ \A i \in 0..N - 1 : Early(i)' = Early(i)
    BY <1>1, NextDrained
  <1>3. ss_region_count' = (R + 1) + 1 /\ R \in Nat /\ MAX_NUM_ENTRIES \in Nat
    BY <1>2, MaxAssumption DEF DrainRegion
  <1>4. e.size > 0 /\ e.name \in Names
    <2>1. e = pending_list[1] /\ 1 \in 1..Len(pending_list)
      BY <1>1
    <2>2. \A i \in 1..Len(pending_list) : pending_list[i].size > 0
      BY <1>1 DEF Inv, LiveInv
    <2> QED
      BY <2>1, <2>2, <1>2 DEF Region
  <1> HIDE DEF R, N, e
  <1>5. ASSUME NEW n \in Names PROVE RegisteredMemory'[n] = RegisteredMemory[n]
    <2>1. CASE \E k \in 0..N - 1 : Early(k).name = n
      <3>1. PICK k \in 0..N - 1 : Early(k).name = n
        BY <2>1
      <3>2. RegisteredMemory[n] = MemoryOf(Early(k))
        BY <3>1, <1>1, DrainMemory DEF N
      <3>3. Early(k)' = Early(k)
        BY <1>2
      <3>4. RegisteredMemory'[n] = MemoryOf(Early(k)')
        BY <3>1, <3>3, <1>1, DrainMemoryPrimed
      <3> QED
        BY <3>2, <3>3, <3>4
    <2>2. CASE \A k \in 0..N - 1 : Early(k).name # n
      <3>1. RegisteredMemory[n] = Unused
        BY <2>2, <1>1, DrainMemory DEF N
      <3>2. RegisteredMemory'[n] = Unused
        BY <2>2, <1>1, <1>2, DrainMemoryPrimed
      <3> QED
        BY <3>1, <3>2
    <2> QED
      BY <2>1, <2>2
  <1>6. RegisteredMemory' = RegisteredMemory
    BY <1>5, MemoryDomain
  <1>7. TocOn /\ TocOn'
    BY <1>1 DEF TocOn
  <1>8. RegisteredMemory[e.name] = MemoryOf(e)
    BY <1>1, <1>2, <1>4, DrainMemory DEF N
  <1>9. row \in Registry!Listing(RegisteredMemory)
    <2>1. RegisteredMemory[e.name].size = e.size /\ RegisteredMemory[e.name].phys_addr = e.phys_addr
      BY <1>8 DEF MemoryOf
    <2>2. RegisteredMemory[e.name] # Registry!Nothing
      BY <2>1, <1>4 DEF Registry!Nothing
    <2> QED
      BY <2>1, <2>2, <1>4 DEF Registry!Listing
  <1> DEFINE Toc == {j \in 1..R : md_regions[j].name # NoName}
  <1>10. CollectedMemory = {TocRow(i) : i \in Toc}
    <2>1. ss_region_count - 1 = R
      BY <1>2, <1>3
    <2> QED
      BY <2>1, <1>7 DEF CollectedMemory
  <1>11. CollectedMemory' = {NewRow(i) : i \in {j \in 1..R + 1 : md_regions'[j].name # NoName}}
    <2>1. ss_region_count' - 1 = R + 1
      BY <1>3
    <2> QED
      BY <2>1, <1>7 DEF CollectedMemory
  <1>12. row \notin CollectedMemory
    <2> SUFFICES ASSUME NEW i \in Toc, TocRow(i) = row PROVE FALSE
      BY <1>10
    <2>1. md_regions[i].name = e.name
      OBVIOUS
    <2>2. i \in 0..ss_region_count - 1
      BY <1>2, <1>3
    <2> QED
      BY <2>1, <2>2, <1>2 DEF RegionSlots
  <1>13. /\ \A i \in 1..R : md_regions'[i] = md_regions[i]
         /\ md_regions'[R + 1] = MkSsRegion(e)
    <2>1. \A i \in 1..R : i \in Slots /\ i # R + 1
      BY <1>2, <1>3 DEF Slots
    <2>2. md_regions \in [Slots -> SsRegion]
      BY <1>1 DEF IndInv, TypeOK
    <2> QED
      BY <2>1, <2>2, <1>2
  <1>14. e.name # NoName
    BY <1>4, NamesAssumption
  <1>15. NewRow(R + 1) = row /\ R + 1 \in 1..R + 1
    <2>1. md_regions'[R + 1].name = e.name /\ md_regions'[R + 1].region_base_address = e.phys_addr
          /\ md_regions'[R + 1].region_size = e.size
      BY <1>2, <1>13
    <2> QED
      BY <2>1, <1>3
  <1>16. CollectedMemory' = CollectedMemory \cup {row}
    <2>1. \A i \in 1..R : NewRow(i) = TocRow(i)
      BY <1>13
    <2>2. \A i \in 1..R + 1 : i \in 1..R \/ i = R + 1
      BY <1>3
    <2>3. 1..R \subseteq 1..R + 1
      BY <1>3
    <2>4. md_regions'[R + 1].name # NoName
      BY <1>2, <1>13, <1>14
    <2>5. ASSUME NEW x \in CollectedMemory' PROVE x \in CollectedMemory \cup {row}
      <3>1. PICK i \in 1..R + 1 : md_regions'[i].name # NoName /\ x = NewRow(i)
        BY <1>11
      <3>2. CASE i = R + 1
        <4>1. x = NewRow(R + 1)
          BY <3>1, <3>2
        <4> QED
          BY <4>1, <1>15
      <3>3. CASE i \in 1..R
        <4>1. i \in Toc /\ NewRow(i) = TocRow(i)
          BY <3>1, <3>3, <1>13
        <4> HIDE DEF NewRow, TocRow, row, Toc
        <4> QED
          BY <4>1, <3>1, <1>10
      <3> QED
        BY <3>2, <3>3, <2>2
    <2>6. ASSUME NEW x \in CollectedMemory PROVE x \in CollectedMemory'
      <3>1. PICK i \in Toc : x = TocRow(i)
        BY <1>10
      <3>2. i \in 1..R + 1 /\ md_regions'[i].name # NoName /\ NewRow(i) = TocRow(i)
        BY <2>3, <1>13
      <3> HIDE DEF NewRow, TocRow, Toc
      <3> QED
        BY <3>1, <3>2, <1>11
    <2>7. row \in CollectedMemory'
      <3>1. NewRow(R + 1) \in CollectedMemory'
        BY <2>4, <1>11, <1>15
      <3> QED
        BY <3>1, <1>15
    <2> HIDE DEF NewRow, TocRow, row, Toc
    <2> QED
      BY <2>5, <2>6, <2>7
  <1> HIDE DEF row
  <1> QED
    BY <1>6, <1>7, <1>9, <1>12, <1>16 DEF Registry!Publish

(* A step that changes one name's memory from nothing to its client's own,
   and not the switch, is a Register. *)
LEMMA RegisterStep ==
  ASSUME Inv, Inv', ~Draining, ~Draining', NEW e \in Regions, TocOn' = TocOn,
         RegisteredMemory[e.name] = Unused,
         RegisteredMemory'[e.name] = MemoryOf(e),
         \A n \in Names \ {e.name} : RegisteredMemory'[n] = RegisteredMemory[n]
  PROVE  Registry!Register(e.name)
  <1>1. e.name \in Names
    BY RegionsAssumption DEF Region
  <1>2. RegisteredMemory' = [RegisteredMemory EXCEPT ![e.name] = RegisteredMemory'[e.name]]
    BY <1>1, OneNameChanges
  <1>3. RegisteredMemory'[e.name] \in OwnedMemory[e.name]
    BY <1>1 DEF OwnedMemory
  <1>4. CollectedMemory' = Registry!Seen(RegisteredMemory', TocOn)
    BY AgreementPrimed DEF Agrees, Registry!Seen, Registry!Listing
  <1>5. Registry!Published
    BY Agreement DEF Agrees, Registry!Published
  <1> QED
    BY <1>2, <1>3, <1>4, <1>5 DEF Registry!Register, Registry!OnlyOwn, Registry!Nothing, Unused

(* An add to the table is an add to the registry. *)
LEMMA AddRegionRefines ==
  ASSUME Inv, Inv', NEW e \in Regions, AddRegion(e)
  PROVE  Registry!Register(e.name)
  <1> DEFINE N == num_regions
  <1>1. /\ Enabled /\ Enabled' /\ ~Draining /\ ~Draining' /\ N \in Nat /\ N < MAX_NUM_ENTRIES
        /\ num_regions' = N + 1 /\ e.name \in Names /\ TocOn' = TocOn
    BY RegionsAssumption DEF AddRegion, CanAdd, Enabled, Draining, Inv, IndInv, TypeOK, Region, TocOn
  <1>2. entry'[N] = e /\ \A i \in 0..N - 1 : entry'[i] = entry[i] /\ entry[i].name # e.name
    <2>1. N \in Slots /\ \A i \in 0..N - 1 : i \in Slots /\ i # N
      BY <1>1, MaxAssumption DEF Slots
    <2>2. entry' = [entry EXCEPT ![N] = e] /\ DOMAIN entry = Slots
      BY DEF AddRegion, Inv, IndInv, TypeOK
    <2>3. \A i \in 0..N - 1 : entry[i].name # e.name
      BY DEF AddRegion, CanAdd, EntrySlots
    <2> QED
      BY <2>1, <2>2, <2>3
  <1>3. RegisteredMemory[e.name] = Unused
    BY <1>1, <1>2, EnabledMemory DEF Inv
  <1>4. RegisteredMemory'[e.name] = MemoryOf(e)
    BY <1>1, <1>2, EnabledMemoryPrimed DEF Inv
  <1>5. ASSUME NEW n \in Names \ {e.name} PROVE RegisteredMemory'[n] = RegisteredMemory[n]
    <2>1. CASE \E k \in 0..N - 1 : entry[k].name = n
      <3>1. PICK k \in 0..N - 1 : entry[k].name = n
        BY <2>1
      <3>2. k \in 0..(N + 1) - 1 /\ entry'[k] = entry[k]
        BY <1>1, <1>2
      <3>3. RegisteredMemory'[n] = MemoryOf(entry'[k])
        BY <3>1, <3>2, <1>1, EnabledMemoryPrimed DEF Inv
      <3> QED
        BY <3>1, <3>2, <3>3, <1>1, EnabledMemory DEF Inv
    <2>2. CASE \A k \in 0..N - 1 : entry[k].name # n
      <3>1. \A k \in 0..(N + 1) - 1 : entry'[k].name # n
        <4> SUFFICES ASSUME NEW k \in 0..(N + 1) - 1 PROVE entry'[k].name # n
          OBVIOUS
        <4>1. k = N \/ k \in 0..N - 1
          BY <1>1
        <4> QED
          BY <4>1, <1>2, <2>2
      <3>2. RegisteredMemory'[n] = Unused
        BY <3>1, <1>1, EnabledMemoryPrimed DEF Inv
      <3> QED
        BY <2>2, <3>2, <1>1, EnabledMemory DEF Inv
    <2> QED
      BY <2>1, <2>2
  <1> QED
    BY <1>1, <1>3, <1>4, <1>5, RegisterStep

(* So is one to the pending list. *)
LEMMA AddPendingRefines ==
  ASSUME EarlyDuplicates = FALSE, Inv, Inv', NEW e \in Regions, AddPending(e)
  PROVE  Registry!Register(e.name)
  <1> DEFINE L == Len(pending_list)
  <1>1. /\ ~Enabled /\ ~Enabled' /\ ~Draining /\ ~Draining' /\ L \in Nat /\ pending_list \in Seq(Region)
        /\ e \in Region /\ e.name \in Names /\ TocOn' = TocOn
    BY RegionsAssumption DEF AddPending, NotEnabledYet, Enabled, Draining, Inv, IndInv, TypeOK, Region, TocOn
  <1>2. /\ Len(pending_list') = L + 1 /\ pending_list'[L + 1] = e
        /\ \A i \in 1..L : pending_list'[i] = pending_list[i] /\ pending_list[i].name # e.name
    <2>1. DOMAIN pending_list = 1..L
      BY <1>1
    <2> QED
      BY <1>1, <2>1 DEF AddPending
  <1>3. RegisteredMemory[e.name] = Unused
    BY <1>1, <1>2, PendingMemory DEF Inv
  <1>4. RegisteredMemory'[e.name] = MemoryOf(e)
    BY <1>1, <1>2, PendingMemoryPrimed DEF Inv
  <1>5. ASSUME NEW n \in Names \ {e.name} PROVE RegisteredMemory'[n] = RegisteredMemory[n]
    <2>1. CASE \E k \in 1..L : pending_list[k].name = n
      <3>1. PICK k \in 1..L : pending_list[k].name = n
        BY <2>1
      <3>2. k \in 1..L + 1 /\ pending_list'[k] = pending_list[k]
        BY <1>1, <1>2
      <3>3. RegisteredMemory'[n] = MemoryOf(pending_list'[k])
        BY <3>1, <3>2, <1>1, <1>2, PendingMemoryPrimed DEF Inv
      <3> QED
        BY <3>1, <3>2, <3>3, <1>1, PendingMemory DEF Inv
    <2>2. CASE \A k \in 1..L : pending_list[k].name # n
      <3>1. \A k \in 1..L + 1 : pending_list'[k].name # n
        <4> SUFFICES ASSUME NEW k \in 1..L + 1 PROVE pending_list'[k].name # n
          OBVIOUS
        <4>1. k = L + 1 \/ k \in 1..L
          BY <1>1
        <4> QED
          BY <4>1, <1>2, <2>2
      <3>2. RegisteredMemory'[n] = Unused
        BY <3>1, <1>1, <1>2, PendingMemoryPrimed DEF Inv
      <3> QED
        BY <2>2, <3>2, <1>1, PendingMemory DEF Inv
    <2> QED
      BY <2>1, <2>2
  <1> QED
    BY <1>1, <1>3, <1>4, <1>5, RegisterStep

(* An update that is accepted moves the caller's region, its size stays; one
   that is refused leaves both tables alone, if not the ELF header. *)
LEMMA UpdateRegionRefines ==
  ASSUME Inv, Inv', NEW e \in Regions, UpdateRegion(e)
  PROVE  Registry!Move(e.name) \/ UNCHANGED Registry!rvars
  <1> DEFINE r == regno[e.name]
             N == num_regions
  <1>1. /\ Enabled /\ Enabled' /\ ~Draining /\ ~Draining' /\ N \in Nat /\ num_regions' = N /\ TocOn' = TocOn
        /\ e.name \in Names /\ e.virt_addr \in Nat /\ e.phys_addr \in Nat
    BY RegionsAssumption
       DEF UpdateRegion, MdInitDone, Enabled, Draining, Inv, IndInv, TypeOK, TocOn, Region
  <1>2. CASE ~CanUpdate(r, e.name)
    <2>1. UNCHANGED <<probe, pending_list, num_regions, entry>>
      BY <1>2 DEF UpdateRegion
    <2>2. RegisteredMemory' = RegisteredMemory
      BY <2>1 DEF RegisteredMemory, Enabled, EntrySlots, GetRegion, PendingOf
    <2> QED
      BY <2>2, <1>1, Stutter
  <1>3. CASE CanUpdate(r, e.name)
    <2>1. r \in 0..N - 1 /\ entry[r].name = e.name
      BY <1>1, <1>3 DEF UpdateRegion, CanUpdate, Inv, IndInv, NumbersStayValid, NotRegistered, TypeOK
    <2>2. 0..N - 1 \subseteq Slots
      BY <1>1, MaxAssumption DEF Slots, Inv, IndInv, TypeOK
    <2>3. entry \in [Slots -> Region \cup {NoRegion}] /\ entry[r] \in Region
      BY <2>1, <2>2, <1>1, NamesAssumption DEF Inv, IndInv, TypeOK, NoRegion
    <2>4. entry' = [entry EXCEPT ![r].virt_addr = e.virt_addr, ![r].phys_addr = e.phys_addr]
      BY <1>3 DEF UpdateRegion
    <2>5. /\ entry'[r] = [entry[r] EXCEPT !.virt_addr = e.virt_addr, !.phys_addr = e.phys_addr]
          /\ \A i \in 0..N - 1 : i # r => entry'[i] = entry[i]
      BY <2>1, <2>2, <2>3, <2>4
    <2>6. entry'[r].name = e.name /\ entry'[r].phys_addr = e.phys_addr /\ entry'[r].size = entry[r].size
      BY <2>1, <2>3, <2>5 DEF Region
    <2>7. RegisteredMemory[e.name] = MemoryOf(entry[r])
      BY <2>1, <1>1, EnabledMemory DEF Inv
    <2>8. RegisteredMemory'[e.name] = MemoryOf(entry'[r])
      BY <2>1, <2>6, <1>1, EnabledMemoryPrimed DEF Inv
    <2>9. RegisteredMemory[e.name] # Registry!Nothing
      <3>1. entry[r].size > 0
        BY <2>1, <1>1 DEF Inv, LiveInv
      <3>2. MemoryOf(entry[r]).size = entry[r].size
        BY DEF MemoryOf
      <3> QED
        BY <3>1, <3>2, <2>7 DEF Registry!Nothing
    <2>10. RegisteredMemory'[e.name] = [RegisteredMemory[e.name] EXCEPT !.phys_addr = MemoryOf(e).phys_addr]
      BY <2>6, <2>7, <2>8 DEF MemoryOf
    <2>11. MemoryOf(e) \in OwnedMemory[e.name]
      BY <1>1 DEF OwnedMemory
    <2>12. ASSUME NEW n \in Names \ {e.name} PROVE RegisteredMemory'[n] = RegisteredMemory[n]
      <3>1. CASE \E k \in 0..N - 1 : entry[k].name = n
        <4>1. PICK k \in 0..N - 1 : entry[k].name = n
          BY <3>1
        <4>2. entry'[k] = entry[k]
          BY <4>1, <2>1, <2>5
        <4>3. RegisteredMemory'[n] = MemoryOf(entry'[k])
          BY <4>1, <4>2, <1>1, EnabledMemoryPrimed DEF Inv
        <4> QED
          BY <4>1, <4>2, <4>3, <1>1, EnabledMemory DEF Inv
      <3>2. CASE \A k \in 0..N - 1 : entry[k].name # n
        <4>1. \A k \in 0..N - 1 : entry'[k].name # n
          BY <3>2, <2>5, <2>6
        <4>2. RegisteredMemory'[n] = Unused
          BY <4>1, <1>1, EnabledMemoryPrimed DEF Inv
        <4> QED
          BY <3>2, <4>2, <1>1, EnabledMemory DEF Inv
      <3> QED
        BY <3>1, <3>2
    <2>13. RegisteredMemory' = [RegisteredMemory EXCEPT ![e.name] = RegisteredMemory'[e.name]]
      BY <2>12, <1>1, OneNameChanges
    <2>14. CollectedMemory' = Registry!Seen(RegisteredMemory', TocOn)
      BY <1>1, AgreementPrimed DEF Agrees, Registry!Seen, Registry!Listing
    <2>15. Registry!Published
      BY <1>1, Agreement DEF Agrees, Registry!Published
    <2> QED
      BY <2>9, <2>10, <2>11, <2>13, <2>14, <2>15, <1>1 DEF Registry!Move, Registry!OnlyOwn
  <1> QED
    BY <1>2, <1>3

(* What a remove leaves in the entry table: slot k is gone, those after it
   moved down, and the last one is zeroed whether or not it still counts. *)
LEMMA RemoveShape ==
  ASSUME Inv, NEW n \in Names, EntrySlots(n) # {}, RemoveRegion(GetRegion(n))
  PROVE  /\ Enabled /\ Enabled' /\ num_regions \in Nat
         /\ num_regions' \in {num_regions, num_regions - 1}
         /\ \E k \in 0..num_regions - 1 :
              /\ entry[k].name = n
              /\ \A i \in 0..num_regions - 1 :
                   entry'[i] = IF i = num_regions - 1 THEN NoRegion
                               ELSE IF k <= i THEN entry[i + 1] ELSE entry[i]
  <1> DEFINE N == num_regions
  <1>1. Enabled /\ Enabled' /\ N \in Nat /\ N <= MAX_NUM_ENTRIES /\ IndInv
    BY DEF RemoveRegion, MdInitDone, Enabled, Inv, IndInv, TypeOK
  <1>2. PICK k \in 0..N - 1 : /\ entry[k].name = n
                              /\ EntrySlots(n) = {k} /\ Min(EntrySlots(n)) = k
    BY <1>1, OneSlotPerName
  <1>3. GetRegion(n).name = n
    BY <1>2 DEF GetRegion
  <1>4. entry' = RemoveSlot(entry, k, N, NoRegion)
    BY <1>2, <1>3 DEF RemoveRegion
  <1>5. ASSUME NEW i \in 0..N - 1
        PROVE  entry'[i] = IF i = N - 1 THEN NoRegion
                           ELSE IF k <= i THEN entry[i + 1] ELSE entry[i]
    <2>1. i \in DOMAIN entry /\ (i # N - 1 => i < N - 1)
      BY <1>1, MaxAssumption DEF IndInv, TypeOK, Slots
    <2> QED
      BY <2>1, <1>1, <1>4 DEF RemoveSlot
  <1>6. num_regions' \in {N, N - 1}
    BY DEF RemoveRegion
  <1> QED
    BY <1>1, <1>2, <1>5, <1>6

(* A remove frees the caller's name and no other, also when the ELF header is
   not found and the table of contents is switched off. *)
LEMMA RemoveRegionRefines ==
  ASSUME Inv, Inv', NEW n \in Names, EntrySlots(n) # {}, RemoveRegion(GetRegion(n))
  PROVE  Registry!Unregister(n)
  <1> DEFINE N == num_regions
             C == num_regions'
  <1>1. /\ Enabled /\ Enabled' /\ N \in Nat /\ C \in Int /\ N - 1 <= C /\ C <= N
    <2>1. Enabled /\ Enabled' /\ N \in Nat /\ C \in {N, N - 1}
      BY RemoveShape
    <2> QED
      BY <2>1
  <1>2. PICK k \in 0..N - 1 :
          /\ entry[k].name = n
          /\ \A i \in 0..N - 1 :
               entry'[i] = IF i = N - 1 THEN NoRegion
                           ELSE IF k <= i THEN entry[i + 1] ELSE entry[i]
    BY RemoveShape
  <1>3. \A i \in 0..N - 1 : entry[i].name = n => i = k
    BY <1>1, <1>2 DEF Inv, IndInv, LiveNamesDistinct
  <1>4. ASSUME NEW m \in Names, m # n, NEW j \in 0..N - 1, entry[j].name = m
        PROVE  \E i \in 0..C - 1 : entry'[i] = entry[j]
    <2> HIDE DEF N, C
    <2>1. CASE j < k
      <3>1. j \in 0..C - 1 /\ j # N - 1 /\ ~(k <= j)
        BY <2>1, <1>1
      <3> QED
        BY <3>1, <1>2
    <2>2. CASE j > k
      <3>1. /\ j - 1 \in 0..C - 1 /\ j - 1 \in 0..N - 1 /\ j - 1 # N - 1
            /\ k <= j - 1 /\ (j - 1) + 1 = j
        BY <2>2, <1>1
      <3>2. entry'[j - 1] = entry[j]
        BY <3>1, <1>2
      <3> QED
        BY <3>1, <3>2
    <2>3. j # k
      BY <1>2, <1>4
    <2> QED
      BY <2>1, <2>2, <2>3, <1>1
  <1>5. ASSUME NEW m \in Names, NEW i \in 0..C - 1, entry'[i].name = m
        PROVE  m # n /\ \E j \in 0..N - 1 : entry[j].name = m
    <2> HIDE DEF N, C
    <2>1. i \in 0..N - 1
      BY <1>1
    <2>2. i # N - 1
      BY <2>1, <1>2, <1>5, NamesAssumption DEF NoRegion
    <2>3. CASE k <= i
      <3>1. i + 1 \in 0..N - 1 /\ i + 1 # k /\ entry'[i] = entry[i + 1]
        BY <2>1, <2>2, <2>3, <1>1, <1>2
      <3> QED
        BY <3>1, <1>3, <1>5
    <2>4. CASE ~(k <= i)
      <3>1. i # k /\ entry'[i] = entry[i]
        BY <2>1, <2>2, <2>4, <1>1, <1>2
      <3> QED
        BY <3>1, <2>1, <1>3, <1>5
    <2> QED
      BY <2>3, <2>4
  <1>6. RegisteredMemory'[n] = Unused
    BY <1>1, <1>5, EnabledMemoryPrimed DEF Inv
  <1>7. ASSUME NEW m \in Names \ {n} PROVE RegisteredMemory'[m] = RegisteredMemory[m]
    <2>1. CASE \E j \in 0..N - 1 : entry[j].name = m
      <3>1. PICK j \in 0..N - 1 : entry[j].name = m
        BY <2>1
      <3>2. PICK i \in 0..C - 1 : entry'[i] = entry[j]
        BY <3>1, <1>4
      <3>3. RegisteredMemory'[m] = MemoryOf(entry'[i])
        BY <3>1, <3>2, <1>1, EnabledMemoryPrimed DEF Inv
      <3> QED
        BY <3>1, <3>2, <3>3, <1>1, EnabledMemory DEF Inv
    <2>2. CASE \A j \in 0..N - 1 : entry[j].name # m
      <3>1. \A i \in 0..C - 1 : entry'[i].name # m
        BY <2>2, <1>5
      <3>2. RegisteredMemory'[m] = Unused
        BY <3>1, <1>1, EnabledMemoryPrimed DEF Inv
      <3> QED
        BY <2>2, <3>2, <1>1, EnabledMemory DEF Inv
    <2> QED
      BY <2>1, <2>2
  <1>8. RegisteredMemory' = [RegisteredMemory EXCEPT ![n] = Unused]
    BY <1>6, <1>7, OneNameChanges
  <1>9. RegisteredMemory[n] # Registry!Nothing
    <2>1. RegisteredMemory[n] = MemoryOf(entry[k]) /\ entry[k].size > 0
      BY <1>1, <1>2, EnabledMemory DEF Inv, LiveInv
    <2>2. MemoryOf(entry[k]).size = entry[k].size
      BY DEF MemoryOf
    <2> QED
      BY <2>1, <2>2 DEF Registry!Nothing
  <1>13. ~Draining /\ ~Draining'
    BY <1>1 DEF Enabled, Draining
  <1>10. CollectedMemory' = Registry!Seen(RegisteredMemory', TocOn')
    BY <1>13, AgreementPrimed DEF Agrees, Registry!Seen, Registry!Listing
  <1>11. TocOn' \in BOOLEAN
    BY DEF TocOn
  <1>12. Registry!Published
    BY <1>13, Agreement DEF Agrees, Registry!Published
  <1> QED
    BY <1>8, <1>9, <1>10, <1>11, <1>12 DEF Registry!Unregister, Registry!Nothing, Unused

-----------------------------------------------------------------------------
(* No client registers an empty region, and no call empties one. *)
LEMMA NextLiveInv ==
  ASSUME Inv, IndInv', [Next]_vars
  PROVE  LiveInv'
  <1> USE DEF Inv, LiveInv
  <1>1. CASE \/ ProbeTable \/ ProbeFail \/ ProbeDone \/ UNCHANGED vars
             \/ \E e \in Regions : AddToFreedTable(e)
    BY <1>1 DEF ProbeTable, ProbeFail, ProbeDone, AddToFreedTable, vars, Enabled, Draining
  <1>2. CASE DrainRegion
    <2> DEFINE L == Len(pending_list)
               N == num_regions
               R == RegionNumber
               e == Head(pending_list)
    <2>1. /\ ~Enabled /\ ~Enabled' /\ Draining /\ Draining' /\ num_regions' = N
          /\ md_ss_toc_init' = md_ss_toc_init /\ pending_list # <<>> /\ pending_list \in Seq(Region)
      BY <1>2 DEF DrainRegion, Enabled, Draining, IndInv, TypeOK
    <2>2. /\ entry' = [entry EXCEPT ![R] = e, ![N] = e] /\ N \in Slots /\ R \in Slots
          /\ Len(pending_list') = L - 1 /\ \A i \in 1..L - 1 : pending_list'[i] = pending_list[i + 1]
          /\ N \in 0..MAX_NUM_ENTRIES
      BY <1>2, NextDrained
    <2>3. /\ L \in Nat /\ L >= 1 /\ e = pending_list[1] /\ entry \in [Slots -> Region \cup {NoRegion}]
          /\ \A i \in 1..L : pending_list[i].size > 0
      BY <2>1 DEF IndInv, TypeOK
    <2> HIDE DEF L, N, R, e
    <2>4. ASSUME NEW i \in 1..L - 1 PROVE pending_list'[i].size > 0
      <3>1. i + 1 \in 1..L
        BY <2>3
      <3> QED
        BY <3>1, <2>2, <2>3
    <2>5. ASSUME NEW i \in 0..N - 1, entry'[i].name \in Names PROVE entry'[i].size > 0
      <3>1. i \in Slots
        BY <2>2, MaxAssumption DEF Slots
      <3>2. entry'[i] = e \/ entry'[i] = entry[i]
        BY <3>1, <2>2, <2>3
      <3>3. e.size > 0
        BY <2>3
      <3> QED
        BY <3>2, <3>3, <2>1, <2>5 DEF N
    <2>6. \A i \in 1..Len(pending_list') : pending_list'[i].size > 0
      BY <2>2, <2>4
    <2> QED
      BY <2>1, <2>5, <2>6 DEF N
  <1>7. CASE ProbeEnable
    <2>1. /\ ~Enabled /\ ~Draining /\ ~Enabled' /\ Draining' /\ md_ss_toc_init' = 1
          /\ UNCHANGED <<pending_list, entry, num_regions>>
      BY <1>7 DEF ProbeEnable, Enabled, Draining
    <2>2. \A i \in 0..num_regions - 1 : entry[i].name \notin Names
      <3>1. \A i \in 0..num_regions - 1 : i \in Slots
        BY MaxAssumption DEF Slots, IndInv, TypeOK
      <3> QED
        BY <3>1, <2>1, NamesAssumption DEF IndInv, PendingInv, NoRegion
    <2> QED
      BY <2>1, <2>2
  <1>8. CASE ProbeUnlock
    BY <1>8 DEF ProbeUnlock, Enabled, Draining
  <1>3. ASSUME NEW e \in Regions, AddRegion(e) PROVE LiveInv'
    <2> DEFINE N == num_regions
    <2>1. Enabled /\ Enabled' /\ ~Draining' /\ N \in Nat /\ N < MAX_NUM_ENTRIES /\ num_regions' = N + 1
      BY <1>3 DEF AddRegion, CanAdd, Enabled, Draining, IndInv, TypeOK
    <2>2. ASSUME NEW i \in 0..N, entry'[i].name \in Names PROVE entry'[i].size > 0
      <3>1. entry' = [entry EXCEPT ![N] = e] /\ DOMAIN entry = Slots /\ i \in Slots
        BY <1>3, <2>1, MaxAssumption DEF AddRegion, IndInv, TypeOK, Slots
      <3>2. CASE i = N
        BY <3>1, <3>2, RegionsAssumption
      <3>3. CASE i \in 0..N - 1
        <4>1. i # N /\ entry'[i] = entry[i]
          BY <3>1, <3>3, <2>1
        <4> QED
          BY <4>1, <3>3, <2>1, <2>2
      <3> QED
        BY <3>2, <3>3, <2>1
    <2> QED
      BY <2>1, <2>2
  <1>4. ASSUME NEW e \in Regions, AddPending(e) PROVE LiveInv'
    <2> DEFINE L == Len(pending_list)
    <2>1. /\ ~Enabled /\ ~Enabled' /\ ~Draining /\ ~Draining' /\ L \in Nat /\ pending_list \in Seq(Region) /\ e \in Region
          /\ md_ss_toc_init' = md_ss_toc_init /\ pending_list' = Append(pending_list, e)
      BY <1>4, RegionsAssumption DEF AddPending, NotEnabledYet, Enabled, Draining, IndInv, TypeOK
    <2>2. ASSUME NEW i \in 1..Len(pending_list') PROVE pending_list'[i].size > 0
      <3>1. Len(pending_list') = L + 1 /\ pending_list'[L + 1] = e
            /\ \A j \in 1..L : pending_list'[j] = pending_list[j]
        BY <2>1
      <3>2. CASE i = L + 1
        BY <3>1, <3>2, RegionsAssumption
      <3>3. CASE i \in 1..L
        BY <3>1, <3>3, <2>1
      <3> QED
        BY <3>1, <3>2, <3>3, <2>1
    <2> QED
      BY <2>1, <2>2
  <1>5. ASSUME NEW e \in Regions, UpdateRegion(e) PROVE LiveInv'
    <2>1. Enabled /\ Enabled' /\ ~Draining' /\ num_regions' = num_regions
      BY <1>5 DEF UpdateRegion, MdInitDone, Enabled, Draining
    <2>2. \A i \in 0..num_regions - 1 : i \in Slots
      BY MaxAssumption DEF Slots, IndInv, TypeOK
    <2>3. \A i \in 0..num_regions - 1 : /\ entry'[i].name = entry[i].name
                                        /\ entry'[i].size = entry[i].size
      <3>1. entry \in [Slots -> Region \cup {NoRegion}]
        BY DEF IndInv, TypeOK
      <3>2. PICK r, v, p : entry' = [entry EXCEPT ![r].virt_addr = v, ![r].phys_addr = p]
                           \/ entry' = entry
        <4>1. \/ entry' = [entry EXCEPT ![regno[e.name]].virt_addr = e.virt_addr,
                                       ![regno[e.name]].phys_addr = e.phys_addr]
              \/ entry' = entry
          BY <1>5 DEF UpdateRegion
        <4> QED
          BY <4>1
      <3>3. \A i \in Slots : /\ entry'[i].name = entry[i].name
                             /\ entry'[i].size = entry[i].size
        BY <3>1, <3>2 DEF Region, NoRegion
      <3> QED
        BY <2>2, <3>3
    <2> QED
      BY <2>1, <2>3
  <1>6. ASSUME NEW n \in Names, EntrySlots(n) # {}, RemoveRegion(GetRegion(n)) PROVE LiveInv'
    <2> DEFINE N == num_regions
               C == num_regions'
    <2>1. Enabled /\ Enabled' /\ N \in Nat /\ C \in {N, N - 1}
      BY <1>6, RemoveShape
    <2>5. ~Draining'
      BY <2>1 DEF Enabled, Draining
    <2>2. PICK k \in 0..N - 1 :
            \A i \in 0..N - 1 :
              entry'[i] = IF i = N - 1 THEN NoRegion
                          ELSE IF k <= i THEN entry[i + 1] ELSE entry[i]
      BY <1>6, RemoveShape
    <2>3. ASSUME NEW i \in 0..N - 1, entry'[i].name \in Names PROVE entry'[i].size > 0
      <3>1. i # N - 1
        BY <2>2, <2>3, NamesAssumption DEF NoRegion
      <3>2. i + 1 \in 0..N - 1
        BY <2>1, <3>1
      <3> QED
        BY <2>1, <2>2, <2>3, <3>1, <3>2
    <2>4. 0..C - 1 \subseteq 0..N - 1
      <3> HIDE DEF N, C
      <3> QED
        BY <2>1
    <2> QED
      BY <2>1, <2>3, <2>4, <2>5
  <1> QED
    BY <1>1, <1>2, <1>3, <1>4, <1>5, <1>6, <1>7, <1>8 DEF Next

(* Every step keeps the invariant of the refinement. *)
LEMMA NextInv ==
  ASSUME EarlyDuplicates = FALSE
  PROVE  Inv /\ [Next]_vars => Inv'
  BY NextIndInv, NextLiveInv DEF Inv

(* It holds at first. *)
LEMMA InitInv == Init => Inv
  <1> SUFFICES ASSUME Init PROVE Inv
    OBVIOUS
  <1>1. ~Enabled /\ ~Draining /\ md_ss_toc_init = 0 /\ Len(pending_list) = 0
    BY DEF Init, Enabled, Draining
  <1> QED
    BY <1>1, InitIndInv DEF Inv, LiveInv

(* Nothing is registered when the driver starts, and nothing collected. *)
LEMMA InitRefines == Init => Registry!Init
  <1> SUFFICES ASSUME Init PROVE Registry!Init
    OBVIOUS
  <1>1. ~Enabled /\ ~Draining /\ ~TocOn /\ Len(pending_list) = 0
    BY DEF Init, Enabled, Draining, TocOn
  <1>2. Inv
    BY InitInv
  <1>3. \A n \in Names : RegisteredMemory[n] = Unused
    BY <1>1, <1>2, PendingMemory DEF Inv
  <1>4. RegisteredMemory = [n \in Names |-> Unused]
    BY <1>3, MemoryDomain
  <1>5. CollectedMemory = {}
    BY <1>1 DEF CollectedMemory
  <1>6. TocOn = FALSE
    BY <1>1 DEF TocOn
  <1> QED
    BY <1>4, <1>5, <1>6 DEF Registry!Init, Registry!Nothing, Unused

(* One step per disjunct of Next. *)
LEMMA StepRefines ==
  ASSUME EarlyDuplicates = FALSE, Inv, Inv', [Next]_vars
  PROVE  [Registry!Next]_(Registry!rvars)
  <1>1. CASE \/ ProbeTable \/ ProbeFail \/ ProbeUnlock \/ ProbeDone \/ UNCHANGED vars
             \/ \E e \in Regions : AddToFreedTable(e)
    BY <1>1, ProbeRefines
  <1>2. CASE ProbeEnable \/ DrainRegion
    BY <1>2, EnableRefines, DrainRefines DEF Registry!Next
  <1>3. ASSUME NEW e \in Regions, AddRegion(e) \/ AddPending(e) \/ UpdateRegion(e)
        PROVE  [Registry!Next]_(Registry!rvars)
    <2>1. e.name \in Names
      BY RegionsAssumption DEF Region
    <2> QED
      BY <1>3, <2>1, AddRegionRefines, AddPendingRefines, UpdateRegionRefines DEF Registry!Next
  <1>4. ASSUME NEW n \in Names, EntrySlots(n) # {}, RemoveRegion(GetRegion(n))
        PROVE  [Registry!Next]_(Registry!rvars)
    BY <1>4, RemoveRegionRefines DEF Registry!Next
  <1> QED
    BY <1>1, <1>2, <1>3, <1>4 DEF Next

(* If no name is registered twice before the probe, every behaviour of the
   SMEM driver is one of the registry: msm_minidump_add_region, _update_region
   and _remove_region change the caller's own region and no other; while the
   drain is under way the boot loader finds some of what is registered, and
   nothing else, and no call is served; and from then on its table of contents
   lists, whenever it is valid, exactly what is registered. *)
THEOREM DriverRefinesRegistry ==
  ASSUME EarlyDuplicates = FALSE
  PROVE  Spec => RefinesRegistry
  <1>1. Inv /\ Inv' /\ [Next]_vars => [Registry!Next]_(Registry!rvars)
    BY StepRefines
  <1> QED
    BY <1>1, InitInv, NextInv, InitRefines, PTL DEF Spec, RefinesRegistry, Registry!Spec

-----------------------------------------------------------------------------
(***************************************************************************)
(* The ELF header describes the entry table until something disturbs it.   *)
(* As a table of rows (ElfHeaderProofs) it is the entry table: nothing     *)
(* weaker is inductive, since the next clear finds its headers by what all *)
(* the others say, and moves them by offsets.                              *)
(***************************************************************************)
ElfInv ==
  /\ ~Enabled => WellFormed(elf, 0)
  /\ Draining /\ "early" \notin faults => RegionNumber = 0
  /\ Enabled /\ ~ElfDisturbed =>
       /\ WellFormed(elf, num_regions)
       /\ \A i \in 0..num_regions - 1 : Row(elf, i) = entry[i]

(* Then the rows are regions, under different names. *)
LEMMA UndisturbedRows ==
  ASSUME IndInv, ElfInv, Enabled, ~ElfDisturbed
  PROVE  /\ num_regions \in Nat /\ num_regions <= MAX_NUM_ENTRIES
         /\ \A i \in 0..num_regions - 1 : /\ entry[i] \in Region /\ entry[i].name \in Names
                                          /\ entry[i].size > 0
         /\ \A i, j \in 0..num_regions - 1 : entry[i].name = entry[j].name => i = j
         /\ DistinctRows(elf, num_regions)
  <1>1. num_regions \in Nat /\ num_regions <= MAX_NUM_ENTRIES
    BY MaxAssumption DEF IndInv, TypeOK
  <1>2. \A i \in 0..num_regions - 1 : Row(elf, i) \in Region /\ Row(elf, i).size > 0
    BY <1>1, RowFacts DEF ElfInv
  <1>3. \A i \in 0..num_regions - 1 : /\ entry[i] \in Region /\ entry[i].name \in Names
                                      /\ entry[i].size > 0
    BY <1>2 DEF ElfInv, Region
  <1>4. \A i, j \in 0..num_regions - 1 : entry[i].name = entry[j].name => i = j
    BY <1>3 DEF IndInv, LiveNamesDistinct
  <1>5. DistinctRows(elf, num_regions)
    BY <1>4 DEF ElfInv, DistinctRows
  <1> QED
    BY <1>1, <1>3, <1>4, <1>5

(* The header describes the empty table. *)
LEMMA InitElfInv == Init => ElfInv
  BY AddHeaderWellFormed DEF Init, ElfInv, Enabled, Draining

(* msm_minidump_add_region adds the entry and its headers at the same place. *)
LEMMA AddRegionElfInv ==
  ASSUME IndInv, ElfInv, NEW e \in Regions, AddRegion(e)
  PROVE  ElfInv'
  <1> DEFINE N == num_regions
  <1>1. Enabled /\ Enabled' /\ N \in Nat /\ N < MAX_NUM_ENTRIES /\ num_regions' = N + 1
    BY MaxAssumption DEF AddRegion, CanAdd, Enabled, IndInv, TypeOK
  <1> SUFFICES ASSUME ~ElfDisturbed'
               PROVE  /\ WellFormed(elf', N + 1)
                      /\ \A i \in 0..N : Row(elf', i) = entry'[i]
    BY <1>1 DEF ElfInv, Enabled, Draining
  <1>2. ~ElfDisturbed
    BY DEF AddRegion, ElfDisturbed
  <1>3. e \in Region /\ e.size > 0
    BY RegionsAssumption
  <1>4. WellFormed(elf, N) /\ \A i \in 0..N - 1 : Row(elf, i) = entry[i]
    BY <1>1, <1>2 DEF ElfInv
  <1>5. elf' = AddElfHeader(elf, e) /\ entry' = [entry EXCEPT ![N] = e]
    BY DEF AddRegion
  <1>6. /\ WellFormed(elf', N + 1) /\ Row(elf', N) = e
        /\ \A i \in 0..N - 1 : Row(elf', i) = Row(elf, i)
    BY <1>1, <1>3, <1>4, <1>5, AddWellFormed
  <1>7. entry'[N] = e /\ \A i \in 0..N - 1 : entry'[i] = entry[i]
    BY <1>1, <1>5, MaxAssumption DEF IndInv, TypeOK, Slots
  <1>8. 0..N = (0..N - 1) \cup {N}
    BY <1>1
  <1> QED
    BY <1>4, <1>6, <1>7, <1>8

(* msm_minidump_update_region takes one number for both. *)
LEMMA UpdateRegionElfInv ==
  ASSUME IndInv, ElfInv, NEW e \in Regions, UpdateRegion(e)
  PROVE  ElfInv'
  <1> DEFINE N == num_regions
             r == regno[e.name]
  <1>1. Enabled /\ Enabled' /\ num_regions' = N
    BY DEF UpdateRegion, MdInitDone, Enabled
  <1> SUFFICES ASSUME ~ElfDisturbed'
               PROVE  /\ WellFormed(elf', N)
                      /\ \A i \in 0..N - 1 : Row(elf', i) = entry'[i]
    BY <1>1 DEF ElfInv, Enabled, Draining
  <1>2. ~ElfDisturbed /\ CanUpdate(r, e.name)
    BY DEF UpdateRegion, ElfDisturbed
  <1>3. e \in Region /\ e.name \in Names
    BY RegionsAssumption DEF Region
  <1>4. WellFormed(elf, N) /\ \A i \in 0..N - 1 : Row(elf, i) = entry[i]
    BY <1>1, <1>2 DEF ElfInv
  <1>5. /\ r # NotRegistered
        /\ elf' = UpdateElfHeader(elf, r, e)
        /\ entry' = [entry EXCEPT ![r].virt_addr = e.virt_addr, ![r].phys_addr = e.phys_addr]
    BY <1>2 DEF UpdateRegion
  <1>6. r \in 0..N - 1
    <2>1. r < num_regions
      BY <1>1, <1>2, <1>3, <1>5 DEF IndInv, NumbersStayValid, CanUpdate
    <2>2. r \in -1..MAX_NUM_ENTRIES - 1
      BY <1>3 DEF IndInv, TypeOK
    <2> QED
      BY <2>1, <2>2, <1>5, MaxAssumption DEF NotRegistered, IndInv, TypeOK
  <1>7. N \in Nat /\ N <= MAX_NUM_ENTRIES /\ entry[r] \in Region
    BY <1>1, <1>2, <1>6, UndisturbedRows
  <1> HIDE DEF r
  <1>8. /\ WellFormed(elf', N)
        /\ \A i \in 0..N - 1 : i # r => Row(elf', i) = Row(elf, i)
        /\ Row(elf', r) = [name |-> Row(elf, r).name, virt_addr |-> e.virt_addr,
                           phys_addr |-> e.phys_addr, size |-> Row(elf, r).size]
    BY <1>3, <1>4, <1>5, <1>6, <1>7, UpdateWellFormed
  <1>9. /\ \A i \in 0..N - 1 : i # r => entry'[i] = entry[i]
        /\ entry'[r] = [entry[r] EXCEPT !.virt_addr = e.virt_addr, !.phys_addr = e.phys_addr]
    <2>1. DOMAIN entry = Slots /\ r \in Slots /\ \A i \in 0..N - 1 : i \in Slots
      BY <1>6, <1>7, MaxAssumption DEF IndInv, TypeOK, Slots
    <2> HIDE DEF N
    <2> QED
      BY <1>5, <2>1
  <1>10. Row(elf', r) = entry'[r]
    BY <1>4, <1>6, <1>7, <1>8, <1>9 DEF Region
  <1> QED
    BY <1>4, <1>8, <1>9, <1>10

(* What RemoveRegion is called with, and where it is. *)
LEMMA RemoveFinds ==
  ASSUME IndInv, Enabled, NEW n \in Names, EntrySlots(n) # {}, RemoveRegion(GetRegion(n))
  PROVE  \E k \in 0..num_regions - 1 :
           /\ entry[k].name = n
           /\ GetRegion(n) = entry[k]
           /\ entry' = RemoveSlot(entry, k, num_regions, NoRegion)
           /\ \A i \in 0..num_regions - 2 : entry'[i] = entry[Left(k, i)]
  <1>1. PICK k \in 0..num_regions - 1 : /\ entry[k].name = n
                                        /\ EntrySlots(n) = {k} /\ Min(EntrySlots(n)) = k
    BY OneSlotPerName
  <1>2. GetRegion(n) = entry[k] /\ GetRegion(n).name = n
    BY <1>1 DEF GetRegion
  <1>3. entry' = RemoveSlot(entry, k, num_regions, NoRegion)
    BY <1>1, <1>2 DEF RemoveRegion
  <1>4. ASSUME NEW i \in 0..num_regions - 2 PROVE entry'[i] = entry[Left(k, i)]
    <2>1. num_regions \in Nat /\ i \in DOMAIN entry /\ i < num_regions - 1 /\ i # num_regions - 1
      BY MaxAssumption DEF IndInv, TypeOK, Slots
    <2> QED
      BY <1>3, <2>1 DEF RemoveSlot, Left
  <1> QED
    BY <1>1, <1>2, <1>3, <1>4

(* msm_minidump_remove_region, with the headers found. *)
LEMMA RemoveRegionElfInv ==
  ASSUME IndInv, ElfInv, NEW n \in Names, EntrySlots(n) # {}, RemoveRegion(GetRegion(n))
  PROVE  ElfInv'
  <1> DEFINE N == num_regions
             e == GetRegion(n)
  <1>1. Enabled /\ Enabled'
    BY DEF RemoveRegion, MdInitDone, Enabled
  <1> SUFFICES ASSUME ~ElfDisturbed'
               PROVE  /\ WellFormed(elf', num_regions')
                      /\ \A i \in 0..num_regions' - 1 : Row(elf', i) = entry'[i]
    BY <1>1 DEF ElfInv, Enabled, Draining
  <1>2. /\ ~ElfDisturbed /\ CanClearHeaders(elf, e) /\ elf' = ClearHeaders(elf, e)
        /\ num_regions' = N - 1
    BY DEF RemoveRegion, ElfDisturbed
  <1>3. /\ WellFormed(elf, N) /\ \A i \in 0..N - 1 : Row(elf, i) = entry[i]
        /\ N \in Nat /\ N <= MAX_NUM_ENTRIES /\ DistinctRows(elf, N)
    BY <1>1, <1>2, UndisturbedRows DEF ElfInv
  <1>4. PICK k \in 0..N - 1 : /\ entry[k].name = n /\ e = entry[k]
                              /\ \A i \in 0..N - 2 : entry'[i] = entry[Left(k, i)]
    BY <1>1, RemoveFinds
  <1>5. e \in Region
    BY <1>1, <1>2, <1>4, UndisturbedRows
  <1> HIDE DEF e
  <1>6. PICK m \in 0..N - 1 :
           /\ Row(elf, m) = e
           /\ WellFormed(elf', N - 1)
           /\ \A i \in 0..N - 2 : Row(elf', i) = Row(elf, Left(m, i))
    BY <1>2, <1>3, <1>5, ClearWellFormed
  <1>7. m = k
    BY <1>3, <1>4, <1>6 DEF DistinctRows
  <1>8. \A i \in 0..N - 2 : Left(k, i) \in 0..N - 1
    BY <1>3 DEF Left
  <1>9. (N - 1) - 1 = N - 2
    BY <1>3
  <1> QED
    BY <1>2, <1>3, <1>4, <1>6, <1>7, <1>8, <1>9

(* Every step keeps the header in step with the entries, up to a named fault. *)
LEMMA NextElfInv ==
  ASSUME IndInv, ElfInv, [Next]_vars
  PROVE  ElfInv'
  <1>1. CASE ProbeTable
    <2>1. ~Enabled' /\ ~Draining' /\ elf' = AddHeader
      BY <1>1 DEF ProbeTable, Enabled, Draining
    <2> QED
      BY <2>1, AddHeaderWellFormed DEF ElfInv
  <1>2. CASE \/ ProbeFail \/ ProbeDone \/ UNCHANGED vars
             \/ \E e \in Regions : AddToFreedTable(e)
    BY <1>2 DEF ProbeFail, ProbeDone, AddToFreedTable, vars, ElfInv, Enabled, Draining,
                ElfDisturbed, RegionNumber
  <1>8. CASE ProbeEnable
    <2>1. ~Enabled /\ ~Draining /\ ~Enabled' /\ elf' = elf /\ ss_region_count' = 1
      BY <1>8 DEF ProbeEnable, Enabled, Draining, IndInv, PendingInv
    <2>2. RegionNumber' = 0
      BY <2>1 DEF RegionNumber
    <2> QED
      BY <2>1, <2>2 DEF ElfInv
  <1>9. CASE DrainRegion
    BY <1>9 DEF DrainRegion, Draining, Enabled, ElfInv
  <1>3. CASE ProbeUnlock
    <2>1. ~Enabled /\ Enabled' /\ Draining /\ ~Draining' /\ elf' = elf /\ num_regions' = num_regions
      BY <1>3 DEF ProbeUnlock, Enabled, Draining
    <2> SUFFICES ASSUME ~ElfDisturbed'
                 PROVE  WellFormed(elf', 0) /\ num_regions' = 0
      BY <2>1 DEF ElfInv
    <2>2. pending_list = <<>> /\ RegionNumber = 0
      BY <1>3, <2>1 DEF ProbeUnlock, ElfDisturbed, ElfInv
    <2>3. num_regions = 0
      BY <2>1, <2>2 DEF IndInv, DrainInv
    <2> QED
      BY <2>1, <2>3 DEF ElfInv
  <1>4. ASSUME NEW e \in Regions, AddRegion(e) PROVE ElfInv'
    BY <1>4, AddRegionElfInv
  <1>5. ASSUME NEW e \in Regions, AddPending(e) PROVE ElfInv'
    BY <1>5 DEF AddPending, NotEnabledYet, ElfInv, Enabled, Draining
  <1>6. ASSUME NEW e \in Regions, UpdateRegion(e) PROVE ElfInv'
    BY <1>6, UpdateRegionElfInv
  <1>7. ASSUME NEW n \in Names, EntrySlots(n) # {}, RemoveRegion(GetRegion(n)) PROVE ElfInv'
    BY <1>7, RemoveRegionElfInv
  <1> QED
    BY <1>1, <1>2, <1>3, <1>4, <1>5, <1>6, <1>7, <1>8, <1>9 DEF Next

(* What ElfInv says of the headers is what a parser of the dump needs. *)
LEMMA ElfInvAgrees == IndInv /\ ElfInv => ElfMirrorsEntries
  <1> SUFFICES ASSUME IndInv, ElfInv, Enabled, ~ElfDisturbed PROVE HeadersAgree
    BY DEF ElfMirrorsEntries
  <1> DEFINE N == num_regions
  <1>1. N \in Nat /\ N <= MAX_NUM_ENTRIES /\ WellFormed(elf, N)
        /\ \A i \in 0..N - 1 : Row(elf, i) = entry[i]
    BY UndisturbedRows DEF ElfInv
  <1>2. elf.e_shnum = N + FIXED_SECTIONS /\ elf.e_phnum = N + FIXED_PROGRAMS
    BY <1>1 DEF WellFormed
  <1>3. ASSUME NEW i \in 0..N - 1
        PROVE  /\ LookupString(elf, Sec(elf, i).sh_name) = entry[i].name
               /\ Sec(elf, i).sh_addr = entry[i].virt_addr
               /\ Sec(elf, i).sh_size = entry[i].size
               /\ Prog(elf, i).p_vaddr = entry[i].virt_addr
               /\ Prog(elf, i).p_paddr = entry[i].phys_addr
               /\ Prog(elf, i).p_memsz = entry[i].size
               /\ Prog(elf, i).p_offset = Sec(elf, i).sh_offset
    <2>1. /\ Prog(elf, i).p_vaddr = entry[i].virt_addr
          /\ Prog(elf, i).p_paddr = entry[i].phys_addr
          /\ Prog(elf, i).p_memsz = entry[i].size
      <3>1. /\ Prog(elf, i).p_vaddr = Row(elf, i).virt_addr
            /\ Prog(elf, i).p_paddr = Row(elf, i).phys_addr
            /\ Prog(elf, i).p_memsz = Row(elf, i).size
        BY DEF Row
      <3> QED
        BY <1>1, <3>1
    <2>2. LookupString(elf, Sec(elf, i).sh_name) = entry[i].name
      BY <1>1, RowFacts
    <2> QED
      BY <1>1, <2>1, <2>2 DEF WellFormed, Paired
  <1>4. ASSUME NEW i \in 0..N - 1
        PROVE  Sec(elf, i).sh_offset + Sec(elf, i).sh_size =
                 IF i = N - 1 THEN elf.elf_offset ELSE Sec(elf, i + 1).sh_offset
    <2>1. Offsets(elf, N)[i] + Lengths(elf, N)[i] =
            IF i = N - 1 THEN elf.elf_offset ELSE Offsets(elf, N)[i + 1]
      BY <1>1 DEF WellFormed, Packed
    <2>2. i # N - 1 => i + 1 \in 0..N - 1
      BY <1>1
    <2> QED
      BY <2>1, <2>2 DEF Offsets, Lengths
  <1>5. N > 0 => elf.shdr[FIXED_SECTIONS].sh_offset = ElfhSize
    <2> SUFFICES ASSUME N > 0 PROVE elf.shdr[4].sh_offset = ElfhSize
      BY DEF FIXED_SECTIONS
    <2>1. Offsets(elf, N)[0] = ElfhSize
      BY <1>1 DEF WellFormed, Packed
    <2>2. 0 \in 0..N - 1 /\ 0 + 4 = 4
      BY <1>1
    <2> QED
      BY <2>1, <2>2 DEF Offsets, Sec, FIXED_SECTIONS
  <1>6. \A i \in 0..N - 1 : (i + FIXED_SECTIONS) + 1 = (i + 1) + FIXED_SECTIONS
    BY DEF FIXED_SECTIONS
  <1> QED
    BY <1>2, <1>3, <1>4, <1>5, <1>6 DEF HeadersAgree, Sec, Prog

(* Until a drained region, a refused update, a failed remove or an overlap of
   the header arrays disturbs it, the ELF header describes exactly the entry
   table, in order and without a gap in the dump, whatever was added, moved
   and removed (md_add_elf_header, md_update_elf_header and
   msm_minidump_clear_headers), if no name is registered twice early. *)
THEOREM ElfMirrors ==
  ASSUME EarlyDuplicates = FALSE
  PROVE  Spec => []ElfMirrorsEntries
  <1>1. IndInv /\ ElfInv /\ [Next]_vars => ElfInv'
    BY NextElfInv
  <1> QED
    BY <1>1, InitIndInv, NextIndInv, InitElfInv, ElfInvAgrees, PTL DEF Spec

-----------------------------------------------------------------------------
(***************************************************************************)
(* A remove fails only for a reason.  msm_minidump_clear_headers looks for *)
(* the program header by physical address and size, so it can be led to    *)
(* another region only where two of them cover the same memory.            *)
(***************************************************************************)
MemoryDistinct ==
  Enabled /\ ~ElfDisturbed /\ "alias" \notin faults =>
    \A i, j \in 0..num_regions - 1 :
      entry[i].phys_addr = entry[j].phys_addr /\ entry[i].size = entry[j].size => i = j

(* Only a failed remove leaves the table of contents off. *)
OffOnlyAfterRemove == Draining \/ (Enabled /\ "remove" \notin faults) => md_ss_toc_init = 1

FaultsInv ==
  /\ ElfInv
  /\ MemoryDistinct
  /\ OffOnlyAfterRemove
  /\ RemoveBreaksOnlyFor

(* The headers of a live region are found until there was a fault. *)
LEMMA RemoveSucceeds ==
  ASSUME IndInv, FaultsInv, Enabled, ~ElfDisturbed, "alias" \notin faults,
         NEW n \in Names, EntrySlots(n) # {}, RemoveRegion(GetRegion(n))
  PROVE  CanClearHeaders(elf, GetRegion(n))
  <1> USE DEF FaultsInv
  <1>1. PICK k \in 0..num_regions - 1 : GetRegion(n) = entry[k]
    BY RemoveFinds
  <1>2. /\ WellFormed(elf, num_regions) /\ DistinctRows(elf, num_regions)
        /\ num_regions \in Nat /\ num_regions <= MAX_NUM_ENTRIES
        /\ \A i \in 0..num_regions - 1 : Row(elf, i) = entry[i]
    BY UndisturbedRows DEF ElfInv
  <1>3. \A i \in 0..num_regions - 1 : i # k => \/ Row(elf, i).phys_addr # Row(elf, k).phys_addr
                                               \/ Row(elf, i).size # Row(elf, k).size
    BY <1>2 DEF MemoryDistinct
  <1> QED
    BY <1>1, <1>2, <1>3, ClearPossible

(* A region is added over memory that no live one has, or it is a fault. *)
LEMMA AddRegionDistinct ==
  ASSUME IndInv, FaultsInv, NEW e \in Regions, AddRegion(e)
  PROVE  MemoryDistinct'
  <1> USE DEF FaultsInv
  <1> DEFINE N == num_regions
  <1>1. Enabled /\ Enabled' /\ N \in Nat /\ N < MAX_NUM_ENTRIES /\ num_regions' = N + 1
    BY MaxAssumption DEF AddRegion, CanAdd, Enabled, IndInv, TypeOK
  <1> SUFFICES ASSUME ~ElfDisturbed', "alias" \notin faults', NEW i \in 0..N, NEW j \in 0..N,
                      entry'[i].phys_addr = entry'[j].phys_addr,
                      entry'[i].size = entry'[j].size
               PROVE  i = j
    BY <1>1 DEF MemoryDistinct
  <1>2. ~ElfDisturbed /\ "alias" \notin faults /\ ~Aliased(e)
    BY DEF AddRegion, ElfDisturbed, AliasFault
  <1>3. \A m \in 0..N - 1 : entry[m].name \in Names /\ entry[m].name # e.name
    <2>1. EntrySlots(e.name) = {}
      BY DEF AddRegion, CanAdd
    <2> QED
      BY <1>1, <1>2, <2>1, UndisturbedRows DEF EntrySlots
  <1>4. \A m \in 0..N - 1 : entry[m].phys_addr = e.phys_addr => entry[m].size # e.size
    BY <1>2, <1>3, NamesAssumption DEF Aliased
  <1>5. entry'[N] = e /\ \A m \in 0..N - 1 : entry'[m] = entry[m]
    BY <1>1, MaxAssumption DEF AddRegion, IndInv, TypeOK, Slots
  <1>6. 0..N = (0..N - 1) \cup {N}
    BY <1>1
  <1>7. CASE i \in 0..N - 1 /\ j \in 0..N - 1
    BY <1>1, <1>2, <1>5, <1>7 DEF MemoryDistinct
  <1> QED
    BY <1>4, <1>5, <1>6, <1>7

(* The same for a region that is moved. *)
LEMMA UpdateRegionDistinct ==
  ASSUME IndInv, FaultsInv, NEW e \in Regions, UpdateRegion(e)
  PROVE  MemoryDistinct'
  <1> USE DEF FaultsInv
  <1> DEFINE N == num_regions
             r == regno[e.name]
             f == [entry[r] EXCEPT !.phys_addr = e.phys_addr]
  <1>1. Enabled /\ Enabled' /\ num_regions' = N
    BY DEF UpdateRegion, MdInitDone, Enabled
  <1> SUFFICES ASSUME ~ElfDisturbed', "alias" \notin faults', NEW i \in 0..N - 1, NEW j \in 0..N - 1,
                      entry'[i].phys_addr = entry'[j].phys_addr,
                      entry'[i].size = entry'[j].size
               PROVE  i = j
    BY <1>1 DEF MemoryDistinct
  <1>2. ~ElfDisturbed /\ CanUpdate(r, e.name)
    BY DEF UpdateRegion, ElfDisturbed
  <1>3. "alias" \notin faults /\ ~Aliased(f)
        /\ entry' = [entry EXCEPT ![r].virt_addr = e.virt_addr, ![r].phys_addr = e.phys_addr]
    BY <1>2 DEF UpdateRegion, AliasFault
  <1>4. e.name \in Names
    BY RegionsAssumption DEF Region
  <1>5. /\ N \in Nat /\ N <= MAX_NUM_ENTRIES
        /\ \A m \in 0..N - 1 : entry[m] \in Region /\ entry[m].name \in Names
        /\ \A m, p \in 0..N - 1 : entry[m].name = entry[p].name => m = p
    BY <1>1, <1>2, UndisturbedRows
  <1>6. r \in 0..N - 1
    <2>1. r < num_regions /\ r # NotRegistered
      BY <1>1, <1>2, <1>4 DEF IndInv, NumbersStayValid, CanUpdate, UpdateRegion
    <2>2. r \in -1..MAX_NUM_ENTRIES - 1
      BY <1>4 DEF IndInv, TypeOK
    <2> QED
      BY <2>1, <2>2, <1>5, MaxAssumption DEF NotRegistered
  <1> HIDE DEF r
  <1>7. /\ f.name = entry[r].name /\ f.size = entry[r].size /\ f.phys_addr = e.phys_addr
    BY <1>5, <1>6 DEF Region
  <1> HIDE DEF f
  <1>8. /\ \A m \in 0..N - 1 : m # r => entry'[m] = entry[m]
        /\ entry'[r].phys_addr = e.phys_addr /\ entry'[r].size = entry[r].size
    <2>1. DOMAIN entry = Slots /\ r \in Slots /\ \A m \in 0..N - 1 : m \in Slots
      BY <1>5, <1>6, MaxAssumption DEF IndInv, TypeOK, Slots
    <2> HIDE DEF N
    <2>2. entry[r] \in Region
      BY <1>5, <1>6
    <2> QED
      BY <1>3, <2>1, <2>2 DEF Region
  <1>9. \A m \in 0..N - 1 : m # r /\ entry[m].phys_addr = e.phys_addr => entry[m].size # entry[r].size
    BY <1>3, <1>5, <1>6, <1>7, NamesAssumption DEF Aliased
  <1>10. CASE i # r /\ j # r
    BY <1>1, <1>2, <1>3, <1>8, <1>10 DEF MemoryDistinct
  <1> QED
    BY <1>8, <1>9, <1>10

(* A remove takes one region away, and puts none anywhere. *)
LEMMA RemoveRegionDistinct ==
  ASSUME IndInv, FaultsInv, NEW n \in Names, EntrySlots(n) # {}, RemoveRegion(GetRegion(n))
  PROVE  MemoryDistinct'
  <1> USE DEF FaultsInv
  <1> DEFINE N == num_regions
  <1>1. Enabled /\ Enabled'
    BY DEF RemoveRegion, MdInitDone, Enabled
  <1> SUFFICES ASSUME ~ElfDisturbed', "alias" \notin faults',
                      NEW i \in 0..num_regions' - 1, NEW j \in 0..num_regions' - 1,
                      entry'[i].phys_addr = entry'[j].phys_addr,
                      entry'[i].size = entry'[j].size
               PROVE  i = j
    BY <1>1 DEF MemoryDistinct
  <1>2. ~ElfDisturbed /\ "alias" \notin faults /\ num_regions' = N - 1
    BY DEF RemoveRegion, ElfDisturbed
  <1>3. N \in Nat
    BY DEF IndInv, TypeOK
  <1>4. PICK k \in 0..N - 1 : \A m \in 0..N - 2 : entry'[m] = entry[Left(k, m)]
    BY <1>1, RemoveFinds
  <1>5. i \in 0..N - 2 /\ j \in 0..N - 2
    BY <1>2, <1>3
  <1>6. Left(k, i) \in 0..N - 1 /\ Left(k, j) \in 0..N - 1 /\ (Left(k, i) = Left(k, j) => i = j)
    BY <1>3, <1>5 DEF Left
  <1> QED
    BY <1>1, <1>2, <1>4, <1>5, <1>6 DEF MemoryDistinct

(* Every step keeps the faults accounted for. *)
LEMMA NextFaultsInv ==
  ASSUME IndInv, FaultsInv, [Next]_vars
  PROVE  FaultsInv'
  <1> USE DEF FaultsInv
  <1>0. ElfInv'
    BY NextElfInv
  <1>1. CASE \/ ProbeTable \/ ProbeFail \/ ProbeDone \/ UNCHANGED vars
             \/ \E e \in Regions : AddToFreedTable(e)
    <2>1. UNCHANGED <<Enabled, Draining, entry, num_regions, faults, md_ss_toc_init>>
      BY <1>1 DEF ProbeTable, ProbeFail, ProbeDone, AddToFreedTable, vars, Enabled, Draining
    <2> QED
      BY <1>0, <2>1 DEF MemoryDistinct, OffOnlyAfterRemove, RemoveBreaksOnlyFor, ElfDisturbed
  <1>7. CASE ProbeEnable \/ DrainRegion
    <2>1. ~Enabled' /\ md_ss_toc_init' = 1 /\ faults \subseteq faults'
          /\ ("remove" \in faults' => "remove" \in faults)
      BY <1>7 DEF ProbeEnable, DrainRegion, Enabled, Draining, OffOnlyAfterRemove
    <2> QED
      BY <1>0, <2>1 DEF MemoryDistinct, OffOnlyAfterRemove, RemoveBreaksOnlyFor
  <1>2. CASE ProbeUnlock
    <2>1. /\ Draining /\ ~Draining' /\ Enabled' /\ md_ss_toc_init' = 1 /\ pending_list = <<>>
          /\ num_regions' = num_regions /\ faults' = faults
      BY <1>2 DEF ProbeUnlock, Enabled, Draining, OffOnlyAfterRemove
    <2>2. MemoryDistinct'
      <3> SUFFICES ASSUME ~ElfDisturbed' PROVE num_regions' = 0
        BY DEF MemoryDistinct
      <3>1. RegionNumber = 0
        BY <2>1 DEF ElfDisturbed, ElfInv
      <3> QED
        BY <2>1, <3>1 DEF IndInv, DrainInv
    <2> QED
      BY <1>0, <2>1, <2>2 DEF OffOnlyAfterRemove, RemoveBreaksOnlyFor
  <1>3. ASSUME NEW e \in Regions, AddRegion(e) PROVE FaultsInv'
    <2>1. MemoryDistinct'
      BY <1>3, AddRegionDistinct
    <2>2. /\ Enabled /\ Enabled' /\ ~Draining' /\ md_ss_toc_init' = md_ss_toc_init /\ faults \subseteq faults'
          /\ "remove" \in faults' => "remove" \in faults
      BY <1>3 DEF AddRegion, Enabled, Draining, AliasFault
    <2> QED
      BY <1>0, <2>1, <2>2 DEF OffOnlyAfterRemove, RemoveBreaksOnlyFor
  <1>4. ASSUME NEW e \in Regions, AddPending(e) PROVE FaultsInv'
    <2>1. ~Enabled /\ ~Enabled' /\ ~Draining' /\ faults' = faults
      BY <1>4 DEF AddPending, NotEnabledYet, Enabled, Draining
    <2> QED
      BY <1>0, <2>1 DEF MemoryDistinct, OffOnlyAfterRemove, RemoveBreaksOnlyFor
  <1>5. ASSUME NEW e \in Regions, UpdateRegion(e) PROVE FaultsInv'
    <2>1. MemoryDistinct'
      BY <1>5, UpdateRegionDistinct
    <2>2. /\ Enabled /\ Enabled' /\ ~Draining' /\ md_ss_toc_init' = md_ss_toc_init /\ faults \subseteq faults'
          /\ "remove" \in faults' => "remove" \in faults
      BY <1>5 DEF UpdateRegion, MdInitDone, Enabled, Draining, AliasFault
    <2> QED
      BY <1>0, <2>1, <2>2 DEF OffOnlyAfterRemove, RemoveBreaksOnlyFor
  <1>6. ASSUME NEW n \in Names, EntrySlots(n) # {}, RemoveRegion(GetRegion(n)) PROVE FaultsInv'
    <2>1. MemoryDistinct'
      BY <1>6, RemoveRegionDistinct
    <2>2. Enabled /\ Enabled' /\ ~Draining'
      BY <1>6 DEF RemoveRegion, MdInitDone, Enabled, Draining
    <2>3. CASE CanClearHeaders(elf, GetRegion(n))
      <3>1. md_ss_toc_init' = 1 /\ faults' = faults
        BY <1>6, <2>3 DEF RemoveRegion
      <3> QED
        BY <1>0, <2>1, <2>2, <3>1 DEF OffOnlyAfterRemove, RemoveBreaksOnlyFor
    <2>4. CASE ~CanClearHeaders(elf, GetRegion(n))
      <3>1. faults' = faults \cup {"remove"}
        BY <1>6, <2>4 DEF RemoveRegion
      <3>2. ElfDisturbed \/ "alias" \in faults
        BY <1>6, <2>2, <2>4, RemoveSucceeds
      <3>3. faults \cap {"early", "alias", "overlap", "update"} # {}
        BY <3>2 DEF ElfDisturbed, RemoveBreaksOnlyFor
      <3> QED
        BY <1>0, <2>1, <2>2, <3>1, <3>3 DEF OffOnlyAfterRemove, RemoveBreaksOnlyFor
    <2> QED
      BY <2>3, <2>4
  <1> QED
    BY <1>1, <1>2, <1>3, <1>4, <1>5, <1>6, <1>7 DEF Next

(* At first there are none. *)
LEMMA InitFaultsInv == Init => FaultsInv
  BY InitElfInv DEF Init, FaultsInv, MemoryDistinct, OffOnlyAfterRemove, RemoveBreaksOnlyFor,
     Enabled, Draining

(* If no name is registered twice early, a remove of a live region fails
   ("Minidump is broken", msm_minidump.c:820), and leaves the table of
   contents off, only after a drained region, a refused update, two regions
   over the same memory or an overlap of the header arrays. *)
THEOREM RemoveBreaksOnly ==
  ASSUME EarlyDuplicates = FALSE
  PROVE  Spec => []RemoveBreaksOnlyFor
  <1>1. IndInv /\ FaultsInv /\ [Next]_vars => FaultsInv'
    BY NextFaultsInv
  <1>2. FaultsInv => RemoveBreaksOnlyFor
    BY DEF FaultsInv
  <1> QED
    BY <1>1, <1>2, InitIndInv, NextIndInv, InitFaultsInv, PTL DEF Spec

-----------------------------------------------------------------------------
(***************************************************************************)
(* LogRegions, the log as a client of the driver, for every number of      *)
(* CPUs, tasks and pages.                                                  *)
(*                                                                         *)
(* The driver promises an update only for slots below the first removed    *)
(* one, and a remove only when no other region has the same memory.  Both  *)
(* hold for the log because of the order of msm_minidump_log_init, in      *)
(* which the memory dump comes last, and because the memory of the dump is *)
(* its own.  That order also makes every stack the dummy until the flag is *)
(* set, and the interrupt follow the flag.                                 *)
(***************************************************************************)
UpdatedNames == StackNames \cup SuspendNames

(* A region of the log as it is first registered: a stack is InitTask's. *)
FirstRegistered(e) ==
  /\ \A c \in CPUs, p \in 1..StackPages : e.name = KSTACK[c][p] => e.phys_addr = StackOf[InitTask][p]
  /\ \A p \in 1..StackPages : e.name = KSUSPSTK[p] => e.phys_addr = StackOf[InitTask][p]
  /\ e.name = KSUSPTASK => e.phys_addr = TaskAt[InitTask]

(* Steps of msm_minidump_log_init that add regions of the given names, and
   the other ones. *)
AddSteps(names) == [op : {"add"}, e : {e \in Regions : e.name \in names /\ FirstRegistered(e)}]
PlainSteps(ops) == [op : ops, e : {NoRegion}]

(* All that msm_minidump_log_init names, but for the dump. *)
LogNames == {KMSG} \cup StackNames \cup SuspendNames \cup OtherNames

LogSteps == AddSteps(LogNames)
              \cup PlainSteps({"hook", "flag", "ipi", "wait", "susp", "modules", "dump"})

(* What the order of the steps is good for. *)
Before(a, b) ==
  /\ a.op # "dump"
  /\ a.op = "flag" => b.e.name \notin StackNames /\ b.op # "hook"
  /\ a.op = "ipi" => b.op # "flag"
  /\ a.op = "susp" => b.e.name \notin SuspendNames
  /\ b.e.name # KMSG

(* A list has such a step. *)
Has(s, op) == \E i \in 1..Len(s) : s[i].op = op

(* A list in that order. *)
Ordered(s) == \A i, j \in 1..Len(s) : i < j => Before(s[i], s[j])

(* What the log updates, and what it adds for a key module. *)
Moves == {e \in Regions : e.name \in UpdatedNames}
ModuleRegions == {e \in Regions : e.name \in ModuleNames}

(* What is still to be done. *)
TodoInv ==
  /\ todo \in Seq(LogSteps) /\ Ordered(todo)
  /\ current \in [CPUs -> Tasks \cup {IdleTask}]
  /\ upd \in [CPUs -> Seq(Moves)] /\ susp \in Seq(Moves)
  /\ module_todo \in Seq(ModuleRegions)

(* Nothing that is ever removed is in the table. *)
NoDumpYet == EntrySlots(DumpName) = {} /\ first_removed_entry = INT_MAX

(* What is updated was registered before what is removed. *)
KeptInv ==
  \A n \in UpdatedNames : regno[n] # NotRegistered =>
    /\ Enabled /\ regno[n] \in 0..num_regions - 1 /\ entry[regno[n]].name = n
    /\ regno[n] < first_removed_entry
    /\ \A k \in EntrySlots(DumpName) : regno[n] < k

(* Where the memory dump may be. *)
DumpPlaces == {e.phys_addr : e \in DumpRegions}

(* Nothing else is there. *)
ApartInv ==
  Enabled => \A i \in 0..num_regions - 1 :
    entry[i].name \in Names => (entry[i].name = DumpName <=> entry[i].phys_addr \in DumpPlaces)

(* Before the drain is over there are only regions of other drivers. *)
EarlyInv ==
  ~Enabled =>
    /\ pending_list \in Seq(ClientRegions)
    /\ \A i \in 0..num_regions - 1 : entry[i] \in ClientRegions \cup {NoRegion}

(* No update has failed, and removes only after an overlap or a drained region. *)
CallFaults ==
  /\ "update" \notin faults
  /\ "remove" \in faults => faults \cap {"overlap", "early"} # {}

(* What the log relies on in the driver's tables. *)
TableInv == KeptInv /\ ApartInv /\ EarlyInv /\ CallFaults

-----------------------------------------------------------------------------
(* What a call of the driver does to names and slots. *)
LEMMA AddEffect ==
  ASSUME IndInv, NEW e \in Regions, AddRegion(e)
  PROVE  /\ Enabled /\ Enabled' /\ num_regions \in Nat /\ num_regions' = num_regions + 1
         /\ num_regions < MAX_NUM_ENTRIES
         /\ entry'[num_regions] = e
         /\ \A i \in 0..num_regions - 1 : entry'[i] = entry[i]
         /\ regno'[e.name] = num_regions
         /\ \A n \in Names : n # e.name => regno'[n] = regno[n]
         /\ first_removed_entry' = first_removed_entry
         /\ e.name \in Names /\ EntrySlots(e.name) = {} /\ EntrySlots(e.name)' = {num_regions}
         /\ \A n : n # e.name => EntrySlots(n)' = EntrySlots(n)
  <1> DEFINE N == num_regions
  <1>1. Enabled /\ Enabled' /\ N \in Nat /\ N < MAX_NUM_ENTRIES /\ N' = N + 1
    BY MaxAssumption DEF AddRegion, CanAdd, Enabled, IndInv, TypeOK
  <1>2. entry'[N] = e /\ \A i \in 0..N - 1 : entry'[i] = entry[i]
    BY <1>1, MaxAssumption DEF AddRegion, IndInv, TypeOK, Slots
  <1>3. e.name \in Names /\ regno' = [regno EXCEPT ![e.name] = N] /\ regno \in [Names -> -1..MAX_NUM_ENTRIES - 1]
    BY RegionsAssumption DEF AddRegion, IndInv, TypeOK, Region
  <1>4. /\ regno'[e.name] = N /\ \A n \in Names : n # e.name => regno'[n] = regno[n]
        /\ first_removed_entry' = first_removed_entry /\ EntrySlots(e.name) = {}
    BY <1>3 DEF AddRegion, CanAdd
  <1>5. EntrySlots(e.name)' = {N}
    BY <1>1, <1>2, <1>4 DEF EntrySlots
  <1>6. ASSUME NEW n, n # e.name PROVE EntrySlots(n)' = EntrySlots(n)
    BY <1>1, <1>2, <1>6 DEF EntrySlots
  <1> QED
    BY <1>1, <1>2, <1>3, <1>4, <1>5, <1>6

(* An update of a region whose slot no remove has moved. *)
LEMMA UpdateEffect ==
  ASSUME IndInv, NEW e \in Regions, UpdateRegion(e), regno[e.name] < first_removed_entry
  PROVE  LET r == regno[e.name]
         IN /\ Enabled /\ Enabled' /\ num_regions' = num_regions /\ num_regions \in Nat
            /\ e.name \in Names /\ r \in 0..num_regions - 1 /\ entry[r].name = e.name
            /\ CanUpdate(r, e.name)
            /\ entry'[r].phys_addr = e.phys_addr
            /\ \A i \in 0..num_regions - 1 : entry'[i].name = entry[i].name
            /\ \A i \in 0..num_regions - 1 : i # r => entry'[i] = entry[i]
            /\ UNCHANGED <<regno, first_removed_entry, pending_list>>
            /\ faults' \subseteq faults \cup {"alias"} /\ faults \subseteq faults'
            /\ \A n : EntrySlots(n)' = EntrySlots(n)
  <1> DEFINE r == regno[e.name]
             N == num_regions
  <1>1. /\ Enabled /\ Enabled' /\ N' = N /\ N \in Nat /\ N <= MAX_NUM_ENTRIES /\ e.name \in Names
        /\ r # NotRegistered /\ UNCHANGED <<regno, first_removed_entry, pending_list>>
    BY RegionsAssumption, MaxAssumption
       DEF UpdateRegion, MdInitDone, Enabled, IndInv, TypeOK, Region
  <1>2. r \in -1..MAX_NUM_ENTRIES - 1 /\ r \in Nat
    BY <1>1 DEF IndInv, TypeOK, NotRegistered
  <1>3. r \in 0..N - 1 /\ entry[r].name = e.name
    BY <1>1, <1>2 DEF IndInv, NumbersStayValid
  <1>4. CanUpdate(r, e.name)
    BY <1>1, <1>3 DEF CanUpdate, EntrySlots
  <1>5. /\ entry' = [entry EXCEPT ![r].virt_addr = e.virt_addr, ![r].phys_addr = e.phys_addr]
        /\ faults' = faults \cup AliasFault([entry[r] EXCEPT !.phys_addr = e.phys_addr])
    BY <1>4 DEF UpdateRegion
  <1>6. entry[r] \in Region \cup {NoRegion} /\ entry \in [Slots -> Region \cup {NoRegion}] /\ r \in Slots
    BY <1>1, <1>3, MaxAssumption DEF IndInv, TypeOK, Slots
  <1>7. entry'[r].phys_addr = e.phys_addr /\ entry'[r].name = entry[r].name
    BY <1>5, <1>6 DEF Region, NoRegion
  <1>8. \A i \in 0..N - 1 : i # r => entry'[i] = entry[i]
    BY <1>1, <1>5, <1>6, MaxAssumption DEF Slots
  <1>9. \A i \in 0..N - 1 : entry'[i].name = entry[i].name
    BY <1>7, <1>8
  <1>10. \A n : EntrySlots(n)' = EntrySlots(n)
    BY <1>1, <1>9 DEF EntrySlots
  <1>11. faults' \subseteq faults \cup {"alias"} /\ faults \subseteq faults'
    BY <1>5 DEF AliasFault
  <1> HIDE DEF r
  <1> QED
    BY <1>1, <1>3, <1>4, <1>7, <1>8, <1>9, <1>10, <1>11 DEF r

(* A remove moves only what was behind the region. *)
LEMMA RemoveEffect ==
  ASSUME IndInv, NEW n \in Names, EntrySlots(n) # {}, RemoveRegion(GetRegion(n))
  PROVE  /\ Enabled /\ Enabled' /\ num_regions \in Nat
         /\ num_regions' \in {num_regions, num_regions - 1}
         /\ UNCHANGED <<regno, pending_list>>
         /\ EntrySlots(n)' = {}
         /\ \A m \in Names : m # n /\ EntrySlots(m) # {} => EntrySlots(m)' # {}
         /\ \A m \in Names : EntrySlots(m) = {} => EntrySlots(m)' = {}
         /\ \E k \in 0..num_regions - 1 :
              /\ EntrySlots(n) = {k} /\ entry[k] = GetRegion(n) /\ entry[k].name = n
              /\ first_removed_entry' = FirstRemoved(k)
              /\ \A i \in 0..num_regions' - 1 :
                   \/ entry'[i] = NoRegion
                   \/ \E j \in 0..num_regions - 1 : j # k /\ entry'[i] = entry[j]
              /\ \A i \in 0..k - 1 : i \in 0..num_regions' - 1 /\ entry'[i] = entry[i]
  <1> DEFINE N == num_regions
  <1>1. Enabled /\ Enabled' /\ N \in Nat /\ N <= MAX_NUM_ENTRIES
    BY DEF RemoveRegion, MdInitDone, Enabled, IndInv, TypeOK
  <1>2. PICK k \in 0..N - 1 : /\ entry[k].name = n
                              /\ EntrySlots(n) = {k} /\ Min(EntrySlots(n)) = k
    BY <1>1, OneSlotPerName
  <1>3. GetRegion(n).name = n /\ GetRegion(n) = entry[k]
    BY <1>2 DEF GetRegion
  <1>4. entry' = RemoveSlot(entry, k, N, NoRegion) /\ first_removed_entry' = FirstRemoved(k)
    BY <1>2, <1>3 DEF RemoveRegion
  <1>5. ASSUME NEW i \in 0..N - 1
        PROVE  entry'[i] = IF i = N - 1 THEN NoRegion
                           ELSE IF k <= i THEN entry[i + 1] ELSE entry[i]
    <2>1. i \in DOMAIN entry /\ (i # N - 1 => i < N - 1)
      BY <1>1, MaxAssumption DEF IndInv, TypeOK, Slots
    <2> QED
      BY <2>1, <1>1, <1>4 DEF RemoveSlot
  <1>6. num_regions' \in {N, N - 1} /\ UNCHANGED <<regno, pending_list>>
    BY DEF RemoveRegion
  <1>7. /\ 0..num_regions' - 1 \subseteq 0..N - 1 /\ 0..N - 2 \subseteq 0..num_regions' - 1
        /\ num_regions' \in Int
    <2>1. CASE num_regions' = N
      BY <1>1, <2>1
    <2>2. CASE num_regions' = N - 1
      BY <1>1, <2>2
    <2> QED
      BY <1>6, <2>1, <2>2
  <1>8. ASSUME NEW i \in 0..num_regions' - 1
        PROVE  \/ entry'[i] = NoRegion
               \/ \E j \in 0..N - 1 : j # k /\ entry'[i] = entry[j]
    <2>1. i \in 0..N - 1
      BY <1>1, <1>7
    <2>2. CASE i = N - 1
      BY <1>5, <2>1, <2>2
    <2>3. CASE i # N - 1 /\ k <= i
      <3>1. i + 1 \in 0..N - 1 /\ i + 1 # k
        BY <1>1, <2>1, <2>3
      <3> QED
        BY <1>5, <2>1, <2>3, <3>1
    <2>4. CASE i # N - 1 /\ ~(k <= i)
      <3>1. i # k
        BY <2>4
      <3> QED
        BY <1>5, <2>1, <2>4, <3>1
    <2> QED
      BY <2>2, <2>3, <2>4
  <1>9. ASSUME NEW i \in 0..k - 1 PROVE i \in 0..num_regions' - 1 /\ entry'[i] = entry[i]
    <2>1. i \in 0..N - 2 /\ i \in 0..N - 1 /\ i # N - 1 /\ ~(k <= i)
      BY <1>1
    <2> QED
      BY <1>5, <1>7, <2>1
  <1>10. ASSUME NEW m \in Names, NEW i \in EntrySlots(m)' PROVE m # n /\ EntrySlots(m) # {}
    <2>1. i \in 0..num_regions' - 1 /\ entry'[i].name = m
      BY DEF EntrySlots
    <2>2. entry'[i] # NoRegion
      BY <2>1, NamesAssumption DEF NoRegion
    <2>3. PICK j \in 0..N - 1 : j # k /\ entry'[i] = entry[j]
      BY <1>8, <2>1, <2>2
    <2>4. j \in EntrySlots(m)
      BY <2>1, <2>3 DEF EntrySlots
    <2> QED
      BY <1>2, <2>3, <2>4
  <1>11. ASSUME NEW m \in Names, m # n, NEW j \in EntrySlots(m) PROVE EntrySlots(m)' # {}
    <2>1. j \in 0..N - 1 /\ entry[j].name = m /\ j # k
      BY <1>2, <1>11 DEF EntrySlots
    <2> DEFINE i == IF k < j THEN j - 1 ELSE j
    <2>2. i \in 0..N - 2 /\ i \in 0..N - 1 /\ i # N - 1 /\ (IF k <= i THEN i + 1 ELSE i) = j
      BY <1>1, <2>1
    <2>3. entry'[i] = entry[j] /\ i \in 0..num_regions' - 1
      BY <1>1, <1>5, <1>7, <2>2
    <2> QED
      BY <2>1, <2>3 DEF EntrySlots
  <1> QED
    BY <1>1, <1>2, <1>3, <1>4, <1>6, <1>8, <1>9, <1>10, <1>11

(* The log's names. *)
LEMMA NameFacts ==
  ASSUME NamesApart
  PROVE  /\ UpdatedNames \subseteq Names /\ StackNames \subseteq Names /\ ModuleNames \subseteq Names
         /\ DumpName \in Names /\ KMSG \in Names /\ KSUSPTASK \in Names
         /\ NoName \notin Names
         /\ DumpName \notin UpdatedNames \cup ModuleNames \cup OtherNames \cup {KMSG}
         /\ KMSG \notin UpdatedNames \cup ModuleNames \cup OtherNames
         /\ UpdatedNames \cap (ModuleNames \cup OtherNames) = {}
         /\ ModuleNames \cap OtherNames = {} /\ StackNames \cap SuspendNames = {}
         /\ \A c \in CPUs, p \in 1..StackPages : KSTACK[c][p] \in StackNames
         /\ \A p \in 1..StackPages : KSUSPSTK[p] \in SuspendNames
         /\ \A p \in 1..ModulePages : ModuleName[p] \in ModuleNames
         /\ KSUSPTASK \in SuspendNames
         /\ StackNames \subseteq UpdatedNames /\ SuspendNames \subseteq UpdatedNames
  <1>1. \A c \in CPUs, p \in 1..StackPages : KSTACK[c][p] \in Names
    BY LogAssumption
  <1>2. \A p \in 1..StackPages : KSUSPSTK[p] \in Names
    BY LogAssumption
  <1>3. \A p \in 1..ModulePages : ModuleName[p] \in Names
    BY LogAssumption
  <1>4. {DumpName, KMSG, KSUSPTASK} \subseteq Names
    BY LogAssumption
  <1>5. /\ \A c \in CPUs, p \in 1..StackPages : KSTACK[c][p] \in StackNames
        /\ \A p \in 1..StackPages : KSUSPSTK[p] \in SuspendNames
        /\ \A p \in 1..ModulePages : ModuleName[p] \in ModuleNames
        /\ KSUSPTASK \in SuspendNames
    BY DEF StackNames, SuspendNames, ModuleNames
  <1>6. StackNames \subseteq Names /\ SuspendNames \subseteq Names /\ ModuleNames \subseteq Names
    BY <1>1, <1>2, <1>3, <1>4 DEF StackNames, SuspendNames, ModuleNames
  <1>7. /\ DumpName # KMSG /\ StackNames \cap SuspendNames = {}
        /\ {KMSG, DumpName} \cap (StackNames \cup SuspendNames \cup ModuleNames \cup OtherNames) = {}
        /\ (ModuleNames \cup OtherNames) \cap (StackNames \cup SuspendNames) = {}
        /\ ModuleNames \cap OtherNames = {}
    BY DEF NamesApart
  <1> QED
    BY <1>4, <1>5, <1>6, <1>7, NamesAssumption DEF UpdatedNames

(* A region is added, and not one that is updated when a dump is there. *)
LEMMA AddTableInv ==
  ASSUME NamesApart, DumpApart, IndInv, TableInv, NEW e \in Regions, AddRegion(e),
         e.name \in UpdatedNames => NoDumpYet,
         e.name = DumpName => e \in DumpRegions
  PROVE  TableInv'
  <1> DEFINE N == num_regions
  <1>1. /\ Enabled /\ Enabled' /\ N \in Nat /\ N' = N + 1 /\ N < MAX_NUM_ENTRIES
        /\ entry'[N] = e /\ \A i \in 0..N - 1 : entry'[i] = entry[i]
        /\ regno'[e.name] = N /\ \A n \in Names : n # e.name => regno'[n] = regno[n]
        /\ first_removed_entry' = first_removed_entry /\ e.name \in Names
        /\ EntrySlots(e.name) = {} /\ EntrySlots(e.name)' = {N}
        /\ \A n : n # e.name => EntrySlots(n)' = EntrySlots(n)
    BY AddEffect
  <1>2. KeptInv'
    <2> SUFFICES ASSUME NEW n \in UpdatedNames, regno'[n] # NotRegistered
                 PROVE  /\ Enabled' /\ regno'[n] \in 0..N' - 1 /\ entry'[regno'[n]].name = n
                        /\ regno'[n] < first_removed_entry'
                        /\ \A k \in EntrySlots(DumpName)' : regno'[n] < k
      BY DEF KeptInv, EntrySlots
    <2>1. CASE n = e.name
      <3>1. EntrySlots(DumpName)' = {} /\ first_removed_entry' = INT_MAX
        BY <1>1, <2>1, NameFacts DEF NoDumpYet
      <3> QED
        BY <1>1, <2>1, <3>1, MaxAssumption DEF INT_MAX
    <2>2. CASE n # e.name
      <3>1. /\ regno'[n] = regno[n] /\ regno[n] \in 0..N - 1 /\ entry[regno[n]].name = n
            /\ regno[n] < first_removed_entry /\ \A k \in EntrySlots(DumpName) : regno[n] < k
        BY <1>1, <2>2, NameFacts DEF TableInv, KeptInv
      <3>2. EntrySlots(DumpName)' = EntrySlots(DumpName) \/ EntrySlots(DumpName)' = {N}
        BY <1>1
      <3> QED
        BY <1>1, <3>1, <3>2
    <2> QED
      BY <2>1, <2>2
  <1>3. ApartInv'
    <2> SUFFICES ASSUME NEW i \in 0..N, entry'[i].name \in Names
                 PROVE  entry'[i].name = DumpName <=> entry'[i].phys_addr \in DumpPlaces
      BY <1>1 DEF ApartInv, DumpPlaces
    <2>1. CASE i = N
      <3>1. e.name = DumpName => e.phys_addr \in DumpPlaces
        BY DEF DumpPlaces
      <3>2. e.name # DumpName => e.phys_addr \notin DumpPlaces
        BY DEF DumpPlaces, DumpApart
      <3> QED
        BY <1>1, <2>1, <3>1, <3>2
    <2>2. CASE i \in 0..N - 1
      BY <1>1, <2>2 DEF TableInv, ApartInv
    <2> QED
      BY <1>1, <2>1, <2>2
  <1>4. CallFaults'
    <2>1. faults \subseteq faults' /\ faults' \subseteq faults \cup {"alias", "overlap"}
      BY DEF AddRegion, AliasFault
    <2> QED
      BY <2>1 DEF TableInv, CallFaults
  <1>5. EarlyInv'
    BY <1>1 DEF EarlyInv
  <1> QED
    BY <1>2, <1>3, <1>4, <1>5 DEF TableInv

(* A region that is updated is moved, and the update is not refused. *)
LEMMA UpdateTableInv ==
  ASSUME NamesApart, DumpApart, IndInv, TableInv, NEW e \in Moves, UpdateRegion(e)
  PROVE  /\ TableInv' /\ regno[e.name] < first_removed_entry /\ e \in Regions
  <1> DEFINE r == regno[e.name]
             N == num_regions
  <1>0. e \in Regions /\ e.name \in UpdatedNames /\ r # NotRegistered
    BY DEF Moves, UpdateRegion
  <1>1. r < first_removed_entry
    BY <1>0 DEF TableInv, KeptInv
  <1>2. /\ Enabled /\ Enabled' /\ N' = N /\ N \in Nat
        /\ e.name \in Names /\ r \in 0..N - 1 /\ entry[r].name = e.name
        /\ entry'[r].phys_addr = e.phys_addr
        /\ \A i \in 0..N - 1 : entry'[i].name = entry[i].name
        /\ \A i \in 0..N - 1 : i # r => entry'[i] = entry[i]
        /\ UNCHANGED <<regno, first_removed_entry, pending_list>>
        /\ faults' \subseteq faults \cup {"alias"} /\ faults \subseteq faults'
        /\ \A n : EntrySlots(n)' = EntrySlots(n)
    BY <1>0, <1>1, UpdateEffect
  <1> HIDE DEF r
  <1>3. KeptInv'
    <2> SUFFICES ASSUME NEW n \in UpdatedNames, regno[n] # NotRegistered
                 PROVE  /\ Enabled' /\ regno[n] \in 0..N - 1 /\ entry'[regno[n]].name = n
                        /\ regno[n] < first_removed_entry
                        /\ \A k \in EntrySlots(DumpName) : regno[n] < k
      BY <1>2 DEF KeptInv
    <2> QED
      BY <1>2 DEF TableInv, KeptInv
  <1>4. ApartInv'
    <2> SUFFICES ASSUME NEW i \in 0..N - 1, entry'[i].name \in Names
                 PROVE  entry'[i].name = DumpName <=> entry'[i].phys_addr \in DumpPlaces
      BY <1>2 DEF ApartInv, DumpPlaces
    <2>1. CASE i = r
      <3>1. e.name # DumpName /\ e.phys_addr \notin DumpPlaces
        BY <1>0, NameFacts DEF DumpApart, DumpPlaces
      <3> QED
        BY <1>2, <2>1, <3>1
    <2>2. CASE i # r
      BY <1>2, <2>2 DEF TableInv, ApartInv
    <2> QED
      BY <2>1, <2>2
  <1>5. CallFaults' /\ EarlyInv'
    BY <1>2 DEF TableInv, CallFaults, EarlyInv
  <1> QED
    BY <1>0, <1>1, <1>3, <1>4, <1>5 DEF TableInv, r

(* The dump is removed, and its headers are found. *)
LEMMA RemoveTableInv ==
  ASSUME NamesApart, IndInv, FaultsInv, TableInv,
         EntrySlots(DumpName) # {}, RemoveRegion(GetRegion(DumpName))
  PROVE  TableInv'
  <1> DEFINE N == num_regions
  <1>0. DumpName \in Names
    BY NameFacts
  <1>1. /\ Enabled /\ Enabled' /\ N \in Nat /\ UNCHANGED <<regno, pending_list>>
        /\ EntrySlots(DumpName)' = {}
    BY <1>0, RemoveEffect
  <1>2. PICK k \in 0..N - 1 :
          /\ EntrySlots(DumpName) = {k} /\ entry[k] = GetRegion(DumpName) /\ entry[k].name = DumpName
          /\ first_removed_entry' = FirstRemoved(k)
          /\ \A i \in 0..N' - 1 : \/ entry'[i] = NoRegion
                                  \/ \E j \in 0..N - 1 : j # k /\ entry'[i] = entry[j]
          /\ \A i \in 0..k - 1 : i \in 0..N' - 1 /\ entry'[i] = entry[i]
    BY <1>0, RemoveEffect
  <1>3. KeptInv'
    <2> SUFFICES ASSUME NEW n \in UpdatedNames, regno[n] # NotRegistered
                 PROVE  /\ regno[n] \in 0..N' - 1 /\ entry'[regno[n]].name = n
                        /\ regno[n] < first_removed_entry'
      BY <1>1 DEF KeptInv
    <2>1. regno[n] \in 0..k - 1 /\ entry[regno[n]].name = n /\ regno[n] < first_removed_entry
      BY <1>2 DEF TableInv, KeptInv
    <2> QED
      BY <1>2, <2>1 DEF FirstRemoved
  <1>4. ApartInv'
    <2> SUFFICES ASSUME NEW i \in 0..N' - 1, entry'[i].name \in Names
                 PROVE  entry'[i].name = DumpName <=> entry'[i].phys_addr \in DumpPlaces
      BY <1>1 DEF ApartInv, DumpPlaces
    <2>1. entry'[i] # NoRegion
      BY NameFacts DEF NoRegion
    <2> QED
      BY <1>1, <1>2, <2>1 DEF TableInv, ApartInv
  <1>5. ASSUME faults \cap {"overlap", "early"} = {}
        PROVE  CanClearHeaders(elf, GetRegion(DumpName))
    <2>1. ~ElfDisturbed
      BY <1>5 DEF TableInv, CallFaults, ElfDisturbed
    <2>2. /\ WellFormed(elf, N) /\ DistinctRows(elf, N) /\ N <= MAX_NUM_ENTRIES
          /\ \A i \in 0..N - 1 : Row(elf, i) = entry[i] /\ entry[i].name \in Names
          /\ \A i, j \in 0..N - 1 : entry[i].name = entry[j].name => i = j
      BY <1>1, <2>1, UndisturbedRows DEF FaultsInv, ElfInv
    <2>3. ASSUME NEW i \in 0..N - 1, i # k PROVE Row(elf, i).phys_addr # Row(elf, k).phys_addr
      <3>1. entry[i].name # DumpName
        BY <1>2, <2>2, <2>3
      <3> QED
        BY <1>1, <1>2, <2>2, <3>1 DEF TableInv, ApartInv
    <2> QED
      BY <1>1, <1>2, <2>2, <2>3, ClearPossible
  <1>6. CallFaults'
    <2>1. \/ faults' = faults
          \/ faults \cap {"overlap", "early"} # {} /\ faults' = faults \cup {"remove"}
      BY <1>5 DEF RemoveRegion
    <2> QED
      BY <2>1 DEF TableInv, CallFaults
  <1>7. EarlyInv'
    BY <1>1 DEF EarlyInv
  <1> QED
    BY <1>3, <1>4, <1>6, <1>7 DEF TableInv

-----------------------------------------------------------------------------
(* The first element of a sequence and the rest. *)
LEMMA TailFacts ==
  ASSUME NEW S, NEW s \in Seq(S), s # <<>>
  PROVE  /\ Head(s) \in S /\ Head(s) = s[1] /\ Tail(s) \in Seq(S)
         /\ Len(s) \in Nat /\ Len(s) >= 1 /\ Len(Tail(s)) = Len(s) - 1
         /\ \A i \in 1..Len(s) - 1 : Tail(s)[i] = s[i + 1]
         /\ \A i \in 1..Len(s) : s[i] \in S
         /\ \A i \in 1..Len(s) : s[i] = Head(s) \/ \E j \in 1..Len(Tail(s)) : Tail(s)[j] = s[i]
         /\ \A j \in 1..Len(Tail(s)) : \E i \in 2..Len(s) : Tail(s)[j] = s[i]
  <1>1. /\ Head(s) \in S /\ Head(s) = s[1] /\ Tail(s) \in Seq(S)
        /\ Len(s) \in Nat /\ Len(s) >= 1 /\ Len(Tail(s)) = Len(s) - 1
        /\ \A i \in 1..Len(s) : s[i] \in S
    OBVIOUS
  <1>2. \A i \in 1..Len(s) - 1 : Tail(s)[i] = s[i + 1]
    OBVIOUS
  <1>3. ASSUME NEW i \in 1..Len(s) PROVE s[i] = Head(s) \/ \E j \in 1..Len(Tail(s)) : Tail(s)[j] = s[i]
    <2>1. CASE i = 1
      BY <1>1, <2>1
    <2>2. CASE i # 1
      <3>1. i - 1 \in 1..Len(s) - 1 /\ (i - 1) + 1 = i
        BY <1>1, <2>2
      <3>2. Tail(s)[i - 1] = s[i]
        BY <1>2, <3>1
      <3> QED
        BY <1>1, <3>1, <3>2
    <2> QED
      BY <2>1, <2>2
  <1>4. ASSUME NEW j \in 1..Len(Tail(s)) PROVE \E i \in 2..Len(s) : Tail(s)[j] = s[i]
    <2>1. j + 1 \in 2..Len(s) /\ Tail(s)[j] = s[j + 1]
      BY <1>1, <1>2
    <2> QED
      BY <2>1
  <1> QED
    BY <1>1, <1>2, <1>3, <1>4

(* An ordered list stays so without its first step. *)
LEMMA TailOrdered ==
  ASSUME NEW S, NEW s \in Seq(S), s # <<>>, Ordered(s)
  PROVE  Ordered(Tail(s)) /\ \A j \in 1..Len(Tail(s)) : Before(Head(s), Tail(s)[j])
  <1>1. /\ Head(s) = s[1] /\ Len(s) \in Nat /\ Len(s) >= 1 /\ Len(Tail(s)) = Len(s) - 1
        /\ \A i \in 1..Len(s) - 1 : Tail(s)[i] = s[i + 1]
    BY TailFacts
  <1>2. ASSUME NEW i \in 1..Len(Tail(s)), NEW j \in 1..Len(Tail(s)), i < j
        PROVE  Before(Tail(s)[i], Tail(s)[j])
    <2>1. i + 1 \in 1..Len(s) /\ j + 1 \in 1..Len(s) /\ i + 1 < j + 1
      BY <1>1, <1>2
    <2>2. Before(s[i + 1], s[j + 1])
      BY <2>1 DEF Ordered
    <2> QED
      BY <1>1, <2>2
  <1>3. ASSUME NEW j \in 1..Len(Tail(s)) PROVE Before(Head(s), Tail(s)[j])
    <2>1. 1 \in 1..Len(s) /\ j + 1 \in 1..Len(s) /\ 1 < j + 1
      BY <1>1
    <2>2. Before(s[1], s[j + 1])
      BY <2>1 DEF Ordered
    <2> QED
      BY <1>1, <2>2
  <1> QED
    BY <1>2, <1>3 DEF Ordered

(* What two lists hold, one behind the other. *)
LEMMA JoinFacts ==
  ASSUME NEW S, NEW s \in Seq(S), NEW u \in Seq(S)
  PROVE  /\ \A i \in 1..Len(s \o u) : (\E j \in 1..Len(s) : (s \o u)[i] = s[j])
                                     \/ (\E j \in 1..Len(u) : (s \o u)[i] = u[j])
         /\ \A j \in 1..Len(s) : \E i \in 1..Len(s \o u) : (s \o u)[i] = s[j]
         /\ \A j \in 1..Len(u) : \E i \in 1..Len(s \o u) : (s \o u)[i] = u[j]
  <1>1. /\ Len(s) \in Nat /\ Len(u) \in Nat /\ Len(s \o u) = Len(s) + Len(u)
        /\ \A i \in 1..Len(s) + Len(u) :
             (s \o u)[i] = IF i <= Len(s) THEN s[i] ELSE u[i - Len(s)]
    OBVIOUS
  <1>2. ASSUME NEW i \in 1..Len(s \o u)
        PROVE  (\E j \in 1..Len(s) : (s \o u)[i] = s[j]) \/ (\E j \in 1..Len(u) : (s \o u)[i] = u[j])
    <2>1. CASE i <= Len(s)
      BY <1>1, <2>1
    <2>2. CASE ~(i <= Len(s))
      <3>1. i - Len(s) \in 1..Len(u) /\ (s \o u)[i] = u[i - Len(s)]
        BY <1>1, <2>2
      <3> QED
        BY <3>1
    <2> QED
      BY <2>1, <2>2
  <1>3. ASSUME NEW j \in 1..Len(s) PROVE \E i \in 1..Len(s \o u) : (s \o u)[i] = s[j]
    <2>1. j \in 1..Len(s \o u) /\ (s \o u)[j] = s[j]
      BY <1>1
    <2> QED
      BY <2>1
  <1>4. ASSUME NEW j \in 1..Len(u) PROVE \E i \in 1..Len(s \o u) : (s \o u)[i] = u[j]
    <2>1. j + Len(s) \in 1..Len(s \o u) /\ ~(j + Len(s) <= Len(s)) /\ (j + Len(s)) - Len(s) = j
      BY <1>1
    <2>2. (s \o u)[j + Len(s)] = u[j]
      BY <1>1, <2>1
    <2> QED
      BY <2>1, <2>2
  <1> QED
    BY <1>2, <1>3, <1>4

(* Two ordered lists, one behind the other. *)
LEMMA JoinOrdered ==
  ASSUME NEW S, NEW T, NEW s \in Seq(S), NEW t \in Seq(T), Ordered(s), Ordered(t),
         \A a \in S, b \in T : Before(a, b)
  PROVE  /\ Ordered(s \o t) /\ s \o t \in Seq(S \cup T)
         /\ \A op : Has(s, op) \/ Has(t, op) => Has(s \o t, op)
  <1>1. s \in Seq(S \cup T) /\ t \in Seq(S \cup T)
    OBVIOUS
  <1>2. s \o t \in Seq(S \cup T) /\ Len(s \o t) = Len(s) + Len(t)
        /\ Len(s) \in Nat /\ Len(t) \in Nat
    BY <1>1
  <1>3. ASSUME NEW i \in 1..Len(s \o t)
        PROVE  (s \o t)[i] = IF i <= Len(s) THEN s[i] ELSE t[i - Len(s)]
    BY <1>1, <1>2
  <1>4. ASSUME NEW i \in 1..Len(s \o t), NEW j \in 1..Len(s \o t), i < j
        PROVE  Before((s \o t)[i], (s \o t)[j])
    <2>1. CASE j <= Len(s)
      <3>1. i \in 1..Len(s) /\ j \in 1..Len(s)
        BY <1>2, <1>4, <2>1
      <3> QED
        BY <1>3, <1>4, <3>1, <2>1 DEF Ordered
    <2>2. CASE i <= Len(s) /\ ~(j <= Len(s))
      <3>1. i \in 1..Len(s) /\ j - Len(s) \in 1..Len(t)
        BY <1>2, <2>2
      <3>2. s[i] \in S /\ t[j - Len(s)] \in T
        BY <3>1
      <3>3. (s \o t)[i] = s[i] /\ (s \o t)[j] = t[j - Len(s)]
        BY <1>3, <2>2
      <3> QED
        BY <3>2, <3>3
    <2>3. CASE ~(i <= Len(s))
      <3>1. /\ i - Len(s) \in 1..Len(t) /\ j - Len(s) \in 1..Len(t) /\ i - Len(s) < j - Len(s)
            /\ ~(j <= Len(s))
        BY <1>2, <1>4, <2>3
      <3>2. (s \o t)[i] = t[i - Len(s)] /\ (s \o t)[j] = t[j - Len(s)]
        BY <1>3, <2>3, <3>1
      <3> QED
        BY <3>1, <3>2 DEF Ordered
    <2> QED
      BY <2>1, <2>2, <2>3
  <1>5. ASSUME NEW op, Has(s, op) PROVE Has(s \o t, op)
    <2>1. PICK i \in 1..Len(s) : s[i].op = op
      BY <1>5 DEF Has
    <2>2. i \in 1..Len(s \o t) /\ (s \o t)[i] = s[i]
      BY <1>2, <1>3
    <2> QED
      BY <2>1, <2>2 DEF Has
  <1>6. ASSUME NEW op, Has(t, op) PROVE Has(s \o t, op)
    <2>1. PICK i \in 1..Len(t) : t[i].op = op
      BY <1>6 DEF Has
    <2>2. i + Len(s) \in 1..Len(s \o t) /\ ~(i + Len(s) <= Len(s)) /\ (i + Len(s)) - Len(s) = i
      BY <1>2
    <2>3. (s \o t)[i + Len(s)] = t[i]
      BY <1>3, <2>2
    <2> QED
      BY <2>1, <2>2, <2>3 DEF Has
  <1> QED
    BY <1>2, <1>4, <1>5, <1>6 DEF Ordered

(* Division of positions into CPU and page. *)
LEMMA DivFacts ==
  ASSUME NEW i \in 1..NCpu * StackPages
  PROVE  LET c == (i - 1) \div StackPages
         IN c \in CPUs /\ i - c * StackPages \in 1..StackPages
  <1>1. NCpu \in Nat /\ StackPages \in Nat /\ StackPages > 0 /\ NCpu * StackPages \in Nat
    BY LogAssumption
  <1> DEFINE c == (i - 1) \div StackPages
             r == (i - 1) % StackPages
  <1>2. c \in Int /\ r \in 0..StackPages - 1 /\ i - 1 = StackPages * c + r
    BY <1>1
  <1> HIDE DEF c, r
  <1>3. c >= 0
    <2> SUFFICES ASSUME c <= -1 PROVE FALSE
      BY <1>2
    <2>1. StackPages * c <= -StackPages
      BY <1>1, <1>2
    <2> QED
      BY <1>1, <1>2, <2>1
  <1>4. c < NCpu
    <2> SUFFICES ASSUME NCpu <= c PROVE FALSE
      BY <1>1, <1>2
    <2>1. NCpu * StackPages <= StackPages * c
      BY <1>1, <1>2
    <2> QED
      BY <1>1, <1>2, <2>1
  <1>5. c * StackPages = StackPages * c
    BY <1>1, <1>2
  <1> QED
    BY <1>1, <1>2, <1>3, <1>4, <1>5 DEF c, CPUs

(* A list of adds is ordered if it does not add KMSG. *)
LEMMA AddsOrdered ==
  ASSUME NEW names, NEW es \in Seq(Regions), \A i \in 1..Len(es) : es[i].name \in names,
         \A i \in 1..Len(es) : FirstRegistered(es[i]), KMSG \notin names
  PROVE  Adds(es) \in Seq(AddSteps(names)) /\ Ordered(Adds(es))
  <1>1. Len(es) \in Nat /\ DOMAIN es = 1..Len(es) /\ \A i \in 1..Len(es) : es[i] \in Regions
    OBVIOUS
  <1>2. Adds(es) = [i \in 1..Len(es) |-> [op |-> "add", e |-> es[i]]]
    BY <1>1 DEF Adds
  <1>3. \A i \in 1..Len(es) : [op |-> "add", e |-> es[i]] \in AddSteps(names)
    BY <1>1 DEF AddSteps
  <1>4. Adds(es) \in Seq(AddSteps(names)) /\ Len(Adds(es)) = Len(es)
    BY <1>1, <1>2, <1>3
  <1>5. \A i \in 1..Len(es) : Adds(es)[i].op = "add" /\ Adds(es)[i].e.name # KMSG
    BY <1>2
  <1> QED
    BY <1>4, <1>5 DEF Ordered, Before

(* So is a list of one step. *)
LEMMA StepOrdered ==
  ASSUME NEW op
  PROVE  <<Step(op)>> \in Seq(PlainSteps({op})) /\ Ordered(<<Step(op)>>)
  <1>1. Step(op) \in PlainSteps({op})
    BY DEF Step, PlainSteps
  <1>2. <<Step(op)>> \in Seq(PlainSteps({op})) /\ Len(<<Step(op)>>) = 1
    BY <1>1
  <1> QED
    BY <1>2 DEF Ordered

(* A sequence over a set is one over any larger set. *)
LEMMA SeqSubset ==
  ASSUME NEW S, NEW T, S \subseteq T, NEW s \in Seq(S)
  PROVE  s \in Seq(T)
  OBVIOUS

(* register_current_stack: the stacks before the hook, the flag, the interrupt. *)
LEMMA StackPartOrdered ==
  ASSUME RegionsKnown, NamesApart
  PROVE  /\ StackPart \in Seq(AddSteps(StackNames) \cup PlainSteps({"hook", "flag", "ipi", "wait"}))
         /\ Ordered(StackPart)
         /\ Has(StackPart, "hook") /\ Has(StackPart, "flag") /\ Has(StackPart, "ipi")
  <1> DEFINE A == AddSteps(StackNames)
             es == CpuStackRegions
             s == Adds(es)
             t == <<Step("hook"), Step("flag"), Step("ipi"), Step("wait")>>
             T == PlainSteps({"hook", "flag", "ipi", "wait"})
  <1>1. ASSUME NEW i \in 1..NCpu * StackPages
        PROVE  es[i] \in Regions /\ es[i].name \in StackNames /\ FirstRegistered(es[i])
    <2> DEFINE c == (i - 1) \div StackPages
               p == i - c * StackPages
    <2>1. c \in CPUs /\ p \in 1..StackPages
      BY DivFacts
    <2>2. es[i] = StackRegions(KSTACK[c], InitTask)[p]
      BY DEF CpuStackRegions
    <2> HIDE DEF c, p, es
    <2>3. es[i] = PageRegion(KSTACK[c][p], StackOf[InitTask][p])
      BY <2>1, <2>2 DEF StackRegions
    <2>4. es[i] \in Regions
      BY <2>1, <2>3, LogAssumption DEF RegionsKnown
    <2>5. es[i].name = KSTACK[c][p] /\ es[i].phys_addr = StackOf[InitTask][p]
      BY <2>3 DEF PageRegion
    <2>6. KSTACK[c][p] \in StackNames /\ KSTACK[c][p] \notin SuspendNames
      BY <2>1, NameFacts
    <2>7. FirstRegistered(es[i])
      BY <2>1, <2>5, <2>6 DEF FirstRegistered, NamesApart, SuspendNames
    <2> QED
      BY <2>4, <2>5, <2>6, <2>7
  <1>2. NCpu * StackPages \in Nat
    BY LogAssumption
  <1>3. es \in Seq(Regions) /\ Len(es) = NCpu * StackPages
    <2>1. es = [i \in 1..NCpu * StackPages |-> es[i]]
      BY DEF CpuStackRegions
    <2> HIDE DEF es
    <2> QED
      BY <1>1, <1>2, <2>1
  <1>4. s \in Seq(A) /\ Ordered(s)
    <2> HIDE DEF es
    <2> QED
      BY <1>1, <1>3, AddsOrdered, NameFacts
  <1>5. t \in Seq(T) /\ Ordered(t) /\ Has(t, "hook") /\ Has(t, "flag") /\ Has(t, "ipi")
    <2>1. \A op \in {"hook", "flag", "ipi", "wait"} :
            /\ Step(op) \in T /\ Step(op).op = op /\ Step(op).e.name \notin StackNames
            /\ Step(op).e.name # KMSG /\ Step(op).e.name \notin SuspendNames
      BY NameFacts DEF Step, PlainSteps, NoRegion
    <2>2. t \in Seq(T) /\ Len(t) = 4
      BY <2>1
    <2>3. /\ t[1] = Step("hook") /\ t[2] = Step("flag") /\ t[3] = Step("ipi") /\ t[4] = Step("wait")
      OBVIOUS
    <2> HIDE DEF t
    <2>4. ASSUME NEW i \in 1..4, NEW j \in 1..4, i < j PROVE Before(t[i], t[j])
      <3>1. /\ t[1].op = "hook" /\ t[2].op = "flag" /\ t[3].op = "ipi" /\ t[4].op = "wait"
            /\ \A m \in 1..4 : t[m].e.name \notin StackNames /\ t[m].e.name # KMSG
                               /\ t[m].e.name \notin SuspendNames
        BY <2>1, <2>3
      <3> QED
        BY <2>4, <3>1 DEF Before
    <2>5. Has(t, "hook") /\ Has(t, "flag") /\ Has(t, "ipi")
      BY <2>1, <2>2, <2>3 DEF Has
    <2> QED
      BY <2>2, <2>4, <2>5 DEF Ordered
  <1>6. \A a \in A, b \in T : Before(a, b)
    BY NameFacts DEF AddSteps, PlainSteps, Before, NoRegion
  <1> HIDE DEF s, t, A, T
  <1>7. /\ Ordered(s \o t) /\ s \o t \in Seq(A \cup T)
        /\ Has(s \o t, "hook") /\ Has(s \o t, "flag") /\ Has(s \o t, "ipi")
    BY <1>4, <1>5, <1>6, JoinOrdered
  <1> QED
    BY <1>7 DEF StackPart, s, t, A, T

(* register_suspend_context: the regions before the flag. *)
LEMMA SuspendPartOrdered ==
  ASSUME RegionsKnown, NamesApart
  PROVE  /\ SuspendPart \in Seq(AddSteps(SuspendNames) \cup PlainSteps({"susp"}))
         /\ Ordered(SuspendPart)
  <1> DEFINE A == AddSteps(SuspendNames)
             es == StackRegions(KSUSPSTK, InitTask)
             s == Adds(es)
             t == Adds(<<TaskRegion(InitTask)>>)
             u == <<Step("susp")>>
  <1>1. /\ StackPages \in Nat
        /\ \A p \in 1..StackPages : es[p] \in Regions /\ es[p].name \in SuspendNames
                                    /\ FirstRegistered(es[p])
    <2>1. \A p \in 1..StackPages : es[p] = PageRegion(KSUSPSTK[p], StackOf[InitTask][p])
      BY DEF StackRegions
    <2> HIDE DEF es
    <2>2. \A p \in 1..StackPages : /\ es[p] \in Regions /\ es[p].name = KSUSPSTK[p]
                                   /\ es[p].phys_addr = StackOf[InitTask][p]
      <3>1. \A p \in 1..StackPages : PageRegion(KSUSPSTK[p], StackOf[InitTask][p]) \in Regions
        BY LogAssumption DEF RegionsKnown
      <3>2. \A p \in 1..StackPages : es[p] \in Regions
        BY <2>1, <3>1
      <3>3. ASSUME NEW p \in 1..StackPages
            PROVE  es[p].name = KSUSPSTK[p] /\ es[p].phys_addr = StackOf[InitTask][p]
        <4>1. es[p] = PageRegion(KSUSPSTK[p], StackOf[InitTask][p])
          BY <2>1
        <4> QED
          BY <4>1 DEF PageRegion
      <3> QED
        BY <3>2, <3>3
    <2>3. ASSUME NEW p \in 1..StackPages PROVE FirstRegistered(es[p])
      <3>1. /\ es[p].name = KSUSPSTK[p] /\ es[p].phys_addr = StackOf[InitTask][p]
            /\ KSUSPSTK[p] \notin StackNames
        BY <2>2, NameFacts
      <3> QED
        BY <3>1, NameFacts DEF FirstRegistered, NamesApart
    <2> QED
      BY <2>2, <2>3, LogAssumption, NameFacts
  <1>2. es \in Seq(Regions) /\ Len(es) = StackPages
    <2>1. es = [p \in 1..StackPages |-> es[p]]
      BY DEF StackRegions
    <2> HIDE DEF es
    <2> QED
      BY <1>1, <2>1
  <1>3. s \in Seq(A) /\ Ordered(s)
    <2> HIDE DEF es
    <2> QED
      BY <1>1, <1>2, AddsOrdered, NameFacts
  <1>4. t \in Seq(A) /\ Ordered(t)
    <2> DEFINE e == TaskRegion(InitTask)
    <2>1. e \in Regions /\ e.name = KSUSPTASK /\ e.phys_addr = TaskAt[InitTask]
      BY LogAssumption DEF RegionsKnown, TaskRegion, PageRegion
    <2> HIDE DEF e
    <2>2. FirstRegistered(e) /\ e.name \in SuspendNames
      BY <2>1, NameFacts DEF FirstRegistered, NamesApart
    <2>3. <<e>> \in Seq(Regions) /\ Len(<<e>>) = 1 /\ <<e>>[1] = e
      BY <2>1
    <2>4. KMSG \notin SuspendNames
      BY NameFacts
    <2>5. \A i \in 1..Len(<<e>>) : <<e>>[i].name \in SuspendNames /\ FirstRegistered(<<e>>[i])
      BY <2>2, <2>3
    <2>6. Adds(<<e>>) \in Seq(A) /\ Ordered(Adds(<<e>>))
      BY <2>3, <2>4, <2>5, AddsOrdered
    <2> QED
      BY <2>6 DEF e
  <1>5. u \in Seq(PlainSteps({"susp"})) /\ Ordered(u)
    BY StepOrdered
  <1>6. \A a \in A, b \in A : Before(a, b)
    BY NameFacts DEF AddSteps, Before
  <1>7. \A a \in A, b \in PlainSteps({"susp"}) : Before(a, b)
    BY NameFacts DEF AddSteps, PlainSteps, Before, NoRegion
  <1> HIDE DEF s, t, u, A
  <1>8. Ordered(s \o t) /\ s \o t \in Seq(A \cup A)
    BY <1>3, <1>4, <1>6, JoinOrdered
  <1>9. s \o t \in Seq(A)
    BY <1>8, SeqSubset
  <1>10. Ordered((s \o t) \o u) /\ (s \o t) \o u \in Seq(A \cup PlainSteps({"susp"}))
    BY <1>5, <1>7, <1>8, <1>9, JoinOrdered
  <1> QED
    BY <1>10 DEF SuspendPart, s, t, u, A

(* The regions that are neither stacks nor of the suspend context. *)
LEMMA OtherAdds ==
  ASSUME NamesApart, NEW es \in Seq(Regions), \A i \in 1..Len(es) : es[i].name \in OtherNames
  PROVE  Adds(es) \in Seq(AddSteps(OtherNames)) /\ Ordered(Adds(es))
  <1>1. ASSUME NEW i \in 1..Len(es) PROVE FirstRegistered(es[i])
    <2>1. es[i].name \notin StackNames /\ es[i].name \notin SuspendNames
      BY NameFacts DEF UpdatedNames
    <2> QED
      BY <2>1, NameFacts DEF FirstRegistered
  <1> QED
    BY <1>1, AddsOrdered, NameFacts

(* msm_minidump_log_init, part behind part. *)
LEMMA LogInitOrdered ==
  ASSUME RegionsKnown, NamesApart
  PROVE  /\ LogInit \in Seq(LogSteps) /\ Ordered(LogInit)
         /\ Has(LogInit, "hook") /\ Has(LogInit, "flag") /\ Has(LogInit, "ipi")
  <1> DEFINE O == AddSteps(OtherNames)
             m == Adds(<<MsgBuf>>)
             M == AddSteps({KMSG})
             K == AddSteps(StackNames) \cup PlainSteps({"hook", "flag", "ipi", "wait"})
             S == AddSteps(SuspendNames) \cup PlainSteps({"susp"})
             P == O \cup PlainSteps({"modules"}) \cup PlainSteps({"dump"})
             q == Adds(<<ModulesBuf>>)
             p == Adds(PanicRegions)
             d == <<Step("modules")>>
             e == <<Step("dump")>>
  <1>1. m \in Seq(M) /\ Ordered(m)
    <2>1. MsgBuf \in Regions /\ MsgBuf.name = KMSG
      BY DEF RegionsKnown, NamesApart
    <2>2. FirstRegistered(MsgBuf)
      BY <2>1, NameFacts DEF FirstRegistered
    <2>3. [op |-> "add", e |-> MsgBuf] \in M
      BY <2>1, <2>2 DEF AddSteps
    <2>4. m = <<[op |-> "add", e |-> MsgBuf]>>
      BY DEF Adds
    <2> HIDE DEF m, M
    <2>5. m \in Seq(M) /\ Len(m) = 1
      BY <2>3, <2>4
    <2> QED
      BY <2>5 DEF Ordered
  <1> DEFINE HasAll(s) == Has(s, "hook") /\ Has(s, "flag") /\ Has(s, "ipi")
  <1>2. StackPart \in Seq(K) /\ Ordered(StackPart) /\ HasAll(StackPart)
    BY StackPartOrdered
  <1>3. SuspendPart \in Seq(S) /\ Ordered(SuspendPart)
    BY SuspendPartOrdered
  <1>4. PstorePart \in Seq(O) /\ Ordered(PstorePart)
    <2>1. PstoreRegions \in Seq(Regions)
          /\ \A i \in 1..Len(PstoreRegions) : PstoreRegions[i].name \in OtherNames
      BY DEF RegionsKnown, OtherNames
    <2> QED
      BY <2>1, OtherAdds DEF PstorePart
  <1>5. TracePart \in Seq(O) /\ Ordered(TracePart)
    <2>1. TraceBuf \in Regions /\ TraceBuf.name \in OtherNames
      BY DEF RegionsKnown, OtherNames
    <2>2. <<TraceBuf>> \in Seq(Regions) /\ Len(<<TraceBuf>>) = 1 /\ <<TraceBuf>>[1] = TraceBuf
      BY <2>1
    <2>3. \A i \in 1..Len(<<TraceBuf>>) : <<TraceBuf>>[i].name \in OtherNames
      BY <2>1, <2>2
    <2> QED
      BY <2>2, <2>3, OtherAdds DEF TracePart
  <1>6. p \in Seq(O) /\ Ordered(p)
    <2>1. PanicRegions \in Seq(Regions)
          /\ \A i \in 1..Len(PanicRegions) : PanicRegions[i].name \in OtherNames
      BY DEF RegionsKnown, OtherNames
    <2> QED
      BY <2>1, OtherAdds
  <1>7. PanicPart \in Seq(P) /\ Ordered(PanicPart)
    <2> DEFINE D == PlainSteps({"modules"})
               E == PlainSteps({"dump"})
    <2>1. d \in Seq(D) /\ Ordered(d) /\ e \in Seq(E) /\ Ordered(e)
      BY StepOrdered
    <2>2. q \in Seq(O) /\ Ordered(q)
      <3>1. ModulesBuf \in Regions /\ ModulesBuf.name \in OtherNames
        BY DEF RegionsKnown, OtherNames
      <3>2. <<ModulesBuf>> \in Seq(Regions) /\ Len(<<ModulesBuf>>) = 1 /\ <<ModulesBuf>>[1] = ModulesBuf
        BY <3>1
      <3>3. \A i \in 1..Len(<<ModulesBuf>>) : <<ModulesBuf>>[i].name \in OtherNames
        BY <3>1, <3>2
      <3> QED
        BY <3>2, <3>3, OtherAdds
    <2>3. \A a \in O, b \in D : Before(a, b)
      BY NameFacts DEF AddSteps, PlainSteps, Before, NoRegion
    <2>4. \A a \in O \cup D, b \in O : Before(a, b)
      BY NameFacts DEF AddSteps, PlainSteps, Before, NoRegion
    <2>5. \A a \in O \cup D \cup O, b \in E : Before(a, b)
      BY NameFacts DEF AddSteps, PlainSteps, Before, NoRegion
    <2>6. PanicPart = q \o d \o p \o e
      BY DEF PanicPart
    <2>7. O \cup D \cup O \cup E \subseteq P
      OBVIOUS
    <2> HIDE DEF q, p, d, e, O, D, E, P
    <2>8. Ordered(q \o d) /\ q \o d \in Seq(O \cup D)
      BY <2>1, <2>2, <2>3, JoinOrdered
    <2>9. Ordered(q \o d \o p) /\ q \o d \o p \in Seq(O \cup D \cup O)
      BY <1>6, <2>4, <2>8, JoinOrdered
    <2>10. Ordered(q \o d \o p \o e) /\ q \o d \o p \o e \in Seq(O \cup D \cup O \cup E)
      BY <2>1, <2>5, <2>9, JoinOrdered
    <2> QED
      BY <2>6, <2>7, <2>10, SeqSubset
  <1>8. /\ \A a \in M, b \in K : Before(a, b)
        /\ \A a \in M \cup K, b \in S : Before(a, b)
    BY NameFacts DEF AddSteps, PlainSteps, Before, NoRegion, UpdatedNames
  <1>9. \A a \in M \cup K \cup S \cup O, b \in P : Before(a, b)
    BY NameFacts DEF AddSteps, PlainSteps, Before, NoRegion, UpdatedNames
  <1>10. M \cup K \cup S \cup O \cup P \subseteq LogSteps
    <2>1. \A A, B : A \subseteq B => AddSteps(A) \subseteq AddSteps(B)
      BY DEF AddSteps
    <2>2. \A A, B : A \subseteq B => PlainSteps(A) \subseteq PlainSteps(B)
      BY DEF PlainSteps
    <2>3. /\ M \subseteq AddSteps(LogNames) /\ O \subseteq AddSteps(LogNames)
          /\ AddSteps(StackNames) \subseteq AddSteps(LogNames)
          /\ AddSteps(SuspendNames) \subseteq AddSteps(LogNames)
      BY <2>1 DEF LogNames
    <2> DEFINE all == {"hook", "flag", "ipi", "wait", "susp", "modules", "dump"}
    <2>4. /\ PlainSteps({"hook", "flag", "ipi", "wait"}) \subseteq PlainSteps(all)
          /\ PlainSteps({"susp"}) \subseteq PlainSteps(all)
          /\ PlainSteps({"modules"}) \subseteq PlainSteps(all)
          /\ PlainSteps({"dump"}) \subseteq PlainSteps(all)
      BY <2>2
    <2> QED
      BY <2>3, <2>4 DEF LogSteps
  <1>11. O \subseteq P
    OBVIOUS
  <1> HIDE DEF m, M, K, S, O, P
  <1>12. Ordered(m \o StackPart) /\ HasAll(m \o StackPart) /\ m \o StackPart \in Seq(M \cup K)
    BY <1>1, <1>2, <1>8, JoinOrdered
  <1>13. Ordered(m \o StackPart \o SuspendPart) /\ HasAll(m \o StackPart \o SuspendPart)
         /\ m \o StackPart \o SuspendPart \in Seq(M \cup K \cup S)
    BY <1>3, <1>8, <1>12, JoinOrdered
  <1>14. Ordered(m \o StackPart \o SuspendPart \o PstorePart)
         /\ HasAll(m \o StackPart \o SuspendPart \o PstorePart)
         /\ m \o StackPart \o SuspendPart \o PstorePart \in Seq(M \cup K \cup S \cup O)
    <2>1. \A a \in M \cup K \cup S, b \in O : Before(a, b)
      BY <1>9, <1>11
    <2> QED
      BY <1>4, <1>13, <2>1, JoinOrdered
  <1> DEFINE X == M \cup K \cup S \cup O
             x == m \o StackPart \o SuspendPart \o PstorePart
             y == x \o TracePart
  <1>15. Ordered(y) /\ HasAll(y) /\ y \in Seq(X)
    <2>1. \A a \in X, b \in O : Before(a, b)
      BY <1>9, <1>11
    <2>2. x \in Seq(X) /\ Ordered(x) /\ HasAll(x)
      BY <1>14
    <2>3. X \cup O \subseteq X
      OBVIOUS
    <2> HIDE DEF x, X
    <2>4. Ordered(x \o TracePart) /\ HasAll(x \o TracePart) /\ x \o TracePart \in Seq(X \cup O)
      BY <1>5, <2>1, <2>2, JoinOrdered
    <2> QED
      BY <2>3, <2>4, SeqSubset
  <1>16. Ordered(LogInit) /\ HasAll(LogInit) /\ LogInit \in Seq(X \cup P)
    <2>1. LogInit = y \o PanicPart
      BY DEF LogInit, m
    <2>2. \A a \in X, b \in P : Before(a, b)
      BY <1>9
    <2> HIDE DEF y, X
    <2>3. Ordered(y \o PanicPart) /\ HasAll(y \o PanicPart) /\ y \o PanicPart \in Seq(X \cup P)
      BY <1>7, <1>15, <2>2, JoinOrdered
    <2> QED
      BY <2>1, <2>3
  <1> QED
    BY <1>10, <1>16, SeqSubset

-----------------------------------------------------------------------------
(* What the log calls the driver with. *)
LogCall ==
  \/ UNCHANGED vars
  \/ ProbeTable \/ ProbeEnable \/ DrainRegion \/ ProbeUnlock \/ ProbeDone
  \/ \E e \in ClientRegions : AddPending(e)
  \/ \E e \in Regions : /\ AddRegion(e)
                        /\ e.name \in UpdatedNames => NoDumpYet
                        /\ e.name = DumpName => e \in DumpRegions
  \/ \E e \in Moves : UpdateRegion(e)
  \/ EntrySlots(DumpName) # {} /\ RemoveRegion(GetRegion(DumpName))

(* The same, with what the driver keeps by itself. *)
DriverInv == IndInv /\ FaultsInv /\ TableInv

(* Other drivers' regions are not the log's. *)
LEMMA ClientFacts ==
  ASSUME RegionsKnown, NamesApart, DumpApart
  PROVE  \A e \in ClientRegions :
           /\ e \in Regions /\ e.name \in OtherNames /\ e.name \in Names
           /\ e.name \notin UpdatedNames \cup ModuleNames /\ e.name # DumpName
           /\ e.phys_addr \notin DumpPlaces
  <1> SUFFICES ASSUME NEW e \in ClientRegions
               PROVE  /\ e \in Regions /\ e.name \in OtherNames /\ e.name \in Names
                      /\ e.name \notin UpdatedNames \cup ModuleNames /\ e.name # DumpName
                      /\ e.phys_addr \notin DumpPlaces
    OBVIOUS
  <1>1. e \in Regions
    BY DEF RegionsKnown
  <1>2. e.name \in OtherNames
    BY DEF OtherNames
  <1>3. e.name \notin UpdatedNames \cup ModuleNames /\ e.name # DumpName
    BY <1>2, NameFacts
  <1>4. e.name \in Names
    BY <1>1, RegionsAssumption DEF Region
  <1>5. e.phys_addr \notin DumpPlaces
    BY <1>1, <1>3 DEF DumpApart, DumpPlaces
  <1> QED
    BY <1>1, <1>2, <1>3, <1>4, <1>5

(* The probe, and other drivers before the drain. *)
LEMMA ProbeTableInv ==
  ASSUME RegionsKnown, NamesApart, DumpApart, IndInv, TableInv,
         \/ UNCHANGED vars \/ ProbeTable \/ ProbeDone
         \/ ProbeEnable \/ DrainRegion \/ ProbeUnlock
         \/ \E e \in ClientRegions : AddPending(e)
  PROVE  TableInv'
  <1> DEFINE N == num_regions
             R == RegionNumber
  <1>0. N \in 0..MAX_NUM_ENTRIES /\ N \in Nat /\ entry \in [Slots -> Region \cup {NoRegion}]
    BY MaxAssumption DEF IndInv, TypeOK
  <1>1. CASE UNCHANGED vars \/ ProbeTable \/ ProbeDone
    <2>1. /\ UNCHANGED <<pending_list, num_regions, entry, first_removed_entry, regno, faults>>
          /\ Enabled' <=> Enabled
      BY <1>1 DEF ProbeTable, ProbeDone, Enabled, vars
    <2> QED
      BY <2>1 DEF TableInv, KeptInv, ApartInv, EarlyInv, CallFaults, EntrySlots, DumpPlaces
  <1>2. CASE ProbeEnable
    <2>1. /\ UNCHANGED <<pending_list, num_regions, entry, first_removed_entry, regno, faults>>
          /\ ~Enabled /\ ~Enabled'
      BY <1>2 DEF ProbeEnable, Enabled
    <2> QED
      BY <2>1 DEF TableInv, KeptInv, ApartInv, EarlyInv, CallFaults, EntrySlots
  <1>3. CASE ProbeUnlock
    <2>1. /\ UNCHANGED <<pending_list, num_regions, entry, first_removed_entry, regno, faults>>
          /\ ~Enabled /\ Enabled'
      BY <1>3 DEF ProbeUnlock, Draining, Enabled
    <2>2. KeptInv'
      BY <2>1 DEF TableInv, KeptInv
    <2>3. ApartInv'
      <3> SUFFICES ASSUME NEW i \in 0..N - 1, entry[i].name \in Names
                   PROVE  entry[i].name = DumpName <=> entry[i].phys_addr \in DumpPlaces
        BY <2>1 DEF ApartInv, DumpPlaces
      <3>1. entry[i] # NoRegion
        BY NameFacts DEF NoRegion
      <3>2. entry[i] \in ClientRegions
        BY <2>1, <3>1 DEF TableInv, EarlyInv
      <3> QED
        BY <3>2, ClientFacts
    <2> QED
      BY <2>1, <2>2, <2>3 DEF TableInv, EarlyInv, CallFaults
  <1>4. CASE DrainRegion
    <2>1. /\ ~Enabled /\ ~Enabled' /\ pending_list # <<>> /\ N' = N /\ regno' = regno
          /\ pending_list' = Tail(pending_list) /\ faults' = faults \cup {"early"}
          /\ entry' = [entry EXCEPT ![R] = Head(pending_list), ![N] = Head(pending_list)]
      BY <1>4 DEF DrainRegion, Draining, Enabled
    <2>2. pending_list \in Seq(ClientRegions)
      BY <2>1 DEF TableInv, EarlyInv
    <2>3. Head(pending_list) \in ClientRegions /\ Tail(pending_list) \in Seq(ClientRegions)
      BY <2>1, <2>2, TailFacts
    <2>4. ASSUME NEW i \in 0..N - 1 PROVE entry'[i] \in ClientRegions \cup {NoRegion}
      <3>1. i \in Slots /\ entry[i] \in ClientRegions \cup {NoRegion} /\ i # N
        BY <1>0, <2>1, MaxAssumption DEF Slots, TableInv, EarlyInv
      <3> QED
        BY <1>0, <2>1, <2>3, <3>1
    <2>5. EarlyInv'
      BY <2>1, <2>3, <2>4 DEF EarlyInv
    <2>6. CallFaults' /\ KeptInv' /\ ApartInv'
      BY <2>1 DEF TableInv, KeptInv, ApartInv, CallFaults
    <2> QED
      BY <2>5, <2>6 DEF TableInv
  <1>5. ASSUME NEW e \in ClientRegions, AddPending(e) PROVE TableInv'
    <2>1. /\ ~Enabled /\ ~Enabled' /\ ~Draining /\ N' = N + 1 /\ N < MAX_NUM_ENTRIES
          /\ pending_list' = Append(pending_list, e)
          /\ regno' = [regno EXCEPT ![e.name] = N]
          /\ UNCHANGED <<entry, faults>>
      BY <1>5 DEF AddPending, NotEnabledYet, Draining, Enabled
    <2>2. pending_list' \in Seq(ClientRegions)
      BY <2>1 DEF TableInv, EarlyInv
    <2>3. \A i \in Slots : entry[i] = NoRegion
      BY <2>1 DEF IndInv, PendingInv
    <2>4. 0..N' - 1 \subseteq Slots
      BY <1>0, <2>1, MaxAssumption DEF Slots
    <2>5. EarlyInv'
      BY <2>1, <2>2, <2>3, <2>4 DEF EarlyInv
    <2>6. KeptInv'
      <3>1. ASSUME NEW n \in UpdatedNames PROVE regno'[n] = NotRegistered
        <4>1. n \in Names /\ n # e.name /\ regno[n] = NotRegistered
          BY <2>1, ClientFacts, NameFacts DEF TableInv, KeptInv
        <4>2. regno'[n] = regno[n]
          BY <2>1, <4>1 DEF IndInv, TypeOK
        <4> QED
          BY <4>1, <4>2
      <3> QED
        BY <3>1 DEF KeptInv
    <2>7. CallFaults' /\ ApartInv'
      BY <2>1 DEF TableInv, ApartInv, CallFaults
    <2> QED
      BY <2>5, <2>6, <2>7 DEF TableInv
  <1> QED
    BY <1>1, <1>2, <1>3, <1>4, <1>5

(* Such calls keep the tables as the log relies on them. *)
LEMMA LogCallDriverInv ==
  ASSUME EarlyDuplicates = FALSE, RegionsKnown, NamesApart, DumpApart, DriverInv, LogCall
  PROVE  DriverInv'
  <1> USE DEF DriverInv
  <1>1. DumpName \in Names
    BY NameFacts
  <1>2. [Next]_vars
    BY <1>1, ClientFacts DEF LogCall, Next, Moves
  <1>3. FaultsInv' /\ IndInv'
    BY <1>2, NextFaultsInv, NextIndInv
  <1>4. CASE \/ UNCHANGED vars \/ ProbeTable \/ ProbeDone
             \/ ProbeEnable \/ DrainRegion \/ ProbeUnlock
             \/ \E e \in ClientRegions : AddPending(e)
    BY <1>3, <1>4, ProbeTableInv
  <1>7. ASSUME NEW e \in Regions, AddRegion(e), e.name \in UpdatedNames => NoDumpYet,
               e.name = DumpName => e \in DumpRegions
        PROVE  DriverInv'
    BY <1>3, <1>7, AddTableInv
  <1>8. ASSUME NEW e \in Moves, UpdateRegion(e) PROVE DriverInv'
    <2>1. e \in Regions
      BY DEF Moves
    <2> QED
      BY <1>3, <1>8, <2>1, UpdateTableInv
  <1>9. CASE EntrySlots(DumpName) # {} /\ RemoveRegion(GetRegion(DumpName))
    BY <1>1, <1>3, <1>9, RemoveTableInv
  <1> QED
    BY <1>4, <1>7, <1>8, <1>9 DEF LogCall

(* An add, refused or not. *)
LEMMA TryAddCall ==
  ASSUME NEW e \in Regions, TryAdd(e), e.name \in UpdatedNames => NoDumpYet,
         e.name = DumpName => e \in DumpRegions
  PROVE  LogCall
  BY DEF TryAdd, LogCall

(* A step of the list. *)
LEMMA HeadFacts ==
  ASSUME NamesApart, TodoInv, todo # <<>>
  PROVE  /\ Head(todo) \in LogSteps
         /\ Head(todo).op = "add" =>
              /\ Head(todo).e \in Regions /\ FirstRegistered(Head(todo).e)
              /\ Head(todo).e.name \in LogNames /\ Head(todo).e.name # DumpName
              /\ Head(todo).e.name \notin ModuleNames
  <1>1. Head(todo) \in LogSteps
    BY TailFacts DEF TodoInv
  <1>2. DumpName \notin LogNames /\ ModuleNames \cap LogNames = {}
    BY NameFacts DEF LogNames, UpdatedNames
  <1> QED
    BY <1>1, <1>2 DEF LogSteps, AddSteps, PlainSteps

(* The dump comes last on the list. *)
CallTodoInv == TodoInv /\ (todo # <<>> => NoDumpYet)

(* Every step of the system is such a call of the driver. *)
LEMMA StepCalls ==
  ASSUME RegionsKnown, NamesApart, DumpApart, CallTodoInv, [LNext]_<<vars, log_vars>>
  PROVE  LogCall
  <1> USE DEF CallTodoInv
  <1>1. CASE UNCHANGED <<vars, log_vars>>
    BY <1>1 DEF LogCall
  <1>2. CASE ProbeStep
    BY <1>2 DEF ProbeStep, LogCall
  <1>3. CASE LogAdd
    <2>1. todo # <<>> /\ Head(todo).op = "add" /\ TryAdd(Head(todo).e)
      BY <1>3 DEF LogAdd, Doing
    <2> QED
      BY <2>1, HeadFacts, TryAddCall
  <1>4. CASE LogFlag \/ LogIpi
    BY <1>4 DEF LogFlag, LogIpi, LogCall
  <1>5. CASE LogDump \/ AddDump
    <2>1. PICK e \in DumpRegions : TryAdd(e)
      BY <1>5 DEF LogDump, AddDump
    <2>2. e \in Regions /\ e.name = DumpName /\ e.name \notin UpdatedNames
      BY NameFacts DEF RegionsKnown, NamesApart
    <2> QED
      BY <2>1, <2>2, TryAddCall
  <1>6. ASSUME NEW c \in CPUs,
               Ipi(c) \/ UpdatePage(c) \/ \E t \in Tasks \cup {IdleTask} : Switch(c, t)
        PROVE  LogCall
    <2>1. CASE Ipi(c) \/ \E t \in Tasks \cup {IdleTask} : Switch(c, t)
      BY <2>1 DEF Ipi, Switch, LogCall
    <2>2. CASE UpdatePage(c)
      <3>1. upd[c] \in Seq(Moves) /\ upd[c] # <<>> /\ UpdateRegion(Head(upd[c]))
        BY <2>2 DEF UpdatePage, TodoInv
      <3> QED
        BY <3>1, TailFacts DEF LogCall
    <2> QED
      BY <1>6, <2>1, <2>2
  <1>7. CASE (\E t \in Tasks : Suspend(t)) \/ SuspendPage
    <2>1. CASE SuspendPage
      <3>1. susp \in Seq(Moves) /\ susp # <<>> /\ UpdateRegion(Head(susp))
        BY <2>1 DEF SuspendPage, TodoInv
      <3> QED
        BY <3>1, TailFacts DEF LogCall
    <2> QED
      BY <1>7, <2>1 DEF Suspend, LogCall
  <1>8. CASE (\E place \in ModulePlaces : LoadModule(place)) \/ UnloadModule
    BY <1>8 DEF LoadModule, UnloadModule, LogCall
  <1>9. CASE ModulePage
    <2>1. module_todo \in Seq(ModuleRegions) /\ module_todo # <<>> /\ TryAdd(Head(module_todo))
      BY <1>9 DEF ModulePage, TodoInv
    <2>2. Head(module_todo) \in ModuleRegions
      BY <2>1, TailFacts
    <2>3. /\ Head(module_todo) \in Regions /\ Head(module_todo).name \notin UpdatedNames
          /\ Head(module_todo).name # DumpName
      BY <2>2, NameFacts DEF ModuleRegions
    <2> QED
      BY <2>1, <2>3, TryAddCall
  <1>10. CASE RemoveDump
    BY <1>10 DEF RemoveDump, LogCall
  <1>11. CASE ClientAdd
    <2>1. PICK e \in ClientRegions : AddPending(e) \/ TryAdd(e)
      BY <1>11 DEF ClientAdd
    <2>2. e \in Regions /\ e.name \notin UpdatedNames /\ e.name # DumpName
      BY ClientFacts
    <2>3. CASE AddPending(e)
      BY <2>3 DEF LogCall
    <2> QED
      BY <2>1, <2>2, <2>3, TryAddCall
  <1> QED
    BY <1>1, <1>2, <1>3, <1>4, <1>5, <1>6, <1>7, <1>8, <1>9, <1>10, <1>11
       DEF LNext, LogStep, StackStep, ModuleStep

-----------------------------------------------------------------------------
(* The regions of a task's stack, on a CPU or suspended, are ones to update. *)
LEMMA StackRegionsMoves ==
  ASSUME RegionsKnown, NamesApart, NEW t \in Tasks
  PROVE  /\ \A c \in CPUs : /\ StackRegions(KSTACK[c], t) \in Seq(Moves)
                            /\ Len(StackRegions(KSTACK[c], t)) = StackPages
         /\ StackRegions(KSUSPSTK, t) \in Seq(Moves) /\ Len(StackRegions(KSUSPSTK, t)) = StackPages
         /\ TaskRegion(t) \in Moves
         /\ StackPages \in Nat
  <1>1. StackPages \in Nat
    BY LogAssumption
  <1>2. ASSUME NEW names, \A p \in 1..StackPages : PageRegion(names[p], StackOf[t][p]) \in Moves
        PROVE  StackRegions(names, t) \in Seq(Moves) /\ Len(StackRegions(names, t)) = StackPages
    BY <1>1, <1>2 DEF StackRegions
  <1>3. ASSUME NEW c \in CPUs, NEW p \in 1..StackPages
        PROVE  PageRegion(KSTACK[c][p], StackOf[t][p]) \in Moves
    <2>1. PageRegion(KSTACK[c][p], StackOf[t][p]) \in Regions
      BY DEF RegionsKnown
    <2>2. PageRegion(KSTACK[c][p], StackOf[t][p]).name = KSTACK[c][p]
      BY DEF PageRegion
    <2> QED
      BY <2>1, <2>2, NameFacts DEF Moves
  <1>4. ASSUME NEW p \in 1..StackPages
        PROVE  PageRegion(KSUSPSTK[p], StackOf[t][p]) \in Moves
    <2>1. PageRegion(KSUSPSTK[p], StackOf[t][p]) \in Regions
      BY DEF RegionsKnown
    <2>2. PageRegion(KSUSPSTK[p], StackOf[t][p]).name = KSUSPSTK[p]
      BY DEF PageRegion
    <2> QED
      BY <2>1, <2>2, NameFacts DEF Moves
  <1>5. TaskRegion(t) \in Moves
    <2>1. TaskRegion(t) \in Regions
      BY DEF RegionsKnown
    <2>2. TaskRegion(t).name = KSUSPTASK
      BY DEF TaskRegion, PageRegion
    <2> QED
      BY <2>1, <2>2, NameFacts DEF Moves
  <1> QED
    BY <1>1, <1>2, <1>3, <1>4, <1>5

(* So is what update_md_cpu_stack puts down. *)
LEMMA CpuStackUpdateMoves ==
  ASSUME RegionsKnown, NamesApart, NEW c \in CPUs, NEW t \in Tasks \cup {IdleTask}
  PROVE  CpuStackUpdate(c, t) \in Seq(Moves)
  <1>1. <<>> \in Seq(Moves)
    OBVIOUS
  <1>2. t # IdleTask => StackRegions(KSTACK[c], t) \in Seq(Moves)
    BY StackRegionsMoves
  <1> QED
    BY <1>1, <1>2 DEF CpuStackUpdate

(* And what update_md_suspend_currents does. *)
LEMMA SuspendUpdateMoves ==
  ASSUME RegionsKnown, NamesApart, NEW t \in Tasks
  PROVE  SuspendUpdate(t) \in Seq(Moves)
  <1> DEFINE s == IF Registered(KSUSPSTK) THEN StackRegions(KSUSPSTK, t) ELSE <<>>
             u == IF regno[KSUSPTASK] # NotRegistered THEN <<TaskRegion(t)>> ELSE <<>>
  <1>1. s \in Seq(Moves)
    BY StackRegionsMoves
  <1>2. u \in Seq(Moves)
    BY StackRegionsMoves
  <1> HIDE DEF s, u
  <1>3. s \o u \in Seq(Moves)
    BY <1>1, <1>2
  <1> QED
    BY <1>3 DEF SuspendUpdate, s, u

(* The pages of a key module, wherever it is loaded. *)
LEMMA ModuleTodo ==
  ASSUME RegionsKnown, NamesApart, NEW place \in ModulePlaces
  PROVE  LET s == [p \in 1..ModulePages |-> PageRegion(ModuleName[p], place + (p - 1) * PageSize)]
         IN s \in Seq(ModuleRegions) /\ Len(s) = ModulePages
  <1>1. ASSUME NEW p \in 1..ModulePages
        PROVE  PageRegion(ModuleName[p], place + (p - 1) * PageSize) \in ModuleRegions
    <2> DEFINE e == PageRegion(ModuleName[p], place + (p - 1) * PageSize)
    <2>1. e \in Regions
      BY DEF RegionsKnown
    <2>2. e.name = ModuleName[p]
      BY DEF PageRegion
    <2> HIDE DEF e
    <2>3. e \in ModuleRegions
      BY <2>1, <2>2, NameFacts DEF ModuleRegions
    <2> QED
      BY <2>3 DEF e
  <1>2. ModulePages \in Nat
    BY LogAssumption
  <1> QED
    BY <1>1, <1>2

(* At first all of the list is to be done and nothing is registered. *)
LEMMA InitTodoInv ==
  ASSUME RegionsKnown, NamesApart, LInit
  PROVE  CallTodoInv
  <1>1. todo \in Seq(LogSteps) /\ Ordered(todo)
    BY LogInitOrdered DEF LInit
  <1>2. /\ current \in [CPUs -> Tasks \cup {IdleTask}]
        /\ upd \in [CPUs -> Seq(Moves)] /\ susp \in Seq(Moves) /\ module_todo \in Seq(ModuleRegions)
    BY LogAssumption DEF LInit
  <1>3. NoDumpYet
    BY DEF LInit, Init, NoDumpYet, EntrySlots
  <1> QED
    BY <1>1, <1>2, <1>3 DEF CallTodoInv, TodoInv

(* The tables are empty. *)
LEMMA InitDriverInv == LInit => DriverInv
  <1> SUFFICES ASSUME LInit PROVE DriverInv
    OBVIOUS
  <1>1. Init
    BY DEF LInit
  <1>2. IndInv /\ FaultsInv
    BY <1>1, InitIndInv, InitFaultsInv
  <1>3. TableInv
    <2>1. /\ ~Enabled /\ pending_list = <<>> /\ num_regions = 0 /\ faults = {}
          /\ regno = [n \in Names |-> NotRegistered]
      BY <1>1 DEF Init, Enabled
    <2>2. UpdatedNames \subseteq Names
      BY LogAssumption DEF UpdatedNames, StackNames, SuspendNames
    <2>3. EarlyInv
      BY <2>1 DEF EarlyInv
    <2> QED
      BY <2>1, <2>2, <2>3 DEF TableInv, KeptInv, ApartInv, CallFaults
  <1> QED
    BY <1>2, <1>3 DEF DriverInv

(* The list only loses its first step, or all of it when KMSG is refused. *)
LEMMA TailTodo ==
  ASSUME TodoInv, todo # <<>>, todo' = <<>> \/ todo' = Tail(todo)
  PROVE  todo' \in Seq(LogSteps) /\ Ordered(todo')
  <1>1. todo \in Seq(LogSteps) /\ Ordered(todo)
    BY DEF TodoInv
  <1>2. CASE todo' = <<>>
    BY <1>2 DEF Ordered
  <1>3. CASE todo' = Tail(todo)
    BY <1>1, <1>3, TailFacts, TailOrdered
  <1> QED
    BY <1>2, <1>3

(* Every step keeps the types of what is to be done, and the order of the list. *)
LEMMA NextTodoInv ==
  ASSUME RegionsKnown, NamesApart, TodoInv, [LNext]_<<vars, log_vars>>
  PROVE  TodoInv'
  <1> USE DEF log_vars, init_vars, stack_vars, module_vars
  <1>1. CASE \/ UNCHANGED <<vars, log_vars>> \/ ProbeStep \/ RemoveDump \/ AddDump
             \/ ClientAdd \/ UnloadModule
    <2>1. UNCHANGED <<todo, current, upd, susp, module_todo>>
      BY <1>1 DEF ProbeStep, RemoveDump, AddDump, ClientAdd, UnloadModule
    <2> QED
      BY <2>1 DEF TodoInv, Ordered
  <1>2. CASE LogStep
    <2>1. todo # <<>> /\ (todo' = <<>> \/ todo' = Tail(todo))
          /\ UNCHANGED <<current, upd, susp, module_todo>>
      BY <1>2 DEF LogStep, LogAdd, LogFlag, LogIpi, LogDump, Doing
    <2> QED
      BY <2>1, TailTodo DEF TodoInv
  <1>3. ASSUME NEW c \in CPUs, NEW t \in Tasks \cup {IdleTask}, Switch(c, t) PROVE TodoInv'
    <2>1. /\ UNCHANGED <<todo, susp, module_todo>>
          /\ current' = [current EXCEPT ![c] = t]
          /\ \E s \in Seq(Moves) : upd' = [upd EXCEPT ![c] = s]
      <3>1. <<>> \in Seq(Moves) /\ CpuStackUpdate(c, t) \in Seq(Moves)
        BY CpuStackUpdateMoves
      <3> QED
        BY <1>3, <3>1 DEF Switch
    <2> QED
      BY <2>1 DEF TodoInv, Ordered
  <1>4. ASSUME NEW c \in CPUs, Ipi(c) PROVE TodoInv'
    <2>1. current[c] \in Tasks \cup {IdleTask}
      BY DEF TodoInv
    <2>2. CpuStackUpdate(c, current[c]) \in Seq(Moves)
      BY <2>1, CpuStackUpdateMoves
    <2>3. /\ UNCHANGED <<todo, current, susp, module_todo>>
          /\ upd' = [upd EXCEPT ![c] = CpuStackUpdate(c, current[c])]
      BY <1>4 DEF Ipi
    <2> QED
      BY <2>2, <2>3 DEF TodoInv, Ordered
  <1>5. ASSUME NEW c \in CPUs, UpdatePage(c) PROVE TodoInv'
    <2>1. /\ UNCHANGED <<todo, current, susp, module_todo>> /\ upd[c] # <<>>
          /\ upd' = [upd EXCEPT ![c] = Tail(upd[c])]
      BY <1>5 DEF UpdatePage
    <2>2. Tail(upd[c]) \in Seq(Moves)
      BY <2>1, TailFacts DEF TodoInv
    <2> QED
      BY <2>1, <2>2 DEF TodoInv, Ordered
  <1>6. ASSUME NEW t \in Tasks, Suspend(t) PROVE TodoInv'
    <2>1. UNCHANGED <<todo, current, upd, module_todo>> /\ susp' = SuspendUpdate(t)
      BY <1>6 DEF Suspend
    <2> QED
      BY <2>1, SuspendUpdateMoves DEF TodoInv, Ordered
  <1>7. CASE SuspendPage
    <2>1. UNCHANGED <<todo, current, upd, module_todo>> /\ susp # <<>> /\ susp' = Tail(susp)
      BY <1>7 DEF SuspendPage
    <2>2. Tail(susp) \in Seq(Moves)
      BY <2>1, TailFacts DEF TodoInv
    <2> QED
      BY <2>1, <2>2 DEF TodoInv, Ordered
  <1>8. ASSUME NEW place \in ModulePlaces, LoadModule(place) PROVE TodoInv'
    <2> DEFINE s == [p \in 1..ModulePages |-> PageRegion(ModuleName[p], place + (p - 1) * PageSize)]
    <2>1. s \in Seq(ModuleRegions) /\ <<>> \in Seq(ModuleRegions)
      BY ModuleTodo
    <2>2. UNCHANGED <<todo, current, upd, susp>> /\ module_todo' = IF Room THEN s ELSE <<>>
      BY <1>8 DEF LoadModule
    <2> HIDE DEF s
    <2> QED
      BY <2>1, <2>2 DEF TodoInv, Ordered
  <1>9. CASE ModulePage
    <2>1. /\ UNCHANGED <<todo, current, upd, susp>>
          /\ module_todo # <<>> /\ module_todo' = Tail(module_todo)
      BY <1>9 DEF ModulePage
    <2>2. Tail(module_todo) \in Seq(ModuleRegions)
      BY <2>1, TailFacts DEF TodoInv
    <2> QED
      BY <2>1, <2>2 DEF TodoInv, Ordered
  <1> QED
    BY <1>1, <1>2, <1>3, <1>4, <1>5, <1>6, <1>7, <1>8, <1>9
       DEF LNext, StackStep, ModuleStep

(* Until the list is empty no dump is registered. *)
LEMMA NextNoDumpYet ==
  ASSUME RegionsKnown, NamesApart, DumpApart, DriverInv, DriverInv', CallTodoInv,
         [LNext]_<<vars, log_vars>>
  PROVE  todo' # <<>> => NoDumpYet'
  <1> SUFFICES ASSUME todo' # <<>> PROVE NoDumpYet'
    OBVIOUS
  <1> USE DEF log_vars, init_vars, stack_vars, module_vars, CallTodoInv
  <1>1. todo # <<>> /\ NoDumpYet
    <2>1. todo # <<>> \/ UNCHANGED todo
      BY DEF LNext, ProbeStep, LogStep, LogAdd, LogFlag, LogIpi, LogDump, Doing, StackStep, Switch,
             Ipi, UpdatePage, Suspend, SuspendPage, ModuleStep, LoadModule, ModulePage, UnloadModule,
             RemoveDump, AddDump, ClientAdd
    <2> QED
      BY <2>1
  <1>2. ~LogDump
    <2> SUFFICES ASSUME LogDump PROVE FALSE
      OBVIOUS
    <2>1. Head(todo).op = "dump" /\ todo' = Tail(todo)
      BY DEF LogDump, Doing
    <2>2. todo \in Seq(LogSteps) /\ Ordered(todo)
      BY DEF TodoInv
    <2>3. \A j \in 1..Len(Tail(todo)) : Before(Head(todo), Tail(todo)[j])
      BY <1>1, <2>2, TailOrdered
    <2>4. Tail(todo) \in Seq(LogSteps)
      BY <1>1, <2>2, TailFacts
    <2>5. 1 \in 1..Len(Tail(todo))
      BY <2>1, <2>4
    <2> QED
      BY <2>1, <2>3, <2>5 DEF Before
  <1>3. ~RemoveDump /\ ~AddDump
    BY <1>1 DEF RemoveDump, AddDump, NoDumpYet
  <1>4. \/ UNCHANGED vars
        \/ ProbeTable \/ ProbeEnable \/ DrainRegion \/ ProbeUnlock \/ ProbeDone
        \/ \E e \in ClientRegions : AddPending(e)
        \/ \E e \in Regions : AddRegion(e) /\ e.name # DumpName
        \/ \E e \in Moves : UpdateRegion(e)
    <2>1. CASE LogAdd
      <3>1. Head(todo).op = "add" /\ TryAdd(Head(todo).e)
        BY <2>1 DEF LogAdd, Doing
      <3> QED
        BY <1>1, <3>1, HeadFacts DEF TryAdd
    <2>2. CASE ModulePage
      <3>1. module_todo # <<>> /\ TryAdd(Head(module_todo)) /\ module_todo \in Seq(ModuleRegions)
        BY <2>2 DEF ModulePage, TodoInv
      <3>2. Head(module_todo) \in ModuleRegions
        BY <3>1, TailFacts
      <3>3. Head(module_todo) \in Regions /\ Head(module_todo).name # DumpName
        BY <3>2, NameFacts DEF ModuleRegions
      <3> QED
        BY <3>1, <3>3 DEF TryAdd
    <2>3. CASE \E c \in CPUs : UpdatePage(c)
      <3>1. PICK c \in CPUs : UpdatePage(c)
        BY <2>3
      <3>2. upd[c] \in Seq(Moves) /\ upd[c] # <<>> /\ UpdateRegion(Head(upd[c]))
        BY <3>1 DEF UpdatePage, TodoInv
      <3> QED
        BY <3>2, TailFacts
    <2>4. CASE SuspendPage
      <3>1. susp \in Seq(Moves) /\ susp # <<>> /\ UpdateRegion(Head(susp))
        BY <2>4 DEF SuspendPage, TodoInv
      <3> QED
        BY <3>1, TailFacts
    <2>5. UNCHANGED vars \/ ProbeStep \/ LogAdd \/ ModulePage \/ SuspendPage \/ ClientAdd
          \/ \E c \in CPUs : UpdatePage(c)
      BY <1>2, <1>3 DEF LNext, LogStep, LogFlag, LogIpi, StackStep, Switch,
             Ipi, Suspend, ModuleStep, LoadModule, UnloadModule
    <2>6. CASE ClientAdd
      <3>1. PICK e \in ClientRegions : AddPending(e) \/ TryAdd(e)
        BY <2>6 DEF ClientAdd
      <3>2. e \in Regions /\ e.name # DumpName
        BY ClientFacts
      <3> QED
        BY <3>1, <3>2 DEF TryAdd
    <2> QED
      BY <2>1, <2>2, <2>3, <2>4, <2>5, <2>6 DEF ProbeStep
  <1>5. CASE UNCHANGED vars \/ ProbeTable \/ ProbeUnlock \/ ProbeDone
    BY <1>1, <1>5 DEF vars, ProbeTable, ProbeUnlock, ProbeDone, NoDumpYet, EntrySlots
  <1>6. CASE ProbeEnable \/ DrainRegion \/ \E e \in ClientRegions : AddPending(e)
    <2>1. ~Enabled' /\ first_removed_entry' = first_removed_entry
      BY <1>6 DEF ProbeEnable, DrainRegion, AddPending, Enabled, Draining, NotEnabledYet
    <2>2. \A i \in 0..num_regions' - 1 : entry'[i] \in ClientRegions \cup {NoRegion}
      BY <2>1 DEF DriverInv, TableInv, EarlyInv
    <2>3. \A e \in ClientRegions \cup {NoRegion} : e.name # DumpName
      BY ClientFacts, NameFacts DEF NoRegion
    <2> QED
      BY <1>1, <2>1, <2>2, <2>3 DEF NoDumpYet, EntrySlots
  <1>7. ASSUME NEW e \in Regions, AddRegion(e), e.name # DumpName PROVE NoDumpYet'
    BY <1>1, <1>7, AddEffect DEF DriverInv, NoDumpYet
  <1>8. ASSUME NEW e \in Moves, UpdateRegion(e) PROVE NoDumpYet'
    <2>1. e \in Regions /\ regno[e.name] < first_removed_entry
      BY <1>8 DEF DriverInv, TableInv, KeptInv, Moves, UpdateRegion
    <2> QED
      BY <1>1, <1>8, <2>1, UpdateEffect DEF DriverInv, NoDumpYet
  <1> QED
    BY <1>4, <1>5, <1>6, <1>7, <1>8

(* The inductive invariant behind the calls. *)
CallInv == DriverInv /\ CallTodoInv

(* The invariant holds at first. *)
LEMMA InitCallInv ==
  ASSUME RegionsKnown, NamesApart
  PROVE  LInit => CallInv
  BY InitDriverInv, InitTodoInv DEF CallInv

(* And every step keeps it. *)
LEMMA NextCallInv ==
  ASSUME EarlyDuplicates = FALSE, RegionsKnown, NamesApart, DumpApart
  PROVE  CallInv /\ [LNext]_<<vars, log_vars>> => CallInv'
  <1> SUFFICES ASSUME CallInv, [LNext]_<<vars, log_vars>> PROVE CallInv'
    OBVIOUS
  <1>1. DriverInv'
    BY StepCalls, LogCallDriverInv DEF CallInv
  <1>2. TodoInv'
    BY NextTodoInv DEF CallInv, CallTodoInv
  <1>3. todo' # <<>> => NoDumpYet'
    BY <1>1, NextNoDumpYet DEF CallInv
  <1> QED
    BY <1>1, <1>2, <1>3 DEF CallInv, CallTodoInv

(* For any number of CPUs, tasks, pages and modules and any table: no update
   of the log (update_stack_entry, update_md_suspend_current_task) is refused as
   moved, whatever other drivers add and when, and no remove of a memory dump
   breaks the minidump, unless the sections of the ELF header have run into the
   program headers or another driver's region was drained. *)
THEOREM CallsAlwaysSucceed ==
  ASSUME EarlyDuplicates = FALSE, RegionsKnown, NamesApart, DumpApart
  PROVE  LSpec => []CallsNeverFail
  <1>1. CallInv => CallsNeverFail
    BY DEF CallInv, DriverInv, TableInv, CallFaults, CallsNeverFail
  <1> QED
    BY <1>1, InitCallInv, NextCallInv, PTL DEF LSpec

-----------------------------------------------------------------------------
(* The number of a name leads to a page. *)
PageAt(n, page) == entry[regno[n]].phys_addr = page

(* A task runs on one CPU. *)
OneCpu == \A c, d \in CPUs : current[c] = current[d] /\ current[c] # IdleTask => c = d

(* A step of msm_minidump_log_init is still to come. *)
Ahead(op) == Has(todo, op)

(* How far the list is: what has been switched on, and what may be registered.
   (When KMSG was refused the list is empty and nothing of the log is there.) *)
BootInv ==
  /\ ipi \subseteq CPUs /\ susp_task \in Tasks
  /\ hooked \in BOOLEAN /\ md_current_stack_init \in BOOLEAN /\ susp_init \in BOOLEAN
  /\ OneCpu
  /\ \A i \in 1..Len(todo) :
       /\ todo[i].e.name = KMSG => \A n \in UpdatedNames : regno[n] = NotRegistered
       /\ todo[i].e.name \in StackNames => ~md_current_stack_init
       /\ todo[i].e.name \in SuspendNames => ~susp_init
  /\ Ahead("flag") => Ahead("ipi")
  /\ ~hooked => ~md_current_stack_init /\ (Ahead("hook") \/ todo = <<>>)
  /\ ~md_current_stack_init =>
       /\ ipi = {} /\ \A c \in CPUs : upd[c] = <<>>
       /\ \/ Ahead("flag")
          \/ todo = <<>> /\ \A n \in UpdatedNames : regno[n] = NotRegistered
  /\ ~susp_init => susp = <<>> /\ susp_task = InitTask

(* All pages of a CPU's stack are a task's. *)
AllAt(c, t) == \A p \in 1..StackPages : PageAt(KSTACK[c][p], StackOf[t][p])

(* Each page of a CPU's stack is where it belongs or is still to be updated. *)
Moving(c) ==
  LET r == StackRegions(KSTACK[c], current[c]) IN
  /\ current[c] \in Tasks
  /\ \A i \in 1..Len(upd[c]) : \E p \in 1..StackPages : upd[c][i] = r[p]
  /\ \A p \in 1..StackPages : \/ PageAt(KSTACK[c][p], StackOf[current[c]][p])
                              \/ \E i \in 1..Len(upd[c]) : upd[c][i] = r[p]

(* Once stacks are updated: a CPU updates its own, is idle, or has the dummy and
   is to be interrupted. *)
CpuState(c) ==
  IF Registered(KSTACK[c])
  THEN \/ Moving(c)
       \/ upd[c] = <<>> /\ current[c] = IdleTask
       \/ upd[c] = <<>> /\ (c \in ipi \/ Ahead("ipi")) /\ AllAt(c, InitTask)
  ELSE upd[c] = <<>>

(* Before that every stack is the dummy. *)
CpuInv ==
  /\ ~md_current_stack_init => \A c \in CPUs, p \in 1..StackPages :
       regno[KSTACK[c][p]] # NotRegistered => PageAt(KSTACK[c][p], StackOf[InitTask][p])
  /\ md_current_stack_init => \A c \in CPUs : CpuState(c)

(* The suspend regions, once they are a given task's. *)
SuspRegions(t) ==
  {PageRegion(KSUSPSTK[p], StackOf[t][p]) : p \in 1..StackPages} \cup {TaskRegion(t)}

(* They are where the task that suspended last has them, or are still to be
   updated. *)
SuspInv ==
  /\ \A i \in 1..Len(susp) : susp[i] \in SuspRegions(susp_task)
  /\ susp_init /\ Registered(KSUSPSTK) /\ regno[KSUSPTASK] # NotRegistered =>
       \A e \in SuspRegions(susp_task) :
         PageAt(e.name, e.phys_addr) \/ \E i \in 1..Len(susp) : susp[i] = e
  /\ ~susp_init => \A e \in SuspRegions(susp_task) :
                     regno[e.name] # NotRegistered => PageAt(e.name, e.phys_addr)

StackInv == BootInv /\ CpuInv /\ SuspInv

(* The regions of some names stay as they are. *)
Stay(names) ==
  \A n \in names :
    regno'[n] = regno[n] /\ (regno[n] # NotRegistered => entry'[regno[n]] = entry[regno[n]])

(* An add, refused or not, moves nothing that is updated. *)
LEMMA AddStays ==
  ASSUME NamesApart, DriverInv, NEW e \in Regions, TryAdd(e)
  PROVE  /\ e.name \notin UpdatedNames => Stay(UpdatedNames)
         /\ \A n \in UpdatedNames : regno[n] # NotRegistered =>
              regno'[n] = regno[n] /\ entry'[regno[n]] = entry[regno[n]]
         /\ \A n \in UpdatedNames : n # e.name => regno'[n] = regno[n]
         /\ \A n \in UpdatedNames : n = e.name /\ regno[n] = NotRegistered =>
              regno'[n] = NotRegistered \/ entry'[regno'[n]] = e
         /\ num_regions' = num_regions => UNCHANGED vars
  <1>1. CASE UNCHANGED vars
    BY <1>1 DEF vars, Stay
  <1>2. CASE AddRegion(e)
    <2>1. /\ num_regions \in Nat /\ num_regions' = num_regions + 1
          /\ entry'[num_regions] = e /\ \A i \in 0..num_regions - 1 : entry'[i] = entry[i]
          /\ regno'[e.name] = num_regions /\ \A n \in Names : n # e.name => regno'[n] = regno[n]
          /\ EntrySlots(e.name) = {} /\ UpdatedNames \subseteq Names
      BY <1>2, AddEffect, NameFacts DEF DriverInv
    <2>2. \A n \in UpdatedNames : regno[n] # NotRegistered =>
            /\ regno[n] \in 0..num_regions - 1 /\ entry[regno[n]].name = n /\ n # e.name
      BY <2>1 DEF DriverInv, TableInv, KeptInv, EntrySlots
    <2> QED
      BY <2>1, <2>2 DEF Stay
  <1> QED
    BY <1>1, <1>2 DEF TryAdd

(* An update moves the region it names and no other that is updated. *)
LEMMA UpdateMoves ==
  ASSUME NamesApart, DriverInv, NEW e \in Moves, UpdateRegion(e)
  PROVE  /\ regno' = regno
         /\ e.name \in UpdatedNames /\ regno[e.name] # NotRegistered
         /\ entry'[regno[e.name]].phys_addr = e.phys_addr
         /\ \A n \in UpdatedNames : n # e.name /\ regno[n] # NotRegistered =>
              entry'[regno[n]] = entry[regno[n]]
  <1>1. e \in Regions /\ e.name \in UpdatedNames /\ regno[e.name] # NotRegistered
    BY DEF Moves, UpdateRegion
  <1>2. regno[e.name] < first_removed_entry
    BY <1>1 DEF DriverInv, TableInv, KeptInv
  <1>3. /\ entry[regno[e.name]].name = e.name /\ entry'[regno[e.name]].phys_addr = e.phys_addr
        /\ \A i \in 0..num_regions - 1 : i # regno[e.name] => entry'[i] = entry[i]
        /\ regno' = regno
    BY <1>1, <1>2, UpdateEffect DEF DriverInv
  <1>4. \A n \in UpdatedNames : regno[n] # NotRegistered =>
          regno[n] \in 0..num_regions - 1 /\ entry[regno[n]].name = n
    BY DEF DriverInv, TableInv, KeptInv
  <1> QED
    BY <1>1, <1>3, <1>4

(* The dump is behind everything that is updated. *)
LEMMA RemoveStays ==
  ASSUME NamesApart, DriverInv, EntrySlots(DumpName) # {}, RemoveRegion(GetRegion(DumpName))
  PROVE  Stay(UpdatedNames)
  <1>0. DumpName \in Names
    BY NameFacts
  <1>1. UNCHANGED regno
    BY <1>0, RemoveEffect DEF DriverInv
  <1>2. PICK k \in 0..num_regions - 1 :
          /\ EntrySlots(DumpName) = {k} /\ \A i \in 0..k - 1 : entry'[i] = entry[i]
    BY <1>0, RemoveEffect DEF DriverInv
  <1>3. \A n \in UpdatedNames : regno[n] # NotRegistered => regno[n] \in 0..k - 1
    BY <1>2 DEF DriverInv, TableInv, KeptInv
  <1> QED
    BY <1>1, <1>2, <1>3 DEF Stay

(* Nothing that is updated is there before the drain is over. *)
LEMMA ProbeStays ==
  ASSUME RegionsKnown, NamesApart, DumpApart, DriverInv,
         \/ UNCHANGED vars
         \/ ProbeTable \/ ProbeEnable \/ DrainRegion \/ ProbeUnlock \/ ProbeDone
         \/ \E e \in ClientRegions : AddPending(e)
  PROVE  Stay(UpdatedNames)
  <1>1. CASE UNCHANGED vars \/ ProbeTable \/ ProbeEnable \/ ProbeUnlock \/ ProbeDone
    BY <1>1 DEF vars, ProbeTable, ProbeEnable, ProbeUnlock, ProbeDone, Stay
  <1>2. CASE DrainRegion
    <2>1. \A n \in UpdatedNames : regno[n] = NotRegistered
      BY <1>2 DEF DrainRegion, Draining, DriverInv, TableInv, KeptInv, Enabled
    <2> QED
      BY <1>2, <2>1 DEF DrainRegion, Stay
  <1>3. ASSUME NEW e \in ClientRegions, AddPending(e) PROVE Stay(UpdatedNames)
    <2>1. \A n \in UpdatedNames : regno[n] = NotRegistered /\ n \in Names /\ n # e.name
      BY <1>3, ClientFacts, NameFacts
         DEF AddPending, NotEnabledYet, DriverInv, TableInv, KeptInv, Enabled
    <2>2. regno' = [regno EXCEPT ![e.name] = num_regions] /\ regno \in [Names -> -1..MAX_NUM_ENTRIES - 1]
      BY <1>3 DEF AddPending, DriverInv, IndInv, TypeOK
    <2> QED
      BY <2>1, <2>2 DEF Stay
  <1> QED
    BY <1>1, <1>2, <1>3

(* Steps of others. *)
LEMMA OtherStays ==
  ASSUME RegionsKnown, NamesApart, DumpApart, CallInv,
         \/ UNCHANGED <<vars, log_vars>> \/ ProbeStep \/ RemoveDump \/ AddDump
         \/ ClientAdd \/ ModuleStep
  PROVE  Stay(UpdatedNames) /\ UNCHANGED <<init_vars, stack_vars>>
  <1> USE DEF CallInv, CallTodoInv
  <1>1. UNCHANGED <<init_vars, stack_vars>>
    BY DEF log_vars, ProbeStep, RemoveDump, AddDump, ClientAdd, ModuleStep, LoadModule, ModulePage,
           UnloadModule
  <1>2. CASE UNCHANGED <<vars, log_vars>> \/ ProbeStep \/ UnloadModule
             \/ \E place \in ModulePlaces : LoadModule(place)
    BY <1>1, <1>2, ProbeStays DEF ProbeStep, UnloadModule, LoadModule
  <1>3. CASE RemoveDump
    BY <1>1, <1>3, RemoveStays DEF RemoveDump
  <1>4. CASE AddDump
    <2>1. PICK e \in DumpRegions : TryAdd(e)
      BY <1>4 DEF AddDump
    <2>2. e \in Regions /\ e.name \notin UpdatedNames
      BY NameFacts DEF RegionsKnown, NamesApart
    <2> QED
      BY <1>1, <2>1, <2>2, AddStays
  <1>5. CASE ModulePage
    <2>1. module_todo # <<>> /\ TryAdd(Head(module_todo)) /\ module_todo \in Seq(ModuleRegions)
      BY <1>5 DEF ModulePage, TodoInv
    <2>2. Head(module_todo) \in ModuleRegions
      BY <2>1, TailFacts
    <2>3. Head(module_todo) \in Regions /\ Head(module_todo).name \notin UpdatedNames
      BY <2>2, NameFacts DEF ModuleRegions
    <2> QED
      BY <1>1, <2>1, <2>3, AddStays
  <1>6. CASE ClientAdd
    <2>1. PICK e \in ClientRegions : AddPending(e) \/ TryAdd(e)
      BY <1>6 DEF ClientAdd
    <2>2. e \in Regions /\ e.name \notin UpdatedNames
      BY ClientFacts
    <2>3. CASE AddPending(e)
      BY <1>1, <2>3, ProbeStays
    <2> QED
      BY <1>1, <2>1, <2>2, <2>3, AddStays
  <1> QED
    BY <1>2, <1>3, <1>4, <1>5, <1>6 DEF ModuleStep

(* Then what is known about a stack stays known. *)
LEMMA CpuStays ==
  ASSUME NEW c \in CPUs, Stay({KSTACK[c][p] : p \in 1..StackPages}),
         current'[c] = current[c], upd'[c] = upd[c],
         c \in ipi \/ Ahead("ipi") => (c \in ipi \/ Ahead("ipi"))',
         CpuState(c)
  PROVE  CpuState(c)'
  <1>1. \A p \in 1..StackPages : regno'[KSTACK[c][p]] = regno[KSTACK[c][p]]
    BY DEF Stay
  <1>2. Registered(KSTACK[c])' <=> Registered(KSTACK[c])
    BY <1>1 DEF Registered
  <1>3. Registered(KSTACK[c]) => \A p \in 1..StackPages :
          entry'[regno'[KSTACK[c][p]]] = entry[regno[KSTACK[c][p]]]
    BY <1>1 DEF Stay, Registered
  <1>4. CASE Registered(KSTACK[c])
    <2>1. Moving(c) => Moving(c)'
      BY <1>3, <1>4 DEF Moving, PageAt
    <2>2. AllAt(c, InitTask) => AllAt(c, InitTask)'
      BY <1>3, <1>4 DEF AllAt, PageAt
    <2> QED
      BY <1>2, <1>4, <2>1, <2>2 DEF CpuState
  <1>5. CASE ~Registered(KSTACK[c])
    BY <1>2, <1>5 DEF CpuState
  <1> QED
    BY <1>4, <1>5

(* So for all CPUs at once. *)
LEMMA AllCpusStay ==
  ASSUME NamesApart, Stay(StackNames), CpuInv,
         UNCHANGED <<current, upd, ipi, md_current_stack_init>>, Ahead("ipi") => Ahead("ipi")'
  PROVE  CpuInv'
  <1>1. \A c \in CPUs : Stay({KSTACK[c][p] : p \in 1..StackPages})
    BY NameFacts DEF Stay
  <1>2. CASE md_current_stack_init
    BY <1>1, <1>2, CpuStays DEF CpuInv
  <1>3. CASE ~md_current_stack_init
    BY <1>1, <1>3 DEF CpuInv, Stay, PageAt
  <1> QED
    BY <1>2, <1>3

(* The suspend regions of a task have distinct names. *)
LEMMA SuspFacts ==
  ASSUME NamesApart, NEW t \in Tasks
  PROVE  /\ \A e \in SuspRegions(t) : e.name \in SuspendNames
         /\ \A e, f \in SuspRegions(t) : e.name = f.name => e = f
         /\ \A p \in 1..StackPages : PageRegion(KSUSPSTK[p], StackOf[t][p]) \in SuspRegions(t)
         /\ TaskRegion(t) \in SuspRegions(t)
  <1>1. \A n, a : PageRegion(n, a).name = n /\ PageRegion(n, a).phys_addr = a
    BY DEF PageRegion
  <1>2. \A e \in SuspRegions(t) : \/ e = PageRegion(KSUSPTASK, TaskAt[t])
                                  \/ \E p \in 1..StackPages : e = PageRegion(KSUSPSTK[p], StackOf[t][p])
    BY DEF SuspRegions, TaskRegion
  <1>3. \A e \in SuspRegions(t) : e.name \in SuspendNames
    BY <1>1, <1>2, NameFacts
  <1>4. ASSUME NEW e \in SuspRegions(t), NEW f \in SuspRegions(t), e.name = f.name PROVE e = f
    <2>1. CASE e = PageRegion(KSUSPTASK, TaskAt[t])
      BY <1>1, <1>2, <1>4, <2>1 DEF NamesApart
    <2>2. ASSUME NEW p \in 1..StackPages, e = PageRegion(KSUSPSTK[p], StackOf[t][p]) PROVE e = f
      <3>1. e.name = KSUSPSTK[p]
        BY <1>1, <2>2
      <3>2. CASE f = PageRegion(KSUSPTASK, TaskAt[t])
        BY <1>1, <1>4, <3>1, <3>2 DEF NamesApart
      <3>3. ASSUME NEW q \in 1..StackPages, f = PageRegion(KSUSPSTK[q], StackOf[t][q]) PROVE e = f
        <4>1. KSUSPSTK[p] = KSUSPSTK[q]
          BY <1>1, <1>4, <3>1, <3>3
        <4>2. p = q
          BY <4>1 DEF NamesApart
        <4> QED
          BY <2>2, <3>3, <4>2
      <3> QED
        BY <1>2, <3>2, <3>3
    <2> QED
      BY <1>2, <2>1, <2>2
  <1>5. /\ \A p \in 1..StackPages : PageRegion(KSUSPSTK[p], StackOf[t][p]) \in SuspRegions(t)
        /\ TaskRegion(t) \in SuspRegions(t)
    BY DEF SuspRegions
  <1> QED
    BY <1>3, <1>4, <1>5

(* Their names, once stack and task are registered. *)
LEMMA SuspNamesRegistered ==
  ASSUME NamesApart, NEW t \in Tasks, Registered(KSUSPSTK), regno[KSUSPTASK] # NotRegistered
  PROVE  \A n \in SuspendNames : regno[n] # NotRegistered
  BY DEF Registered, SuspendNames

(* As for the stacks of the CPUs. *)
LEMMA SuspStays ==
  ASSUME NamesApart, Stay(SuspendNames), SuspInv, UNCHANGED <<susp, susp_task, susp_init>>,
         susp_task \in Tasks
  PROVE  SuspInv'
  <1>1. /\ Registered(KSUSPSTK)' <=> Registered(KSUSPSTK) 
        /\ regno'[KSUSPTASK] = regno[KSUSPTASK]
        /\ \A e \in SuspRegions(susp_task) : regno'[e.name] = regno[e.name]
    BY NameFacts, SuspFacts DEF Stay, Registered
  <1>2. \A e \in SuspRegions(susp_task) : regno[e.name] # NotRegistered =>
          (PageAt(e.name, e.phys_addr)' <=> PageAt(e.name, e.phys_addr))
    BY SuspFacts DEF Stay, PageAt
  <1>3. SuspRegions(susp_task)' = SuspRegions(susp_task)
    BY DEF SuspRegions
  <1>4. CASE susp_init /\ Registered(KSUSPSTK) /\ regno[KSUSPTASK] # NotRegistered
    BY <1>1, <1>2, <1>3, <1>4, SuspFacts, SuspNamesRegistered DEF SuspInv
  <1>5. CASE ~susp_init
    BY <1>1, <1>2, <1>3, <1>5 DEF SuspInv
  <1>6. CASE susp_init /\ ~(Registered(KSUSPSTK) /\ regno[KSUSPTASK] # NotRegistered)
    BY <1>1, <1>3, <1>6 DEF SuspInv
  <1> QED
    BY <1>4, <1>5, <1>6

(* What is ahead stays ahead when another step is done. *)
LEMMA TodoTail ==
  ASSUME TodoInv, todo # <<>>, todo' = Tail(todo)
  PROVE  /\ \A op : Ahead(op) /\ Head(todo).op # op => Ahead(op)'
         /\ \A op : Ahead(op)' => Ahead(op)
         /\ \A i \in 1..Len(todo') : /\ Before(Head(todo), todo'[i])
                                     /\ \E j \in 1..Len(todo) : todo'[i] = todo[j]
         /\ \E j \in 1..Len(todo) : Head(todo) = todo[j]
  <1>1. todo \in Seq(LogSteps) /\ Ordered(todo)
    BY DEF TodoInv
  <1>2. /\ Head(todo) = todo[1] /\ Len(todo) \in Nat /\ Len(todo) >= 1
        /\ \A i \in 1..Len(todo) : todo[i] = Head(todo) \/ \E j \in 1..Len(todo') : todo'[j] = todo[i]
        /\ \A j \in 1..Len(todo') : \E i \in 2..Len(todo) : todo'[j] = todo[i]
    BY <1>1, TailFacts
  <1>3. \A i \in 1..Len(todo') : Before(Head(todo), todo'[i])
    BY <1>1, TailOrdered
  <1>4. \A j \in 1..Len(todo') : \E i \in 1..Len(todo) : todo'[j] = todo[i]
    BY <1>2
  <1>5. ASSUME NEW op, Ahead(op), Head(todo).op # op PROVE Ahead(op)'
    BY <1>2, <1>5 DEF Ahead, Has
  <1>6. ASSUME NEW op, Ahead(op)' PROVE Ahead(op)
    BY <1>4, <1>6 DEF Ahead, Has
  <1>7. \E j \in 1..Len(todo) : Head(todo) = todo[j]
    BY <1>2
  <1> QED
    BY <1>3, <1>4, <1>5, <1>6, <1>7

(* The part of BootInv about the list, when it loses its first step. *)
TodoClaims ==
  \A i \in 1..Len(todo) :
    /\ todo[i].e.name = KMSG => \A n \in UpdatedNames : regno[n] = NotRegistered
    /\ todo[i].e.name \in StackNames => ~md_current_stack_init
    /\ todo[i].e.name \in SuspendNames => ~susp_init

(* The order of the list, seen from its first step. *)
LEMMA FlagFacts ==
  ASSUME TodoInv, BootInv, todo # <<>>, todo' = Tail(todo)
  PROVE  /\ Ahead("flag")' => Ahead("ipi")'
         /\ Head(todo).op = "flag" => Ahead("ipi")' /\ hooked
         /\ Head(todo).op = "ipi" => md_current_stack_init
         /\ Head(todo).op = "add" /\ Head(todo).e.name \in StackNames => ~md_current_stack_init
         /\ Head(todo).op = "add" /\ Head(todo).e.name \in SuspendNames => ~susp_init
         /\ Head(todo).e.name = KMSG => \A n \in UpdatedNames : regno[n] = NotRegistered
  <1>1. /\ \A op : Ahead(op) /\ Head(todo).op # op => Ahead(op)'
        /\ \A op : Ahead(op)' => Ahead(op)
        /\ \A i \in 1..Len(todo') : Before(Head(todo), todo'[i])
        /\ \E j \in 1..Len(todo) : Head(todo) = todo[j]
    BY TodoTail
  <1>2. Head(todo).op = "ipi" => ~Ahead("flag")'
    BY <1>1 DEF Ahead, Has, Before
  <1>3. Head(todo).op = "flag" => ~Ahead("hook")'
    BY <1>1 DEF Ahead, Has, Before
  <1>4. Ahead(Head(todo).op)
    BY <1>1 DEF Ahead, Has
  <1>5. Head(todo).op = "flag" => Ahead("ipi")' /\ hooked
    BY <1>1, <1>3, <1>4 DEF BootInv
  <1>6. Head(todo).op = "ipi" => md_current_stack_init
    BY <1>1, <1>2 DEF BootInv
  <1>7. Ahead("flag")' => Ahead("ipi")'
    BY <1>1, <1>2 DEF BootInv
  <1>8. /\ Head(todo).op = "add" /\ Head(todo).e.name \in StackNames => ~md_current_stack_init
        /\ Head(todo).op = "add" /\ Head(todo).e.name \in SuspendNames => ~susp_init
        /\ Head(todo).e.name = KMSG => \A n \in UpdatedNames : regno[n] = NotRegistered
    BY <1>1 DEF BootInv
  <1> QED
    BY <1>5, <1>6, <1>7, <1>8

(* Steps of others change nothing. *)
LEMMA OtherStackInv ==
  ASSUME NamesApart, Stay(UpdatedNames), UNCHANGED <<init_vars, stack_vars>>, StackInv
  PROVE  StackInv'
  <1> USE DEF init_vars, stack_vars, StackInv
  <1>1. Stay(StackNames) /\ Stay(SuspendNames) /\ \A n \in UpdatedNames : regno'[n] = regno[n]
    BY DEF Stay, UpdatedNames
  <1>2. CpuInv'
    BY <1>1, AllCpusStay DEF Ahead, Has
  <1>3. SuspInv'
    BY <1>1, SuspStays DEF BootInv
  <1>4. BootInv'
    BY <1>1 DEF BootInv, OneCpu, Ahead, Has
  <1> QED
    BY <1>2, <1>3, <1>4

(* A step of the list that leaves regions, stacks and suspend alone. *)
LEMMA ListBootInv ==
  ASSUME NamesApart, TodoInv, BootInv, todo # <<>>, todo' = Tail(todo),
         UNCHANGED <<stack_vars, hooked, md_current_stack_init, susp_init>>,
         \A n \in UpdatedNames : regno'[n] = regno[n],
         Head(todo).op \notin {"hook", "flag"}
  PROVE  BootInv'
  <1> USE DEF stack_vars
  <1>1. /\ \A op : Ahead(op) /\ Head(todo).op # op => Ahead(op)'
        /\ \A i \in 1..Len(todo') : \E j \in 1..Len(todo) : todo'[i] = todo[j]
    BY TodoTail
  <1>2. Ahead("flag")' => Ahead("ipi")'
    BY FlagFacts
  <1>3. TodoClaims'
    BY <1>1 DEF BootInv, TodoClaims
  <1>4. OneCpu'
    BY DEF BootInv, OneCpu
  <1>5. (~hooked => ~md_current_stack_init /\ (Ahead("hook") \/ todo = <<>>))'
    BY <1>1 DEF BootInv
  <1>6. (~md_current_stack_init =>
           /\ ipi = {} /\ \A c \in CPUs : upd[c] = <<>>
           /\ \/ Ahead("flag")
              \/ todo = <<>> /\ \A n \in UpdatedNames : regno[n] = NotRegistered)'
    BY <1>1 DEF BootInv
  <1> QED
    BY <1>2, <1>3, <1>4, <1>5, <1>6 DEF BootInv, TodoClaims

(* A region of the log: a dummy is registered before the flag is set. *)
LEMMA LogAddStackInv ==
  ASSUME RegionsKnown, NamesApart, CallInv, StackInv, LogAdd
  PROVE  StackInv'
  <1> USE DEF CallInv, CallTodoInv, StackInv, stack_vars
  <1> DEFINE e == Head(todo).e
  <1>1. /\ todo # <<>> /\ Head(todo).op = "add" /\ TryAdd(e)
        /\ UNCHANGED <<stack_vars, hooked, md_current_stack_init, susp_init>>
        /\ \/ todo' = Tail(todo)
           \/ e.name = KMSG /\ num_regions' = num_regions /\ todo' = <<>>
    BY DEF LogAdd, Doing
  <1>2. e \in Regions /\ FirstRegistered(e)
    BY <1>1, HeadFacts
  <1>3. /\ \A n \in UpdatedNames : regno[n] # NotRegistered =>
             regno'[n] = regno[n] /\ entry'[regno[n]] = entry[regno[n]]
        /\ \A n \in UpdatedNames : n # e.name => regno'[n] = regno[n]
        /\ \A n \in UpdatedNames : n = e.name /\ regno[n] = NotRegistered =>
             regno'[n] = NotRegistered \/ entry'[regno'[n]] = e
        /\ num_regions' = num_regions => UNCHANGED vars
    BY <1>1, <1>2, AddStays
  <1>4. CASE todo' = <<>> /\ e.name = KMSG /\ num_regions' = num_regions
    <2>1. UNCHANGED vars
      BY <1>3, <1>4
    <2>2. \A n \in UpdatedNames : regno[n] = NotRegistered /\ regno'[n] = NotRegistered
      <3>1. \E j \in 1..Len(todo) : Head(todo) = todo[j]
        <4>1. todo \in Seq(LogSteps)
          BY DEF TodoInv
        <4>2. Head(todo) = todo[1] /\ 1 \in 1..Len(todo)
          BY <1>1, <4>1, TailFacts
        <4> QED
          BY <4>2
      <3>2. \A n \in UpdatedNames : regno[n] = NotRegistered
        BY <1>4, <3>1 DEF BootInv
      <3> QED
        BY <2>1, <3>2 DEF vars
    <2>3. BootInv'
      <3>1. ~Ahead("flag")' /\ Len(todo') = 0
        BY <1>4 DEF Ahead, Has
      <3> QED
        BY <1>1, <1>4, <2>2, <3>1 DEF BootInv, OneCpu
    <2>4. Stay(SuspendNames) /\ Stay(StackNames)
      BY <2>1 DEF Stay, vars
    <2>5. SuspInv'
      BY <1>1, <2>4, SuspStays DEF BootInv
    <2>6. CpuInv'
      <3>1. ASSUME NEW c \in CPUs PROVE ~Registered(KSTACK[c]) /\ ~Registered(KSTACK[c])'
        <4>1. 1 \in 1..StackPages
          BY LogAssumption
        <4> QED
          BY <2>2, <4>1, NameFacts DEF Registered
      <3>2. \A c \in CPUs, p \in 1..StackPages : regno'[KSTACK[c][p]] = NotRegistered
        BY <2>2, NameFacts
      <3> QED
        BY <1>1, <3>1, <3>2 DEF CpuInv, CpuState
    <2> QED
      BY <2>3, <2>5, <2>6
  <1>5. CASE todo' = Tail(todo)
    <2>1. /\ \A op : Ahead(op) /\ Head(todo).op # op => Ahead(op)'
          /\ \A i \in 1..Len(todo') : /\ Before(Head(todo), todo'[i])
                                      /\ \E j \in 1..Len(todo) : todo'[i] = todo[j]
      BY <1>1, <1>5, TodoTail
    <2>2. /\ e.name \in StackNames => ~md_current_stack_init
          /\ e.name \in SuspendNames => ~susp_init
          /\ Ahead("flag")' => Ahead("ipi")'
      BY <1>1, <1>5, FlagFacts
    <2>3. BootInv'
      <3>1. TodoClaims'
        <4>1. \A i \in 1..Len(todo') : todo'[i].e.name # KMSG
          BY <2>1 DEF Before
        <4> QED
          BY <1>1, <2>1, <4>1 DEF BootInv, TodoClaims
      <3>2. Ahead("ipi") => Ahead("ipi")'
        BY <1>1, <2>1
      <3>3. ~md_current_stack_init => Ahead("flag")'
        BY <1>1, <2>1 DEF BootInv
      <3>4. ~hooked => Ahead("hook")'
        BY <1>1, <2>1 DEF BootInv
      <3> QED
        BY <1>1, <2>2, <3>1, <3>3, <3>4 DEF BootInv, OneCpu, TodoClaims
    <2>4. CpuInv'
      <3>1. CASE e.name \in StackNames
        <4>1. ~md_current_stack_init /\ ~md_current_stack_init'
          BY <1>1, <2>2, <3>1
        <4>2. ASSUME NEW c \in CPUs, NEW p \in 1..StackPages, regno'[KSTACK[c][p]] # NotRegistered
              PROVE  PageAt(KSTACK[c][p], StackOf[InitTask][p])'
          <5>1. KSTACK[c][p] \in UpdatedNames
            BY NameFacts
          <5>2. CASE regno[KSTACK[c][p]] # NotRegistered
            BY <1>3, <4>1, <5>1, <5>2 DEF CpuInv, PageAt
          <5>3. CASE regno[KSTACK[c][p]] = NotRegistered
            <6>1. KSTACK[c][p] = e.name /\ entry'[regno'[KSTACK[c][p]]] = e
              BY <1>3, <4>2, <5>1, <5>3
            <6> QED
              BY <1>2, <6>1 DEF FirstRegistered, PageAt
          <5> QED
            BY <5>2, <5>3
        <4> QED
          BY <4>1, <4>2 DEF CpuInv
      <3>2. CASE e.name \notin StackNames
        <4>1. Stay(StackNames)
          BY <1>3, <3>2, NameFacts DEF Stay
        <4> QED
          BY <1>1, <2>1, <4>1, AllCpusStay
      <3> QED
        BY <3>1, <3>2
    <2>5. SuspInv'
      <3>1. CASE e.name \in SuspendNames
        <4>1. ~susp_init /\ ~susp_init' /\ susp_task = InitTask /\ susp = <<>>
          BY <1>1, <2>2, <3>1 DEF BootInv
        <4>2. ASSUME NEW f \in SuspRegions(InitTask), regno'[f.name] # NotRegistered
              PROVE  PageAt(f.name, f.phys_addr)'
          <5>1. f.name \in SuspendNames /\ f.name \in UpdatedNames
            BY SuspFacts, LogAssumption, NameFacts
          <5>2. CASE regno[f.name] # NotRegistered
            <6>1. PageAt(f.name, f.phys_addr)
              BY <4>1, <5>2 DEF SuspInv
            <6> QED
              BY <1>3, <5>1, <5>2, <6>1 DEF PageAt
          <5>3. CASE regno[f.name] = NotRegistered
            <6>1. f.name = e.name /\ entry'[regno'[f.name]] = e
              BY <1>3, <4>2, <5>1, <5>3
            <6>2. e.phys_addr = f.phys_addr
              <7>1. CASE f = TaskRegion(InitTask)
                BY <1>2, <6>1, <7>1 DEF FirstRegistered, TaskRegion, PageRegion
              <7>2. ASSUME NEW p \in 1..StackPages, f = PageRegion(KSUSPSTK[p], StackOf[InitTask][p])
                    PROVE  e.phys_addr = f.phys_addr
                <8>1. f.name = KSUSPSTK[p] /\ f.phys_addr = StackOf[InitTask][p]
                  BY <7>2 DEF PageRegion
                <8> QED
                  BY <1>2, <6>1, <8>1 DEF FirstRegistered
              <7> QED
                BY <7>1, <7>2 DEF SuspRegions
            <6> QED
              BY <6>1, <6>2 DEF PageAt
          <5> QED
            BY <5>2, <5>3
        <4>3. susp_task' = InitTask /\ susp' = <<>> /\ SuspRegions(susp_task)' = SuspRegions(InitTask)
          BY <1>1, <4>1 DEF SuspRegions
        <4> QED
          BY <4>1, <4>2, <4>3 DEF SuspInv
      <3>2. CASE e.name \notin SuspendNames
        <4>1. Stay(SuspendNames)
          BY <1>3, <3>2, NameFacts DEF Stay
        <4> QED
          BY <1>1, <4>1, SuspStays DEF BootInv
      <3> QED
        BY <3>1, <3>2
    <2> QED
      BY <2>3, <2>4, <2>5
  <1> QED
    BY <1>1, <1>4, <1>5

(* The memory dump at boot is none of the log's stacks. *)
LEMMA LogDumpStackInv ==
  ASSUME RegionsKnown, NamesApart, CallInv, StackInv, LogDump
  PROVE  StackInv'
  <1> USE DEF CallInv, CallTodoInv, StackInv, stack_vars
  <1>1. /\ todo # <<>> /\ Head(todo).op = "dump" /\ todo' = Tail(todo)
        /\ UNCHANGED <<stack_vars, hooked, md_current_stack_init, susp_init>>
    BY DEF LogDump, Doing
  <1>2. PICK e \in DumpRegions : TryAdd(e)
    BY DEF LogDump
  <1>3. e \in Regions /\ e.name \notin UpdatedNames
    BY NameFacts DEF RegionsKnown, NamesApart
  <1>4. Stay(UpdatedNames)
    BY <1>2, <1>3, AddStays
  <1>5. Stay(StackNames) /\ Stay(SuspendNames) /\ \A n \in UpdatedNames : regno'[n] = regno[n]
    BY <1>4 DEF Stay, UpdatedNames
  <1>6. BootInv'
    BY <1>1, <1>5, ListBootInv
  <1>7. Ahead("ipi") => Ahead("ipi")'
    BY <1>1, TodoTail
  <1>8. CpuInv'
    BY <1>1, <1>5, <1>7, AllCpusStay
  <1>9. SuspInv'
    BY <1>1, <1>5, SuspStays DEF BootInv
  <1> QED
    BY <1>6, <1>8, <1>9

(* A step that calls nothing of the driver. *)
LEMMA SameStays ==
  ASSUME UNCHANGED vars
  PROVE  /\ Stay(StackNames) /\ Stay(SuspendNames)
         /\ \A n \in UpdatedNames : regno'[n] = regno[n]
  BY DEF vars, Stay

(* The flag is set when every stack is the dummy and the interrupt is ahead. *)
LEMMA LogFlagStackInv ==
  ASSUME RegionsKnown, NamesApart, CallInv, StackInv, LogFlag
  PROVE  StackInv'
  <1> USE DEF CallInv, CallTodoInv, StackInv, stack_vars
  <1> DEFINE op == Head(todo).op
  <1>1. /\ todo # <<>> /\ todo' = Tail(todo) /\ UNCHANGED <<vars, stack_vars>>
        /\ \/ op = "hook" /\ hooked' = TRUE /\ UNCHANGED <<md_current_stack_init, susp_init>>
           \/ op = "flag" /\ md_current_stack_init' = TRUE /\ UNCHANGED <<hooked, susp_init>>
           \/ op = "susp" /\ susp_init' = TRUE /\ UNCHANGED <<hooked, md_current_stack_init>>
           \/ op = "modules" /\ UNCHANGED <<hooked, md_current_stack_init, susp_init>>
    BY DEF LogFlag, Doing
  <1>2. /\ \A o : Ahead(o) /\ op # o => Ahead(o)'
        /\ \A i \in 1..Len(todo') : /\ Before(Head(todo), todo'[i])
                                    /\ \E j \in 1..Len(todo) : todo'[i] = todo[j]
    BY <1>1, TodoTail
  <1>3. /\ Stay(StackNames) /\ Stay(SuspendNames)
        /\ \A n \in UpdatedNames : regno'[n] = regno[n]
    BY <1>1, SameStays
  <1>4. /\ Ahead("flag")' => Ahead("ipi")'
        /\ op = "flag" => Ahead("ipi")' /\ hooked
    BY <1>1, FlagFacts
  <1>5. Ahead("ipi") => Ahead("ipi")'
    BY <1>1, <1>2
  <1>6. OneCpu'
    BY <1>1 DEF BootInv, OneCpu
  <1>7. CASE op = "flag"
    <2>1. /\ md_current_stack_init' = TRUE /\ UNCHANGED <<hooked, susp_init>>
          /\ hooked /\ Ahead("ipi")'
      BY <1>1, <1>4, <1>7
    <2>2. TodoClaims'
      BY <1>1, <1>2, <1>7, <2>1 DEF BootInv, TodoClaims, Before
    <2>3. BootInv'
      BY <1>1, <1>6, <2>1, <2>2 DEF BootInv, TodoClaims
    <2>4. CpuInv'
      <3>1. ASSUME NEW c \in CPUs PROVE CpuState(c)'
        <4>1. CASE md_current_stack_init
          <5>1. CpuState(c)
            BY <4>1 DEF CpuInv
          <5>2. Stay({KSTACK[c][p] : p \in 1..StackPages})
            BY <1>3, NameFacts DEF Stay
          <5> QED
            BY <1>1, <2>1, <5>1, <5>2, CpuStays
        <4>2. CASE ~md_current_stack_init
          <5>1. upd'[c] = <<>>
            BY <1>1, <4>2 DEF BootInv
          <5>2. Registered(KSTACK[c])' => AllAt(c, InitTask)'
            BY <1>1, <4>2 DEF CpuInv, Registered, AllAt, PageAt, vars
          <5> QED
            BY <2>1, <5>1, <5>2 DEF CpuState
        <4> QED
          BY <4>1, <4>2
      <3> QED
        BY <2>1, <3>1 DEF CpuInv
    <2>5. SuspInv'
      BY <1>1, <1>3, <2>1, SuspStays DEF BootInv
    <2> QED
      BY <2>3, <2>4, <2>5
  <1>8. CASE op # "flag"
    <2>1. UNCHANGED md_current_stack_init
      BY <1>1, <1>8
    <2>2. CpuInv'
      BY <1>1, <1>3, <1>5, <2>1, AllCpusStay
    <2>3. TodoClaims'
      BY <1>1, <1>2, <2>1 DEF BootInv, TodoClaims, Before
    <2>4. Ahead("flag") => Ahead("flag")'
      BY <1>2, <1>8
    <2>5. (~hooked => ~md_current_stack_init /\ (Ahead("hook") \/ todo = <<>>))'
      BY <1>1, <1>2, <2>1 DEF BootInv
    <2>6. /\ hooked' \in BOOLEAN /\ susp_init' \in BOOLEAN /\ md_current_stack_init' \in BOOLEAN
          /\ (~susp_init)' => ~susp_init
      <3>1. hooked \in BOOLEAN /\ susp_init \in BOOLEAN /\ md_current_stack_init \in BOOLEAN
        BY DEF BootInv
      <3>2. (hooked' = TRUE \/ hooked' = hooked) /\ (susp_init' = TRUE \/ susp_init' = susp_init)
        BY <1>1, <1>8
      <3>3. hooked' \in BOOLEAN
        BY <3>1, <3>2
      <3>4. susp_init' \in BOOLEAN /\ (~susp_init' => ~susp_init)
        <4>1. CASE susp_init' = TRUE
          BY <4>1
        <4>2. CASE susp_init' = susp_init
          <5>1. susp_init' \in BOOLEAN
            BY <3>1, <4>2
          <5>2. ~susp_init' => ~susp_init
            BY <4>2
          <5> QED
            BY <5>1, <5>2
        <4> QED
          BY <3>2, <4>1, <4>2
      <3>5. md_current_stack_init' \in BOOLEAN
        BY <2>1, <3>1
      <3> QED
        BY <3>3, <3>4, <3>5
    <2>7. (~md_current_stack_init)' =>
             /\ ipi' = {} /\ \A c \in CPUs : upd'[c] = <<>>
             /\ Ahead("flag")'
      BY <1>1, <2>1, <2>4 DEF BootInv
    <2>8. BootInv'
      BY <1>1, <1>4, <1>6, <2>3, <2>5, <2>6, <2>7 DEF BootInv, TodoClaims
    <2>9. SuspInv'
      <3>1. CASE UNCHANGED susp_init
        BY <1>1, <1>3, <3>1, SuspStays DEF BootInv
      <3>2. CASE susp_init' = TRUE /\ ~susp_init
        <4>1. SuspRegions(susp_task)' = SuspRegions(susp_task) /\ susp_task \in Tasks
          BY <1>1 DEF SuspRegions, BootInv
        <4>2. ASSUME (Registered(KSUSPSTK) /\ regno[KSUSPTASK] # NotRegistered)',
                     NEW e \in SuspRegions(susp_task)
              PROVE  PageAt(e.name, e.phys_addr)'
          <5>1. regno[e.name] # NotRegistered
            BY <1>1, <4>1, <4>2, SuspFacts, SuspNamesRegistered DEF vars, Registered
          <5> QED
            BY <1>1, <3>2, <5>1 DEF SuspInv, PageAt, vars
        <4>3. susp' = <<>>
          BY <1>1, <3>2 DEF BootInv
        <4> QED
          BY <3>2, <4>1, <4>2, <4>3 DEF SuspInv
      <3> QED
        BY <1>1, <1>8, <3>1, <3>2 DEF BootInv
    <2> QED
      BY <2>2, <2>8, <2>9
  <1> QED
    BY <1>7, <1>8

(* The CPU that sends the interrupt runs the task whose stack the dummy is. *)
LEMMA LogIpiStackInv ==
  ASSUME RegionsKnown, NamesApart, CallInv, StackInv, LogIpi
  PROVE  StackInv'
  <1> USE DEF CallInv, CallTodoInv, StackInv, stack_vars
  <1>1. /\ todo # <<>> /\ todo' = Tail(todo)
        /\ UNCHANGED <<vars, hooked, md_current_stack_init, susp_init, current, upd, susp, susp_task>>
        /\ \/ Head(todo).op = "ipi" /\ \E c \in CPUs : current[c] = InitTask /\ ipi' = CPUs \ {c}
           \/ Head(todo).op = "wait" /\ UNCHANGED ipi
    BY DEF LogIpi, Doing
  <1>2. /\ \A o : Ahead(o) /\ Head(todo).op # o => Ahead(o)'
        /\ \A i \in 1..Len(todo') : \E j \in 1..Len(todo) : todo'[i] = todo[j]
    BY <1>1, TodoTail
  <1>3. /\ Stay(StackNames) /\ Stay(SuspendNames)
        /\ \A n \in UpdatedNames : regno'[n] = regno[n]
    BY <1>1, SameStays
  <1>4. SuspInv'
    BY <1>1, <1>3, SuspStays DEF BootInv
  <1>5. CASE Head(todo).op = "wait" /\ UNCHANGED ipi
    <2>1. BootInv'
      BY <1>1, <1>3, <1>5, ListBootInv
    <2>2. Ahead("ipi") => Ahead("ipi")'
      BY <1>2, <1>5
    <2>3. CpuInv'
      BY <1>1, <1>3, <1>5, <2>2, AllCpusStay
    <2> QED
      BY <1>4, <2>1, <2>3
  <1>6. CASE Head(todo).op = "ipi"
    <2>1. PICK d \in CPUs : current[d] = InitTask /\ ipi' = CPUs \ {d}
      BY <1>1, <1>6
    <2>2. md_current_stack_init /\ (Ahead("flag")' => Ahead("ipi")')
      BY <1>1, <1>6, FlagFacts
    <2>3. BootInv'
      <3>1. TodoClaims'
        BY <1>1, <1>2, <1>3 DEF BootInv, TodoClaims
      <3>2. OneCpu' /\ hooked'
        BY <1>1, <2>2 DEF BootInv, OneCpu
      <3> QED
        BY <1>1, <2>1, <2>2, <3>1, <3>2 DEF BootInv, TodoClaims
    <2>4. ASSUME NEW c \in CPUs PROVE CpuState(c)'
      <3>1. CpuState(c)
        BY <2>2 DEF CpuInv
      <3>2. Stay({KSTACK[c][p] : p \in 1..StackPages})
        BY <1>3, NameFacts DEF Stay
      <3>3. CASE c # d
        BY <1>1, <2>1, <3>1, <3>2, <3>3, CpuStays
      <3>4. CASE c = d
        <4>1. CpuState(c) => (Registered(KSTACK[c]) => Moving(c)) /\ (~Registered(KSTACK[c]) => upd[c] = <<>>)
          BY <2>1, <3>4, LogAssumption DEF CpuState, Moving, AllAt
        <4>2. Moving(c)' <=> Moving(c)
          BY <1>1 DEF Moving, PageAt, vars
        <4>3. Registered(KSTACK[c])' <=> Registered(KSTACK[c])
          BY <1>1 DEF Registered, vars
        <4> QED
          BY <1>1, <3>1, <4>1, <4>2, <4>3 DEF CpuState
      <3> QED
        BY <3>3, <3>4
    <2>5. CpuInv'
      BY <1>1, <2>2, <2>4 DEF CpuInv
    <2> QED
      BY <1>4, <2>3, <2>5
  <1> QED
    BY <1>1, <1>5, <1>6

(* All that is to be updated after a switch or the interrupt. *)
LEMMA UpdateMoving ==
  ASSUME RegionsKnown, NamesApart, NEW c \in CPUs, md_current_stack_init,
         current'[c] \in Tasks \cup {IdleTask}, UNCHANGED vars,
         upd'[c] = CpuStackUpdate(c, current'[c])
  PROVE  CpuState(c)'
  <1> DEFINE t == current'[c]
             r == StackRegions(KSTACK[c], t)
  <1>1. Registered(KSTACK[c])' <=> Registered(KSTACK[c])
    BY DEF vars, Registered
  <1>2. CASE ~Registered(KSTACK[c])
    BY <1>1, <1>2 DEF CpuState, CpuStackUpdate
  <1>3. CASE t = IdleTask
    BY <1>1, <1>3 DEF CpuState, CpuStackUpdate
  <1>4. CASE Registered(KSTACK[c]) /\ t # IdleTask
    <2>1. t \in Tasks /\ upd'[c] = r
      BY <1>4 DEF CpuStackUpdate
    <2>2. Len(r) = StackPages
      BY <2>1, StackRegionsMoves
    <2>3. Moving(c)'
      BY <2>1, <2>2 DEF Moving
    <2> QED
      BY <1>1, <1>4, <2>3 DEF CpuState
  <1> QED
    BY <1>2, <1>3, <1>4

(* A context switch starts to move the stack of its CPU. *)
LEMMA SwitchStackInv ==
  ASSUME RegionsKnown, NamesApart, CallInv, StackInv,
         NEW c \in CPUs, NEW t \in Tasks \cup {IdleTask}, Switch(c, t)
  PROVE  StackInv'
  <1> USE DEF CallInv, CallTodoInv, StackInv, init_vars
  <1>1. /\ UNCHANGED <<vars, init_vars, ipi, susp, susp_task>>
        /\ current' = [current EXCEPT ![c] = t]
        /\ upd' = [upd EXCEPT ![c] = IF hooked THEN CpuStackUpdate(c, t) ELSE <<>>]
        /\ t = IdleTask \/ \A d \in CPUs : current[d] # t
    BY DEF Switch
  <1>2. /\ current \in [CPUs -> Tasks \cup {IdleTask}] /\ upd \in [CPUs -> Seq(Moves)]
    BY DEF TodoInv
  <1>3. /\ current'[c] = t /\ upd'[c] = IF hooked THEN CpuStackUpdate(c, t) ELSE <<>>
        /\ \A d \in CPUs : d # c => current'[d] = current[d] /\ upd'[d] = upd[d]
    BY <1>1, <1>2
  <1>4. /\ Stay(StackNames) /\ Stay(SuspendNames)
        /\ \A n \in UpdatedNames : regno'[n] = regno[n]
    BY <1>1, SameStays
  <1>5. SuspInv'
    BY <1>1, <1>4, SuspStays DEF BootInv
  <1>6. OneCpu'
    BY <1>1, <1>3 DEF BootInv, OneCpu
  <1>7. ~md_current_stack_init => upd'[c] = <<>>
    BY <1>3 DEF CpuStackUpdate
  <1>8. BootInv'
    <2>1. \A o : Ahead(o)' <=> Ahead(o)
      BY <1>1 DEF Ahead, Has
    <2>2. TodoClaims'
      BY <1>1, <1>4 DEF BootInv, TodoClaims
    <2>3. (~md_current_stack_init =>
             /\ ipi = {} /\ \A d \in CPUs : upd[d] = <<>>
             /\ \/ Ahead("flag")
                \/ todo = <<>> /\ \A n \in UpdatedNames : regno[n] = NotRegistered)'
      BY <1>1, <1>3, <1>4, <1>7, <2>1 DEF BootInv
    <2> QED
      BY <1>1, <1>6, <2>1, <2>2, <2>3 DEF BootInv, TodoClaims
  <1>9. CpuInv'
    <2>1. CASE ~md_current_stack_init
      BY <1>1, <2>1 DEF CpuInv, PageAt, vars
    <2>2. CASE md_current_stack_init
      <3>1. hooked
        BY <2>2 DEF BootInv
      <3>2. CpuState(c)'
        BY <1>1, <1>3, <2>2, <3>1, UpdateMoving
      <3>3. ASSUME NEW d \in CPUs, d # c PROVE CpuState(d)'
        <4>1. Stay({KSTACK[d][p] : p \in 1..StackPages})
          BY <1>4, NameFacts DEF Stay
        <4>2. Ahead("ipi")' <=> Ahead("ipi")
          BY <1>1 DEF Ahead, Has
        <4> QED
          BY <1>1, <1>3, <2>2, <3>3, <4>1, <4>2, CpuStays DEF CpuInv
      <3> QED
        BY <1>1, <2>2, <3>2, <3>3 DEF CpuInv
    <2> QED
      BY <2>1, <2>2
  <1> QED
    BY <1>5, <1>8, <1>9

(* So does the interrupt, in the task it finds. *)
LEMMA IpiStackInv ==
  ASSUME RegionsKnown, NamesApart, CallInv, StackInv, NEW c \in CPUs, Ipi(c)
  PROVE  StackInv'
  <1> USE DEF CallInv, CallTodoInv, StackInv, init_vars
  <1>1. /\ UNCHANGED <<vars, init_vars, current, susp, susp_task>>
        /\ c \in ipi /\ ipi' = ipi \ {c}
        /\ upd' = [upd EXCEPT ![c] = CpuStackUpdate(c, current[c])]
    BY DEF Ipi
  <1>2. /\ current \in [CPUs -> Tasks \cup {IdleTask}] /\ upd \in [CPUs -> Seq(Moves)]
        /\ md_current_stack_init
    BY <1>1 DEF TodoInv, BootInv
  <1>3. /\ upd'[c] = CpuStackUpdate(c, current'[c]) /\ current'[c] \in Tasks \cup {IdleTask}
        /\ \A d \in CPUs : d # c => upd'[d] = upd[d] /\ current'[d] = current[d]
    BY <1>1, <1>2
  <1>4. /\ Stay(StackNames) /\ Stay(SuspendNames)
        /\ \A n \in UpdatedNames : regno'[n] = regno[n]
    BY <1>1, SameStays
  <1>5. SuspInv'
    BY <1>1, <1>4, SuspStays DEF BootInv
  <1>6. BootInv'
    <2>1. \A o : Ahead(o)' <=> Ahead(o)
      BY <1>1 DEF Ahead, Has
    <2>2. TodoClaims'
      BY <1>1, <1>4 DEF BootInv, TodoClaims
    <2>3. OneCpu'
      BY <1>1 DEF BootInv, OneCpu
    <2> QED
      BY <1>1, <1>2, <2>1, <2>2, <2>3 DEF BootInv, TodoClaims
  <1>7. CpuInv'
    <2>1. CpuState(c)'
      BY <1>1, <1>2, <1>3, UpdateMoving
    <2>2. ASSUME NEW d \in CPUs, d # c PROVE CpuState(d)'
      <3>1. Stay({KSTACK[d][p] : p \in 1..StackPages})
        BY <1>4, NameFacts DEF Stay
      <3>2. d \in ipi \/ Ahead("ipi") => (d \in ipi \/ Ahead("ipi"))'
        BY <1>1, <2>2 DEF Ahead, Has
      <3> QED
        BY <1>2, <1>3, <2>2, <3>1, <3>2, CpuStays DEF CpuInv
    <2> QED
      BY <1>1, <1>2, <2>1, <2>2 DEF CpuInv
  <1> QED
    BY <1>5, <1>6, <1>7

(* A page of a CPU's stack is moved; no other region is. *)
LEMMA UpdatePageStackInv ==
  ASSUME RegionsKnown, NamesApart, CallInv, StackInv, NEW c \in CPUs, UpdatePage(c)
  PROVE  StackInv'
  <1> USE DEF CallInv, CallTodoInv, StackInv, init_vars
  <1> DEFINE e == Head(upd[c])
             t == current[c]
             r == StackRegions(KSTACK[c], t)
  <1>1. /\ UNCHANGED <<init_vars, current, ipi, susp, susp_task>>
        /\ upd[c] # <<>> /\ UpdateRegion(e) /\ upd' = [upd EXCEPT ![c] = Tail(upd[c])]
    BY DEF UpdatePage
  <1>2. upd \in [CPUs -> Seq(Moves)] /\ upd[c] \in Seq(Moves)
    BY DEF TodoInv
  <1>3. /\ upd'[c] = Tail(upd[c]) /\ \A d \in CPUs : d # c => upd'[d] = upd[d]
    BY <1>1, <1>2
  <1>4. /\ e \in Moves /\ Len(upd[c]) \in Nat /\ Len(upd[c]) >= 1 /\ e = upd[c][1]
        /\ \A i \in 1..Len(upd[c]) : upd[c][i] = e \/ \E j \in 1..Len(upd'[c]) : upd'[c][j] = upd[c][i]
        /\ \A j \in 1..Len(upd'[c]) : \E i \in 2..Len(upd[c]) : upd'[c][j] = upd[c][i]
    BY <1>1, <1>2, <1>3, TailFacts
  <1>5. md_current_stack_init
    BY <1>1 DEF BootInv
  <1>6. Registered(KSTACK[c]) /\ Moving(c)
    <2>1. CpuState(c)
      BY <1>5 DEF CpuInv
    <2> QED
      BY <1>1, <2>1 DEF CpuState
  <1>7. t \in Tasks /\ \A p \in 1..StackPages : r[p] = PageRegion(KSTACK[c][p], StackOf[t][p])
    BY <1>6 DEF Moving, StackRegions
  <1>8. \A p \in 1..StackPages : r[p].name = KSTACK[c][p] /\ r[p].phys_addr = StackOf[t][p]
    <2>1. \A n, a : PageRegion(n, a).name = n /\ PageRegion(n, a).phys_addr = a
      BY DEF PageRegion
    <2> HIDE DEF r
    <2> QED
      BY <1>7, <2>1
  <1>9. PICK q \in 1..StackPages : e = r[q]
    <2>1. 1 \in 1..Len(upd[c])
      BY <1>4
    <2> QED
      BY <1>4, <1>6, <2>1 DEF Moving
  <1>10. e.name = KSTACK[c][q] /\ e.phys_addr = StackOf[t][q]
    BY <1>8, <1>9
  <1>11. /\ regno' = regno
         /\ entry'[regno[e.name]].phys_addr = e.phys_addr
         /\ \A n \in UpdatedNames : n # e.name /\ regno[n] # NotRegistered =>
              entry'[regno[n]] = entry[regno[n]]
    BY <1>1, <1>4, UpdateMoves
  <1>12. Stay(SuspendNames)
    <2>1. e.name \notin SuspendNames
      BY <1>10, NameFacts
    <2> QED
      BY <1>11, <2>1, NameFacts DEF Stay
  <1>13. SuspInv'
    BY <1>1, <1>12, SuspStays DEF BootInv
  <1>14. BootInv'
    <2>1. \A o : Ahead(o)' <=> Ahead(o)
      BY <1>1 DEF Ahead, Has
    <2>2. TodoClaims'
      BY <1>1, <1>11 DEF BootInv, TodoClaims
    <2>3. OneCpu'
      BY <1>1 DEF BootInv, OneCpu
    <2> QED
      BY <1>1, <1>5, <2>1, <2>2, <2>3 DEF BootInv, TodoClaims
  <1> HIDE DEF e, r, t
  <1>15. Moving(c)'
    <2>1. \A j \in 1..Len(upd'[c]) : \E p \in 1..StackPages : upd'[c][j] = r[p]
      <3>1. \A i \in 2..Len(upd[c]) : i \in 1..Len(upd[c])
        BY <1>4
      <3> QED
        BY <1>4, <1>6, <3>1 DEF Moving, r, t
    <2>2. ASSUME NEW p \in 1..StackPages
          PROVE  \/ entry'[regno'[KSTACK[c][p]]].phys_addr = StackOf[t][p]
                 \/ \E j \in 1..Len(upd'[c]) : upd'[c][j] = r[p]
      <3>1. CASE p = q
        BY <1>10, <1>11, <3>1
      <3>2. CASE p # q
        <4>1. KSTACK[c][p] # e.name /\ r[p] # e
          BY <1>8, <1>9, <3>2 DEF NamesApart
        <4>2. regno[KSTACK[c][p]] # NotRegistered /\ KSTACK[c][p] \in UpdatedNames
          BY <1>6, NameFacts DEF Registered
        <4>3. \/ PageAt(KSTACK[c][p], StackOf[t][p])
              \/ \E i \in 1..Len(upd[c]) : upd[c][i] = r[p]
          BY <1>6 DEF Moving, r, t
        <4>4. CASE PageAt(KSTACK[c][p], StackOf[t][p])
          BY <1>11, <4>1, <4>2, <4>4 DEF PageAt
        <4>5. CASE \E i \in 1..Len(upd[c]) : upd[c][i] = r[p]
          BY <1>4, <4>1, <4>5
        <4> QED
          BY <4>3, <4>4, <4>5
      <3> QED
        BY <3>1, <3>2
    <2>3. current'[c] = t
      BY <1>1 DEF t
    <2> QED
      BY <1>7, <2>1, <2>2, <2>3 DEF Moving, PageAt, r
  <1>16. CpuInv'
    <2>1. CpuState(c)'
      BY <1>6, <1>11, <1>15 DEF CpuState, Registered
    <2>2. ASSUME NEW d \in CPUs, d # c PROVE CpuState(d)'
      <3>1. \A p \in 1..StackPages : KSTACK[d][p] # e.name
        BY <1>10, <2>2 DEF NamesApart
      <3>2. Stay({KSTACK[d][p] : p \in 1..StackPages})
        BY <1>11, <3>1, NameFacts DEF Stay
      <3>3. d \in ipi \/ Ahead("ipi") => (d \in ipi \/ Ahead("ipi"))'
        BY <1>1 DEF Ahead, Has
      <3> QED
        BY <1>1, <1>3, <1>5, <2>2, <3>2, <3>3, CpuStays DEF CpuInv
    <2> QED
      BY <1>1, <1>5, <2>1, <2>2 DEF CpuInv
  <1> QED
    BY <1>13, <1>14, <1>16

(* A suspend, or a page of it, as far as the rest is concerned. *)
LEMMA SuspendRest ==
  ASSUME NamesApart, StackInv, UNCHANGED <<init_vars, current, upd, ipi>>, susp_init,
         susp_task' \in Tasks, Stay(StackNames), \A n \in UpdatedNames : regno'[n] = regno[n]
  PROVE  BootInv' /\ CpuInv'
  <1> USE DEF StackInv, init_vars
  <1>1. \A o : Ahead(o)' <=> Ahead(o)
    BY DEF Ahead, Has
  <1>2. TodoClaims'
    BY DEF BootInv, TodoClaims
  <1>3. OneCpu'
    BY DEF BootInv, OneCpu
  <1>4. BootInv'
    BY <1>1, <1>2, <1>3 DEF BootInv, TodoClaims
  <1>5. CpuInv'
    BY <1>1, AllCpusStay
  <1> QED
    BY <1>4, <1>5

(* A suspend starts to move the suspend regions. *)
LEMMA SuspendStackInv ==
  ASSUME RegionsKnown, NamesApart, CallInv, StackInv, NEW t \in Tasks, Suspend(t)
  PROVE  StackInv'
  <1> USE DEF CallInv, CallTodoInv, StackInv, init_vars
  <1> DEFINE s == IF Registered(KSUSPSTK) THEN StackRegions(KSUSPSTK, t) ELSE <<>>
             u == IF regno[KSUSPTASK] # NotRegistered THEN <<TaskRegion(t)>> ELSE <<>>
  <1>1. /\ UNCHANGED <<vars, init_vars, current, upd, ipi>>
        /\ susp_init /\ susp_task' = t /\ susp' = s \o u
    BY DEF Suspend, SuspendUpdate
  <1>2. /\ Stay(StackNames) /\ \A n \in UpdatedNames : regno'[n] = regno[n]
    BY <1>1, SameStays
  <1>3. BootInv' /\ CpuInv'
    BY <1>1, <1>2, SuspendRest
  <1>4. SuspRegions(susp_task)' = SuspRegions(t)
    BY <1>1 DEF SuspRegions
  <1>5. s \in Seq(Moves) /\ \A i \in 1..Len(s) : s[i] \in SuspRegions(t)
    <2>1. /\ StackRegions(KSUSPSTK, t) \in Seq(Moves) /\ Len(StackRegions(KSUSPSTK, t)) = StackPages
      BY StackRegionsMoves
    <2>2. \A i \in 1..StackPages : StackRegions(KSUSPSTK, t)[i] \in SuspRegions(t)
      BY SuspFacts DEF StackRegions
    <2> QED
      BY <2>1, <2>2
  <1>6. u \in Seq(Moves) /\ \A i \in 1..Len(u) : u[i] \in SuspRegions(t)
    <2>1. TaskRegion(t) \in Moves /\ TaskRegion(t) \in SuspRegions(t)
      BY StackRegionsMoves, SuspFacts
    <2> QED
      BY <2>1
  <1>7. ASSUME Registered(KSUSPSTK), regno[KSUSPTASK] # NotRegistered, NEW e \in SuspRegions(t)
        PROVE  (\E i \in 1..Len(s) : s[i] = e) \/ (\E i \in 1..Len(u) : u[i] = e)
    <2>1. CASE e = TaskRegion(t)
      <3>1. u[1] = e /\ Len(u) = 1
        BY <1>7, <2>1
      <3> QED
        BY <3>1
    <2>2. ASSUME NEW p \in 1..StackPages, e = PageRegion(KSUSPSTK[p], StackOf[t][p])
          PROVE  \E i \in 1..Len(s) : s[i] = e
      <3>1. s = StackRegions(KSUSPSTK, t) /\ Len(s) = StackPages
        BY <1>7, StackRegionsMoves
      <3>2. s[p] = e
        BY <2>2, <3>1 DEF StackRegions
      <3> QED
        BY <3>1, <3>2
    <2> QED
      BY <2>1, <2>2 DEF SuspRegions
  <1> HIDE DEF s, u
  <1>8. /\ \A i \in 1..Len(s \o u) : (\E j \in 1..Len(s) : (s \o u)[i] = s[j])
                                    \/ (\E j \in 1..Len(u) : (s \o u)[i] = u[j])
        /\ \A j \in 1..Len(s) : \E i \in 1..Len(s \o u) : (s \o u)[i] = s[j]
        /\ \A j \in 1..Len(u) : \E i \in 1..Len(s \o u) : (s \o u)[i] = u[j]
    <2>1. s \in Seq(Moves) /\ u \in Seq(Moves)
      BY <1>5, <1>6
    <2> QED
      BY <2>1, JoinFacts
  <1>9. Registered(KSUSPSTK)' <=> Registered(KSUSPSTK)
    BY <1>1 DEF vars, Registered
  <1>10. SuspInv'
    <2>1. \A i \in 1..Len(susp') : susp'[i] \in SuspRegions(t)
      BY <1>1, <1>5, <1>6, <1>8
    <2>2. ASSUME Registered(KSUSPSTK), regno[KSUSPTASK] # NotRegistered, NEW e \in SuspRegions(t)
          PROVE  \E i \in 1..Len(susp') : susp'[i] = e
      <3>1. (\E i \in 1..Len(s) : s[i] = e) \/ (\E i \in 1..Len(u) : u[i] = e)
        BY <1>7, <2>2
      <3>2. \E i \in 1..Len(s \o u) : (s \o u)[i] = e
        BY <1>8, <3>1
      <3> QED
        BY <1>1, <3>2
    <2>3. regno' = regno /\ susp_init'
      BY <1>1 DEF vars
    <2> QED
      BY <1>4, <1>9, <2>1, <2>2, <2>3 DEF SuspInv
  <1> QED
    BY <1>3, <1>10

(* One of them is moved; no stack of a CPU is. *)
LEMMA SuspendPageStackInv ==
  ASSUME RegionsKnown, NamesApart, CallInv, StackInv, SuspendPage
  PROVE  StackInv'
  <1> USE DEF CallInv, CallTodoInv, StackInv, init_vars
  <1> DEFINE e == Head(susp)
  <1>1. /\ UNCHANGED <<init_vars, current, upd, ipi, susp_task>>
        /\ susp # <<>> /\ UpdateRegion(e) /\ susp' = Tail(susp)
    BY DEF SuspendPage
  <1>2. susp \in Seq(Moves) /\ susp_task \in Tasks /\ susp_init
    BY <1>1 DEF TodoInv, BootInv
  <1>3. /\ e \in Moves /\ Len(susp) \in Nat /\ Len(susp) >= 1 /\ e = susp[1]
        /\ \A i \in 1..Len(susp) : susp[i] = e \/ \E j \in 1..Len(susp') : susp'[j] = susp[i]
        /\ \A j \in 1..Len(susp') : \E i \in 2..Len(susp) : susp'[j] = susp[i]
    BY <1>1, <1>2, TailFacts
  <1>4. e \in SuspRegions(susp_task) /\ e.name \in SuspendNames
    <2>1. 1 \in 1..Len(susp)
      BY <1>3
    <2> QED
      BY <1>2, <1>3, <2>1, SuspFacts DEF SuspInv
  <1>5. /\ regno' = regno
        /\ entry'[regno[e.name]].phys_addr = e.phys_addr
        /\ \A n \in UpdatedNames : n # e.name /\ regno[n] # NotRegistered =>
             entry'[regno[n]] = entry[regno[n]]
    BY <1>1, <1>3, UpdateMoves
  <1>6. Stay(StackNames)
    <2>1. e.name \notin StackNames
      BY <1>4, NameFacts
    <2> QED
      BY <1>5, <2>1, NameFacts DEF Stay
  <1>7. BootInv' /\ CpuInv'
    BY <1>1, <1>2, <1>5, <1>6, SuspendRest
  <1> HIDE DEF e
  <1>8. SuspInv'
    <2>1. SuspRegions(susp_task)' = SuspRegions(susp_task)
      BY <1>1 DEF SuspRegions
    <2>2. \A j \in 1..Len(susp') : susp'[j] \in SuspRegions(susp_task)
      <3>1. \A i \in 2..Len(susp) : i \in 1..Len(susp)
        BY <1>3
      <3> QED
        BY <1>3, <3>1 DEF SuspInv
    <2>3. ASSUME Registered(KSUSPSTK), regno[KSUSPTASK] # NotRegistered, NEW f \in SuspRegions(susp_task)
          PROVE  PageAt(f.name, f.phys_addr)' \/ \E j \in 1..Len(susp') : susp'[j] = f
      <3>1. CASE f.name = e.name
        <4>1. f = e
          BY <1>2, <1>4, <3>1, SuspFacts
        <4> QED
          BY <1>5, <4>1 DEF PageAt
      <3>2. CASE f.name # e.name
        <4>1. regno[f.name] # NotRegistered /\ f.name \in UpdatedNames
          BY <1>2, <2>3, SuspFacts, SuspNamesRegistered, NameFacts
        <4>2. CASE PageAt(f.name, f.phys_addr)
          BY <1>5, <3>2, <4>1, <4>2 DEF PageAt
        <4>3. CASE \E i \in 1..Len(susp) : susp[i] = f
          BY <1>3, <3>2, <4>3
        <4> QED
          BY <1>2, <2>3, <4>2, <4>3 DEF SuspInv
      <3> QED
        BY <3>1, <3>2
    <2>4. susp_init' /\ (Registered(KSUSPSTK)' <=> Registered(KSUSPSTK))
      BY <1>1, <1>2, <1>5 DEF Registered
    <2> QED
      BY <1>5, <2>1, <2>2, <2>3, <2>4 DEF SuspInv
  <1> QED
    BY <1>7, <1>8

(* At first no stack is registered. *)
LEMMA InitStackInv ==
  ASSUME RegionsKnown, NamesApart, LInit
  PROVE  StackInv
  <1>1. \A n \in UpdatedNames : regno[n] = NotRegistered
    BY NameFacts DEF LInit, Init
  <1>2. /\ ~hooked /\ ~md_current_stack_init /\ ~susp_init
        /\ hooked \in BOOLEAN /\ md_current_stack_init \in BOOLEAN /\ susp_init \in BOOLEAN
        /\ ipi = {} /\ susp = <<>> /\ susp_task = InitTask /\ \A c \in CPUs : upd[c] = <<>>
    BY DEF LInit
  <1>3. Ahead("hook") /\ Ahead("flag") /\ Ahead("ipi")
    BY LogInitOrdered DEF LInit, Ahead
  <1>4. OneCpu
    BY DEF LInit, OneCpu
  <1>5. BootInv
    BY <1>1, <1>2, <1>3, <1>4, LogAssumption DEF BootInv
  <1>6. CpuInv
    BY <1>1, <1>2, NameFacts DEF CpuInv
  <1>7. SuspInv
    <2>1. \A e \in SuspRegions(InitTask) : e.name \in UpdatedNames
      BY SuspFacts, NameFacts, LogAssumption
    <2> QED
      BY <1>1, <1>2, <2>1 DEF SuspInv
  <1> QED
    BY <1>5, <1>6, <1>7 DEF StackInv

(* Every step keeps the stacks right. *)
LEMMA NextStackInv ==
  ASSUME RegionsKnown, NamesApart, DumpApart
  PROVE  CallInv /\ StackInv /\ [LNext]_<<vars, log_vars>> => StackInv'
  <1> SUFFICES ASSUME CallInv, StackInv, [LNext]_<<vars, log_vars>> PROVE StackInv'
    OBVIOUS
  <1>1. CASE \/ UNCHANGED <<vars, log_vars>> \/ ProbeStep \/ RemoveDump \/ AddDump
             \/ ClientAdd \/ ModuleStep
    BY <1>1, OtherStays, OtherStackInv
  <1>2. CASE LogStep
    BY <1>2, LogAddStackInv, LogFlagStackInv, LogIpiStackInv, LogDumpStackInv DEF LogStep
  <1>3. CASE StackStep
    BY <1>3, SwitchStackInv, IpiStackInv, UpdatePageStackInv, SuspendStackInv, SuspendPageStackInv
       DEF StackStep
  <1> QED
    BY <1>1, <1>2, <1>3 DEF LNext

(* The boot loader finds what the number of a name leads to. *)
LEMMA NumberCollects ==
  ASSUME DriverInv, NEW n \in UpdatedNames, regno[n] # NotRegistered, NEW page, PageAt(n, page)
  PROVE  Collects(n, page)
  <1> DEFINE r == regno[n]
  <1>1. Enabled /\ r \in 0..num_regions - 1 /\ entry[r].name = n /\ entry[r].phys_addr = page
    BY DEF DriverInv, TableInv, KeptInv, PageAt
  <1>2. /\ ss_region_count = num_regions + 1 /\ num_regions \in Nat
        /\ md_regions[r + 1].name = n /\ md_regions[r + 1].region_base_address = page
    BY <1>1 DEF DriverInv, IndInv, TypeOK, TocMirrorsEntries
  <1>3. r + 1 \in 1..ss_region_count - 1
    BY <1>1, <1>2
  <1> QED
    BY <1>2, <1>3 DEF Collects

(* Then what the boot loader collects is right too. *)
LEMMA StackInvCurrent ==
  ASSUME NamesApart, CallInv, StackInv
  PROVE  StacksCurrent
  <1> USE DEF CallInv, CallTodoInv, StackInv
  <1>1. ASSUME NEW c \in CPUs, Settled(c), current[c] # IdleTask, Registered(KSTACK[c]),
               NEW p \in 1..StackPages
        PROVE  Collects(KSTACK[c][p], StackOf[current[c]][p])
    <2>1. regno[KSTACK[c][p]] # NotRegistered /\ KSTACK[c][p] \in UpdatedNames
      BY <1>1, NameFacts DEF Registered
    <2>2. ~Ahead("ipi") /\ ~Ahead("flag")
      <3>1. todo \in Seq(LogSteps)
        BY DEF TodoInv
      <3>2. DOMAIN todo = 1..Len(todo)
        BY <3>1
      <3> QED
        BY <1>1, <3>2 DEF Settled, Ahead, Has
    <2>3. md_current_stack_init
      BY <2>1, <2>2 DEF BootInv
    <2>4. Moving(c) /\ upd[c] = <<>>
      BY <1>1, <2>2, <2>3 DEF CpuInv, CpuState, Settled
    <2>5. PageAt(KSTACK[c][p], StackOf[current[c]][p])
      <3>1. Len(upd[c]) = 0
        BY <2>4
      <3> QED
        BY <2>4, <3>1 DEF Moving
    <2> QED
      BY <2>1, <2>5, NumberCollects
  <1>2. CpuStacksCurrent
    BY <1>1 DEF CpuStacksCurrent
  <1>3. ASSUME susp_init, susp = <<>>, Registered(KSUSPSTK), regno[KSUSPTASK] # NotRegistered
        PROVE  \E t \in Tasks : /\ \A p \in 1..StackPages : Collects(KSUSPSTK[p], StackOf[t][p])
                                /\ Collects(KSUSPTASK, TaskAt[t])
    <2>1. susp_task \in Tasks /\ Len(susp) = 0
      BY <1>3 DEF BootInv
    <2>2. ASSUME NEW e \in SuspRegions(susp_task) PROVE Collects(e.name, e.phys_addr)
      <3>1. e.name \in UpdatedNames /\ regno[e.name] # NotRegistered
        BY <1>3, <2>1, SuspFacts, SuspNamesRegistered, NameFacts
      <3>2. PageAt(e.name, e.phys_addr)
        BY <1>3, <2>1 DEF SuspInv
      <3> QED
        BY <3>1, <3>2, NumberCollects
    <2>3. \A n, a : PageRegion(n, a).name = n /\ PageRegion(n, a).phys_addr = a
      BY DEF PageRegion
    <2>4. \A p \in 1..StackPages : Collects(KSUSPSTK[p], StackOf[susp_task][p])
      BY <2>1, <2>2, <2>3, SuspFacts
    <2>5. Collects(KSUSPTASK, TaskAt[susp_task])
      BY <2>1, <2>2, <2>3, SuspFacts DEF TaskRegion
    <2> QED
      BY <2>1, <2>4, <2>5
  <1>4. SuspendAgrees
    BY <1>3 DEF SuspendAgrees
  <1> QED
    BY <1>2, <1>4 DEF StacksCurrent

(* For any number of CPUs, tasks and pages: between two context switches the
   minidump has the whole stack of the task each CPU runs
   (md_current_stack_notifer, md_current_stack_ipi_handler), and the suspend
   regions are of one task (update_md_suspend_currents), whatever other drivers
   register and when. *)
THEOREM StacksAlwaysCurrent ==
  ASSUME EarlyDuplicates = FALSE, RegionsKnown, NamesApart, DumpApart
  PROVE  LSpec => []StacksCurrent
  <1>1. LInit => CallInv /\ StackInv
    BY InitCallInv, InitStackInv
  <1>2. CallInv /\ StackInv /\ [LNext]_<<vars, log_vars>> => CallInv' /\ StackInv'
    BY NextCallInv, NextStackInv
  <1>3. CallInv /\ StackInv => StacksCurrent
    BY StackInvCurrent
  <1> QED
    BY <1>1, <1>2, <1>3, PTL DEF LSpec

-----------------------------------------------------------------------------
(* A page of the key module is in the minidump. *)
PageIn(p) == EntrySlots(ModuleName[p]) # {}

(* It is still to be registered. *)
ToRegister(p) == \E i \in 1..Len(module_todo) : module_todo[i].name = ModuleName[p]

(* Unless something came between: all pages are in, or none, or the missing ones
   are still to come, valid, free and with room for each. *)
WholeInv ==
  ~intruded =>
    \/ \A p \in 1..ModulePages : PageIn(p)
    \/ module_todo = <<>> /\ \A p \in 1..ModulePages : ~PageIn(p)
    \/ /\ \A p \in 1..ModulePages : PageIn(p) <=> ~ToRegister(p)
       /\ num_regions + Len(module_todo) < MAX_NUM_ENTRIES
       /\ Enabled
       /\ \A i \in 1..Len(module_todo) : ValidateRegion(module_todo[i])
       /\ \A i, j \in 1..Len(module_todo) : module_todo[i].name = module_todo[j].name => i = j

(* A step that is nobody's of the module: its regions stay, and if something
   was added meanwhile then no page of it was to come. *)
ModuleStays ==
  /\ UNCHANGED module_todo
  /\ \A n \in ModuleNames : EntrySlots(n)' = {} <=> EntrySlots(n) = {}
  /\ \/ intruded' = intruded /\ num_regions' <= num_regions /\ (Enabled => Enabled')
     \/ Intrude

(* Such a step leaves the module whole, or as whole as it was. *)
LEMMA ModuleStaysWhole ==
  ASSUME NamesApart, WholeInv, ModuleStays, num_regions \in Nat, num_regions' \in Int,
         module_todo \in Seq(ModuleRegions)
  PROVE  WholeInv'
  <1> SUFFICES ASSUME ~intruded' PROVE WholeInv'
    BY DEF WholeInv
  <1>1. /\ ~intruded /\ module_todo' = module_todo
        /\ module_todo = <<>> \/ (num_regions' <= num_regions /\ (Enabled => Enabled'))
    <2>1. CASE Intrude
      <3>1. ~(intruded \/ module_todo # <<>>)
        BY <2>1 DEF Intrude
      <3>2. ~intruded /\ module_todo = <<>>
        BY <3>1
      <3>3. module_todo' = module_todo
        BY DEF ModuleStays
      <3> QED
        BY <3>2, <3>3
    <2>2. CASE intruded' = intruded /\ num_regions' <= num_regions /\ (Enabled => Enabled')
      <3>1. ~intruded
        BY <2>2
      <3> QED
        BY <2>2, <3>1 DEF ModuleStays
    <2> QED
      BY <2>1, <2>2 DEF ModuleStays
  <1>2. \A p \in 1..ModulePages : (PageIn(p)' <=> PageIn(p)) /\ (ToRegister(p)' <=> ToRegister(p))
    BY <1>1, NameFacts DEF ModuleStays, PageIn, ToRegister
  <1>3. CASE \A p \in 1..ModulePages : PageIn(p)
    BY <1>2, <1>3 DEF WholeInv
  <1>4. CASE module_todo = <<>> /\ \A p \in 1..ModulePages : ~PageIn(p)
    BY <1>1, <1>2, <1>4 DEF WholeInv
  <1>5. CASE ~(\A p \in 1..ModulePages : PageIn(p))
             /\ ~(module_todo = <<>> /\ \A p \in 1..ModulePages : ~PageIn(p))
    <2>1. /\ \A p \in 1..ModulePages : PageIn(p) <=> ~ToRegister(p)
          /\ num_regions + Len(module_todo) < MAX_NUM_ENTRIES
          /\ Enabled
          /\ \A i \in 1..Len(module_todo) : ValidateRegion(module_todo[i])
          /\ \A i, j \in 1..Len(module_todo) : module_todo[i].name = module_todo[j].name => i = j
      BY <1>1, <1>5 DEF WholeInv
    <2>2. module_todo # <<>>
      <3> SUFFICES ASSUME module_todo = <<>> PROVE FALSE
        OBVIOUS
      <3>1. \A p \in 1..ModulePages : ~ToRegister(p)
        BY DEF ToRegister
      <3> QED
        BY <1>5, <2>1, <3>1
    <2>3. Enabled' /\ num_regions' <= num_regions /\ Len(module_todo) \in Nat
      BY <1>1, <2>1, <2>2
    <2>4. num_regions' + Len(module_todo') < MAX_NUM_ENTRIES
      BY <1>1, <2>1, <2>3, MaxAssumption
    <2>5. \A i \in 1..Len(module_todo') : ValidateRegion(module_todo'[i])
      BY <1>1, <2>1
    <2> QED
      BY <1>1, <1>2, <2>1, <2>3, <2>4, <2>5 DEF WholeInv, ValidateRegion
  <1> QED
    BY <1>3, <1>4, <1>5

(* Everything but the module's own steps is such a step. *)
LEMMA OthersLeaveModule ==
  ASSUME RegionsKnown, NamesApart, DumpApart, CallInv, DriverInv',
         UNCHANGED <<vars, log_vars>> \/ ProbeStep \/ LogStep \/ StackStep \/ UnloadModule
           \/ RemoveDump \/ AddDump \/ ClientAdd
  PROVE  ModuleStays /\ num_regions \in Nat /\ num_regions' \in Int
  <1> USE DEF CallInv, CallTodoInv, log_vars, module_vars
  <1>0. ASSUME ~Enabled, ~Enabled' PROVE \A n \in ModuleNames : EntrySlots(n) = {} /\ EntrySlots(n)' = {}
    <2>1. \A e \in ClientRegions \cup {NoRegion} : e.name \notin ModuleNames
      BY ClientFacts, NameFacts DEF NoRegion
    <2>2. \A i \in 0..num_regions - 1 : entry[i] \in ClientRegions \cup {NoRegion}
      BY <1>0 DEF DriverInv, TableInv, EarlyInv
    <2>3. \A i \in 0..num_regions' - 1 : entry'[i] \in ClientRegions \cup {NoRegion}
      BY <1>0 DEF DriverInv, TableInv, EarlyInv
    <2> QED
      BY <2>1, <2>2, <2>3 DEF EntrySlots
  <1>1. UNCHANGED module_todo
    BY DEF ProbeStep, LogStep, LogAdd, LogFlag, LogIpi, LogDump, StackStep, Switch, Ipi, UpdatePage,
           Suspend, SuspendPage, UnloadModule, RemoveDump, AddDump, ClientAdd
  <1>2. num_regions \in Nat
    BY DEF DriverInv, IndInv, TypeOK
  <1>3. ASSUME UNCHANGED vars, intruded' = intruded
        PROVE  ModuleStays /\ num_regions' \in Int
    BY <1>1, <1>2, <1>3 DEF ModuleStays, vars, EntrySlots, Enabled
  <1>4. ASSUME NEW e \in Regions, TryAdd(e), e.name \notin ModuleNames, Intrude
        PROVE  ModuleStays /\ num_regions' \in Int
    <2>1. CASE UNCHANGED vars
      BY <1>1, <1>2, <1>4, <2>1 DEF ModuleStays, vars, EntrySlots
    <2>2. CASE AddRegion(e)
      <3>1. num_regions' = num_regions + 1 /\ \A n : n # e.name => EntrySlots(n)' = EntrySlots(n)
        BY <2>2, AddEffect DEF DriverInv
      <3> QED
        BY <1>1, <1>2, <1>4, <3>1 DEF ModuleStays
    <2> QED
      BY <1>4, <2>1, <2>2 DEF TryAdd
  <1>5. ASSUME NEW e \in Moves, UpdateRegion(e), intruded' = intruded
        PROVE  ModuleStays /\ num_regions' \in Int
    <2>1. e \in Regions /\ regno[e.name] < first_removed_entry
      BY <1>5 DEF DriverInv, TableInv, KeptInv, Moves, UpdateRegion
    <2>2. Enabled' /\ num_regions' = num_regions /\ \A n : EntrySlots(n)' = EntrySlots(n)
      BY <1>5, <2>1, UpdateEffect DEF DriverInv
    <2> QED
      BY <1>1, <1>2, <1>5, <2>2 DEF ModuleStays
  <1>6. CASE ProbeStep
    <2>1. intruded' = intruded
      BY <1>6 DEF ProbeStep
    <2>2. CASE DrainRegion
      <3>1. ~Enabled /\ ~Enabled' /\ num_regions' = num_regions
        BY <2>2 DEF DrainRegion, Draining, Enabled
      <3> QED
        BY <1>0, <1>1, <1>2, <2>1, <3>1 DEF ModuleStays
    <2>3. CASE ProbeTable \/ ProbeEnable \/ ProbeUnlock \/ ProbeDone
      <3>1. UNCHANGED <<num_regions, entry>> /\ (Enabled => Enabled')
        BY <2>3 DEF ProbeTable, ProbeEnable, ProbeUnlock, ProbeDone, Enabled
      <3>2. \A n : EntrySlots(n)' = EntrySlots(n)
        BY <3>1 DEF EntrySlots
      <3> QED
        BY <1>1, <1>2, <2>1, <3>1, <3>2 DEF ModuleStays
    <2> QED
      BY <1>6, <2>2, <2>3 DEF ProbeStep
  <1>7. CASE RemoveDump
    <2>1. /\ EntrySlots(DumpName) # {} /\ RemoveRegion(GetRegion(DumpName)) /\ intruded' = intruded
          /\ DumpName \in Names /\ DumpName \notin ModuleNames /\ ModuleNames \subseteq Names
      BY <1>7, NameFacts DEF RemoveDump
    <2>2. /\ Enabled' /\ num_regions' \in {num_regions, num_regions - 1}
          /\ \A m \in Names : m # DumpName /\ EntrySlots(m) # {} => EntrySlots(m)' # {}
          /\ \A m \in Names : EntrySlots(m) = {} => EntrySlots(m)' = {}
      BY <2>1, RemoveEffect DEF DriverInv
    <2>3. num_regions' <= num_regions /\ num_regions' \in Int
      BY <1>2, <2>2
    <2>4. ASSUME NEW n \in ModuleNames PROVE EntrySlots(n)' = {} <=> EntrySlots(n) = {}
      <3>1. n \in Names /\ n # DumpName
        BY <2>1
      <3> QED
        BY <2>2, <3>1
    <2>5. intruded' = intruded /\ num_regions' <= num_regions /\ (Enabled => Enabled')
      BY <2>1, <2>2, <2>3
    <2> QED
      BY <1>1, <1>2, <2>3, <2>4, <2>5 DEF ModuleStays
  <1>8. CASE LogDump \/ AddDump
    <2>1. PICK e \in DumpRegions : TryAdd(e)
      BY <1>8 DEF LogDump, AddDump
    <2>2. e \in Regions /\ e.name \notin ModuleNames /\ Intrude
      BY <1>8, NameFacts DEF RegionsKnown, NamesApart, LogDump, AddDump
    <2> QED
      BY <1>2, <1>4, <2>1, <2>2
  <1>9. CASE LogAdd
    <2>1. todo # <<>> /\ Head(todo).op = "add" /\ TryAdd(Head(todo).e) /\ Intrude
      BY <1>9 DEF LogAdd, Doing
    <2> QED
      BY <1>2, <1>4, <2>1, HeadFacts
  <1>10. CASE \E c \in CPUs : UpdatePage(c)
    <2>1. PICK c \in CPUs : UpdatePage(c)
      BY <1>10
    <2>2. /\ upd[c] \in Seq(Moves) /\ upd[c] # <<>> /\ UpdateRegion(Head(upd[c]))
          /\ intruded' = intruded
      BY <2>1 DEF UpdatePage, TodoInv
    <2> QED
      BY <1>2, <1>5, <2>2, TailFacts
  <1>11. CASE SuspendPage
    <2>1. susp \in Seq(Moves) /\ susp # <<>> /\ UpdateRegion(Head(susp)) /\ intruded' = intruded
      BY <1>11 DEF SuspendPage, TodoInv
    <2> QED
      BY <1>2, <1>5, <2>1, TailFacts
  <1>12. CASE \/ UNCHANGED <<vars, log_vars>> \/ LogFlag \/ LogIpi \/ UnloadModule
              \/ \E c \in CPUs : Ipi(c) \/ \E t \in Tasks \cup {IdleTask} : Switch(c, t)
              \/ \E t \in Tasks : Suspend(t)
    <2>1. UNCHANGED vars /\ intruded' = intruded
      BY <1>12 DEF LogFlag, LogIpi, UnloadModule, Ipi, Switch, Suspend
    <2> QED
      BY <1>2, <1>3, <2>1
  <1>13. CASE ClientAdd
    <2>1. PICK e \in ClientRegions : (AddPending(e) \/ TryAdd(e)) /\ Intrude
      BY <1>13 DEF ClientAdd
    <2>2. e \in Regions /\ e.name \notin ModuleNames
      BY ClientFacts
    <2>3. CASE AddPending(e)
      <3>1. ~Enabled /\ ~Enabled' /\ num_regions' = num_regions + 1
        BY <2>3 DEF AddPending, NotEnabledYet, Enabled
      <3> QED
        BY <1>0, <1>1, <1>2, <2>1, <3>1 DEF ModuleStays
    <2> QED
      BY <1>2, <1>4, <2>1, <2>2, <2>3
  <1> QED
    BY <1>6, <1>7, <1>8, <1>9, <1>10, <1>11, <1>12, <1>13, <1>2 DEF LogStep, StackStep

(* A module is loaded: its names are taken by all its pages, or by none. *)
LEMMA LoadWhole ==
  ASSUME WholePages = ModulePages, RegionsKnown, NamesApart, ModuleValid, CallInv, WholeInv,
         NEW place \in ModulePlaces, LoadModule(place)
  PROVE  WholeInv'
  <1> USE DEF CallInv, CallTodoInv
  <1> DEFINE e(p) == PageRegion(ModuleName[p], place + (p - 1) * PageSize)
             s == [p \in 1..ModulePages |-> e(p)]
  <1>1. /\ UNCHANGED <<vars, intruded>> /\ MdInitDone /\ module_todo = <<>>
        /\ module_todo' = IF Room THEN s ELSE <<>>
    BY DEF LoadModule
  <1>2. \A p \in 1..ModulePages : PageIn(p)' <=> PageIn(p)
    BY <1>1 DEF PageIn, EntrySlots, vars
  <1>3. CASE intruded
    BY <1>1, <1>3 DEF WholeInv
  <1>4. CASE \A p \in 1..ModulePages : PageIn(p)
    BY <1>2, <1>4 DEF WholeInv
  <1>5. CASE \A p \in 1..ModulePages : ~PageIn(p)
    <2>1. CASE ~Room
      BY <1>1, <1>2, <1>5, <2>1 DEF WholeInv
    <2>2. CASE Room
      <3>1. module_todo' = s /\ Len(s) = ModulePages /\ ModulePages \in Nat
        BY <1>1, <2>2, ModuleTodo, LogAssumption
      <3>2. \A p \in 1..ModulePages : s[p] = e(p) /\ s[p].name = ModuleName[p]
        BY DEF PageRegion
      <3>3. \A p \in 1..ModulePages : ValidateRegion(s[p])
        BY DEF ModuleValid
      <3> HIDE DEF s, e
      <3>4. \A p \in 1..ModulePages : ToRegister(p)'
        BY <3>1, <3>2 DEF ToRegister
      <3>5. num_regions' + Len(module_todo') < MAX_NUM_ENTRIES
        <4>1. num_regions' = num_regions /\ num_regions \in Nat
          BY <1>1 DEF vars, DriverInv, IndInv, TypeOK
        <4> QED
          BY <2>2, <3>1, <4>1, MaxAssumption DEF Room
      <3>6. Enabled'
        BY <1>1 DEF MdInitDone, Enabled, vars
      <3>7. \A i, j \in 1..Len(module_todo') : module_todo'[i].name = module_todo'[j].name => i = j
        BY <3>1, <3>2 DEF NamesApart
      <3>8. \A i \in 1..Len(module_todo') : ValidateRegion(module_todo'[i])
        BY <3>1, <3>3
      <3> QED
        BY <1>2, <1>5, <3>4, <3>5, <3>6, <3>7, <3>8 DEF WholeInv
    <2> QED
      BY <2>1, <2>2
  <1> QED
    <2>1. ASSUME ~intruded, ~(\A p \in 1..ModulePages : PageIn(p)),
                 ~(\A p \in 1..ModulePages : ~PageIn(p))
          PROVE  FALSE
      <3>1. \A p \in 1..ModulePages : PageIn(p) <=> ~ToRegister(p)
        BY <2>1 DEF WholeInv
      <3>2. \A p \in 1..ModulePages : ~ToRegister(p)
        BY <1>1 DEF ToRegister
      <3> QED
        BY <2>1, <3>1, <3>2
    <2> QED
      BY <1>3, <1>4, <1>5, <2>1

(* A page of it: there is still room, so it is not refused. *)
LEMMA PageWhole ==
  ASSUME RegionsKnown, NamesApart, CallInv, WholeInv, ModulePage
  PROVE  WholeInv'
  <1> USE DEF CallInv, CallTodoInv
  <1> DEFINE e == Head(module_todo)
  <1>1. /\ module_todo # <<>> /\ TryAdd(e) /\ module_todo' = Tail(module_todo)
        /\ intruded' = intruded /\ module_todo \in Seq(ModuleRegions)
    BY DEF ModulePage, TodoInv
  <1>2. e \in ModuleRegions /\ module_todo' \in Seq(ModuleRegions)
    BY <1>1, TailFacts
  <1>3. e \in Regions /\ e.name \in ModuleNames
    BY <1>2 DEF ModuleRegions
  <1>4. PICK q \in 1..ModulePages : e.name = ModuleName[q]
    BY <1>3 DEF ModuleNames
  <1>5. CASE intruded
    BY <1>1, <1>5 DEF WholeInv
  <1>6. CASE \A p \in 1..ModulePages : PageIn(p)
    <2>1. CASE UNCHANGED vars
      BY <1>6, <2>1 DEF WholeInv, PageIn, EntrySlots, vars
    <2>2. CASE AddRegion(e)
      <3>1. /\ EntrySlots(e.name) = {}
        BY <1>3, <2>2, AddEffect DEF DriverInv
      <3> QED
        BY <1>4, <1>6, <3>1 DEF PageIn
    <2> QED
      BY <1>1, <2>1, <2>2 DEF TryAdd
  <1>7. CASE ~intruded /\ ~(\A p \in 1..ModulePages : PageIn(p))
    <2>1. /\ \A p \in 1..ModulePages : PageIn(p) <=> ~ToRegister(p)
          /\ num_regions + Len(module_todo) < MAX_NUM_ENTRIES
          /\ Enabled
          /\ \A i \in 1..Len(module_todo) : ValidateRegion(module_todo[i])
          /\ \A i, j \in 1..Len(module_todo) : module_todo[i].name = module_todo[j].name => i = j
      BY <1>1, <1>7 DEF WholeInv
    <2>2. /\ e = module_todo[1] /\ Len(module_todo) \in Nat /\ Len(module_todo) >= 1
          /\ Len(module_todo') = Len(module_todo) - 1
          /\ \A i \in 1..Len(module_todo) - 1 : module_todo'[i] = module_todo[i + 1]
          /\ \A i \in 1..Len(module_todo) :
               module_todo[i] = e \/ \E j \in 1..Len(module_todo') : module_todo'[j] = module_todo[i]
      BY <1>1, TailFacts
    <2>3. 1 \in 1..Len(module_todo) /\ \A j \in 1..Len(module_todo') : j + 1 \in 1..Len(module_todo)
      BY <2>2
    <2>4. ToRegister(q)
      BY <1>4, <2>2, <2>3 DEF ToRegister
    <2>5. EntrySlots(e.name) = {}
      BY <1>4, <2>1, <2>4 DEF PageIn
    <2>6. num_regions \in Nat /\ ss_region_count = num_regions + 1
      BY <2>1 DEF DriverInv, IndInv, TypeOK, TocMirrorsEntries
    <2>7. ValidateRegion(e) /\ CanAdd(e)
      BY <2>1, <2>2, <2>3, <2>5, <2>6, MaxAssumption DEF CanAdd
    <2>8. AddRegion(e)
      BY <1>1, <2>7 DEF TryAdd
    <2>9. /\ Enabled' /\ num_regions' = num_regions + 1
          /\ EntrySlots(ModuleName[q])' = {num_regions}
          /\ \A n : n # ModuleName[q] => EntrySlots(n)' = EntrySlots(n)
      <3>1. PICK f \in Regions : f = e
        BY <1>3
      <3>2. AddRegion(f) /\ f.name = ModuleName[q]
        BY <1>4, <2>8, <3>1
      <3>3. EntrySlots(f.name)' = EntrySlots(ModuleName[q])'
        BY <3>2 DEF EntrySlots
      <3> QED
        BY <3>2, <3>3, AddEffect DEF DriverInv
    <2> HIDE DEF e
    <2>10. num_regions' + Len(module_todo') < MAX_NUM_ENTRIES
      BY <2>1, <2>2, <2>6, <2>9, MaxAssumption
    <2>11. ASSUME NEW p \in 1..ModulePages PROVE PageIn(p)' <=> ~ToRegister(p)'
      <3>1. CASE p = q
        <4>1. PageIn(p)'
          BY <1>4, <2>9, <3>1 DEF PageIn
        <4>2. ASSUME NEW j \in 1..Len(module_todo'), module_todo'[j].name = ModuleName[p] PROVE FALSE
          <5>1. module_todo'[j] = module_todo[j + 1] /\ j + 1 # 1
            BY <2>2
          <5>2. module_todo[j + 1].name = module_todo[1].name
            BY <1>4, <2>2, <3>1, <4>2, <5>1
          <5> QED
            BY <2>1, <2>3, <5>1, <5>2
        <4> QED
          BY <4>1, <4>2 DEF ToRegister
      <3>2. CASE p # q
        <4>1. ModuleName[p] # e.name /\ ModuleName[p] # ModuleName[q]
          BY <1>4, <3>2 DEF NamesApart
        <4>2. PageIn(p)' <=> PageIn(p)
          BY <2>9, <4>1 DEF PageIn
        <4>3. ToRegister(p)' => ToRegister(p)
          BY <2>2, <2>3 DEF ToRegister
        <4>4. ToRegister(p) => ToRegister(p)'
          BY <2>2, <4>1 DEF ToRegister
        <4> QED
          BY <2>1, <4>2, <4>3, <4>4
      <3> QED
        BY <3>1, <3>2
    <2>12. \A i \in 1..Len(module_todo') : ValidateRegion(module_todo'[i])
      BY <2>1, <2>2, <2>3
    <2>13. ASSUME NEW i \in 1..Len(module_todo'), NEW j \in 1..Len(module_todo'),
                  module_todo'[i].name = module_todo'[j].name
           PROVE  i = j
      <3>1. module_todo'[i] = module_todo[i + 1] /\ module_todo'[j] = module_todo[j + 1]
        BY <2>2
      <3>2. i + 1 = j + 1
        BY <2>1, <2>3, <2>13, <3>1
      <3> QED
        BY <3>2
    <2> QED
      BY <2>9, <2>10, <2>11, <2>12, <2>13 DEF WholeInv
  <1> QED
    BY <1>5, <1>6, <1>7

(* At first there is no page. *)
LEMMA InitWhole == LInit => WholeInv
  BY DEF LInit, Init, WholeInv, PageIn, EntrySlots

(* Every step keeps the module whole. *)
LEMMA NextWhole ==
  ASSUME WholePages = ModulePages, EarlyDuplicates = FALSE, RegionsKnown, NamesApart, DumpApart,
         ModuleValid
  PROVE  CallInv /\ WholeInv /\ [LNext]_<<vars, log_vars>> => WholeInv'
  <1> SUFFICES ASSUME CallInv, WholeInv, [LNext]_<<vars, log_vars>> PROVE WholeInv'
    OBVIOUS
  <1>1. CASE UNCHANGED <<vars, log_vars>> \/ ProbeStep \/ LogStep \/ StackStep \/ UnloadModule
             \/ RemoveDump \/ AddDump \/ ClientAdd
    <2>1. ModuleStays /\ num_regions \in Nat /\ num_regions' \in Int
      BY <1>1, NextCallInv, OthersLeaveModule DEF CallInv
    <2>2. module_todo \in Seq(ModuleRegions)
      BY DEF CallInv, CallTodoInv, TodoInv
    <2> QED
      BY <2>1, <2>2, ModuleStaysWhole
  <1>2. CASE ModulePage
    BY <1>2, PageWhole
  <1>3. CASE \E place \in ModulePlaces : LoadModule(place)
    BY <1>3, LoadWhole
  <1> QED
    BY <1>1, <1>2, <1>3 DEF LNext, ModuleStep

(* For a module whose data are any number of whole pages and any table: a key
   module that comes live (md_module_notify) has all its pages in the minidump
   or none, unless something else was registered while its pages were. *)
THEOREM ModulesWholeOrIntruded ==
  ASSUME WholePages = ModulePages, EarlyDuplicates = FALSE, RegionsKnown, NamesApart, DumpApart,
         ModuleValid
  PROVE  LSpec => []ModulesWhole
  <1>1. ASSUME WholeInv PROVE ModulesWhole
    <2> SUFFICES ASSUME module_todo = <<>>, ~intruded,
                        {EntrySlots(ModuleName[p]) = {} : p \in 1..ModulePages} = BOOLEAN
                 PROVE  FALSE
      BY DEF ModulesWhole
    <2>1. PICK p \in 1..ModulePages : (EntrySlots(ModuleName[p]) = {}) = TRUE
      OBVIOUS
    <2>2. PICK q \in 1..ModulePages : (EntrySlots(ModuleName[q]) = {}) = FALSE
      OBVIOUS
    <2>3. ~PageIn(p) /\ PageIn(q)
      BY <2>1, <2>2 DEF PageIn
    <2>4. ~ToRegister(p)
      BY DEF ToRegister
    <2> QED
      BY <1>1, <2>3, <2>4 DEF WholeInv
  <1>2. CallInv /\ WholeInv /\ [LNext]_<<vars, log_vars>> => CallInv' /\ WholeInv'
    BY NextCallInv, NextWhole
  <1>3. LInit => CallInv /\ WholeInv
    BY InitCallInv, InitWhole
  <1> QED
    BY <1>1, <1>2, <1>3, PTL DEF LSpec
=============================================================================
