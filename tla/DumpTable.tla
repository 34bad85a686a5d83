----------------------------- MODULE DumpTable -----------------------------
(***************************************************************************)
(* memory_dump_v2.c, the dump table: the probe carves one block of memory  *)
(* per child node of the device tree out of one allocation and registers   *)
(* it in the apps table that the firmware follows after a crash; other     *)
(* drivers register their own blocks with msm_dump_data_register.          *)
(*                                                                         *)
(* register_dump_table_entry holds no lock.  Its three accesses to the     *)
(* table (check the count, write the entry, count it) are three steps, and *)
(* a build may use the count it loaded first or load it again.  Callers    *)
(* come at any time, together or one after the other.                      *)
(***************************************************************************)
EXTENDS Integers, Sequences, FiniteSets

CONSTANTS
  MAX_NUM_ENTRIES,  \* slots of a table (0x150)
  TableSize,        \* sizeof(struct msm_dump_table)
  DataSize,         \* sizeof(struct msm_dump_data)
  SZ_4K,
  DeviceTrees,      \* the lists of child nodes the probe may find
  Drivers           \* other drivers, each registers one block

(* A property the device tree node does not have. *)
NoProperty == -1

Property == Nat \cup {NoProperty}

ASSUME TableAssumption ==
  /\ MAX_NUM_ENTRIES \in Nat \ {0}
  /\ TableSize \in Nat \ {0} /\ DataSize \in Nat \ {0} /\ SZ_4K \in Nat \ {0}
  /\ DeviceTrees \subseteq Seq([size : Property, id : Property])
  /\ Drivers \subseteq Nat \ {0}

VARIABLES
  nodes,            \* child nodes: dump-size and dump-id, NoProperty if absent
  memdump,          \* memdump.table: "none", "set", or "apps" once registered
  total_size, no_of_nodes,  \* of the first loop of mem_dump_alloc
  counted,          \* history: the memory counted before each node, and in all
  next,             \* the child node the second loop of mem_dump_alloc is at
  offset,           \* dump_vaddr, from the start of the allocation
  blocks,           \* history: what the loop handed out
  ret,              \* ret of mem_dump_alloc
  probed,           \* mem_dump_alloc has returned
  num_entries,
  entries,          \* the slots of the table, and what was written behind them
  call,             \* each caller's register_dump_table_entry
  registered,       \* history: entries whose registration returned 0
  met,              \* history: entries whose registration overlapped another
  minidump          \* entries also given to msm_minidump_add_region

sizing == <<nodes, total_size, no_of_nodes, counted>>

table_vars == <<sizing, memdump, next, offset, blocks, ret, probed, num_entries,
                entries, call, registered, met, minidump>>

-----------------------------------------------------------------------------
(* The probe as a caller, beside the drivers. *)
Probe == 0

Callers == {Probe} \cup Drivers

NoEntry == [id |-> NoProperty, addr |-> 0]

Slots == 0..MAX_NUM_ENTRIES - 1

NoCall == [pc |-> "idle", entry |-> NoEntry, n |-> 0]

HasSize(node) == node.size # NoProperty

(* ALIGN, and the size of the allocation: the tables, the data of the nodes
   and a header for each. *)
Align(n, a) == ((n + a - 1) \div a) * a

TotalSize == Align(total_size + DataSize * no_of_nodes, SZ_4K)

TableInit ==
  /\ nodes \in DeviceTrees
  /\ memdump = "none"
  /\ total_size = 2 * TableSize /\ no_of_nodes = 0
  /\ counted = <<2 * TableSize>>
  /\ next = 1
  /\ offset = 2 * TableSize
  /\ blocks = {}
  /\ ret = 0
  /\ probed = FALSE
  /\ num_entries = 0
  /\ entries = [i \in Slots |-> NoEntry]
  /\ call = [c \in Callers |-> NoCall]
  /\ registered = {}
  /\ met = {}
  /\ minidump = {}

-----------------------------------------------------------------------------
(* One round of the first loop, which counts the nodes that have a size. *)
AllSized == Len(counted) = Len(nodes) + 1

NodeSizeBy(node, headers) ==
  /\ memdump = "none" /\ ~AllSized
  /\ IF HasSize(node)
     THEN total_size' = total_size + node.size /\ no_of_nodes' = no_of_nodes + headers
     ELSE UNCHANGED <<total_size, no_of_nodes>>
  /\ counted' = Append(counted, total_size' + DataSize * no_of_nodes')
  /\ UNCHANGED <<nodes, memdump, next, offset, blocks, ret, probed, num_entries,
                 entries, call, registered, met, minidump>>

(* Mutant of NodeSize: the header of a block is not counted. *)
NodeSizeNoHeader == NodeSizeBy(nodes[Len(counted)], 0)

NodeSize == NodeSizeBy(nodes[Len(counted)], 1)

(* init_memory_dump publishes the table before it registers the apps table
   in it (msm_dump_table_register). *)
InitMemoryDump ==
  /\ memdump = "none" /\ AllSized
  /\ memdump' = "set"
  /\ UNCHANGED <<sizing, next, offset, blocks, ret, probed, num_entries, entries,
                 call, registered, met, minidump>>

InitAppsTable ==
  /\ memdump = "set"
  /\ memdump' = "apps"
  /\ UNCHANGED <<sizing, next, offset, blocks, ret, probed, num_entries, entries,
                 call, registered, met, minidump>>

(* mem_dump_reserve_mem before the loop, dmam_alloc_coherent after it: no
   memory, no table. *)
AllocFail ==
  /\ memdump = "none" /\ (Len(counted) = 1 \/ AllSized)
  /\ ~probed
  /\ ret' = -1
  /\ probed' = TRUE
  /\ memdump' = "failed"
  /\ UNCHANGED <<sizing, next, offset, blocks, num_entries, entries, call,
                 registered, met, minidump>>

(* The second loop skips a node without a size or an id and keeps its error
   in ret. *)
NodeSkip ==
  /\ memdump = "apps" /\ ~probed
  /\ call[Probe] = NoCall
  /\ next <= Len(nodes)
  /\ NoProperty \in {nodes[next].size, nodes[next].id}
  /\ ret' = -1
  /\ next' = next + 1
  /\ UNCHANGED <<sizing, memdump, offset, blocks, probed, num_entries, entries,
                 call, registered, met, minidump>>

TableRoom == num_entries < MAX_NUM_ENTRIES

(* The entries other callers are just registering. *)
Meets(c) == {call[d].entry : d \in {x \in Callers \ {c} : call[x] # NoCall}}

(* msm_dump_get_table finds the apps table once init_memory_dump has given
   it an address; register_dump_table_entry then checks the count. *)
RegisterCheck(c, e) ==
  /\ call[c] = NoCall
  /\ memdump = "apps"
  /\ TableRoom
  /\ met' = IF Meets(c) = {} THEN met ELSE met \cup Meets(c) \cup {e}
  /\ call' = [call EXCEPT ![c] = [pc |-> "write", entry |-> e, n |-> num_entries]]

(* The block of a node is placed and its registration starts. *)
Block(node) == [id |-> node.id, addr |-> offset, size |-> node.size]

CarveBlock ==
  /\ next <= Len(nodes) /\ ~probed
  /\ NoProperty \notin {nodes[next].size, nodes[next].id}
  /\ blocks' = blocks \cup {Block(nodes[next])}
  /\ offset' = offset + nodes[next].size + DataSize
  /\ next' = next + 1

NodeRegister ==
  /\ CarveBlock
  /\ RegisterCheck(Probe, [id |-> nodes[next].id, addr |-> offset])
  /\ UNCHANGED <<sizing, memdump, ret, probed, num_entries, entries, registered, minidump>>

(* "Data dump setup failed": the table is full, the memory is spent. *)
NodeFull ==
  /\ CarveBlock
  /\ memdump = "apps" /\ call[Probe] = NoCall
  /\ ~TableRoom
  /\ ret' = -1
  /\ UNCHANGED <<sizing, memdump, probed, num_entries, entries, call, registered, met, minidump>>

(* msm_dump_data_register of another driver, once. *)
DriverRegister(d) ==
  /\ [id |-> d, addr |-> 0] \notin registered
  /\ RegisterCheck(d, [id |-> d, addr |-> 0])
  /\ UNCHANGED <<sizing, memdump, next, offset, blocks, ret, probed, num_entries,
                 entries, registered, minidump>>

(* A slot is written; slot MAX_NUM_ENTRIES is the memory behind the table. *)
Written(k, e) == [i \in DOMAIN entries \cup {k} |-> IF i = k THEN e ELSE entries[i]]

(* The entry goes to the slot of the count, loaded before or loaded now. *)
RegisterWrite(c) ==
  /\ call[c].pc = "write"
  /\ \E k \in {call[c].n, num_entries} :
       /\ entries' = Written(k, call[c].entry)
       /\ call' = [call EXCEPT ![c].pc = "count", ![c].n = k]
  /\ UNCHANGED <<sizing, memdump, next, offset, blocks, ret, probed, num_entries,
                 registered, met, minidump>>

(* Mutant of RegisterCount: the entry is not counted. *)
RegisterCountMissing(c) ==
  /\ call[c].pc = "count"
  /\ registered' = registered \cup {call[c].entry}
  /\ call' = [call EXCEPT ![c] = NoCall]
  /\ UNCHANGED <<sizing, memdump, next, offset, blocks, ret, probed, num_entries,
                 entries, met, minidump>>

(* table->num_entries++ and, for another driver, msm_dump_data_add_minidump,
   whose failure is only reported. *)
RegisterCount(c) ==
  /\ call[c].pc = "count"
  /\ \E k \in {call[c].n, num_entries} : num_entries' = k + 1
  /\ registered' = registered \cup {call[c].entry}
  /\ ret' = IF c = Probe THEN 0 ELSE ret
  /\ minidump' \in (IF c = Probe THEN {minidump}
                    ELSE {minidump, minidump \cup {call[c].entry}})
  /\ call' = [call EXCEPT ![c] = NoCall]
  /\ UNCHANGED <<sizing, memdump, next, offset, blocks, probed, entries, met>>

(* The whole allocation becomes the minidump region "MEMDUMP"; the probe
   returns what the last node left in ret. *)
ProbeReturn ==
  /\ memdump = "apps" /\ ~probed
  /\ call[Probe] = NoCall
  /\ next > Len(nodes)
  /\ probed' = TRUE
  /\ UNCHANGED <<sizing, memdump, next, offset, blocks, ret, num_entries, entries,
                 call, registered, met, minidump>>

TableNext ==
  \/ NodeSize \/ InitMemoryDump \/ InitAppsTable \/ AllocFail
  \/ NodeSkip \/ NodeRegister \/ NodeFull \/ ProbeReturn
  \/ \E d \in Drivers : DriverRegister(d)
  \/ \E c \in Callers : RegisterWrite(c) \/ RegisterCount(c)

TableSpec == TableInit /\ [][TableNext]_table_vars

-----------------------------------------------------------------------------
(* Type invariant of the dump table. *)
TableTypeOK ==
  /\ nodes \in Seq([size : Property, id : Property])
  /\ memdump \in {"none", "failed", "set", "apps"}
  /\ total_size \in Nat /\ no_of_nodes \in 0..Len(nodes)
  /\ counted \in Seq(Nat)
  /\ next \in 1..Len(nodes) + 1
  /\ offset \in Nat
  /\ ret \in {0, -1} /\ probed \in BOOLEAN
  /\ num_entries \in Nat
  /\ Slots \subseteq DOMAIN entries
  /\ \A i \in DOMAIN entries : i \in Nat /\ entries[i] \in [id : Property, addr : Nat]
  /\ call \in [Callers -> [pc : {"idle", "write", "count"},
                           entry : [id : Property, addr : Nat], n : Nat]]
  /\ minidump \subseteq registered

(* The blocks the probe hands out, header included, lie after the two tables,
   inside the allocation, and do not overlap: the first loop counts memory
   for at least the nodes the second loop serves (mem_dump_alloc). *)
BlocksInside ==
  /\ \A b \in blocks : /\ b.addr >= 2 * TableSize
                       /\ b.addr + DataSize + b.size <= TotalSize
  /\ \A b, c \in blocks : b # c => \/ b.addr + DataSize + b.size <= c.addr
                                   \/ c.addr + DataSize + c.size <= b.addr

(* The counted slots. *)
InTable == {entries[i] : i \in 0..num_entries - 1}

(* register_dump_table_entry has no lock, yet a race cannot undo what was there
   before: an entry whose registration overlapped no other is in a counted slot
   of the table, and stays there however many later registrations race.  As
   long as none has, nothing is written behind the table, and between calls it
   holds exactly the entries whose registration returned 0, each once. *)
EntriesComplete ==
  /\ \A e \in registered \ met : \E i \in Slots : i < num_entries /\ entries[i] = e
  /\ met = {} =>
       /\ DOMAIN entries = Slots /\ num_entries <= MAX_NUM_ENTRIES
       /\ (\A c \in Callers : call[c] = NoCall) =>
            InTable = registered /\ num_entries = Cardinality(registered)

-----------------------------------------------------------------------------
(* Refuted: msm_dump_data_register, "register the entry passed to dump table"
   (memory_dump_v2.c:883): between calls every entry whose registration
   returned 0 is in the table.  Two that overlap may share a slot. *)
EveryEntryKept ==
  (\A c \in Callers : call[c] = NoCall) =>
    \A e \in registered : \E i \in Slots : i < num_entries /\ entries[i] = e
=============================================================================
