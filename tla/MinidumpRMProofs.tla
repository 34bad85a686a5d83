-------------------------- MODULE MinidumpRMProofs --------------------------
(***************************************************************************)
(* Proofs about MinidumpRM for any number of entries, names, regions,      *)
(* worker threads and slots, and a queue of any length: the entry a work   *)
(* found before it called the resource manager is still its own when the   *)
(* call is back, while the resource manager does not fail no slot is lost, *)
(* and what is registered is what the ELF header describes.                *)
(*                                                                         *)
(* The first rests on the queue, which runs one work at a time, and on the *)
(* probe, which moves entries only before the first work exists.  For the  *)
(* second an entry and the works about it must be related: an add waits    *)
(* for a slot of an entry that has none, only one add waits for a name,    *)
(* and a work that has taken a slot out of its entry holds it itself.  The *)
(* third needs the order of the queue: the adds that wait are those of the *)
(* entries without a header, in the order of the entries.                  *)
(***************************************************************************)
EXTENDS MinidumpRM, ElfHeaderProofs, FiniteSetTheorems, TLAPS

Cmds == {"MINIDUMP_ADD", "MINIDUMP_UPDATE", "MINIDUMP_REMOVE"}

Entries == [name : Names \cup {NoName}, slot_num : RmSlots \cup {0}]

Requests(S) == [cmd : Cmds, entry : S]

WorkRecords(S) == [pc : {"idle", "register", "deregister", "finish", "drop"},
                   cmd : Cmds \cup {"none"}, entry : S, entryno : Slots,
                   slot : RmSlots \cup {0}]

(* A region to remove may come from md_get_region: whatever the set is. *)
QueueType == \E S : wq \in Seq(Requests(S)) /\ work \in [Workers -> WorkRecords(S)]

TypeInv ==
  /\ probe \in {"none", "failed", "table", "drained", "done"}
  /\ num_regions \in 0..MAX_NUM_ENTRIES
  /\ entry \in [Slots -> Entries]
  /\ pending_list \in Seq(Region)
  /\ client \in [Names -> Region \cup {NoRegion}]
  /\ DOMAIN rm \subseteq RmSlots
  /\ rmFailed \in BOOLEAN

Busy(w) == work[w].pc # "idle"

OneWork == \A v, w \in Workers : Busy(v) /\ Busy(w) => v = w

(* Until the drain there is no work and no entry. *)
BeforeDrain ==
  probe \in {"none", "table"} =>
    /\ wq = <<>> /\ \A w \in Workers : ~Busy(w)
    /\ \A i \in Slots : entry[i] = NoEntry
    /\ num_regions = Len(pending_list)
    /\ \A i, j \in DOMAIN pending_list : pending_list[i].name = pending_list[j].name => i = j
    /\ \A i \in DOMAIN pending_list : client[pending_list[i].name] # NoRegion

IndInv == TypeInv /\ QueueType /\ OneWork /\ BeforeDrain /\ WorkIndexStable

-----------------------------------------------------------------------------
(* md_rm_entry_num finds an entry of the name. *)
LEMMA EntryNumIn ==
  ASSUME TypeInv, NEW n, EntrySlots(n) # {}
  PROVE  /\ EntryNum(n) \in Slots /\ EntryNum(n) < num_regions
         /\ entry[EntryNum(n)].name = n
  <1>1. EntrySlots(n) \subseteq Nat
    BY DEF EntrySlots, TypeInv
  <1>2. EntryNum(n) \in EntrySlots(n)
    BY <1>1, MinIn DEF EntryNum
  <1> QED
    BY <1>2, MaxAssumption DEF EntrySlots, TypeInv, Slots

LEMMA AppendFacts ==
  ASSUME NEW T, NEW q \in Seq(T), NEW r \in T
  PROVE  /\ Append(q, r) \in Seq(T) /\ Append(q, r) # <<>>
         /\ DOMAIN Append(q, r) = DOMAIN q \cup {Len(q) + 1} /\ Len(q) + 1 \notin DOMAIN q
         /\ \A i \in DOMAIN q : Append(q, r)[i] = q[i]
         /\ Append(q, r)[Len(q) + 1] = r
  OBVIOUS

LEMMA TailFacts ==
  ASSUME NEW T, NEW q \in Seq(T), q # <<>>
  PROVE  /\ Tail(q) \in Seq(T) /\ Head(q) \in T
         /\ 1 \in DOMAIN q /\ Head(q) = q[1]
         /\ \A i \in DOMAIN Tail(q) :
              i \in Nat \ {0} /\ i + 1 \in DOMAIN q /\ Tail(q)[i] = q[i + 1]
  OBVIOUS

(* Whatever set the regions of the works are in, another region may be. *)
LEMMA WiderQueue ==
  ASSUME QueueType, NEW e
  PROVE  \E S : e \in S /\ wq \in Seq(Requests(S)) /\ work \in [Workers -> WorkRecords(S)]
  <1>1. PICK S : wq \in Seq(Requests(S)) /\ work \in [Workers -> WorkRecords(S)]
    BY DEF QueueType
  <1> DEFINE R == S \cup {e}
  <1>2. Requests(S) \subseteq Requests(R) /\ WorkRecords(S) \subseteq WorkRecords(R)
    BY DEF Requests, WorkRecords
  <1>3. wq \in Seq(Requests(R))
    <2> DEFINE A == Requests(S)
               B == Requests(R)
    <2>1. wq \in Seq(A) /\ A \subseteq B
      BY <1>1, <1>2
    <2> HIDE DEF A, B
    <2>2. wq \in Seq(B)
      BY <2>1
    <2> QED
      BY <2>2 DEF B
  <1>4. work \in [Workers -> WorkRecords(R)]
    BY <1>1, <1>2
  <1> QED
    BY <1>3, <1>4

(* A call queues a work. *)
LEMMA QueueAppend ==
  ASSUME QueueType, NEW cmd \in Cmds, NEW e, wq' = Append(wq, Request(cmd, e)), UNCHANGED work
  PROVE  /\ QueueType' /\ wq' # <<>>
         /\ DOMAIN wq' = DOMAIN wq \cup {Len(wq) + 1} /\ Len(wq) + 1 \notin DOMAIN wq
         /\ \A i \in DOMAIN wq : wq'[i] = wq[i]
         /\ wq'[Len(wq) + 1] = Request(cmd, e)
  <1>1. PICK S : e \in S /\ wq \in Seq(Requests(S)) /\ work \in [Workers -> WorkRecords(S)]
    BY WiderQueue
  <1>2. Request(cmd, e) \in Requests(S)
    BY <1>1 DEF Request, Requests
  <1> HIDE DEF Request, Requests
  <1> DEFINE T == Requests(S)
             r == Request(cmd, e)
  <1>3. wq \in Seq(T) /\ r \in T /\ wq' = Append(wq, r)
    BY <1>1, <1>2
  <1> HIDE DEF T, r
  <1>4. /\ wq' \in Seq(T) /\ wq' # <<>>
        /\ DOMAIN wq' = DOMAIN wq \cup {Len(wq) + 1} /\ Len(wq) + 1 \notin DOMAIN wq
        /\ \A i \in DOMAIN wq : wq'[i] = wq[i]
        /\ wq'[Len(wq) + 1] = r
    BY <1>3, AppendFacts
  <1> QED
    BY <1>1, <1>4 DEF QueueType, T, r

(* Only w may be at work. *)
Sole(w) == \A u \in Workers \ {w} : ~Busy(u)

Indexed(w) ==
  /\ work[w].entryno < num_regions
  /\ entry[work[w].entryno].name = work[w].entry.name

LEMMA SoleKeeps ==
  ASSUME TypeInv', QueueType', probe' \notin {"none", "table"}, NEW w \in Workers, Sole(w)',
         Busy(w)' => Indexed(w)'
  PROVE  IndInv'
  BY DEF IndInv, OneWork, BeforeDrain, WorkIndexStable, Sole, Busy, Indexed

LEMMA BusySole ==
  ASSUME IndInv, NEW w \in Workers, Busy(w)
  PROVE  /\ Sole(w) /\ Indexed(w) /\ TypeInv /\ QueueType /\ probe \notin {"none", "table"}
         /\ work[w].entryno \in Slots /\ work[w].slot \in RmSlots \cup {0}
         /\ work[w].cmd \in Cmds \cup {"none"}
  <1>1. PICK S : wq \in Seq(Requests(S)) /\ work \in [Workers -> WorkRecords(S)]
    BY DEF IndInv, QueueType
  <1>2. work[w] \in WorkRecords(S)
    BY <1>1
  <1> QED
    BY <1>2 DEF IndInv, OneWork, BeforeDrain, WorkIndexStable, Sole, Busy, Indexed, WorkRecords

(* A step of w gives its record other values. *)
LEMMA RecordSet ==
  ASSUME NEW S, wq' \in Seq(Requests(S)), work \in [Workers -> WorkRecords(S)],
         NEW w \in Workers, NEW v \in WorkRecords(S), Sole(w), work' = [work EXCEPT ![w] = v]
  PROVE  QueueType' /\ work'[w] = v /\ Sole(w)'
  <1>1. work' \in [Workers -> WorkRecords(S)] /\ work'[w] = v
    BY Zenon
  <1>2. \A u \in Workers \ {w} : work'[u] = work[u]
    BY Zenon
  <1> QED
    BY <1>1, <1>2 DEF QueueType, Sole, Busy

LEMMA WorkEnds ==
  ASSUME QueueType, NEW w \in Workers, Sole(w), work' = [work EXCEPT ![w] = Idle], UNCHANGED wq
  PROVE  QueueType' /\ work'[w] = Idle /\ Sole(w)' /\ ~Busy(w)'
  <1>1. PICK S : /\ NoRegion \in S /\ wq \in Seq(Requests(S))
                 /\ work \in [Workers -> WorkRecords(S)]
    BY WiderQueue
  <1>2. Idle \in WorkRecords(S) /\ Idle.pc = "idle"
    BY <1>1, MaxAssumption DEF Idle, WorkRecords, Slots
  <1>3. QueueType' /\ work'[w] = Idle /\ Sole(w)'
    BY <1>1, <1>2, RecordSet
  <1> QED
    BY <1>2, <1>3 DEF Busy

(* The call of the resource manager is back. *)
LEMMA WorkMoves ==
  ASSUME QueueType, NEW w \in Workers, Sole(w), UNCHANGED wq,
         NEW pc \in {"register", "finish", "drop"}, NEW s \in RmSlots \cup {0},
         work' = [work EXCEPT ![w].pc = pc, ![w].slot = s]
  PROVE  /\ QueueType' /\ Sole(w)' /\ Busy(w)'
         /\ work'[w].pc = pc /\ work'[w].slot = s /\ work'[w].cmd = work[w].cmd
         /\ work'[w].entry = work[w].entry /\ work'[w].entryno = work[w].entryno
  <1>1. PICK S : wq \in Seq(Requests(S)) /\ work \in [Workers -> WorkRecords(S)]
    BY DEF QueueType
  <1> DEFINE v == [work[w] EXCEPT !.pc = pc, !.slot = s]
  <1>2. work[w] \in WorkRecords(S)
    BY <1>1
  <1>3. /\ v \in WorkRecords(S) /\ v.pc = pc /\ v.slot = s /\ v.cmd = work[w].cmd
        /\ v.entry = work[w].entry /\ v.entryno = work[w].entryno
    BY <1>2 DEF WorkRecords
  <1>4. work' = [work EXCEPT ![w] = v]
    BY <1>1
  <1> HIDE DEF v
  <1>5. QueueType' /\ work'[w] = v /\ Sole(w)'
    BY <1>1, <1>3, <1>4, RecordSet
  <1> QED
    BY <1>3, <1>5 DEF Busy

LEMMA WorkDrops ==
  ASSUME QueueType, NEW w \in Workers, Sole(w), UNCHANGED wq, work' = [work EXCEPT ![w].pc = "drop"]
  PROVE  /\ QueueType' /\ Sole(w)' /\ Busy(w)'
         /\ work'[w].pc = "drop" /\ work'[w].slot = work[w].slot /\ work'[w].cmd = work[w].cmd
         /\ work'[w].entry = work[w].entry /\ work'[w].entryno = work[w].entryno
  <1>1. PICK S : wq \in Seq(Requests(S)) /\ work \in [Workers -> WorkRecords(S)]
    BY DEF QueueType
  <1> DEFINE v == [work[w] EXCEPT !.pc = "drop"]
  <1>2. work[w] \in WorkRecords(S)
    BY <1>1
  <1>3. /\ v \in WorkRecords(S) /\ v.pc = "drop" /\ v.slot = work[w].slot /\ v.cmd = work[w].cmd
        /\ v.entry = work[w].entry /\ v.entryno = work[w].entryno
    BY <1>2 DEF WorkRecords
  <1>4. work' = [work EXCEPT ![w] = v]
    BY <1>1
  <1> HIDE DEF v
  <1>5. QueueType' /\ work'[w] = v /\ Sole(w)'
    BY <1>1, <1>3, <1>4, RecordSet
  <1> QED
    BY <1>3, <1>5 DEF Busy

(* A work is taken from the queue, and goes on with what it found. *)
LEMMA WorkStarts ==
  ASSUME IndInv, NEW w \in Workers, NEW cmd \in Cmds, StartWork(w, cmd)
  PROVE  /\ Sole(w) /\ ~Busy(w) /\ probe \notin {"none", "table"}
         /\ 1 \in DOMAIN wq /\ Head(wq) = wq[1] /\ Head(wq).cmd = cmd
         /\ \A i \in DOMAIN wq' : i \in Nat \ {0} /\ i + 1 \in DOMAIN wq /\ wq'[i] = wq[i + 1]
         /\ UNCHANGED work => QueueType' /\ Sole(w)' /\ ~Busy(w)'
         /\ \A pc \in {"register", "deregister"}, k \in Slots, s \in RmSlots \cup {0} :
              Continue(w, pc, k, s) =>
                /\ QueueType' /\ Sole(w)' /\ Busy(w)'
                /\ work'[w].pc = pc /\ work'[w].slot = s /\ work'[w].cmd = cmd
                /\ work'[w].entry = Head(wq).entry /\ work'[w].entryno = k
  <1>1. PICK S : wq \in Seq(Requests(S)) /\ work \in [Workers -> WorkRecords(S)]
    BY DEF IndInv, QueueType
  <1>2. wq # <<>> /\ Head(wq).cmd = cmd /\ wq' = Tail(wq) /\ \A u \in Workers : ~Busy(u)
    BY DEF StartWork, MayStart, Busy
  <1>3. Sole(w) /\ ~Busy(w) /\ probe \notin {"none", "table"}
    BY <1>2 DEF Sole, IndInv, BeforeDrain
  <1>4. /\ wq' \in Seq(Requests(S)) /\ Head(wq) \in Requests(S)
        /\ 1 \in DOMAIN wq /\ Head(wq) = wq[1]
        /\ \A i \in DOMAIN wq' : i \in Nat \ {0} /\ i + 1 \in DOMAIN wq /\ wq'[i] = wq[i + 1]
    <2> DEFINE T == Requests(S)
    <2>1. wq \in Seq(T)
      BY <1>1
    <2> HIDE DEF T
    <2>2. /\ Tail(wq) \in Seq(T) /\ Head(wq) \in T
          /\ 1 \in DOMAIN wq /\ Head(wq) = wq[1]
          /\ \A i \in DOMAIN Tail(wq) :
               i \in Nat \ {0} /\ i + 1 \in DOMAIN wq /\ Tail(wq)[i] = wq[i + 1]
      BY <1>2, <2>1, TailFacts
    <2> QED
      BY <1>2, <2>2 DEF T
  <1>5. UNCHANGED work => QueueType' /\ Sole(w)' /\ ~Busy(w)'
    BY <1>1, <1>2, <1>3, <1>4 DEF QueueType, Sole, Busy
  <1>6. ASSUME NEW pc \in {"register", "deregister"}, NEW k \in Slots,
               NEW s \in RmSlots \cup {0}, Continue(w, pc, k, s)
        PROVE  /\ QueueType' /\ Sole(w)' /\ Busy(w)'
               /\ work'[w].pc = pc /\ work'[w].slot = s /\ work'[w].cmd = cmd
               /\ work'[w].entry = Head(wq).entry /\ work'[w].entryno = k
    <2> DEFINE v == [pc |-> pc, cmd |-> Head(wq).cmd, entry |-> Head(wq).entry,
                     entryno |-> k, slot |-> s]
    <2>1. /\ v.pc = pc /\ v.slot = s /\ v.cmd = cmd /\ v.entry = Head(wq).entry /\ v.entryno = k
      BY <1>2
    <2>2. Head(wq).entry \in S
      BY <1>4 DEF Requests
    <2>3. v \in WorkRecords(S)
      BY <1>2, <2>2 DEF WorkRecords
    <2>4. work' = [work EXCEPT ![w] = v]
      BY <1>6 DEF Continue
    <2> HIDE DEF v
    <2>5. QueueType' /\ work'[w] = v /\ Sole(w)'
      BY <1>1, <1>3, <1>4, <2>3, <2>4, RecordSet
    <2> QED
      BY <2>1, <2>5 DEF Busy
  <1> QED
    BY <1>2, <1>3, <1>4, <1>5, <1>6

-----------------------------------------------------------------------------
(* One step per operation. *)
LEMMA EntryRecord ==
  /\ NoEntry \in Entries /\ NoEntry.name = NoName /\ NoEntry.slot_num = 0
  /\ \A n \in Names : [name |-> n, slot_num |-> 0] \in Entries
  /\ NoRegion.name = NoName /\ NoRegion \notin Region
  /\ \A e \in Regions : e \in Region /\ e.name \in Names
  BY NamesAssumption, RegionsAssumption DEF NoEntry, Entries, NoRegion, Region

(* Nothing but the step of the probe, or nothing at all. *)
LEMMA QuietKeeps ==
  ASSUME IndInv, UNCHANGED <<pending_list, num_regions, entry, wq, work, rm, client, rmFailed>>,
         probe' \in {"none", "failed", "table", "drained", "done"},
         probe' \in {"none", "table"} => probe \in {"none", "table"}
  PROVE  IndInv'
  BY DEF IndInv, TypeInv, QueueType, OneWork, BeforeDrain, WorkIndexStable, Busy

(* The drain happens before there is any work. *)
LEMMA DrainKeeps ==
  ASSUME IndInv, probe = "table", probe' \in {"drained", "failed"},
         NEW k \in 0..Len(pending_list), DrainPending(k)
  PROVE  /\ IndInv' /\ \A w \in Workers : ~Busy(w)'
         /\ \A i \in Slots : entry'[i].slot_num = 0
         /\ \A i \in 0..k - 1 : i \in Slots /\ entry'[i].name = pending_list[i + 1].name
         /\ k <= num_regions'
         /\ DOMAIN wq' = 1..k
         /\ \A i \in 1..k : wq'[i] = Request("MINIDUMP_ADD", pending_list[i])
  <1>1. /\ wq = <<>> /\ (\A w \in Workers : ~Busy(w)) /\ \A i \in Slots : entry[i] = NoEntry
        /\ num_regions = Len(pending_list) /\ pending_list \in Seq(Region)
        /\ num_regions \in 0..MAX_NUM_ENTRIES /\ entry \in [Slots -> Entries]
    BY DEF IndInv, BeforeDrain, TypeInv
  <1>2. /\ Len(pending_list) \in Nat /\ DOMAIN pending_list = 1..Len(pending_list)
        /\ \A i \in 1..k : i \in DOMAIN pending_list /\ pending_list[i] \in Region
        /\ k \in Nat /\ k <= num_regions
    BY <1>1
  <1> DEFINE new == [i \in 1..k |-> Request("MINIDUMP_ADD", pending_list[i])]
             S == {pending_list[i] : i \in 1..k}
  <1>3. new \in Seq(Requests(S)) /\ DOMAIN new = 1..k
    <2>1. \A i \in 1..k : Request("MINIDUMP_ADD", pending_list[i]) \in Requests(S)
      BY DEF Request, Requests, Cmds
    <2>2. new \in [1..k -> Requests(S)]
      BY <2>1
    <2> DEFINE T == Requests(S)
    <2> HIDE DEF T, new
    <2>3. new \in [1..k -> T] /\ k \in Nat
      BY <1>2, <2>2 DEF T
    <2>4. new \in Seq(T)
      BY <2>3
    <2> QED
      BY <2>3, <2>4 DEF T
  <1>4. wq' = new
    <2> DEFINE T == Requests(S)
    <2>1. wq' = wq \o new /\ new \in Seq(T)
      BY <1>3 DEF DrainPending
    <2> HIDE DEF T, new
    <2> QED
      BY <1>1, <2>1
  <1>5. UNCHANGED <<num_regions, work, rm, client, rmFailed>>
    BY DEF DrainPending
  <1>6. QueueType'
    <2>1. PICK U : work \in [Workers -> WorkRecords(U)]
      BY DEF IndInv, QueueType
    <2> DEFINE R == S \cup U
    <2>2. Requests(S) \subseteq Requests(R) /\ WorkRecords(U) \subseteq WorkRecords(R)
      BY DEF Requests, WorkRecords
    <2>3. wq' \in Seq(Requests(R))
      <3> DEFINE A == Requests(S)
                 B == Requests(R)
      <3>1. wq' \in Seq(A) /\ A \subseteq B
        BY <1>3, <1>4, <2>2
      <3> HIDE DEF A, B
      <3>2. wq' \in Seq(B)
        BY <3>1
      <3> QED
        BY <3>2 DEF B
    <2>4. work' \in [Workers -> WorkRecords(R)]
      BY <1>5, <2>1, <2>2
    <2> QED
      BY <2>3, <2>4 DEF QueueType
  <1>7. /\ \A i \in Slots : entry'[i] = IF i < k THEN [NoEntry EXCEPT !.name = pending_list[i + 1].name]
                                        ELSE NoEntry
        /\ DOMAIN entry' = Slots /\ entry' = [i \in Slots |-> entry'[i]]
    BY <1>1 DEF DrainPending
  <1>8. ASSUME NEW i \in Slots
        PROVE  /\ entry'[i] \in Entries /\ entry'[i].slot_num = 0
               /\ i < k => entry'[i].name = pending_list[i + 1].name
    <2>1. CASE i < k
      <3>1. i + 1 \in 1..k
        BY <1>2, <2>1 DEF Slots
      <3>2. pending_list[i + 1].name \in Names
        BY <1>2, <3>1 DEF Region
      <3> QED
        BY <1>7, <2>1, <3>2 DEF NoEntry, Entries
    <2>2. CASE ~(i < k)
      BY <1>7, <2>2, EntryRecord
    <2> QED
      BY <2>1, <2>2
  <1>9. \A i \in 0..k - 1 : i \in Slots /\ i < k
    BY <1>1, <1>2, MaxAssumption DEF Slots
  <1>10. pending_list' \in Seq(Region)
    <2>1. pending_list' = SubSeq(pending_list, k + 1, Len(pending_list))
      BY DEF DrainPending
    <2> QED
      BY <1>1, <1>2, <2>1
  <1>11. entry' \in [Slots -> Entries]
    BY <1>7, <1>8
  <1>12. TypeInv'
    BY <1>5, <1>10, <1>11 DEF TypeInv, IndInv
  <1>13. \A w \in Workers : ~Busy(w)'
    BY <1>1, <1>5 DEF Busy
  <1>14. IndInv'
    BY <1>6, <1>12, <1>13 DEF IndInv, OneWork, BeforeDrain, WorkIndexStable, Busy
  <1> QED
    BY <1>2, <1>3, <1>4, <1>5, <1>8, <1>9, <1>13, <1>14

LEMMA AddRegionKeeps ==
  ASSUME IndInv, NEW e \in Regions, AddRegion(e)
  PROVE  /\ IndInv' /\ num_regions' = num_regions + 1 /\ num_regions \in Slots
         /\ entry' = [entry EXCEPT ![num_regions] = [name |-> e.name, slot_num |-> 0]]
         /\ entry'[num_regions].name = e.name /\ entry'[num_regions].slot_num = 0
         /\ \A i \in Slots : i # num_regions => entry'[i] = entry[i]
         /\ EntrySlots(e.name) = {}
         /\ DOMAIN wq' = DOMAIN wq \cup {Len(wq) + 1} /\ Len(wq) + 1 \notin DOMAIN wq
         /\ \A i \in DOMAIN wq : wq'[i] = wq[i]
         /\ wq'[Len(wq) + 1] = Request("MINIDUMP_ADD", e)
         /\ UNCHANGED <<work, rm, rmFailed>>
  <1> DEFINE N == num_regions
             v == [name |-> e.name, slot_num |-> 0]
  <1>1. /\ TypeInv /\ QueueType /\ probe = "done" /\ N < MAX_NUM_ENTRIES /\ N \in Nat
        /\ entry' = [entry EXCEPT ![N] = v]
        /\ wq' = Append(wq, Request("MINIDUMP_ADD", e)) /\ num_regions' = N + 1
        /\ client' = [client EXCEPT ![e.name] = e] /\ EntrySlots(e.name) = {}
        /\ UNCHANGED <<probe, pending_list, work, rm, rmFailed>>
    BY MaxAssumption DEF AddRegion, IndInv, MdInitDone, TypeInv
  <1>2. N \in Slots /\ v \in Entries /\ v.name = e.name /\ v.slot_num = 0 /\ e \in Region
    BY <1>1, MaxAssumption, EntryRecord DEF Slots
  <1> HIDE DEF N, v
  <1>3. /\ QueueType' /\ wq' # <<>>
        /\ DOMAIN wq' = DOMAIN wq \cup {Len(wq) + 1} /\ Len(wq) + 1 \notin DOMAIN wq
        /\ \A i \in DOMAIN wq : wq'[i] = wq[i]
        /\ wq'[Len(wq) + 1] = Request("MINIDUMP_ADD", e)
    BY <1>1, QueueAppend DEF Cmds
  <1>4. /\ entry' \in [Slots -> Entries] /\ entry'[N] = v
        /\ \A i \in Slots : i # N => entry'[i] = entry[i]
    BY <1>1, <1>2 DEF TypeInv
  <1>5. num_regions' \in 0..MAX_NUM_ENTRIES
    BY <1>1, MaxAssumption
  <1>6. TypeInv'
    BY <1>1, <1>2, <1>4, <1>5 DEF TypeInv
  <1>7. ASSUME NEW w \in Workers, Busy(w) PROVE Indexed(w)'
    <2>1. Indexed(w) /\ work[w].entryno \in Slots
      BY <1>7, BusySole
    <2>2. work[w].entryno < N /\ work[w].entryno < N + 1 /\ work[w].entryno # N
      BY <1>1, <2>1 DEF Indexed, Slots, N
    <2>3. entry'[work[w].entryno] = entry[work[w].entryno]
      BY <1>4, <2>1, <2>2
    <2> QED
      BY <1>1, <2>1, <2>2, <2>3 DEF Indexed
  <1>8. IndInv'
    BY <1>1, <1>3, <1>6, <1>7 DEF IndInv, OneWork, BeforeDrain, WorkIndexStable, Busy, Indexed
  <1> QED
    BY <1>1, <1>2, <1>3, <1>4, <1>8 DEF N, v

LEMMA AddPendingKeeps ==
  ASSUME IndInv, NEW e \in Regions, AddPending(e)
  PROVE  /\ IndInv' /\ num_regions' = num_regions + 1
         /\ UNCHANGED <<entry, wq, work, rm, rmFailed>>
  <1> DEFINE N == num_regions
             L == Len(pending_list)
  <1>1. /\ TypeInv /\ N < MAX_NUM_ENTRIES /\ N \in Nat /\ num_regions' = N + 1
        /\ pending_list' = Append(pending_list, e) /\ client[e.name] = NoRegion
        /\ client' = [client EXCEPT ![e.name] = e] /\ pending_list \in Seq(Region)
        /\ UNCHANGED <<probe, entry, wq, work, rm, rmFailed>>
    BY MaxAssumption DEF AddPending, IndInv, TypeInv
  <1>2. e \in Region /\ e.name \in Names /\ e # NoRegion
    BY EntryRecord
  <1>3. /\ pending_list' \in Seq(Region) /\ Len(pending_list') = L + 1
        /\ DOMAIN pending_list' = DOMAIN pending_list \cup {L + 1} /\ L + 1 \notin DOMAIN pending_list
        /\ \A i \in DOMAIN pending_list : pending_list'[i] = pending_list[i]
        /\ pending_list'[L + 1] = e
        /\ \A i \in DOMAIN pending_list : pending_list[i].name \in Names
    <2>1. /\ pending_list' \in Seq(Region) /\ Len(pending_list') = L + 1 /\ L \in Nat
          /\ DOMAIN pending_list' = 1..L + 1 /\ DOMAIN pending_list = 1..L
          /\ \A i \in DOMAIN pending_list : pending_list'[i] = pending_list[i]
          /\ pending_list'[L + 1] = e
          /\ \A i \in DOMAIN pending_list : pending_list[i] \in Region
      BY <1>1, <1>2
    <2> HIDE DEF L
    <2>2. /\ DOMAIN pending_list' = DOMAIN pending_list \cup {L + 1}
          /\ L + 1 \notin DOMAIN pending_list
      BY <2>1
    <2>3. \A r \in Region : r.name \in Names
      BY DEF Region
    <2> QED
      BY <2>1, <2>2, <2>3
  <1> HIDE DEF L, N
  <1>4. num_regions' \in 0..MAX_NUM_ENTRIES
    BY <1>1, MaxAssumption
  <1>5. /\ client' \in [Names -> Region \cup {NoRegion}] /\ client'[e.name] = e
        /\ \A n \in Names : n # e.name => client'[n] = client[n]
    BY <1>1, <1>2 DEF TypeInv
  <1>6. TypeInv' /\ QueueType'
    BY <1>1, <1>3, <1>4, <1>5 DEF TypeInv, IndInv, QueueType
  <1>7. OneWork' /\ WorkIndexStable'
    <2>1. OneWork'
      BY <1>1 DEF OneWork, Busy, IndInv
    <2>2. ASSUME NEW w \in Workers, Busy(w) PROVE Indexed(w)'
      <3>1. Indexed(w) /\ work[w].entryno \in Slots
        BY <2>2, BusySole
      <3>2. work[w].entryno < N + 1
        BY <1>1, <3>1 DEF Indexed, Slots, N
      <3> QED
        BY <1>1, <3>1, <3>2 DEF Indexed
    <2> QED
      BY <1>1, <2>1, <2>2 DEF WorkIndexStable, Busy, Indexed
  <1>8. BeforeDrain'
    <2> SUFFICES ASSUME probe \in {"none", "table"} PROVE BeforeDrain'
      BY <1>1 DEF BeforeDrain
    <2>1. /\ wq = <<>> /\ (\A w \in Workers : ~Busy(w)) /\ (\A i \in Slots : entry[i] = NoEntry)
          /\ N = L
          /\ \A i, j \in DOMAIN pending_list : pending_list[i].name = pending_list[j].name => i = j
          /\ \A i \in DOMAIN pending_list : client[pending_list[i].name] # NoRegion
      BY DEF IndInv, BeforeDrain, N, L
    <2>2. \A i, j \in DOMAIN pending_list' : pending_list'[i].name = pending_list'[j].name => i = j
      BY <1>1, <1>3, <2>1
    <2>3. \A i \in DOMAIN pending_list' : client'[pending_list'[i].name] # NoRegion
      BY <1>1, <1>2, <1>3, <1>5, <2>1
    <2>4. num_regions' = Len(pending_list')
      BY <1>1, <1>3, <2>1
    <2> QED
      BY <1>1, <2>1, <2>2, <2>3, <2>4 DEF BeforeDrain, Busy
  <1> QED
    BY <1>1, <1>6, <1>7, <1>8 DEF IndInv, N

(* An update or a remove is queued. *)
LEMMA QueueKeeps ==
  ASSUME IndInv, probe = "done", NEW cmd \in Cmds, NEW e, wq' = Append(wq, Request(cmd, e)),
         client' \in [Names -> Region \cup {NoRegion}],
         UNCHANGED <<probe, pending_list, num_regions, entry, work, rm, rmFailed>>
  PROVE  IndInv'
  <1>1. QueueType'
    BY QueueAppend DEF IndInv
  <1> QED
    BY <1>1 DEF IndInv, TypeInv, OneWork, BeforeDrain, WorkIndexStable, Busy

(* The entries behind entry k move down by one. *)
LEMMA RemoveSlotFacts ==
  ASSUME TypeInv, NEW k \in Slots, k < num_regions,
         entry' = RemoveSlot(entry, k, num_regions, NoEntry), num_regions' = num_regions - 1
  PROVE  /\ entry' \in [Slots -> Entries] /\ num_regions' \in 0..MAX_NUM_ENTRIES
         /\ \A i \in Slots : \/ entry'[i] = NoEntry
                             \/ entry'[i] = entry[i] /\ (i < k \/ i >= num_regions)
                             \/ /\ k <= i /\ i < num_regions - 1
                                /\ i + 1 \in Slots /\ entry'[i] = entry[i + 1]
         /\ \A i \in Slots : i < k => i < num_regions' /\ entry'[i] = entry[i]
         /\ \A i \in Slots : k < i /\ i < num_regions =>
              i - 1 \in Slots /\ i - 1 < num_regions' /\ entry'[i - 1] = entry[i]
  <1> DEFINE N == num_regions
  <1>1. N \in Nat /\ N <= MAX_NUM_ENTRIES /\ k \in Nat /\ MAX_NUM_ENTRIES \in Nat
    BY MaxAssumption DEF TypeInv, Slots
  <1>2. \A i \in Slots : entry'[i] = IF i = N - 1 THEN NoEntry
                                     ELSE IF k <= i /\ i < N - 1 THEN entry[i + 1]
                                     ELSE entry[i]
    BY DEF RemoveSlot, TypeInv
  <1>3. DOMAIN entry' = Slots /\ entry' = [i \in Slots |-> entry'[i]]
    BY DEF RemoveSlot, TypeInv
  <1>4. num_regions' = N - 1 /\ k < N
    OBVIOUS
  <1> HIDE DEF N
  <1>5. \A i \in Slots : /\ i \in Int /\ (i < N - 1 => i + 1 \in Slots)
                         /\ k < i => i - 1 \in Slots
    BY <1>1 DEF Slots
  <1>6. ASSUME NEW i \in Slots
        PROVE  \/ entry'[i] = NoEntry
               \/ entry'[i] = entry[i] /\ (i < k \/ i >= N)
               \/ /\ k <= i /\ i < N - 1
                  /\ i + 1 \in Slots /\ entry'[i] = entry[i + 1]
    BY <1>1, <1>2, <1>4, <1>5
  <1>7. entry' \in [Slots -> Entries]
    <2>1. \A i \in Slots : entry'[i] \in Entries
      BY <1>6, EntryRecord DEF TypeInv
    <2> QED
      BY <1>3, <2>1
  <1>8. ASSUME NEW i \in Slots, i < k PROVE i < N - 1 /\ entry'[i] = entry[i]
    BY <1>1, <1>2, <1>4, <1>5, <1>8
  <1>9. ASSUME NEW i \in Slots, k < i, i < N
        PROVE  i - 1 \in Slots /\ i - 1 < N - 1 /\ entry'[i - 1] = entry[i]
    <2>1. i - 1 \in Slots /\ k <= i - 1 /\ i - 1 < N - 1 /\ (i - 1) + 1 = i /\ i - 1 # N - 1
      BY <1>1, <1>5, <1>9
    <2> QED
      BY <1>2, <2>1
  <1>10. N - 1 \in 0..MAX_NUM_ENTRIES
    BY <1>1, <1>4
  <1> QED
    BY <1>4, <1>6, <1>7, <1>8, <1>9, <1>10 DEF N

(* A slot number is written into entry k. *)
LEMMA SetSlotFacts ==
  ASSUME TypeInv, NEW k \in Slots, NEW s \in RmSlots \cup {0},
         entry' = [entry EXCEPT ![k].slot_num = s]
  PROVE  /\ entry' \in [Slots -> Entries]
         /\ entry'[k].name = entry[k].name /\ entry'[k].slot_num = s
         /\ \A i \in Slots : i # k => entry'[i] = entry[i]
         /\ \A i \in Slots : entry'[i].name = entry[i].name
  <1> DEFINE v == [entry[k] EXCEPT !.slot_num = s]
  <1>1. entry[k] \in Entries
    BY DEF TypeInv
  <1>2. v \in Entries /\ v.name = entry[k].name /\ v.slot_num = s
    BY <1>1 DEF Entries
  <1>3. entry' = [entry EXCEPT ![k] = v]
    BY DEF TypeInv
  <1> HIDE DEF v
  <1>4. /\ entry' \in [Slots -> Entries] /\ entry'[k] = v
        /\ \A i \in Slots : i # k => entry'[i] = entry[i]
    BY <1>2, <1>3 DEF TypeInv
  <1> QED
    BY <1>2, <1>4

(* A work found its entry, or is over. *)
LEMMA FindKeeps ==
  ASSUME IndInv, NEW w \in Workers, AddWorkFind(w) \/ RemoveWorkFind(w) \/ UpdateWorkFind(w)
  PROVE  IndInv'
  <1> DEFINE e == Head(wq).entry
             k == EntryNum(e.name)
  <1>1. PICK cmd \in Cmds : StartWork(w, cmd)
    BY DEF AddWorkFind, RemoveWorkFind, UpdateWorkFind, Cmds
  <1>2. /\ Sole(w) /\ ~Busy(w) /\ probe \notin {"none", "table"}
        /\ UNCHANGED work => QueueType' /\ Sole(w)' /\ ~Busy(w)'
        /\ \A pc \in {"register", "deregister"}, i \in Slots, s \in RmSlots \cup {0} :
              Continue(w, pc, i, s) =>
                /\ QueueType' /\ Sole(w)' /\ Busy(w)'
                /\ work'[w].pc = pc /\ work'[w].slot = s /\ work'[w].cmd = cmd
                /\ work'[w].entry = e /\ work'[w].entryno = i
    BY <1>1, WorkStarts
  <1>3. UNCHANGED <<probe, pending_list, num_regions, rm, client, rmFailed>> /\ TypeInv
    BY <1>1 DEF StartWork, IndInv
  <1>4. CASE UNCHANGED <<work, entry>>
    <2>1. TypeInv'
      BY <1>3, <1>4 DEF TypeInv
    <2> QED
      BY <1>2, <1>3, <1>4, <2>1, SoleKeeps
  <1>5. ASSUME EntrySlots(e.name) # {}, NEW pc \in {"register", "deregister"},
               NEW s \in RmSlots \cup {0}, Continue(w, pc, k, s),
               entry' = entry \/ entry' = [entry EXCEPT ![k].slot_num = 0]
        PROVE  IndInv'
    <2>1. k \in Slots /\ k < num_regions /\ entry[k].name = e.name
      BY <1>3, <1>5, EntryNumIn
    <2> HIDE DEF k
    <2>2. /\ QueueType' /\ Sole(w)' /\ Busy(w)' /\ work'[w].entry = e /\ work'[w].entryno = k
      BY <1>2, <1>5, <2>1
    <2>3. entry' \in [Slots -> Entries] /\ entry'[k].name = entry[k].name
      BY <1>3, <1>5, <2>1, SetSlotFacts DEF TypeInv
    <2>4. TypeInv' /\ Indexed(w)'
      BY <1>3, <2>1, <2>2, <2>3 DEF TypeInv, Indexed
    <2> QED
      BY <1>2, <1>3, <2>2, <2>4, SoleKeeps
  <1>6. EntrySlots(e.name) # {} => entry[k].slot_num \in RmSlots \cup {0}
    <2>1. EntrySlots(e.name) # {} => entry[k] \in Entries
      BY <1>3, EntryNumIn DEF TypeInv
    <2> QED
      BY <2>1 DEF Entries
  <1>7. CASE AddWorkFind(w)
    BY <1>4, <1>5, <1>7 DEF AddWorkFind
  <1>8. CASE RemoveWorkFind(w)
    BY <1>4, <1>5, <1>6, <1>8 DEF RemoveWorkFind
  <1>9. CASE UpdateWorkFind(w)
    BY <1>4, <1>5, <1>6, <1>9 DEF UpdateWorkFind
  <1> QED
    BY <1>7, <1>8, <1>9

(* The calls of the resource manager move no entry. *)
LEMMA CallKeeps ==
  ASSUME IndInv, NEW w \in Workers, Deregister(w) \/ Register(w)
  PROVE  IndInv'
  <1>1. /\ Busy(w) /\ UNCHANGED <<probe, pending_list, num_regions, entry, elf, wq, client>>
    BY DEF Deregister, Register, Busy
  <1>2. /\ Sole(w) /\ Indexed(w) /\ TypeInv /\ QueueType /\ probe \notin {"none", "table"}
        /\ work[w].slot \in RmSlots \cup {0}
    BY <1>1, BusySole
  <1>3. DOMAIN rm' \subseteq RmSlots /\ rmFailed' \in BOOLEAN
    BY <1>2 DEF Deregister, Register, TypeInv
  <1>4. TypeInv'
    BY <1>1, <1>2, <1>3 DEF TypeInv
  <1>5. CASE work' = [work EXCEPT ![w] = Idle]
    BY <1>1, <1>2, <1>4, <1>5, WorkEnds, SoleKeeps
  <1>6. CASE work' = [work EXCEPT ![w].pc = "drop"]
    <2>1. /\ QueueType' /\ Sole(w)' /\ work'[w].entry = work[w].entry
          /\ work'[w].entryno = work[w].entryno
      BY <1>1, <1>2, <1>6, WorkDrops
    <2>2. Indexed(w)'
      BY <1>1, <1>2, <2>1 DEF Indexed
    <2> QED
      BY <1>1, <1>2, <1>4, <2>1, <2>2, SoleKeeps
  <1>7. ASSUME NEW pc \in {"register", "finish", "drop"}, NEW s \in RmSlots \cup {0},
               work' = [work EXCEPT ![w].pc = pc, ![w].slot = s]
        PROVE  IndInv'
    <2>1. /\ QueueType' /\ Sole(w)' /\ work'[w].entry = work[w].entry
          /\ work'[w].entryno = work[w].entryno
      BY <1>1, <1>2, <1>7, WorkMoves
    <2>2. Indexed(w)'
      BY <1>1, <1>2, <2>1 DEF Indexed
    <2> QED
      BY <1>1, <1>2, <1>4, <2>1, <2>2, SoleKeeps
  <1> QED
    BY <1>5, <1>6, <1>7 DEF Deregister, Register

(* The second locked section ends the work. *)
LEMMA FinishKeeps ==
  ASSUME IndInv, NEW w \in Workers,
         AddWorkDrop(w) \/ AddWorkFinish(w) \/ UpdateWorkFinish(w) \/ RemoveWorkFinish(w)
  PROVE  /\ IndInv' /\ ~Busy(w)' /\ Sole(w)' /\ work'[w] = Idle
         /\ UNCHANGED <<wq, rmFailed>>
  <1>1. /\ Busy(w) /\ work' = [work EXCEPT ![w] = Idle]
        /\ UNCHANGED <<probe, pending_list, wq, client, rmFailed>>
    BY DEF AddWorkDrop, AddWorkFinish, UpdateWorkFinish, RemoveWorkFinish, FinishWork, Busy
  <1>2. /\ Sole(w) /\ Indexed(w) /\ TypeInv /\ QueueType /\ probe \notin {"none", "table"}
        /\ work[w].entryno \in Slots /\ work[w].slot \in RmSlots \cup {0}
    BY <1>1, BusySole
  <1>3. QueueType' /\ work'[w] = Idle /\ Sole(w)' /\ ~Busy(w)'
    BY <1>1, <1>2, WorkEnds
  <1> DEFINE k == work[w].entryno
  <1>4. \/ UNCHANGED <<entry, num_regions>>
        \/ entry' = [entry EXCEPT ![k].slot_num = work[w].slot] /\ UNCHANGED num_regions
        \/ entry' = RemoveSlot(entry, k, num_regions, NoEntry) /\ num_regions' = num_regions - 1
    BY DEF AddWorkDrop, AddWorkFinish, UpdateWorkFinish, RemoveWorkFinish
  <1>5. DOMAIN rm' \subseteq RmSlots
    BY <1>2 DEF AddWorkDrop, AddWorkFinish, UpdateWorkFinish, RemoveWorkFinish, TypeInv
  <1>6. k < num_regions /\ k \in Slots
    BY <1>2 DEF Indexed
  <1> HIDE DEF k
  <1>7. entry' \in [Slots -> Entries] /\ num_regions' \in 0..MAX_NUM_ENTRIES
    <2>1. CASE UNCHANGED <<entry, num_regions>>
      BY <1>2, <2>1 DEF TypeInv
    <2>2. CASE entry' = [entry EXCEPT ![k].slot_num = work[w].slot] /\ UNCHANGED num_regions
      BY <1>2, <1>6, <2>2, SetSlotFacts DEF TypeInv
    <2>3. CASE /\ entry' = RemoveSlot(entry, k, num_regions, NoEntry)
               /\ num_regions' = num_regions - 1
      BY <1>2, <1>6, <2>3, RemoveSlotFacts
    <2> QED
      BY <1>4, <2>1, <2>2, <2>3
  <1>8. TypeInv'
    BY <1>1, <1>2, <1>5, <1>7 DEF TypeInv
  <1>9. IndInv'
    BY <1>1, <1>2, <1>3, <1>8, SoleKeeps
  <1> QED
    BY <1>1, <1>3, <1>9

LEMMA InitIndInv == Init => IndInv
  <1> SUFFICES ASSUME Init PROVE IndInv
    OBVIOUS
  <1>1. Idle \in WorkRecords({NoRegion}) /\ Idle.pc = "idle"
    BY MaxAssumption DEF Idle, WorkRecords, Slots
  <1>2. QueueType
    BY <1>1 DEF Init, QueueType
  <1>3. \A w \in Workers : ~Busy(w)
    BY <1>1 DEF Init, Busy
  <1>4. TypeInv
    <2>1. entry \in [Slots -> Entries] /\ client \in [Names -> Region \cup {NoRegion}]
      BY EntryRecord DEF Init
    <2>2. num_regions \in 0..MAX_NUM_ENTRIES
      BY MaxAssumption DEF Init
    <2>3. DOMAIN rm \subseteq RmSlots
      BY DEF Init
    <2>4. pending_list \in Seq(Region)
      BY DEF Init
    <2> QED
      BY <2>1, <2>2, <2>3, <2>4 DEF Init, TypeInv
  <1>5. BeforeDrain
    BY <1>3 DEF Init, BeforeDrain
  <1> QED
    BY <1>2, <1>3, <1>4, <1>5 DEF IndInv, OneWork, WorkIndexStable, Busy

LEMMA NextIndInv ==
  ASSUME IndInv, [Next]_vars
  PROVE  IndInv'
  <1>1. CASE ProbeTable \/ ProbeFail \/ ProbeDone \/ UNCHANGED vars
    <2>1. /\ UNCHANGED <<pending_list, num_regions, entry, wq, work, rm, client, rmFailed>>
          /\ probe' \in {"none", "failed", "table", "drained", "done"}
          /\ probe' \in {"none", "table"} => probe \in {"none", "table"}
      BY <1>1 DEF ProbeTable, ProbeFail, ProbeDone, vars, IndInv, TypeInv
    <2> QED
      BY <2>1, QuietKeeps
  <1>2. CASE ProbeDrain \/ ProbeNoMemory
    <2>1. Len(pending_list) \in Nat
      BY DEF IndInv, TypeInv
    <2>2. PICK k \in 0..Len(pending_list) : DrainPending(k)
      BY <1>2, <2>1 DEF ProbeDrain, ProbeNoMemory
    <2> QED
      BY <1>2, <2>2, DrainKeeps DEF ProbeDrain, ProbeNoMemory
  <1>3. ASSUME NEW e \in Regions, AddRegion(e) \/ AddPending(e) PROVE IndInv'
    BY <1>3, AddRegionKeeps, AddPendingKeeps
  <1>4. ASSUME NEW e \in Regions, UpdateRegion(e) PROVE IndInv'
    <2>1. client' \in [Names -> Region \cup {NoRegion}]
      BY <1>4, EntryRecord DEF UpdateRegion, IndInv, TypeInv
    <2> QED
      BY <1>4, <2>1, QueueKeeps DEF UpdateRegion, MdInitDone, Cmds
  <1>5. ASSUME NEW n \in Names, RemoveRegion(n) PROVE IndInv'
    <2>1. PICK e : wq' = Append(wq, Request("MINIDUMP_REMOVE", e))
      BY <1>5 DEF RemoveRegion
    <2>2. client' \in [Names -> Region \cup {NoRegion}]
      BY <1>5 DEF RemoveRegion, IndInv, TypeInv
    <2> QED
      BY <1>5, <2>1, <2>2, QueueKeeps DEF RemoveRegion, MdInitDone, Cmds
  <1>6. ASSUME NEW w \in Workers, Worker(w) PROVE IndInv'
    BY <1>6, FindKeeps, CallKeeps, FinishKeeps DEF Worker
  <1> QED
    BY <1>1, <1>2, <1>3, <1>4, <1>5, <1>6 DEF Next, Probe, Caller

LEMMA AlwaysIndInv == Spec => []IndInv
  <1>1. IndInv /\ [Next]_vars => IndInv'
    BY NextIndInv
  <1> QED
    BY <1>1, InitIndInv, PTL DEF Spec

(* A work finds its entry again after the call of the resource manager, which
   it makes without the lock: "minidump table is corrupt" is never reached. *)
THEOREM IndexAlwaysStable == Spec => []WorkIndexStable
  <1>1. IndInv => WorkIndexStable
    BY DEF IndInv
  <1> QED
    BY <1>1, AlwaysIndInv, PTL
-----------------------------------------------------------------------------
(* The slots, while no call of the resource manager has failed. *)
IsAdd(r) == r.cmd = "MINIDUMP_ADD"

(* No entry of this name has a slot. *)
Unslotted(n) == \A i \in Slots : entry[i].name = n => entry[i].slot_num = 0

HasEntry(n) == \E i \in Slots : i < num_regions /\ entry[i].name = n

(* No add of this name waits. *)
NoAdd(n) == \A i \in DOMAIN wq : IsAdd(wq[i]) => wq[i].entry.name # n

(* The slots of the entries are registered, and none is in two entries. *)
EntrySlotInv ==
  /\ \A i \in Slots : entry[i].slot_num # 0 =>
       i < num_regions /\ entry[i].slot_num \in DOMAIN rm
  /\ \A i, j \in Slots : entry[i].slot_num # 0 /\ entry[i].slot_num = entry[j].slot_num => i = j

(* The entry of a work has no slot.  Between taking one out and giving it back,
   or getting one and writing it down, the work has it. *)
WorkerInv(w) ==
  /\ work[w].pc # "drop"
  /\ entry[work[w].entryno].slot_num = 0
  /\ work[w].slot # 0 => /\ work[w].slot \in DOMAIN rm
                         /\ \A i \in Slots : entry[i].slot_num # work[w].slot
  /\ work[w].pc = "register" => work[w].slot = 0 /\ work[w].cmd # "MINIDUMP_REMOVE"
  /\ work[w].cmd = "MINIDUMP_REMOVE" /\ work[w].pc = "finish" => work[w].slot = 0
  /\ work[w].cmd = "MINIDUMP_ADD" => work[w].pc # "deregister"
  /\ work[w].slot # 0 \/ work[w].pc # "deregister" => NoAdd(work[w].entry.name)

(* An add that waits has an entry, without a slot, and is the only one. *)
AddsInv ==
  /\ \A i, j \in DOMAIN wq :
       IsAdd(wq[i]) /\ IsAdd(wq[j]) /\ wq[i].entry.name = wq[j].entry.name => i = j
  /\ \A i \in DOMAIN wq : IsAdd(wq[i]) =>
       Unslotted(wq[i].entry.name) /\ HasEntry(wq[i].entry.name)

WorkersInv == \A w \in Workers : Busy(w) => WorkerInv(w)

Owned(s) == \/ \E i \in Slots : entry[i].slot_num = s
            \/ \E w \in Workers : Busy(w) /\ work[w].slot = s

AllOwned == \A s \in DOMAIN rm : Owned(s)

SlotParts == EntrySlotInv /\ AddsInv /\ WorkersInv /\ AllOwned

SlotInv == ~rmFailed => SlotParts

LEMMA EntrySlotsHave ==
  ASSUME TypeInv, NEW n
  PROVE  EntrySlots(n) # {} <=> HasEntry(n)
  BY MaxAssumption DEF EntrySlots, HasEntry, TypeInv, Slots

LEMMA QuietSlots ==
  ASSUME SlotParts, UNCHANGED <<num_regions, entry, wq, work, rm>>
  PROVE  SlotParts'
  BY DEF SlotParts, EntrySlotInv, AddsInv, WorkersInv, AllOwned, Owned, WorkerInv, NoAdd, Unslotted,
         HasEntry, Busy

LEMMA AddPendingSlots ==
  ASSUME IndInv, SlotParts, NEW e \in Regions, AddPending(e)
  PROVE  SlotParts'
  <1> DEFINE N == num_regions
  <1>1. /\ IndInv' /\ num_regions' = N + 1 /\ UNCHANGED <<entry, wq, work, rm>> /\ N \in Nat
        /\ TypeInv /\ TypeInv'
    BY AddPendingKeeps, MaxAssumption DEF IndInv, TypeInv
  <1>2. \A i \in Slots : i < N => i < N + 1
    BY <1>1 DEF Slots
  <1>3. \A n : HasEntry(n) => HasEntry(n)'
    BY <1>1, <1>2 DEF HasEntry, N
  <1>4. EntrySlotInv'
    BY <1>1, <1>2 DEF SlotParts, EntrySlotInv, N
  <1>5. AddsInv'
    BY <1>1, <1>3 DEF SlotParts, AddsInv, Unslotted
  <1>6. WorkersInv' /\ AllOwned'
    BY <1>1 DEF SlotParts, WorkersInv, AllOwned, Owned, WorkerInv, NoAdd, Busy
  <1> QED
    BY <1>4, <1>5, <1>6 DEF SlotParts

(* Before the drain the resource manager has no slot of a region. *)
LEMMA DrainSlots ==
  ASSUME IndInv, SlotParts, probe = "table", probe' \in {"drained", "failed"},
         NEW k \in 0..Len(pending_list), DrainPending(k)
  PROVE  SlotParts'
  <1>1. /\ \A w \in Workers : ~Busy(w)
        /\ \A i \in Slots : entry[i] = NoEntry
        /\ \A i, j \in DOMAIN pending_list : pending_list[i].name = pending_list[j].name => i = j
        /\ TypeInv /\ pending_list \in Seq(Region) /\ DOMAIN rm \subseteq RmSlots
    BY DEF IndInv, BeforeDrain, TypeInv
  <1>2. /\ IndInv' /\ \A w \in Workers : ~Busy(w)'
        /\ \A i \in Slots : entry'[i].slot_num = 0
        /\ \A i \in 0..k - 1 : i \in Slots /\ entry'[i].name = pending_list[i + 1].name
        /\ k <= num_regions'
        /\ DOMAIN wq' = 1..k
        /\ \A i \in 1..k : wq'[i] = Request("MINIDUMP_ADD", pending_list[i])
    BY DrainKeeps
  <1>3. rm' = rm
    BY DEF DrainPending
  <1>4. DOMAIN rm = {}
    <2>1. \A s \in DOMAIN rm : s # 0 /\ Owned(s)
      BY <1>1, RmAssumption DEF SlotParts, AllOwned
    <2>2. \A i \in Slots : entry[i].slot_num = 0
      BY <1>1, EntryRecord
    <2> QED
      BY <1>1, <2>1, <2>2 DEF Owned
  <1>5. EntrySlotInv' /\ WorkersInv' /\ AllOwned'
    BY <1>2, <1>3, <1>4 DEF EntrySlotInv, WorkersInv, AllOwned
  <1>6. ASSUME NEW i \in 1..k
        PROVE  /\ wq'[i].entry.name = pending_list[i].name /\ i \in DOMAIN pending_list
               /\ \E j \in Slots : j < num_regions' /\ entry'[j].name = pending_list[i].name
    <2>1. wq'[i].entry.name = pending_list[i].name
      BY <1>2 DEF Request
    <2>2. i \in DOMAIN pending_list /\ k \in Nat
      BY <1>1
    <2>3. i - 1 \in 0..k - 1 /\ (i - 1) + 1 = i
      BY <2>2
    <2>4. i - 1 \in Slots /\ entry'[i - 1].name = pending_list[i].name
      BY <1>2, <2>3
    <2>5. TypeInv' /\ num_regions' \in Int
      BY <1>2, MaxAssumption DEF IndInv, TypeInv
    <2>6. i - 1 < num_regions'
      BY <1>2, <2>2, <2>5
    <2> QED
      BY <2>1, <2>2, <2>4, <2>6
  <1>7. AddsInv'
    BY <1>1, <1>2, <1>6 DEF AddsInv, Unslotted, HasEntry
  <1> QED
    BY <1>5, <1>7 DEF SlotParts

(* No add of the name can be waiting: it would have an entry. *)
LEMMA AddRegionSlots ==
  ASSUME IndInv, SlotParts, NEW e \in Regions, AddRegion(e)
  PROVE  SlotParts'
  <1> DEFINE N == num_regions
             q == Len(wq) + 1
  <1>1. /\ num_regions' = N + 1 /\ N \in Slots /\ TypeInv
        /\ entry'[N].name = e.name /\ entry'[N].slot_num = 0
        /\ \A i \in Slots : i # N => entry'[i] = entry[i]
        /\ EntrySlots(e.name) = {}
        /\ DOMAIN wq' = DOMAIN wq \cup {q} /\ q \notin DOMAIN wq
        /\ \A i \in DOMAIN wq : wq'[i] = wq[i]
        /\ wq'[q] = Request("MINIDUMP_ADD", e)
        /\ UNCHANGED <<work, rm>>
    BY AddRegionKeeps DEF IndInv
  <1>2. ~HasEntry(e.name)
    BY <1>1, EntrySlotsHave
  <1>3. wq'[q].entry.name = e.name
    BY <1>1 DEF Request
  <1>4. \A i \in Slots : i < N => i < N + 1 /\ i # N
    BY <1>1 DEF Slots
  <1>5. N < N + 1
    BY <1>1 DEF Slots
  <1> HIDE DEF q
  <1>6. \A i \in Slots : entry[i].slot_num # 0 => i < N /\ i # N /\ entry'[i] = entry[i]
    BY <1>1, <1>4 DEF SlotParts, EntrySlotInv
  <1>7. EntrySlotInv'
    BY <1>1, <1>4, <1>6 DEF SlotParts, EntrySlotInv, N
  <1>8. \A n : HasEntry(n) => HasEntry(n)'
    BY <1>1, <1>4 DEF HasEntry
  <1>9. \A n : Unslotted(n) => Unslotted(n)'
    BY <1>1 DEF Unslotted
  <1>10. Unslotted(e.name)
    BY <1>2, <1>6 DEF Unslotted, HasEntry
  <1>11. \E i \in Slots : i < N + 1 /\ entry'[i].name = e.name
    BY <1>1, <1>5
  <1>12. NoAdd(e.name)
    BY <1>2 DEF NoAdd, SlotParts, AddsInv
  <1>13. AddsInv'
    <2>1. \A i, j \in DOMAIN wq' :
            IsAdd(wq'[i]) /\ IsAdd(wq'[j]) /\ wq'[i].entry.name = wq'[j].entry.name => i = j
      BY <1>1, <1>3, <1>12 DEF NoAdd, SlotParts, AddsInv
    <2>2. ASSUME NEW i \in DOMAIN wq', IsAdd(wq'[i]), NEW n, n = wq'[i].entry.name
          PROVE  Unslotted(n)' /\ HasEntry(n)'
      <3>1. CASE i = q
        <4>1. n = e.name
          BY <1>3, <2>2, <3>1
        <4> QED
          BY <4>1, <1>1, <1>9, <1>10, <1>11 DEF HasEntry, Unslotted
      <3>2. CASE i \in DOMAIN wq
        BY <1>1, <1>8, <1>9, <2>2, <3>2 DEF SlotParts, AddsInv
      <3> QED
        BY <1>1, <3>1, <3>2
    <2> QED
      BY <2>1, <2>2 DEF AddsInv, Unslotted, HasEntry
  <1>14. ASSUME NEW w \in Workers, Busy(w) PROVE WorkerInv(w)'
    <2>1. Indexed(w) /\ work[w].entryno \in Slots /\ WorkerInv(w)
      BY <1>14, BusySole DEF SlotParts, WorkersInv
    <2> DEFINE k == work[w].entryno
               n == work[w].entry.name
    <2>2. k \in Slots /\ k < N /\ entry[k].name = n
      BY <2>1 DEF Indexed
    <2>3. k # N /\ entry'[k] = entry[k] /\ n # e.name
      BY <1>1, <1>2, <1>4, <2>2 DEF HasEntry
    <2>4. NoAdd(n) => \A i \in DOMAIN wq' : IsAdd(wq'[i]) => wq'[i].entry.name # n
      BY <1>1, <1>3, <2>3 DEF NoAdd
    <2>5. \A s : s # 0 /\ (\A i \in Slots : entry[i].slot_num # s) =>
                    \A i \in Slots : entry'[i].slot_num # s
      BY <1>1
    <2> QED
      BY <1>1, <2>1, <2>3, <2>4, <2>5 DEF WorkerInv, NoAdd
  <1>15. WorkersInv'
    BY <1>1, <1>14 DEF WorkersInv, Busy
  <1>16. AllOwned'
    <2>1. ASSUME NEW s \in DOMAIN rm PROVE Owned(s)'
      <3>1. Owned(s) /\ s # 0
        BY <2>1, RmAssumption DEF SlotParts, AllOwned, IndInv, TypeInv
      <3> QED
        BY <1>1, <1>6, <3>1 DEF Owned, Busy
    <2> QED
      BY <1>1, <2>1 DEF AllOwned
  <1> QED
    BY <1>7, <1>13, <1>15, <1>16 DEF SlotParts

(* Updates and removes wait without a claim on a slot. *)
LEMMA QueueSlots ==
  ASSUME IndInv, SlotParts, NEW cmd \in {"MINIDUMP_UPDATE", "MINIDUMP_REMOVE"}, NEW e,
         wq' = Append(wq, Request(cmd, e)), UNCHANGED <<num_regions, entry, work, rm>>
  PROVE  SlotParts'
  <1> DEFINE q == Len(wq) + 1
  <1>1. /\ DOMAIN wq' = DOMAIN wq \cup {q} /\ q \notin DOMAIN wq
        /\ \A i \in DOMAIN wq : wq'[i] = wq[i]
        /\ wq'[q] = Request(cmd, e)
    BY QueueAppend DEF IndInv, Cmds
  <1>2. ~IsAdd(wq'[q])
    BY <1>1 DEF IsAdd, Request
  <1> HIDE DEF q
  <1>3. \A i \in DOMAIN wq' : IsAdd(wq'[i]) => i \in DOMAIN wq /\ wq'[i] = wq[i]
    BY <1>1, <1>2
  <1>4. AddsInv'
    BY <1>3 DEF SlotParts, AddsInv, Unslotted, HasEntry
  <1>5. \A n : NoAdd(n) => NoAdd(n)'
    BY <1>3 DEF NoAdd
  <1>6. WorkersInv'
    BY <1>5 DEF SlotParts, WorkersInv, WorkerInv, Busy, NoAdd
  <1>7. EntrySlotInv' /\ AllOwned'
    BY DEF SlotParts, EntrySlotInv, AllOwned, Owned, Busy
  <1> QED
    BY <1>4, <1>6, <1>7 DEF SlotParts

(* The queue loses its first work, and entries at most lose slots. *)
LEMMA AddsShift ==
  ASSUME AddsInv, UNCHANGED num_regions,
         \A i \in DOMAIN wq' : i \in Nat \ {0} /\ i + 1 \in DOMAIN wq /\ wq'[i] = wq[i + 1],
         \A i \in Slots : /\ entry'[i].name = entry[i].name
                          /\ entry'[i].slot_num \in {entry[i].slot_num, 0}
  PROVE  AddsInv'
  <1>1. \A n : HasEntry(n) => HasEntry(n)'
    BY DEF HasEntry
  <1>2. \A n : Unslotted(n) => Unslotted(n)'
    BY DEF Unslotted
  <1>3. ASSUME NEW i \in DOMAIN wq', NEW j \in DOMAIN wq',
               IsAdd(wq'[i]), IsAdd(wq'[j]), wq'[i].entry.name = wq'[j].entry.name
        PROVE  i = j
    <2>1. i + 1 = j + 1
      BY <1>3 DEF AddsInv
    <2> QED
      BY <2>1
  <1>4. ASSUME NEW i \in DOMAIN wq', IsAdd(wq'[i]), NEW n, n = wq'[i].entry.name
        PROVE  Unslotted(n)' /\ HasEntry(n)'
    BY <1>1, <1>2, <1>4 DEF AddsInv
  <1> QED
    BY <1>3, <1>4 DEF AddsInv, Unslotted, HasEntry

(* What a step of w has to show for the works. *)
LEMMA SoleWorkers ==
  ASSUME NEW w \in Workers, Sole(w)', Busy(w)' => WorkerInv(w)'
  PROVE  WorkersInv'
  BY DEF WorkersInv, Sole, Busy, WorkerInv, NoAdd

(* The work takes the slot of its entry, if it has one, over. *)
LEMMA FindSlots ==
  ASSUME IndInv, SlotParts, NEW w \in Workers,
         AddWorkFind(w) \/ RemoveWorkFind(w) \/ UpdateWorkFind(w)
  PROVE  SlotParts'
  <1> DEFINE e == Head(wq).entry
             n == e.name
             k == EntryNum(n)
  <1>1. PICK cmd \in Cmds : StartWork(w, cmd)
    BY DEF AddWorkFind, RemoveWorkFind, UpdateWorkFind, Cmds
  <1>2. /\ Sole(w) /\ ~Busy(w)
        /\ 1 \in DOMAIN wq /\ Head(wq) = wq[1] /\ Head(wq).cmd = cmd
        /\ \A i \in DOMAIN wq' : i \in Nat \ {0} /\ i + 1 \in DOMAIN wq /\ wq'[i] = wq[i + 1]
        /\ UNCHANGED work => Sole(w)' /\ ~Busy(w)'
        /\ \A pc \in {"register", "deregister"}, i \in Slots, s \in RmSlots \cup {0} :
              Continue(w, pc, i, s) =>
                /\ Sole(w)' /\ Busy(w)'
                /\ work'[w].pc = pc /\ work'[w].slot = s /\ work'[w].cmd = cmd
                /\ work'[w].entry = e /\ work'[w].entryno = i
    BY <1>1, WorkStarts
  <1>3. UNCHANGED <<num_regions, rm>> /\ TypeInv /\ EntrySlotInv /\ AddsInv /\ AllOwned
    BY <1>1 DEF StartWork, IndInv, SlotParts
  <1>4. \A u \in Workers : ~Busy(u)
    BY <1>2 DEF Sole
  <1>5. \A s \in DOMAIN rm : s # 0 /\ \E i \in Slots : entry[i].slot_num = s
    BY <1>3, <1>4, RmAssumption DEF AllOwned, Owned, TypeInv
  <1>6. CASE UNCHANGED <<work, entry>>
    <2>1. AddsInv'
      BY <1>2, <1>3, <1>6, AddsShift
    <2>2. WorkersInv'
      BY <1>2, <1>6, SoleWorkers
    <2> QED
      BY <1>3, <1>5, <1>6, <2>1, <2>2 DEF SlotParts, EntrySlotInv, AllOwned, Owned
  <1>7. EntrySlots(n) # {} => k \in Slots /\ entry[k].name = n /\ k < num_regions
    BY <1>3, EntryNumIn
  <1> HIDE DEF k
  <1>8. CASE AddWorkFind(w) /\ EntrySlots(n) # {}
    <2>1. cmd = "MINIDUMP_ADD" /\ Continue(w, "register", k, 0) /\ UNCHANGED entry
      BY <1>2, <1>8 DEF AddWorkFind, StartWork, k
    <2>2. /\ Sole(w)' /\ work'[w].pc = "register" /\ work'[w].slot = 0
          /\ work'[w].cmd = cmd /\ work'[w].entry = e /\ work'[w].entryno = k
      BY <1>2, <1>7, <1>8, <2>1
    <2>3. AddsInv'
      BY <1>2, <1>3, <2>1, AddsShift
    <2>4. entry[k].slot_num = 0
      BY <1>2, <1>3, <1>7, <1>8, <2>1 DEF AddsInv, Unslotted, IsAdd
    <2>5. ASSUME NEW i \in DOMAIN wq', IsAdd(wq'[i]), wq'[i].entry.name = n PROVE FALSE
      <3>1. i + 1 = 1
        BY <1>2, <1>3, <2>1, <2>5 DEF AddsInv, IsAdd
      <3> QED
        BY <1>2, <3>1
    <2>6. WorkerInv(w)'
      BY <2>1, <2>2, <2>4, <2>5 DEF WorkerInv, NoAdd
    <2>7. WorkersInv'
      BY <2>2, <2>6, SoleWorkers
    <2> QED
      BY <1>3, <1>5, <2>1, <2>3, <2>7 DEF SlotParts, EntrySlotInv, AllOwned, Owned
  <1>9. CASE /\ EntrySlots(n) # {} /\ Continue(w, "deregister", k, entry[k].slot_num)
             /\ entry' = [entry EXCEPT ![k].slot_num = 0] /\ cmd # "MINIDUMP_ADD"
    <2> DEFINE s == entry[k].slot_num
    <2>1. s \in RmSlots \cup {0}
      <3>1. entry[k] \in Entries
        BY <1>3, <1>7, <1>9 DEF TypeInv
      <3> QED
        BY <3>1 DEF Entries
    <2>2. /\ Sole(w)' /\ Busy(w)' /\ work'[w].pc = "deregister" /\ work'[w].slot = s
          /\ work'[w].cmd = cmd /\ work'[w].entry = e /\ work'[w].entryno = k
      BY <1>2, <1>7, <1>9, <2>1
    <2>3. /\ entry'[k].name = entry[k].name /\ entry'[k].slot_num = 0
          /\ \A i \in Slots : i # k => entry'[i] = entry[i]
          /\ \A i \in Slots : entry'[i].name = entry[i].name
      BY <1>3, <1>7, <1>9, SetSlotFacts
    <2>4. AddsInv'
      BY <1>2, <1>3, <2>3, AddsShift
    <2>5. s # 0 => s \in DOMAIN rm /\ \A i \in Slots : i # k => entry[i].slot_num # s
      BY <1>3, <1>7, <1>9 DEF EntrySlotInv
    <2>6. s # 0 => \A i \in DOMAIN wq' : IsAdd(wq'[i]) => wq'[i].entry.name # n
      BY <1>2, <1>3, <1>7, <1>9 DEF AddsInv, Unslotted
    <2> HIDE DEF s
    <2>7. WorkerInv(w)'
      <3>1. s # 0 => \A i \in Slots : entry'[i].slot_num # s
        BY <2>3, <2>5
      <3>2. s # 0 => NoAdd(work[w].entry.name)'
        BY <2>2, <2>6 DEF NoAdd
      <3> QED
        BY <1>3, <1>9, <2>2, <2>3, <2>5, <3>1, <3>2 DEF WorkerInv
    <2>8. WorkersInv'
      BY <2>2, <2>7, SoleWorkers
    <2>9. EntrySlotInv'
      BY <1>3, <2>3 DEF EntrySlotInv
    <2>10. AllOwned'
      BY <1>3, <1>5, <2>2, <2>3 DEF AllOwned, Owned, s
    <2> QED
      BY <2>4, <2>8, <2>9, <2>10 DEF SlotParts
  <1>10. CASE AddWorkFind(w)
    BY <1>6, <1>8, <1>10 DEF AddWorkFind
  <1>11. CASE RemoveWorkFind(w)
    BY <1>2, <1>6, <1>9, <1>11 DEF RemoveWorkFind, StartWork, k
  <1>12. CASE UpdateWorkFind(w)
    BY <1>2, <1>6, <1>9, <1>12 DEF UpdateWorkFind, StartWork, k
  <1> QED
    BY <1>10, <1>11, <1>12

(* The work gives its slot back, or gets one that nobody has. *)
LEMMA CallSlots ==
  ASSUME IndInv, SlotParts, NEW w \in Workers, Deregister(w) \/ Register(w), ~rmFailed'
  PROVE  SlotParts'
  <1> DEFINE k == work[w].entryno
             s == work[w].slot
  <1>1. Busy(w) /\ UNCHANGED <<num_regions, entry, wq>>
    BY DEF Deregister, Register, Busy
  <1>2. /\ Sole(w) /\ QueueType /\ WorkerInv(w) /\ EntrySlotInv /\ AddsInv /\ TypeInv
        /\ work[w].slot \in RmSlots \cup {0}
    BY <1>1, BusySole DEF SlotParts, WorkersInv
  <1>3. \A t \in DOMAIN rm : t # 0 /\ (t # s => \E i \in Slots : entry[i].slot_num = t)
    BY <1>2, RmAssumption DEF SlotParts, AllOwned, Owned, Sole, TypeInv
  <1>4. AddsInv'
    BY <1>1, <1>2 DEF AddsInv, Unslotted, HasEntry
  <1>5. CASE Deregister(w)
    <2>1. PICK pc \in {"register", "finish"} :
            /\ work' = [work EXCEPT ![w].pc = pc, ![w].slot = 0]
            /\ pc = "register" => work[w].cmd = "MINIDUMP_UPDATE"
      BY <1>5 DEF Deregister
    <2>2. work[w].pc = "deregister" /\ s \in DOMAIN rm /\ DOMAIN rm' = DOMAIN rm \ {s}
      BY <1>5 DEF Deregister
    <2>3. /\ Sole(w)' /\ Busy(w)' /\ work'[w].pc = pc /\ work'[w].slot = 0
          /\ work'[w].cmd = work[w].cmd /\ work'[w].entry = work[w].entry
          /\ work'[w].entryno = work[w].entryno
      <3>1. pc \in {"register", "finish", "drop"} /\ 0 \in RmSlots \cup {0} /\ UNCHANGED wq
        BY <1>1
      <3>2. work' = [work EXCEPT ![w].pc = pc, ![w].slot = 0] /\ QueueType /\ Sole(w)
        BY <1>2, <2>1
      <3> QED
        BY <3>1, <3>2, WorkMoves
    <2>4. /\ s # 0 /\ NoAdd(work[w].entry.name) /\ work[w].cmd # "MINIDUMP_ADD"
          /\ \A i \in Slots : entry[i].slot_num # s
      BY <1>2, <1>3, <2>2 DEF WorkerInv
    <2>5. EntrySlotInv'
      BY <1>1, <1>2, <2>2, <2>4 DEF EntrySlotInv
    <2>6. NoAdd(work[w].entry.name)'
      BY <1>1, <2>3, <2>4 DEF NoAdd
    <2>7. entry'[work'[w].entryno].slot_num = 0
      BY <1>1, <1>2, <2>3 DEF WorkerInv
    <2>8. WorkerInv(w)'
      BY <2>1, <2>3, <2>4, <2>6, <2>7 DEF WorkerInv
    <2>9. WorkersInv'
      BY <2>3, <2>8, SoleWorkers
    <2>10. AllOwned'
      BY <1>1, <1>3, <2>2 DEF AllOwned, Owned
    <2> QED
      BY <1>4, <2>5, <2>9, <2>10 DEF SlotParts
  <1>6. CASE Register(w)
    <2>1. PICK t \in RmSlots \ DOMAIN rm :
            /\ DOMAIN rm' = DOMAIN rm \cup {t}
            /\ work' = [work EXCEPT ![w].pc = "finish", ![w].slot = t]
      BY <1>6 DEF Register
    <2>2. /\ Sole(w)' /\ Busy(w)' /\ work'[w].pc = "finish" /\ work'[w].slot = t
          /\ work'[w].cmd = work[w].cmd /\ work'[w].entry = work[w].entry
          /\ work'[w].entryno = work[w].entryno
      BY <1>1, <1>2, <2>1, WorkMoves
    <2>3. /\ work[w].pc = "register" /\ s = 0 /\ work[w].cmd # "MINIDUMP_REMOVE"
          /\ NoAdd(work[w].entry.name)
      BY <1>2, <1>6 DEF WorkerInv, Register
    <2>4. t # 0 /\ \A i \in Slots : entry[i].slot_num # t
      BY <1>2, <2>1, RmAssumption DEF EntrySlotInv
    <2>5. EntrySlotInv'
      BY <1>1, <1>2, <2>1 DEF EntrySlotInv
    <2>6. NoAdd(work[w].entry.name)'
      BY <1>1, <2>2, <2>3 DEF NoAdd
    <2>7. entry'[work'[w].entryno].slot_num = 0
      BY <1>1, <1>2, <2>2 DEF WorkerInv
    <2>8. WorkerInv(w)'
      BY <1>1, <2>1, <2>2, <2>3, <2>4, <2>6, <2>7 DEF WorkerInv
    <2>9. WorkersInv'
      BY <2>2, <2>8, SoleWorkers
    <2>10. AllOwned'
      BY <1>1, <1>3, <2>1, <2>2, <2>3 DEF AllOwned, Owned
    <2> QED
      BY <1>4, <2>5, <2>9, <2>10 DEF SlotParts
  <1> QED
    BY <1>5, <1>6

(* The slot goes from the work into its entry, or the entry goes. *)
LEMMA FinishSlots ==
  ASSUME IndInv, SlotParts, NEW w \in Workers,
         AddWorkDrop(w) \/ AddWorkFinish(w) \/ UpdateWorkFinish(w) \/ RemoveWorkFinish(w)
  PROVE  SlotParts'
  <1> DEFINE k == work[w].entryno
             s == work[w].slot
             n == work[w].entry.name
  <1>1. Busy(w) /\ UNCHANGED wq /\ ~Busy(w)' /\ Sole(w)'
    BY FinishKeeps DEF AddWorkDrop, AddWorkFinish, UpdateWorkFinish, RemoveWorkFinish, FinishWork, Busy
  <1>2. /\ Sole(w) /\ Indexed(w) /\ WorkerInv(w) /\ EntrySlotInv /\ AddsInv /\ TypeInv
        /\ k \in Slots /\ k < num_regions /\ s \in RmSlots \cup {0} /\ entry[k].name = n
    BY <1>1, BusySole DEF SlotParts, WorkersInv, Indexed
  <1>3. \A t \in DOMAIN rm : t # 0 /\ (t # s => \E i \in Slots : entry[i].slot_num = t)
    BY <1>2, RmAssumption DEF SlotParts, AllOwned, Owned, Sole, TypeInv
  <1>4. WorkersInv'
    BY <1>1, SoleWorkers
  <1>5. work[w].pc = "finish" /\ ~AddWorkDrop(w)
    BY <1>2 DEF WorkerInv, AddWorkDrop, AddWorkFinish, UpdateWorkFinish, RemoveWorkFinish, FinishWork
  <1>6. /\ NoAdd(n) /\ entry[k].slot_num = 0
        /\ s # 0 => s \in DOMAIN rm /\ \A i \in Slots : entry[i].slot_num # s
    BY <1>2, <1>5 DEF WorkerInv
  <1>7. CASE AddWorkFinish(w) \/ UpdateWorkFinish(w)
    <2>1. entry' = [entry EXCEPT ![k].slot_num = s] /\ UNCHANGED <<num_regions, rm>>
      BY <1>2, <1>7 DEF AddWorkFinish, UpdateWorkFinish
    <2> HIDE DEF k, s
    <2>2. /\ entry'[k].slot_num = s
          /\ \A i \in Slots : i # k => entry'[i] = entry[i]
          /\ \A i \in Slots : entry'[i].name = entry[i].name
      BY <1>2, <2>1, SetSlotFacts
    <2>3. EntrySlotInv'
      BY <1>2, <1>6, <2>1, <2>2 DEF EntrySlotInv
    <2>4. \A m : HasEntry(m) => HasEntry(m)'
      BY <2>1, <2>2 DEF HasEntry
    <2>5. \A m : m # n /\ Unslotted(m) => Unslotted(m)'
      BY <1>2, <2>2 DEF Unslotted
    <2>6. ASSUME NEW i \in DOMAIN wq, IsAdd(wq[i]), NEW m, m = wq[i].entry.name
          PROVE  Unslotted(m)' /\ HasEntry(m)'
      BY <1>2, <1>6, <2>4, <2>5, <2>6 DEF AddsInv, NoAdd
    <2>7. AddsInv'
      BY <1>1, <1>2, <2>6 DEF AddsInv, Unslotted, HasEntry
    <2>8. AllOwned'
      BY <1>2, <1>3, <1>6, <2>1, <2>2 DEF AllOwned, Owned
    <2> QED
      BY <1>4, <2>3, <2>7, <2>8 DEF SlotParts
  <1>8. CASE RemoveWorkFinish(w)
    <2>1. rm' = rm /\ s = 0
      BY <1>2, <1>5, <1>8 DEF RemoveWorkFinish, FinishWork, WorkerInv
    <2>2. CASE UNCHANGED <<entry, num_regions>>
      BY <1>1, <1>2, <1>3, <1>4, <2>1, <2>2
         DEF SlotParts, EntrySlotInv, AddsInv, Unslotted, HasEntry, AllOwned, Owned
    <2>3. CASE /\ entry' = RemoveSlot(entry, k, num_regions, NoEntry)
               /\ num_regions' = num_regions - 1
      <3> DEFINE N == num_regions
      <3> HIDE DEF k, s, n
      <3>1. /\ \A i \in Slots : \/ entry'[i] = NoEntry
                                \/ entry'[i] = entry[i] /\ (i < k \/ i >= N)
                                \/ k <= i /\ i < N - 1 /\ i + 1 \in Slots /\ entry'[i] = entry[i + 1]
            /\ \A i \in Slots : i < k => i < num_regions' /\ entry'[i] = entry[i]
            /\ \A i \in Slots : k < i /\ i < N =>
                 i - 1 \in Slots /\ i - 1 < num_regions' /\ entry'[i - 1] = entry[i]
        BY <1>2, <2>3, RemoveSlotFacts
      <3>2. /\ num_regions' = N - 1 /\ N \in Int /\ k \in Int /\ k < N /\ Slots \subseteq Int
            /\ EntrySlotInv /\ entry[k].slot_num = 0 /\ k \in Slots
            /\ \A i \in Slots : entry[i].slot_num # 0 => i < N
        BY <1>2, <1>6, <2>3, MaxAssumption DEF TypeInv, Slots, EntrySlotInv
      <3> HIDE DEF N
      <3>3. ASSUME NEW i \in Slots, entry'[i].slot_num # 0
            PROVE  \/ i < k /\ i < N - 1 /\ entry'[i] = entry[i]
                   \/ k <= i /\ i < N - 1 /\ i + 1 \in Slots /\ entry'[i] = entry[i + 1]
        BY <3>1, <3>2, <3>3, EntryRecord
      <3>4. ASSUME NEW i \in Slots, entry'[i].slot_num # 0
            PROVE  i < N - 1 /\ entry'[i].slot_num \in DOMAIN rm
        BY <3>2, <3>3, <3>4 DEF EntrySlotInv
      <3>5. ASSUME NEW i \in Slots, NEW j \in Slots, entry'[i].slot_num # 0,
                   entry'[i].slot_num = entry'[j].slot_num
            PROVE  i = j
        <4> DEFINE Was(x, a) == /\ entry'[x] = entry[a]
                                /\ (a = x /\ x < k) \/ (a = x + 1 /\ k <= x)
        <4>0. ASSUME NEW x \in Slots, entry'[x].slot_num # 0 PROVE \E a \in Slots : Was(x, a)
          <5>1. CASE x < k /\ entry'[x] = entry[x]
            BY <5>1
          <5>2. CASE k <= x /\ x + 1 \in Slots /\ entry'[x] = entry[x + 1]
            BY <5>2
          <5> QED
            BY <3>3, <4>0, <5>1, <5>2
        <4>1. PICK a \in Slots : Was(i, a)
          BY <3>5, <4>0
        <4>2. PICK b \in Slots : Was(j, b)
          BY <3>5, <4>0
        <4>3. a = b
          BY <3>2, <3>5, <4>1, <4>2 DEF EntrySlotInv
        <4> QED
          BY <3>2, <4>1, <4>2, <4>3
      <3>6. EntrySlotInv'
        BY <2>1, <3>2, <3>4, <3>5 DEF EntrySlotInv
      <3>7. ASSUME NEW i \in Slots, i # k, i < N
            PROVE  \E j \in Slots : j < num_regions' /\ entry'[j] = entry[i]
        <4>1. CASE i < k
          BY <3>1, <4>1
        <4>2. CASE k < i
          BY <3>1, <3>7, <4>2
        <4> QED
          BY <3>2, <3>7, <4>1, <4>2
      <3>8. \A m : m # n /\ HasEntry(m) => HasEntry(m)'
        BY <1>2, <3>7 DEF HasEntry, N
      <3>9. \A m : Unslotted(m) => Unslotted(m)'
        <4> SUFFICES ASSUME NEW m, Unslotted(m), NEW i \in Slots, entry'[i].name = m
                     PROVE  entry'[i].slot_num = 0
          BY DEF Unslotted
        <4> QED
          BY <3>3 DEF Unslotted
      <3>10. ASSUME NEW i \in DOMAIN wq, IsAdd(wq[i]), NEW m, m = wq[i].entry.name
             PROVE  Unslotted(m)' /\ HasEntry(m)'
        BY <1>2, <1>6, <3>8, <3>9, <3>10 DEF AddsInv, NoAdd
      <3>11. AddsInv'
        BY <1>1, <1>2, <3>10 DEF AddsInv, Unslotted, HasEntry
      <3>12. ASSUME NEW t \in DOMAIN rm PROVE \E j \in Slots : entry'[j].slot_num = t
        <4>1. PICK i \in Slots : entry[i].slot_num = t
          BY <1>3, <2>1
        <4>2. i # k /\ i < N
          BY <1>3, <3>2, <4>1
        <4> QED
          BY <3>7, <4>1, <4>2
      <3>13. AllOwned'
        BY <2>1, <3>12 DEF AllOwned, Owned
      <3> QED
        BY <1>4, <3>6, <3>11, <3>13 DEF SlotParts
    <2> QED
      BY <1>8, <2>2, <2>3 DEF RemoveWorkFinish
  <1> QED
    BY <1>5, <1>7, <1>8

LEMMA InitSlotInv == Init => SlotInv
  <1> SUFFICES ASSUME Init PROVE SlotParts
    BY DEF SlotInv
  <1>1. \A w \in Workers : ~Busy(w)
    BY DEF Init, Busy, Idle
  <1>2. \A i \in Slots : entry[i].slot_num = 0
    BY DEF Init, NoEntry
  <1>3. DOMAIN rm = {} /\ DOMAIN wq = {}
    BY DEF Init
  <1> QED
    BY <1>1, <1>2, <1>3 DEF SlotParts, EntrySlotInv, AddsInv, WorkersInv, AllOwned

LEMMA NextSlotInv ==
  ASSUME IndInv, SlotInv, [Next]_vars
  PROVE  SlotInv'
  <1> SUFFICES ASSUME ~rmFailed' PROVE SlotParts'
    BY DEF SlotInv
  <1>1. ~rmFailed
    BY DEF Next, Probe, Caller, Worker, ProbeTable, ProbeFail, ProbeDrain, ProbeNoMemory, ProbeDone,
           DrainPending, AddRegion, AddPending, UpdateRegion, RemoveRegion, AddWorkFind,
           RemoveWorkFind, UpdateWorkFind, StartWork, Deregister, Register, AddWorkDrop,
           AddWorkFinish, UpdateWorkFinish, RemoveWorkFinish, FinishWork, vars
  <1>2. SlotParts
    BY <1>1 DEF SlotInv
  <1>3. CASE ProbeTable \/ ProbeFail \/ ProbeDone \/ UNCHANGED vars
    <2>1. UNCHANGED <<num_regions, entry, wq, work, rm>>
      BY <1>3 DEF ProbeTable, ProbeFail, ProbeDone, vars
    <2> QED
      BY <1>2, <2>1, QuietSlots
  <1>4. CASE ProbeDrain \/ ProbeNoMemory
    <2>1. Len(pending_list) \in Nat
      BY DEF IndInv, TypeInv
    <2>2. PICK k \in 0..Len(pending_list) : DrainPending(k)
      BY <1>4, <2>1 DEF ProbeDrain, ProbeNoMemory
    <2> QED
      BY <1>2, <1>4, <2>2, DrainSlots DEF ProbeDrain, ProbeNoMemory
  <1>5. ASSUME NEW e \in Regions, AddRegion(e) \/ AddPending(e) PROVE SlotParts'
    BY <1>2, <1>5, AddRegionSlots, AddPendingSlots
  <1>6. ASSUME NEW e \in Regions, UpdateRegion(e) PROVE SlotParts'
    BY <1>2, <1>6, QueueSlots DEF UpdateRegion
  <1>7. ASSUME NEW n \in Names, RemoveRegion(n) PROVE SlotParts'
    <2>1. PICK e : wq' = Append(wq, Request("MINIDUMP_REMOVE", e))
      BY <1>7 DEF RemoveRegion
    <2> QED
      BY <1>2, <1>7, <2>1, QueueSlots DEF RemoveRegion
  <1>8. ASSUME NEW w \in Workers, Worker(w) PROVE SlotParts'
    BY <1>2, <1>8, FindSlots, CallSlots, FinishSlots DEF Worker
  <1> QED
    BY <1>3, <1>4, <1>5, <1>6, <1>7, <1>8 DEF Next, Probe, Caller

(* Between two works every slot that the resource manager has given out is in
   exactly one entry, as long as none of its calls has failed: md_rm_add_work,
   md_rm_update_work and md_rm_remove_work lose no registration and share
   none, whatever calls come while they are without the lock. *)
THEOREM NeverSlotLeak == Spec => []NoSlotLeak
  <1>1. IndInv /\ SlotInv /\ [Next]_vars => IndInv' /\ SlotInv'
    BY NextIndInv, NextSlotInv
  <1>2. IndInv /\ SlotInv => NoSlotLeak
    <2> SUFFICES ASSUME IndInv, SlotInv, \A w \in Workers : work[w].pc = "idle", ~rmFailed,
                        NEW s \in DOMAIN rm
                 PROVE  Cardinality({i \in 0..num_regions - 1 : entry[i].slot_num = s}) = 1
      BY DEF NoSlotLeak
    <2>1. EntrySlotInv /\ Owned(s) /\ s # 0 /\ num_regions \in 0..MAX_NUM_ENTRIES
      BY RmAssumption DEF SlotInv, SlotParts, AllOwned, IndInv, TypeInv
    <2>2. PICK i \in Slots : entry[i].slot_num = s
      BY <2>1 DEF Owned, Busy
    <2>3. i < num_regions /\ \A j \in Slots : entry[j].slot_num = s => j = i
      BY <2>1, <2>2 DEF EntrySlotInv
    <2>4. 0..num_regions - 1 \subseteq Slots /\ i \in 0..num_regions - 1
      BY <2>1, <2>2, <2>3, MaxAssumption DEF Slots
    <2>5. {j \in 0..num_regions - 1 : entry[j].slot_num = s} = {i}
      BY <2>2, <2>3, <2>4
    <2> QED
      BY <2>5, FS_Singleton
  <1> QED
    BY <1>1, <1>2, InitIndInv, InitSlotInv, PTL DEF Spec
-----------------------------------------------------------------------------
(* The registrations and the ELF header.  From the drain on, unless a region
   came between the drain and md_init_done, the header has a row for each of
   the first Rows entries. *)
Rows == elf.e_phnum - FIXED_PROGRAMS

Live == 0..num_regions - 1

Drained == probe \in {"drained", "done"} /\ pending_list = <<>>

(* md_update_elf_header leaves the size alone: an update of a region is taken
   to keep it. *)
OneSize == \A e, f \in Regions : e.name = f.name => e.size = f.size

HeadersInv ==
  /\ Rows \in 0..num_regions /\ WellFormed(elf, Rows)
  /\ \A i \in 0..Rows - 1 :
       /\ Row(elf, i).name = entry[i].name
       /\ \A r \in Regions : r.name = Row(elf, i).name => r.size = Row(elf, i).size

NamesInv ==
  /\ \A i \in Live : entry[i].name \in Names
  /\ \A i, j \in Live : entry[i].name = entry[j].name => i = j

RequestsInv ==
  \A q \in DOMAIN wq :
    /\ wq[q].entry \in Region \cup {NoRegion}
    /\ wq[q].cmd # "MINIDUMP_REMOVE" => wq[q].entry \in Regions

(* What a slot number stands for. *)
RowSlotsInv ==
  /\ \A i \in Slots : entry[i].slot_num # 0 =>
       /\ i < Rows /\ entry[i].slot_num \in DOMAIN rm
       /\ rm[entry[i].slot_num] = RmRange(Row(elf, i))
  /\ \A i, j \in Slots : entry[i].slot_num # 0 /\ entry[i].slot_num = entry[j].slot_num => i = j

(* The adds in the queue Q are those of the entries b..N - 1 of E, in order. *)
AddAt(E, Q, q, j) == IsAdd(Q[q]) /\ E[j].name = Q[q].entry.name

AddsWait(E, N, Q, b) ==
  /\ b <= N
  /\ \A q \in DOMAIN Q : IsAdd(Q[q]) => \E j \in b..N - 1 : AddAt(E, Q, q, j)
  /\ \A j \in b..N - 1 : \E q \in DOMAIN Q : AddAt(E, Q, q, j)
  /\ \A p, q \in DOMAIN Q : p < q =>
       \A i, j \in 0..N - 1 : AddAt(E, Q, p, i) /\ AddAt(E, Q, q, j) => i < j

(* A work: an add is about the first entry without a row, the others are about
   an entry that has one unless they will fail for want of a slot. *)
RowWork(w) ==
  /\ work[w].cmd \in Cmds /\ work[w].entry \in Region
  /\ work[w].cmd # "MINIDUMP_REMOVE" => work[w].entry \in Regions
  /\ IF work[w].cmd = "MINIDUMP_ADD"
     THEN /\ work[w].pc # "deregister" /\ work[w].entryno = Rows
          /\ AddsWait(entry, num_regions, wq, Rows + 1)
     ELSE /\ work[w].pc # "drop" /\ AddsWait(entry, num_regions, wq, Rows)
          /\ work[w].entryno < Rows \/ (work[w].pc = "deregister" /\ work[w].slot = 0)
  /\ work[w].pc = "register" => work[w].slot = 0 /\ work[w].cmd # "MINIDUMP_REMOVE"
  /\ work[w].slot # 0 => \A i \in Slots : entry[i].slot_num # work[w].slot
  /\ work[w].pc = "finish" /\ work[w].cmd # "MINIDUMP_REMOVE" =>
       /\ work[w].slot \in DOMAIN rm
       /\ rm[work[w].slot] = RmRange(work[w].entry)

RowWorks ==
  /\ (\A w \in Workers : ~Busy(w)) => AddsWait(entry, num_regions, wq, Rows)
  /\ \A w \in Workers : Busy(w) => RowWork(w)

RowParts == HeadersInv /\ NamesInv /\ RequestsInv /\ RowSlotsInv /\ RowWorks

(* Before the drain there is an empty header and a list of regions. *)
EmptyInv ==
  probe \in {"none", "table"} =>
    elf = AddHeader /\ \A i \in DOMAIN pending_list : pending_list[i] \in Regions

RowInv == EmptyInv /\ (Drained => RowParts)

-----------------------------------------------------------------------------
(* What a call, the start of a work and the loss of an entry do to the adds
   that wait. *)
AppendOf(Q, Q1, q) ==
  /\ DOMAIN Q1 = DOMAIN Q \cup {q} /\ q \in Int
  /\ \A p \in DOMAIN Q : p \in Int /\ p < q /\ Q1[p] = Q[p]

TailOf(Q, Q1) ==
  /\ 1 \in DOMAIN Q
  /\ \A q \in DOMAIN Q : q \in Nat \ {0} /\ (q # 1 => q - 1 \in DOMAIN Q1)
  /\ \A q \in DOMAIN Q1 : q \in Nat \ {0} /\ q + 1 \in DOMAIN Q /\ Q1[q] = Q[q + 1]

LEMMA AddsNames ==
  ASSUME NEW E, NEW N \in Nat, NEW Q, NEW b \in Nat, AddsWait(E, N, Q, b),
         NEW E1, \A j \in 0..N - 1 : E1[j].name = E[j].name
  PROVE  AddsWait(E1, N, Q, b)
  <1>1. b..N - 1 \subseteq 0..N - 1
    OBVIOUS
  <1>2. \A q, j : j \in 0..N - 1 => (AddAt(E1, Q, q, j) <=> AddAt(E, Q, q, j))
    BY DEF AddAt
  <1> QED
    BY <1>1, <1>2 DEF AddsWait

LEMMA AddsAppend ==
  ASSUME NEW E, NEW N \in Nat, NEW Q, NEW b \in Nat, AddsWait(E, N, Q, b),
         NEW E1, NEW Q1, NEW q, AppendOf(Q, Q1, q), IsAdd(Q1[q]),
         E1[N].name = Q1[q].entry.name,
         \A j \in 0..N - 1 : E1[j].name = E[j].name /\ E[j].name # Q1[q].entry.name
  PROVE  AddsWait(E1, N + 1, Q1, b)
  <1>1. /\ b <= N /\ (N + 1) - 1 = N /\ b <= N + 1 /\ N \in b..N
        /\ b..N = (b..N - 1) \cup {N} /\ 0..N = (0..N - 1) \cup {N}
        /\ b..N - 1 \subseteq 0..N - 1 /\ \A j \in 0..N - 1 : j < N
    BY DEF AddsWait
  <1>2. /\ DOMAIN Q1 = DOMAIN Q \cup {q} /\ q \notin DOMAIN Q
        /\ \A p \in DOMAIN Q : p \in Int /\ p < q /\ ~(q < p) /\ Q1[p] = Q[p]
        /\ ~(q < q)
    BY DEF AppendOf
  <1>3. \A p \in DOMAIN Q, j \in 0..N - 1 : AddAt(E1, Q1, p, j) <=> AddAt(E, Q, p, j)
    BY <1>2 DEF AddAt
  <1>4. AddAt(E1, Q1, q, N) /\ \A j \in 0..N - 1 : ~AddAt(E1, Q1, q, j)
    BY DEF AddAt
  <1>5. \A p \in DOMAIN Q : ~AddAt(E1, Q1, p, N)
    <2> SUFFICES ASSUME NEW p \in DOMAIN Q, AddAt(E1, Q1, p, N) PROVE FALSE
      OBVIOUS
    <2>1. IsAdd(Q[p]) /\ Q[p].entry.name = Q1[q].entry.name
      BY <1>2 DEF AddAt
    <2>2. PICK j \in b..N - 1 : AddAt(E, Q, p, j)
      BY <2>1 DEF AddsWait
    <2> QED
      BY <1>1, <2>1, <2>2 DEF AddAt
  <1>6. \A p \in DOMAIN Q1 : IsAdd(Q1[p]) => \E j \in b..N : AddAt(E1, Q1, p, j)
    <2> SUFFICES ASSUME NEW p \in DOMAIN Q1, IsAdd(Q1[p])
                 PROVE  \E j \in b..N : AddAt(E1, Q1, p, j)
      OBVIOUS
    <2>1. CASE p = q
      BY <1>1, <1>4, <2>1
    <2>2. CASE p \in DOMAIN Q
      <3>1. IsAdd(Q[p])
        BY <1>2, <2>2
      <3>2. PICK j \in b..N - 1 : AddAt(E, Q, p, j)
        BY <2>2, <3>1 DEF AddsWait
      <3> QED
        BY <1>1, <1>3, <2>2, <3>2
    <2> QED
      BY <1>2, <2>1, <2>2
  <1>7. \A j \in b..N : \E p \in DOMAIN Q1 : AddAt(E1, Q1, p, j)
    <2> SUFFICES ASSUME NEW j \in b..N PROVE \E p \in DOMAIN Q1 : AddAt(E1, Q1, p, j)
      OBVIOUS
    <2>1. CASE j = N
      BY <1>2, <1>4, <2>1
    <2>2. CASE j \in b..N - 1
      <3>1. PICK p \in DOMAIN Q : AddAt(E, Q, p, j)
        BY <2>2 DEF AddsWait
      <3> QED
        BY <1>1, <1>2, <1>3, <2>2, <3>1
    <2> QED
      BY <1>1, <2>1, <2>2
  <1>8. ASSUME NEW p \in DOMAIN Q1, NEW r \in DOMAIN Q1, p < r, NEW i \in 0..N, NEW j \in 0..N,
               AddAt(E1, Q1, p, i), AddAt(E1, Q1, r, j)
        PROVE  i < j
    <2>1. p \in DOMAIN Q
      BY <1>2, <1>8
    <2>2. i \in 0..N - 1
      BY <1>1, <1>5, <1>8, <2>1
    <2>3. CASE r = q
      BY <1>1, <1>4, <1>8, <2>2, <2>3
    <2>4. CASE r \in DOMAIN Q
      <3>1. j \in 0..N - 1
        BY <1>1, <1>5, <1>8, <2>4
      <3> QED
        BY <1>3, <1>8, <2>1, <2>2, <2>4, <3>1 DEF AddsWait
    <2> QED
      BY <1>2, <2>3, <2>4
  <1> QED
    BY <1>1, <1>6, <1>7, <1>8 DEF AddsWait

LEMMA AddsOther ==
  ASSUME NEW E, NEW N \in Nat, NEW Q, NEW b \in Nat, AddsWait(E, N, Q, b),
         NEW Q1, NEW q, AppendOf(Q, Q1, q), ~IsAdd(Q1[q])
  PROVE  AddsWait(E, N, Q1, b)
  <1>1. \A p \in DOMAIN Q1 : IsAdd(Q1[p]) => p \in DOMAIN Q
    BY DEF AppendOf
  <1>2. \A p \in DOMAIN Q : p \in DOMAIN Q1 /\ Q1[p] = Q[p]
    BY DEF AppendOf
  <1>3. \A p, j : p \in DOMAIN Q => (AddAt(E, Q1, p, j) <=> AddAt(E, Q, p, j))
    BY <1>2 DEF AddAt
  <1>4. \A p, j : p \in DOMAIN Q1 /\ AddAt(E, Q1, p, j) => p \in DOMAIN Q
    BY <1>1 DEF AddAt
  <1> QED
    BY <1>1, <1>2, <1>3, <1>4 DEF AddsWait

LEMMA AddsTail ==
  ASSUME NEW E, NEW N \in Nat, NEW Q, NEW b \in Nat, AddsWait(E, N, Q, b),
         NEW Q1, TailOf(Q, Q1), ~IsAdd(Q[1])
  PROVE  AddsWait(E, N, Q1, b)
  <1>1. \A q \in DOMAIN Q1 : /\ q \in Nat /\ q + 1 \in DOMAIN Q
                             /\ \A j : AddAt(E, Q1, q, j) <=> AddAt(E, Q, q + 1, j)
                             /\ IsAdd(Q1[q]) <=> IsAdd(Q[q + 1])
    BY DEF TailOf, AddAt
  <1>2. \A q \in DOMAIN Q : \A j : AddAt(E, Q, q, j) =>
          q - 1 \in DOMAIN Q1 /\ AddAt(E, Q1, q - 1, j)
    <2> SUFFICES ASSUME NEW q \in DOMAIN Q, NEW j, AddAt(E, Q, q, j)
                 PROVE  q - 1 \in DOMAIN Q1 /\ AddAt(E, Q1, q - 1, j)
      OBVIOUS
    <2>1. q # 1 /\ q \in Nat /\ q - 1 \in DOMAIN Q1 /\ (q - 1) + 1 = q
      BY DEF TailOf, AddAt
    <2> QED
      BY <1>1, <2>1
  <1>3. \A q \in DOMAIN Q1 : IsAdd(Q1[q]) => \E j \in b..N - 1 : AddAt(E, Q1, q, j)
    BY <1>1 DEF AddsWait
  <1>4. \A j \in b..N - 1 : \E q \in DOMAIN Q1 : AddAt(E, Q1, q, j)
    BY <1>2 DEF AddsWait
  <1>5. ASSUME NEW p \in DOMAIN Q1, NEW q \in DOMAIN Q1, p < q, NEW i \in 0..N - 1, NEW j \in 0..N - 1,
               AddAt(E, Q1, p, i), AddAt(E, Q1, q, j)
        PROVE  i < j
    <2>1. p + 1 < q + 1
      BY <1>1, <1>5
    <2> QED
      BY <1>1, <1>5, <2>1 DEF AddsWait
  <1> QED
    BY <1>3, <1>4, <1>5 DEF AddsWait

(* The oldest add is that of entry b. *)
LEMMA AddsHead ==
  ASSUME NEW E, NEW N \in Nat, NEW Q, NEW b \in Nat, AddsWait(E, N, Q, b),
         NEW Q1, TailOf(Q, Q1), IsAdd(Q[1]),
         \A i, j \in 0..N - 1 : E[i].name = E[j].name => i = j
  PROVE  b < N /\ E[b].name = Q[1].entry.name /\ AddsWait(E, N, Q1, b + 1)
  <1>0. /\ 1 \in DOMAIN Q /\ \A q \in DOMAIN Q : q \in Nat /\ (q # 1 => 1 < q)
        /\ b..N - 1 \subseteq 0..N - 1
    BY DEF TailOf
  <1>1. PICK m \in b..N - 1 : AddAt(E, Q, 1, m)
    BY <1>0 DEF AddsWait
  <1>2. b < N /\ b \in b..N - 1
    BY <1>1
  <1>3. PICK r \in DOMAIN Q : AddAt(E, Q, r, b)
    BY <1>2 DEF AddsWait
  <1>4. r = 1
    <2>1. r # 1 => m < b
      BY <1>0, <1>1, <1>2, <1>3 DEF AddsWait
    <2> QED
      BY <1>1, <2>1
  <1>5. AddAt(E, Q, 1, b) /\ \A j \in 0..N - 1 : AddAt(E, Q, 1, j) => j = b
    BY <1>0, <1>2, <1>3, <1>4 DEF AddAt
  <1>6. \A q \in DOMAIN Q1 : /\ q \in Nat /\ q + 1 \in DOMAIN Q /\ 1 < q + 1
                             /\ \A j : AddAt(E, Q1, q, j) <=> AddAt(E, Q, q + 1, j)
                             /\ IsAdd(Q1[q]) <=> IsAdd(Q[q + 1])
    BY DEF TailOf, AddAt
  <1>7. ASSUME NEW q \in DOMAIN Q1, IsAdd(Q1[q])
        PROVE  \E j \in b + 1..N - 1 : AddAt(E, Q1, q, j)
    <2>1. PICK j \in b..N - 1 : AddAt(E, Q, q + 1, j)
      BY <1>6, <1>7 DEF AddsWait
    <2>2. b < j
      BY <1>0, <1>2, <1>5, <1>6, <2>1 DEF AddsWait
    <2>3. j \in b + 1..N - 1
      BY <2>1, <2>2
    <2> QED
      BY <1>6, <2>1, <2>3
  <1>8. ASSUME NEW j \in b + 1..N - 1
        PROVE  \E q \in DOMAIN Q1 : AddAt(E, Q1, q, j)
    <2>1. j \in b..N - 1 /\ j # b
      OBVIOUS
    <2>2. PICK q \in DOMAIN Q : AddAt(E, Q, q, j)
      BY <2>1 DEF AddsWait
    <2>3. q # 1
      BY <1>0, <1>5, <2>1, <2>2
    <2>4. q - 1 \in DOMAIN Q1 /\ (q - 1) + 1 = q
      BY <2>3 DEF TailOf
    <2> QED
      BY <1>6, <2>2, <2>4
  <1>9. ASSUME NEW p \in DOMAIN Q1, NEW q \in DOMAIN Q1, p < q, NEW i \in 0..N - 1, NEW j \in 0..N - 1,
               AddAt(E, Q1, p, i), AddAt(E, Q1, q, j)
        PROVE  i < j
    <2>1. p + 1 < q + 1
      BY <1>6, <1>9
    <2> QED
      BY <1>6, <1>9, <2>1 DEF AddsWait
  <1>10. b + 1 <= N
    BY <1>2
  <1>11. E[b].name = Q[1].entry.name
    BY <1>5 DEF AddAt
  <1> QED
    BY <1>2, <1>7, <1>8, <1>9, <1>10, <1>11 DEF AddsWait

(* An entry before b goes. *)
LEMMA AddsRemove ==
  ASSUME NEW E, NEW N \in Nat, NEW Q, NEW b \in Nat, AddsWait(E, N, Q, b),
         NEW m \in 0..b - 1, NEW E1,
         \A i \in 0..N - 2 : E1[i].name = E[Left(m, i)].name
  PROVE  AddsWait(E1, N - 1, Q, b - 1)
  <1>1. b <= N /\ b - 1 <= N - 1 /\ (N - 1) - 1 = N - 2
    BY DEF AddsWait
  <1>2. \A q : \A i \in 0..N - 2 : AddAt(E1, Q, q, i) <=> AddAt(E, Q, q, Left(m, i))
    BY DEF AddAt
  <1>3. ASSUME NEW j \in b..N - 1
        PROVE  j - 1 \in b - 1..N - 2 /\ j - 1 \in 0..N - 2 /\ Left(m, j - 1) = j
    BY <1>1 DEF Left
  <1>4. \A i \in 0..N - 2 : Left(m, i) \in 0..N - 1
    BY DEF Left
  <1>5. \A i, j \in 0..N - 2 : Left(m, i) < Left(m, j) => i < j
    BY DEF Left
  <1>6. \A j \in b - 1..N - 2 : j \in 0..N - 2 /\ Left(m, j) \in b..N - 1
    BY <1>1 DEF Left
  <1> HIDE DEF Left
  <1>7. ASSUME NEW q \in DOMAIN Q, IsAdd(Q[q])
        PROVE  \E i \in b - 1..N - 2 : AddAt(E1, Q, q, i)
    <2>1. PICK j \in b..N - 1 : AddAt(E, Q, q, j)
      BY <1>7 DEF AddsWait
    <2> QED
      BY <1>2, <1>3, <2>1
  <1>8. \A i \in b - 1..N - 2 : \E q \in DOMAIN Q : AddAt(E1, Q, q, i)
    BY <1>2, <1>6 DEF AddsWait
  <1>9. ASSUME NEW p \in DOMAIN Q, NEW q \in DOMAIN Q, p < q, NEW i \in 0..N - 2, NEW j \in 0..N - 2,
               AddAt(E1, Q, p, i), AddAt(E1, Q, q, j)
        PROVE  i < j
    BY <1>2, <1>4, <1>5, <1>9 DEF AddsWait
  <1> QED
    BY <1>1, <1>7, <1>8, <1>9 DEF AddsWait

-----------------------------------------------------------------------------
(* One lemma per operation, once the list is drained. *)
LEMMA RowsFacts ==
  ASSUME TypeInv, HeadersInv
  PROVE  /\ Rows \in Nat /\ num_regions \in Nat /\ Rows <= num_regions
         /\ num_regions <= MAX_NUM_ENTRIES /\ Live \subseteq Slots
         /\ \A i \in 0..Rows - 1 : i \in Slots /\ i \in Live
  <1>1. /\ Rows \in 0..num_regions /\ num_regions \in 0..MAX_NUM_ENTRIES
        /\ MAX_NUM_ENTRIES \in Nat
    BY MaxAssumption DEF HeadersInv, TypeInv
  <1> HIDE DEF Rows
  <1> QED
    BY <1>1 DEF Live, Slots

LEMMA QuietRows ==
  ASSUME RowParts, UNCHANGED <<num_regions, entry, elf, wq, work, rm>>
  PROVE  RowParts'
  BY DEF RowParts, HeadersInv, NamesInv, RequestsInv, RowSlotsInv, RowWorks, RowWork, Busy, Rows, Live

LEMMA SoleRows ==
  ASSUME NEW w \in Workers, Sole(w)', Busy(w)' => RowWork(w)',
         ~Busy(w)' => AddsWait(entry, num_regions, wq, Rows)'
  PROVE  RowWorks'
  BY DEF RowWorks, RowWork, Sole, Busy, Rows

LEMMA DrainRows ==
  ASSUME IndInv, EmptyInv, OneSize, ProbeDrain
  PROVE  RowParts'
  <1> DEFINE L == Len(pending_list)
  <1>1. /\ probe = "table" /\ probe' = "drained" /\ DrainPending(L)
        /\ num_regions = L /\ pending_list \in Seq(Region) /\ elf = AddHeader
        /\ num_regions \in 0..MAX_NUM_ENTRIES /\ num_regions' = num_regions /\ elf' = elf
        /\ \A i, j \in DOMAIN pending_list : pending_list[i].name = pending_list[j].name => i = j
        /\ \A i \in DOMAIN pending_list : pending_list[i] \in Regions
    BY DEF ProbeDrain, IndInv, TypeInv, BeforeDrain, EmptyInv, DrainPending
  <1>2. L \in Nat /\ DOMAIN pending_list = 1..L /\ L \in 0..L
    BY <1>1
  <1>3. /\ \A w \in Workers : ~Busy(w)'
        /\ \A i \in Slots : entry'[i].slot_num = 0
        /\ \A i \in 0..L - 1 : i \in Slots /\ entry'[i].name = pending_list[i + 1].name
        /\ DOMAIN wq' = 1..L
        /\ \A i \in 1..L : wq'[i] = Request("MINIDUMP_ADD", pending_list[i])
    BY <1>1, <1>2, DrainKeeps
  <1> HIDE DEF L
  <1>4. \A i \in 0..L - 1 : /\ i + 1 \in 1..L /\ pending_list[i + 1] \in Regions
                            /\ pending_list[i + 1].name \in Names
    <2>1. \A i \in 0..L - 1 : i + 1 \in 1..L
      BY <1>2
    <2> QED
      BY <1>1, <1>2, <2>1, EntryRecord
  <1>5. Rows' = 0 /\ WellFormed(elf', 0)
    BY <1>1, AddHeaderWellFormed DEF Rows, WellFormed, FIXED_PROGRAMS
  <1>6. HeadersInv'
    BY <1>1, <1>2, <1>5 DEF HeadersInv
  <1>7. NamesInv'
    <2>1. \A i, j \in 0..L - 1 : entry'[i].name = entry'[j].name => i = j
      <3> SUFFICES ASSUME NEW i \in 0..L - 1, NEW j \in 0..L - 1, entry'[i].name = entry'[j].name
                   PROVE  i = j
        OBVIOUS
      <3>1. i + 1 = j + 1
        BY <1>1, <1>2, <1>3, <1>4
      <3> QED
        BY <3>1
    <2>2. \A i \in 0..L - 1 : entry'[i].name \in Names
      BY <1>3, <1>4
    <2> QED
      BY <1>1, <2>1, <2>2 DEF NamesInv, Live
  <1>8. \A q \in 1..L : /\ wq'[q].cmd = "MINIDUMP_ADD" /\ wq'[q].entry = pending_list[q]
                        /\ pending_list[q] \in Regions /\ pending_list[q] \in Region
    BY <1>1, <1>2, <1>3, EntryRecord DEF Request
  <1>9. RequestsInv'
    BY <1>3, <1>8 DEF RequestsInv
  <1>10. RowSlotsInv'
    BY <1>3 DEF RowSlotsInv
  <1>11. AddsWait(entry', L, wq', 0)
    <2>1. \A q \in 1..L, j \in 0..L - 1 : AddAt(entry', wq', q, j) <=> q = j + 1
      BY <1>1, <1>2, <1>3, <1>4, <1>8 DEF AddAt, IsAdd
    <2>2. \A q \in 1..L : IsAdd(wq'[q]) => \E j \in 0..L - 1 : AddAt(entry', wq', q, j)
      <3> SUFFICES ASSUME NEW q \in 1..L PROVE \E j \in 0..L - 1 : AddAt(entry', wq', q, j)
        OBVIOUS
      <3>1. q - 1 \in 0..L - 1 /\ q = (q - 1) + 1
        BY <1>2
      <3> QED
        BY <2>1, <3>1
    <2>3. \A j \in 0..L - 1 : \E q \in 1..L : AddAt(entry', wq', q, j)
      BY <1>4, <2>1
    <2>4. \A p, q \in 1..L : p < q =>
            \A i, j \in 0..L - 1 : AddAt(entry', wq', p, i) /\ AddAt(entry', wq', q, j) => i < j
      BY <1>2, <2>1
    <2> QED
      BY <1>2, <1>3, <2>2, <2>3, <2>4 DEF AddsWait
  <1>12. RowWorks'
    BY <1>1, <1>3, <1>5, <1>11 DEF RowWorks, Busy
  <1> QED
    BY <1>6, <1>7, <1>9, <1>10, <1>12 DEF RowParts

(* A new entry behind the others, with its add behind the other works. *)
LEMMA AddRegionRows ==
  ASSUME IndInv, RowParts, NEW e \in Regions, AddRegion(e)
  PROVE  RowParts'
  <1> DEFINE N == num_regions
             q == Len(wq) + 1
  <1>1. /\ num_regions' = N + 1 /\ N \in Slots /\ TypeInv /\ QueueType
        /\ entry'[N].name = e.name /\ entry'[N].slot_num = 0
        /\ \A i \in Slots : i # N => entry'[i] = entry[i]
        /\ EntrySlots(e.name) = {}
        /\ DOMAIN wq' = DOMAIN wq \cup {q}
        /\ \A i \in DOMAIN wq : wq'[i] = wq[i]
        /\ wq'[q] = Request("MINIDUMP_ADD", e)
        /\ UNCHANGED <<work, rm>>
    BY AddRegionKeeps DEF IndInv
  <1>2. UNCHANGED elf
    BY DEF AddRegion
  <1>3. q \in Int /\ \A p \in DOMAIN wq : p \in Int /\ p < q
    <2>1. PICK S : wq \in Seq(Requests(S))
      BY <1>1 DEF QueueType
    <2> DEFINE T == Requests(S)
    <2>2. wq \in Seq(T)
      BY <2>1
    <2> HIDE DEF T
    <2> QED
      BY <2>2
  <1>4. HeadersInv /\ NamesInv /\ RequestsInv /\ RowSlotsInv /\ RowWorks
    BY DEF RowParts
  <1>5. /\ Rows \in Nat /\ N \in Nat /\ Rows <= N /\ Live \subseteq Slots
        /\ \A i \in 0..Rows - 1 : i \in Slots /\ i \in Live
        /\ Rows' = Rows /\ Live = 0..N - 1 /\ Live' = Live \cup {N} /\ N \notin Live
        /\ Rows \in 0..N + 1
    <2>1. /\ Rows \in Nat /\ N \in Nat /\ Rows <= N /\ Live \subseteq Slots
          /\ \A i \in 0..Rows - 1 : i \in Slots /\ i \in Live
      BY <1>1, <1>4, RowsFacts
    <2>2. Rows' = Rows
      BY <1>2 DEF Rows
    <2> HIDE DEF Rows
    <2> QED
      BY <1>1, <2>1, <2>2 DEF Live
  <1>6. /\ wq'[q].cmd = "MINIDUMP_ADD" /\ wq'[q].entry = e /\ e \in Region /\ e.name \in Names
    BY <1>1, EntryRecord DEF Request
  <1>7. \A i \in Live : entry[i].name # e.name /\ entry'[i] = entry[i]
    BY <1>1, <1>5 DEF EntrySlots
  <1> HIDE DEF N, q, Rows
  <1>8. HeadersInv'
    BY <1>1, <1>2, <1>4, <1>5, <1>7 DEF HeadersInv
  <1>9. NamesInv'
    BY <1>1, <1>4, <1>5, <1>6, <1>7 DEF NamesInv
  <1>10. RequestsInv'
    BY <1>1, <1>4, <1>6 DEF RequestsInv
  <1>11. \A i \in Slots : entry'[i].slot_num # 0 => i # N /\ entry'[i] = entry[i]
    BY <1>1
  <1>12. RowSlotsInv'
    BY <1>1, <1>2, <1>4, <1>5, <1>11 DEF RowSlotsInv
  <1>13. AppendOf(wq, wq', q) /\ IsAdd(wq'[q]) /\ entry'[N].name = wq'[q].entry.name
    BY <1>1, <1>3, <1>6 DEF AppendOf, IsAdd
  <1>14. \A b \in Nat : AddsWait(entry, N, wq, b) => AddsWait(entry', N + 1, wq', b)
    BY <1>5, <1>6, <1>7, <1>13, AddsAppend
  <1>15. ASSUME NEW w \in Workers, Busy(w) PROVE RowWork(w)'
    <2>1. RowWork(w) /\ Rows + 1 \in Nat
      BY <1>4, <1>5, <1>15 DEF RowWorks
    <2>2. work[w].slot # 0 => \A i \in Slots : entry'[i].slot_num # work[w].slot
      BY <1>11, <2>1 DEF RowWork
    <2> QED
      BY <1>1, <1>5, <1>14, <2>1, <2>2 DEF RowWork, N
  <1>16. RowWorks'
    BY <1>1, <1>4, <1>5, <1>14, <1>15 DEF RowWorks, Busy, N
  <1> QED
    BY <1>8, <1>9, <1>10, <1>12, <1>16 DEF RowParts

(* Updates and removes wait behind the adds of their regions. *)
LEMMA QueueRows ==
  ASSUME IndInv, RowParts, NEW cmd \in {"MINIDUMP_UPDATE", "MINIDUMP_REMOVE"},
         NEW e \in Region \cup {NoRegion}, cmd # "MINIDUMP_REMOVE" => e \in Regions,
         wq' = Append(wq, Request(cmd, e)), UNCHANGED <<num_regions, entry, elf, work, rm>>
  PROVE  RowParts'
  <1> DEFINE q == Len(wq) + 1
  <1>1. /\ DOMAIN wq' = DOMAIN wq \cup {q} /\ wq'[q] = Request(cmd, e)
        /\ \A i \in DOMAIN wq : wq'[i] = wq[i]
    BY QueueAppend DEF IndInv, Cmds
  <1>2. q \in Int /\ \A p \in DOMAIN wq : p \in Int /\ p < q
    <2>1. PICK S : wq \in Seq(Requests(S))
      BY DEF IndInv, QueueType
    <2> DEFINE T == Requests(S)
    <2>2. wq \in Seq(T)
      BY <2>1
    <2> HIDE DEF T
    <2> QED
      BY <2>2
  <1>3. wq'[q].cmd = cmd /\ wq'[q].entry = e
    BY <1>1 DEF Request
  <1> HIDE DEF q
  <1>4. AppendOf(wq, wq', q) /\ ~IsAdd(wq'[q])
    BY <1>1, <1>2, <1>3 DEF AppendOf, IsAdd
  <1>5. /\ HeadersInv /\ NamesInv /\ RequestsInv /\ RowSlotsInv /\ RowWorks
        /\ Rows \in Nat /\ num_regions \in Nat /\ Rows' = Rows
    BY RowsFacts DEF RowParts, IndInv, Rows
  <1>6. \A b \in Nat : AddsWait(entry, num_regions, wq, b) => AddsWait(entry, num_regions, wq', b)
    BY <1>4, <1>5, AddsOther
  <1> HIDE DEF Rows
  <1>7. HeadersInv' /\ NamesInv' /\ RowSlotsInv'
    BY <1>5 DEF HeadersInv, NamesInv, RowSlotsInv, Live
  <1>8. RequestsInv'
    BY <1>1, <1>3, <1>5 DEF RequestsInv
  <1>9. ASSUME NEW w \in Workers, Busy(w) PROVE RowWork(w)'
    <2>1. RowWork(w) /\ Rows + 1 \in Nat
      BY <1>5, <1>9 DEF RowWorks
    <2> QED
      BY <1>5, <1>6, <2>1 DEF RowWork
  <1>10. RowWorks'
    BY <1>5, <1>6, <1>9 DEF RowWorks, Busy
  <1> QED
    BY <1>7, <1>8, <1>10 DEF RowParts

(* What md_get_region gives is a region, if not the one that was registered. *)
LEMMA GetRegionRows ==
  ASSUME TypeInv, HeadersInv, NEW n \in Names, EntrySlots(n) # {}
  PROVE  GetRegion(n) \in Region
  <1> DEFINE k == EntryNum(n)
  <1>1. k \in Slots
    BY EntryNumIn
  <1> HIDE DEF k
  <1>2. k + FIXED_PROGRAMS \in ProgramIdx
    BY <1>1, MaxAssumption DEF Slots, ProgramIdx, FIXED_PROGRAMS
  <1>3. elf.phdr[k + FIXED_PROGRAMS] \in Program
    BY <1>2 DEF HeadersInv, WellFormed, ElfTypeOK
  <1> QED
    BY <1>3 DEF GetRegion, Region, Program, k

LEMMA StartQueue ==
  ASSUME IndInv, NEW w \in Workers, NEW cmd, StartWork(w, cmd)
  PROVE  TailOf(wq, wq')
  <1>1. PICK S : wq \in Seq(Requests(S))
    BY DEF IndInv, QueueType
  <1>2. wq # <<>> /\ wq' = Tail(wq)
    BY DEF StartWork
  <1> DEFINE T == Requests(S)
  <1>3. wq \in Seq(T)
    BY <1>1
  <1> HIDE DEF T
  <1>4. /\ DOMAIN wq = 1..Len(wq) /\ Len(wq) \in Nat /\ Len(wq) # 0
        /\ DOMAIN wq' = 1..Len(wq) - 1 /\ \A q \in 1..Len(wq) - 1 : wq'[q] = wq[q + 1]
    BY <1>2, <1>3
  <1> QED
    BY <1>4 DEF TailOf

(* An add finds the first entry without a row. *)
LEMMA AddFindRows ==
  ASSUME IndInv, RowParts, NEW w \in Workers, AddWorkFind(w)
  PROVE  RowParts'
  <1> DEFINE e == Head(wq).entry
             k == EntryNum(e.name)
  <1>1. /\ StartWork(w, "MINIDUMP_ADD") /\ UNCHANGED <<num_regions, entry, elf, rm>>
    BY DEF AddWorkFind, StartWork
  <1>2. /\ Sole(w) /\ ~Busy(w) /\ Head(wq) = wq[1] /\ Head(wq).cmd = "MINIDUMP_ADD" /\ 1 \in DOMAIN wq
        /\ \A i \in DOMAIN wq' : i + 1 \in DOMAIN wq /\ wq'[i] = wq[i + 1]
        /\ \A i \in Slots : Continue(w, "register", i, 0) =>
             /\ Sole(w)' /\ Busy(w)'
             /\ work'[w].pc = "register" /\ work'[w].slot = 0 /\ work'[w].cmd = "MINIDUMP_ADD"
             /\ work'[w].entry = e /\ work'[w].entryno = i
    BY <1>1, WorkStarts DEF Cmds
  <1>3. /\ HeadersInv /\ NamesInv /\ RequestsInv /\ RowSlotsInv /\ RowWorks /\ TypeInv
        /\ Rows \in Nat /\ num_regions \in Nat /\ Rows' = Rows
    BY <1>1, RowsFacts DEF RowParts, IndInv, Rows
  <1>4. AddsWait(entry, num_regions, wq, Rows)
    BY <1>2, <1>3 DEF RowWorks, Sole
  <1>5. TailOf(wq, wq') /\ IsAdd(wq[1])
    BY <1>1, <1>2, StartQueue DEF IsAdd
  <1> HIDE DEF Rows
  <1>6. /\ Rows < num_regions /\ entry[Rows].name = e.name
        /\ AddsWait(entry, num_regions, wq', Rows + 1)
    BY <1>2, <1>3, <1>4, <1>5, AddsHead DEF NamesInv, Live
  <1>7. Rows \in 0..num_regions - 1 /\ EntrySlots(e.name) # {}
    BY <1>3, <1>6 DEF EntrySlots
  <1>8. k \in Slots /\ k < num_regions /\ entry[k].name = e.name
    BY <1>3, <1>7, EntryNumIn
  <1>9. Continue(w, "register", k, 0)
    BY <1>7 DEF AddWorkFind
  <1> HIDE DEF k
  <1>10. k = Rows
    <2>1. k \in 0..num_regions - 1
      BY <1>3, <1>8 DEF Slots
    <2> QED
      BY <1>3, <1>6, <1>7, <1>8, <2>1 DEF NamesInv, Live
  <1>11. e \in Regions /\ e \in Region
    BY <1>2, <1>3, EntryRecord DEF RequestsInv
  <1>12. /\ Sole(w)' /\ work'[w].pc = "register" /\ work'[w].slot = 0
         /\ work'[w].cmd = "MINIDUMP_ADD" /\ work'[w].entry = e /\ work'[w].entryno = Rows
    BY <1>2, <1>8, <1>9, <1>10
  <1> HIDE DEF e
  <1>13. RowWork(w)'
    BY <1>1, <1>3, <1>6, <1>11, <1>12 DEF RowWork, Cmds
  <1>14. RowWorks'
    BY <1>12, <1>13, SoleRows DEF Busy
  <1>15. RequestsInv'
    BY <1>2, <1>3 DEF RequestsInv
  <1>16. HeadersInv' /\ NamesInv' /\ RowSlotsInv'
    BY <1>1, <1>3 DEF HeadersInv, NamesInv, RowSlotsInv, Live
  <1> QED
    BY <1>14, <1>15, <1>16 DEF RowParts

(* The others find an entry with a row, or one without a slot. *)
LEMMA OtherFindRows ==
  ASSUME IndInv, RowParts, NEW w \in Workers, RemoveWorkFind(w) \/ UpdateWorkFind(w)
  PROVE  RowParts'
  <1> DEFINE e == Head(wq).entry
             k == EntryNum(e.name)
  <1>1. PICK cmd \in {"MINIDUMP_UPDATE", "MINIDUMP_REMOVE"} : StartWork(w, cmd)
    BY DEF RemoveWorkFind, UpdateWorkFind
  <1>2. UNCHANGED <<num_regions, elf, rm>>
    BY <1>1 DEF StartWork
  <1>3. /\ Sole(w) /\ ~Busy(w) /\ Head(wq) = wq[1] /\ Head(wq).cmd = cmd /\ 1 \in DOMAIN wq
        /\ \A i \in DOMAIN wq' : i + 1 \in DOMAIN wq /\ wq'[i] = wq[i + 1]
        /\ UNCHANGED work => Sole(w)' /\ ~Busy(w)'
        /\ \A i \in Slots, s \in RmSlots \cup {0} : Continue(w, "deregister", i, s) =>
             /\ Sole(w)' /\ Busy(w)'
             /\ work'[w].pc = "deregister" /\ work'[w].slot = s /\ work'[w].cmd = cmd
             /\ work'[w].entry = e /\ work'[w].entryno = i
    BY <1>1, WorkStarts DEF Cmds
  <1>4. /\ HeadersInv /\ NamesInv /\ RequestsInv /\ RowSlotsInv /\ RowWorks /\ TypeInv
        /\ Rows \in Nat /\ num_regions \in Nat /\ Rows' = Rows /\ Live \subseteq Slots
        /\ Live' = Live /\ \A i \in 0..Rows - 1 : i \in Slots
    BY <1>2, RowsFacts DEF RowParts, IndInv, Rows, Live
  <1>5. AddsWait(entry, num_regions, wq, Rows)
    BY <1>3, <1>4 DEF RowWorks, Sole
  <1>6. TailOf(wq, wq') /\ ~IsAdd(wq[1])
    BY <1>1, <1>3, StartQueue DEF IsAdd
  <1> HIDE DEF Rows
  <1>7. AddsWait(entry, num_regions, wq', Rows)
    BY <1>4, <1>5, <1>6, AddsTail
  <1>8. RequestsInv'
    BY <1>3, <1>4 DEF RequestsInv
  <1>9. CASE UNCHANGED <<work, entry>>
    <2>1. RowWorks'
      BY <1>2, <1>3, <1>4, <1>7, <1>9, SoleRows
    <2> QED
      BY <1>2, <1>4, <1>8, <1>9, <2>1 DEF RowParts, HeadersInv, NamesInv, RowSlotsInv
  <1>10. CASE /\ EntrySlots(e.name) # {} /\ Continue(w, "deregister", k, entry[k].slot_num)
              /\ entry' = [entry EXCEPT ![k].slot_num = 0]
    <2> DEFINE s == entry[k].slot_num
    <2>1. k \in Slots /\ k < num_regions /\ entry[k].name = e.name
      BY <1>4, <1>10, EntryNumIn
    <2> HIDE DEF k
    <2>2. s \in RmSlots \cup {0}
      <3>1. entry[k] \in Entries
        BY <1>4, <2>1 DEF TypeInv
      <3> QED
        BY <3>1 DEF Entries
    <2>3. /\ Sole(w)' /\ Busy(w)' /\ work'[w].pc = "deregister" /\ work'[w].slot = s
          /\ work'[w].cmd = cmd /\ work'[w].entry = e /\ work'[w].entryno = k
      BY <1>3, <1>10, <2>1, <2>2
    <2>4. /\ entry'[k].slot_num = 0
          /\ \A i \in Slots : i # k => entry'[i] = entry[i]
          /\ \A i \in Slots : entry'[i].name = entry[i].name
      BY <1>4, <1>10, <2>1, SetSlotFacts
    <2>5. s # 0 => k < Rows /\ \A i \in Slots : i # k => entry[i].slot_num # s
      BY <1>4, <2>1 DEF RowSlotsInv
    <2>6. s # 0 => \A i \in Slots : entry'[i].slot_num # s
      BY <2>4, <2>5
    <2> HIDE DEF s
    <2>7. k \in Live
      BY <1>4, <2>1 DEF Live, Slots
    <2>8. e \in Region /\ (cmd # "MINIDUMP_REMOVE" => e \in Regions)
      <3>1. e.name \in Names
        BY <1>4, <2>1, <2>7 DEF NamesInv
      <3>2. e # NoRegion
        BY <3>1, NamesAssumption, EntryRecord
      <3> QED
        BY <1>3, <1>4, <3>2 DEF RequestsInv
    <2>9. AddsWait(entry', num_regions, wq', Rows)
      <3>1. \A j \in 0..num_regions - 1 : entry'[j].name = entry[j].name
        BY <1>4, <2>4 DEF Live
      <3> QED
        BY <1>4, <1>7, <3>1, AddsNames
    <2> HIDE DEF e
    <2>10. RowWork(w)'
      BY <1>1, <1>2, <1>4, <2>3, <2>5, <2>6, <2>8, <2>9 DEF RowWork, Cmds
    <2>11. RowWorks'
      BY <2>3, <2>10, SoleRows
    <2>12. RowSlotsInv'
      BY <1>2, <1>4, <2>4 DEF RowSlotsInv
    <2>13. NamesInv' /\ HeadersInv'
      BY <1>2, <1>4, <2>4 DEF NamesInv, HeadersInv
    <2> QED
      BY <1>8, <2>11, <2>12, <2>13 DEF RowParts
  <1> QED
    BY <1>9, <1>10 DEF RemoveWorkFind, UpdateWorkFind

(* A slot is taken back or given out while the lock is not held: it is in no
   entry. *)
LEMMA CallRows ==
  ASSUME IndInv, RowParts, NEW w \in Workers, Deregister(w) \/ Register(w)
  PROVE  RowParts'
  <1> DEFINE s == work[w].slot
  <1>1. Busy(w) /\ UNCHANGED <<num_regions, entry, elf, wq>>
    BY DEF Deregister, Register, Busy
  <1>2. /\ Sole(w) /\ QueueType /\ TypeInv /\ s \in RmSlots \cup {0} /\ RowWork(w)
        /\ HeadersInv /\ NamesInv /\ RequestsInv /\ RowSlotsInv /\ Rows' = Rows /\ 0 \notin DOMAIN rm
    BY <1>1, BusySole, RmAssumption DEF RowParts, RowWorks, Rows, TypeInv
  <1> HIDE DEF Rows
  <1>3. HeadersInv' /\ NamesInv' /\ RequestsInv'
    BY <1>1, <1>2 DEF HeadersInv, NamesInv, RequestsInv, Live
  <1>4. CASE work' = [work EXCEPT ![w] = Idle] /\ rm' = rm /\ work[w].cmd # "MINIDUMP_ADD"
    <2>1. Sole(w)' /\ ~Busy(w)'
      BY <1>1, <1>2, <1>4, WorkEnds
    <2>2. AddsWait(entry', num_regions', wq', Rows')
      BY <1>1, <1>2, <1>4 DEF RowWork
    <2>3. RowWorks'
      BY <2>1, <2>2, SoleRows
    <2> QED
      BY <1>1, <1>2, <1>3, <1>4, <2>3 DEF RowParts, RowSlotsInv
  <1>5. CASE Deregister(w)
    <2>1. work[w].pc = "deregister" /\ work[w].cmd # "MINIDUMP_ADD"
      BY <1>2, <1>5 DEF Deregister, RowWork
    <2>2. CASE /\ s \in DOMAIN rm /\ rm' = [t \in DOMAIN rm \ {s} |-> rm[t]]
               /\ work' = [work EXCEPT ![w].pc = IF work[w].cmd = "MINIDUMP_UPDATE"
                                                THEN "register" ELSE "finish",
                                      ![w].slot = 0]
      <3>1. PICK pc \in {"register", "finish"} :
              /\ work' = [work EXCEPT ![w].pc = pc, ![w].slot = 0]
              /\ pc = "register" <=> work[w].cmd = "MINIDUMP_UPDATE"
        BY <2>2
      <3>2. rm' = [t \in DOMAIN rm \ {s} |-> rm[t]]
        BY <2>2
      <3>3. /\ Sole(w)' /\ Busy(w)' /\ work'[w].pc = pc /\ work'[w].slot = 0
            /\ work'[w].cmd = work[w].cmd /\ work'[w].entry = work[w].entry
            /\ work'[w].entryno = work[w].entryno
        <4>1. pc \in {"register", "finish", "drop"} /\ 0 \in RmSlots \cup {0} /\ UNCHANGED wq
          BY <1>1
        <4>2. work' = [work EXCEPT ![w].pc = pc, ![w].slot = 0] /\ QueueType /\ Sole(w)
          BY <1>2, <3>1
        <4> QED
          BY <4>1, <4>2, WorkMoves
      <3>4. s # 0 /\ (\A i \in Slots : entry[i].slot_num # s) /\ work[w].entryno < Rows
        BY <1>2, <2>1, <2>2 DEF RowWork
      <3>5. RowSlotsInv'
        BY <1>1, <1>2, <3>2, <3>4 DEF RowSlotsInv
      <3>6. work[w].cmd \in {"MINIDUMP_UPDATE", "MINIDUMP_REMOVE"}
        BY <1>2, <2>1 DEF RowWork, Cmds
      <3>7. RowWork(w)'
        BY <1>1, <1>2, <2>1, <3>1, <3>3, <3>4, <3>6 DEF RowWork
      <3>8. RowWorks'
        BY <3>3, <3>7, SoleRows
      <3> QED
        BY <1>3, <3>5, <3>8 DEF RowParts
    <2>3. CASE work' = [work EXCEPT ![w] = Idle] /\ rm' = rm
      BY <1>4, <2>1, <2>3
    <2> QED
      BY <1>5, <2>2, <2>3 DEF Deregister
  <1>6. CASE Register(w)
    <2>1. work[w].pc = "register" /\ s = 0 /\ work[w].cmd \in {"MINIDUMP_ADD", "MINIDUMP_UPDATE"}
      BY <1>2, <1>6 DEF Register, RowWork, Cmds
    <2>2. ASSUME NEW t \in RmSlots \ DOMAIN rm,
                 rm' = [u \in DOMAIN rm \cup {t} |->
                          IF u = t THEN RmRange(work[w].entry) ELSE rm[u]],
                 work' = [work EXCEPT ![w].pc = "finish", ![w].slot = t]
          PROVE  RowParts'
      <3>1. /\ Sole(w)' /\ Busy(w)' /\ work'[w].pc = "finish" /\ work'[w].slot = t
            /\ work'[w].cmd = work[w].cmd /\ work'[w].entry = work[w].entry
            /\ work'[w].entryno = work[w].entryno
        BY <1>1, <1>2, <2>2, WorkMoves
      <3>2. t \in DOMAIN rm' /\ rm'[t] = RmRange(work[w].entry)
        BY <2>2
      <3>3. \A u \in DOMAIN rm : u # t /\ u \in DOMAIN rm' /\ rm'[u] = rm[u]
        BY <2>2
      <3>4. t # 0 /\ \A i \in Slots : entry[i].slot_num # t
        BY <1>2, <2>2, RmAssumption DEF RowSlotsInv
      <3>5. RowSlotsInv'
        BY <1>1, <1>2, <3>3 DEF RowSlotsInv
      <3>6. RowWork(w)'
        BY <1>1, <1>2, <2>1, <3>1, <3>2, <3>4 DEF RowWork
      <3>7. RowWorks'
        BY <3>1, <3>6, SoleRows
      <3> QED
        BY <1>3, <3>5, <3>7 DEF RowParts
    <2>3. CASE work[w].cmd = "MINIDUMP_UPDATE" /\ work' = [work EXCEPT ![w] = Idle] /\ rm' = rm
      BY <1>4, <2>3
    <2>4. CASE work[w].cmd # "MINIDUMP_UPDATE" /\ work' = [work EXCEPT ![w].pc = "drop"] /\ rm' = rm
      <3>1. /\ Sole(w)' /\ Busy(w)' /\ work'[w].pc = "drop" /\ work'[w].slot = 0
            /\ work'[w].cmd = work[w].cmd /\ work'[w].entry = work[w].entry
            /\ work'[w].entryno = work[w].entryno
        BY <1>1, <1>2, <2>1, <2>4, WorkDrops
      <3>2. RowWork(w)'
        BY <1>1, <1>2, <2>1, <2>4, <3>1 DEF RowWork
      <3>3. RowWorks'
        BY <3>1, <3>2, SoleRows
      <3> QED
        BY <1>1, <1>2, <1>3, <2>4, <3>3 DEF RowParts, RowSlotsInv
    <2> QED
      BY <1>6, <2>2, <2>3, <2>4 DEF Register
  <1> QED
    BY <1>5, <1>6

(* The entries behind entry m, and their names, move down by one. *)
LEMMA RemoveEntry ==
  ASSUME TypeInv, NamesInv, NEW m \in Live,
         entry' = RemoveSlot(entry, m, num_regions, NoEntry), num_regions' = num_regions - 1
  PROVE  /\ \A i \in 0..num_regions - 2 :
              /\ i \in Slots /\ Left(m, i) \in Slots /\ Left(m, i) \in Live
              /\ entry'[i] = entry[Left(m, i)]
         /\ \A i \in Slots : /\ i = num_regions - 1 => entry'[i].slot_num = 0
                             /\ i >= num_regions => entry'[i] = entry[i]
         /\ NamesInv'
  <1> DEFINE N == num_regions
  <1>1. N \in Nat /\ N <= MAX_NUM_ENTRIES /\ m \in Nat /\ m < N /\ MAX_NUM_ENTRIES \in Nat
    BY MaxAssumption DEF TypeInv, Live
  <1>2. \A i \in Slots : entry'[i] = IF i = N - 1 THEN NoEntry
                                     ELSE IF m <= i /\ i < N - 1 THEN entry[i + 1]
                                     ELSE entry[i]
    BY DEF RemoveSlot, TypeInv
  <1>3. num_regions' = N - 1
    OBVIOUS
  <1> HIDE DEF N
  <1>4. \A i \in 0..N - 2 : /\ i \in Slots /\ Left(m, i) \in Slots /\ Left(m, i) \in 0..N - 1
                            /\ i # N - 1 /\ i < N - 1 /\ i \in Int
                            /\ Left(m, i) = IF m <= i THEN i + 1 ELSE i
    BY <1>1 DEF Slots, Left
  <1>5. \A i, j \in 0..N - 2 : Left(m, i) = Left(m, j) => i = j
    BY <1>1 DEF Left
  <1>6. \A i \in 0..N - 2 : entry'[i] = entry[Left(m, i)]
    BY <1>2, <1>4
  <1>7. \A i \in Slots : /\ i = N - 1 => entry'[i].slot_num = 0
                         /\ i >= N => entry'[i] = entry[i]
    <2>1. \A i \in Slots : i >= N => i # N - 1 /\ ~(i < N - 1)
      BY <1>1 DEF Slots
    <2> QED
      BY <1>2, <2>1, EntryRecord
  <1>8. NamesInv'
    <2>1. Live' = 0..N - 2 /\ Live = 0..N - 1
      BY <1>1, <1>3 DEF Live, N
    <2> QED
      BY <1>4, <1>5, <1>6, <2>1 DEF NamesInv
  <1> QED
    BY <1>4, <1>6, <1>7, <1>8 DEF Live, N

(* The add has failed and takes its entry back. *)
LEMMA DropRows ==
  ASSUME IndInv, RowParts, NEW w \in Workers, AddWorkDrop(w)
  PROVE  RowParts'
  <1>1. /\ Busy(w) /\ work[w].cmd = "MINIDUMP_ADD" /\ UNCHANGED <<elf, rm, wq>>
        /\ entry' = RemoveSlot(entry, work[w].entryno, num_regions, NoEntry)
        /\ num_regions' = num_regions - 1
    BY DEF AddWorkDrop, FinishWork, Busy
  <1>2. /\ TypeInv /\ Indexed(w) /\ RowWork(w)
        /\ HeadersInv /\ NamesInv /\ RequestsInv /\ RowSlotsInv /\ Rows' = Rows
        /\ Rows \in Nat /\ num_regions \in Nat /\ Live \subseteq Slots
        /\ \A i \in 0..Rows - 1 : i \in Slots
    BY <1>1, BusySole, RowsFacts DEF RowParts, RowWorks, Rows
  <1>3. ~Busy(w)' /\ Sole(w)'
    BY FinishKeeps
  <1> HIDE DEF Rows
  <1>4. /\ work[w].entryno = Rows /\ Rows < num_regions
        /\ AddsWait(entry, num_regions, wq, Rows + 1)
    BY <1>1, <1>2 DEF RowWork, Indexed
  <1>5. Rows \in Live /\ Rows \in 0..num_regions - 1 /\ Rows \in 0..(Rows + 1) - 1 /\ (Rows + 1) - 1 = Rows
    BY <1>2, <1>4 DEF Live
  <1>6. /\ \A i \in 0..num_regions - 2 : /\ i \in Slots /\ Left(Rows, i) \in Slots
                                         /\ entry'[i] = entry[Left(Rows, i)]
        /\ \A i \in Slots : /\ i = num_regions - 1 => entry'[i].slot_num = 0
                            /\ i >= num_regions => entry'[i] = entry[i]
        /\ NamesInv'
    BY <1>1, <1>2, <1>4, <1>5, RemoveEntry
  <1>7. AddsWait(entry', num_regions - 1, wq, Rows)
    <2> DEFINE b == Rows + 1
               N == num_regions
    <2>1. /\ b \in Nat /\ N \in Nat /\ Rows \in 0..b - 1 /\ b - 1 = Rows
          /\ AddsWait(entry, N, wq, b)
          /\ \A i \in 0..N - 2 : entry'[i].name = entry[Left(Rows, i)].name
      BY <1>2, <1>4, <1>5, <1>6
    <2> HIDE DEF b, N
    <2>2. AddsWait(entry', N - 1, wq, b - 1)
      BY <2>1, AddsRemove
    <2> QED
      BY <2>1, <2>2 DEF N
  <1>8. RowWorks'
    BY <1>1, <1>2, <1>3, <1>7, SoleRows
  <1>9. ASSUME NEW i \in Slots, i < Rows PROVE entry'[i] = entry[i]
    <2>1. i \in 0..num_regions - 2 /\ Left(Rows, i) = i
      BY <1>2, <1>4, <1>9 DEF Slots, Left
    <2> QED
      BY <1>6, <2>1
  <1>10. ASSUME NEW i \in Slots, entry'[i].slot_num # 0 PROVE i < Rows
    <2>1. CASE i < num_regions - 1
      <3>1. i \in 0..num_regions - 2
        BY <1>2, <2>1 DEF Slots
      <3>2. Left(Rows, i) < Rows
        BY <1>2, <1>6, <1>10, <3>1 DEF RowSlotsInv
      <3> QED
        BY <1>2, <3>1, <3>2 DEF Left
    <2>2. CASE i = num_regions - 1
      BY <1>6, <1>10, <2>2
    <2>3. CASE i >= num_regions
      BY <1>2, <1>6, <1>10, <2>3 DEF RowSlotsInv
    <2> QED
      BY <1>2, <2>1, <2>2, <2>3 DEF Slots
  <1>11. RowSlotsInv'
    BY <1>1, <1>2, <1>9, <1>10 DEF RowSlotsInv
  <1>12. Rows \in 0..num_regions - 1
    BY <1>5
  <1>13. \A i \in 0..Rows - 1 : i < Rows
    BY <1>2
  <1>14. HeadersInv'
    BY <1>1, <1>2, <1>9, <1>12, <1>13 DEF HeadersInv
  <1>15. RequestsInv'
    BY <1>1, <1>2 DEF RequestsInv
  <1> QED
    BY <1>6, <1>8, <1>11, <1>14, <1>15 DEF RowParts

(* The slot goes into the entry, and the header gets its row. *)
LEMMA AddFinishRows ==
  ASSUME OneSize, IndInv, RowParts, NEW w \in Workers, AddWorkFinish(w)
  PROVE  RowParts'
  <1> DEFINE e == work[w].entry
             s == work[w].slot
             k == Rows
  <1>1. /\ Busy(w) /\ work[w].cmd = "MINIDUMP_ADD" /\ work[w].pc = "finish"
        /\ elf' = AddElfHeader(elf, e) /\ UNCHANGED <<wq, num_regions>>
    BY DEF AddWorkFinish, FinishWork, Busy
  <1>2. /\ TypeInv /\ Indexed(w) /\ RowWork(w) /\ s \in RmSlots \cup {0}
        /\ HeadersInv /\ NamesInv /\ RequestsInv /\ RowSlotsInv
        /\ k \in Nat /\ num_regions \in Nat /\ Live \subseteq Slots
        /\ num_regions <= MAX_NUM_ENTRIES /\ MAX_NUM_ENTRIES \in Nat
        /\ \A i \in 0..k - 1 : i \in Slots
    BY <1>1, BusySole, RowsFacts, MaxAssumption DEF RowParts, RowWorks
  <1>3. ~Busy(w)' /\ Sole(w)'
    BY FinishKeeps
  <1>4. /\ work[w].entryno = k /\ k < num_regions /\ entry[k].name = e.name
        /\ AddsWait(entry, num_regions, wq, k + 1) /\ e \in Regions /\ e \in Region
        /\ s # 0 => \A i \in Slots : entry[i].slot_num # s
        /\ s \in DOMAIN rm /\ rm[s] = RmRange(e) /\ e.size > 0
    BY <1>1, <1>2, RegionsAssumption DEF RowWork, Indexed
  <1>5. rm' = rm /\ entry' = [entry EXCEPT ![k].slot_num = s]
    BY <1>4 DEF AddWorkFinish
  <1> HIDE DEF k, e
  <1>6. k \in Slots /\ k < MAX_NUM_ENTRIES /\ k + 1 \in 0..num_regions /\ (k + 1) - 1 = k
        /\ 0..k = (0..k - 1) \cup {k} /\ k \notin 0..k - 1
    BY <1>2, <1>4 DEF Slots
  <1>7. /\ entry'[k].slot_num = s /\ entry'[k].name = e.name
        /\ \A i \in Slots : i # k => entry'[i] = entry[i]
        /\ \A i \in Slots : entry'[i].name = entry[i].name
    BY <1>2, <1>4, <1>5, <1>6, SetSlotFacts
  <1>8. WellFormed(elf, k)
    BY <1>2 DEF HeadersInv, k
  <1>9. /\ WellFormed(elf', k + 1) /\ \A i \in 0..k - 1 : Row(elf', i) = Row(elf, i)
        /\ Row(elf', k) = e
    BY <1>1, <1>2, <1>4, <1>6, <1>8, AddWellFormed
  <1>10. Rows' = k + 1
    BY <1>2, <1>9 DEF Rows, WellFormed, FIXED_PROGRAMS
  <1>11. /\ \A i \in 0..k - 1 : /\ Row(elf, i).name = entry[i].name
                                /\ \A r \in Regions : r.name = Row(elf, i).name => r.size = Row(elf, i).size
         /\ \A i \in Slots : entry[i].slot_num # 0 =>
              /\ i < k /\ entry[i].slot_num \in DOMAIN rm
              /\ rm[entry[i].slot_num] = RmRange(Row(elf, i))
    BY <1>2 DEF HeadersInv, RowSlotsInv, k
  <1>12. HeadersInv'
    <2>1. \A r \in Regions : r.name = e.name => r.size = e.size
      BY <1>4 DEF OneSize
    <2>2. ASSUME NEW i \in 0..k
          PROVE  /\ Row(elf', i).name = entry'[i].name
                 /\ \A r \in Regions : r.name = Row(elf', i).name => r.size = Row(elf', i).size
      <3>1. CASE i = k
        BY <1>7, <1>9, <2>1, <3>1
      <3>2. CASE i \in 0..k - 1
        BY <1>2, <1>7, <1>9, <1>11, <3>2
      <3> QED
        BY <1>6, <3>1, <3>2
    <2> QED
      BY <1>1, <1>6, <1>9, <1>10, <2>2 DEF HeadersInv
  <1>13. RowSlotsInv'
    <2>1. ASSUME NEW i \in Slots, entry'[i].slot_num # 0
          PROVE  /\ i < k + 1 /\ entry'[i].slot_num \in DOMAIN rm
                 /\ rm[entry'[i].slot_num] = RmRange(Row(elf', i))
      <3>1. CASE i = k
        BY <1>2, <1>4, <1>7, <1>9, <3>1
      <3>2. CASE i # k
        <4>1. i < k /\ i \in 0..k - 1
          BY <1>2, <1>7, <1>11, <2>1, <3>2 DEF Slots
        <4> QED
          BY <1>2, <1>7, <1>9, <1>11, <2>1, <3>2, <4>1
      <3> QED
        BY <3>1, <3>2
    <2>2. \A i, j \in Slots : entry'[i].slot_num # 0 /\ entry'[i].slot_num = entry'[j].slot_num => i = j
      BY <1>2, <1>4, <1>7 DEF RowSlotsInv
    <2> QED
      BY <1>5, <1>10, <2>1, <2>2 DEF RowSlotsInv
  <1>14. NamesInv' /\ RequestsInv'
    BY <1>1, <1>2, <1>7 DEF NamesInv, RequestsInv, Live
  <1>15. AddsWait(entry', num_regions, wq, k + 1)
    <2>1. k + 1 \in Nat /\ \A j \in 0..num_regions - 1 : entry'[j].name = entry[j].name
      BY <1>2, <1>7 DEF Live
    <2> QED
      BY <1>2, <1>4, <2>1, AddsNames
  <1>16. RowWorks'
    BY <1>1, <1>3, <1>10, <1>15, SoleRows
  <1> QED
    BY <1>12, <1>13, <1>14, <1>16 DEF RowParts

(* The slot goes back into the entry, and its row gets the new addresses. *)
LEMMA UpdateFinishRows ==
  ASSUME OneSize, IndInv, RowParts, NEW w \in Workers, UpdateWorkFinish(w)
  PROVE  RowParts'
  <1> DEFINE e == work[w].entry
             s == work[w].slot
             m == work[w].entryno
             k == Rows
  <1>1. /\ Busy(w) /\ work[w].cmd = "MINIDUMP_UPDATE" /\ work[w].pc = "finish"
        /\ UNCHANGED <<wq, num_regions, rm>>
    BY DEF UpdateWorkFinish, FinishWork, Busy
  <1>2. /\ TypeInv /\ Indexed(w) /\ RowWork(w) /\ s \in RmSlots \cup {0} /\ m \in Slots
        /\ HeadersInv /\ NamesInv /\ RequestsInv /\ RowSlotsInv
        /\ k \in Nat /\ num_regions \in Nat /\ Live \subseteq Slots /\ k <= num_regions
        /\ num_regions <= MAX_NUM_ENTRIES /\ MAX_NUM_ENTRIES \in Nat
        /\ \A i \in 0..k - 1 : i \in Slots
    BY <1>1, BusySole, RowsFacts, MaxAssumption DEF RowParts, RowWorks
  <1>3. ~Busy(w)' /\ Sole(w)'
    BY FinishKeeps
  <1>4. /\ m < k /\ entry[m].name = e.name
        /\ AddsWait(entry, num_regions, wq, k) /\ e \in Regions /\ e \in Region
        /\ s # 0 => \A i \in Slots : entry[i].slot_num # s
        /\ s \in DOMAIN rm /\ rm[s] = RmRange(e)
    BY <1>1, <1>2 DEF RowWork, Indexed
  <1>5. elf' = UpdateElfHeader(elf, m, e) /\ entry' = [entry EXCEPT ![m].slot_num = s]
    BY <1>4 DEF UpdateWorkFinish
  <1> HIDE DEF k, e, m
  <1>6. m \in 0..k - 1 /\ k <= MAX_NUM_ENTRIES
    BY <1>2, <1>4 DEF Slots
  <1>7. /\ entry'[m].slot_num = s
        /\ \A i \in Slots : i # m => entry'[i] = entry[i]
        /\ \A i \in Slots : entry'[i].name = entry[i].name
    BY <1>2, <1>5, SetSlotFacts
  <1>8. WellFormed(elf, k)
    BY <1>2 DEF HeadersInv, k
  <1>9. /\ WellFormed(elf', k) /\ \A i \in 0..k - 1 : i # m => Row(elf', i) = Row(elf, i)
        /\ Row(elf', m) = [name |-> Row(elf, m).name, virt_addr |-> e.virt_addr,
                           phys_addr |-> e.phys_addr, size |-> Row(elf, m).size]
    BY <1>2, <1>4, <1>5, <1>6, <1>8, UpdateWellFormed
  <1>10. Rows' = k
    BY <1>2, <1>9 DEF Rows, WellFormed, FIXED_PROGRAMS
  <1>11. /\ \A i \in 0..k - 1 : /\ Row(elf, i).name = entry[i].name
                                /\ \A r \in Regions : r.name = Row(elf, i).name => r.size = Row(elf, i).size
         /\ \A i \in Slots : entry[i].slot_num # 0 =>
              /\ i < k /\ entry[i].slot_num \in DOMAIN rm
              /\ rm[entry[i].slot_num] = RmRange(Row(elf, i))
         /\ k \in 0..num_regions
    BY <1>2 DEF HeadersInv, RowSlotsInv, k
  <1>12. \A i \in 0..k - 1 : Row(elf', i).name = Row(elf, i).name /\ Row(elf', i).size = Row(elf, i).size
    BY <1>9
  <1>13. RmRange(Row(elf', m)) = RmRange(e)
    <2>1. Row(elf, m).name = e.name /\ Row(elf, m).size = e.size
      BY <1>4, <1>6, <1>11
    <2> QED
      BY <1>9, <2>1 DEF RmRange
  <1>14. HeadersInv'
    BY <1>1, <1>2, <1>7, <1>9, <1>10, <1>11, <1>12 DEF HeadersInv
  <1>15. RowSlotsInv'
    <2>1. ASSUME NEW i \in Slots, entry'[i].slot_num # 0
          PROVE  /\ i < k /\ entry'[i].slot_num \in DOMAIN rm
                 /\ rm[entry'[i].slot_num] = RmRange(Row(elf', i))
      <3>1. CASE i = m
        BY <1>4, <1>7, <1>13, <3>1
      <3>2. CASE i # m
        <4>1. i \in 0..k - 1
          BY <1>2, <1>7, <1>11, <2>1, <3>2 DEF Slots
        <4> QED
          BY <1>7, <1>9, <1>11, <2>1, <3>2, <4>1
      <3> QED
        BY <3>1, <3>2
    <2>2. \A i, j \in Slots : entry'[i].slot_num # 0 /\ entry'[i].slot_num = entry'[j].slot_num => i = j
      BY <1>2, <1>4, <1>7 DEF RowSlotsInv
    <2> QED
      BY <1>1, <1>10, <2>1, <2>2 DEF RowSlotsInv
  <1>16. NamesInv' /\ RequestsInv'
    BY <1>1, <1>2, <1>7 DEF NamesInv, RequestsInv, Live
  <1>17. AddsWait(entry', num_regions, wq, k)
    <2>1. \A j \in 0..num_regions - 1 : entry'[j].name = entry[j].name
      BY <1>2, <1>7 DEF Live
    <2> QED
      BY <1>2, <1>4, <2>1, AddsNames
  <1>18. RowWorks'
    BY <1>1, <1>3, <1>10, <1>17, SoleRows
  <1> QED
    BY <1>14, <1>15, <1>16, <1>18 DEF RowParts

(* The row and the entry go together, whatever program header was found. *)
LEMMA RemoveFinishRows ==
  ASSUME IndInv, RowParts, NEW w \in Workers, RemoveWorkFinish(w)
  PROVE  RowParts'
  <1> DEFINE e == work[w].entry
             m == work[w].entryno
             k == Rows
             N == num_regions
  <1>1. /\ Busy(w) /\ work[w].cmd = "MINIDUMP_REMOVE" /\ work[w].pc = "finish"
        /\ UNCHANGED <<wq, rm>>
    BY DEF RemoveWorkFinish, FinishWork, Busy
  <1>2. /\ TypeInv /\ Indexed(w) /\ RowWork(w) /\ m \in Slots
        /\ HeadersInv /\ NamesInv /\ RequestsInv /\ RowSlotsInv
        /\ k \in Nat /\ N \in Nat /\ Live \subseteq Slots /\ k <= N
        /\ N <= MAX_NUM_ENTRIES /\ MAX_NUM_ENTRIES \in Nat
        /\ \A i \in 0..k - 1 : i \in Slots /\ i \in Live
    BY <1>1, BusySole, RowsFacts, MaxAssumption DEF RowParts, RowWorks
  <1>3. ~Busy(w)' /\ Sole(w)'
    BY FinishKeeps
  <1>4. m < k /\ entry[m].name = e.name /\ AddsWait(entry, N, wq, k) /\ e \in Region
    BY <1>1, <1>2 DEF RowWork, Indexed
  <1>5. RequestsInv'
    BY <1>1, <1>2 DEF RequestsInv
  <1>6. CASE UNCHANGED <<elf, entry, num_regions>>
    <2>1. Rows' = Rows
      BY <1>6 DEF Rows
    <2>2. RowWorks'
      BY <1>1, <1>3, <1>4, <1>6, <2>1, SoleRows
    <2> HIDE DEF Rows
    <2> QED
      BY <1>1, <1>2, <1>5, <1>6, <2>1, <2>2 DEF RowParts, HeadersInv, NamesInv, RowSlotsInv, Live
  <1>7. CASE /\ CanClearHeaders(elf, e) /\ elf' = ClearHeaders(elf, e)
             /\ entry' = RemoveSlot(entry, m, N, NoEntry) /\ num_regions' = N - 1
    <2>1. WellFormed(elf, k) /\ \A i \in 0..k - 1 : Row(elf, i).name = entry[i].name
      BY <1>2 DEF HeadersInv
    <2>2. DistinctRows(elf, k)
      BY <1>2, <2>1 DEF DistinctRows, NamesInv
    <2> HIDE DEF k, e, m
    <2>3. m \in 0..k - 1 /\ k <= MAX_NUM_ENTRIES
      BY <1>2, <1>4 DEF Slots
    <2>4. PICK p \in 0..k - 1 :
            /\ Row(elf, p) = e /\ WellFormed(elf', k - 1)
            /\ \A i \in 0..k - 2 : Row(elf', i) = Row(elf, Left(p, i))
      BY <1>2, <1>4, <1>7, <2>1, <2>2, <2>3, ClearWellFormed
    <2>5. p = m
      BY <1>2, <1>4, <2>1, <2>3, <2>4 DEF NamesInv
    <2>6. Rows' = k - 1 /\ k - 1 \in 0..N - 1 /\ k - 1 \in Nat /\ (k - 1) - 1 = k - 2
      <3>1. elf'.e_phnum = (k - 1) + 1
        BY <2>4 DEF WellFormed, FIXED_PROGRAMS
      <3>2. Rows' = elf'.e_phnum - 1
        BY DEF Rows, FIXED_PROGRAMS
      <3> QED
        BY <1>2, <2>3, <3>1, <3>2
    <2>7. /\ \A i \in 0..N - 2 : /\ i \in Slots /\ Left(m, i) \in Slots /\ Left(m, i) \in Live
                                 /\ entry'[i] = entry[Left(m, i)]
          /\ \A i \in Slots : /\ i = N - 1 => entry'[i].slot_num = 0
                              /\ i >= N => entry'[i] = entry[i]
          /\ NamesInv'
      BY <1>2, <1>7, <2>3, RemoveEntry
    <2>8. AddsWait(entry', N - 1, wq, k - 1)
      <3>1. \A i \in 0..N - 2 : entry'[i].name = entry[Left(m, i)].name
        BY <2>7
      <3> HIDE DEF N
      <3> QED
        BY <1>2, <1>4, <2>3, <3>1, AddsRemove
    <2>9. RowWorks'
      BY <1>1, <1>3, <1>7, <2>6, <2>8, SoleRows
    <2> HIDE DEF N
    <2>10. \A i \in 0..k - 2 : /\ i \in 0..N - 2 /\ Left(m, i) \in 0..k - 1
                               /\ i < k - 1 /\ i \in Int
      BY <1>2, <2>3 DEF Left
    <2>11. \A i \in 0..k - 2 : Row(elf', i) = Row(elf, Left(m, i)) /\ entry'[i] = entry[Left(m, i)]
      BY <2>4, <2>5, <2>7, <2>10
    <2>12. HeadersInv'
      <3>1. \A j \in 0..k - 1 : /\ Row(elf, j).name = entry[j].name
                                /\ \A r \in Regions : r.name = Row(elf, j).name => r.size = Row(elf, j).size
        BY <1>2 DEF HeadersInv, k
      <3>2. \A i \in 0..k - 2 : /\ Row(elf', i).name = entry'[i].name
                                /\ \A r \in Regions : r.name = Row(elf', i).name => r.size = Row(elf', i).size
        BY <2>10, <2>11, <3>1
      <3> QED
        BY <1>7, <2>4, <2>6, <3>2 DEF HeadersInv
    <2>13. /\ \A j \in Slots : entry[j].slot_num # 0 =>
                /\ j < k /\ entry[j].slot_num \in DOMAIN rm
                /\ rm[entry[j].slot_num] = RmRange(Row(elf, j))
           /\ \A i, j \in Slots : entry[i].slot_num # 0 /\ entry[i].slot_num = entry[j].slot_num => i = j
      BY <1>2 DEF RowSlotsInv, k
    <2>14. ASSUME NEW i \in Slots, entry'[i].slot_num # 0
           PROVE  /\ i \in 0..k - 2 /\ Left(m, i) \in Slots /\ entry'[i] = entry[Left(m, i)]
      <3>1. i < N
        <4>1. i >= N => entry[i].slot_num # 0 /\ i < k
          BY <2>7, <2>13, <2>14
        <4> QED
          BY <1>2, <4>1 DEF Slots
      <3>2. i # N - 1
        BY <2>7, <2>14
      <3>3. i \in 0..N - 2
        BY <1>2, <3>1, <3>2 DEF Slots
      <3>4. entry'[i] = entry[Left(m, i)] /\ Left(m, i) \in Slots
        BY <2>7, <3>3
      <3>5. Left(m, i) < k
        BY <2>13, <2>14, <3>4
      <3>6. i \in 0..k - 2
        BY <1>2, <2>3, <3>3, <3>5 DEF Left
      <3> QED
        BY <3>4, <3>6
    <2>15. \A i, j \in 0..k - 2 : Left(m, i) = Left(m, j) => i = j
      BY <2>3 DEF Left
    <2>16. RowSlotsInv'
      <3>1. \A i \in Slots : entry'[i].slot_num # 0 =>
              /\ i < k - 1 /\ entry'[i].slot_num \in DOMAIN rm
              /\ rm[entry'[i].slot_num] = RmRange(Row(elf', i))
        BY <2>10, <2>11, <2>13, <2>14
      <3>2. ASSUME NEW i \in Slots, NEW j \in Slots, entry'[i].slot_num # 0,
                   entry'[i].slot_num = entry'[j].slot_num
            PROVE  i = j
        BY <2>13, <2>14, <2>15, <3>2
      <3> QED
        BY <1>1, <2>6, <3>1, <3>2 DEF RowSlotsInv
    <2> QED
      BY <1>5, <2>7, <2>9, <2>12, <2>16 DEF RowParts
  <1> QED
    BY <1>6, <1>7 DEF RemoveWorkFinish

LEMMA InitRowInv == Init => RowInv
  BY DEF Init, RowInv, EmptyInv, Drained

LEMMA NextRowInv ==
  ASSUME OneSize, IndInv, RowInv, [Next]_vars
  PROVE  RowInv'
  <1>1. EmptyInv /\ (Drained => RowParts)
    BY DEF RowInv
  <1>2. CASE ProbeTable \/ ProbeFail \/ ProbeNoMemory
    <2>1. probe' \in {"table", "failed"}
      BY <1>2 DEF ProbeTable, ProbeFail, ProbeNoMemory
    <2>2. probe' = "table" => probe = "none" /\ elf' = AddHeader /\ UNCHANGED pending_list
      BY <1>2 DEF ProbeTable, ProbeFail, ProbeNoMemory
    <2> QED
      BY <1>1, <2>1, <2>2 DEF RowInv, EmptyInv, Drained
  <1>3. CASE ProbeDone \/ UNCHANGED vars
    <2>1. /\ UNCHANGED <<num_regions, entry, elf, wq, work, rm, pending_list>>
          /\ probe' = probe \/ (probe = "drained" /\ probe' = "done")
      BY <1>3 DEF ProbeDone, vars
    <2>2. Drained' => RowParts'
      BY <1>1, <2>1, QuietRows DEF Drained
    <2> QED
      BY <1>1, <2>1, <2>2 DEF RowInv, EmptyInv
  <1>4. CASE ProbeDrain
    <2>1. RowParts' /\ probe' = "drained"
      BY <1>1, <1>4, DrainRows DEF ProbeDrain
    <2> QED
      BY <2>1 DEF RowInv, EmptyInv
  <1>5. ASSUME probe = "done", probe' = probe, pending_list' = pending_list, RowParts => RowParts'
        PROVE  RowInv'
    BY <1>1, <1>5 DEF RowInv, EmptyInv, Drained
  <1>6. ASSUME NEW e \in Regions, AddRegion(e) PROVE RowInv'
    <2>1. probe = "done" /\ probe' = probe /\ pending_list' = pending_list
      BY <1>6 DEF AddRegion, MdInitDone
    <2> QED
      BY <1>5, <1>6, <2>1, AddRegionRows
  <1>7. ASSUME NEW e \in Regions, AddPending(e) PROVE RowInv'
    <2>1. pending_list' = Append(pending_list, e) /\ UNCHANGED <<probe, elf>> /\ pending_list \in Seq(Region)
      BY <1>7 DEF AddPending, IndInv, TypeInv
    <2>2. e \in Region
      BY EntryRecord
    <2>3. /\ pending_list' # <<>>
          /\ \A i \in DOMAIN pending_list' : \/ i \in DOMAIN pending_list /\ pending_list'[i] = pending_list[i]
                                             \/ pending_list'[i] = e
      BY <2>1, <2>2
    <2> QED
      BY <1>1, <2>1, <2>3 DEF RowInv, EmptyInv, Drained
  <1>8. ASSUME NEW e \in Regions, UpdateRegion(e) PROVE RowInv'
    <2>1. /\ probe = "done" /\ probe' = probe /\ pending_list' = pending_list
          /\ wq' = Append(wq, Request("MINIDUMP_UPDATE", e))
          /\ UNCHANGED <<num_regions, entry, elf, work, rm>>
      BY <1>8 DEF UpdateRegion, MdInitDone
    <2>2. e \in Region \cup {NoRegion}
      BY EntryRecord
    <2>3. RowParts => RowParts'
      BY <2>1, <2>2, QueueRows
    <2> QED
      BY <1>5, <2>1, <2>3
  <1>9. ASSUME NEW n \in Names, RemoveRegion(n) PROVE RowInv'
    <2>1. /\ probe = "done" /\ probe' = probe /\ pending_list' = pending_list /\ EntrySlots(n) # {}
          /\ UNCHANGED <<num_regions, entry, elf, work, rm>>
      BY <1>9 DEF RemoveRegion, MdInitDone
    <2>2. PICK e \in {client[n], GetRegion(n)} : wq' = Append(wq, Request("MINIDUMP_REMOVE", e))
      BY <1>9 DEF RemoveRegion
    <2>3. ASSUME RowParts PROVE RowParts'
      <3>1. client[n] \in Region \cup {NoRegion} /\ TypeInv /\ HeadersInv
        BY <2>3 DEF IndInv, TypeInv, RowParts
      <3>2. e \in Region \cup {NoRegion}
        BY <2>1, <2>2, <3>1, GetRegionRows
      <3> QED
        BY <2>1, <2>2, <2>3, <3>2, QueueRows
    <2> QED
      BY <1>5, <2>1, <2>3
  <1>10. ASSUME NEW w \in Workers, Worker(w) PROVE RowInv'
    <2>1. RowParts => RowParts'
      BY <1>10, AddFindRows, OtherFindRows, CallRows, DropRows, AddFinishRows, UpdateFinishRows,
         RemoveFinishRows DEF Worker
    <2>2. probe' = probe /\ pending_list' = pending_list
      BY <1>10 DEF Worker, AddWorkFind, RemoveWorkFind, UpdateWorkFind, StartWork, Deregister, Register,
         AddWorkDrop, AddWorkFinish, UpdateWorkFinish, RemoveWorkFinish, FinishWork
    <2>3. Busy(w) \/ \E cmd \in Cmds : StartWork(w, cmd)
      BY <1>10 DEF Worker, AddWorkFind, RemoveWorkFind, UpdateWorkFind, Deregister, Register,
         AddWorkDrop, AddWorkFinish, UpdateWorkFinish, RemoveWorkFinish, FinishWork, Busy, Cmds
    <2>4. probe \notin {"none", "table"}
      BY <2>3, BusySole, WorkStarts
    <2> QED
      BY <1>1, <2>1, <2>2, <2>4 DEF RowInv, EmptyInv, Drained
  <1> QED
    BY <1>2, <1>3, <1>4, <1>6, <1>7, <1>8, <1>9, <1>10 DEF Next, Probe, Caller

LEMMA RowsMatch ==
  ASSUME IndInv, RowInv
  PROVE  RmMatchesElf
  <1>1. ASSUME Drained
        PROVE  /\ HeadersInv /\ RowSlotsInv /\ Rows \in Nat /\ num_regions \in Nat
               /\ Rows <= num_regions /\ Rows <= MAX_NUM_ENTRIES /\ WellFormed(elf, Rows)
               /\ Live \subseteq Slots
    <2>1. HeadersInv /\ RowSlotsInv /\ TypeInv /\ MAX_NUM_ENTRIES \in Nat
      BY <1>1, MaxAssumption DEF RowInv, RowParts, IndInv
    <2>2. /\ Rows \in Nat /\ num_regions \in Nat /\ Rows <= num_regions
          /\ num_regions <= MAX_NUM_ENTRIES /\ Live \subseteq Slots /\ WellFormed(elf, Rows)
      BY <2>1, RowsFacts DEF HeadersInv
    <2> HIDE DEF Rows
    <2> QED
      BY <2>1, <2>2
  <1>2. ASSUME Drained, NEW i \in 0..Rows - 1
        PROVE  LookupString(elf, elf.shdr[i + FIXED_SECTIONS].sh_name) = Row(elf, i).name
    BY <1>1, <1>2, RowFacts DEF Sec
  <1>3. HeadersArePrefix
    <2> SUFFICES ASSUME Drained
                 PROVE  /\ Rows <= num_regions /\ elf.e_shnum - FIXED_SECTIONS = Rows
                        /\ \A i \in 0..Rows - 1 :
                             LookupString(elf, elf.shdr[i + FIXED_SECTIONS].sh_name) = entry[i].name
      BY DEF HeadersArePrefix, Drained, Rows
    <2>1. elf.e_shnum = Rows + FIXED_SECTIONS
      BY <1>1 DEF WellFormed
    <2> HIDE DEF Rows
    <2>2. elf.e_shnum - FIXED_SECTIONS = Rows
      BY <1>1, <2>1 DEF FIXED_SECTIONS
    <2> QED
      BY <1>1, <1>2, <2>2 DEF HeadersInv
  <1>4. SlotsMatchElf
    <2> DEFINE ph(i) == elf.phdr[i + FIXED_PROGRAMS]
               sh(i) == elf.shdr[i + FIXED_SECTIONS]
    <2>1. ASSUME Drained, NEW i \in Live, entry[i].slot_num # 0
          PROVE  /\ entry[i].slot_num \in DOMAIN rm
                 /\ rm[entry[i].slot_num] =
                      [name |-> LookupString(elf, sh(i).sh_name),
                       phys_addr |-> ph(i).p_paddr, size |-> ph(i).p_memsz]
      <3>1. /\ i < Rows /\ entry[i].slot_num \in DOMAIN rm
            /\ rm[entry[i].slot_num] = RmRange(Row(elf, i))
        BY <1>1, <2>1 DEF RowSlotsInv
      <3>2. i \in 0..Rows - 1
        <4> HIDE DEF Rows
        <4> QED
          BY <1>1, <2>1, <3>1 DEF Live
      <3>3. LookupString(elf, sh(i).sh_name) = Row(elf, i).name
        BY <1>2, <2>1, <3>2
      <3>4. Row(elf, i).phys_addr = ph(i).p_paddr /\ Row(elf, i).size = ph(i).p_memsz
        BY DEF Row, Prog
      <3> QED
        BY <3>1, <3>3, <3>4 DEF RmRange
    <2> QED
      BY <2>1 DEF SlotsMatchElf, Drained, Live
  <1> QED
    BY <1>3, <1>4 DEF RmMatchesElf

(* A slot number in the table is a live registration of the very range that the
   ELF header describes at that position, and the headers are those of the
   oldest entries, in their order, whatever calls come while md_rm_add_work,
   md_rm_update_work and md_rm_remove_work are without the lock, and also after
   calls of the resource manager have failed.  Regions keep their size. *)
THEOREM RmAlwaysMatchesElf ==
  ASSUME OneSize
  PROVE  Spec => []RmMatchesElf
  <1>1. IndInv /\ RowInv /\ [Next]_vars => IndInv' /\ RowInv'
    BY NextIndInv, NextRowInv
  <1>2. IndInv /\ RowInv => RmMatchesElf
    BY RowsMatch
  <1> QED
    BY <1>1, <1>2, InitIndInv, InitRowInv, PTL DEF Spec
=============================================================================
