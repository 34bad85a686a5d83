-------------------------- MODULE DumpResizeProofs --------------------------
(***************************************************************************)
(* Proofs about DumpResize for any sizes, any contiguous memory area and   *)
(* any number of writers, in both modes: while the file is written under   *)
(* the mutex of the page owner, and as long as a size survives its         *)
(* conversion to an int, a panic finds a buffer that is large enough       *)
(* except in the two windows, and a write leaves address, size, region and *)
(* memory in agreement, and no second buffer behind.                       *)
(*                                                                         *)
(* The three properties speak of the state between writes.  The inductive  *)
(* invariant says for each point of a write which buffer is in use, what   *)
(* is published of it and what the write still knows: Phase.               *)
(***************************************************************************)
EXTENDS DumpResize, TLAPS

(* The bytes of every size that is asked for fit into an int. *)
SizesFit == \A n \in Sizes \cup {BootSize} : ToInt(n) = n

Works == [pc : {"idle", "get", "remove", "release", "clear", "alloc", "add", "publish",
                "setsize"},
          stage : {"none", "boot", "first", "resize", "fallback"},
          size : Sizes \cup {BootSize},
          mdr : Region \cup {NoRegion}]

TypeInv ==
  /\ mode \in {"smem", "rm"}
  /\ region \in Region \cup {NoRegion}
  /\ dump_addr \in Buffers \cup {NULL}
  /\ dump_size \in Sizes \cup {0, BootSize}
  /\ work \in [Procs -> Works \cup {Idle}]
  /\ bootFailed \in BOOLEAN /\ broken \in BOOLEAN

(* How far the works of the resource manager have got, and what they left. *)
RmInv ==
  /\ rm \in {"none", "queued", "registered", "removing", "left"}
  /\ mode = "smem" => rm = "none"
  /\ mode = "rm" => (rm = "none" <=> region = NoRegion)

(* The mutex: at most one process is in the kernel. *)
Exclusive == \A p, q \in Procs : work[p] # Idle /\ work[q] # Idle => p = q

(* The only buffer in use, and its size. *)
Holds(b, n) == DOMAIN cma = {b} /\ cma[b] = n

(* No buffer is in use, or the one of an entry that a remove work left. *)
Left ==
  /\ DOMAIN cma = {region.buf} \ {NULL}
  /\ region = NoRegion \/ rm \in {"removing", "left"}

(* A buffer is registered, or the add work has dropped the entry. *)
Registered(b, n) ==
  \/ region = [buf |-> b, size |-> n] /\ rm \notin {"removing", "left"}
  \/ region = NoRegion /\ mode = "rm"

(* Between writes. *)
AtRest ==
  \/ /\ dump_addr = NULL /\ Left
     /\ dump_size = 0 \/ (bootFailed /\ region = NoRegion)
  \/ /\ dump_addr # NULL /\ dump_size # 0 /\ Holds(dump_addr, dump_size)
     /\ Registered(dump_addr, dump_size) \/ (broken /\ region = NoRegion)

(* What a registration under way knows of the size it must have in the end. *)
Staged(w) ==
  \/ w.stage = "boot" /\ w.size = dump_size /\ dump_size # 0 /\ region = NoRegion
  \/ w.stage = "first" /\ dump_size = 0
  \/ w.stage = "resize" /\ dump_size # 0
  \/ w.stage = "fallback" /\ w.size = dump_size /\ dump_size # 0

(* In the middle of a write, or of the registration at boot. *)
Phase(w) ==
  \/ w.pc = "get" /\ AtRest /\ dump_size # 0
  \/ /\ w.pc = "remove" /\ dump_addr # NULL /\ dump_size # 0 /\ Holds(dump_addr, dump_size)
     /\ region = [buf |-> dump_addr, size |-> dump_size] /\ w.mdr = region
     /\ rm \in {"none", "registered"}
  \/ /\ w.pc = "release" /\ dump_addr # NULL /\ dump_size # 0 /\ Holds(dump_addr, dump_size)
     /\ w.mdr = [buf |-> dump_addr, size |-> dump_size]
     /\ IF mode = "smem" THEN region = NoRegion
        ELSE region = w.mdr /\ rm \in {"removing", "left"}
  \/ w.pc = "clear" /\ dump_size # 0 /\ Left
  \/ w.pc = "alloc" /\ dump_addr = NULL /\ Left /\ Staged(w)
  \/ /\ w.pc = "add" /\ dump_addr = NULL /\ Staged(w)
     /\ w.mdr.buf \in Buffers /\ w.mdr.buf # region.buf /\ w.mdr.size = w.size /\ w.size # 0
     /\ DOMAIN cma = ({region.buf} \ {NULL}) \cup {w.mdr.buf} /\ cma[w.mdr.buf] = w.size
     /\ region = NoRegion \/ rm \in {"removing", "left"}
  \/ /\ w.pc = "publish" /\ dump_addr = NULL
     /\ w.stage \in {"first", "resize"} \/ w.size = dump_size
     /\ w.mdr.buf \in Buffers /\ w.mdr.size = w.size /\ w.size # 0
     /\ Holds(w.mdr.buf, w.size) /\ Registered(w.mdr.buf, w.size)
  \/ /\ w.pc = "setsize" /\ dump_addr # NULL /\ w.size # 0
     /\ Holds(dump_addr, w.size) /\ Registered(dump_addr, w.size)

IndInv ==
  /\ TypeInv /\ RmInv /\ Exclusive
  /\ AllIdle => AtRest
  /\ \A p \in Procs : work[p] # Idle => Phase(work[p])

-----------------------------------------------------------------------------
(* Only p is in the kernel, before and after its step. *)
Alone(p) == \A q \in Procs \ {p} : work[q] = Idle

LEMMA ActiveAlone ==
  ASSUME IndInv, NEW p \in Procs, work[p] # Idle
  PROVE  Alone(p) /\ Phase(work[p]) /\ work[p] \in Works /\ TypeInv /\ RmInv
  BY DEF IndInv, Alone, Exclusive, TypeInv

LEMMA StepKeeps ==
  ASSUME TypeInv', RmInv', NEW p \in Procs, Alone(p)', work'[p] # Idle, Phase(work[p])'
  PROVE  IndInv'
  BY DEF IndInv, Alone, Exclusive, AllIdle

LEMMA ReturnKeeps ==
  ASSUME TypeInv', RmInv', NEW p \in Procs, Alone(p)', work'[p] = Idle, AtRest'
  PROVE  IndInv'
  BY DEF IndInv, Alone, Exclusive, AllIdle

LEMMA IdleRecord ==
  /\ Idle.pc = "idle" /\ Idle.stage = "none" /\ Idle.size = 0 /\ Idle.mdr = NoRegion
  /\ NoRegion.buf = NULL /\ NoRegion.size = 0 /\ NoRegion \notin Region
  /\ \A r \in Region : r.buf \in Buffers /\ r.size \in Nat /\ r = [buf |-> r.buf, size |-> r.size]
  BY ResizeAssumption DEF Idle, NoRegion, Region

LEMMA GoFields ==
  ASSUME TypeInv, NEW p \in Procs, work[p] \in Works, Alone(p),
         NEW pc \in {"release", "clear", "publish", "setsize"}, Go(p, pc)
  PROVE  /\ work' \in [Procs -> Works \cup {Idle}] /\ Alone(p)' /\ work'[p] # Idle
         /\ work'[p].pc = pc /\ work'[p].stage = work[p].stage
         /\ work'[p].size = work[p].size /\ work'[p].mdr = work[p].mdr
  <1> DEFINE v == [work[p] EXCEPT !.pc = pc]
  <1>1. work' = [work EXCEPT ![p] = v]
    BY DEF Go
  <1>2. /\ v \in Works /\ v.pc = pc /\ v.stage = work[p].stage /\ v.size = work[p].size
        /\ v.mdr = work[p].mdr
    BY DEF Works
  <1>3. v # Idle
    BY <1>2, IdleRecord
  <1> HIDE DEF v
  <1>4. work'[p] = v /\ \A q \in Procs \ {p} : work'[q] = work[q]
    BY <1>1 DEF TypeInv
  <1>5. work' \in [Procs -> Works \cup {Idle}]
    BY <1>1, <1>2 DEF TypeInv
  <1> QED
    BY <1>2, <1>3, <1>4, <1>5 DEF Alone

LEMMA ReturnFields ==
  ASSUME TypeInv, NEW p \in Procs, Alone(p), Return(p)
  PROVE  /\ work' \in [Procs -> Works \cup {Idle}] /\ Alone(p)' /\ work'[p] = Idle
  BY DEF TypeInv, Return, Alone

(* A write that starts sees the state of rest. *)
LEMMA WriteKeeps ==
  ASSUME IndInv, Locked, NEW p \in Writers, NEW size \in Sizes, Write(p, size)
  PROVE  IndInv'
  <1>1. /\ p \in Procs /\ AllIdle /\ AtRest /\ TypeInv /\ RmInv
        /\ UNCHANGED <<cma, mode, region, rm, dump_addr, dump_size, bootFailed, broken>>
    BY DEF Write, Procs, IndInv
  <1>2. AtRest' /\ RmInv'
    BY <1>1 DEF AtRest, RmInv, Left, Holds, Registered
  <1> DEFINE v == IF dump_size = 0
                  THEN [Idle EXCEPT !.pc = "alloc", !.stage = "first", !.size = size]
                  ELSE [Idle EXCEPT !.pc = "get", !.size = size]
  <1>3. v \in Works /\ v # Idle
        /\ (dump_size = 0 => v.pc = "alloc" /\ v.stage = "first")
        /\ (dump_size # 0 => v.pc = "get")
    BY DEF Works, Idle
  <1>4. work' = [work EXCEPT ![p] = v]
    BY DEF Write
  <1> HIDE DEF v
  <1>5. work' \in [Procs -> Works \cup {Idle}] /\ work'[p] = v /\ Alone(p)'
    BY <1>1, <1>3, <1>4 DEF TypeInv, Alone, AllIdle
  <1>6. TypeInv'
    BY <1>1, <1>5 DEF TypeInv
  <1>7. CASE dump_size = 0
    <2>1. dump_addr' = NULL /\ Left' /\ dump_size' = 0
      BY <1>1, <1>2, <1>7 DEF AtRest
    <2>2. Phase(work[p])'
      BY <1>3, <1>5, <1>7, <2>1 DEF Phase, Staged
    <2> QED
      BY <1>1, <1>2, <1>3, <1>5, <1>6, <2>2, StepKeeps
  <1>8. CASE dump_size # 0
    <2>1. Phase(work[p])'
      BY <1>1, <1>2, <1>3, <1>5, <1>8 DEF Phase
    <2> QED
      BY <1>1, <1>2, <1>3, <1>5, <1>6, <2>1, StepKeeps
  <1> QED
    BY <1>7, <1>8

LEMMA GetKeeps ==
  ASSUME IndInv, NEW p \in Procs, GetRegion(p)
  PROVE  IndInv'
  <1>1. work[p].pc = "get" /\ work[p] # Idle
        /\ UNCHANGED <<cma, mode, region, rm, dump_addr, dump_size, bootFailed, broken>>
    BY IdleRecord DEF GetRegion
  <1>2. Alone(p) /\ Phase(work[p]) /\ work[p] \in Works /\ TypeInv /\ RmInv
    BY <1>1, ActiveAlone
  <1>3. AtRest /\ dump_size # 0
    BY <1>1, <1>2 DEF Phase
  <1>4. AtRest' /\ RmInv'
    BY <1>1, <1>2, <1>3 DEF AtRest, RmInv, Left, Holds, Registered
  <1>5. CASE Return(p)
    <2>1. /\ work' \in [Procs -> Works \cup {Idle}] /\ Alone(p)' /\ work'[p] = Idle
      BY <1>2, <1>5, ReturnFields
    <2>2. TypeInv'
      BY <1>1, <1>2, <2>1 DEF TypeInv
    <2> QED
      BY <1>4, <2>1, <2>2, ReturnKeeps
  <1>6. CASE /\ region # NoRegion /\ rm # "queued"
             /\ work' = [work EXCEPT ![p].pc = "remove", ![p].mdr = region]
    <2> DEFINE v == [work[p] EXCEPT !.pc = "remove", !.mdr = region]
    <2>1. v \in Works /\ v.pc = "remove" /\ v.mdr = region /\ v # Idle
      <3>1. v \in Works /\ v.pc = "remove" /\ v.mdr = region
        BY <1>2 DEF Works, TypeInv
      <3> QED
        BY <3>1, IdleRecord
    <2>2. work' = [work EXCEPT ![p] = v]
      BY <1>2, <1>6 DEF TypeInv
    <2> HIDE DEF v
    <2>3. work' \in [Procs -> Works \cup {Idle}] /\ work'[p] = v /\ Alone(p)'
      BY <1>2, <2>1, <2>2 DEF TypeInv, Alone
    <2>4. TypeInv'
      BY <1>1, <1>2, <2>3 DEF TypeInv
    <2>5. /\ dump_addr # NULL /\ Holds(dump_addr, dump_size)
          /\ region = [buf |-> dump_addr, size |-> dump_size] /\ rm \in {"none", "registered"}
      BY <1>2, <1>3, <1>6 DEF AtRest, Registered, RmInv
    <2>6. Phase(work[p])'
      BY <1>1, <1>3, <2>1, <2>3, <2>5 DEF Phase, Holds
    <2> QED
      BY <1>4, <2>1, <2>3, <2>4, <2>6, StepKeeps
  <1> QED
    BY <1>5, <1>6 DEF GetRegion

(* The region found is the one that is removed, unless the remove fails. *)
LEMMA RemoveKeeps ==
  ASSUME IndInv, NEW p \in Procs, RemoveRegion(p)
  PROVE  IndInv'
  <1>1. /\ work[p].pc = "remove" /\ work[p] # Idle /\ mode = "smem" /\ region' = NoRegion
        /\ UNCHANGED <<cma, mode, rm, dump_addr, dump_size, bootFailed>>
    BY IdleRecord DEF RemoveRegion
  <1>2. Alone(p) /\ Phase(work[p]) /\ work[p] \in Works /\ TypeInv /\ RmInv
    BY <1>1, ActiveAlone
  <1>3. /\ dump_addr # NULL /\ dump_size # 0 /\ Holds(dump_addr, dump_size)
        /\ region = [buf |-> dump_addr, size |-> dump_size] /\ work[p].mdr = region
    BY <1>1, <1>2 DEF Phase
  <1>4. RmInv' /\ Holds(dump_addr, dump_size)'
    BY <1>1, <1>2, <1>3 DEF RmInv, Holds
  <1>5. CASE Go(p, "release") /\ UNCHANGED broken
    <2>1. /\ work' \in [Procs -> Works \cup {Idle}] /\ Alone(p)' /\ work'[p] # Idle
          /\ work'[p].pc = "release" /\ work'[p].mdr = work[p].mdr
      BY <1>2, <1>5, GoFields
    <2>2. TypeInv'
      BY <1>1, <1>2, <1>5, <2>1 DEF TypeInv
    <2>3. Phase(work[p])'
      BY <1>1, <1>3, <1>4, <2>1 DEF Phase
    <2> QED
      BY <1>4, <2>1, <2>2, <2>3, StepKeeps
  <1>6. CASE Return(p) /\ broken' = (broken \/ region # NoRegion)
    <2>1. /\ work' \in [Procs -> Works \cup {Idle}] /\ Alone(p)' /\ work'[p] = Idle
      BY <1>2, <1>6, ReturnFields
    <2>2. region # NoRegion
      BY <1>3, IdleRecord
    <2>3. broken' = TRUE
      BY <1>6, <2>2
    <2>4. TypeInv'
      BY <1>1, <1>2, <2>1, <2>3 DEF TypeInv
    <2>5. AtRest'
      BY <1>1, <1>3, <1>4, <2>3 DEF AtRest
    <2> QED
      BY <1>4, <2>1, <2>4, <2>5, ReturnKeeps
  <1> QED
    BY <1>5, <1>6 DEF RemoveRegion

LEMMA RemoveQueuedKeeps ==
  ASSUME IndInv, NEW p \in Procs, RemoveQueued(p)
  PROVE  IndInv'
  <1>1. /\ work[p].pc = "remove" /\ work[p] # Idle /\ mode = "rm"
        /\ UNCHANGED <<cma, mode, region, dump_addr, dump_size, bootFailed, broken>>
    BY IdleRecord DEF RemoveQueued
  <1>2. Alone(p) /\ Phase(work[p]) /\ work[p] \in Works /\ TypeInv /\ RmInv
    BY <1>1, ActiveAlone
  <1>3. /\ dump_addr # NULL /\ dump_size # 0 /\ Holds(dump_addr, dump_size)
        /\ region = [buf |-> dump_addr, size |-> dump_size] /\ work[p].mdr = region
        /\ rm \in {"none", "registered"}
    BY <1>1, <1>2 DEF Phase
  <1>4. Holds(dump_addr, dump_size)'
    BY <1>1, <1>3 DEF Holds
  <1>5. region # NoRegion /\ rm = "registered"
    BY <1>1, <1>2, <1>3, IdleRecord DEF RmInv
  <1>6. CASE Go(p, "release") /\ rm' = "removing"
    <2>1. /\ work' \in [Procs -> Works \cup {Idle}] /\ Alone(p)' /\ work'[p] # Idle
          /\ work'[p].pc = "release" /\ work'[p].mdr = work[p].mdr
      BY <1>2, <1>6, GoFields
    <2>2. TypeInv' /\ RmInv'
      BY <1>1, <1>2, <1>5, <1>6, <2>1 DEF TypeInv, RmInv
    <2>3. Phase(work[p])'
      BY <1>1, <1>3, <1>4, <1>6, <2>1 DEF Phase
    <2> QED
      BY <2>1, <2>2, <2>3, StepKeeps
  <1>7. CASE Return(p) /\ UNCHANGED rm
    <2>1. /\ work' \in [Procs -> Works \cup {Idle}] /\ Alone(p)' /\ work'[p] = Idle
      BY <1>2, <1>7, ReturnFields
    <2>2. TypeInv' /\ RmInv'
      BY <1>1, <1>2, <1>7, <2>1 DEF TypeInv, RmInv
    <2>3. AtRest'
      BY <1>1, <1>3, <1>4, <1>5, <1>7 DEF AtRest, Registered
    <2> QED
      BY <2>1, <2>2, <2>3, ReturnKeeps
  <1> QED
    BY <1>5, <1>6, <1>7 DEF RemoveQueued

(* In SMEM mode the buffer goes; in resource-manager mode it stays, with the
   entry. *)
LEMMA ReleaseKeeps ==
  ASSUME IndInv, NEW p \in Procs, Release(p)
  PROVE  IndInv'
  <1>1. /\ work[p].pc = "release" /\ work[p] # Idle /\ Go(p, "clear")
        /\ UNCHANGED <<mode, region, rm, dump_addr, dump_size, bootFailed, broken>>
    BY IdleRecord DEF Release
  <1>2. Alone(p) /\ Phase(work[p]) /\ work[p] \in Works /\ TypeInv /\ RmInv
    BY <1>1, ActiveAlone
  <1>3. /\ dump_addr # NULL /\ dump_size # 0 /\ DOMAIN cma = {dump_addr}
        /\ work[p].mdr = [buf |-> dump_addr, size |-> dump_size]
        /\ mode = "smem" => region = NoRegion
        /\ mode # "smem" => region = work[p].mdr /\ rm \in {"removing", "left"}
    BY <1>1, <1>2 DEF Phase, Holds
  <1>4. /\ work' \in [Procs -> Works \cup {Idle}] /\ Alone(p)' /\ work'[p] # Idle
        /\ work'[p].pc = "clear"
    BY <1>1, <1>2, GoFields
  <1>5. TypeInv' /\ RmInv'
    BY <1>1, <1>2, <1>4 DEF TypeInv, RmInv
  <1>6. Left'
    <2>1. CASE mode = "smem"
      <3>1. cma' = [c \in DOMAIN cma \ {dump_addr} |-> cma[c]]
        BY <1>3, <2>1 DEF Release, CmaRelease
      <3>2. DOMAIN cma' = {}
        BY <1>3, <3>1
      <3> QED
        BY <1>1, <1>3, <2>1, <3>2, IdleRecord DEF Left
    <2>2. CASE mode # "smem"
      <3>1. cma' = cma /\ region.buf = dump_addr
        BY <1>3, <2>2 DEF Release
      <3> QED
        BY <1>1, <1>3, <2>2, <3>1 DEF Left
    <2> QED
      BY <2>1, <2>2
  <1>7. Phase(work[p])'
    BY <1>1, <1>3, <1>4, <1>6 DEF Phase
  <1> QED
    BY <1>4, <1>5, <1>7, StepKeeps

LEMMA ClearKeeps ==
  ASSUME IndInv, NEW p \in Procs, Clear(p)
  PROVE  IndInv'
  <1>1. /\ work[p].pc = "clear" /\ work[p] # Idle /\ dump_addr' = NULL
        /\ UNCHANGED <<cma, mode, region, rm, bootFailed, broken>>
    BY IdleRecord DEF Clear
  <1>2. Alone(p) /\ Phase(work[p]) /\ work[p] \in Works /\ TypeInv /\ RmInv
    BY <1>1, ActiveAlone
  <1>3. Left /\ dump_size # 0
    BY <1>1, <1>2 DEF Phase
  <1>4. Left' /\ RmInv'
    BY <1>1, <1>2, <1>3 DEF Left, RmInv
  <1>5. CASE dump_size' = 0 /\ Return(p)
    <2>1. /\ work' \in [Procs -> Works \cup {Idle}] /\ Alone(p)' /\ work'[p] = Idle
      BY <1>2, <1>5, ReturnFields
    <2>2. TypeInv'
      BY <1>1, <1>2, <1>5, <2>1 DEF TypeInv
    <2>3. AtRest'
      BY <1>1, <1>4, <1>5 DEF AtRest
    <2> QED
      BY <1>4, <2>1, <2>2, <2>3, ReturnKeeps
  <1>6. CASE /\ work' = [work EXCEPT ![p].pc = "alloc", ![p].stage = "resize"]
             /\ UNCHANGED dump_size
    <2> DEFINE v == [work[p] EXCEPT !.pc = "alloc", !.stage = "resize"]
    <2>1. v \in Works /\ v.pc = "alloc" /\ v.stage = "resize"
      BY <1>2 DEF Works
    <2>2. v # Idle
      BY <2>1, IdleRecord
    <2>3. work' = [work EXCEPT ![p] = v]
      BY <1>2, <1>6 DEF TypeInv
    <2> HIDE DEF v
    <2>4. work' \in [Procs -> Works \cup {Idle}] /\ work'[p] = v /\ Alone(p)'
      BY <1>2, <2>1, <2>3 DEF TypeInv, Alone
    <2>5. TypeInv'
      BY <1>1, <1>2, <1>6, <2>4 DEF TypeInv
    <2>6. Phase(work[p])'
      BY <1>1, <1>3, <1>4, <1>6, <2>1, <2>4 DEF Phase, Staged
    <2> QED
      BY <1>4, <2>2, <2>4, <2>5, <2>6, StepKeeps
  <1> QED
    BY <1>5, <1>6 DEF Clear

(* A registration that fails leaves no buffer but the one of an old entry. *)
LEMMA FailedKeeps ==
  ASSUME IndInv, NEW p \in Procs, work[p] # Idle, RegisterFailed(p), Staged(work[p]),
         dump_addr = NULL, Left',
         UNCHANGED <<mode, region, rm, dump_addr, broken>>
  PROVE  IndInv'
  <1>1. Alone(p) /\ work[p] \in Works /\ TypeInv /\ RmInv
    BY ActiveAlone
  <1>2. RmInv'
    BY <1>1 DEF RmInv
  <1>3. CASE work[p].stage = "resize"
    <2> DEFINE v == [Idle EXCEPT !.pc = "alloc", !.stage = "fallback", !.size = dump_size]
    <2>1. work' = [work EXCEPT ![p] = v] /\ UNCHANGED <<dump_size, bootFailed>>
      BY <1>3 DEF RegisterFailed
    <2>2. dump_size \in Sizes \cup {BootSize} /\ dump_size # 0
      BY <1>1, <1>3 DEF Staged, TypeInv
    <2>3. v \in Works /\ v.pc = "alloc" /\ v.stage = "fallback" /\ v.size = dump_size
      BY <2>2 DEF Works, Idle
    <2>4. v # Idle
      BY <2>3, IdleRecord
    <2> HIDE DEF v
    <2>5. work' \in [Procs -> Works \cup {Idle}] /\ work'[p] = v /\ Alone(p)'
      BY <1>1, <2>1, <2>3 DEF TypeInv, Alone
    <2>6. TypeInv'
      BY <1>1, <2>1, <2>5 DEF TypeInv
    <2>7. Phase(work[p])'
      BY <2>1, <2>2, <2>3, <2>5 DEF Phase, Staged
    <2> QED
      BY <1>2, <2>4, <2>5, <2>6, <2>7, StepKeeps
  <1>4. CASE work[p].stage # "resize"
    <2>1. /\ Return(p) /\ dump_size' \in {0, dump_size} /\ bootFailed' \in BOOLEAN
          /\ dump_size' = 0 \/ (bootFailed' /\ region' = NoRegion)
      <3>1. CASE work[p].stage = "fallback"
        BY <1>1, <3>1 DEF RegisterFailed, TypeInv
      <3>2. CASE work[p].stage = "first"
        BY <1>1, <3>2 DEF RegisterFailed, TypeInv, Staged
      <3>3. CASE work[p].stage = "boot"
        BY <1>1, <3>3 DEF RegisterFailed, TypeInv, Staged
      <3> QED
        BY <1>4, <3>1, <3>2, <3>3 DEF Staged
    <2>2. /\ work' \in [Procs -> Works \cup {Idle}] /\ Alone(p)' /\ work'[p] = Idle
      BY <1>1, <2>1, ReturnFields
    <2>3. TypeInv'
      BY <1>1, <2>1, <2>2 DEF TypeInv
    <2>4. AtRest'
      BY <2>1 DEF AtRest
    <2> QED
      BY <1>2, <2>2, <2>3, <2>4, ReturnKeeps
  <1> QED
    BY <1>3, <1>4

(* The buffer has the size that was asked for, and is another than the one of
   an old entry. *)
LEMMA AllocKeeps ==
  ASSUME IndInv, SizesFit, NEW p \in Procs, Alloc(p)
  PROVE  IndInv'
  <1>1. /\ work[p].pc = "alloc" /\ work[p] # Idle
        /\ UNCHANGED <<mode, region, rm, dump_addr, broken>>
    BY IdleRecord DEF Alloc
  <1>2. Alone(p) /\ Phase(work[p]) /\ work[p] \in Works /\ TypeInv /\ RmInv
    BY <1>1, ActiveAlone
  <1>3. dump_addr = NULL /\ Left /\ Staged(work[p])
    BY <1>1, <1>2 DEF Phase
  <1>4. CASE RegisterFailed(p) /\ UNCHANGED cma
    <2>1. Left'
      BY <1>1, <1>3, <1>4 DEF Left
    <2> QED
      BY <1>1, <1>3, <1>4, <2>1, FailedKeeps
  <1> DEFINE n == ToInt(work[p].size)
  <1>5. ASSUME NEW b \in Buffers, CmaAlloc(b, n),
               work' = [work EXCEPT ![p].pc = "add", ![p].mdr = [buf |-> b, size |-> n]],
               UNCHANGED <<dump_size, bootFailed>>
        PROVE  IndInv'
    <2>1. n = work[p].size /\ work[p].size \in Nat
      BY <1>2, ResizeAssumption DEF SizesFit, Works
    <2>2. n # 0
      <3>1. n \in 1..2^(W - 1) - 1
        BY <1>5 DEF CmaAlloc
      <3>2. 2^(W - 1) \in Int
        BY ResizeAssumption
      <3> HIDE DEF n
      <3> QED
        BY <3>1, <3>2
    <2>3. b \notin DOMAIN cma /\ cma' = [c \in DOMAIN cma \cup {b} |-> IF c = b THEN n ELSE cma[c]]
      BY <1>5 DEF CmaAlloc
    <2> DEFINE r == [buf |-> b, size |-> n]
               v == [work[p] EXCEPT !.pc = "add", !.mdr = r]
    <2>4. r \in Region /\ r.buf = b /\ r.size = n
      BY <2>1 DEF Region
    <2> HIDE DEF n
    <2>5. work' = [work EXCEPT ![p] = v]
      BY <1>2, <1>5 DEF TypeInv
    <2> HIDE DEF r
    <2>6. /\ v \in Works /\ v.pc = "add" /\ v.mdr = r /\ v.size = work[p].size
          /\ v.stage = work[p].stage
      BY <1>2, <2>4 DEF Works
    <2>7. v # Idle
      BY <2>6, IdleRecord
    <2> HIDE DEF v
    <2>8. work' \in [Procs -> Works \cup {Idle}] /\ work'[p] = v /\ Alone(p)'
      BY <1>2, <2>5, <2>6 DEF TypeInv, Alone
    <2>9. TypeInv' /\ RmInv'
      BY <1>1, <1>2, <1>5, <2>8 DEF TypeInv, RmInv
    <2>10. DOMAIN cma' = ({region'.buf} \ {NULL}) \cup {b} /\ cma'[b] = n /\ b # region'.buf
      <3>1. b # NULL
        BY ResizeAssumption
      <3> QED
        BY <1>1, <1>3, <2>3, <3>1 DEF Left
    <2>11. Staged(work[p])'
      BY <1>1, <1>3, <1>5, <2>6, <2>8 DEF Staged
    <2>12. Phase(work[p])'
      BY <1>1, <1>3, <2>1, <2>2, <2>4, <2>6, <2>8, <2>10, <2>11 DEF Phase, Left
    <2> QED
      BY <2>7, <2>8, <2>9, <2>12, StepKeeps
  <1> QED
    BY <1>4, <1>5 DEF Alloc

LEMMA AddKeeps ==
  ASSUME IndInv, NEW p \in Procs, Add(p)
  PROVE  IndInv'
  <1> DEFINE m == work[p].mdr
  <1>1. /\ work[p].pc = "add" /\ work[p] # Idle
        /\ UNCHANGED <<mode, dump_addr, broken>>
    BY IdleRecord DEF Add
  <1>2. Alone(p) /\ Phase(work[p]) /\ work[p] \in Works /\ TypeInv /\ RmInv
    BY <1>1, ActiveAlone
  <1>3. /\ dump_addr = NULL /\ Staged(work[p])
        /\ m.buf \in Buffers /\ m.buf # region.buf /\ m.size = work[p].size /\ work[p].size # 0
        /\ DOMAIN cma = ({region.buf} \ {NULL}) \cup {m.buf} /\ cma[m.buf] = work[p].size
        /\ region = NoRegion \/ rm \in {"removing", "left"}
    BY <1>1, <1>2 DEF Phase
  <1>4. m \in Region
    BY <1>2, <1>3, ResizeAssumption DEF Works, NoRegion
  <1> HIDE DEF m
  <1>5. CASE /\ region = NoRegion /\ region' = m
             /\ rm' = IF mode = "rm" THEN "queued" ELSE rm
             /\ Go(p, "publish") /\ UNCHANGED <<cma, dump_size, bootFailed>>
    <2>1. /\ work' \in [Procs -> Works \cup {Idle}] /\ Alone(p)' /\ work'[p] # Idle
          /\ work'[p].pc = "publish" /\ work'[p].stage = work[p].stage
          /\ work'[p].size = work[p].size /\ work'[p].mdr = m
      BY <1>2, <1>5, GoFields DEF m
    <2>2. TypeInv'
      BY <1>1, <1>2, <1>4, <1>5, <2>1 DEF TypeInv
    <2>3. RmInv'
      BY <1>1, <1>2, <1>4, <1>5, IdleRecord DEF RmInv, TypeInv
    <2>4. DOMAIN cma' = {m.buf} /\ cma'[m.buf] = work[p].size
      BY <1>3, <1>5, IdleRecord
    <2>5. Holds(m.buf, work[p].size)'
      BY <2>1, <2>4 DEF Holds, m
    <2>6. region' = [buf |-> m.buf, size |-> work[p].size] /\ rm' \notin {"removing", "left"}
      BY <1>1, <1>2, <1>3, <1>4, <1>5, IdleRecord DEF RmInv, TypeInv
    <2>7. work'[p].stage \in {"first", "resize"} \/ work'[p].size = dump_size'
      BY <1>3, <1>5, <2>1 DEF Staged
    <2>8. Phase(work[p])'
      BY <1>1, <1>3, <2>1, <2>4, <2>6, <2>7 DEF Phase, Holds, Registered
    <2> QED
      BY <2>1, <2>2, <2>3, <2>8, StepKeeps
  <1>6. CASE CmaRelease(m.buf) /\ RegisterFailed(p) /\ UNCHANGED <<region, rm>>
    <2>1. cma' = [c \in DOMAIN cma \ {m.buf} |-> cma[c]]
      BY <1>6 DEF CmaRelease
    <2>2. DOMAIN cma' = {region.buf} \ {NULL}
      BY <1>3, <2>1
    <2>3. Left'
      BY <1>3, <1>6, <2>2 DEF Left
    <2> QED
      BY <1>1, <1>3, <1>6, <2>3, FailedKeeps
  <1> QED
    BY <1>5, <1>6 DEF Add, m

LEMMA PublishKeeps ==
  ASSUME IndInv, NEW p \in Procs, Publish(p)
  PROVE  IndInv'
  <1>1. /\ work[p].pc = "publish" /\ work[p] # Idle /\ dump_addr' = work[p].mdr.buf
        /\ UNCHANGED <<cma, mode, region, rm, dump_size, bootFailed, broken>>
    BY IdleRecord DEF Publish
  <1>2. Alone(p) /\ Phase(work[p]) /\ work[p] \in Works /\ TypeInv /\ RmInv
    BY <1>1, ActiveAlone
  <1>3. /\ work[p].stage \in {"first", "resize"} \/ work[p].size = dump_size
        /\ work[p].mdr.buf \in Buffers /\ work[p].size # 0
        /\ Holds(work[p].mdr.buf, work[p].size) /\ Registered(work[p].mdr.buf, work[p].size)
    BY <1>1, <1>2 DEF Phase
  <1>4. /\ dump_addr' # NULL /\ RmInv'
        /\ DOMAIN cma' = {dump_addr'} /\ cma'[dump_addr'] = work[p].size
        /\ \/ region' = [buf |-> dump_addr', size |-> work[p].size] /\ rm' \notin {"removing", "left"}
           \/ region' = NoRegion /\ mode' = "rm"
    BY <1>1, <1>2, <1>3, ResizeAssumption DEF RmInv, Holds, Registered
  <1>5. CASE Go(p, "setsize")
    <2>1. /\ work' \in [Procs -> Works \cup {Idle}] /\ Alone(p)' /\ work'[p] # Idle
          /\ work'[p].pc = "setsize" /\ work'[p].size = work[p].size
      BY <1>2, <1>5, GoFields
    <2>2. TypeInv'
      BY <1>1, <1>2, <1>3, <2>1 DEF TypeInv
    <2>3. Phase(work[p])'
      BY <1>3, <1>4, <2>1 DEF Phase, Holds, Registered
    <2> QED
      BY <1>4, <2>1, <2>2, <2>3, StepKeeps
  <1>6. CASE work[p].stage \notin {"first", "resize"} /\ Return(p)
    <2>1. /\ work' \in [Procs -> Works \cup {Idle}] /\ Alone(p)' /\ work'[p] = Idle
      BY <1>2, <1>6, ReturnFields
    <2>2. TypeInv'
      BY <1>1, <1>2, <1>3, <2>1 DEF TypeInv
    <2>3. work[p].size = dump_size'
      BY <1>1, <1>2, <1>3, <1>6 DEF Phase
    <2>4. AtRest'
      BY <1>3, <1>4, <2>3 DEF AtRest, Holds, Registered
    <2> QED
      BY <1>4, <2>1, <2>2, <2>4, ReturnKeeps
  <1> QED
    BY <1>5, <1>6 DEF Publish

LEMMA SetSizeKeeps ==
  ASSUME IndInv, NEW p \in Procs, SetSize(p)
  PROVE  IndInv'
  <1>1. /\ work[p].pc = "setsize" /\ work[p] # Idle /\ dump_size' = work[p].size /\ Return(p)
        /\ UNCHANGED <<cma, mode, region, rm, dump_addr, bootFailed, broken>>
    BY IdleRecord DEF SetSize
  <1>2. Alone(p) /\ Phase(work[p]) /\ work[p] \in Works /\ TypeInv /\ RmInv
    BY <1>1, ActiveAlone
  <1>3. /\ dump_addr # NULL /\ work[p].size # 0
        /\ Holds(dump_addr, work[p].size) /\ Registered(dump_addr, work[p].size)
    BY <1>1, <1>2 DEF Phase
  <1>4. /\ work' \in [Procs -> Works \cup {Idle}] /\ Alone(p)' /\ work'[p] = Idle
    BY <1>1, <1>2, ReturnFields
  <1>5. TypeInv' /\ RmInv'
    BY <1>1, <1>2, <1>4 DEF TypeInv, RmInv, Works
  <1>6. AtRest'
    BY <1>1, <1>3 DEF AtRest, Holds, Registered
  <1> QED
    BY <1>4, <1>5, <1>6, ReturnKeeps

(* The works of the resource manager run whenever they like. *)
LEMMA WorksKeep ==
  ASSUME IndInv, AddWork \/ RemoveWork
  PROVE  IndInv'
  <1>1. /\ TypeInv /\ RmInv /\ mode = "rm" /\ region # NoRegion
        /\ UNCHANGED <<cma, mode, dump_addr, dump_size, work, bootFailed, broken>>
    BY DEF IndInv, AddWork, RemoveWork, RmInv, TypeInv
  <1>2. \/ rm = "queued" /\ rm' = "registered" /\ region' = region
        \/ rm = "queued" /\ rm' = "none" /\ region' = NoRegion
        \/ rm = "removing" /\ rm' = "left" /\ region' = region
    BY DEF AddWork, RemoveWork
  <1>3. TypeInv' /\ RmInv'
    BY <1>1, <1>2 DEF TypeInv, RmInv
  <1>4. Left => Left'
    BY <1>1, <1>2 DEF Left
  <1>5. \A b, n : Registered(b, n) =>
          \/ region' = [buf |-> b, size |-> n] /\ rm' \notin {"removing", "left"}
          \/ region' = NoRegion /\ mode' = "rm"
    BY <1>1, <1>2 DEF Registered
  <1>6. AtRest => AtRest'
    <2>1. CASE dump_addr = NULL /\ Left /\ (dump_size = 0 \/ (bootFailed /\ region = NoRegion))
      BY <1>1, <1>4, <2>1 DEF AtRest
    <2>2. CASE /\ dump_addr # NULL /\ dump_size # 0 /\ Holds(dump_addr, dump_size)
               /\ Registered(dump_addr, dump_size)
      BY <1>1, <1>5, <2>2 DEF AtRest, Holds, Registered
    <2> QED
      BY <1>1, <2>1, <2>2 DEF AtRest
  <1>7. ASSUME NEW p \in Procs, Phase(work[p]) PROVE Phase(work[p])'
    <2>1. CASE work[p].pc = "get"
      BY <1>1, <1>6, <1>7, <2>1 DEF Phase
    <2>2. CASE work[p].pc = "remove"
      BY <1>1, <1>2, <1>7, <2>2 DEF Phase, RmInv
    <2>3. CASE work[p].pc = "release"
      BY <1>1, <1>2, <1>7, <2>3 DEF Phase, Holds
    <2>4. CASE work[p].pc \in {"clear", "alloc"}
      BY <1>1, <1>2, <1>4, <1>7, <2>4 DEF Phase, Staged
    <2>5. CASE work[p].pc = "add"
      BY <1>1, <1>2, <1>7, <2>5 DEF Phase, Staged
    <2>6. CASE work[p].pc \in {"publish", "setsize"}
      BY <1>1, <1>5, <1>7, <2>6 DEF Phase, Holds, Registered
    <2> QED
      BY <1>7, <2>1, <2>2, <2>3, <2>4, <2>5, <2>6 DEF Phase
  <1> QED
    BY <1>1, <1>3, <1>6, <1>7 DEF IndInv, Exclusive, AllIdle

-----------------------------------------------------------------------------
LEMMA InitIndInv ==
  ASSUME Init PROVE IndInv
  <1> DEFINE b == [Idle EXCEPT !.pc = "alloc", !.stage = "boot", !.size = BootSize]
  <1>1. b \in Works /\ b.pc = "alloc" /\ b.stage = "boot" /\ b.size = BootSize
    BY DEF Works, Idle
  <1>2. b # Idle
    BY <1>1, IdleRecord
  <1>3. work = [p \in Procs |-> IF p = Boot THEN b ELSE Idle]
    BY DEF Init
  <1> HIDE DEF b
  <1>4. Boot \in Procs
    BY DEF Procs
  <1>5. TypeInv
    BY <1>1, <1>3, ResizeAssumption DEF Init, TypeInv
  <1>6. RmInv /\ Left
    BY IdleRecord DEF Init, RmInv, Left
  <1>7. Phase(b)
    BY <1>1, <1>6, ResizeAssumption DEF Init, Phase, Staged
  <1>8. /\ work[Boot] # Idle /\ \A p \in Procs : work[p] # Idle => p = Boot /\ Phase(work[p])
    BY <1>2, <1>3, <1>4, <1>7
  <1> QED
    BY <1>4, <1>5, <1>6, <1>8 DEF IndInv, Exclusive, AllIdle

LEMMA NextIndInv ==
  ASSUME Locked, SizesFit, IndInv, [Next]_vars
  PROVE  IndInv'
  <1>1. CASE UNCHANGED vars
    <2>1. TypeInv' /\ RmInv' /\ Exclusive'
      BY <1>1 DEF vars, IndInv, TypeInv, RmInv, Exclusive
    <2>2. AtRest => AtRest'
      BY <1>1 DEF vars, AtRest, Left, Holds, Registered
    <2>3. ASSUME NEW p \in Procs, Phase(work[p]) PROVE Phase(work[p])'
      BY <1>1, <2>3 DEF vars, Phase, AtRest, Left, Holds, Registered, Staged
    <2> QED
      BY <1>1, <2>1, <2>2, <2>3 DEF vars, IndInv, AllIdle
  <1>2. ASSUME NEW p \in Procs, Step(p) PROVE IndInv'
    BY <1>2, GetKeeps, RemoveKeeps, RemoveQueuedKeeps, ReleaseKeeps, ClearKeeps, AllocKeeps,
       AddKeeps, PublishKeeps, SetSizeKeeps DEF Step
  <1> QED
    BY <1>1, <1>2, WriteKeeps, WorksKeep DEF Next

LEMMA AlwaysIndInv ==
  ASSUME Locked, SizesFit PROVE Spec => []IndInv
  <1>1. Init => IndInv
    BY InitIndInv
  <1>2. IndInv /\ [Next]_vars => IndInv'
    BY NextIndInv
  <1> QED
    BY <1>1, <1>2, PTL DEF Spec

(* A panic at any moment finds a published buffer of the published size,
   except between cma_release and the store of NULL and between the store of
   the new address and that of the new size (update_dump_size). *)
THEOREM OnlyTwoWindows ==
  ASSUME Locked, SizesFit PROVE Spec => []UnsafeOnlyInWindows
  <1>1. IndInv => UnsafeOnlyInWindows
    <2> SUFFICES ASSUME IndInv, dump_addr # NULL,
                        \A p \in Procs : work[p].pc \notin {"clear", "setsize"}
                 PROVE  dump_addr \in DOMAIN cma /\ dump_size <= cma[dump_addr]
      BY DEF UnsafeOnlyInWindows, DumpStaysInside
    <2>1. Holds(dump_addr, dump_size)
      <3>1. CASE AllIdle
        BY <3>1 DEF IndInv, AtRest
      <3>2. ASSUME NEW p \in Procs, work[p] # Idle PROVE Holds(dump_addr, dump_size)
        BY <3>2 DEF IndInv, Phase, AtRest
      <3> QED
        BY <3>1, <3>2 DEF AllIdle
    <2>2. dump_size \in Nat
      BY ResizeAssumption DEF IndInv, TypeInv
    <2> QED
      BY <2>1, <2>2 DEF Holds
  <1> QED
    BY <1>1, AlwaysIndInv, PTL

(* After every write, whatever failed on the way, the published address and
   size, the region and the buffer are of one kind, or there are none. *)
THEOREM AlwaysConsistentAtRest ==
  ASSUME Locked, SizesFit PROVE Spec => []ConsistentAtRest
  <1>1. IndInv => ConsistentAtRest
    <2> SUFFICES ASSUME IndInv, AllIdle, ~broken PROVE ConsistentAtRest
      BY DEF ConsistentAtRest
    <2>1. AtRest /\ RmInv
      BY DEF IndInv
    <2> QED
      BY <2>1 DEF AtRest, Left, Holds, Registered, RmInv, ConsistentAtRest
  <1> QED
    BY <1>1, AlwaysIndInv, PTL

(* A write leaves no buffer allocated but the published one and the one of the
   region. *)
THEOREM NeverBufferLeak ==
  ASSUME Locked, SizesFit PROVE Spec => []NoBufferLeak
  <1>1. IndInv => NoBufferLeak
    <2> SUFFICES ASSUME IndInv, AllIdle PROVE DOMAIN cma = {dump_addr, region.buf} \ {NULL}
      BY DEF NoBufferLeak
    <2>1. AtRest /\ TypeInv
      BY DEF IndInv
    <2>2. CASE dump_addr = NULL
      BY <2>1, <2>2 DEF AtRest, Left
    <2>3. CASE dump_addr # NULL
      <3>1. DOMAIN cma = {dump_addr} /\ region.buf \in {dump_addr, NULL}
        BY <2>1, <2>3, IdleRecord DEF AtRest, Holds, Registered
      <3> QED
        BY <2>3, <3>1
    <2> QED
      BY <2>2, <2>3
  <1> QED
    BY <1>1, AlwaysIndInv, PTL
=============================================================================
