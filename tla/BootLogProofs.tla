--------------------------- MODULE BootLogProofs ---------------------------
(***************************************************************************)
(* Proofs about BootLog for every size of the log, every counter and any   *)
(* number of probes: the file never shows a buffer that was freed or cut,  *)
(* and the parts fill the buffer without a gap.                            *)
(*                                                                         *)
(* FileBacked is kept by the state of the driver: the file exists in       *)
(* "bound" only, and no step changes the buffer there.  PartsTile needs to *)
(* know that the parts end where the buffer does, also before the first.   *)
(***************************************************************************)
EXTENDS BootLog, TLAPS

Part == [from : Nat, to : Nat, written : Nat]

(* How far the probe has come is how many parts there are. *)
StateInv ==
  /\ parts \in Seq(Part)
  /\ state = "unbound" => parts = <<>> /\ buf_size = 0
  /\ state = "part" => Len(parts) \in 0..2
  /\ state \in {"publish", "bound"} => Len(parts) = 3
  /\ state = "part" /\ Len(parts) = 0 => buf_size = 0
  /\ state \in {"part", "publish", "bound"} /\ Len(parts) > 0 => xbl_buf \in live

(* Only a bound driver has a file, and only a file has readers. *)
FileInv ==
  /\ dbg_file <=> state = "bound"
  /\ reader => dbg_file

IndInv == TypeOK /\ StateInv /\ FileInv /\ FileBacked /\ PartsTile

-----------------------------------------------------------------------------
(* A counter of any length fits its part, NUL included. *)
LEMMA CounterFits ==
  ASSUME NEW digits \in Digits
  PROVE  /\ TzPartSize = 23
         /\ TzText(digits) + 1 \in 1..23
         /\ MinOf(TzText(digits) + 1, TzPartSize) = TzText(digits) + 1
  <1>1. digits \in 1..10
    BY BootLogAssumption
  <1>2. TzPartSize = 23
    BY DEF TzPartSize, TZ_SIZE, TZ_STR_LEN, CHAR_WIDTH
  <1> QED
    BY <1>1, <1>2 DEF TzText, MinOf

LEMMA InitIndInv == Init => IndInv
  <1> SUFFICES ASSUME Init PROVE IndInv
    OBVIOUS
  <1> USE DEF Init
  <1>1. TypeOK
    <2>1. parts = <<>> /\ Len(parts) = 0 /\ DOMAIN parts = {}
      OBVIOUS
    <2>2. dbg_data \in [data : Nat, size : Nat]
      BY DEF NoBlob
    <2>3. /\ state \in {"unbound", "part", "publish", "bound", "oops"}
          /\ binds \in 0..MaxBinds /\ buf_size \in Nat /\ xbl_buf \in Nat
          /\ live \subseteq Nat /\ refs \in Int
      BY BootLogAssumption
    <2>4. dbg_file \in BOOLEAN /\ reader \in BOOLEAN
      OBVIOUS
    <2> HIDE DEF Init
    <2> QED
      BY <2>1, <2>2, <2>3, <2>4 DEF TypeOK
  <1>2. StateInv /\ FileInv /\ FileBacked /\ PartsTile
    BY DEF StateInv, FileInv, FileBacked, PartsTile
  <1> QED
    BY <1>1, <1>2 DEF IndInv

(* What devm frees leaves nothing to be wrong about, once the file is gone. *)
LEMMA ReleaseIndInv ==
  ASSUME IndInv, DevmRelease, dbg_file' = FALSE, reader' = FALSE, refs' \in Int,
         binds' = binds
  PROVE  IndInv'
  <1> USE DEF IndInv, DevmRelease
  <1>1. TypeOK'
    <2>1. Len(parts') = 0 /\ DOMAIN parts' = {}
      OBVIOUS
    <2>2. dbg_data' \in [data : Nat, size : Nat]
      BY DEF NoBlob
    <2>3. /\ state' \in {"unbound", "part", "publish", "bound", "oops"}
          /\ binds' \in 0..MaxBinds /\ buf_size' \in Nat /\ xbl_buf' \in Nat
          /\ live' \subseteq Nat
      BY DEF TypeOK
    <2>4. dbg_file' \in BOOLEAN /\ reader' \in BOOLEAN
      OBVIOUS
    <2> HIDE DEF DevmRelease, IndInv
    <2> QED
      BY <2>1, <2>2, <2>3, <2>4 DEF TypeOK
  <1>2. StateInv' /\ FileInv' /\ FileBacked' /\ PartsTile'
    BY DEF StateInv, FileInv, FileBacked, PartsTile
  <1> QED
    BY <1>1, <1>2

(* A part that is appended, whole or cut by the room it has. *)
LEMMA AppendIndInv ==
  ASSUME IndInv, state = "part", NEW sz \in Nat, NEW text \in 0..sz,
         AppendBufData(sz, text), refs' \in Int,
         Len(parts) > 0 => \E d \in Digits : text = TzText(d) + 1,
         UNCHANGED <<binds, dbg_data, dbg_file, reader>>
  PROVE  IndInv'
  <1> USE DEF IndInv
  <1>1. /\ parts \in Seq(Part) /\ Len(parts) \in 0..2
        /\ buf_size \in Nat /\ binds \in Nat /\ xbl_buf \in Nat
        /\ ~dbg_file /\ ~reader
    BY BootLogAssumption DEF TypeOK, StateInv, FileInv
  <1>2. buf_size' = buf_size + sz /\ buf_size' \in Nat
    BY <1>1 DEF AppendBufData
  <1>3. CASE state' = "oops"
    <2>1. xbl_buf' = 0 /\ parts' = parts /\ live' = live
      BY <1>3 DEF AppendBufData
    <2>2. ASSUME NEW i \in DOMAIN parts'
          PROVE  /\ parts'[i].from <= parts'[i].to /\ parts'[i].to <= buf_size'
                 /\ parts'[i].written <= parts'[i].to - parts'[i].from
      <3>1. i \in DOMAIN parts /\ parts'[i] = parts[i] /\ parts[i] \in Part
        BY <1>1, <2>1
      <3> QED
        BY <3>1, <1>1, <1>2 DEF TypeOK, Part
    <2>3. TypeOK'
      BY <1>1, <1>2, <1>3, <2>1, <2>2 DEF TypeOK
    <2> QED
      BY <1>1, <1>2, <1>3, <2>1, <2>3 DEF StateInv, FileInv, FileBacked, PartsTile
  <1>4. CASE state' # "oops"
    <2> DEFINE p == [from |-> buf_size, to |-> buf_size + sz, written |-> text]
    <2>1. /\ xbl_buf' \in Nat /\ live' = (live \ {xbl_buf}) \cup {xbl_buf'}
          /\ parts' = Append(parts, p)
          /\ state' = IF Len(parts) = 2 THEN "publish" ELSE "part"
      BY <1>1, <1>4 DEF AppendBufData, PartPos
    <2>2. /\ p \in Part
          /\ parts' \in Seq(Part) /\ Len(parts') = Len(parts) + 1
          /\ DOMAIN parts' = 1..Len(parts) + 1
          /\ parts'[Len(parts) + 1] = p
          /\ \A i \in 1..Len(parts) : parts'[i] = parts[i]
      BY <1>1, <2>1 DEF Part
    <2>3. \A i \in DOMAIN parts : parts[i] \in Part
      BY <1>1
    <2>4. TypeOK'
      <3>1. ASSUME NEW i \in DOMAIN parts'
            PROVE  /\ parts'[i].from <= parts'[i].to /\ parts'[i].to <= buf_size'
                   /\ parts'[i].written <= parts'[i].to - parts'[i].from
        <4>1. CASE i = Len(parts) + 1
          BY <4>1, <1>1, <1>2, <2>2
        <4>2. CASE i \in 1..Len(parts)
          <5>1. i \in DOMAIN parts /\ parts'[i] = parts[i] /\ parts[i] \in Part
            BY <4>2, <1>1, <2>2, <2>3
          <5> QED
            BY <5>1, <1>1, <1>2 DEF TypeOK, Part
        <4> QED
          BY <4>1, <4>2, <2>2, <1>1
      <3>2. live' \subseteq Nat /\ Len(parts') <= 3 /\ state' \in {"part", "publish"}
        BY <1>1, <2>1, <2>2 DEF TypeOK
      <3> HIDE DEF p
      <3> QED
        BY <1>1, <1>2, <2>1, <3>1, <3>2 DEF TypeOK
    <2>5. StateInv'
      <3>1. \/ state' = "part" /\ Len(parts') \in 1..2
            \/ state' = "publish" /\ Len(parts') = 3
        <4> HIDE DEF p
        <4>1. CASE Len(parts) = 2
          BY <4>1, <2>1, <2>2
        <4>2. CASE Len(parts) \in 0..1
          BY <4>2, <2>1, <2>2
        <4> QED
          BY <1>1, <4>1, <4>2
      <3> QED
        BY <3>1, <2>1, <2>2 DEF StateInv
    <2>6. FileInv' /\ FileBacked'
      BY <1>1, <1>4, <2>1 DEF FileInv, FileBacked
    <2>7. PartsTile'
      <3>1. buf_size = (IF Len(parts) = 0 THEN 0 ELSE parts[Len(parts)].to)
        BY <1>1 DEF StateInv, PartsTile
      <3> SUFFICES ASSUME NEW i \in DOMAIN parts'
                   PROVE  /\ parts'[i].from = (IF i = 1 THEN 0 ELSE parts'[i - 1].to)
                          /\ i = Len(parts') => parts'[i].to = buf_size'
                          /\ i # 1 => \E d \in Digits : parts'[i].written = TzText(d) + 1
        BY DEF PartsTile
      <3>2. CASE i = Len(parts) + 1
        <4>1. i # 1 => i - 1 = Len(parts) /\ parts'[i - 1] = parts[Len(parts)]
          BY <3>2, <1>1, <2>2
        <4> QED
          BY <3>1, <3>2, <4>1, <1>1, <1>2, <2>2
      <3>3. CASE i \in 1..Len(parts)
        <4>1. i # 1 => i - 1 \in 1..Len(parts)
          BY <3>3, <1>1
        <4>2. /\ parts[i].from = (IF i = 1 THEN 0 ELSE parts[i - 1].to)
              /\ i # 1 => \E d \in Digits : parts[i].written = TzText(d) + 1
          BY <3>3, <1>1 DEF PartsTile
        <4> QED
          BY <3>3, <4>1, <4>2, <1>1, <2>2
      <3> QED
        BY <3>2, <3>3, <2>2, <1>1
    <2> QED
      BY <2>4, <2>5, <2>6, <2>7
  <1> QED
    BY <1>3, <1>4

LEMMA NextIndInv == IndInv /\ [Next]_vars => IndInv'
  <1> SUFFICES ASSUME IndInv, [Next]_vars PROVE IndInv'
    OBVIOUS
  <1> USE DEF IndInv
  <1>0. refs \in Int /\ binds \in Nat /\ reader \in BOOLEAN /\ dbg_file \in BOOLEAN
    BY BootLogAssumption DEF TypeOK
  <1>1. CASE Probe
    <2>1. TypeOK'
      BY <1>0, <1>1, BootLogAssumption DEF Probe, TypeOK
    <2> QED
      BY <1>0, <1>1, <2>1 DEF Probe, StateInv, FileInv, FileBacked, PartsTile
  <1>2. CASE PartFails
    <2>1. dbg_file' = FALSE /\ reader' = FALSE /\ refs' \in Int /\ binds' = binds
      BY <1>0, <1>2 DEF PartFails, FileInv
    <2> QED
      BY <1>2, <2>1, ReleaseIndInv DEF PartFails
  <1>3. ASSUME NEW size \in UefiSizes, UefiPart(size) PROVE IndInv'
    <2>1. /\ size \in Nat /\ size > 0 /\ state = "part" /\ Len(parts) = 0
          /\ refs' \in Int /\ UNCHANGED <<binds, dbg_data, dbg_file, reader>>
      BY <1>0, <1>3, BootLogAssumption DEF UefiPart
    <2>2. CASE AppendBufData(size - 1, size - 1)
      <3>1. size - 1 \in Nat /\ size - 1 \in 0..size - 1
        BY <2>1
      <3> QED
        BY <2>1, <2>2, <3>1, AppendIndInv
    <2>3. CASE state' = "oops" /\ UNCHANGED <<parts, buf_size, xbl_buf, live>>
      <3>1. TypeOK'
        BY <2>1, <2>3 DEF TypeOK
      <3> QED
        BY <2>1, <2>3, <3>1 DEF StateInv, FileInv, FileBacked, PartsTile
    <2> QED
      BY <1>3, <2>2, <2>3 DEF UefiPart
  <1>4. ASSUME NEW digits \in Digits, TzPart(digits) PROVE IndInv'
    <2>1. /\ state = "part" /\ Len(parts) > 0 /\ refs' \in Int
          /\ UNCHANGED <<binds, dbg_data, dbg_file, reader>>
      BY <1>0, <1>4 DEF TzPart
    <2>2. /\ TzPartSize \in Nat /\ TzText(digits) + 1 \in 0..TzPartSize
          /\ AppendBufData(TzPartSize, TzText(digits) + 1)
      BY <1>4, CounterFits DEF TzPart
    <2> QED
      BY <2>1, <2>2, AppendIndInv
  <1>5. CASE Publish
    <2>1. state = "publish" /\ ~dbg_file /\ ~reader /\ refs' \in Int /\ xbl_buf \in live
      BY <1>0, <1>5 DEF Publish, FileInv, StateInv
    <2>2. CASE state' = "bound"
      <3>1. /\ dbg_data' = [data |-> xbl_buf, size |-> buf_size] /\ dbg_file' = TRUE
            /\ UNCHANGED <<parts, buf_size, xbl_buf, live, binds, reader>>
        BY <1>5, <2>2 DEF Publish, DevmRelease
      <3>2. TypeOK'
        BY <2>1, <2>2, <3>1 DEF TypeOK
      <3> QED
        BY <2>1, <2>2, <3>1, <3>2 DEF StateInv, FileInv, FileBacked, PartsTile
    <2>3. CASE state' # "bound"
      <3>1. DevmRelease /\ dbg_file' = dbg_file /\ reader' = reader /\ binds' = binds
        BY <1>5, <2>3 DEF Publish
      <3>2. dbg_file' = FALSE /\ reader' = FALSE
        BY <1>0, <2>1, <3>1
      <3> QED
        BY <2>1, <3>1, <3>2, ReleaseIndInv
    <2> QED
      BY <2>2, <2>3
  <1>6. CASE Read
    <2>1. TypeOK'
      BY <1>6 DEF Read, TypeOK
    <2> QED
      BY <1>6, <2>1 DEF Read, StateInv, FileInv, FileBacked, PartsTile
  <1>7. CASE Remove
    BY <1>0, <1>7, ReleaseIndInv DEF Remove, RemoveFile
  <1>8. CASE UNCHANGED vars
    <2>1. TypeOK'
      BY <1>8 DEF vars, TypeOK
    <2> QED
      BY <1>8, <2>1 DEF vars, StateInv, FileInv, FileBacked, PartsTile
  <1> QED
    BY <1>1, <1>2, <1>3, <1>4, <1>5, <1>6, <1>7, <1>8 DEF Next

LEMMA Invariance == Spec => []IndInv
  BY InitIndInv, NextIndInv, PTL DEF Spec

(* The file of xbl_log_probe, while it exists or is being read, shows the
   last buffer devm_krealloc returned, all of it, and that is not freed. *)
THEOREM FileAlwaysBacked == Spec => []FileBacked
  <1>1. IndInv => FileBacked
    BY DEF IndInv
  <1> QED
    BY <1>1, Invariance, PTL

(* append_buf_data places the parts one behind the other up to the end of the
   buffer, and every counter is in it whole. *)
THEOREM PartsAlwaysTile == Spec => []PartsTile
  <1>1. IndInv => PartsTile
    BY DEF IndInv
  <1> QED
    BY <1>1, Invariance, PTL
=============================================================================
