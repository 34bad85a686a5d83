-------------------------- MODULE PanicDumpProofs --------------------------
(***************************************************************************)
(* Proofs about PanicDump for any number of CPUs, any number of faults and *)
(* any room for the contexts: the buffers belong to the handlers, the body *)
(* of the dump is entered once, a flag that is set belongs to a writer or  *)
(* was left by a task killed inside the dump, and, unless two CPUs raced   *)
(* between test and set, there is one writer.                              *)
(*                                                                         *)
(* Frames move down and up their stacks as others are put on top of them   *)
(* or return.  The proofs therefore do not follow single frames: they use  *)
(* whether no frame is in some set of places (None) and whether at most    *)
(* one is (Single), and what putting frames on a stack and taking one off  *)
(* does to these two.                                                      *)
(***************************************************************************)
EXTENDS PanicDump, FiniteSetTheorems, TLAPS

Stacks == [CPUs -> Seq(Places)]

(* No frame of CPU c, and no frame at all, is in one of the places P. *)
NoneOf(s, c, P) == \A i \in DOMAIN s[c] : s[c][i] \notin P
None(s, P)      == \A c \in CPUs : NoneOf(s, c, P)

(* At most one frame of s is. *)
Single(s, P) ==
  \A c, d \in CPUs : \A i \in DOMAIN s[c], j \in DOMAIN s[d] :
    s[c][i] \in P /\ s[d][j] \in P => c = d /\ i = j

PopOf(s, c)       == [s EXCEPT ![c] = Tail(@)]
PushOf(s, c, new) == [s EXCEPT ![c] = new \o @]

-----------------------------------------------------------------------------
(* What is left when the frame on top returns. *)
LEMMA PopFrames ==
  ASSUME NEW s \in Stacks, NEW c \in CPUs, s[c] # <<>>
  PROVE  /\ PopOf(s, c) \in Stacks
         /\ \A d \in CPUs : d # c => PopOf(s, c)[d] = s[d]
         /\ \A i \in DOMAIN PopOf(s, c)[c] :
              i \in Nat /\ i + 1 \in DOMAIN s[c] /\ PopOf(s, c)[c][i] = s[c][i + 1]
         /\ \A i \in DOMAIN s[c] :
              i # 1 => i - 1 \in DOMAIN PopOf(s, c)[c] /\ PopOf(s, c)[c][i - 1] = s[c][i]
         /\ 1 \in DOMAIN s[c] /\ Head(s[c]) = s[c][1]
  <1> DEFINE t == PopOf(s, c)
             q == s[c]
  <1>1. q \in Seq(Places) /\ q # <<>>
    BY DEF Stacks
  <1>2. t = [s EXCEPT ![c] = Tail(q)] /\ t[c] = Tail(q)
    BY DEF PopOf, Stacks
  <1>3. /\ Tail(q) \in Seq(Places) /\ Len(Tail(q)) = Len(q) - 1 /\ Len(q) \in Nat
        /\ DOMAIN Tail(q) = 1..Len(q) - 1 /\ DOMAIN q = 1..Len(q) /\ Len(q) > 0
        /\ \A i \in 1..Len(q) - 1 : Tail(q)[i] = q[i + 1]
        /\ Head(q) = q[1]
    <2> HIDE DEF q
    <2> QED
      BY <1>1
  <1>4. t \in Stacks /\ \A d \in CPUs : d # c => t[d] = s[d]
    <2> DEFINE tl == Tail(q)
    <2>1. tl \in Seq(Places) /\ t = [s EXCEPT ![c] = tl]
      BY <1>2, <1>3
    <2> HIDE DEF tl, t
    <2> QED
      BY <2>1 DEF Stacks
  <1>5. \A i \in DOMAIN t[c] : i \in Nat /\ i + 1 \in DOMAIN q /\ t[c][i] = q[i + 1]
    <2> HIDE DEF t, q
    <2>1. DOMAIN t[c] = 1..Len(q) - 1 /\ \A i \in 1..Len(q) - 1 : t[c][i] = q[i + 1]
      BY <1>2, <1>3
    <2>2. \A i \in 1..Len(q) - 1 : i \in Nat /\ i + 1 \in DOMAIN q
      BY <1>3
    <2> QED
      BY <2>1, <2>2
  <1>6. \A i \in DOMAIN q : i # 1 => i - 1 \in DOMAIN t[c] /\ t[c][i - 1] = q[i]
    <2> SUFFICES ASSUME NEW i \in DOMAIN q, i # 1
                 PROVE  i - 1 \in DOMAIN t[c] /\ t[c][i - 1] = q[i]
      OBVIOUS
    <2>1. i - 1 \in 1..Len(q) - 1 /\ (i - 1) + 1 = i
      BY <1>3
    <2> QED
      BY <2>1, <1>2, <1>3
  <1>7. 1 \in DOMAIN q
    BY <1>3
  <1> HIDE DEF t
  <1> QED
    BY <1>3, <1>4, <1>5, <1>6, <1>7 DEF t

(* What is there when frames are put on top. *)
LEMMA PushFrames ==
  ASSUME NEW s \in Stacks, NEW c \in CPUs, NEW new \in Seq(Places)
  PROVE  /\ PushOf(s, c, new) \in Stacks
         /\ \A d \in CPUs : d # c => PushOf(s, c, new)[d] = s[d]
         /\ \A i \in DOMAIN PushOf(s, c, new)[c] :
              \/ i \in DOMAIN new /\ PushOf(s, c, new)[c][i] = new[i]
              \/ i - Len(new) \in DOMAIN s[c] /\ PushOf(s, c, new)[c][i] = s[c][i - Len(new)]
         /\ \A i \in DOMAIN s[c] :
              /\ i + Len(new) \in DOMAIN PushOf(s, c, new)[c]
              /\ PushOf(s, c, new)[c][i + Len(new)] = s[c][i]
         /\ \A i \in DOMAIN new :
              /\ i \in DOMAIN PushOf(s, c, new)[c]
              /\ PushOf(s, c, new)[c][i] = new[i]
  <1> DEFINE t == PushOf(s, c, new)
             q == s[c]
             k == Len(new)
  <1>1. q \in Seq(Places)
    BY DEF Stacks
  <1>2. t = [s EXCEPT ![c] = new \o q] /\ t[c] = new \o q
    BY DEF PushOf, Stacks
  <1>3. /\ new \o q \in Seq(Places) /\ Len(q) \in Nat /\ k \in Nat
        /\ DOMAIN (new \o q) = 1..k + Len(q) /\ DOMAIN q = 1..Len(q) /\ DOMAIN new = 1..k
        /\ \A i \in 1..k + Len(q) : (new \o q)[i] = IF i <= k THEN new[i] ELSE q[i - k]
    <2> HIDE DEF q
    <2> QED
      BY <1>1
  <1>4. t \in Stacks /\ \A d \in CPUs : d # c => t[d] = s[d]
    BY <1>2, <1>3 DEF Stacks
  <1> HIDE DEF t, q, k
  <1>5. ASSUME NEW i \in DOMAIN t[c]
        PROVE  \/ i \in DOMAIN new /\ t[c][i] = new[i]
               \/ i - k \in DOMAIN q /\ t[c][i] = q[i - k]
    BY <1>2, <1>3
  <1>6. ASSUME NEW i \in DOMAIN q
        PROVE  i + k \in DOMAIN t[c] /\ t[c][i + k] = q[i]
    <2>1. i + k \in 1..k + Len(q) /\ ~(i + k <= k) /\ (i + k) - k = i
      BY <1>3
    <2> QED
      BY <2>1, <1>2, <1>3
  <1>7. ASSUME NEW i \in DOMAIN new
        PROVE  i \in DOMAIN t[c] /\ t[c][i] = new[i]
    BY <1>2, <1>3
  <1> QED
    BY <1>4, <1>5, <1>6, <1>7 DEF t, q, k

(* A return takes at most the frame on top out of P. *)
LEMMA PopCounts ==
  ASSUME NEW s \in Stacks, NEW c \in CPUs, s[c] # <<>>, NEW P
  PROVE  /\ None(s, P) => None(PopOf(s, c), P)
         /\ Single(s, P) => Single(PopOf(s, c), P)
         /\ Head(s[c]) \notin P /\ None(PopOf(s, c), P) => None(s, P)
         /\ Head(s[c]) \in P /\ Single(s, P) => None(PopOf(s, c), P)
         /\ \A d \in CPUs : NoneOf(s, d, P) => NoneOf(PopOf(s, c), d, P)
         /\ \A d \in CPUs :
              (d # c \/ Head(s[c]) \notin P) /\ NoneOf(PopOf(s, c), d, P) => NoneOf(s, d, P)
  <1> DEFINE t == PopOf(s, c)
  <1>1. /\ t \in Stacks
        /\ \A d \in CPUs : d # c => t[d] = s[d]
        /\ \A i \in DOMAIN t[c] : i \in Nat /\ i + 1 \in DOMAIN s[c] /\ t[c][i] = s[c][i + 1]
        /\ \A i \in DOMAIN s[c] : i # 1 => i - 1 \in DOMAIN t[c] /\ t[c][i - 1] = s[c][i]
        /\ 1 \in DOMAIN s[c] /\ Head(s[c]) = s[c][1]
    BY PopFrames
  <1> HIDE DEF t
  <1>2. ASSUME NEW d \in CPUs, NoneOf(s, d, P) PROVE NoneOf(t, d, P)
    BY <1>1, <1>2 DEF NoneOf
  <1>3. ASSUME Single(s, P) PROVE Single(t, P)
    <2> SUFFICES ASSUME NEW a \in CPUs, NEW b \in CPUs, NEW i \in DOMAIN t[a],
                        NEW j \in DOMAIN t[b], t[a][i] \in P, t[b][j] \in P
                 PROVE  a = b /\ i = j
      BY DEF Single
    <2>1. CASE a = c /\ b = c
      <3>1. i + 1 = j + 1 /\ i \in Nat /\ j \in Nat
        BY <1>1, <1>3, <2>1 DEF Single
      <3> QED
        BY <3>1, <2>1
    <2>2. CASE a # c /\ b # c
      BY <1>1, <1>3, <2>2 DEF Single
    <2>3. CASE a = c /\ b # c
      BY <1>1, <1>3, <2>3 DEF Single
    <2>4. CASE a # c /\ b = c
      BY <1>1, <1>3, <2>4 DEF Single
    <2> QED
      BY <2>1, <2>2, <2>3, <2>4
  <1>4. ASSUME NEW d \in CPUs, d # c \/ Head(s[c]) \notin P, NoneOf(t, d, P)
        PROVE  NoneOf(s, d, P)
    <2> SUFFICES ASSUME NEW i \in DOMAIN s[d] PROVE s[d][i] \notin P
      BY DEF NoneOf
    <2>1. CASE d # c
      BY <1>1, <1>4, <2>1 DEF NoneOf
    <2>2. CASE d = c /\ i = 1
      BY <1>1, <1>4, <2>2
    <2>3. CASE d = c /\ i # 1
      BY <1>1, <1>4, <2>3 DEF NoneOf
    <2> QED
      BY <2>1, <2>2, <2>3
  <1>5. ASSUME Head(s[c]) \in P, Single(s, P) PROVE None(t, P)
    <2> SUFFICES ASSUME NEW d \in CPUs, NEW i \in DOMAIN t[d], t[d][i] \in P PROVE FALSE
      BY DEF None, NoneOf
    <2>1. CASE d # c
      BY <1>1, <1>5, <2>1 DEF Single
    <2>2. CASE d = c
      <3>1. i + 1 = 1 /\ i \in Nat /\ i \in DOMAIN t[c]
        BY <1>1, <1>5, <2>2 DEF Single
      <3>2. DOMAIN t[c] = 1..Len(t[c]) /\ Len(t[c]) \in Nat
        BY <1>1 DEF Stacks
      <3> QED
        BY <3>1, <3>2
    <2> QED
      BY <2>1, <2>2
  <1> QED
    BY <1>2, <1>3, <1>4, <1>5 DEF t, None

(* Frames outside P put on top change nothing about P, and a single one leaves
   at most one there if there was none. *)
LEMMA PushCounts ==
  ASSUME NEW s \in Stacks, NEW c \in CPUs, NEW new \in Seq(Places), NEW P
  PROVE  /\ (\A i \in DOMAIN new : new[i] \notin P)
              => /\ None(s, P) => None(PushOf(s, c, new), P)
                 /\ Single(s, P) => Single(PushOf(s, c, new), P)
                 /\ NoneOf(s, c, P) => NoneOf(PushOf(s, c, new), c, P)
         /\ \A d \in CPUs : NoneOf(PushOf(s, c, new), d, P) => NoneOf(s, d, P)
         /\ \A d \in CPUs : d # c /\ NoneOf(s, d, P) => NoneOf(PushOf(s, c, new), d, P)
         /\ \A i \in DOMAIN new : new[i] \in P => ~NoneOf(PushOf(s, c, new), c, P)
         /\ Len(new) = 1 /\ None(s, P) => Single(PushOf(s, c, new), P)
  <1> DEFINE t == PushOf(s, c, new)
             k == Len(new)
  <1>1. /\ t \in Stacks
        /\ \A d \in CPUs : d # c => t[d] = s[d]
        /\ \A i \in DOMAIN t[c] : \/ i \in DOMAIN new /\ t[c][i] = new[i]
                                  \/ i - k \in DOMAIN s[c] /\ t[c][i] = s[c][i - k]
        /\ \A i \in DOMAIN s[c] : i + k \in DOMAIN t[c] /\ t[c][i + k] = s[c][i]
        /\ \A i \in DOMAIN new : i \in DOMAIN t[c] /\ t[c][i] = new[i]
    BY PushFrames
  <1>2. k \in Nat /\ DOMAIN new = 1..k
    OBVIOUS
  <1>3. \A d \in CPUs : \A i \in DOMAIN t[d] : i \in Nat
    BY <1>1 DEF Stacks
  <1> HIDE DEF t, k
  <1>4. ASSUME NEW d \in CPUs, d # c \/ \A i \in DOMAIN new : new[i] \notin P, NoneOf(s, d, P)
        PROVE  NoneOf(t, d, P)
    BY <1>1, <1>4 DEF NoneOf
  <1>5. ASSUME \A i \in DOMAIN new : new[i] \notin P, Single(s, P) PROVE Single(t, P)
    <2> SUFFICES ASSUME NEW a \in CPUs, NEW b \in CPUs, NEW i \in DOMAIN t[a],
                        NEW j \in DOMAIN t[b], t[a][i] \in P, t[b][j] \in P
                 PROVE  a = b /\ i = j
      BY DEF Single
    <2>1. CASE a = c /\ b = c
      <3>1. i - k = j - k /\ i \in Nat /\ j \in Nat
        BY <1>1, <1>3, <1>5, <2>1 DEF Single
      <3> QED
        BY <3>1, <1>2, <2>1
    <2>2. CASE a # c /\ b # c
      BY <1>1, <1>5, <2>2 DEF Single
    <2>3. CASE a = c /\ b # c
      BY <1>1, <1>5, <2>3 DEF Single
    <2>4. CASE a # c /\ b = c
      BY <1>1, <1>5, <2>4 DEF Single
    <2> QED
      BY <2>1, <2>2, <2>3, <2>4
  <1>6. ASSUME NEW d \in CPUs, NoneOf(t, d, P)
        PROVE  NoneOf(s, d, P) /\ (d = c => \A i \in DOMAIN new : new[i] \notin P)
    BY <1>1, <1>6 DEF NoneOf
  <1>7. ASSUME k = 1, None(s, P) PROVE Single(t, P)
    <2> SUFFICES ASSUME NEW a \in CPUs, NEW b \in CPUs, NEW i \in DOMAIN t[a],
                        NEW j \in DOMAIN t[b], t[a][i] \in P, t[b][j] \in P
                 PROVE  a = b /\ i = j
      BY DEF Single
    <2>1. a = c /\ b = c
      BY <1>1, <1>7 DEF None, NoneOf
    <2>2. i \in DOMAIN new /\ j \in DOMAIN new
      BY <1>1, <1>7, <2>1 DEF None, NoneOf
    <2> QED
      BY <1>2, <1>7, <2>1, <2>2
  <1> QED
    BY <1>4, <1>5, <1>6, <1>7 DEF t, k, None

-----------------------------------------------------------------------------
(* A step that moves no frame into or out of P. *)
Neutral(P) ==
  /\ None(stack, P) <=> None(stack', P)
  /\ Single(stack, P) => Single(stack', P)
  /\ \A d \in CPUs : NoneOf(stack, d, P) <=> NoneOf(stack', d, P)

(* Places a fault or a call goes through that neither hold the flag nor are
   about to set it. *)
Outside == {"die_test", "died", "test", "panicked"}

(* A function of the handlers goes on from p to q. *)
LEMMA GotoCounts ==
  ASSUME stack \in Stacks, NEW c \in CPUs, NEW p, NEW q \in Places, At(c, p), Goto(c, q), NEW P
  PROVE  /\ stack' \in Stacks
         /\ p \notin P /\ q \notin P => Neutral(P)
         /\ p \in P /\ Single(stack, P) => Single(stack', P)
         /\ q \in P => ~None(stack', P) /\ ~NoneOf(stack', c, P)
         /\ q \in P /\ None(stack, P) => Single(stack', P)
         /\ q \notin P => /\ None(stack, P) => None(stack', P)
                          /\ Single(stack, P) => Single(stack', P)
                          /\ p \in P /\ Single(stack, P) => None(stack', P)
         /\ \A d \in CPUs \ {c} : NoneOf(stack, d, P) <=> NoneOf(stack', d, P)
  <1> DEFINE u == PopOf(stack, c)
             t == PushOf(u, c, <<q>>)
  <1>1. stack[c] # <<>> /\ Head(stack[c]) = p
    BY DEF At
  <1>2. u \in Stacks
    BY <1>1, PopFrames
  <1>3. <<q>> \in Seq(Places) /\ Len(<<q>>) = 1 /\ DOMAIN <<q>> = {1} /\ <<q>>[1] = q
    OBVIOUS
  <1>4. t \in Stacks
    BY <1>2, <1>3, PushFrames
  <1>5. stack' = t
    BY <1>2 DEF Goto, PopOf, PushOf, Stacks
  <1>6. /\ None(stack, P) => None(u, P)
        /\ Single(stack, P) => Single(u, P)
        /\ p \notin P /\ None(u, P) => None(stack, P)
        /\ p \in P /\ Single(stack, P) => None(u, P)
        /\ \A d \in CPUs : NoneOf(stack, d, P) => NoneOf(u, d, P)
        /\ \A d \in CPUs : (d # c \/ p \notin P) /\ NoneOf(u, d, P) => NoneOf(stack, d, P)
    BY <1>1, PopCounts
  <1> HIDE DEF u, t
  <1>7. /\ (\A i \in DOMAIN <<q>> : <<q>>[i] \notin P)
              => /\ None(u, P) => None(PushOf(u, c, <<q>>), P)
                 /\ Single(u, P) => Single(PushOf(u, c, <<q>>), P)
                 /\ NoneOf(u, c, P) => NoneOf(PushOf(u, c, <<q>>), c, P)
        /\ \A d \in CPUs : NoneOf(PushOf(u, c, <<q>>), d, P) => NoneOf(u, d, P)
        /\ \A d \in CPUs : d # c /\ NoneOf(u, d, P) => NoneOf(PushOf(u, c, <<q>>), d, P)
        /\ \A i \in DOMAIN <<q>> : <<q>>[i] \in P => ~NoneOf(PushOf(u, c, <<q>>), c, P)
        /\ Len(<<q>>) = 1 /\ None(u, P) => Single(PushOf(u, c, <<q>>), P)
    BY <1>2, <1>3, PushCounts
  <1>8. /\ q \notin P => /\ None(u, P) => None(t, P)
                         /\ Single(u, P) => Single(t, P)
                         /\ NoneOf(u, c, P) => NoneOf(t, c, P)
        /\ \A d \in CPUs : NoneOf(t, d, P) => NoneOf(u, d, P)
        /\ \A d \in CPUs : d # c /\ NoneOf(u, d, P) => NoneOf(t, d, P)
        /\ q \in P => ~NoneOf(t, c, P)
        /\ None(u, P) => Single(t, P)
    BY <1>3, <1>7 DEF t
  <1>9. p \notin P /\ q \notin P => Neutral(P)
    BY <1>5, <1>6, <1>8 DEF Neutral, None
  <1>10. q \in P => ~None(t, P)
    BY <1>8 DEF None
  <1> QED
    BY <1>4, <1>5, <1>6, <1>8, <1>9, <1>10 DEF None

(* A function of the handlers returns from p. *)
LEMMA ReturnCounts ==
  ASSUME stack \in Stacks, NEW c \in CPUs, NEW p, At(c, p), Return(c), NEW P
  PROVE  /\ stack' \in Stacks
         /\ p \notin P => Neutral(P)
         /\ None(stack, P) => None(stack', P)
         /\ Single(stack, P) => Single(stack', P)
         /\ p \in P /\ Single(stack, P) => None(stack', P)
         /\ \A d \in CPUs : NoneOf(stack, d, P) => NoneOf(stack', d, P)
  <1>1. stack[c] # <<>> /\ Head(stack[c]) = p /\ stack' = PopOf(stack, c)
    BY DEF At, Return, PopOf
  <1>2. stack' \in Stacks
    BY <1>1, PopFrames
  <1>3. /\ None(stack, P) => None(PopOf(stack, c), P)
        /\ Single(stack, P) => Single(PopOf(stack, c), P)
        /\ p \in P /\ Single(stack, P) => None(PopOf(stack, c), P)
        /\ \A d \in CPUs : NoneOf(stack, d, P) => NoneOf(PopOf(stack, c), d, P)
        /\ \A d \in CPUs : p \notin P /\ NoneOf(PopOf(stack, c), d, P) => NoneOf(stack, d, P)
    BY <1>1, PopCounts
  <1>4. p \notin P => Neutral(P)
    BY <1>1, <1>3 DEF Neutral, None
  <1> QED
    BY <1>1, <1>2, <1>3, <1>4

(* Frames outside P are put on the stack of c. *)
LEMMA CallCounts ==
  ASSUME stack \in Stacks, NEW c \in CPUs, NEW new \in Seq(Places), Call(c, new), NEW P,
         \A i \in DOMAIN new : new[i] \notin P
  PROVE  stack' \in Stacks /\ Neutral(P)
  <1>1. stack' = PushOf(stack, c, new)
    BY DEF Call, PushOf
  <1>2. stack' \in Stacks
    BY <1>1, PushFrames
  <1>3. /\ None(stack, P) => None(PushOf(stack, c, new), P)
        /\ Single(stack, P) => Single(PushOf(stack, c, new), P)
        /\ NoneOf(stack, c, P) => NoneOf(PushOf(stack, c, new), c, P)
        /\ \A d \in CPUs : NoneOf(PushOf(stack, c, new), d, P) => NoneOf(stack, d, P)
        /\ \A d \in CPUs : d # c /\ NoneOf(stack, d, P) => NoneOf(PushOf(stack, c, new), d, P)
    BY PushCounts
  <1> QED
    BY <1>1, <1>2, <1>3 DEF Neutral, None

LEMMA UnchangedNeutral ==
  ASSUME UNCHANGED stack, NEW P
  PROVE  Neutral(P)
  BY DEF Neutral, None, NoneOf, Single

(* A task is killed: its CPU has no frames any more, the others have theirs. *)
LEMMA ClearCounts ==
  ASSUME stack \in Stacks, NEW c \in CPUs, stack' = [stack EXCEPT ![c] = <<>>], NEW P
  PROVE  /\ stack' \in Stacks
         /\ None(stack, P) => None(stack', P)
         /\ Single(stack, P) => Single(stack', P)
         /\ ~NoneOf(stack, c, P) /\ Single(stack, P) => None(stack', P)
         /\ NoneOf(stack, c, P) => Neutral(P)
         /\ NoneOf(stack', c, P)
         /\ \A d \in CPUs \ {c} : stack'[d] = stack[d]
         /\ \A d \in CPUs : NoneOf(stack, d, P) => NoneOf(stack', d, P)
  <1>1. stack' \in Stacks /\ DOMAIN stack'[c] = {} /\ \A d \in CPUs \ {c} : stack'[d] = stack[d]
    BY DEF Stacks
  <1>2. NoneOf(stack', c, P)
    BY <1>1 DEF NoneOf
  <1>3. \A d \in CPUs \ {c} : NoneOf(stack, d, P) <=> NoneOf(stack', d, P)
    BY <1>1 DEF NoneOf
  <1>4. Single(stack, P) => Single(stack', P)
    BY <1>1 DEF Single
  <1>5. ~NoneOf(stack, c, P) /\ Single(stack, P) => None(stack', P)
    <2> SUFFICES ASSUME ~NoneOf(stack, c, P), Single(stack, P), NEW d \in CPUs \ {c}
                 PROVE  NoneOf(stack, d, P)
      BY <1>2, <1>3 DEF None
    <2> QED
      BY DEF NoneOf, Single
  <1> QED
    BY <1>1, <1>2, <1>3, <1>4, <1>5 DEF None, Neutral

(* What the kernel puts on a stack is outside the handlers' own places. *)
LEMMA KernelNeutral ==
  ASSUME stack \in Stacks, NEW c \in CPUs, Kernel(c), ~Killed(c), NEW P, P \cap Outside = {}
  PROVE  stack' \in Stacks /\ Neutral(P)
  <1>1. Outside \subseteq Places /\ "die_test" \notin P /\ "died" \notin P /\ "test" \notin P
        /\ "panicked" \notin P
    BY DEF Outside, Places
  <1> DEFINE Pushed == {<<"die_test", "died">>, <<"died">>, <<"test", "panicked">>,
                        <<"panicked">>, <<"test">>}
  <1>2. ASSUME NEW new \in Pushed
        PROVE  new \in Seq(Places) /\ \A i \in DOMAIN new : new[i] \notin P
    <2>1. "die_test" \in Places /\ "died" \in Places /\ "test" \in Places /\ "panicked" \in Places
      BY <1>1 DEF Outside
    <2>2. CASE new = <<"die_test", "died">>
      BY <2>1, <2>2, <1>1
    <2>3. CASE new = <<"died">>
      BY <2>1, <2>3, <1>1
    <2>4. CASE new = <<"test", "panicked">>
      BY <2>1, <2>4, <1>1
    <2>5. CASE new = <<"panicked">>
      BY <2>1, <2>5, <1>1
    <2>6. CASE new = <<"test">>
      BY <2>1, <2>6, <1>1
    <2> QED
      BY <2>2, <2>3, <2>4, <2>5, <2>6
  <1>3. ASSUME NEW new \in Pushed, Call(c, new) PROVE stack' \in Stacks /\ Neutral(P)
    BY <1>2, <1>3, CallCounts
  <1>4. CASE Oops(c)
    <2>1. PICK new \in Pushed : Call(c, new)
      BY <1>4 DEF Oops
    <2> QED
      BY <2>1, <1>3
  <1>5. CASE Panic(c)
    <2>1. PICK new \in Pushed : Call(c, new)
      BY <1>5 DEF Panic
    <2> QED
      BY <2>1, <1>3
  <1>6. CASE CallDump(c)
    <2>1. PICK new \in Pushed : Call(c, new)
      BY <1>6 DEF CallDump
    <2> QED
      BY <2>1, <1>3
  <1>7. CASE Died(c)
    <2>1. At(c, "died") /\ stack[c] # <<>> /\ Head(stack[c]) = "died"
      BY <1>7 DEF Died, At
    <2>3. CASE UNCHANGED stack
      BY <2>3, UnchangedNeutral
    <2>4. ASSUME NEW new \in Pushed, stack' = [stack EXCEPT ![c] = new \o Tail(@)]
          PROVE  stack' \in Stacks /\ Neutral(P)
      <3> DEFINE u == PopOf(stack, c)
      <3>1. u \in Stacks
        BY <2>1, PopFrames
      <3>2. stack' = PushOf(u, c, new)
        BY <2>4, <3>1 DEF PopOf, PushOf, Stacks
      <3>3. /\ None(stack, P) => None(u, P)
            /\ Single(stack, P) => Single(u, P)
            /\ \A d \in CPUs : NoneOf(stack, d, P) <=> NoneOf(u, d, P)
        BY <1>1, <2>1, PopCounts
      <3> HIDE DEF u, Pushed
      <3>4. new \in Seq(Places) /\ \A i \in DOMAIN new : new[i] \notin P
        BY <1>2
      <3>5. stack' \in Stacks
        BY <3>1, <3>2, <3>4, PushFrames
      <3>6. /\ None(u, P) => None(PushOf(u, c, new), P)
            /\ Single(u, P) => Single(PushOf(u, c, new), P)
            /\ \A d \in CPUs : NoneOf(u, d, P) <=> NoneOf(PushOf(u, c, new), d, P)
        BY <3>1, <3>4, PushCounts
      <3> QED
        BY <3>2, <3>3, <3>5, <3>6 DEF Neutral, None
    <2>5. \/ UNCHANGED stack
          \/ \E new \in Pushed : stack' = [stack EXCEPT ![c] = new \o Tail(@)]
      BY <1>7 DEF Died
    <2> QED
      BY <2>3, <2>4, <2>5
  <1>8. CASE StopCpu(c) \/ Reset(c)
    <2>1. UNCHANGED stack
      BY <1>8 DEF StopCpu, Reset
    <2> QED
      BY <2>1, UnchangedNeutral
  <1> QED
    BY <1>4, <1>5, <1>6, <1>7, <1>8 DEF Kernel

-----------------------------------------------------------------------------
(* The frames of any CPU in P, counted. *)
LEMMA FramesFinite ==
  ASSUME stack \in Stacks, NEW P
  PROVE  IsFiniteSet(Frames(P))
  <1> DEFINE F == [c \in CPUs |-> {<<c, i>> : i \in {j \in DOMAIN stack[c] : stack[c][j] \in P}}]
             T == {F[c] : c \in CPUs}
  <1>1. ASSUME NEW c \in CPUs PROVE IsFiniteSet(F[c])
    <2>1. IsFiniteSet({c})
      BY FS_Singleton
    <2>2. IsFiniteSet(DOMAIN stack[c])
      <3>1. DOMAIN stack[c] = 1..Len(stack[c]) /\ Len(stack[c]) \in Int
        BY DEF Stacks
      <3>2. IsFiniteSet(1..Len(stack[c]))
        BY <3>1, FS_Interval
      <3> QED
        BY <3>1, <3>2
    <2>3. IsFiniteSet({c} \X DOMAIN stack[c])
      BY <2>1, <2>2, FS_Product
    <2>4. F[c] \in SUBSET ({c} \X DOMAIN stack[c])
      OBVIOUS
    <2> HIDE DEF F
    <2> QED
      BY <2>3, <2>4, FS_Subset
  <1>2. F \in Surjection(CPUs, T)
    BY DEF Surjection
  <1>3. Frames(P) = UNION T
    BY DEF Frames
  <1> HIDE DEF F
  <1>4. IsFiniteSet(T)
    BY <1>2, PanicAssumption, FS_Surjection
  <1>5. \A S \in T : IsFiniteSet(S)
    BY <1>1
  <1> HIDE DEF T
  <1> QED
    BY <1>3, <1>4, <1>5, FS_UNION

LEMMA FramesCount ==
  ASSUME stack \in Stacks, NEW P
  PROVE  /\ Frames(P) = {} <=> None(stack, P)
         /\ Cardinality(Frames(P)) <= 1 <=> Single(stack, P)
         /\ Cardinality(Frames(P)) \in Nat
  <1> DEFINE F == Frames(P)
  <1>1. \A x : x \in F <=> \E c \in CPUs : \E i \in DOMAIN stack[c] :
                             x = <<c, i>> /\ stack[c][i] \in P
    BY DEF Frames
  <1>2. IsFiniteSet(F)
    BY FramesFinite
  <1> HIDE DEF F
  <1>3. Cardinality(F) \in Nat
    BY <1>2, FS_CardinalityType
  <1>4. F = {} <=> None(stack, P)
    BY <1>1 DEF None, NoneOf
  <1>5. Single(stack, P) <=> \A x, y \in F : x = y
    <2>1. ASSUME Single(stack, P), NEW x \in F, NEW y \in F PROVE x = y
      <3>1. PICK c \in CPUs : \E i \in DOMAIN stack[c] : x = <<c, i>> /\ stack[c][i] \in P
        BY <1>1
      <3>2. PICK i \in DOMAIN stack[c] : x = <<c, i>> /\ stack[c][i] \in P
        BY <3>1
      <3>3. PICK d \in CPUs : \E j \in DOMAIN stack[d] : y = <<d, j>> /\ stack[d][j] \in P
        BY <1>1
      <3>4. PICK j \in DOMAIN stack[d] : y = <<d, j>> /\ stack[d][j] \in P
        BY <3>3
      <3> QED
        BY <2>1, <3>2, <3>4 DEF Single
    <2>2. ASSUME \A x, y \in F : x = y,
                 NEW c \in CPUs, NEW d \in CPUs, NEW i \in DOMAIN stack[c], NEW j \in DOMAIN stack[d],
                 stack[c][i] \in P, stack[d][j] \in P
          PROVE  c = d /\ i = j
      <3>1. <<c, i>> \in F /\ <<d, j>> \in F
        BY <1>1, <2>2
      <3>2. <<c, i>> = <<d, j>>
        BY <2>2, <3>1
      <3> QED
        BY <3>2
    <2> QED
      BY <2>1, <2>2 DEF Single
  <1>6. ASSUME \A x, y \in F : x = y PROVE Cardinality(F) <= 1
    <2>1. CASE F = {}
      BY <2>1, FS_EmptySet
    <2>2. CASE F # {}
      <3>1. PICK x \in F : TRUE
        BY <2>2
      <3>2. F = {x}
        BY <1>6, <3>1
      <3>3. Cardinality(F) = 1
        BY <3>2, FS_Singleton
      <3> QED
        BY <3>3
    <2> QED
      BY <2>1, <2>2
  <1>7. ASSUME Cardinality(F) <= 1 PROVE \A x, y \in F : x = y
    <2>1. Cardinality(F) = 0 \/ Cardinality(F) = 1
      BY <1>3, <1>7
    <2>2. F = {} \/ \E x : F = {x}
      BY <1>2, <2>1, FS_EmptySet, FS_Singleton
    <2> QED
      BY <2>2
  <1> QED
    BY <1>3, <1>4, <1>5, <1>6, <1>7 DEF F

-----------------------------------------------------------------------------
(* The places between a test of the flag that found it clear and the set. *)
Setting == {"die_set", "claim", "set"}
Writing == DieBody \cup DumpBody

(* A flag that is set belongs to a writer or was left by a killed task.  Without
   a race, writers have set it and nobody is about to set it once more, and no
   writer comes after a task killed inside the dump. *)
HandlerInv ==
  /\ stack \in Stacks /\ md_in_oops_handler \in BOOLEAN /\ raced \in BOOLEAN
  /\ killed \in BOOLEAN
  /\ md_in_oops_handler => ~None(stack, Writing) \/ killed
  /\ ~raced => /\ Single(stack, Writing)
               /\ ~None(stack, Writing) => md_in_oops_handler /\ None(stack, Setting)
  /\ killed /\ ~raced =>
       md_in_oops_handler /\ None(stack, Writing) /\ None(stack, Setting)

(* The die notifier, with interrupts off, is interrupted by nothing. *)
TopInv ==
  \A c \in CPUs : \A i \in DOMAIN stack[c] : i # 1 => stack[c][i] \notin DieBody

(* md_handle_done is given to one frame, which enters the dump once. *)
OnceInv ==
  /\ md_handle_done \in {0, 1} /\ dumps \in {0, 1}
  /\ md_handle_done = 0 => dumps = 0 /\ None(stack, {"set"})
  /\ dumps = 0 => Single(stack, {"set"}) /\ None(stack, DumpBody) /\ sections = {}
  /\ dumps = 1 => None(stack, {"set"}) /\ Single(stack, DumpBody)

LEMMA PlaceFacts ==
  /\ Writing \cap Outside = {} /\ Setting \cap Outside = {} /\ DumpBody \cap Outside = {}
  /\ Writing \cap Setting = {} /\ DumpBody \subseteq Writing /\ DieBody \subseteq Writing
  /\ Writing \subseteq Places /\ Setting \subseteq Places /\ DieBody \cap DumpBody = {}
  BY DEF Writing, Outside, Setting, Places, DieBody, DumpBody

(* The parts of the dump follow each other inside its body. *)
LEMMA PartFacts ==
  /\ DOMAIN NextPart = {"others", "runqueues", "meminfo", "slabinfo", "memory"}
  /\ \A p \in DOMAIN NextPart : p \in DumpBody /\ NextPart[p] \in DumpBody
  /\ NextPart["others"] = "runqueues"
  /\ \A p \in DOMAIN NextPart : p # "others" => NextPart[p] \notin {"others", "runqueues"}
  BY DEF NextPart, DumpBody

(* A running frame is a frame. *)
LEMMA AtSome ==
  ASSUME stack \in Stacks, NEW c \in CPUs, NEW p, At(c, p), NEW P, p \in P
  PROVE  ~NoneOf(stack, c, P) /\ ~None(stack, P)
  <1>1. stack[c] # <<>> /\ Head(stack[c]) = p
    BY DEF At
  <1>2. 1 \in DOMAIN stack[c] /\ stack[c][1] = p
    BY <1>1, PopFrames
  <1> QED
    BY <1>2 DEF NoneOf, None

(* Every step of a handler moves the frame on top, or ends it. *)
LEMMA HandlerMoves ==
  ASSUME NEW c \in CPUs, Die(c) \/ Dump(c)
  PROVE  \E p, q \in Places : At(c, p) /\ (Goto(c, q) \/ Return(c))
  <1>1. CASE Die(c)
    <2> DEFINE D == {"die_test", "die_set", "die_buf", "die_print", "die_clear"}
    <2>1. D \subseteq Places
      BY DEF Places, DieBody
    <2>2. \E p, q \in D : At(c, p) /\ (Goto(c, q) \/ Return(c))
      BY <1>1 DEF Die, DieTest, DieSet, DieBuf, DiePrint, DieClear
    <2> QED
      BY <2>1, <2>2
  <1>2. CASE \E p \in DOMAIN NextPart : DumpPart(c, p)
    BY <1>2, PartFacts, PlaceFacts DEF DumpPart
  <1>3. CASE Dump(c) /\ ~\E p \in DOMAIN NextPart : DumpPart(c, p)
    <2> DEFINE D == {"test", "claim", "set", "panic_regs", "runqueues", "others", "clear"}
    <2>1. D \subseteq Places
      BY DEF Places, DumpBody
    <2>2. \E p, q \in D : At(c, p) /\ (Goto(c, q) \/ Return(c))
      BY <1>3 DEF Dump, DumpTest, DumpClaim, DumpSet, DumpPanicRegs, DumpClear
    <2> QED
      BY <2>1, <2>2
  <1> QED
    BY <1>1, <1>2, <1>3

(* Below a frame outside the die notifier there is no notifier either. *)
LEMMA DiedAlone ==
  ASSUME stack \in Stacks, TopInv, NEW c \in CPUs, NEW p, At(c, p), p \notin DieBody
  PROVE  NoneOf(stack, c, DieBody)
  <1>1. stack[c] # <<>> /\ Head(stack[c]) = p
    BY DEF At
  <1>2. stack[c][1] = p
    BY <1>1, PopFrames
  <1> QED
    BY <1>2 DEF NoneOf, TopInv

LEMMA NextTopInv ==
  ASSUME stack \in Stacks, TopInv, [Next]_vars
  PROVE  TopInv'
  <1>1. CASE UNCHANGED stack
    BY <1>1 DEF TopInv
  <1>2. ASSUME NEW c \in CPUs, \A d \in CPUs \ {c} : stack'[d] = stack[d],
               \A i \in DOMAIN stack'[c] : i # 1 => stack'[c][i] \notin DieBody
        PROVE  TopInv'
    BY <1>2 DEF TopInv
  <1>3. ASSUME NEW c \in CPUs, Die(c) \/ Dump(c) PROVE TopInv'
    <2>1. PICK p \in Places, q \in Places : At(c, p) /\ (Goto(c, q) \/ Return(c))
      BY <1>3, HandlerMoves
    <2> DEFINE u == PopOf(stack, c)
    <2>2. stack[c] # <<>>
      BY <2>1 DEF At
    <2>3. /\ u \in Stacks
          /\ \A d \in CPUs : d # c => u[d] = stack[d]
          /\ \A i \in DOMAIN u[c] : i \in Nat /\ i + 1 \in DOMAIN stack[c] /\ u[c][i] = stack[c][i + 1]
      BY <2>2, PopFrames
    <2>4. \A i \in DOMAIN u[c] : u[c][i] \notin DieBody
      <3>1. \A i \in DOMAIN u[c] : i \in 1..Len(u[c]) /\ Len(u[c]) \in Nat
        BY <2>3 DEF Stacks
      <3>2. \A i \in DOMAIN u[c] : i + 1 # 1
        BY <3>1
      <3> HIDE DEF u
      <3> QED
        BY <2>3, <3>2 DEF TopInv
    <2>5. CASE Return(c)
      <3>1. stack' = u
        BY <2>5 DEF Return, PopOf
      <3> HIDE DEF u
      <3> QED
        BY <1>2, <2>3, <2>4, <3>1
    <2>6. CASE Goto(c, q)
      <3>1. stack' = PushOf(u, c, <<q>>)
        BY <2>3, <2>6 DEF Goto, PopOf, PushOf, Stacks
      <3>2. <<q>> \in Seq(Places) /\ DOMAIN <<q>> = {1}
        OBVIOUS
      <3> HIDE DEF u
      <3>3. /\ \A d \in CPUs : d # c => PushOf(u, c, <<q>>)[d] = u[d]
            /\ \A i \in DOMAIN PushOf(u, c, <<q>>)[c] :
                 \/ i \in DOMAIN <<q>> /\ PushOf(u, c, <<q>>)[c][i] = <<q>>[i]
                 \/ i - Len(<<q>>) \in DOMAIN u[c]
                    /\ PushOf(u, c, <<q>>)[c][i] = u[c][i - Len(<<q>>)]
        BY <2>3, <3>2, PushFrames
      <3>4. \A i \in DOMAIN stack'[c] : i # 1 => stack'[c][i] \notin DieBody
        BY <2>4, <3>1, <3>2, <3>3
      <3> QED
        BY <1>2, <2>3, <3>1, <3>3, <3>4
    <2> QED
      BY <2>1, <2>5, <2>6
  <1>4. ASSUME NEW c \in CPUs, Kernel(c) PROVE TopInv'
    <2>1. CASE StopCpu(c) \/ Reset(c)
      BY <1>1, <2>1 DEF StopCpu, Reset
    <2>2. CASE Killed(c)
      BY <1>2, <2>2, ClearCounts DEF Killed, NoneOf
    <2>3. CASE ~Killed(c) /\ ~StopCpu(c) /\ ~Reset(c)
      <3>1. NoneOf(stack, c, DieBody)
        <4>1. CASE stack[c] = <<>>
          BY <4>1 DEF NoneOf
        <4>2. CASE \E p \in DumpBody \cup {"died"} : At(c, p)
          <5>1. \A p \in DumpBody \cup {"died"} : p \notin DieBody
            BY DEF DieBody, DumpBody
          <5> QED
            BY <4>2, <5>1, DiedAlone
        <4> QED
          BY <1>4, <2>3, <4>1, <4>2 DEF Kernel, Oops, Died, Panic, CallDump, Idle
      <3>2. DieBody \cap Outside = {}
        BY PlaceFacts
      <3>3. NoneOf(stack', c, DieBody)
        BY <1>4, <2>3, <3>1, <3>2, KernelNeutral DEF Neutral
      <3>4. \A d \in CPUs \ {c} : stack'[d] = stack[d]
        BY <1>4, <2>3 DEF Kernel, Oops, Died, Panic, CallDump, Call, Stacks
      <3> QED
        BY <1>2, <3>3, <3>4 DEF NoneOf
    <2> QED
      BY <2>1, <2>2, <2>3
  <1>5. CASE Boot \/ UNCHANGED vars
    BY <1>1, <1>5 DEF Boot, AllocBuffer, AddEntry, Publish, RegisterHandlers, vars
  <1> QED
    BY <1>3, <1>4, <1>5 DEF Next

(* The kinds of steps, and what they do to HandlerInv. *)
LEMMA NeutralHandler ==
  ASSUME HandlerInv, stack' \in Stacks, Neutral(Writing), Neutral(Setting),
         UNCHANGED <<md_in_oops_handler, raced, killed>>
  PROVE  HandlerInv'
  BY DEF HandlerInv, Neutral

LEMMA SetHandler ==
  ASSUME HandlerInv, NEW c \in CPUs, NEW p \in Setting, NEW q \in Writing,
         At(c, p), Goto(c, q), SetFlag, UNCHANGED killed
  PROVE  HandlerInv'
  <1>1. stack \in Stacks /\ q \in Places /\ q \notin Setting
    BY PlaceFacts DEF HandlerInv
  <1>2. stack' \in Stacks /\ ~None(stack', Writing)
    BY <1>1, GotoCounts
  <1>3. md_in_oops_handler' = TRUE
    BY DEF SetFlag
  <1>4. raced' \in BOOLEAN
    BY DEF SetFlag, HandlerInv
  <1>5. ASSUME ~raced' PROVE Single(stack', Writing) /\ None(stack', Setting) /\ ~killed'
    <2>1. ~raced /\ ~(Cardinality(Frames(Setting)) > 1)
      BY <1>5 DEF SetFlag, Setting
    <2>2. Single(stack, Setting)
      BY <1>1, <2>1, FramesCount
    <2>3. None(stack, Writing) /\ ~killed
      BY <1>1, <2>1, AtSome DEF HandlerInv
    <2> QED
      BY <1>1, <2>2, <2>3, GotoCounts
  <1> QED
    BY <1>2, <1>3, <1>4, <1>5 DEF HandlerInv

LEMMA ClearHandler ==
  ASSUME HandlerInv, NEW c \in CPUs, NEW p \in Writing, At(c, p), Return(c),
         md_in_oops_handler' = FALSE, UNCHANGED <<raced, killed>>
  PROVE  HandlerInv'
  <1>1. stack \in Stacks
    BY DEF HandlerInv
  <1>2. /\ stack' \in Stacks
        /\ Single(stack, Writing) => None(stack', Writing) /\ Single(stack', Writing)
    BY <1>1, ReturnCounts
  <1>3. ~None(stack, Writing)
    BY <1>1, AtSome
  <1> QED
    BY <1>2, <1>3 DEF HandlerInv

LEMMA MoveHandler ==
  ASSUME HandlerInv, NEW c \in CPUs, NEW p \in Writing, NEW q \in Writing,
         At(c, p), Goto(c, q), UNCHANGED <<md_in_oops_handler, raced, killed>>
  PROVE  HandlerInv'
  <1>1. stack \in Stacks /\ q \in Places /\ p \notin Setting /\ q \notin Setting
    BY PlaceFacts DEF HandlerInv
  <1>2. /\ stack' \in Stacks /\ ~None(stack', Writing)
        /\ Single(stack, Writing) => Single(stack', Writing)
        /\ None(stack, Setting) => None(stack', Setting)
    BY <1>1, GotoCounts
  <1>3. ~None(stack, Writing)
    BY <1>1, AtSome
  <1> QED
    BY <1>2, <1>3 DEF HandlerInv

LEMMA EnterHandler ==
  ASSUME HandlerInv, NEW c \in CPUs, NEW p, NEW q \in Setting, At(c, p), Goto(c, q),
         p \in Setting \/ (p \in Outside /\ ~md_in_oops_handler),
         UNCHANGED <<md_in_oops_handler, raced, killed>>
  PROVE  HandlerInv'
  <1>1. stack \in Stacks /\ q \in Places /\ p \notin Writing /\ q \notin Writing
    BY PlaceFacts DEF HandlerInv
  <1>2. stack' \in Stacks /\ Neutral(Writing)
    BY <1>1, GotoCounts
  <1>3. ~raced => None(stack, Writing) /\ ~killed
    <2>1. CASE p \in Setting
      BY <1>1, <2>1, AtSome DEF HandlerInv
    <2>2. CASE ~md_in_oops_handler
      BY <2>2 DEF HandlerInv
    <2> QED
      BY <2>1, <2>2
  <1> QED
    BY <1>2, <1>3 DEF HandlerInv, Neutral

LEMMA LeaveHandler ==
  ASSUME HandlerInv, NEW c \in CPUs, NEW p, p \notin Writing, At(c, p), Return(c),
         UNCHANGED <<md_in_oops_handler, raced, killed>>
  PROVE  HandlerInv'
  <1>1. stack \in Stacks
    BY DEF HandlerInv
  <1>2. /\ stack' \in Stacks /\ Neutral(Writing)
        /\ None(stack, Setting) => None(stack', Setting)
    BY <1>1, ReturnCounts
  <1> QED
    BY <1>2 DEF HandlerInv, Neutral

(* One step per action. *)
LEMMA NextHandlerInv ==
  ASSUME HandlerInv, TopInv, [Next]_vars
  PROVE  HandlerInv'
  <1> USE DEF flag_vars, kernel_vars
  <1>1. stack \in Stacks
    BY DEF HandlerInv
  <1>2. CASE Boot \/ UNCHANGED vars
    <2>1. UNCHANGED <<stack, md_in_oops_handler, raced, killed>>
      BY <1>2 DEF Boot, AllocBuffer, AddEntry, Publish, RegisterHandlers, vars
    <2> QED
      BY <1>1, <2>1, UnchangedNeutral, NeutralHandler
  <1>3. ASSUME NEW c \in CPUs, Kernel(c) PROVE HandlerInv'
    <2>1. CASE ~Killed(c)
      <3>1. UNCHANGED <<md_in_oops_handler, raced, killed>>
        BY <1>3, <2>1 DEF Kernel, Oops, Died, Panic, StopCpu, Reset, CallDump
      <3> QED
        BY <1>1, <1>3, <2>1, <3>1, KernelNeutral, PlaceFacts, NeutralHandler
    <2>2. CASE Killed(c)
      <3>1. /\ stack' = [stack EXCEPT ![c] = <<>>] /\ At(c, "died")
            /\ UNCHANGED <<md_in_oops_handler, raced>>
            /\ killed' = (killed \/ ~NoneOf(stack, c, DumpBody))
        BY <2>2 DEF Killed, NoneOf
      <3>2. /\ stack' \in Stacks
            /\ Single(stack, Writing) => Single(stack', Writing)
            /\ None(stack, Writing) => None(stack', Writing)
            /\ None(stack, Setting) => None(stack', Setting)
        BY <1>1, <3>1, ClearCounts
      <3>3. CASE NoneOf(stack, c, DumpBody)
        <4>1. NoneOf(stack, c, Writing)
          <5>1. "died" \notin DieBody
            BY DEF DieBody
          <5> QED
            BY <1>1, <3>1, <3>3, <5>1, DiedAlone DEF NoneOf, Writing
        <4>2. Neutral(Writing)
          BY <1>1, <3>1, <4>1, ClearCounts
        <4>3. UNCHANGED killed
          BY <3>1, <3>3 DEF HandlerInv
        <4> QED
          BY <3>1, <3>2, <4>2, <4>3 DEF HandlerInv, Neutral
      <3>4. CASE ~NoneOf(stack, c, DumpBody)
        <4>1. ~NoneOf(stack, c, Writing) /\ ~None(stack, Writing)
          BY <3>4, PlaceFacts DEF NoneOf, None
        <4>2. Single(stack, Writing) => None(stack', Writing)
          BY <1>1, <3>1, <4>1, ClearCounts
        <4>3. killed' = TRUE
          BY <3>1, <3>4 DEF HandlerInv
        <4> QED
          BY <3>1, <3>2, <4>1, <4>2, <4>3 DEF HandlerInv
      <3> QED
        BY <3>3, <3>4
    <2> QED
      BY <2>1, <2>2
  <1>4. ASSUME NEW c \in CPUs, Die(c) PROVE HandlerInv'
    <2>1. CASE DieTest(c)
      <3>1. "die_test" \in Outside /\ "die_test" \notin Writing /\ "die_set" \in Setting
        BY DEF Outside, Setting, Writing, DieBody, DumpBody
      <3> QED
        BY <2>1, <3>1, EnterHandler, LeaveHandler DEF DieTest
    <2>2. CASE DieSet(c)
      <3>1. "die_set" \in Setting /\ "die_buf" \in Writing
        BY DEF Setting, Writing, DieBody
      <3> QED
        BY <2>2, <3>1, SetHandler DEF DieSet
    <2>3. CASE DieBuf(c)
      <3>1. "die_buf" \in Writing /\ "die_print" \in Writing
        BY DEF Writing, DieBody
      <3> QED
        BY <2>3, <3>1, ClearHandler, MoveHandler DEF DieBuf, NoDieBuf
    <2>4. CASE DiePrint(c)
      <3>1. "die_print" \in Writing /\ "die_clear" \in Writing
        BY DEF Writing, DieBody
      <3> QED
        BY <2>4, <3>1, MoveHandler DEF DiePrint
    <2>5. CASE DieClear(c)
      <3>1. "die_clear" \in Writing
        BY DEF Writing, DieBody
      <3> QED
        BY <2>5, <3>1, ClearHandler DEF DieClear
    <2> QED
      BY <1>4, <2>1, <2>2, <2>3, <2>4, <2>5 DEF Die
  <1>5. ASSUME NEW c \in CPUs, Dump(c) PROVE HandlerInv'
    <2>1. CASE DumpTest(c)
      <3>1. "test" \in Outside /\ "test" \notin Writing /\ "claim" \in Setting
        BY DEF Outside, Setting, Writing, DieBody, DumpBody
      <3> QED
        BY <2>1, <3>1, EnterHandler, LeaveHandler DEF DumpTest, Busy
    <2>2. CASE DumpClaim(c)
      <3>1. "claim" \in Setting /\ "claim" \notin Writing /\ "set" \in Setting
        BY DEF Setting, Writing, DieBody, DumpBody
      <3> QED
        BY <2>2, <3>1, EnterHandler, LeaveHandler DEF DumpClaim
    <2>3. CASE DumpSet(c)
      <3>1. "set" \in Setting /\ "panic_regs" \in Writing /\ "runqueues" \in Writing
        BY DEF Setting, Writing, DumpBody
      <3>2. PICK q \in Writing : Goto(c, q)
        BY <2>3, <3>1 DEF DumpSet
      <3> QED
        BY <2>3, <3>1, <3>2, SetHandler DEF DumpSet
    <2>4. CASE DumpPanicRegs(c)
      <3>1. "panic_regs" \in Writing /\ "others" \in Writing
        BY DEF Writing, DumpBody
      <3> QED
        BY <2>4, <3>1, MoveHandler DEF DumpPanicRegs
    <2>5. ASSUME NEW p \in DOMAIN NextPart, DumpPart(c, p) PROVE HandlerInv'
      <3>1. p \in Writing /\ NextPart[p] \in Writing
        BY PartFacts, PlaceFacts
      <3> QED
        BY <2>5, <3>1, MoveHandler DEF DumpPart
    <2>6. CASE DumpClear(c)
      <3>1. "clear" \in Writing
        BY DEF Writing, DumpBody
      <3> QED
        BY <2>6, <3>1, ClearHandler DEF DumpClear
    <2> QED
      BY <1>5, <2>1, <2>2, <2>3, <2>4, <2>5, <2>6 DEF Dump
  <1> QED
    BY <1>2, <1>3, <1>4, <1>5 DEF Next

-----------------------------------------------------------------------------
LEMMA NeutralOnce ==
  ASSUME OnceInv, Neutral({"set"}), Neutral(DumpBody), UNCHANGED <<md_handle_done, dumps, sections>>
  PROVE  OnceInv'
  BY DEF OnceInv, Neutral

(* Only the frame that md_handle_done was given to enters the dump. *)
LEMMA NextOnceInv ==
  ASSUME HandlerInv, OnceInv, [Next]_vars
  PROVE  OnceInv'
  <1> USE DEF flag_vars, text_vars
  <1>1. stack \in Stacks
    BY DEF HandlerInv
  <1>2. CASE Boot \/ UNCHANGED vars
    <2>1. UNCHANGED <<stack, md_handle_done, dumps, sections>>
      BY <1>2 DEF Boot, AllocBuffer, AddEntry, Publish, RegisterHandlers, vars
    <2> QED
      BY <2>1, UnchangedNeutral, NeutralOnce
  <1>3. ASSUME NEW c \in CPUs, Kernel(c) PROVE OnceInv'
    <2>1. UNCHANGED <<md_handle_done, dumps, sections>>
      BY <1>3 DEF Kernel, Oops, Killed, Died, Panic, StopCpu, Reset, CallDump
    <2>2. {"set"} \cap Outside = {}
      BY DEF Outside
    <2>3. CASE ~Killed(c)
      BY <1>1, <1>3, <2>1, <2>2, <2>3, KernelNeutral, PlaceFacts, NeutralOnce
    <2>4. CASE Killed(c)
      <3>1. /\ None(stack, {"set"}) => None(stack', {"set"})
            /\ Single(stack, {"set"}) => Single(stack', {"set"})
            /\ None(stack, DumpBody) => None(stack', DumpBody)
            /\ Single(stack, DumpBody) => Single(stack', DumpBody)
        BY <1>1, <2>4, ClearCounts DEF Killed
      <3> QED
        BY <2>1, <3>1 DEF OnceInv
    <2> QED
      BY <2>3, <2>4
  <1>4. ASSUME NEW c \in CPUs, NEW p, NEW q \in Places, p \notin DumpBody \cup {"set"},
               q \notin DumpBody \cup {"set"}, At(c, p), Goto(c, q) \/ Return(c),
               UNCHANGED <<md_handle_done, dumps, sections>>
        PROVE  OnceInv'
    <2>1. Neutral({"set"}) /\ Neutral(DumpBody)
      BY <1>1, <1>4, GotoCounts, ReturnCounts
    <2> QED
      BY <1>4, <2>1, NeutralOnce
  <1>5. ASSUME NEW c \in CPUs, Die(c) PROVE OnceInv'
    <2> DEFINE D == DieBody \cup {"die_test", "die_set"}
    <2>1. \A p \in D : p \in Places /\ p \notin DumpBody \cup {"set"}
      BY DEF Places, DieBody, DumpBody
    <2>2. UNCHANGED <<md_handle_done, dumps, sections>>
      BY <1>5 DEF Die, DieTest, DieSet, DieBuf, DiePrint, DieClear
    <2>3. \E p \in D, q \in D : At(c, p) /\ (Goto(c, q) \/ Return(c))
      BY <1>5 DEF Die, DieTest, DieSet, DieBuf, DiePrint, DieClear, DieBody
    <2> HIDE DEF D
    <2> QED
      BY <1>4, <2>1, <2>2, <2>3
  <1>6. ASSUME NEW c \in CPUs, Dump(c) PROVE OnceInv'
    <2>1. CASE DumpTest(c)
      <3>1. "test" \notin DumpBody \cup {"set"} /\ "claim" \notin DumpBody \cup {"set"}
            /\ "claim" \in Places
        BY DEF DumpBody, Places
      <3> QED
        BY <1>4, <2>1, <3>1 DEF DumpTest
    <2>2. CASE DumpClaim(c)
      <3>1. /\ "claim" \notin DumpBody \cup {"set"} /\ "set" \notin DumpBody
            /\ "set" \in Places /\ "claim" \in Places /\ At(c, "claim")
            /\ UNCHANGED <<dumps, sections>>
        BY <2>2 DEF DumpClaim, DumpBody, Places
      <3>2. CASE MayClaim
        <4>1. md_handle_done = 0 /\ md_handle_done' = 1 /\ Goto(c, "set") /\ dumps = 0
          BY <2>2, <3>2 DEF DumpClaim, MayClaim, OnceInv
        <4>2. Single(stack', {"set"})
          BY <1>1, <3>1, <4>1, GotoCounts DEF OnceInv
        <4>3. None(stack', DumpBody)
          BY <1>1, <3>1, <4>1, GotoCounts DEF OnceInv
        <4> QED
          BY <3>1, <4>1, <4>2, <4>3 DEF OnceInv
      <3>3. CASE ~MayClaim
        BY <1>4, <2>2, <3>1, <3>3 DEF DumpClaim
      <3> QED
        BY <3>2, <3>3
    <2>3. CASE DumpSet(c)
      <3>1. "panic_regs" \in DumpBody /\ "runqueues" \in DumpBody /\ "set" \notin DumpBody
        BY DEF DumpBody
      <3>2. PICK q \in DumpBody : Goto(c, q)
        BY <2>3, <3>1 DEF DumpSet
      <3>3. /\ At(c, "set") /\ dumps' = dumps + 1 /\ q \in Places /\ q # "set"
            /\ UNCHANGED <<md_handle_done, sections>>
        BY <2>3, <3>1, PlaceFacts DEF DumpSet
      <3>4. ~None(stack, {"set"})
        BY <1>1, <3>3, AtSome
      <3>5. dumps = 0 /\ md_handle_done = 1 /\ Single(stack, {"set"}) /\ None(stack, DumpBody)
        BY <3>4 DEF OnceInv
      <3>6. None(stack', {"set"})
        BY <1>1, <3>2, <3>3, <3>5, GotoCounts
      <3>7. Single(stack', DumpBody)
        BY <1>1, <3>2, <3>3, <3>5, GotoCounts
      <3>8. dumps' = 1 /\ md_handle_done' = 1
        BY <3>3, <3>5
      <3> QED
        BY <3>6, <3>7, <3>8 DEF OnceInv
    <2>4. ASSUME NEW p \in DumpBody, NEW q \in DumpBody, At(c, p), Goto(c, q) \/ Return(c),
                 UNCHANGED <<md_handle_done, dumps>>
          PROVE  OnceInv'
      <3>1. p # "set" /\ q # "set" /\ q \in Places
        BY PlaceFacts DEF DumpBody
      <3>2. Neutral({"set"})
        BY <1>1, <2>4, <3>1, GotoCounts, ReturnCounts
      <3>3. Single(stack, DumpBody) => Single(stack', DumpBody)
        BY <1>1, <2>4, <3>1, GotoCounts, ReturnCounts
      <3>4. dumps = 1 /\ md_handle_done = 1
        BY <1>1, <2>4, AtSome DEF OnceInv
      <3> QED
        BY <2>4, <3>2, <3>3, <3>4 DEF OnceInv, Neutral
    <2>5. CASE DumpPanicRegs(c)
      <3>1. "panic_regs" \in DumpBody /\ "others" \in DumpBody
        BY DEF DumpBody
      <3> QED
        BY <2>4, <2>5, <3>1 DEF DumpPanicRegs
    <2>6. ASSUME NEW p \in DOMAIN NextPart, DumpPart(c, p) PROVE OnceInv'
      BY <2>4, <2>6, PartFacts DEF DumpPart
    <2>7. CASE DumpClear(c)
      <3>1. "clear" \in DumpBody
        BY DEF DumpBody
      <3> QED
        BY <2>4, <2>7, <3>1 DEF DumpClear
    <2> QED
      BY <1>6, <2>1, <2>2, <2>3, <2>5, <2>6, <2>7 DEF Dump
  <1> QED
    BY <1>2, <1>3, <1>5, <1>6 DEF Next

-----------------------------------------------------------------------------
Contexts == Seq([kind : {"die", "panic"}, cpu : CPUs, fault : Nat])

(* There is a context of c, or an excuse for its absence. *)
HasContext(c) == overflow \/ raced \/ \E i \in DOMAIN cntxt : cntxt[i].cpu = c

(* Who is past its context has one: the CPU that died, unless it is just about
   to write it, and the one that dumps. *)
ContextInv ==
  /\ cntxt \in Contexts /\ cause \in [CPUs -> Nat] /\ faults \in Nat
  /\ die_cpu \in CPUs => HasContext(die_cpu) \/ ~NoneOf(stack, die_cpu, {"die_print"})
  /\ \A c \in CPUs : ~NoneOf(stack, c, {"others"}) => HasContext(c)
  /\ "others" \in sections =>
       \A c \in CPUs : ~NoneOf(stack, c, {"runqueues"}) => HasContext(c)

LEMMA NeutralContext ==
  ASSUME ContextInv, Neutral({"die_print"}), Neutral({"others"}), Neutral({"runqueues"}),
         cntxt' \in Contexts, cause' \in [CPUs -> Nat], faults' \in Nat, UNCHANGED die_cpu,
         \A c \in CPUs : HasContext(c) => HasContext(c)',
         "others" \in sections' => "others" \in sections
  PROVE  ContextInv'
  BY DEF ContextInv, Neutral

(* A context is appended, cut for want of room, or lost among racing writers. *)
LEMMA PutContextKeeps ==
  ASSUME HandlerInv, ContextInv, NEW c \in CPUs, NEW kind \in {"die", "panic"},
         PutContext([kind |-> kind, cpu |-> c, fault |-> cause[c]]), UNCHANGED raced
  PROVE  /\ cntxt' \in Contexts /\ HasContext(c)'
         /\ \A d \in CPUs : HasContext(d) => HasContext(d)'
  <1> DEFINE r == [kind |-> kind, cpu |-> c, fault |-> cause[c]]
             R == [kind : {"die", "panic"}, cpu : CPUs, fault : Nat]
  <1>1. r \in R /\ r.cpu = c
    BY DEF ContextInv
  <1>2. cntxt \in Seq(R)
    BY DEF ContextInv, Contexts
  <1> HIDE DEF r, R
  <1>3. CASE cntxt' = Append(cntxt, r) /\ UNCHANGED overflow
    <2>1. /\ cntxt' \in Seq(R)
          /\ \A i \in DOMAIN cntxt : i \in DOMAIN cntxt' /\ cntxt'[i] = cntxt[i]
          /\ Len(cntxt) + 1 \in DOMAIN cntxt' /\ cntxt'[Len(cntxt) + 1] = r
      BY <1>1, <1>2, <1>3
    <2> QED
      BY <1>1, <1>3, <2>1 DEF HasContext, Contexts, R
  <1>4. CASE overflow' = TRUE /\ UNCHANGED cntxt
    BY <1>2, <1>4 DEF HasContext, Contexts, R
  <1>5. CASE Cardinality(Writers) > 1 /\ UNCHANGED <<cntxt, overflow>>
    <2>1. ~Single(stack, Writing)
      <3>1. Cardinality(Frames(Writing)) <= 1 <=> Single(stack, Writing)
        BY FramesCount DEF HandlerInv
      <3>2. Cardinality(Frames(Writing)) \in Nat /\ Cardinality(Frames(Writing)) > 1
        BY <1>5, FramesCount DEF HandlerInv, Writers, Writing
      <3> QED
        BY <3>1, <3>2
    <2>2. raced
      BY <2>1 DEF HandlerInv
    <2> QED
      BY <1>2, <1>5, <2>2 DEF HasContext, Contexts, R
  <1> QED
    BY <1>3, <1>4, <1>5 DEF PutContext, r

LEMMA NextContextInv ==
  ASSUME HandlerInv, TopInv, OnceInv, ContextInv, [Next]_vars
  PROVE  ContextInv'
  <1> USE DEF flag_vars, text_vars, kernel_vars
  <1> DEFINE Watched == {"die_print", "others", "runqueues"}
  <1>1. /\ stack \in Stacks /\ raced \in BOOLEAN
        /\ cntxt \in Contexts /\ cause \in [CPUs -> Nat] /\ faults \in Nat
    BY DEF HandlerInv, ContextInv
  <1>2. ASSUME UNCHANGED <<cntxt, overflow>>, raced => raced'
        PROVE  \A d \in CPUs : HasContext(d) => HasContext(d)'
    BY <1>2 DEF HasContext
  <1>3. CASE Boot \/ UNCHANGED vars
    <2>1. UNCHANGED <<stack, cntxt, overflow, raced, cause, faults, die_cpu, sections>>
      BY <1>3 DEF Boot, AllocBuffer, AddEntry, Publish, RegisterHandlers, vars
    <2> QED
      BY <1>1, <1>2, <2>1, UnchangedNeutral, NeutralContext
  <1>4. ASSUME NEW c \in CPUs, Kernel(c) PROVE ContextInv'
    <2>1. UNCHANGED <<cntxt, overflow, raced, die_cpu, sections>>
      BY <1>4 DEF Kernel, Oops, Killed, Died, Panic, StopCpu, Reset, CallDump
    <2>2. cause' \in [CPUs -> Nat] /\ faults' \in Nat
      <3>1. CASE UNCHANGED <<cause, faults>>
        BY <1>1, <3>1
      <3>2. CASE faults' = faults + 1 /\ cause' = [cause EXCEPT ![c] = faults + 1]
        <4>1. faults + 1 \in Nat
          BY <1>1
        <4> QED
          BY <1>1, <3>2, <4>1
      <3> QED
        BY <1>4, <3>1, <3>2 DEF Kernel, Oops, Killed, Died, Panic, StopCpu, Reset, CallDump
    <2>3. \A p \in Watched : {p} \cap Outside = {}
      BY DEF Outside
    <2>4. CASE ~Killed(c)
      <3>1. Neutral({"die_print"}) /\ Neutral({"others"}) /\ Neutral({"runqueues"})
        BY <1>1, <1>4, <2>3, <2>4, KernelNeutral
      <3> QED
        BY <1>1, <1>2, <2>1, <2>2, <3>1, NeutralContext
    <2>5. CASE Killed(c)
      <3>1. At(c, "died") /\ stack' = [stack EXCEPT ![c] = <<>>]
        BY <2>5 DEF Killed
      <3>2. NoneOf(stack, c, {"die_print"})
        <4>1. "died" \notin DieBody /\ "die_print" \in DieBody
          BY DEF DieBody
        <4> QED
          BY <1>1, <3>1, <4>1, DiedAlone DEF NoneOf
      <3>3. Neutral({"die_print"})
        BY <1>1, <3>1, <3>2, ClearCounts
      <3>4. \A d \in CPUs : /\ NoneOf(stack, d, {"others"}) => NoneOf(stack', d, {"others"})
                            /\ NoneOf(stack, d, {"runqueues"}) => NoneOf(stack', d, {"runqueues"})
        BY <1>1, <3>1, ClearCounts
      <3>5. \A d \in CPUs : HasContext(d) => HasContext(d)'
        BY <1>2, <2>1
      <3>6. die_cpu' \in CPUs
              => HasContext(die_cpu)' \/ ~NoneOf(stack', die_cpu', {"die_print"})
        BY <2>1, <3>3, <3>5 DEF ContextInv, Neutral, HasContext
      <3> QED
        BY <2>1, <2>2, <3>4, <3>5, <3>6 DEF ContextInv, Contexts
    <2> QED
      BY <2>4, <2>5
  <1>5. ASSUME NEW c \in CPUs, NEW p, NEW q \in Places, p \notin Watched, q \notin Watched,
               At(c, p), Goto(c, q) \/ Return(c),
               UNCHANGED <<cntxt, overflow, cause, faults, die_cpu>>,
               raced => raced', "others" \in sections' => "others" \in sections
        PROVE  ContextInv'
    <2>1. Neutral({"die_print"}) /\ Neutral({"others"}) /\ Neutral({"runqueues"})
      BY <1>1, <1>5, GotoCounts, ReturnCounts
    <2> QED
      BY <1>1, <1>2, <1>5, <2>1, NeutralContext
  <1>6. ASSUME NEW c \in CPUs, Die(c) PROVE ContextInv'
    <2>1. CASE DieTest(c)
      <3>1. "die_test" \notin Watched /\ "die_set" \notin Watched /\ "die_set" \in Places
        BY DEF Places
      <3> QED
        BY <1>5, <2>1, <3>1 DEF DieTest
    <2>2. CASE DieSet(c)
      <3>1. "die_set" \notin Watched /\ "die_buf" \notin Watched /\ "die_buf" \in Places
        BY DEF Places, DieBody
      <3> QED
        BY <1>5, <2>2, <3>1 DEF DieSet, SetFlag
    <2>3. CASE DieBuf(c)
      <3>1. /\ "die_buf" \notin Watched /\ "die_buf" \in Places /\ "die_print" \in Places
            /\ UNCHANGED <<cntxt, overflow, raced, cause, faults, sections>>
        BY <2>3 DEF DieBuf, Places, DieBody
      <3>2. CASE Return(c) /\ UNCHANGED die_cpu
        BY <1>5, <2>3, <3>1, <3>2 DEF DieBuf
      <3>3. CASE die_cpu' = c /\ Goto(c, "die_print")
        <4>1. ~NoneOf(stack', c, {"die_print"}) /\ Neutral({"others"}) /\ Neutral({"runqueues"})
          BY <1>1, <2>3, <3>1, <3>3, GotoCounts DEF DieBuf
        <4>2. \A d \in CPUs : HasContext(d) => HasContext(d)'
          BY <1>2, <3>1
        <4>3. die_cpu' \in CPUs => ~NoneOf(stack', die_cpu', {"die_print"})
          BY <3>3, <4>1
        <4> QED
          BY <3>1, <4>1, <4>2, <4>3 DEF ContextInv, Neutral
      <3> QED
        BY <2>3, <3>2, <3>3 DEF DieBuf, NoDieBuf
    <2>4. CASE DiePrint(c)
      <3>1. /\ At(c, "die_print") /\ Goto(c, "die_clear") /\ "die_clear" \in Places
            /\ UNCHANGED <<raced, cause, faults, die_cpu, sections>>
            /\ PutContext([kind |-> "die", cpu |-> c, fault |-> cause[c]])
        BY <2>4 DEF DiePrint, Places, DieBody
      <3>2. /\ cntxt' \in Contexts /\ HasContext(c)'
            /\ \A d \in CPUs : HasContext(d) => HasContext(d)'
        BY <3>1, PutContextKeeps
      <3>3. Neutral({"others"}) /\ Neutral({"runqueues"})
        BY <1>1, <3>1, GotoCounts
      <3>4. \A d \in CPUs \ {c} : NoneOf(stack, d, {"die_print"}) <=> NoneOf(stack', d, {"die_print"})
        BY <1>1, <3>1, GotoCounts
      <3>5. ASSUME die_cpu' \in CPUs
            PROVE  HasContext(die_cpu)' \/ ~NoneOf(stack', die_cpu', {"die_print"})
        <4>1. CASE die_cpu = c
          BY <3>1, <3>2, <4>1 DEF HasContext
        <4>2. CASE die_cpu # c
          BY <3>1, <3>2, <3>4, <3>5, <4>2 DEF ContextInv, HasContext
        <4> QED
          BY <4>1, <4>2
      <3> QED
        BY <3>1, <3>2, <3>3, <3>5 DEF ContextInv, Neutral
    <2>5. CASE DieClear(c)
      <3>1. "die_clear" \notin Watched /\ "die_clear" \in Places
        BY DEF Places, DieBody
      <3> QED
        BY <1>5, <2>5, <3>1 DEF DieClear
    <2> QED
      BY <1>6, <2>1, <2>2, <2>3, <2>4, <2>5 DEF Die
  <1>7. ASSUME NEW c \in CPUs, Dump(c) PROVE ContextInv'
    <2>1. CASE DumpTest(c) \/ DumpClaim(c)
      <3>1. /\ "test" \notin Watched /\ "claim" \notin Watched /\ "set" \notin Watched
            /\ "claim" \in Places /\ "set" \in Places
        BY DEF Places
      <3> QED
        BY <1>5, <2>1, <3>1 DEF DumpTest, DumpClaim
    <2>2. CASE DumpSet(c)
      <3>1. /\ At(c, "set") /\ "set" \notin Watched /\ "panic_regs" \notin Watched
            /\ "panic_regs" \in Places /\ "runqueues" \in Places
            /\ UNCHANGED <<cntxt, overflow, cause, faults, die_cpu, sections>> /\ (raced => raced')
        BY <2>2 DEF DumpSet, SetFlag, Places, DumpBody
      <3>2. "others" \notin sections'
        BY <1>1, <3>1, AtSome DEF OnceInv
      <3>3. CASE Goto(c, "panic_regs")
        BY <1>5, <3>1, <3>3
      <3>4. CASE Goto(c, "runqueues")
        <4>1. Neutral({"die_print"}) /\ Neutral({"others"})
          BY <1>1, <3>1, <3>4, GotoCounts
        <4>2. \A d \in CPUs : HasContext(d) => HasContext(d)'
          BY <1>2, <3>1
        <4>3. die_cpu' \in CPUs
                => HasContext(die_cpu)' \/ ~NoneOf(stack', die_cpu', {"die_print"})
          BY <3>1, <4>1, <4>2 DEF ContextInv, Neutral, HasContext
        <4> QED
          BY <3>1, <3>2, <4>1, <4>2, <4>3 DEF ContextInv, Neutral
      <3> QED
        BY <2>2, <3>3, <3>4 DEF DumpSet
    <2>3. CASE DumpPanicRegs(c)
      <3>1. /\ At(c, "panic_regs") /\ Goto(c, "others") /\ "others" \in Places
            /\ UNCHANGED <<raced, cause, faults, die_cpu, sections>>
        BY <2>3 DEF DumpPanicRegs, Places, DumpBody
      <3>2. /\ cntxt' \in Contexts /\ HasContext(c)'
            /\ \A d \in CPUs : HasContext(d) => HasContext(d)'
        <4>1. CASE PutContext([kind |-> "panic", cpu |-> c, fault |-> cause[c]])
          BY <3>1, <4>1, PutContextKeeps
        <4>2. CASE Shown(c) /\ UNCHANGED <<cntxt, overflow>>
          <5>1. \A d \in CPUs : HasContext(d) => HasContext(d)'
            BY <1>2, <3>1, <4>2
          <5>2. HasContext(c)
            <6>1. ASSUME ~NoneOf(stack, c, {"die_print"}) PROVE raced
              <7>1. PICK i \in DOMAIN stack[c] : stack[c][i] = "die_print"
                BY <6>1 DEF NoneOf
              <7>2. 1 \in DOMAIN stack[c] /\ stack[c][1] = "panic_regs"
                BY <1>1, <3>1, PopFrames DEF At
              <7>3. "die_print" \in Writing /\ "panic_regs" \in Writing /\ i # 1
                BY <7>1, <7>2 DEF Writing, DieBody, DumpBody
              <7>4. ~Single(stack, Writing)
                BY <7>1, <7>2, <7>3 DEF Single
              <7> QED
                BY <7>4 DEF HandlerInv
            <6> QED
              BY <4>2, <6>1 DEF Shown, ContextInv, HasContext
          <5> QED
            BY <1>1, <4>2, <5>1, <5>2
        <4> QED
          BY <2>3, <4>1, <4>2 DEF DumpPanicRegs
      <3>3. Neutral({"die_print"}) /\ Neutral({"runqueues"})
        BY <1>1, <3>1, GotoCounts
      <3>4. \A d \in CPUs \ {c} : NoneOf(stack, d, {"others"}) <=> NoneOf(stack', d, {"others"})
        BY <1>1, <3>1, GotoCounts
      <3>5. ASSUME NEW d \in CPUs, ~NoneOf(stack', d, {"others"}) PROVE HasContext(d)'
        <4>1. CASE d = c
          BY <3>2, <4>1
        <4>2. CASE d # c
          BY <3>2, <3>4, <3>5, <4>2 DEF ContextInv
        <4> QED
          BY <4>1, <4>2
      <3>6. die_cpu' \in CPUs
              => HasContext(die_cpu)' \/ ~NoneOf(stack', die_cpu', {"die_print"})
        BY <3>1, <3>2, <3>3 DEF ContextInv, Neutral, HasContext
      <3> QED
        BY <3>1, <3>2, <3>3, <3>5, <3>6 DEF ContextInv, Neutral
    <2>4. ASSUME NEW p \in DOMAIN NextPart, DumpPart(c, p) PROVE ContextInv'
      <3>1. /\ At(c, p) /\ Goto(c, NextPart[p]) /\ NextPart[p] \in Places /\ p \in DumpBody
            /\ UNCHANGED <<cntxt, overflow, raced, cause, faults, die_cpu>>
            /\ sections' \in {sections, sections \cup {p}}
        BY <2>4, PartFacts, PlaceFacts DEF DumpPart
      <3>2. \A d \in CPUs : HasContext(d) => HasContext(d)'
        BY <1>2, <3>1
      <3>3. Neutral({"die_print"})
        <4>1. p # "die_print" /\ NextPart[p] # "die_print"
          BY PartFacts DEF DumpBody
        <4> QED
          BY <1>1, <3>1, <4>1, GotoCounts
      <3>4. die_cpu' \in CPUs
              => HasContext(die_cpu)' \/ ~NoneOf(stack', die_cpu', {"die_print"})
        BY <3>1, <3>2, <3>3 DEF ContextInv, Neutral, HasContext
      <3>5. \A d \in CPUs \ {c} :
              /\ NoneOf(stack, d, {"others"}) <=> NoneOf(stack', d, {"others"})
              /\ NoneOf(stack, d, {"runqueues"}) <=> NoneOf(stack', d, {"runqueues"})
        BY <1>1, <3>1, GotoCounts
      <3>6. CASE p = "others"
        <4>1. HasContext(c)
          BY <1>1, <3>1, <3>6, AtSome DEF ContextInv
        <4>2. ASSUME NEW d \in CPUs \ {c} PROVE NoneOf(stack', d, {"runqueues"})
          <5>1. Single(stack, DumpBody)
            BY <1>1, <3>1, AtSome DEF OnceInv
          <5>2. 1 \in DOMAIN stack[c] /\ stack[c][1] \in DumpBody
            BY <1>1, <3>1, PopFrames DEF At
          <5>3. "runqueues" \in DumpBody
            BY DEF DumpBody
          <5>4. NoneOf(stack, d, {"runqueues"})
            BY <5>1, <5>2, <5>3 DEF Single, NoneOf
          <5> QED
            BY <3>5, <5>4
        <4> QED
          BY <1>1, <3>1, <3>2, <3>4, <3>5, <4>1, <4>2 DEF ContextInv
      <3>7. CASE p # "others"
        <4>1. NextPart[p] # "others" /\ NextPart[p] # "runqueues"
          BY <3>7, PartFacts
        <4>2. Neutral({"others"})
          BY <1>1, <3>1, <3>7, <4>1, GotoCounts
        <4>3. "others" \in sections' => "others" \in sections
          BY <3>1, <3>7
        <4>4. ASSUME "others" \in sections, ~NoneOf(stack', c, {"runqueues"}) PROVE HasContext(c)
          <5>1. CASE p = "runqueues"
            BY <1>1, <3>1, <4>4, <5>1, AtSome DEF ContextInv
          <5>2. CASE p # "runqueues"
            BY <1>1, <3>1, <4>1, <4>4, <5>2, GotoCounts DEF ContextInv, Neutral
          <5> QED
            BY <5>1, <5>2
        <4> QED
          BY <1>1, <3>1, <3>2, <3>4, <3>5, <4>2, <4>3, <4>4 DEF ContextInv, Neutral
      <3> QED
        BY <3>6, <3>7
    <2>5. CASE DumpClear(c)
      <3>1. "clear" \notin Watched /\ "clear" \in Places
        BY DEF Places, DumpBody
      <3> QED
        BY <1>5, <2>5, <3>1 DEF DumpClear
    <2> QED
      BY <1>7, <2>1, <2>2, <2>3, <2>4, <2>5 DEF Dump
  <1> QED
    BY <1>3, <1>4, <1>6, <1>7 DEF Next

-----------------------------------------------------------------------------
(* The buffers are registered in order, and none twice. *)
BootInv ==
  /\ boot \in (1..Len(Buffers)) \X {"alloc", "add", "publish"} \cup {0} \X {"panic", "die", "done"}
  /\ boot[2] \in {"alloc", "add", "publish"} => published \subseteq {Buffers[i] : i \in 1..boot[1] - 1}
  /\ boot[2] \notin {"add", "publish"} => live = published /\ regions = published
  /\ boot[2] = "add" => live = published \cup {Buffers[boot[1]]} /\ regions = published
  /\ boot[2] = "publish" => /\ live = published \cup {Buffers[boot[1]]}
                            /\ regions = published \cup {Buffers[boot[1]]}

LEMMA BuffersDistinct ==
  /\ Len(Buffers) \in Nat /\ Len(Buffers) >= 1
  /\ \A i, j \in 1..Len(Buffers) : Buffers[i] = Buffers[j] => i = j
  <1>1. CASE SlubDebug
    <2>1. /\ Len(Buffers) = 4 /\ Buffers[1] = "KRUNQUEUE" /\ Buffers[2] = "KCNTXT"
          /\ Buffers[3] = "MEMINFO" /\ Buffers[4] = "SLABINFO"
      BY <1>1 DEF Buffers
    <2> QED
      BY <2>1
  <1>2. CASE ~SlubDebug
    <2>1. Buffers = <<"KRUNQUEUE", "KCNTXT", "MEMINFO">>
      BY <1>2 DEF Buffers
    <2> QED
      BY <2>1
  <1> QED
    BY <1>1, <1>2

(* Past a buffer: what is published lies before the next. *)
LEMMA PastBuffer ==
  ASSUME BootInv, boot[2] \in {"alloc", "add", "publish"}, NextBuffer,
         published' \subseteq published \cup {Buffers[boot[1]]},
         live' = published', regions' = published'
  PROVE  BootInv'
  <1>1. boot[1] \in 1..Len(Buffers)
    BY DEF BootInv
  <1>2. CASE boot[1] < Len(Buffers)
    <2>1. boot' = <<boot[1] + 1, "alloc">> /\ boot'[1] = boot[1] + 1 /\ boot'[2] = "alloc"
      BY <1>2 DEF NextBuffer
    <2>2. boot[1] + 1 \in 1..Len(Buffers) /\ 1..(boot[1] + 1) - 1 = 1..boot[1]
          /\ boot[1] \in 1..boot[1] /\ 1..boot[1] - 1 \subseteq 1..boot[1]
      BY <1>1, <1>2, BuffersDistinct
    <2>3. published' \subseteq {Buffers[i] : i \in 1..boot'[1] - 1}
      <3>1. published \subseteq {Buffers[i] : i \in 1..boot[1] - 1}
        BY DEF BootInv
      <3>2. published' \subseteq {Buffers[i] : i \in 1..boot[1]}
        BY <2>2, <3>1
      <3> QED
        BY <2>1, <2>2, <3>2
    <2>4. boot' \in (1..Len(Buffers)) \X {"alloc", "add", "publish"}
      BY <2>1, <2>2
    <2> QED
      BY <2>1, <2>3, <2>4 DEF BootInv, Buffers
  <1>3. CASE ~(boot[1] < Len(Buffers))
    <2>1. boot' = <<0, "panic">> /\ boot'[2] = "panic"
      BY <1>3 DEF NextBuffer
    <2> QED
      BY <2>1 DEF BootInv, Buffers
  <1> QED
    BY <1>2, <1>3

LEMMA NextBootInv ==
  ASSUME BootInv, [Next]_vars
  PROVE  BootInv'
  <1> DEFINE b == Buffers[boot[1]]
  <1>1. CASE UNCHANGED boot_vars
    BY <1>1 DEF BootInv, boot_vars, Buffers
  <1>2. CASE AllocBuffer
    <2>1. /\ boot[2] = "alloc" /\ live = published /\ regions = published
          /\ UNCHANGED <<regions, published>>
      BY <1>2 DEF AllocBuffer, Booting, BootInv
    <2>2. CASE live' = live \cup {b} /\ boot' = <<boot[1], "add">>
      <3>1. boot'[1] = boot[1] /\ boot'[2] = "add"
        BY <2>2
      <3>2. boot' \in (1..Len(Buffers)) \X {"alloc", "add", "publish"}
        BY <2>1, <2>2 DEF BootInv
      <3> QED
        BY <2>1, <2>2, <3>1, <3>2 DEF BootInv, Buffers
    <2>3. CASE NextBuffer /\ UNCHANGED live
      BY <2>1, <2>3, PastBuffer
    <2> QED
      BY <1>2, <2>2, <2>3 DEF AllocBuffer
  <1>3. CASE AddEntry
    <2>1. /\ boot[2] = "add" /\ live = published \cup {b} /\ regions = published
          /\ boot[1] \in 1..Len(Buffers)
          /\ published \subseteq {Buffers[i] : i \in 1..boot[1] - 1}
      BY <1>3 DEF AddEntry, Booting, BootInv
    <2>2. CASE /\ regions' = regions \cup {b}
               /\ boot' = <<boot[1], "publish">>
               /\ UNCHANGED <<live, published>>
      <3>1. boot'[1] = boot[1] /\ boot'[2] = "publish"
        BY <2>2
      <3>2. boot' \in (1..Len(Buffers)) \X {"alloc", "add", "publish"}
        BY <2>1, <2>2
      <3> QED
        BY <2>1, <2>2, <3>1, <3>2 DEF BootInv, Buffers
    <2>3. CASE Refused(b) /\ NextBuffer /\ UNCHANGED regions
      <3>1. b \notin published
        <4>1. \A i \in 1..boot[1] - 1 : i \in 1..Len(Buffers) /\ i # boot[1]
          BY <2>1, BuffersDistinct
        <4> QED
          BY <2>1, <4>1, BuffersDistinct
      <3>2. live' = published' /\ regions' = published' /\ published' = published
        BY <2>1, <2>3, <3>1 DEF Refused
      <3> QED
        BY <2>1, <2>3, <3>2, PastBuffer
    <2> QED
      BY <1>3, <2>2, <2>3 DEF AddEntry
  <1>4. CASE Publish
    <2>1. /\ boot[2] = "publish" /\ live = published \cup {b} /\ regions = published \cup {b}
          /\ published' = published \cup {b} /\ NextBuffer /\ UNCHANGED <<live, regions>>
      BY <1>4 DEF Publish, Booting, BootInv
    <2> QED
      BY <2>1, PastBuffer
  <1>5. CASE RegisterHandlers
    <2>1. /\ boot[2] \in {"panic", "die"} /\ boot' \in {<<0, "die">>, <<0, "done">>}
          /\ UNCHANGED <<live, regions, published>>
      BY <1>5 DEF RegisterHandlers, Booting
    <2>2. boot' \in {0} \X {"panic", "die", "done"} /\ boot'[2] \in {"die", "done"}
      BY <2>1
    <2> QED
      BY <2>1, <2>2 DEF BootInv, Buffers
  <1>6. ASSUME NEW c \in CPUs, Die(c) \/ Dump(c) \/ Kernel(c) PROVE UNCHANGED boot_vars
    <2>1. CASE Die(c)
      BY <2>1 DEF Die, DieTest, DieSet, DieBuf, DiePrint, DieClear
    <2>2. CASE Dump(c)
      BY <2>2 DEF Dump, DumpTest, DumpClaim, DumpSet, DumpPanicRegs, DumpPart, DumpClear
    <2>3. CASE Kernel(c)
      BY <2>3 DEF Kernel, Oops, Killed, Died, Panic, StopCpu, Reset, CallDump
    <2> QED
      BY <1>6, <2>1, <2>2, <2>3
  <1> QED
    BY <1>1, <1>2, <1>3, <1>4, <1>5, <1>6 DEF Next, Boot, vars

-----------------------------------------------------------------------------
(* The inductive invariant of the handlers. *)
IndInv == BootInv /\ HandlerInv /\ TopInv /\ OnceInv /\ ContextInv

LEMMA InitIndInv == Init => IndInv
  <1> SUFFICES ASSUME Init PROVE IndInv
    OBVIOUS
  <1>1. stack \in Stacks /\ \A c \in CPUs : DOMAIN stack[c] = {}
    BY DEF Init, Stacks
  <1>2. \A P : None(stack, P) /\ Single(stack, P) /\ \A c \in CPUs : NoneOf(stack, c, P)
    BY <1>1 DEF None, NoneOf, Single
  <1>3. BootInv
    BY BuffersDistinct DEF Init, BootInv
  <1>4. HandlerInv
    BY <1>1, <1>2 DEF Init, HandlerInv
  <1>5. OnceInv
    BY <1>2 DEF Init, OnceInv
  <1>6. ContextInv
    BY <1>2, PanicAssumption DEF Init, ContextInv, Contexts
  <1>7. TopInv
    BY <1>1 DEF TopInv
  <1> QED
    BY <1>3, <1>4, <1>5, <1>6, <1>7 DEF IndInv

LEMMA AlwaysIndInv == Spec => []IndInv
  <1>1. IndInv /\ [Next]_vars => IndInv'
    BY NextBootInv, NextHandlerInv, NextTopInv, NextOnceInv, NextContextInv DEF IndInv, HandlerInv
  <1> QED
    BY <1>1, InitIndInv, PTL DEF Spec

(* What the handlers may write to is allocated and a region of the minidump,
   and md_register_panic_entries keeps no buffer it could not register. *)
THEOREM BuffersAlwaysOwned == Spec => []BuffersOwned
  <1>1. IndInv => BuffersOwned
    BY DEF IndInv, BootInv, BuffersOwned
  <1> QED
    BY <1>1, AlwaysIndInv, PTL

(* The body of md_dump_process is entered once at most. *)
THEOREM AtMostOneDump == Spec => []DumpedOnce
  <1>1. IndInv => DumpedOnce
    BY DEF IndInv, OnceInv, DumpedOnce
  <1> QED
    BY <1>1, AlwaysIndInv, PTL

(* Two frames write at once only after two were between the test of
   md_in_oops_handler and its setting. *)
THEOREM AtMostOneWriter == Spec => []OneWriter
  <1>1. IndInv => OneWriter
    BY FramesCount DEF IndInv, HandlerInv, OneWriter, Writers, Writing
  <1> QED
    BY <1>1, AlwaysIndInv, PTL

(* md_in_oops_handler is left set behind the last writer by a task killed inside
   the dump and by nothing else; it then stays set and no handler writes again,
   unless CPUs raced. *)
THEOREM FlagAlwaysOwned == Spec => []FlagMeansWriter
  <1>1. IndInv => FlagMeansWriter
    <2> SUFFICES ASSUME IndInv PROVE FlagMeansWriter
      OBVIOUS
    <2>1. Writers = {} <=> None(stack, Writing)
      BY FramesCount DEF IndInv, HandlerInv, Writers, Writing
    <2> QED
      BY <2>1 DEF IndInv, HandlerInv, FlagMeansWriter
  <1> QED
    BY <1>1, AlwaysIndInv, PTL

(* A dump that shows contexts shows that of the CPU it runs on. *)
THEOREM AlwaysOwnContext == Spec => []OwnContext
  <1>1. IndInv => OwnContext
    <2> SUFFICES ASSUME IndInv, NEW c \in CPUs, "others" \in sections, At(c, "runqueues")
                 PROVE  HasContext(c)
      BY DEF OwnContext, HasContext
    <2>1. ~NoneOf(stack, c, {"runqueues"})
      BY AtSome DEF IndInv, HandlerInv
    <2> QED
      BY <2>1 DEF IndInv, ContextInv
  <1> QED
    BY <1>1, AlwaysIndInv, PTL
=============================================================================
