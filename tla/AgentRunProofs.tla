---------------------------- MODULE AgentRunProofs ----------------------------
(***************************************************************************)
(* The provider sees the transcript that listeners saw, a message that a   *)
(* caller handed over is in one place until it is cleared or lost, and an  *)
(* idle agent has a transcript that the provider accepts, for every number *)
(* of runs, messages, tool calls, errors and aborts.                       *)
(*                                                                         *)
(* The second one is a matter of counting: MessagesAccounted counts the    *)
(* places of a message, so the invariant keeps the books, message by       *)
(* message, over the transcript, the pending messages and the two queues.  *)
(* The third one needs what inspection reports while calls are under way:  *)
(* Awaiting names the calls whose results are still to come.               *)
(***************************************************************************)
EXTENDS AgentRun, SequenceTheorems, FiniteSetTheorems, WellFoundedInduction, TLAPS

(***************************************************************************)
(* Sequences: concatenation by index, and what drain() takes and leaves.   *)
(***************************************************************************)

(* Concatenation, one element and none, as operators of their own. *)
cat(s, t) == s \o t
one(x) == <<x>>
none == <<>>

(* u is s followed by t, by index. *)
CatOf(T, s, t, u) ==
  /\ u \in Seq(T) /\ Len(s) \in Nat /\ Len(t) \in Nat /\ Len(u) = Len(s) + Len(t)
  /\ DOMAIN s = 1..Len(s) /\ DOMAIN t = 1..Len(t) /\ DOMAIN u = 1..(Len(s) + Len(t))
  /\ \A i \in 1..Len(s) : u[i] = s[i]
  /\ \A i \in 1..Len(t) : u[Len(s) + i] = t[i]

(* The elements of a concatenation, by index. *)
LEMMA CatIs ==
  ASSUME NEW T, NEW s \in Seq(T), NEW t \in Seq(T), NEW u, u = cat(s, t)
  PROVE  CatOf(T, s, t, u)
<1>1. /\ u \in Seq(T) /\ Len(u) = Len(s) + Len(t)
      /\ \A i \in 1..(Len(s) + Len(t)) : u[i] = IF i <= Len(s) THEN s[i] ELSE t[i - Len(s)]
  BY ConcatProperties DEF cat
<1>2. Len(s) \in Nat /\ Len(t) \in Nat /\ DOMAIN s = 1..Len(s) /\ DOMAIN t = 1..Len(t) /\ DOMAIN u = 1..Len(u)
  BY <1>1, LenProperties
<1>3. ASSUME NEW i \in 1..Len(s) PROVE u[i] = s[i]
  BY <1>1, <1>2
<1>4. ASSUME NEW i \in 1..Len(t) PROVE u[Len(s) + i] = t[i]
  <2>1. Len(s) + i \in 1..(Len(s) + Len(t)) /\ ~(Len(s) + i <= Len(s)) /\ Len(s) + i - Len(s) = i
    BY <1>2
  <2>2. QED
    BY <1>1, <2>1
<1>5. QED
  BY <1>1, <1>2, <1>3, <1>4 DEF CatOf

(* An index of a concatenation is one of either part. *)
LEMMA CatSplit ==
  ASSUME NEW m \in Nat, NEW n \in Nat, NEW i \in 1..(m + n)
  PROVE  i \in 1..m \/ \E j \in 1..n : i = m + j
<1>1. CASE i <= m
  BY <1>1
<1>2. CASE i > m
  <2>1. i - m \in 1..n /\ i = m + (i - m)
    BY <1>2
  <2>2. QED
    BY <2>1
<1>3. QED
  BY <1>1, <1>2

(* One element and none are sequences. *)
LEMMA SmallSequences ==
  ASSUME NEW T
  PROVE  none \in Seq(T) /\ \A x \in T : one(x) \in Seq(T)
BY DEF none, one

(* One element and none, by index. *)
LEMMA SmallIndices ==
  DOMAIN none = {} /\ \A x : DOMAIN one(x) = {1} /\ one(x)[1] = x
<1>1. DOMAIN none = {}
  BY DEF none
<1>2. ASSUME NEW x PROVE DOMAIN one(x) = {1} /\ one(x)[1] = x
  <2>1. DOMAIN <<x>> = 1..1 /\ <<x>>[1] = x
    OBVIOUS
  <2>2. QED
    BY <2>1 DEF one
<1>3. QED
  BY <1>1, <1>2

(* None is the unit of concatenation. *)
LEMMA CatNone ==
  ASSUME NEW T, NEW s \in Seq(T)
  PROVE  cat(s, none) = s /\ cat(none, s) = s
BY ConcatEmptySeq DEF cat, none

(* Appending is concatenation with one element. *)
LEMMA AppendCat ==
  ASSUME NEW T, NEW s \in Seq(T), NEW x \in T
  PROVE  Append(s, x) = cat(s, one(x)) /\ cat(s, one(x)) \in Seq(T)
BY AppendIsConcat, AppendProperties DEF cat, one

(* A sequence that is not empty is its head and its tail. *)
LEMMA HeadTail ==
  ASSUME NEW T, NEW s \in Seq(T), s # <<>>
  PROVE  s = cat(one(Head(s)), Tail(s)) /\ Head(s) \in T /\ Tail(s) \in Seq(T)
<1>1. Head(s) \in T /\ Tail(s) \in Seq(T) /\ Len(Tail(s)) = Len(s) - 1 /\ \A i \in 1..Len(Tail(s)) : Tail(s)[i] = s[i + 1]
  BY HeadTailProperties
<1>2. Len(s) \in Nat /\ Len(s) # 0 /\ Head(s) = s[1]
  BY EmptySeq
<1>3. PICK o, t, u : o = one(Head(s)) /\ t = Tail(s) /\ u = cat(o, t)
  OBVIOUS
<1>4. o \in Seq(T) /\ t \in Seq(T) /\ Len(o) = 1 /\ o[1] = s[1]
  BY <1>1, <1>2, <1>3 DEF one
<1>5. u \in Seq(T) /\ Len(u) = Len(s) /\ (\A i \in 1..Len(o) : u[i] = o[i]) /\ \A i \in 1..Len(t) : u[Len(o) + i] = t[i]
  <2>1. /\ u \in Seq(T) /\ Len(u) = Len(o) + Len(t)
        /\ \A i \in 1..Len(o) : u[i] = o[i]
        /\ \A i \in 1..Len(t) : u[Len(o) + i] = t[i]
    <3>1. CatOf(T, o, t, u)
      BY <1>3, <1>4, CatIs
    <3>2. QED
      BY <3>1 DEF CatOf
  <2>2. QED
    BY <1>1, <1>2, <1>3, <1>4, <2>1
<1>6. ASSUME NEW i \in 1..Len(s) PROVE u[i] = s[i]
  <2>1. CASE i = 1
    BY <1>4, <1>5, <2>1
  <2>2. CASE i # 1
    <3>1. i - 1 \in 1..Len(t) /\ 1 + (i - 1) = i /\ (i - 1) + 1 = i
      BY <1>1, <1>2, <1>3, <2>2
    <3>2. u[1 + (i - 1)] = t[i - 1] /\ t[i - 1] = s[(i - 1) + 1]
      BY <1>1, <1>3, <1>4, <1>5, <3>1
    <3>3. QED
      BY <3>1, <3>2
  <2>3. QED
    BY <2>1, <2>2
<1>7. u = s
  BY <1>5, <1>6, SeqEqual
<1>8. QED
  BY <1>1, <1>3, <1>7

(* What drain takes and what it leaves are the queue. *)
LEMMA DrainSplits ==
  ASSUME NEW T, NEW queue \in Seq(T), NEW mode
  PROVE  /\ queue = cat(drained(queue, mode), rest(queue, mode))
         /\ drained(queue, mode) \in Seq(T) /\ rest(queue, mode) \in Seq(T)
<1>1. CASE mode = "all" \/ queue = <<>>
  <2>1. drained(queue, mode) = queue /\ rest(queue, mode) = none
    BY <1>1 DEF drained, rest, none
  <2>2. QED
    BY <2>1, CatNone, SmallSequences
<1>2. CASE ~(mode = "all" \/ queue = <<>>)
  <2>1. drained(queue, mode) = one(Head(queue)) /\ rest(queue, mode) = Tail(queue)
    BY <1>2 DEF drained, rest, one
  <2>2. QED
    BY <1>2, <2>1, HeadTail, SmallSequences
<1>3. QED
  BY <1>1, <1>2

-----------------------------------------------------------------------------
(***************************************************************************)
(* How often a message of a caller's is in a sequence.                     *)
(***************************************************************************)

(* How often the caller's message n is in s. *)
count(s, n) == Cardinality(numbered(s, n))
(* x is the caller's message n. *)
isNumber(x, n) == x.role = "user" /\ x.id[2] = n

(* The places of message n are finitely many. *)
LEMMA NumberedFinite ==
  ASSUME NEW T, NEW s \in Seq(T), NEW n
  PROVE  IsFiniteSet(numbered(s, n)) /\ count(s, n) \in Nat
<1>1. numbered(s, n) \subseteq 1..Len(s) /\ Len(s) \in Nat
  BY LenProperties DEF numbered
<1>2. IsFiniteSet(1..Len(s))
  BY <1>1, FS_Interval
<1>3. IsFiniteSet(numbered(s, n))
  BY <1>1, <1>2, FS_Subset
<1>4. QED
  BY <1>3, FS_CardinalityType DEF count

(* What is nowhere in s is counted zero times, what is there is not. *)
LEMMA CountZero ==
  ASSUME NEW T, NEW s \in Seq(T), NEW n
  PROVE  count(s, n) = 0 <=> \A x \in ToSet(s) : ~isNumber(x, n)
<1>1. count(s, n) = 0 <=> numbered(s, n) = {}
  BY NumberedFinite, FS_EmptySet DEF count
<1>2. QED
  BY <1>1 DEF numbered, isNumber, ToSet

(* One element is counted once or not at all, none is not counted. *)
LEMMA CountSmall ==
  ASSUME NEW n
  PROVE  count(none, n) = 0 /\ \A x : count(one(x), n) = IF isNumber(x, n) THEN 1 ELSE 0
<1>1. numbered(none, n) = {}
  BY SmallIndices DEF numbered
<1>2. ASSUME NEW x PROVE numbered(one(x), n) = IF isNumber(x, n) THEN {1} ELSE {}
  BY SmallIndices DEF numbered, isNumber
<1>3. Cardinality({}) = 0 /\ Cardinality({1}) = 1
  BY FS_EmptySet, FS_Singleton
<1>4. QED
  BY <1>1, <1>2, <1>3 DEF count

(* The counts of a concatenation are those of its parts. *)
LEMMA CountCat ==
  ASSUME NEW T, NEW s \in Seq(T), NEW t \in Seq(T), NEW n
  PROVE  count(cat(s, t), n) = count(s, n) + count(t, n)
<1>1. PICK u : u = cat(s, t)
  OBVIOUS
<1>2. /\ u \in Seq(T) /\ Len(s) \in Nat /\ Len(t) \in Nat /\ Len(u) = Len(s) + Len(t)
      /\ DOMAIN s = 1..Len(s) /\ DOMAIN t = 1..Len(t) /\ DOMAIN u = 1..(Len(s) + Len(t))
      /\ \A i \in 1..Len(s) : u[i] = s[i]
      /\ \A i \in 1..Len(t) : u[Len(s) + i] = t[i]
  <2>1. CatOf(T, s, t, u)
    BY <1>1, CatIs
  <2>2. QED
    BY <2>1 DEF CatOf
<1>3. PICK A, B, D : A = numbered(s, n) /\ B = numbered(t, n) /\ D = numbered(u, n)
  OBVIOUS
<1>4. PICK C : C = {i + Len(s) : i \in B}
  OBVIOUS
<1>5. A = numbered(s, n) /\ B = numbered(t, n) /\ C = {i + Len(s) : i \in B} /\ D = numbered(u, n)
  BY <1>3, <1>4
<1>6. IsFiniteSet(A) /\ IsFiniteSet(B) /\ A \subseteq 1..Len(s) /\ B \subseteq 1..Len(t)
  <2>1. IsFiniteSet(A) /\ IsFiniteSet(B)
    BY <1>5, NumberedFinite
  <2>2. QED
    BY <1>2, <1>5, <2>1 DEF numbered
<1>7. D = A \cup C
  <2>1. ASSUME NEW i \in 1..Len(s) PROVE i \in D <=> i \in A
    BY <1>2, <1>5 DEF numbered
  <2>2. ASSUME NEW j \in 1..Len(t) PROVE Len(s) + j \in D <=> j \in B
    BY <1>2, <1>5 DEF numbered
  <2>3. D \subseteq 1..(Len(s) + Len(t))
    BY <1>2, <1>5 DEF numbered
  <2>4. D \subseteq A \cup C
    <3>1. SUFFICES ASSUME NEW i \in D PROVE i \in A \cup C
      OBVIOUS
    <3>2. CASE i \in 1..Len(s)
      BY <2>1, <3>2
    <3>3. CASE \E j \in 1..Len(t) : i = Len(s) + j
      <4>1. PICK j \in 1..Len(t) : i = Len(s) + j
        BY <3>3
      <4>2. j \in B /\ i = j + Len(s)
        BY <1>2, <2>2, <4>1
      <4>3. QED
        BY <1>5, <4>2
    <3>4. i \in 1..(Len(s) + Len(t)) /\ Len(s) \in Nat /\ Len(t) \in Nat
      BY <1>2, <2>3
    <3>5. QED
      BY <3>2, <3>3, <3>4, CatSplit
  <2>5. A \cup C \subseteq D
    <3>1. A \subseteq D
      BY <1>6, <2>1
    <3>2. ASSUME NEW j \in B PROVE j + Len(s) \in D
      <4>1. j \in 1..Len(t) /\ j + Len(s) = Len(s) + j
        BY <1>2, <1>6
      <4>2. QED
        BY <2>2, <4>1
    <3>3. QED
      BY <1>5, <3>1, <3>2
  <2>6. QED
    BY <2>4, <2>5
<1>8. IsFiniteSet(C) /\ Cardinality(C) = Cardinality(B)
  <2>1. PICK f : f = [i \in B |-> i + Len(s)]
    OBVIOUS
  <2>2. \A i, j \in B : i # j => i + Len(s) # j + Len(s)
    BY <1>2, <1>6
  <2>3. f \in Bijection(B, C)
    <3>1. f \in [B -> C]
      BY <1>5, <2>1
    <3>2. \A i, j \in B : f[i] = f[j] => i = j
      BY <2>1, <2>2
    <3>3. \A c \in C : \E i \in B : f[i] = c
      BY <1>5, <2>1
    <3>4. QED
      BY <3>1, <3>2, <3>3 DEF Bijection, Injection, Surjection, IsInjective
  <2>4. QED
    BY <1>6, <2>3, FS_Bijection DEF ExistsBijection
<1>9. A \cap C = {}
  BY <1>2, <1>5, <1>6
<1>10. Cardinality(A) \in Nat /\ Cardinality(B) \in Nat /\ Cardinality(A \cap C) = 0
  BY <1>6, <1>9, FS_CardinalityType, FS_EmptySet
<1>11. Cardinality(A \cup C) = Cardinality(A) + Cardinality(C) - Cardinality(A \cap C)
  BY <1>6, <1>8, FS_Union
<1>12. Cardinality(D) = Cardinality(A) + Cardinality(B)
  BY <1>7, <1>8, <1>10, <1>11
<1>13. QED
  BY <1>1, <1>5, <1>12 DEF count

-----------------------------------------------------------------------------
(***************************************************************************)
(* Messages that were queued in the same way are in order.                 *)
(***************************************************************************)

(* x was queued before y, if they were queued in the same way. *)
precedes(x, y) ==
  x.role = "user" /\ y.role = "user" /\ x.id[1] = y.id[1] => x.id[2] < y.id[2]
(* Messages of the same queue are in order, within s and from s to t. *)
Ordered(s) == \A i, j \in DOMAIN s : i < j => precedes(s[i], s[j])
Before(s, t) == \A x \in ToSet(s), y \in ToSet(t) : precedes(x, y)

(* The elements of a concatenation are those of its parts. *)
LEMMA ElementsCat ==
  ASSUME NEW T, NEW s \in Seq(T), NEW t \in Seq(T)
  PROVE  ToSet(cat(s, t)) = ToSet(s) \cup ToSet(t)
<1>1. PICK u : u = cat(s, t)
  OBVIOUS
<1>2. CatOf(T, s, t, u)
  BY <1>1, CatIs
<1>3. ASSUME NEW i \in DOMAIN u PROVE u[i] \in ToSet(s) \cup ToSet(t)
  <2>1. CASE i \in 1..Len(s)
    BY <1>2, <2>1 DEF CatOf, ToSet
  <2>2. CASE \E j \in 1..Len(t) : i = Len(s) + j
    BY <1>2, <2>2 DEF CatOf, ToSet
  <2>3. QED
    <3>1. i \in 1..(Len(s) + Len(t)) /\ Len(s) \in Nat /\ Len(t) \in Nat
      BY <1>2 DEF CatOf
    <3>2. QED
      BY <2>1, <2>2, <3>1, CatSplit
<1>4. ASSUME NEW i \in DOMAIN s PROVE s[i] \in ToSet(u)
  <2>1. i \in DOMAIN u /\ u[i] = s[i]
    BY <1>2 DEF CatOf
  <2>2. QED
    BY <2>1 DEF ToSet
<1>5. ASSUME NEW i \in DOMAIN t PROVE t[i] \in ToSet(u)
  <2>1. Len(s) + i \in DOMAIN u /\ u[Len(s) + i] = t[i]
    BY <1>2 DEF CatOf
  <2>2. QED
    BY <2>1 DEF ToSet
<1>6. QED
  BY <1>1, <1>3, <1>4, <1>5 DEF ToSet

(* The element of one and those of none. *)
LEMMA ElementsSmall == ToSet(none) = {} /\ \A x : ToSet(one(x)) = {x}
BY SmallIndices DEF ToSet

(* The elements of a sequence are in its set. *)
LEMMA ElementsTyped ==
  ASSUME NEW T, NEW s \in Seq(T)
  PROVE  ToSet(s) \subseteq T
BY LenProperties DEF ToSet

(* A concatenation is in order when its parts are, one after the other. *)
LEMMA OrderedCat ==
  ASSUME NEW T, NEW s \in Seq(T), NEW t \in Seq(T)
  PROVE  Ordered(cat(s, t)) <=> Ordered(s) /\ Ordered(t) /\ Before(s, t)
<1>1. PICK u : u = cat(s, t)
  OBVIOUS
<1>2. CatOf(T, s, t, u)
  BY <1>1, CatIs
<1>3. ASSUME Ordered(u) PROVE Ordered(s) /\ Ordered(t) /\ Before(s, t)
  <2>1. Ordered(s)
    BY <1>2, <1>3 DEF CatOf, Ordered
  <2>2. Ordered(t)
    <3>1. SUFFICES ASSUME NEW i \in DOMAIN t, NEW j \in DOMAIN t, i < j PROVE precedes(t[i], t[j])
      BY DEF Ordered
    <3>2. /\ Len(s) + i \in DOMAIN u /\ Len(s) + j \in DOMAIN u /\ Len(s) + i < Len(s) + j
          /\ u[Len(s) + i] = t[i] /\ u[Len(s) + j] = t[j]
      BY <1>2, <3>1 DEF CatOf
    <3>3. QED
      BY <1>3, <3>2 DEF Ordered
  <2>3. ASSUME NEW i \in DOMAIN s, NEW j \in DOMAIN t PROVE precedes(s[i], t[j])
    <3>1. i \in DOMAIN u /\ Len(s) + j \in DOMAIN u /\ i < Len(s) + j /\ u[i] = s[i] /\ u[Len(s) + j] = t[j]
      BY <1>2 DEF CatOf
    <3>2. QED
      BY <1>3, <3>1 DEF Ordered
  <2>4. QED
    BY <2>1, <2>2, <2>3 DEF Before, ToSet
<1>4. ASSUME Ordered(s), Ordered(t), Before(s, t) PROVE Ordered(u)
  <2>1. SUFFICES ASSUME NEW i \in DOMAIN u, NEW j \in DOMAIN u, i < j PROVE precedes(u[i], u[j])
    BY DEF Ordered
  <2>2. CASE j \in 1..Len(s)
    <3>1. i \in DOMAIN s /\ j \in DOMAIN s /\ u[i] = s[i] /\ u[j] = s[j]
      BY <1>2, <2>1, <2>2 DEF CatOf
    <3>2. QED
      BY <1>4, <2>1, <3>1 DEF Ordered
  <2>3. CASE i \in 1..Len(s) /\ \E k \in 1..Len(t) : j = Len(s) + k
    <3>1. PICK k \in 1..Len(t) : j = Len(s) + k
      BY <2>3
    <3>2. i \in DOMAIN s /\ k \in DOMAIN t /\ u[i] = s[i] /\ u[j] = t[k]
      BY <1>2, <2>3, <3>1 DEF CatOf
    <3>3. QED
      BY <1>4, <3>2 DEF Before, ToSet
  <2>4. CASE (\E k \in 1..Len(t) : i = Len(s) + k) /\ \E k \in 1..Len(t) : j = Len(s) + k
    <3>1. PICK k \in 1..Len(t) : i = Len(s) + k
      BY <2>4
    <3>2. PICK l \in 1..Len(t) : j = Len(s) + l
      BY <2>4
    <3>3. k \in DOMAIN t /\ l \in DOMAIN t /\ k < l /\ u[i] = t[k] /\ u[j] = t[l]
      BY <1>2, <2>1, <3>1, <3>2 DEF CatOf
    <3>4. QED
      BY <1>4, <3>3 DEF Ordered
  <2>5. /\ i \in 1..Len(s) \/ \E k \in 1..Len(t) : i = Len(s) + k
        /\ j \in 1..Len(s) \/ \E k \in 1..Len(t) : j = Len(s) + k
    <3>1. i \in 1..(Len(s) + Len(t)) /\ j \in 1..(Len(s) + Len(t)) /\ Len(s) \in Nat /\ Len(t) \in Nat
      BY <1>2 DEF CatOf
    <3>2. QED
      BY <3>1, CatSplit
  <2>6. QED
    BY <2>2, <2>3, <2>4, <2>5
<1>5. QED
  BY <1>1, <1>3, <1>4

(* One element and none are in order. *)
LEMMA OrderedSmall == Ordered(none) /\ \A x : Ordered(one(x))
<1>1. Ordered(none)
  BY SmallIndices DEF Ordered
<1>2. ASSUME NEW x PROVE Ordered(one(x))
  <2>1. \A i, j \in {1} : ~(i < j)
    OBVIOUS
  <2>2. QED
    BY <2>1, SmallIndices DEF Ordered
<1>3. QED
  BY <1>1, <1>2

(* Before, by parts. *)
LEMMA BeforeCat ==
  ASSUME NEW T, NEW s \in Seq(T), NEW t \in Seq(T), NEW u
  PROVE  /\ Before(cat(s, t), u) <=> Before(s, u) /\ Before(t, u)
         /\ Before(u, cat(s, t)) <=> Before(u, s) /\ Before(u, t)
<1>1. ToSet(cat(s, t)) = ToSet(s) \cup ToSet(t)
  BY ElementsCat
<1>2. QED
  BY <1>1, Zenon DEF Before

(* Nothing is before and after everything. *)
LEMMA BeforeNone ==
  ASSUME NEW u
  PROVE  Before(none, u) /\ Before(u, none)
BY ElementsSmall DEF Before

-----------------------------------------------------------------------------
(***************************************************************************)
(* The books: every message that callers handed over, and where it is.     *)
(***************************************************************************)

(* The messages callers hand over, and all others. *)
UsersOf(k) == [role : {"user"}, id : {k} \X Nat, calls : {<<>>}]
Users == UsersOf("steer") \cup UsersOf("followUp") \cup UsersOf("prompt")
Others == [role : {"assistant"}, id : {"reply", "failure"}, calls : Seq(Nat)]
            \cup [role : {"toolResult"}, id : Nat, calls : {<<>>}]
All == Users \cup Others

Gone(g, n) == \E x \in g : isNumber(x, n)
total(m, p, s, f, n) == count(m, n) + count(p, n) + count(s, n) + count(f, n)

(***************************************************************************)
(* The books balance: m are the messages, p the pending ones, s and f the  *)
(* queues, nx how many there are, g those that are gone.                   *)
(***************************************************************************)
Typed(m, p, s, f, nx) ==
  m \in Seq(All) /\ p \in Seq(Users) /\ s \in Seq(UsersOf("steer")) /\ f \in Seq(UsersOf("followUp")) /\ nx \in Nat
Balanced(m, p, s, f, nx, g) ==
  \A n \in Nat : /\ total(m, p, s, f, n) = IF n < nx /\ ~Gone(g, n) THEN 1 ELSE 0
                 /\ Gone(g, n) => n < nx
InOrder(m, p, s, f) ==
  /\ Ordered(m) /\ Ordered(p) /\ Ordered(s) /\ Ordered(f)
  /\ Before(m, p) /\ Before(m, s) /\ Before(m, f) /\ Before(p, s) /\ Before(p, f)
Books(m, p, s, f, nx, g) == Typed(m, p, s, f, nx) /\ Balanced(m, p, s, f, nx, g) /\ InOrder(m, p, s, f)

(* A sequence over a set is one over a larger set. *)
LEMMA Wider ==
  ASSUME NEW S, NEW T, S \subseteq T, NEW s \in Seq(S)
  PROVE  s \in Seq(T)
<1>1. Len(s) \in Nat /\ s \in [1..Len(s) -> S]
  BY LenProperties
<1>2. s \in [1..Len(s) -> T]
  BY <1>1
<1>3. QED
  BY <1>1, <1>2

(* All four are sequences of messages, with counts that are numbers. *)
LEMMA BooksTyped ==
  ASSUME NEW m, NEW p, NEW s, NEW f, NEW nx, Typed(m, p, s, f, nx)
  PROVE  /\ m \in Seq(All) /\ p \in Seq(All) /\ s \in Seq(All) /\ f \in Seq(All) /\ nx \in Nat
         /\ \A n : count(m, n) \in Nat /\ count(p, n) \in Nat /\ count(s, n) \in Nat /\ count(f, n) \in Nat
<1>1. UsersOf("steer") \subseteq All /\ UsersOf("followUp") \subseteq All /\ Users \subseteq All
  BY DEF All, Users
<1>2. m \in Seq(All) /\ p \in Seq(All) /\ s \in Seq(All) /\ f \in Seq(All) /\ nx \in Nat
  BY <1>1, Wider DEF Typed
<1>3. QED
  BY <1>2, NumberedFinite

(* Messages that callers hand over have a number; the other ones have none. *)
LEMMA UsersNumbered ==
  /\ \A k, x : x \in UsersOf(k) => x.role = "user" /\ x.id[1] = k /\ x.id[2] \in Nat
  /\ \A x \in All : x.role = "user" => x.id[2] \in Nat
  /\ \A x \in Others : x.role # "user"
<1>1. ASSUME NEW k, NEW x \in UsersOf(k) PROVE x.role = "user" /\ x.id[1] = k /\ x.id[2] \in Nat
  <2>1. x.role = "user" /\ x.id \in {k} \X Nat
    BY DEF UsersOf
  <2>2. QED
    BY <2>1
<1>2. ASSUME NEW x \in Others PROVE x.role # "user"
  BY DEF Others
<1>3. QED
  BY <1>1, <1>2 DEF All, Users

(* The numbers given out are below the next one. *)
LEMMA BooksBelow ==
  ASSUME NEW m, NEW p, NEW s, NEW f, NEW nx, NEW g, Books(m, p, s, f, nx, g),
         NEW x \in ToSet(m) \cup ToSet(p) \cup ToSet(s) \cup ToSet(f), x.role = "user"
  PROVE  x.id[2] \in Nat /\ x.id[2] < nx
<1>1. /\ m \in Seq(All) /\ p \in Seq(All) /\ s \in Seq(All) /\ f \in Seq(All) /\ nx \in Nat
      /\ \A n : count(m, n) \in Nat /\ count(p, n) \in Nat /\ count(s, n) \in Nat /\ count(f, n) \in Nat
  BY BooksTyped DEF Books
<1>2. x \in All
  BY <1>1, ElementsTyped
<1>3. PICK n : n = x.id[2]
  OBVIOUS
<1>4. n \in Nat /\ isNumber(x, n)
  BY <1>2, <1>3, UsersNumbered DEF isNumber
<1>5. count(m, n) # 0 \/ count(p, n) # 0 \/ count(s, n) # 0 \/ count(f, n) # 0
  BY <1>1, <1>4, CountZero
<1>6. total(m, p, s, f, n) # 0
  BY <1>1, <1>5 DEF total
<1>7. QED
  BY <1>3, <1>4, <1>6 DEF Books, Balanced

(* A new message is after everything. *)
LEMMA NewIsLast ==
  ASSUME NEW m, NEW p, NEW s, NEW f, NEW nx, NEW g, Books(m, p, s, f, nx, g), NEW x, x.id[2] = nx
  PROVE  Before(m, one(x)) /\ Before(p, one(x)) /\ Before(s, one(x)) /\ Before(f, one(x))
<1>1. ASSUME NEW y \in ToSet(m) \cup ToSet(p) \cup ToSet(s) \cup ToSet(f) PROVE precedes(y, x)
  BY BooksBelow DEF precedes
<1>2. QED
  BY <1>1, ElementsSmall DEF Before

-----------------------------------------------------------------------------
(***************************************************************************)
(* A caller hands over one more message.                                   *)
(***************************************************************************)

(* One more message of a caller's: it is counted once, under its number. *)
LEMMA BalancedNew ==
  ASSUME NEW m, NEW p, NEW s, NEW f, NEW nx, NEW g, Books(m, p, s, f, nx, g),
         NEW a, NEW b, NEW c, NEW d, NEW k, NEW x, x \in UsersOf(k), x.id[2] = nx,
         \A n : total(a, b, c, d, n) = total(m, p, s, f, n) + count(one(x), n)
  PROVE  Balanced(a, b, c, d, nx + 1, g)
<1>1. nx \in Nat
  BY DEF Books, Typed
<1>2. SUFFICES ASSUME NEW n \in Nat
               PROVE  /\ total(a, b, c, d, n) = IF n < nx + 1 /\ ~Gone(g, n) THEN 1 ELSE 0
                      /\ Gone(g, n) => n < nx + 1
  BY DEF Balanced
<1>3. /\ total(m, p, s, f, n) = IF n < nx /\ ~Gone(g, n) THEN 1 ELSE 0
      /\ Gone(g, n) => n < nx
  BY DEF Books, Balanced
<1>4. count(one(x), n) = IF n = nx THEN 1 ELSE 0
  <2>1. isNumber(x, n) <=> n = nx
    BY UsersNumbered DEF isNumber
  <2>2. QED
    BY <2>1, CountSmall
<1>5. QED
  BY <1>1, <1>3, <1>4

(* steer(): a message at the end of the steering queue. *)
LEMMA BooksSteer ==
  ASSUME NEW m, NEW p, NEW s, NEW f, NEW nx, NEW g, Books(m, p, s, f, nx, g),
         NEW x, x \in UsersOf("steer"), x.id[2] = nx
  PROVE  Books(m, p, cat(s, one(x)), f, nx + 1, g)
<1>1. /\ m \in Seq(All) /\ p \in Seq(All) /\ s \in Seq(All) /\ f \in Seq(All) /\ nx \in Nat
      /\ \A n : count(m, n) \in Nat /\ count(p, n) \in Nat /\ count(s, n) \in Nat /\ count(f, n) \in Nat
  BY BooksTyped DEF Books
<1>2. one(x) \in Seq(UsersOf("steer")) /\ one(x) \in Seq(All) /\ s \in Seq(UsersOf("steer"))
  BY SmallSequences DEF Books, Typed, All, Users
<1>3. Typed(m, p, cat(s, one(x)), f, nx + 1)
  <2>1. cat(s, one(x)) \in Seq(UsersOf("steer"))
    BY <1>2, AppendCat
  <2>2. QED
    BY <2>1 DEF Books, Typed
<1>4. ASSUME NEW n PROVE total(m, p, cat(s, one(x)), f, n) = total(m, p, s, f, n) + count(one(x), n)
  <2>1. count(cat(s, one(x)), n) = count(s, n) + count(one(x), n) /\ count(one(x), n) \in Nat
    BY <1>1, <1>2, CountCat, NumberedFinite
  <2>2. QED
    BY <1>1, <2>1 DEF total
<1>5. Balanced(m, p, cat(s, one(x)), f, nx + 1, g)
  BY <1>4, BalancedNew
<1>6. InOrder(m, p, cat(s, one(x)), f)
  <2>1. Before(m, one(x)) /\ Before(p, one(x)) /\ Before(s, one(x))
    BY NewIsLast
  <2>2. Ordered(cat(s, one(x))) /\ Before(m, cat(s, one(x))) /\ Before(p, cat(s, one(x)))
    BY <1>1, <1>2, <2>1, OrderedCat, OrderedSmall, BeforeCat DEF Books, InOrder
  <2>3. QED
    BY <2>2 DEF Books, InOrder
<1>7. QED
  BY <1>3, <1>5, <1>6 DEF Books

(* followUp(): a message at the end of the follow-up queue. *)
LEMMA BooksFollowUp ==
  ASSUME NEW m, NEW p, NEW s, NEW f, NEW nx, NEW g, Books(m, p, s, f, nx, g),
         NEW x, x \in UsersOf("followUp"), x.id[2] = nx
  PROVE  Books(m, p, s, cat(f, one(x)), nx + 1, g)
<1>1. /\ m \in Seq(All) /\ p \in Seq(All) /\ s \in Seq(All) /\ f \in Seq(All) /\ nx \in Nat
      /\ \A n : count(m, n) \in Nat /\ count(p, n) \in Nat /\ count(s, n) \in Nat /\ count(f, n) \in Nat
  BY BooksTyped DEF Books
<1>2. one(x) \in Seq(UsersOf("followUp")) /\ one(x) \in Seq(All) /\ f \in Seq(UsersOf("followUp"))
  BY SmallSequences DEF Books, Typed, All, Users
<1>3. Typed(m, p, s, cat(f, one(x)), nx + 1)
  <2>1. cat(f, one(x)) \in Seq(UsersOf("followUp"))
    BY <1>2, AppendCat
  <2>2. QED
    BY <2>1 DEF Books, Typed
<1>4. ASSUME NEW n PROVE total(m, p, s, cat(f, one(x)), n) = total(m, p, s, f, n) + count(one(x), n)
  <2>1. count(cat(f, one(x)), n) = count(f, n) + count(one(x), n) /\ count(one(x), n) \in Nat
    BY <1>1, <1>2, CountCat, NumberedFinite
  <2>2. QED
    BY <1>1, <2>1 DEF total
<1>5. Balanced(m, p, s, cat(f, one(x)), nx + 1, g)
  BY <1>4, BalancedNew
<1>6. InOrder(m, p, s, cat(f, one(x)))
  <2>1. Before(m, one(x)) /\ Before(p, one(x)) /\ Before(f, one(x))
    BY NewIsLast
  <2>2. Ordered(cat(f, one(x))) /\ Before(m, cat(f, one(x))) /\ Before(p, cat(f, one(x)))
    BY <1>1, <1>2, <2>1, OrderedCat, OrderedSmall, BeforeCat DEF Books, InOrder
  <2>3. QED
    BY <2>2 DEF Books, InOrder
<1>7. QED
  BY <1>3, <1>5, <1>6 DEF Books

(* Messages of different kinds are never out of order. *)
LEMMA KindsApart ==
  ASSUME NEW k, NEW l, k # l, NEW s \in Seq(UsersOf(k)), NEW t \in Seq(UsersOf(l))
  PROVE  Before(s, t)
<1>1. ToSet(s) \subseteq UsersOf(k) /\ ToSet(t) \subseteq UsersOf(l)
  BY ElementsTyped
<1>2. ASSUME NEW x \in UsersOf(k), NEW y \in UsersOf(l) PROVE precedes(x, y)
  BY UsersNumbered DEF precedes
<1>3. QED
  BY <1>1, <1>2 DEF Before

(* prompt(): a message that is pending at once. *)
LEMMA BooksPrompt ==
  ASSUME NEW m, NEW s, NEW f, NEW nx, NEW g, Books(m, none, s, f, nx, g),
         NEW x, x \in UsersOf("prompt"), x.id[2] = nx
  PROVE  Books(m, one(x), s, f, nx + 1, g)
<1>1. /\ m \in Seq(All) /\ none \in Seq(All) /\ s \in Seq(All) /\ f \in Seq(All) /\ nx \in Nat
      /\ \A n : count(m, n) \in Nat /\ count(none, n) \in Nat /\ count(s, n) \in Nat /\ count(f, n) \in Nat
  BY BooksTyped DEF Books
<1>2. one(x) \in Seq(UsersOf("prompt")) /\ one(x) \in Seq(Users) /\ one(x) \in Seq(All)
  BY SmallSequences DEF All, Users
<1>3. Typed(m, one(x), s, f, nx + 1)
  BY <1>2 DEF Books, Typed
<1>4. ASSUME NEW n PROVE total(m, one(x), s, f, n) = total(m, none, s, f, n) + count(one(x), n)
  <2>1. count(none, n) = 0 /\ count(one(x), n) \in Nat
    BY <1>1, <1>2, CountSmall, NumberedFinite
  <2>2. QED
    BY <1>1, <2>1 DEF total
<1>5. Balanced(m, one(x), s, f, nx + 1, g)
  BY <1>4, BalancedNew
<1>6. InOrder(m, one(x), s, f)
  <2>1. Before(m, one(x)) /\ Ordered(one(x))
    BY NewIsLast, OrderedSmall
  <2>2. Before(one(x), s) /\ Before(one(x), f)
    BY <1>2, KindsApart DEF Books, Typed
  <2>3. QED
    BY <2>1, <2>2 DEF Books, InOrder
<1>7. QED
  BY <1>3, <1>5, <1>6 DEF Books

-----------------------------------------------------------------------------
(***************************************************************************)
(* A message moves on.                                                     *)
(***************************************************************************)

(* What only moves is still counted once. *)
LEMMA BalancedSame ==
  ASSUME NEW m, NEW p, NEW s, NEW f, NEW nx, NEW g, Balanced(m, p, s, f, nx, g),
         NEW a, NEW b, NEW c, NEW d, \A n \in Nat : total(a, b, c, d, n) = total(m, p, s, f, n)
  PROVE  Balanced(a, b, c, d, nx, g)
BY DEF Balanced

(* A pending message is published: it moves to the end of the transcript. *)
LEMMA BooksPublish ==
  ASSUME NEW m, NEW p, NEW s, NEW f, NEW nx, NEW g, Books(m, p, s, f, nx, g),
         NEW x, NEW r, x \in Users, r \in Seq(Users), p = cat(one(x), r)
  PROVE  Books(cat(m, one(x)), r, s, f, nx, g)
<1>1. /\ m \in Seq(All) /\ p \in Seq(All) /\ s \in Seq(All) /\ f \in Seq(All) /\ nx \in Nat
      /\ \A n : count(m, n) \in Nat /\ count(p, n) \in Nat /\ count(s, n) \in Nat /\ count(f, n) \in Nat
  BY BooksTyped DEF Books
<1>2. one(x) \in Seq(All) /\ r \in Seq(All) /\ x \in All
  BY SmallSequences, Wider DEF All
<1>3. Typed(cat(m, one(x)), r, s, f, nx)
  <2>1. cat(m, one(x)) \in Seq(All)
    BY <1>1, <1>2, AppendCat
  <2>2. QED
    BY <2>1 DEF Books, Typed
<1>4. ASSUME NEW n PROVE total(cat(m, one(x)), r, s, f, n) = total(m, p, s, f, n)
  <2>1. /\ count(cat(m, one(x)), n) = count(m, n) + count(one(x), n)
        /\ count(p, n) = count(one(x), n) + count(r, n)
        /\ count(one(x), n) \in Nat /\ count(r, n) \in Nat
    BY <1>1, <1>2, CountCat, NumberedFinite
  <2>2. QED
    BY <1>1, <2>1 DEF total
<1>5. Balanced(cat(m, one(x)), r, s, f, nx, g)
  BY <1>4, BalancedSame DEF Books
<1>6. InOrder(cat(m, one(x)), r, s, f)
  <2>1. Ordered(r) /\ Before(one(x), r)
    BY <1>2, OrderedCat DEF Books, InOrder
  <2>2. /\ Before(m, one(x)) /\ Before(m, r)
        /\ Before(one(x), s) /\ Before(r, s) /\ Before(one(x), f) /\ Before(r, f)
    BY <1>2, BeforeCat DEF Books, InOrder
  <2>3. Ordered(cat(m, one(x)))
    BY <1>1, <1>2, <2>2, OrderedCat, OrderedSmall DEF Books, InOrder
  <2>4. Before(cat(m, one(x)), r) /\ Before(cat(m, one(x)), s) /\ Before(cat(m, one(x)), f)
    BY <1>1, <1>2, <2>1, <2>2, BeforeCat DEF Books, InOrder
  <2>5. QED
    BY <2>1, <2>2, <2>3, <2>4 DEF Books, InOrder
<1>7. QED
  BY <1>3, <1>5, <1>6 DEF Books

(* The loop adds a message of its own to the transcript. *)
LEMMA BooksOther ==
  ASSUME NEW m, NEW p, NEW s, NEW f, NEW nx, NEW g, Books(m, p, s, f, nx, g), NEW x \in Others
  PROVE  Books(cat(m, one(x)), p, s, f, nx, g)
<1>1. /\ m \in Seq(All) /\ p \in Seq(All) /\ s \in Seq(All) /\ f \in Seq(All) /\ nx \in Nat
      /\ \A n : count(m, n) \in Nat /\ count(p, n) \in Nat /\ count(s, n) \in Nat /\ count(f, n) \in Nat
  BY BooksTyped DEF Books
<1>2. one(x) \in Seq(All) /\ x \in All /\ x.role # "user"
  BY SmallSequences, UsersNumbered DEF All
<1>3. Typed(cat(m, one(x)), p, s, f, nx)
  <2>1. cat(m, one(x)) \in Seq(All)
    BY <1>1, <1>2, AppendCat
  <2>2. QED
    BY <2>1 DEF Books, Typed
<1>4. ASSUME NEW n PROVE total(cat(m, one(x)), p, s, f, n) = total(m, p, s, f, n)
  <2>1. count(cat(m, one(x)), n) = count(m, n) + count(one(x), n)
    BY <1>1, <1>2, CountCat
  <2>2. count(one(x), n) = 0
    BY <1>2, CountSmall DEF isNumber
  <2>3. QED
    BY <1>1, <2>1, <2>2 DEF total
<1>5. Balanced(cat(m, one(x)), p, s, f, nx, g)
  BY <1>4, BalancedSame DEF Books
<1>6. InOrder(cat(m, one(x)), p, s, f)
  <2>1. ASSUME NEW t PROVE Before(t, one(x)) /\ Before(one(x), t)
    BY <1>2, ElementsSmall DEF Before, precedes
  <2>2. Ordered(cat(m, one(x)))
    BY <1>1, <1>2, <2>1, OrderedCat, OrderedSmall DEF Books, InOrder
  <2>3. Before(cat(m, one(x)), p) /\ Before(cat(m, one(x)), s) /\ Before(cat(m, one(x)), f)
    BY <1>1, <1>2, <2>1, BeforeCat DEF Books, InOrder
  <2>4. QED
    BY <2>2, <2>3 DEF Books, InOrder
<1>7. QED
  BY <1>3, <1>5, <1>6 DEF Books

(* Steering messages are drained: they are pending now. *)
LEMMA BooksDrainSteering ==
  ASSUME NEW m, NEW s, NEW f, NEW nx, NEW g, Books(m, none, s, f, nx, g),
         NEW d \in Seq(UsersOf("steer")), NEW r \in Seq(UsersOf("steer")), s = cat(d, r)
  PROVE  Books(m, d, r, f, nx, g)
<1>1. /\ m \in Seq(All) /\ s \in Seq(All) /\ f \in Seq(All) /\ nx \in Nat
      /\ \A n : count(m, n) \in Nat /\ count(s, n) \in Nat /\ count(f, n) \in Nat
  BY BooksTyped DEF Books
<1>2. UsersOf("steer") \subseteq Users /\ UsersOf("steer") \subseteq All
  BY DEF Users, All
<1>3. d \in Seq(Users) /\ d \in Seq(All) /\ r \in Seq(All)
  BY <1>2, Wider
<1>4. Typed(m, d, r, f, nx)
  BY <1>3 DEF Books, Typed
<1>5. ASSUME NEW n PROVE total(m, d, r, f, n) = total(m, none, s, f, n)
  <2>1. count(s, n) = count(d, n) + count(r, n) /\ count(none, n) = 0 /\ count(d, n) \in Nat /\ count(r, n) \in Nat
    BY <1>3, CountCat, CountSmall, NumberedFinite
  <2>2. QED
    BY <1>1, <2>1 DEF total
<1>6. Balanced(m, d, r, f, nx, g)
  BY <1>5, BalancedSame DEF Books
<1>7. InOrder(m, d, r, f)
  <2>1. Ordered(d) /\ Ordered(r) /\ Before(d, r)
    BY <1>3, OrderedCat DEF Books, InOrder
  <2>2. Before(m, d) /\ Before(m, r)
    BY <1>3, BeforeCat DEF Books, InOrder
  <2>3. Before(d, f)
    BY KindsApart DEF Books, Typed
  <2>4. QED
    BY <2>1, <2>2, <2>3 DEF Books, InOrder
<1>8. QED
  BY <1>4, <1>6, <1>7 DEF Books

(* Follow-ups are drained: they are pending now. *)
LEMMA BooksDrainFollowUps ==
  ASSUME NEW m, NEW s, NEW f, NEW nx, NEW g, Books(m, none, s, f, nx, g),
         NEW d \in Seq(UsersOf("followUp")), NEW r \in Seq(UsersOf("followUp")), f = cat(d, r)
  PROVE  Books(m, d, s, r, nx, g)
<1>1. /\ m \in Seq(All) /\ s \in Seq(All) /\ f \in Seq(All) /\ nx \in Nat
      /\ \A n : count(m, n) \in Nat /\ count(s, n) \in Nat /\ count(f, n) \in Nat
  BY BooksTyped DEF Books
<1>2. UsersOf("followUp") \subseteq Users /\ UsersOf("followUp") \subseteq All
  BY DEF Users, All
<1>3. d \in Seq(Users) /\ d \in Seq(All) /\ r \in Seq(All)
  BY <1>2, Wider
<1>4. Typed(m, d, s, r, nx)
  BY <1>3 DEF Books, Typed
<1>5. ASSUME NEW n PROVE total(m, d, s, r, n) = total(m, none, s, f, n)
  <2>1. count(f, n) = count(d, n) + count(r, n) /\ count(none, n) = 0 /\ count(d, n) \in Nat /\ count(r, n) \in Nat
    BY <1>3, CountCat, CountSmall, NumberedFinite
  <2>2. QED
    BY <1>1, <2>1 DEF total
<1>6. Balanced(m, d, s, r, nx, g)
  BY <1>5, BalancedSame DEF Books
<1>7. InOrder(m, d, s, r)
  <2>1. Ordered(d) /\ Ordered(r) /\ Before(d, r)
    BY <1>3, OrderedCat DEF Books, InOrder
  <2>2. Before(m, d) /\ Before(m, r)
    BY <1>3, BeforeCat DEF Books, InOrder
  <2>3. Before(d, s)
    BY KindsApart DEF Books, Typed
  <2>4. QED
    BY <2>1, <2>2, <2>3 DEF Books, InOrder
<1>8. QED
  BY <1>4, <1>6, <1>7 DEF Books

-----------------------------------------------------------------------------
(***************************************************************************)
(* Messages are cleared, or lost with a failed run.                        *)
(***************************************************************************)

(* What is removed and remembered as gone. *)
LEMMA BalancedLess ==
  ASSUME NEW m, NEW p, NEW s, NEW f, NEW nx, NEW g, Balanced(m, p, s, f, nx, g),
         NEW a, NEW b, NEW c, NEW d, NEW h,
         \A n \in Nat : /\ Gone(h, n) => total(m, p, s, f, n) # 0 /\ total(a, b, c, d, n) = 0
                        /\ ~Gone(h, n) => total(a, b, c, d, n) = total(m, p, s, f, n)
  PROVE  Balanced(a, b, c, d, nx, g \cup h)
<1>1. ASSUME NEW n PROVE Gone(g \cup h, n) <=> Gone(g, n) \/ Gone(h, n)
  BY DEF Gone
<1>2. QED
  BY <1>1 DEF Balanced

(* Each number is counted at most once. *)
LEMMA TotalBound ==
  ASSUME NEW m, NEW p, NEW s, NEW f, NEW nx, NEW g, Balanced(m, p, s, f, nx, g), NEW n \in Nat
  PROVE  total(m, p, s, f, n) \in {0, 1}
BY DEF Balanced

(* Whether n is among the elements of s. *)
LEMMA GoneElements ==
  ASSUME NEW T, NEW s \in Seq(T), NEW n
  PROVE  Gone(ToSet(s), n) <=> count(s, n) # 0
BY CountZero DEF Gone

(* The queues are cleared. *)
LEMMA BooksClear ==
  ASSUME NEW m, NEW p, NEW s, NEW f, NEW nx, NEW g, Books(m, p, s, f, nx, g)
  PROVE  Books(m, p, none, none, nx, g \cup ToSet(cat(s, f)))
<1>1. /\ m \in Seq(All) /\ p \in Seq(All) /\ s \in Seq(All) /\ f \in Seq(All) /\ nx \in Nat
      /\ \A n : count(m, n) \in Nat /\ count(p, n) \in Nat /\ count(s, n) \in Nat /\ count(f, n) \in Nat
  BY BooksTyped DEF Books
<1>2. Typed(m, p, none, none, nx)
  BY SmallSequences DEF Books, Typed
<1>3. PICK h : h = ToSet(cat(s, f))
  OBVIOUS
<1>4. ASSUME NEW n PROVE Gone(h, n) <=> count(s, n) # 0 \/ count(f, n) # 0
  <2>1. h = ToSet(s) \cup ToSet(f)
    BY <1>1, <1>3, ElementsCat
  <2>2. Gone(h, n) <=> Gone(ToSet(s), n) \/ Gone(ToSet(f), n)
    BY <2>1 DEF Gone
  <2>3. QED
    BY <1>1, <2>2, GoneElements
<1>5. ASSUME NEW n \in Nat
      PROVE  /\ Gone(h, n) => total(m, p, s, f, n) # 0 /\ total(m, p, none, none, n) = 0
             /\ ~Gone(h, n) => total(m, p, none, none, n) = total(m, p, s, f, n)
  <2>1. total(m, p, s, f, n) \in {0, 1} /\ count(none, n) = 0
    BY TotalBound, CountSmall DEF Books
  <2>2. QED
    BY <1>1, <1>4, <2>1 DEF total
<1>6. Balanced(m, p, none, none, nx, g \cup h)
  BY <1>5, BalancedLess DEF Books
<1>7. InOrder(m, p, none, none)
  BY OrderedSmall, BeforeNone DEF Books, InOrder
<1>8. QED
  BY <1>2, <1>3, <1>6, <1>7 DEF Books

(* reset(): the transcript and the queues are cleared. *)
LEMMA BooksReset ==
  ASSUME NEW m, NEW p, NEW s, NEW f, NEW nx, NEW g, Books(m, p, s, f, nx, g)
  PROVE  Books(none, p, none, none, nx, g \cup ToSet(cat(cat(s, f), m)))
<1>1. /\ m \in Seq(All) /\ p \in Seq(All) /\ s \in Seq(All) /\ f \in Seq(All) /\ nx \in Nat
      /\ \A n : count(m, n) \in Nat /\ count(p, n) \in Nat /\ count(s, n) \in Nat /\ count(f, n) \in Nat
  BY BooksTyped DEF Books
<1>2. Typed(none, p, none, none, nx)
  BY SmallSequences DEF Books, Typed
<1>3. PICK h : h = ToSet(cat(cat(s, f), m))
  OBVIOUS
<1>4. ASSUME NEW n PROVE Gone(h, n) <=> count(s, n) # 0 \/ count(f, n) # 0 \/ count(m, n) # 0
  <2>1. cat(s, f) \in Seq(All)
    BY <1>1 DEF cat
  <2>2. h = ToSet(s) \cup ToSet(f) \cup ToSet(m)
    BY <1>1, <1>3, <2>1, ElementsCat
  <2>3. Gone(h, n) <=> Gone(ToSet(s), n) \/ Gone(ToSet(f), n) \/ Gone(ToSet(m), n)
    BY <2>2 DEF Gone
  <2>4. QED
    BY <1>1, <2>3, GoneElements
<1>5. ASSUME NEW n \in Nat
      PROVE  /\ Gone(h, n) => total(m, p, s, f, n) # 0 /\ total(none, p, none, none, n) = 0
             /\ ~Gone(h, n) => total(none, p, none, none, n) = total(m, p, s, f, n)
  <2>1. total(m, p, s, f, n) \in {0, 1} /\ count(none, n) = 0
    BY TotalBound, CountSmall DEF Books
  <2>2. QED
    BY <1>1, <1>4, <2>1 DEF total
<1>6. Balanced(none, p, none, none, nx, g \cup h)
  BY <1>5, BalancedLess DEF Books
<1>7. InOrder(none, p, none, none)
  BY OrderedSmall, BeforeNone DEF Books, InOrder
<1>8. QED
  BY <1>2, <1>3, <1>6, <1>7 DEF Books

(* A run fails: what was pending and is not in the transcript is lost. *)
LEMMA BooksThrow ==
  ASSUME NEW m, NEW p, NEW s, NEW f, NEW nx, NEW g, Books(m, p, s, f, nx, g)
  PROVE  Books(m, none, s, f, nx, g \cup (ToSet(p) \ ToSet(m)))
<1>1. /\ m \in Seq(All) /\ p \in Seq(All) /\ s \in Seq(All) /\ f \in Seq(All) /\ nx \in Nat
      /\ \A n : count(m, n) \in Nat /\ count(p, n) \in Nat /\ count(s, n) \in Nat /\ count(f, n) \in Nat
  BY BooksTyped DEF Books
<1>2. Typed(m, none, s, f, nx)
  BY SmallSequences DEF Books, Typed
<1>3. PICK h : h = ToSet(p) \ ToSet(m)
  OBVIOUS
<1>4. ASSUME NEW n \in Nat PROVE Gone(h, n) <=> count(p, n) # 0
  <2>1. CASE count(p, n) # 0
    <3>1. PICK x \in ToSet(p) : isNumber(x, n)
      BY <1>1, <2>1, CountZero
    <3>2. count(m, n) = 0
      <4>1. total(m, p, s, f, n) \in {0, 1}
        BY TotalBound DEF Books
      <4>2. QED
        BY <1>1, <2>1, <4>1 DEF total
    <3>3. x \notin ToSet(m)
      BY <1>1, <3>1, <3>2, CountZero
    <3>4. QED
      BY <1>3, <2>1, <3>1, <3>3 DEF Gone
  <2>2. CASE count(p, n) = 0
    <3>1. \A x \in ToSet(p) : ~isNumber(x, n)
      BY <1>1, <2>2, CountZero
    <3>2. \A x \in h : ~isNumber(x, n)
      BY <1>3, <3>1
    <3>3. ~Gone(h, n)
      BY <3>2 DEF Gone
    <3>4. QED
      BY <2>2, <3>3
  <2>3. QED
    BY <2>1, <2>2
<1>5. ASSUME NEW n \in Nat
      PROVE  /\ Gone(h, n) => total(m, p, s, f, n) # 0 /\ total(m, none, s, f, n) = 0
             /\ ~Gone(h, n) => total(m, none, s, f, n) = total(m, p, s, f, n)
  <2>1. total(m, p, s, f, n) \in {0, 1} /\ count(none, n) = 0
    BY TotalBound, CountSmall DEF Books
  <2>2. Gone(h, n) <=> count(p, n) # 0
    BY <1>4
  <2>3. count(m, n) \in Nat /\ count(p, n) \in Nat /\ count(s, n) \in Nat /\ count(f, n) \in Nat
    BY <1>1
  <2>4. /\ count(p, n) # 0 => total(m, p, s, f, n) # 0 /\ total(m, none, s, f, n) = 0
        /\ count(p, n) = 0 => total(m, none, s, f, n) = total(m, p, s, f, n)
    <3>1. PICK a, b, c, d \in Nat : a = count(m, n) /\ b = count(p, n) /\ c = count(s, n) /\ d = count(f, n)
      BY <2>3
    <3>2. total(m, p, s, f, n) = a + b + c + d /\ total(m, none, s, f, n) = a + 0 + c + d
      BY <2>1, <3>1 DEF total
    <3>3. a + b + c + d \in {0, 1}
      BY <2>1, <3>2
    <3>4. (b # 0 => a + b + c + d # 0 /\ a + 0 + c + d = 0) /\ (b = 0 => a + 0 + c + d = a + b + c + d)
      BY <3>3
    <3>5. QED
      BY <3>1, <3>2, <3>4, Zenon
  <2>5. QED
    BY <2>2, <2>4, Zenon
<1>6. Balanced(m, none, s, f, nx, g \cup h)
  BY <1>5, BalancedLess DEF Books
<1>7. InOrder(m, none, s, f)
  BY OrderedSmall, BeforeNone DEF Books, InOrder
<1>8. QED
  BY <1>2, <1>3, <1>6, <1>7 DEF Books

(* A run fails while a pending message is published. *)
LEMMA BooksThrowPublished ==
  ASSUME NEW m, NEW p, NEW s, NEW f, NEW nx, NEW g, Books(m, p, s, f, nx, g),
         NEW x, NEW r, x \in Users, r \in Seq(Users), p = cat(one(x), r)
  PROVE  Books(cat(m, one(x)), none, s, f, nx, g \cup (ToSet(p) \ ToSet(cat(m, one(x)))))
<1>1. PICK u : u = cat(m, one(x))
  OBVIOUS
<1>2. Books(u, r, s, f, nx, g)
  BY <1>1, BooksPublish
<1>3. Books(u, none, s, f, nx, g \cup (ToSet(r) \ ToSet(u)))
  BY <1>2, BooksThrow
<1>4. one(x) \in Seq(Users) /\ one(x) \in Seq(All) /\ m \in Seq(All)
  BY SmallSequences DEF Books, Typed, All
<1>5. ToSet(p) = {x} \cup ToSet(r) /\ ToSet(u) = ToSet(m) \cup {x}
  BY <1>1, <1>4, ElementsCat, ElementsSmall
<1>6. ToSet(p) \ ToSet(u) = ToSet(r) \ ToSet(u)
  BY <1>5
<1>7. QED
  BY <1>1, <1>3, <1>6

-----------------------------------------------------------------------------
(***************************************************************************)
(* Selections from a sequence, and the largest id.                         *)
(***************************************************************************)

(* Induction over the natural numbers, for a set of them. *)
LEMMA Inductively ==
  ASSUME NEW P \in SUBSET Nat, \A n \in Nat : 0..(n - 1) \subseteq P => n \in P
  PROVE  P = Nat
<1>1. PICK R : R = OpToRel(<, Nat)
  OBVIOUS
<1>2. IsWellFoundedOn(R, Nat)
  BY <1>1, NatLessThanWellFounded
<1>3. SUFFICES ASSUME Nat \ P # {} PROVE FALSE
  OBVIOUS
<1>4. PICK x \in Nat \ P : \A y \in Nat \ P : <<y, x>> \notin R
  BY <1>2, <1>3, WFMin
<1>5. R = {ss \in Nat \X Nat : ss[1] < ss[2]}
  BY <1>1 DEF OpToRel
<1>6. ASSUME NEW y \in 0..(x - 1) PROVE y \in P
  <2>1. <<y, x>> \in Nat \X Nat /\ <<y, x>>[1] = y /\ <<y, x>>[2] = x /\ y < x
    OBVIOUS
  <2>2. QED
    BY <1>4, <1>5, <2>1
<1>7. QED
  BY <1>4, <1>6

(* f is the recursive function of only(s, S), as far as m. *)
Keeps(f, s, S, m) ==
  /\ f[0] = <<>>
  /\ \A i \in 1..m : f[i] = IF s[i] \in S THEN Append(f[i - 1], s[i]) ELSE f[i - 1]

(* There is such a function. *)
LEMMA KeepsExists ==
  ASSUME NEW T, NEW s \in Seq(T), NEW S
  PROVE  \E f \in [0..Len(s) -> Seq(T)] : Keeps(f, s, S, Len(s))
<1> DEFINE P == {n \in Nat : n <= Len(s) => \E f \in [0..n -> Seq(T)] : Keeps(f, s, S, n)}
<1>1. ASSUME NEW n \in Nat, 0..(n - 1) \subseteq P PROVE n \in P
  <2>1. CASE n = 0
    <3>1. [i \in 0..0 |-> <<>>] \in [0..0 -> Seq(T)] /\ Keeps([i \in 0..0 |-> <<>>], s, S, 0)
      BY DEF Keeps
    <3>2. QED
      BY <2>1, <3>1
  <2>2. CASE n # 0 /\ n <= Len(s)
    <3>1. n - 1 \in 0..(n - 1) /\ n - 1 <= Len(s) /\ n \in 1..Len(s)
      BY <2>2
    <3>2. PICK f \in [0..(n - 1) -> Seq(T)] : Keeps(f, s, S, n - 1)
      BY <1>1, <3>1
    <3>3. PICK v \in Seq(T) : v = IF s[n] \in S THEN Append(f[n - 1], s[n]) ELSE f[n - 1]
      <4>1. f[n - 1] \in Seq(T) /\ s[n] \in T
        BY <3>1, <3>2
      <4>2. Append(f[n - 1], s[n]) \in Seq(T)
        BY <4>1, AppendProperties
      <4>3. QED
        BY <4>1, <4>2
    <3>4. PICK g : g = [i \in 0..n |-> IF i = n THEN v ELSE f[i]]
      OBVIOUS
    <3>5. g \in [0..n -> Seq(T)]
      BY <3>2, <3>3, <3>4
    <3>6. g[0] = <<>>
      BY <2>2, <3>2, <3>4 DEF Keeps
    <3>7. ASSUME NEW i \in 1..n
          PROVE  g[i] = IF s[i] \in S THEN Append(g[i - 1], s[i]) ELSE g[i - 1]
      <4>1. CASE i = n
        BY <3>1, <3>3, <3>4, <4>1
      <4>2. CASE i # n
        <5>1. i \in 1..(n - 1) /\ g[i] = f[i] /\ g[i - 1] = f[i - 1]
          BY <3>4, <4>2
        <5>2. QED
          BY <3>2, <5>1 DEF Keeps
      <4>3. QED
        BY <4>1, <4>2
    <3>8. Keeps(g, s, S, n)
      BY <3>6, <3>7 DEF Keeps
    <3>9. QED
      BY <3>5, <3>8
  <2>3. QED
    BY <2>1, <2>2
<1> HIDE DEF P
<1>2. P \in SUBSET Nat
  BY DEF P
<1>3. P = Nat
  BY <1>1, <1>2, Inductively
<1>4. Len(s) \in P
  BY <1>3
<1>5. QED
  BY <1>4 DEF P

(* only is its value at the end. *)
LEMMA OnlyKeeps ==
  ASSUME NEW T, NEW s \in Seq(T), NEW S
  PROVE  \E f \in [0..Len(s) -> Seq(T)] : Keeps(f, s, S, Len(s)) /\ only(s, S) = f[Len(s)]
<1> DEFINE eq(f) == f = [i \in 0..Len(s) |-> IF i = 0 THEN <<>> ELSE IF s[i] \in S THEN Append(f[i - 1], s[i]) ELSE f[i - 1]]
<1>1. PICK f \in [0..Len(s) -> Seq(T)] : Keeps(f, s, S, Len(s))
  BY KeepsExists
<1>2. eq(f)
  <2>1. f = [i \in 0..Len(s) |-> f[i]]
    BY <1>1
  <2>2. \A i \in 0..Len(s) : f[i] = IF i = 0 THEN <<>> ELSE IF s[i] \in S THEN Append(f[i - 1], s[i]) ELSE f[i - 1]
    <3>1. \A i \in 0..Len(s) : i = 0 \/ i \in 1..Len(s)
      OBVIOUS
    <3>2. QED
      BY <1>1, <3>1, Zenon DEF Keeps
  <2>3. QED
    BY <2>1, <2>2, Zenon
<1>3. PICK h : h = CHOOSE g : eq(g)
  OBVIOUS
<1>4. eq(h)
  <2> HIDE DEF eq
  <2>1. QED
    BY <1>2, <1>3, Zenon
<1>5. h[Len(s)] = only(s, S)
  BY <1>3, Zenon DEF only
<1>6. Keeps(h, s, S, Len(s))
  <2>1. \A i \in 0..Len(s) : h[i] = IF i = 0 THEN <<>> ELSE IF s[i] \in S THEN Append(h[i - 1], s[i]) ELSE h[i - 1]
    BY <1>4, Zenon
  <2>2. 0 \in 0..Len(s) /\ \A i \in 1..Len(s) : i \in 0..Len(s) /\ i # 0
    OBVIOUS
  <2>3. QED
    BY <2>1, <2>2, Zenon DEF Keeps
<1>7. h \in [0..Len(s) -> Seq(T)]
  <2> DEFINE P == {n \in Nat : n <= Len(s) => h[n] \in Seq(T)}
  <2>1. ASSUME NEW n \in Nat, 0..(n - 1) \subseteq P PROVE n \in P
    <3>1. CASE n = 0
      <4>1. h[0] = <<>> /\ <<>> \in Seq(T)
        BY <1>6, Zenon, EmptySeq DEF Keeps
      <4>2. QED
        BY <3>1, <4>1
    <3>2. CASE n # 0 /\ n <= Len(s)
      <4>1. n \in 1..Len(s) /\ n - 1 \in 0..(n - 1) /\ n - 1 <= Len(s) /\ s[n] \in T
        BY <3>2
      <4>2. h[n - 1] \in Seq(T)
        BY <2>1, <4>1
      <4>3. Append(h[n - 1], s[n]) \in Seq(T)
        BY <4>1, <4>2, AppendProperties
      <4>4. h[n] \in Seq(T)
        BY <1>6, <4>1, <4>2, <4>3 DEF Keeps
      <4>5. QED
        BY <4>4
    <3>3. QED
      BY <3>1, <3>2
  <2> HIDE DEF P
  <2>2. P \in SUBSET Nat
    BY DEF P
  <2>3. P = Nat
    BY <2>1, <2>2, Inductively
  <2>4. ASSUME NEW i \in 0..Len(s) PROVE h[i] \in Seq(T)
    BY <2>3 DEF P
  <2>5. DOMAIN h = 0..Len(s) /\ h = [i \in DOMAIN h |-> h[i]]
    BY <1>4
  <2>6. QED
    BY <2>4, <2>5
<1>8. QED
  BY <1>5, <1>6, <1>7

(* only gives a sequence of the same elements. *)
LEMMA OnlyTyped ==
  ASSUME NEW T, NEW s \in Seq(T), NEW S
  PROVE  only(s, S) \in Seq(T)
<1>1. PICK f \in [0..Len(s) -> Seq(T)] : Keeps(f, s, S, Len(s)) /\ only(s, S) = f[Len(s)]
  BY OnlyKeeps
<1>2. Len(s) \in 0..Len(s)
  OBVIOUS
<1>3. QED
  BY <1>1, <1>2

(* Of indices there is a largest. *)
LEMMA MaxIndex ==
  ASSUME NEW n \in Nat, NEW S \in SUBSET (1..n), S # {}
  PROVE  Max(S) \in S /\ \A y \in S : y <= Max(S)
<1> DEFINE P == {k \in Nat : \A T \in SUBSET (1..k) : T # {} => \E x \in T : \A y \in T : x >= y}
<1>1. ASSUME NEW k \in Nat, 0..(k - 1) \subseteq P PROVE k \in P
  <2>1. SUFFICES ASSUME NEW T \in SUBSET (1..k), T # {} PROVE \E x \in T : \A y \in T : x >= y
    OBVIOUS
  <2>2. CASE k \in T
    BY <2>1, <2>2
  <2>3. CASE k \notin T
    <3>1. k # 0 /\ k - 1 \in 0..(k - 1) /\ T \in SUBSET (1..(k - 1))
      <4>1. k # 0
        <5>1. PICK x : x \in T
          BY <2>1
        <5>2. x \in 1..k
          BY <5>1
        <5>3. QED
          BY <5>2
      <4>2. \A y \in T : y \in 1..(k - 1)
        BY <2>1, <2>3
      <4>3. QED
        BY <4>1, <4>2
    <3>2. QED
      BY <1>1, <2>1, <3>1
  <2>4. QED
    BY <2>2, <2>3
<1> HIDE DEF P
<1>2. P \in SUBSET Nat
  BY DEF P
<1>3. P = Nat
  BY <1>1, <1>2, Inductively
<1>4. \E x \in S : \A y \in S : x >= y
  BY <1>3 DEF P
<1>5. Max(S) \in S /\ \A y \in S : Max(S) >= y
  BY <1>4, Zenon DEF Max
<1>6. \A y \in S : y \in Int
  OBVIOUS
<1>7. QED
  BY <1>5, <1>6

-----------------------------------------------------------------------------
(***************************************************************************)
(* The invariant of the agent, and the types of what its loop makes.       *)
(***************************************************************************)

(* The loop's own state. *)
AgentTypes ==
  /\ context \in Seq(All) /\ todo \in Seq(Others) /\ calls \in Nat
  /\ DOMAIN ghost = {"dropped", "lost", "scars"}
  /\ pc = "batch" => context # <<>>

(* Drained messages wait only where they are published. *)
PendingInv == pc \notin {"prompts", "turn", "inject"} => pending = <<>>

(* The context is the transcript, with the prompts of a run that begins.   *)
ContextInv ==
  "reset" \notin ghost.scars =>
    /\ pc = "prompts" => context = messages \o pending
    /\ pc \in Loop \ {"prompts"} => context = messages

BooksInv == Books(messages, pending, steering, followUps, next, ghost.dropped \cup ghost.lost)

AgentInv == AgentTypes /\ PendingInv /\ ContextInv /\ BooksInv

(* The messages the agent and its callers make. *)
LEMMA MessagesMade ==
  /\ \A n \in Nat : \A k : user(<<k, n>>) \in UsersOf(k) /\ user(<<k, n>>).id[2] = n
  /\ \A cs \in Seq(Nat) : assistant("reply", cs) \in Others
  /\ assistant("failure", <<>>) \in Others
  /\ \A c \in Nat : toolResult(c) \in Others
<1>1. ASSUME NEW n \in Nat, NEW k PROVE user(<<k, n>>) \in UsersOf(k) /\ user(<<k, n>>).id[2] = n
  BY DEF user, UsersOf
<1>2. ASSUME NEW cs \in Seq(Nat) PROVE assistant("reply", cs) \in Others
  BY DEF assistant, Others
<1>3. assistant("failure", <<>>) \in Others
  <2>1. <<>> \in Seq(Nat)
    BY EmptySeq
  <2>2. QED
    BY <2>1 DEF assistant, Others
<1>4. ASSUME NEW c \in Nat PROVE toolResult(c) \in Others
  BY DEF toolResult, Others
<1>5. QED
  BY <1>1, <1>2, <1>3, <1>4

(* The calls of a message are a sequence of ids. *)
LEMMA CallsTyped ==
  ASSUME NEW x \in All
  PROVE  x.calls \in Seq(Nat)
<1>1. <<>> \in Seq(Nat)
  BY EmptySeq
<1>2. QED
  BY <1>1 DEF All, Users, UsersOf, Others

(* The results of a sequence of calls. *)
LEMMA ResultsTyped ==
  ASSUME NEW cs \in Seq(Nat), NEW r, r = [i \in DOMAIN cs |-> toolResult(cs[i])]
  PROVE  r \in Seq(Others)
<1>1. Len(cs) \in Nat /\ DOMAIN cs = 1..Len(cs) /\ \A i \in 1..Len(cs) : cs[i] \in Nat
  BY LenProperties
<1>2. \A i \in 1..Len(cs) : toolResult(cs[i]) \in Others
  BY <1>1, MessagesMade
<1>3. r \in [1..Len(cs) -> Others]
  BY <1>1, <1>2
<1>4. QED
  BY <1>1, <1>3

(* A provider's replies are sequences of ids, and the ids stay numbers. *)
LEMMA RepliesTyped ==
  ASSUME calls \in Nat, NEW cs \in Replies
  PROVE  cs \in Seq(Nat) /\ Max({calls} \cup ToSet(cs)) \in Nat
<1>1. CASE cs = <<>>
  <2>1. cs \in Seq(Nat) /\ ToSet(cs) = {}
    BY <1>1, EmptySeq DEF ToSet
  <2>2. \E x \in {calls} \cup ToSet(cs) : \A y \in {calls} \cup ToSet(cs) : x >= y
    BY <2>1
  <2>3. Max({calls} \cup ToSet(cs)) \in {calls} \cup ToSet(cs)
    BY <2>2, Zenon DEF Max
  <2>4. QED
    BY <2>1, <2>3
<1>2. CASE \E n \in 1..2 : cs = [i \in 1..n |-> calls + i]
  <2>1. PICK n \in 1..2 : cs = [i \in 1..n |-> calls + i]
    BY <1>2
  <2>2. cs \in [1..n -> Nat] /\ ToSet(cs) = {calls + i : i \in 1..n}
    BY <2>1 DEF ToSet
  <2>3. calls + n \in ToSet(cs) /\ ToSet(cs) \subseteq Nat /\ \A y \in {calls} \cup ToSet(cs) : calls + n >= y
    BY <2>2
  <2>4. \E x \in {calls} \cup ToSet(cs) : \A y \in {calls} \cup ToSet(cs) : x >= y
    BY <2>3, Zenon
  <2>5. Max({calls} \cup ToSet(cs)) \in {calls} \cup ToSet(cs)
    BY <2>4, Zenon DEF Max
  <2>6. cs \in Seq(Nat)
    BY <2>2
  <2>7. QED
    BY <2>3, <2>5, <2>6
<1>3. CASE cs = <<calls + 1, calls + 1>>
  <2>1. cs \in Seq(Nat) /\ DOMAIN cs = {1, 2} /\ cs[1] = calls + 1 /\ cs[2] = calls + 1
    BY <1>3
  <2>2. ToSet(cs) = {calls + 1}
    BY <2>1 DEF ToSet
  <2>3. \E x \in {calls} \cup ToSet(cs) : \A y \in {calls} \cup ToSet(cs) : x >= y
    BY <2>2
  <2>4. Max({calls} \cup ToSet(cs)) \in {calls} \cup ToSet(cs)
    BY <2>3, Zenon DEF Max
  <2>5. Max({calls} \cup ToSet(cs)) \in {calls, calls + 1}
    BY <2>2, <2>4
  <2>6. calls \in Nat /\ calls + 1 \in Nat
    OBVIOUS
  <2>7. QED
    BY <2>1, <2>5, <2>6
<1>4. CASE calls # 0 /\ cs = <<1>>
  <2>1. cs \in Seq(Nat) /\ DOMAIN cs = {1} /\ cs[1] = 1
    BY <1>4
  <2>2. ToSet(cs) = {1}
    BY <2>1 DEF ToSet
  <2>3. \E x \in {calls} \cup ToSet(cs) : \A y \in {calls} \cup ToSet(cs) : x >= y
    <3>1. calls >= calls /\ calls >= 1
      BY <1>4
    <3>2. QED
      BY <2>2, <3>1
  <2>4. Max({calls} \cup ToSet(cs)) \in {calls} \cup ToSet(cs)
    BY <2>3, Zenon DEF Max
  <2>5. {calls} \cup ToSet(cs) \subseteq Nat
    BY <2>2
  <2>6. QED
    BY <2>1, <2>4, <2>5, Zenon
<1>5. QED
  BY <1>1, <1>2, <1>3, <1>4 DEF Replies

(* The plan that closes a failed run's transcript is made of results and a *)
(* failure message.                                                        *)
LEMMA ClosureTyped ==
  ASSUME NEW t \in Seq(All), repairable(t)
  PROVE  closureResults(t) \in Seq(Others)
<1>1. CASE missing(t) = {}
  BY <1>1, EmptySeq DEF closureResults
<1>2. CASE missing(t) # {}
  <2>1. PICK k, open : k = lastAssistant(t) /\ open = only(t[k].calls, missing(t))
    OBVIOUS
  <2>2. k # 0
    BY <1>2, <2>1 DEF repairable
  <2>3. k \in 1..Len(t)
    <3>1. PICK I : I = {i \in 1..Len(t) : t[i].role = "assistant"}
      OBVIOUS
    <3>2. k = IF I # {} THEN Max(I) ELSE 0
      BY <2>1, <3>1 DEF lastAssistant, SelectLastInSeq
    <3>3. I \in SUBSET (1..Len(t)) /\ Len(t) \in Nat /\ I # {} /\ k = Max(I)
      BY <2>2, <3>1, <3>2, LenProperties
    <3>4. QED
      BY <3>3, MaxIndex
  <2>4. t[k].calls \in Seq(Nat)
    BY <2>3, CallsTyped
  <2>5. open \in Seq(Nat)
    BY <2>1, <2>4, OnlyTyped
  <2>6. closureResults(t) = [i \in DOMAIN open |-> toolResult(open[i])]
    BY <1>2, <2>1 DEF closureResults
  <2>7. QED
    BY <2>5, <2>6, ResultsTyped
<1>3. QED
  BY <1>1, <1>2

-----------------------------------------------------------------------------
(***************************************************************************)
(* Every step keeps the types.                                             *)
(***************************************************************************)

(* The messages, queues and pending messages, of whatever kind. *)
LEMMA BooksSequences ==
  ASSUME BooksInv
  PROVE  /\ messages \in Seq(All) /\ pending \in Seq(Users) /\ pending \in Seq(All) /\ next \in Nat
         /\ steering \in Seq(UsersOf("steer")) /\ followUps \in Seq(UsersOf("followUp"))
         /\ steering \in Seq(All) /\ followUps \in Seq(All)
<1>1. Typed(messages, pending, steering, followUps, next)
  BY DEF BooksInv, Books
<1>2. QED
  BY <1>1, BooksTyped DEF Typed

(* What drain takes is of the queue. *)
LEMMA DrainTyped ==
  ASSUME BooksInv
  PROVE  drained(steering, steeringMode) \in Seq(All) /\ drained(followUps, followUpMode) \in Seq(All)
BY BooksSequences, DrainSplits

(* A run begins with a context of messages. *)
LEMMA BeginTyped ==
  ASSUME AgentInv, NEW prompts, NEW skip, begin(prompts, skip), prompts \in Seq(All)
  PROVE  AgentTypes'
<1>1. messages \in Seq(All)
  BY BooksSequences DEF AgentInv
<1>2. messages \o prompts \in Seq(All)
  BY <1>1
<1>3. QED
  BY <1>2 DEF begin, AgentInv, AgentTypes

(* No step leaves the types. *)
LEMMA TypesNext ==
  ASSUME AgentInv, [Next]_vars
  PROVE  AgentTypes'
<1>0. /\ AgentTypes /\ BooksInv /\ messages \in Seq(All) /\ pending \in Seq(All) /\ next \in Nat
      /\ context \in Seq(All) /\ todo \in Seq(Others) /\ calls \in Nat
      /\ <<>> \in Seq(All) /\ <<>> \in Seq(Others)
  BY BooksSequences, EmptySeq DEF AgentInv, AgentTypes
<1>1. CASE UNCHANGED vars
  BY <1>0, <1>1 DEF vars, AgentTypes
<1>2. CASE steer \/ followUp \/ clearAllQueues \/ reset \/ abort
  BY <1>0, <1>2 DEF steer, followUp, clearAllQueues, reset, abort, bounds, callers, AgentTypes
<1>3. CASE prompt \/ continueFromAssistant
  <2>1. PICK prompts, skip :
          /\ begin(prompts, skip)
          /\ prompts \in {<<user(<<"prompt", next>>)>>, drained(steering, steeringMode), drained(followUps, followUpMode)}
    BY <1>3 DEF prompt, continueFromAssistant
  <2>2. <<user(<<"prompt", next>>)>> \in Seq(All)
    <3>1. user(<<"prompt", next>>) \in All
      BY <1>0, MessagesMade DEF All, Users
    <3>2. QED
      BY <3>1
  <2>3. prompts \in Seq(All)
    BY <1>0, <2>1, <2>2, DrainTyped
  <2>4. QED
    BY <2>1, <2>3, BeginTyped
<1>4. CASE continueFromResult
  BY <1>0, <1>4 DEF continueFromResult, AgentTypes
<1>5. CASE publishPrompt \/ pollSteering \/ turnStart \/ requestProvider \/ turnEnd \/ pollFollowUps
  BY <1>0, <1>5 DEF publishPrompt, pollSteering, turnStart, requestProvider, turnEnd, pollFollowUps, bounds, AgentTypes
<1>6. CASE injectPending
  <2>1. CASE pending = <<>>
    BY <1>0, <1>6, <2>1 DEF injectPending, bounds, AgentTypes
  <2>2. CASE pending # <<>>
    <3>1. Append(context, Head(pending)) \in Seq(All)
      BY <1>0, <2>2, HeadTail, AppendProperties
    <3>2. QED
      BY <1>0, <1>6, <2>2, <3>1 DEF injectPending, bounds, AgentTypes
  <2>3. QED
    BY <2>1, <2>2
<1>7. ASSUME NEW cs \in Replies, receive(cs)
      PROVE  /\ cs \in Seq(Nat) /\ calls' \in Nat /\ DOMAIN ghost' = DOMAIN ghost
             /\ assistant("reply", cs) \in Others /\ assistant("reply", cs) \in All
             /\ Append(context, assistant("reply", cs)) \in Seq(All) /\ Append(context, assistant("reply", cs)) # <<>>
  <2>1. cs \in Seq(Nat) /\ calls' \in Nat
    BY <1>0, <1>7, RepliesTyped DEF receive
  <2>2. assistant("reply", cs) \in Others /\ assistant("reply", cs) \in All
    BY <2>1, MessagesMade DEF All
  <2>3. DOMAIN ghost' = DOMAIN ghost
    BY <1>7 DEF receive
  <2>4. Append(context, assistant("reply", cs)) \in Seq(All) /\ Append(context, assistant("reply", cs)) # <<>>
    BY <1>0, <2>2, AppendProperties
  <2>5. QED
    BY <2>1, <2>2, <2>3, <2>4
<1>8. ASSUME NEW cs \in Replies, NEW stop \in StopReasons, respond(cs, stop) PROVE AgentTypes'
  <2>1. receive(cs)
    BY <1>8 DEF respond
  <2>2. context' \in Seq(All) /\ context' # <<>> /\ calls' \in Nat /\ DOMAIN ghost' = DOMAIN ghost
    BY <1>7, <1>8, <2>1 DEF respond
  <2>3. [i \in DOMAIN cs |-> toolResult(cs[i])] \in Seq(Others)
    BY <1>7, <2>1, ResultsTyped
  <2>4. todo' \in Seq(Others)
    BY <1>0, <1>8, <2>3 DEF respond
  <2>5. QED
    BY <1>0, <2>2, <2>4 DEF AgentTypes
<1>9. ASSUME NEW cs \in Replies, respondThrows(cs) PROVE AgentTypes'
  <2>1. receive(cs)
    BY <1>9 DEF respondThrows
  <2>2. QED
    BY <1>0, <1>7, <1>9, <2>1 DEF respondThrows, AgentTypes
<1>10. ASSUME NEW finalized, NEW t, NEW s, executeToolCalls(finalized, t, s) PROVE AgentTypes'
  <2>1. context # <<>>
    BY <1>0, <1>10 DEF executeToolCalls, AgentTypes
  <2>2. PICK cs : cs = Last(context).calls
    OBVIOUS
  <2>3. Last(context) \in All
    <3>1. Len(context) \in 1..Len(context) /\ Last(context) = context[Len(context)]
      BY <1>0, <2>1, EmptySeq DEF Last
    <3>2. QED
      BY <1>0, <3>1
  <2>4. cs \in Seq(Nat)
    BY <2>2, <2>3, CallsTyped
  <2>5. only(cs, finalized) \in Seq(Nat) /\ only(cs, ToSet(cs) \ finalized) \in Seq(Nat)
    BY <2>4, OnlyTyped
  <2>6. PICK order : order = only(cs, finalized) \o only(cs, ToSet(cs) \ finalized)
    OBVIOUS
  <2>7. order \in Seq(Nat)
    BY <2>5, <2>6
  <2>8. todo' = [i \in DOMAIN order |-> toolResult(order[i])]
    BY <1>10, <2>2, <2>6 DEF executeToolCalls
  <2>9. todo' \in Seq(Others)
    BY <2>7, <2>8, ResultsTyped
  <2>10. QED
    BY <1>0, <1>10, <2>9 DEF executeToolCalls, bounds, AgentTypes
<1>11. CASE publishResult
  <2>1. CASE todo = <<>>
    BY <1>0, <1>11, <2>1 DEF publishResult, bounds, AgentTypes
  <2>2. CASE todo # <<>>
    <3>1. Head(todo) \in Others /\ Head(todo) \in All /\ Tail(todo) \in Seq(Others)
      BY <1>0, <2>2, HeadTail DEF All
    <3>2. Append(context, Head(todo)) \in Seq(All)
      BY <1>0, <3>1, AppendProperties
    <3>3. QED
      BY <1>0, <1>11, <2>2, <3>1, <3>2 DEF publishResult, bounds, AgentTypes
  <2>3. QED
    BY <2>1, <2>2
<1>12. CASE agentEnd
  BY <1>0, <1>12 DEF agentEnd, finishRun, bounds, AgentTypes
<1>13. CASE planFailureTermination
  <2>1. CASE repairable(messages)
    <3>1. closureResults(messages) \in Seq(Others) /\ <<assistant("failure", <<>>)>> \in Seq(Others)
      <4>1. assistant("failure", <<>>) \in Others
        BY MessagesMade
      <4>2. QED
        BY <1>0, <2>1, <4>1, ClosureTyped
    <3>2. PICK a, b \in Seq(Others) : a = closureResults(messages) /\ b = <<assistant("failure", <<>>)>>
      BY <3>1
    <3>3. a \o b \in Seq(Others)
      BY <3>2
    <3>4. todo' = a \o b
      BY <1>13, <2>1, <3>2 DEF planFailureTermination
    <3>5. QED
      BY <1>0, <1>13, <3>3, <3>4 DEF planFailureTermination, bounds, AgentTypes
  <2>2. CASE ~repairable(messages)
    BY <1>0, <1>13, <2>2 DEF planFailureTermination, bounds, AgentTypes
  <2>3. QED
    BY <2>1, <2>2
<1>14. CASE publishClosure
  <2>1. CASE todo = <<>>
    BY <1>0, <1>14, <2>1 DEF publishClosure, finishRun, bounds, AgentTypes
  <2>2. CASE todo # <<>>
    <3>1. Tail(todo) \in Seq(Others)
      BY <1>0, <2>2, HeadTail
    <3>2. QED
      BY <1>0, <1>14, <2>2, <3>1 DEF publishClosure, bounds, AgentTypes
  <2>3. QED
    BY <2>1, <2>2
<1>15. CASE throw
  BY <1>0, <1>15 DEF throw, AgentTypes
<1>16. CASE closureThrows
  BY <1>0, <1>16 DEF closureThrows, finishRun, AgentTypes
<1>17. QED
  BY <1>1, <1>2, <1>3, <1>4, <1>5, <1>6, <1>8, <1>9, <1>10, <1>11, <1>12, <1>13, <1>14, <1>15, <1>16
  DEF Next, Callers, Starts, Loops, Throws

-----------------------------------------------------------------------------
(***************************************************************************)
(* Every step keeps the drained messages and the context.                  *)
(***************************************************************************)

(* Wherever a step leads, what was drained waits to be published. *)
LEMMA PendingNext ==
  ASSUME AgentInv, [Next]_vars
  PROVE  PendingInv'
<1>0. PendingInv
  BY DEF AgentInv
<1>1. CASE UNCHANGED vars
  BY <1>0, <1>1 DEF vars, PendingInv
<1>2. CASE Callers
  BY <1>0, <1>2 DEF Callers, steer, followUp, clearAllQueues, reset, abort, PendingInv
<1>3. CASE Starts
  BY <1>0, <1>3 DEF Starts, prompt, continueFromAssistant, continueFromResult, begin, PendingInv
<1>4. CASE publishPrompt \/ pollSteering \/ turnStart \/ injectPending \/ requestProvider
  BY <1>0, <1>4 DEF publishPrompt, pollSteering, turnStart, injectPending, requestProvider, PendingInv
<1>5. ASSUME NEW cs, receive(cs), pc' \notin {"prompts", "turn", "inject"} PROVE PendingInv'
  BY <1>0, <1>5 DEF receive, PendingInv
<1>6. ASSUME NEW cs \in Replies, NEW stop \in StopReasons, respond(cs, stop) PROVE PendingInv'
  BY <1>5, <1>6 DEF respond
<1>7. ASSUME NEW cs \in Replies, respondThrows(cs) PROVE PendingInv'
  BY <1>5, <1>7 DEF respondThrows
<1>8. ASSUME NEW finalized, NEW t, NEW s, executeToolCalls(finalized, t, s) PROVE PendingInv'
  BY <1>0, <1>8 DEF executeToolCalls, PendingInv
<1>9. CASE publishResult \/ turnEnd \/ pollFollowUps \/ agentEnd
  BY <1>0, <1>9 DEF publishResult, turnEnd, pollFollowUps, agentEnd, finishRun, PendingInv
<1>10. CASE planFailureTermination \/ publishClosure \/ throw \/ closureThrows
  BY <1>0, <1>10 DEF planFailureTermination, publishClosure, throw, closureThrows, finishRun, PendingInv
<1>11. QED
  BY <1>1, <1>2, <1>3, <1>4, <1>6, <1>7, <1>8, <1>9, <1>10 DEF Next, Loops, Throws

(* Publishing the first of the pending messages moves it. *)
LEMMA PublishMoves ==
  ASSUME NEW T, NEW s \in Seq(T), NEW t \in Seq(T), t # <<>>
  PROVE  Append(s, Head(t)) \o Tail(t) = s \o t
<1>1. t = cat(one(Head(t)), Tail(t)) /\ Head(t) \in T /\ Tail(t) \in Seq(T)
  BY HeadTail
<1>2. PICK o, r : o = one(Head(t)) /\ r = Tail(t)
  OBVIOUS
<1>3. o \in Seq(T) /\ r \in Seq(T) /\ Append(s, Head(t)) = s \o o
  <2>1. o \in Seq(T) /\ r \in Seq(T)
    BY <1>1, <1>2, SmallSequences
  <2>2. Append(s, Head(t)) = cat(s, o)
    BY <1>1, <1>2, AppendCat
  <2>3. QED
    BY <2>1, <2>2 DEF cat
<1>4. (s \o o) \o r = s \o (o \o r)
  <2>1. o \in Seq(T) /\ r \in Seq(T)
    BY <1>3
  <2>2. QED
    BY <2>1, ConcatAssociative
<1>5. t = o \o r
  BY <1>1, <1>2 DEF cat
<1>6. Append(s, Head(t)) \o Tail(t) = (s \o o) \o r
  BY <1>2, <1>3
<1>7. QED
  BY <1>4, <1>5, <1>6

(* Whoever writes one of the two copies of the transcript writes both. *)
LEMMA ContextNext ==
  ASSUME AgentInv, [Next]_vars
  PROVE  ContextInv'
<1>0. /\ ContextInv /\ PendingInv /\ messages \in Seq(All) /\ pending \in Seq(All)
      /\ DOMAIN ghost = {"dropped", "lost", "scars"}
  BY BooksSequences DEF AgentInv, AgentTypes
<1>1. CASE UNCHANGED vars
  BY <1>0, <1>1 DEF vars, ContextInv
<1>2. CASE steer \/ followUp \/ abort
  BY <1>0, <1>2 DEF steer, followUp, abort, ContextInv
<1>3. CASE clearAllQueues
  BY <1>0, <1>3 DEF clearAllQueues, ContextInv
<1>4. CASE reset
  BY <1>0, <1>4 DEF reset, ContextInv, Loop
<1>5. CASE prompt \/ continueFromAssistant
  <2>1. PICK prompts, skip : begin(prompts, skip)
    BY <1>5 DEF prompt, continueFromAssistant
  <2>2. QED
    BY <2>1 DEF begin, ContextInv, Loop
<1>6. CASE continueFromResult
  <2>1. messages \o <<>> = messages
    BY <1>0
  <2>2. QED
    BY <1>6, <2>1 DEF continueFromResult, ContextInv, Loop
<1>7. CASE publishPrompt
  <2>1. CASE pending = <<>>
    <3>1. messages \o pending = messages
      BY <1>0, <2>1
    <3>2. QED
      BY <1>0, <1>7, <2>1, <3>1 DEF publishPrompt, ContextInv, Loop
  <2>2. CASE pending # <<>>
    <3>1. messages' \o pending' = messages \o pending
      BY <1>0, <1>7, <2>2, PublishMoves DEF publishPrompt
    <3>2. QED
      BY <1>0, <1>7, <2>2, <3>1 DEF publishPrompt, ContextInv, Loop
  <2>3. QED
    BY <2>1, <2>2
<1>8. CASE pollSteering \/ turnStart \/ requestProvider \/ turnEnd \/ pollFollowUps
  BY <1>0, <1>8 DEF pollSteering, turnStart, requestProvider, turnEnd, pollFollowUps, ContextInv, Loop
<1>9. CASE injectPending
  BY <1>0, <1>9 DEF injectPending, ContextInv, Loop
<1>10. ASSUME NEW cs, receive(cs)
       PROVE  /\ "reset" \notin ghost'.scars => context = messages
              /\ messages' = Append(messages, assistant("reply", cs))
  BY <1>0, <1>10 DEF receive, ContextInv, Loop
<1>11. ASSUME NEW cs \in Replies, NEW stop \in StopReasons, respond(cs, stop) PROVE ContextInv'
  <2>1. receive(cs) /\ context' = Append(context, assistant("reply", cs)) /\ pc' # "prompts"
    BY <1>11 DEF respond
  <2>2. "reset" \notin ghost'.scars => context' = messages'
    BY <1>10, <2>1
  <2>3. QED
    BY <2>1, <2>2 DEF ContextInv
<1>12. ASSUME NEW cs \in Replies, respondThrows(cs) PROVE ContextInv'
  BY <1>12 DEF respondThrows, ContextInv, Loop
<1>13. ASSUME NEW finalized, NEW t, NEW s, executeToolCalls(finalized, t, s) PROVE ContextInv'
  BY <1>0, <1>13 DEF executeToolCalls, ContextInv, Loop
<1>14. CASE publishResult
  BY <1>0, <1>14 DEF publishResult, ContextInv, Loop
<1>15. CASE agentEnd \/ planFailureTermination \/ publishClosure \/ throw \/ closureThrows
  BY <1>15 DEF agentEnd, planFailureTermination, publishClosure, throw, closureThrows, finishRun, ContextInv, Loop
<1>16. QED
  BY <1>1, <1>2, <1>3, <1>4, <1>5, <1>6, <1>7, <1>8, <1>9, <1>11, <1>12, <1>13, <1>14, <1>15
  DEF Next, Callers, Starts, Loops, Throws

-----------------------------------------------------------------------------
(***************************************************************************)
(* Every step keeps the books.                                             *)
(***************************************************************************)

(* Every step keeps the books. *)
LEMMA BooksNext ==
  ASSUME AgentInv, [Next]_vars
  PROVE  BooksInv'
<1> DEFINE g == ghost.dropped \cup ghost.lost
<1>0. /\ BooksInv /\ PendingInv /\ messages \in Seq(All) /\ pending \in Seq(Users) /\ pending \in Seq(All)
      /\ steering \in Seq(UsersOf("steer")) /\ followUps \in Seq(UsersOf("followUp")) /\ next \in Nat
      /\ todo \in Seq(Others) /\ DOMAIN ghost = {"dropped", "lost", "scars"}
  BY BooksSequences DEF AgentInv, AgentTypes
<1>1. Books(messages, pending, steering, followUps, next, g)
  BY <1>0 DEF BooksInv
<1>2. ASSUME pc \notin {"prompts", "turn", "inject"} PROVE Books(messages, none, steering, followUps, next, g)
  BY <1>0, <1>1, <1>2 DEF PendingInv, none
<1>3. ASSUME UNCHANGED <<messages, pending, steering, followUps, next, ghost>> PROVE BooksInv'
  BY <1>1, <1>3 DEF BooksInv
<1>4. CASE UNCHANGED vars
  BY <1>3, <1>4 DEF vars
<1>5. CASE steer
  <2>1. PICK x : x = user(<<"steer", next>>)
    OBVIOUS
  <2>2. x \in UsersOf("steer") /\ x.id[2] = next
    BY <1>0, <2>1, MessagesMade
  <2>3. steering' = cat(steering, one(x)) /\ next' = next + 1 /\ UNCHANGED <<messages, pending, followUps, ghost>>
    BY <1>0, <1>5, <2>1, <2>2, AppendCat DEF steer
  <2>4. Books(messages, pending, cat(steering, one(x)), followUps, next + 1, g)
    BY <1>1, <2>2, BooksSteer
  <2>5. QED
    BY <2>3, <2>4 DEF BooksInv
<1>6. CASE followUp
  <2>1. PICK x : x = user(<<"followUp", next>>)
    OBVIOUS
  <2>2. x \in UsersOf("followUp") /\ x.id[2] = next
    BY <1>0, <2>1, MessagesMade
  <2>3. followUps' = cat(followUps, one(x)) /\ next' = next + 1 /\ UNCHANGED <<messages, pending, steering, ghost>>
    BY <1>0, <1>6, <2>1, <2>2, AppendCat DEF followUp
  <2>4. Books(messages, pending, steering, cat(followUps, one(x)), next + 1, g)
    BY <1>1, <2>2, BooksFollowUp
  <2>5. QED
    BY <2>3, <2>4 DEF BooksInv
<1>7. CASE clearAllQueues
  <2>1. ghost'.dropped \cup ghost'.lost = g \cup ToSet(cat(steering, followUps))
    BY <1>0, <1>7 DEF clearAllQueues, cat
  <2>2. steering' = none /\ followUps' = none /\ UNCHANGED <<messages, pending, next>>
    BY <1>7 DEF clearAllQueues, none
  <2>3. Books(messages, pending, none, none, next, g \cup ToSet(cat(steering, followUps)))
    BY <1>1, BooksClear
  <2>4. QED
    BY <2>1, <2>2, <2>3 DEF BooksInv
<1>8. CASE reset
  <2>1. ghost'.dropped \cup ghost'.lost = g \cup ToSet(cat(cat(steering, followUps), messages))
    BY <1>0, <1>8 DEF reset, cat
  <2>2. messages' = none /\ steering' = none /\ followUps' = none /\ UNCHANGED <<pending, next>>
    BY <1>8 DEF reset, none
  <2>3. Books(none, pending, none, none, next, g \cup ToSet(cat(cat(steering, followUps), messages)))
    BY <1>1, BooksReset
  <2>4. QED
    BY <2>1, <2>2, <2>3 DEF BooksInv
<1>9. ASSUME NEW skip, begin(<<user(<<"prompt", next>>)>>, skip), next' = next + 1, UNCHANGED <<steering, followUps>>
      PROVE  BooksInv'
  <2>1. PICK x : x = user(<<"prompt", next>>)
    OBVIOUS
  <2>2. x \in UsersOf("prompt") /\ x.id[2] = next
    BY <1>0, <2>1, MessagesMade
  <2>3. pc = "idle" /\ pending' = one(x) /\ UNCHANGED <<messages, ghost>>
    BY <1>9, <2>1 DEF begin, one
  <2>4. Books(messages, one(x), steering, followUps, next + 1, g)
    BY <1>2, <2>2, <2>3, BooksPrompt
  <2>5. QED
    BY <1>9, <2>3, <2>4 DEF BooksInv
<1>10. ASSUME pc \notin {"prompts", "turn", "inject"}, pending' = drained(steering, steeringMode),
              steering' = rest(steering, steeringMode), UNCHANGED <<messages, followUps, next, ghost>>
       PROVE  BooksInv'
  <2>1. /\ steering = cat(pending', steering')
        /\ pending' \in Seq(UsersOf("steer")) /\ steering' \in Seq(UsersOf("steer"))
    BY <1>0, <1>10, DrainSplits
  <2>2. Books(messages, pending', steering', followUps, next, g)
    BY <1>2, <1>10, <2>1, BooksDrainSteering
  <2>3. QED
    BY <1>10, <2>2 DEF BooksInv
<1>11. ASSUME pc \notin {"prompts", "turn", "inject"}, pending' = drained(followUps, followUpMode),
              followUps' = rest(followUps, followUpMode), UNCHANGED <<messages, steering, next, ghost>>
       PROVE  BooksInv'
  <2>1. /\ followUps = cat(pending', followUps')
        /\ pending' \in Seq(UsersOf("followUp")) /\ followUps' \in Seq(UsersOf("followUp"))
    BY <1>0, <1>11, DrainSplits
  <2>2. Books(messages, pending', steering, followUps', next, g)
    BY <1>2, <1>11, <2>1, BooksDrainFollowUps
  <2>3. QED
    BY <1>11, <2>2 DEF BooksInv
<1>12. CASE prompt
  BY <1>9, <1>12 DEF prompt
<1>13. CASE continueFromAssistant
  <2>1. CASE /\ begin(drained(steering, steeringMode), TRUE)
             /\ steering' = rest(steering, steeringMode) /\ UNCHANGED <<followUps, next>>
    BY <1>10, <2>1 DEF begin
  <2>2. CASE /\ begin(drained(followUps, followUpMode), FALSE)
             /\ followUps' = rest(followUps, followUpMode) /\ UNCHANGED <<steering, next>>
    BY <1>11, <2>2 DEF begin
  <2>3. CASE next' = next + 1 /\ begin(<<user(<<"prompt", next>>)>>, FALSE) /\ UNCHANGED <<steering, followUps>>
    BY <1>9, <2>3
  <2>4. QED
    BY <1>13, <2>1, <2>2, <2>3 DEF continueFromAssistant
<1>14. CASE continueFromResult
  <2>1. pending = <<>>
    BY <1>0, <1>14 DEF continueFromResult, PendingInv
  <2>2. QED
    BY <1>3, <1>14, <2>1 DEF continueFromResult, callers
<1>15. ASSUME pending # <<>>, messages' = Append(messages, Head(pending)), UNCHANGED <<steering, followUps, next>>
       PROVE  /\ pending' = Tail(pending) /\ UNCHANGED ghost => BooksInv'
              /\ pending' = <<>> /\ ghost'.dropped \cup ghost'.lost = g \cup (ToSet(pending) \ ToSet(messages')) => BooksInv'
  <2>1. PICK x, r : x = Head(pending) /\ r = Tail(pending)
    OBVIOUS
  <2>2. x \in Users /\ r \in Seq(Users) /\ pending = cat(one(x), r)
    BY <1>0, <1>15, <2>1, HeadTail
  <2>3. messages' = cat(messages, one(x))
    <3>1. x \in All
      BY <2>2 DEF All
    <3>2. QED
      BY <1>0, <1>15, <2>1, <3>1, AppendCat
  <2>4. Books(messages', r, steering, followUps, next, g)
    BY <1>1, <2>2, <2>3, BooksPublish
  <2>5. Books(messages', none, steering, followUps, next, g \cup (ToSet(pending) \ ToSet(messages')))
    BY <1>1, <2>2, <2>3, BooksThrowPublished
  <2>6. QED
    BY <1>15, <2>1, <2>4, <2>5 DEF BooksInv, none
<1>16. CASE publishPrompt
  BY <1>3, <1>15, <1>16 DEF publishPrompt, callers
<1>17. CASE injectPending
  BY <1>3, <1>15, <1>17 DEF injectPending, callers
<1>18. CASE pollSteering
  <2>1. CASE flags.skip
    <3>1. pending = <<>>
      BY <1>0, <1>18 DEF pollSteering, PendingInv
    <3>2. QED
      BY <1>3, <1>18, <2>1, <3>1 DEF pollSteering
  <2>2. CASE ~flags.skip
    BY <1>10, <1>18, <2>2 DEF pollSteering
  <2>3. QED
    BY <2>1, <2>2
<1>19. CASE pollFollowUps
  BY <1>11, <1>19 DEF pollFollowUps
<1>20. CASE abort \/ turnStart \/ requestProvider \/ turnEnd
  BY <1>3, <1>20 DEF abort, turnStart, requestProvider, turnEnd, callers
<1>21. ASSUME NEW finalized, NEW t, NEW s, executeToolCalls(finalized, t, s) PROVE BooksInv'
  BY <1>3, <1>21 DEF executeToolCalls, callers
<1>22. CASE agentEnd \/ planFailureTermination
  <2>1. pending = <<>>
    BY <1>0, <1>22 DEF agentEnd, planFailureTermination, PendingInv
  <2>2. QED
    BY <1>3, <1>22, <2>1 DEF agentEnd, planFailureTermination, finishRun, callers
<1>23. ASSUME NEW x \in Others, messages' = Append(messages, x), UNCHANGED <<pending, steering, followUps, next>>,
              ghost'.dropped = ghost.dropped, ghost'.lost = ghost.lost
       PROVE  BooksInv'
  <2>1. messages' = cat(messages, one(x))
    <3>1. x \in All
      BY DEF All
    <3>2. QED
      BY <1>0, <1>23, <3>1, AppendCat
  <2>2. Books(messages', pending, steering, followUps, next, g)
    BY <1>1, <2>1, BooksOther
  <2>3. QED
    BY <1>23, <2>2 DEF BooksInv
<1>24. ASSUME NEW cs \in Replies, receive(cs) PROVE BooksInv'
  <2>1. assistant("reply", cs) \in Others
    BY RepliesTyped, MessagesMade DEF AgentInv, AgentTypes
  <2>2. QED
    BY <1>0, <1>23, <1>24, <2>1 DEF receive, callers
<1>25. ASSUME todo # <<>> PROVE Head(todo) \in Others
  BY <1>0, <1>25, HeadTail
<1>26. CASE publishResult
  BY <1>3, <1>23, <1>25, <1>26 DEF publishResult, callers
<1>27. CASE publishClosure
  <2>1. pending = <<>>
    BY <1>0, <1>27 DEF publishClosure, PendingInv
  <2>2. CASE todo # <<>>
    BY <1>23, <1>25, <1>27, <2>2 DEF publishClosure, callers
  <2>3. CASE todo = <<>>
    BY <1>3, <1>27, <2>1, <2>3 DEF publishClosure, finishRun, callers
  <2>4. QED
    BY <2>2, <2>3
<1>28. CASE closureThrows
  <2>1. pending = <<>> /\ pending' = <<>>
    BY <1>0, <1>28 DEF closureThrows, finishRun, PendingInv
  <2>2. ghost'.dropped = ghost.dropped /\ ghost'.lost = ghost.lost /\ UNCHANGED <<steering, followUps, next>>
    BY <1>0, <1>28 DEF closureThrows, finishRun, callers
  <2>3. CASE UNCHANGED messages
    BY <1>1, <2>1, <2>2, <2>3 DEF BooksInv
  <2>4. CASE todo # <<>> /\ messages' = Append(messages, Head(todo))
    BY <1>23, <1>25, <2>1, <2>2, <2>4
  <2>5. QED
    BY <1>28, <2>3, <2>4 DEF closureThrows
<1>29. CASE throw
  <2>1. /\ pending' = <<>> /\ UNCHANGED <<steering, followUps, next>>
        /\ ghost'.dropped \cup ghost'.lost = g \cup (ToSet(pending) \ ToSet(messages'))
    BY <1>0, <1>29 DEF throw, callers
  <2>2. CASE UNCHANGED messages
    <3>1. Books(messages, none, steering, followUps, next, g \cup (ToSet(pending) \ ToSet(messages)))
      BY <1>1, BooksThrow
    <3>2. QED
      BY <2>1, <2>2, <3>1 DEF BooksInv, none
  <2>3. CASE pc \in {"prompts", "inject"} /\ pending # <<>> /\ messages' = Append(messages, Head(pending))
    BY <1>15, <2>1, <2>3
  <2>4. CASE pc = "results" /\ todo # <<>> /\ messages' = Append(messages, Head(todo))
    <3>1. PICK x : x = Head(todo)
      OBVIOUS
    <3>2. x \in Others /\ messages' = cat(messages, one(x))
      <4>1. x \in Others /\ x \in All
        BY <1>25, <2>4, <3>1 DEF All
      <4>2. QED
        BY <1>0, <2>4, <3>1, <4>1, AppendCat
    <3>3. Books(messages', pending, steering, followUps, next, g)
      BY <1>1, <3>2, BooksOther
    <3>4. Books(messages', none, steering, followUps, next, g \cup (ToSet(pending) \ ToSet(messages')))
      BY <3>3, BooksThrow
    <3>5. QED
      BY <2>1, <3>4 DEF BooksInv, none
  <2>5. QED
    BY <1>29, <2>2, <2>3, <2>4 DEF throw, publishing
<1>30. QED
  BY <1>4, <1>5, <1>6, <1>7, <1>8, <1>12, <1>13, <1>14, <1>16, <1>17, <1>18, <1>19, <1>20, <1>21, <1>22,
     <1>24, <1>26, <1>27, <1>28, <1>29
  DEF Next, Callers, Starts, Loops, Throws, respond, respondThrows

-----------------------------------------------------------------------------
(***************************************************************************)
(* A transcript that grows by a message: its calls and its results.        *)
(***************************************************************************)

(* u is t with one more message m, by index. *)
Grown(t, m, u) ==
  /\ u \in Seq(All) /\ t \in Seq(All) /\ m \in All /\ Len(t) \in Nat /\ Len(u) = Len(t) + 1
  /\ DOMAIN t = 1..Len(t) /\ DOMAIN u = 1..(Len(t) + 1)
  /\ u[Len(t) + 1] = m
  /\ \A i \in 1..Len(t) : u[i] = t[i]

(* Append, by index. *)
LEMMA AppendGrows ==
  ASSUME NEW t \in Seq(All), NEW m \in All, NEW u, u = Append(t, m)
  PROVE  Grown(t, m, u)
<1>1. u \in Seq(All) /\ Len(u) = Len(t) + 1 /\ u[Len(t) + 1] = m /\ \A i \in 1..Len(t) : u[i] = t[i]
  BY AppendProperties
<1>2. Len(t) \in Nat /\ DOMAIN t = 1..Len(t) /\ DOMAIN u = 1..Len(u)
  BY <1>1, LenProperties
<1>3. QED
  BY <1>1, <1>2 DEF Grown

(* The last message is the new one, n is its index. *)
NewAt(t, m, u, n) ==
  DOMAIN u = DOMAIN t \cup {n} /\ n \notin DOMAIN t /\ u[n] = m /\ \A i \in DOMAIN t : u[i] = t[i]

(* The indices of a transcript that has grown. *)
LEMMA GrownIndices ==
  ASSUME NEW t, NEW m, NEW u, Grown(t, m, u)
  PROVE  \E n : NewAt(t, m, u, n)
<1>1. NewAt(t, m, u, Len(t) + 1)
  BY DEF Grown, NewAt
<1>2. QED
  BY <1>1

(* The ids of calls and of results, by index. *)
LEMMA CallsAre ==
  ASSUME NEW t, NEW c
  PROVE  /\ c \in callsOf(t) <=> \E i \in DOMAIN t : c \in ToSet(t[i].calls)
         /\ c \in resultsOf(t) <=> \E i \in DOMAIN t : t[i].role = "toolResult" /\ c = t[i].id
BY DEF callsOf, resultsOf

(* The calls of a transcript that has grown. *)
LEMMA GrownCalls ==
  ASSUME NEW t, NEW m, NEW u, Grown(t, m, u)
  PROVE  callsOf(u) = callsOf(t) \cup ToSet(m.calls)
<1>1. PICK n : NewAt(t, m, u, n)
  BY GrownIndices
<1>2. DOMAIN u = DOMAIN t \cup {n} /\ u[n] = m /\ \A i \in DOMAIN t : u[i] = t[i]
  BY <1>1 DEF NewAt
<1>3. ASSUME NEW c PROVE c \in callsOf(u) <=> c \in callsOf(t) \/ c \in ToSet(m.calls)
  <2>1. c \in callsOf(t) <=> \E i \in DOMAIN t : c \in ToSet(t[i].calls)
    BY CallsAre
  <2>2. c \in callsOf(u) <=> \E i \in DOMAIN u : c \in ToSet(u[i].calls)
    BY CallsAre
  <2>3. QED
    BY <1>2, <2>1, <2>2
<1>4. QED
  BY <1>3

(* The results of a transcript that has grown. *)
LEMMA GrownResults ==
  ASSUME NEW t, NEW m, NEW u, Grown(t, m, u)
  PROVE  /\ m.role = "toolResult" => resultsOf(u) = resultsOf(t) \cup {m.id}
         /\ m.role # "toolResult" => resultsOf(u) = resultsOf(t)
<1>1. PICK n : NewAt(t, m, u, n)
  BY GrownIndices
<1>2. DOMAIN u = DOMAIN t \cup {n} /\ u[n] = m /\ \A i \in DOMAIN t : u[i] = t[i]
  BY <1>1 DEF NewAt
<1>3. ASSUME NEW c PROVE c \in resultsOf(u) <=> c \in resultsOf(t) \/ (m.role = "toolResult" /\ c = m.id)
  <2>1. c \in resultsOf(t) <=> \E i \in DOMAIN t : t[i].role = "toolResult" /\ c = t[i].id
    BY CallsAre
  <2>2. c \in resultsOf(u) <=> \E i \in DOMAIN u : u[i].role = "toolResult" /\ c = u[i].id
    BY CallsAre
  <2>3. QED
    BY <1>2, <2>1, <2>2
<1>4. QED
  BY <1>3

(* No call id is used twice. *)
CallsOnce(t) ==
  \A i, j \in DOMAIN t : \A a \in DOMAIN t[i].calls, b \in DOMAIN t[j].calls :
    t[i].calls[a] = t[j].calls[b] => i = j /\ a = b
(* No call has two results. *)
ResultsOnce(t) ==
  \A i, j \in DOMAIN t : t[i].role = "toolResult" /\ t[j].role = "toolResult" /\ t[i].id = t[j].id => i = j
(* The elements of s are different. *)
Different(s) == \A a, b \in DOMAIN s : s[a] = s[b] => a = b

(* Fresh ids keep the calls different. *)
LEMMA CallsOnceGrows ==
  ASSUME NEW t, NEW m, NEW u, Grown(t, m, u), CallsOnce(t), Different(m.calls), ToSet(m.calls) \cap callsOf(t) = {}
  PROVE  CallsOnce(u)
<1>1. PICK n : NewAt(t, m, u, n)
  BY GrownIndices
<1>2. DOMAIN u = DOMAIN t \cup {n} /\ u[n] = m /\ \A i \in DOMAIN t : u[i] = t[i]
  BY <1>1 DEF NewAt
<1>3. ASSUME NEW i \in DOMAIN t, NEW a \in DOMAIN t[i].calls, NEW b \in DOMAIN m.calls PROVE t[i].calls[a] # m.calls[b]
  <2>1. t[i].calls[a] \in callsOf(t) /\ m.calls[b] \in ToSet(m.calls)
    BY DEF callsOf, ToSet
  <2>2. QED
    BY <2>1
<1>4. SUFFICES ASSUME NEW i \in DOMAIN u, NEW j \in DOMAIN u, NEW a \in DOMAIN u[i].calls, NEW b \in DOMAIN u[j].calls,
                      u[i].calls[a] = u[j].calls[b]
               PROVE  i = j /\ a = b
  BY DEF CallsOnce
<1>5. CASE i \in DOMAIN t /\ j \in DOMAIN t
  BY <1>2, <1>4, <1>5 DEF CallsOnce
<1>6. CASE i = n /\ j = n
  BY <1>2, <1>4, <1>6 DEF Different
<1>7. CASE i \in DOMAIN t /\ j = n
  BY <1>2, <1>3, <1>4, <1>7
<1>8. CASE i = n /\ j \in DOMAIN t
  BY <1>2, <1>3, <1>4, <1>8
<1>9. QED
  BY <1>2, <1>5, <1>6, <1>7, <1>8

(* And the other way round. *)
LEMMA CallsOnceGrew ==
  ASSUME NEW t, NEW m, NEW u, Grown(t, m, u), CallsOnce(u)
  PROVE  Different(m.calls) /\ ToSet(m.calls) \cap callsOf(t) = {}
<1>1. PICK n : NewAt(t, m, u, n)
  BY GrownIndices
<1>2. DOMAIN u = DOMAIN t \cup {n} /\ n \notin DOMAIN t /\ u[n] = m /\ \A i \in DOMAIN t : u[i] = t[i]
  BY <1>1 DEF NewAt
<1>3. Different(m.calls)
  BY <1>2 DEF CallsOnce, Different
<1>4. ASSUME NEW c \in ToSet(m.calls), c \in callsOf(t) PROVE FALSE
  <2>1. PICK b \in DOMAIN m.calls : c = m.calls[b]
    BY DEF ToSet
  <2>2. PICK i \in DOMAIN t : c \in ToSet(t[i].calls)
    BY <1>4 DEF callsOf
  <2>3. PICK a \in DOMAIN t[i].calls : c = t[i].calls[a]
    BY <2>2 DEF ToSet
  <2>4. i \in DOMAIN u /\ n \in DOMAIN u /\ u[i] = t[i] /\ u[n] = m
    BY <1>2
  <2>5. i = n
    BY <2>1, <2>3, <2>4 DEF CallsOnce
  <2>6. QED
    BY <1>2, <2>5
<1>5. QED
  BY <1>3, <1>4

(* A result for a call that has none keeps the results different. *)
LEMMA ResultsOnceGrows ==
  ASSUME NEW t, NEW m, NEW u, Grown(t, m, u), ResultsOnce(t), m.role = "toolResult" => m.id \notin resultsOf(t)
  PROVE  ResultsOnce(u)
<1>1. PICK n : NewAt(t, m, u, n)
  BY GrownIndices
<1>2. DOMAIN u = DOMAIN t \cup {n} /\ u[n] = m /\ \A i \in DOMAIN t : u[i] = t[i]
  BY <1>1 DEF NewAt
<1>3. ASSUME NEW i \in DOMAIN t, t[i].role = "toolResult", m.role = "toolResult" PROVE t[i].id # m.id
  BY <1>3 DEF resultsOf
<1>4. QED
  BY <1>2, <1>3 DEF ResultsOnce

-----------------------------------------------------------------------------
(***************************************************************************)
(* The left-to-right pass over a transcript.                               *)
(***************************************************************************)

(* The pass over a message that it does not stop at: what awaits a result  *)
(* before and after.                                                       *)
Advances(p, m, q) ==
  IF m.role = "toolResult" THEN m.id \in p /\ q = p \ {m.id} ELSE p = {} /\ q = ToSet(m.calls)
(* f is what awaits a result after each message. *)
PassOf(f, t) ==
  DOMAIN f = 0..Len(t) /\ f[0] = {} /\ \A i \in 1..Len(t) : Advances(f[i - 1], t[i], f[i])
Passes(t, P) == \E f : PassOf(f, t) /\ f[Len(t)] = P

(* A pass goes on. *)
LEMMA PassesGrow ==
  ASSUME NEW t, NEW m, NEW u, Grown(t, m, u), NEW P, NEW Q, Passes(t, P), Advances(P, m, Q)
  PROVE  Passes(u, Q)
<1>1. PICK f : PassOf(f, t) /\ f[Len(t)] = P
  BY DEF Passes
<1>2. PICK g : g = [i \in 0..(Len(t) + 1) |-> IF i = Len(t) + 1 THEN Q ELSE f[i]]
  OBVIOUS
<1>3. /\ Len(t) \in Nat /\ Len(u) = Len(t) + 1 /\ u[Len(t) + 1] = m /\ \A i \in 1..Len(t) : u[i] = t[i]
  BY DEF Grown
<1>4. DOMAIN g = 0..Len(u) /\ g[0] = {} /\ g[Len(u)] = Q
  BY <1>1, <1>2, <1>3 DEF PassOf
<1>5. ASSUME NEW i \in 1..Len(u) PROVE Advances(g[i - 1], u[i], g[i])
  <2>1. CASE i = Len(t) + 1
    <3>1. g[i - 1] = f[Len(t)] /\ u[i] = m /\ g[i] = Q
      BY <1>2, <1>3, <2>1
    <3>2. QED
      BY <1>1, <3>1
  <2>2. CASE i # Len(t) + 1
    <3>1. i \in 1..Len(t) /\ g[i - 1] = f[i - 1] /\ u[i] = t[i] /\ g[i] = f[i]
      BY <1>2, <1>3, <2>2
    <3>2. QED
      BY <1>1, <3>1 DEF PassOf
  <2>3. QED
    BY <2>1, <2>2
<1>6. QED
  BY <1>4, <1>5 DEF Passes, PassOf

(* Over nothing the pass finds nothing. *)
LEMMA PassesNone == Passes(<<>>, {})
<1>1. PICK f : f = [i \in 0..0 |-> {}]
  OBVIOUS
<1>2. Len(<<>>) = 0
  OBVIOUS
<1>3. DOMAIN f = 0..0 /\ f[0] = {} /\ 1..0 = {}
  BY <1>1
<1>4. QED
  BY <1>2, <1>3 DEF Passes, PassOf

(* A step of the pass that does not stop. *)
LEMMA ScanAdvances ==
  ASSUME NEW known, NEW p, NEW m, NEW q, Advances(p, m, q)
  PROVE  scanStep(known, [pending |-> p, broken |-> {}], m) = [pending |-> q, broken |-> {}]
<1>1. PICK s : s = [pending |-> p, broken |-> {}]
  OBVIOUS
<1>2. s.pending = p /\ s.broken = {} /\ \A x : [s EXCEPT !.pending = x] = [pending |-> x, broken |-> {}]
  BY <1>1
<1>3. CASE m.role = "toolResult"
  <2>1. m.id \in p /\ q = p \ {m.id}
    BY <1>3 DEF Advances
  <2>2. scanStep(known, s, m) = [s EXCEPT !.pending = s.pending \ {m.id}]
    BY <1>2, <1>3, <2>1 DEF scanStep
  <2>3. QED
    BY <1>1, <1>2, <2>1, <2>2
<1>4. CASE m.role # "toolResult"
  <2>1. p = {} /\ q = ToSet(m.calls)
    BY <1>4 DEF Advances
  <2>2. scanStep(known, s, m) = [s EXCEPT !.pending = ToSet(m.calls)]
    BY <1>2, <1>4, <2>1 DEF scanStep
  <2>3. QED
    BY <1>1, <1>2, <2>1, <2>2
<1>5. QED
  BY <1>3, <1>4

(* The pass then reports nothing. *)
LEMMA PassesClean ==
  ASSUME NEW t \in Seq(All), NEW P, Passes(t, P)
  PROVE  interleaved(t) = {}
<1> DEFINE eq(h) == h = [i \in 0..Len(t) |-> IF i = 0 THEN [pending |-> {}, broken |-> {}]
                                            ELSE scanStep(callsOf(t), h[i - 1], t[i])]
<1>1. PICK f : PassOf(f, t)
  BY DEF Passes
<1>2. Len(t) \in Nat
  OBVIOUS
<1>3. PICK g : g = [i \in 0..Len(t) |-> [pending |-> f[i], broken |-> {}]]
  OBVIOUS
<1>4. ASSUME NEW i \in 1..Len(t) PROVE g[i] = scanStep(callsOf(t), g[i - 1], t[i])
  <2>1. i \in 0..Len(t) /\ i - 1 \in 0..Len(t) /\ Advances(f[i - 1], t[i], f[i])
    BY <1>1, <1>2 DEF PassOf
  <2>2. g[i] = [pending |-> f[i], broken |-> {}] /\ g[i - 1] = [pending |-> f[i - 1], broken |-> {}]
    BY <1>3, <2>1
  <2>3. QED
    BY <2>1, <2>2, ScanAdvances
<1>5. eq(g)
  <2>1. PICK h : h = [i \in 0..Len(t) |-> IF i = 0 THEN [pending |-> {}, broken |-> {}]
                                         ELSE scanStep(callsOf(t), g[i - 1], t[i])]
    OBVIOUS
  <2>2. ASSUME NEW i \in 0..Len(t) PROVE g[i] = h[i]
    <3>1. CASE i = 0
      BY <1>1, <1>3, <2>1, <3>1 DEF PassOf
    <3>2. CASE i # 0
      <4>1. i \in 1..Len(t)
        BY <1>2, <3>2
      <4>2. QED
        BY <1>4, <2>1, <3>2, <4>1
    <3>3. QED
      BY <3>1, <3>2
  <2>3. g = h
    BY <1>3, <2>1, <2>2
  <2>4. QED
    BY <2>1, <2>3
<1>6. PICK s : s = CHOOSE h : eq(h)
  OBVIOUS
<1>7. eq(s)
  BY <1>5, <1>6
<1>8. ASSUME NEW i \in 0..Len(t) PROVE s[i] = g[i]
  <2> DEFINE S == {n \in Nat : n <= Len(t) => s[n] = g[n]}
  <2>1. ASSUME NEW n \in Nat, 0..(n - 1) \subseteq S PROVE n \in S
    <3>1. SUFFICES ASSUME n <= Len(t) PROVE s[n] = g[n]
      OBVIOUS
    <3>2. CASE n = 0
      <4>1. s[0] = [pending |-> {}, broken |-> {}]
        BY <1>2, <1>7
      <4>2. g[0] = [pending |-> {}, broken |-> {}]
        BY <1>2, <1>5
      <4>3. QED
        BY <3>2, <4>1, <4>2
    <3>3. CASE n # 0
      <4>1. n - 1 \in S /\ n - 1 <= Len(t) /\ n \in 0..Len(t) /\ n \in 1..Len(t)
        BY <1>2, <2>1, <3>1, <3>3
      <4>2. s[n] = scanStep(callsOf(t), s[n - 1], t[n])
        BY <1>7, <3>3, <4>1
      <4>3. g[n] = scanStep(callsOf(t), g[n - 1], t[n])
        BY <1>4, <4>1
      <4>4. QED
        BY <4>1, <4>2, <4>3
    <3>4. QED
      BY <3>2, <3>3
  <2>2. S = Nat
    <3> HIDE DEF S
    <3>1. S \in SUBSET Nat
      BY DEF S
    <3>2. QED
      BY <2>1, <3>1, Inductively
  <2>3. QED
    BY <1>2, <2>2
<1>9. s[Len(t)].broken = {}
  BY <1>2, <1>3, <1>8
<1>10. interleaved(t) = s[Len(t)].broken
  BY <1>6 DEF interleaved
<1>11. QED
  BY <1>9, <1>10

-----------------------------------------------------------------------------
(***************************************************************************)
(* How often a call id occurs.                                             *)
(***************************************************************************)

(* The places of a call id. *)
LEMMA PlacesAre ==
  ASSUME NEW t, NEW c, NEW x
  PROVE  x \in callPlaces(t, c) <=> \E i \in DOMAIN t : \E a \in DOMAIN t[i].calls : t[i].calls[a] = c /\ x = <<i, a>>
<1>1. ASSUME NEW i \in DOMAIN t
      PROVE  x \in {i} \X {j \in DOMAIN t[i].calls : t[i].calls[j] = c} <=>
               \E a \in DOMAIN t[i].calls : t[i].calls[a] = c /\ x = <<i, a>>
  OBVIOUS
<1>2. x \in callPlaces(t, c) <=> \E i \in DOMAIN t : x \in {i} \X {j \in DOMAIN t[i].calls : t[i].calls[j] = c}
  BY DEF callPlaces
<1>3. QED
  BY <1>1, <1>2

(* There are finitely many. *)
LEMMA PlacesFinite ==
  ASSUME NEW t \in Seq(All), NEW c
  PROVE  IsFiniteSet(callPlaces(t, c))
<1>1. Len(t) \in Nat /\ DOMAIN t = 1..Len(t) /\ \A i \in DOMAIN t : t[i] \in All
  BY LenProperties
<1>2. PICK f : f = [i \in DOMAIN t |-> {i} \X {j \in DOMAIN t[i].calls : t[i].calls[j] = c}]
  OBVIOUS
<1>3. PICK S : S = {f[i] : i \in DOMAIN t}
  OBVIOUS
<1>4. IsFiniteSet(DOMAIN t)
  BY <1>1, FS_Interval
<1>5. IsFiniteSet(S)
  <2>1. f \in Surjection(DOMAIN t, S)
    BY <1>2, <1>3 DEF Surjection
  <2>2. QED
    BY <1>4, <2>1, FS_Surjection
<1>6. ASSUME NEW i \in DOMAIN t PROVE IsFiniteSet(f[i])
  <2>1. t[i].calls \in Seq(Nat)
    BY <1>1, CallsTyped
  <2>2. PICK cs : cs = t[i].calls
    OBVIOUS
  <2>3. Len(cs) \in Nat /\ DOMAIN cs = 1..Len(cs)
    BY <2>1, <2>2, LenProperties
  <2>4. PICK J : J = {j \in DOMAIN cs : cs[j] = c}
    OBVIOUS
  <2>5. IsFiniteSet(1..Len(cs)) /\ J \in SUBSET (1..Len(cs))
    BY <2>3, <2>4, FS_Interval
  <2>6. IsFiniteSet(J)
    BY <2>5, FS_Subset
  <2>7. IsFiniteSet({i})
    BY FS_Singleton
  <2>8. IsFiniteSet({i} \X J)
    BY <2>6, <2>7, FS_Product
  <2>9. f[i] = {i} \X J
    BY <1>2, <2>2, <2>4
  <2>10. QED
    BY <2>8, <2>9
<1>7. IsFiniteSet(UNION S)
  <2>1. \A T \in S : IsFiniteSet(T)
    BY <1>3, <1>6
  <2>2. QED
    BY <1>5, <2>1, FS_UNION
<1>8. callPlaces(t, c) = UNION S
  <2>1. S = {{i} \X {j \in DOMAIN t[i].calls : t[i].calls[j] = c} : i \in DOMAIN t}
    BY <1>2, <1>3
  <2>2. QED
    BY <2>1 DEF callPlaces
<1>9. QED
  BY <1>7, <1>8

(* A finite set has more than one element if two of them differ; any set   *)
(* whose elements are all equal does not.                                  *)
LEMMA MoreThanOne ==
  ASSUME NEW S
  PROVE  /\ IsFiniteSet(S) /\ (\E x, y \in S : x # y) => Cardinality(S) > 1
         /\ (\A x, y \in S : x = y) => ~(Cardinality(S) > 1)
<1>1. ASSUME IsFiniteSet(S), \E x, y \in S : x # y PROVE Cardinality(S) > 1
  <2>1. PICK x, y : x \in S /\ y \in S /\ x # y
    BY <1>1
  <2>2. Cardinality(S) \in Nat
    BY <1>1, FS_CardinalityType
  <2>3. Cardinality(S) # 0
    BY <1>1, <2>1, FS_EmptySet
  <2>4. Cardinality(S) # 1
    <3>1. SUFFICES ASSUME Cardinality(S) = 1 PROVE FALSE
      OBVIOUS
    <3>2. PICK z : S = {z}
      BY <1>1, <3>1, FS_Singleton
    <3>3. QED
      BY <2>1, <3>2
  <2>5. QED
    BY <2>2, <2>3, <2>4
<1>2. ASSUME \A x, y \in S : x = y PROVE ~(Cardinality(S) > 1)
  <2>1. CASE S = {}
    BY <2>1, FS_EmptySet
  <2>2. CASE S # {}
    <3>1. PICK x \in S : TRUE
      BY <2>2
    <3>2. S = {x}
      BY <1>2, <3>1
    <3>3. Cardinality({x}) = 1
      BY FS_Singleton
    <3>4. QED
      BY <3>2, <3>3
  <2>3. QED
    BY <2>1, <2>2
<1>3. QED
  BY <1>1, <1>2

(* Duplicate call ids are counted as such. *)
LEMMA CallsCounted ==
  ASSUME NEW t \in Seq(All)
  PROVE  CallsOnce(t) <=> {c \in callsOf(t) : callIdCount(t, c) > 1} = {}
<1>1. ASSUME CallsOnce(t), NEW c \in callsOf(t) PROVE ~(callIdCount(t, c) > 1)
  <2>1. ASSUME NEW x \in callPlaces(t, c), NEW y \in callPlaces(t, c) PROVE x = y
    <3>1. PICK i \in DOMAIN t : \E a \in DOMAIN t[i].calls : t[i].calls[a] = c /\ x = <<i, a>>
      BY PlacesAre
    <3>2. PICK a \in DOMAIN t[i].calls : t[i].calls[a] = c /\ x = <<i, a>>
      BY <3>1
    <3>3. PICK j \in DOMAIN t : \E b \in DOMAIN t[j].calls : t[j].calls[b] = c /\ y = <<j, b>>
      BY PlacesAre
    <3>4. PICK b \in DOMAIN t[j].calls : t[j].calls[b] = c /\ y = <<j, b>>
      BY <3>3
    <3>5. i = j /\ a = b
      BY <1>1, <3>2, <3>4 DEF CallsOnce
    <3>6. QED
      BY <3>2, <3>4, <3>5
  <2>2. QED
    BY <2>1, MoreThanOne DEF callIdCount
<1>2. ASSUME ~CallsOnce(t) PROVE \E c \in callsOf(t) : callIdCount(t, c) > 1
  <2>1. PICK i \in DOMAIN t, j \in DOMAIN t :
          \E a \in DOMAIN t[i].calls, b \in DOMAIN t[j].calls : t[i].calls[a] = t[j].calls[b] /\ ~(i = j /\ a = b)
    BY <1>2 DEF CallsOnce
  <2>2. PICK a \in DOMAIN t[i].calls, b \in DOMAIN t[j].calls : t[i].calls[a] = t[j].calls[b] /\ ~(i = j /\ a = b)
    BY <2>1
  <2>3. PICK c : c = t[i].calls[a]
    OBVIOUS
  <2>4. <<i, a>> \in callPlaces(t, c) /\ <<j, b>> \in callPlaces(t, c) /\ <<i, a>> # <<j, b>>
    <3>1. <<i, a>> \in callPlaces(t, c)
      BY <2>3, PlacesAre
    <3>2. <<j, b>> \in callPlaces(t, c)
      BY <2>2, <2>3, PlacesAre
    <3>3. QED
      BY <2>2, <3>1, <3>2
  <2>5. callIdCount(t, c) > 1
    BY <2>4, PlacesFinite, MoreThanOne DEF callIdCount
  <2>6. c \in callsOf(t)
    BY <2>3 DEF callsOf, ToSet
  <2>7. QED
    BY <2>5, <2>6
<1>3. QED
  BY <1>1, <1>2

(* Two results for one call are counted as such. *)
LEMMA ResultsCounted ==
  ASSUME NEW t, ResultsOnce(t)
  PROVE  {c \in resultsOf(t) : resultIdCount(t, c) > 1} = {}
<1>1. ASSUME NEW c PROVE ~(resultIdCount(t, c) > 1)
  <2>1. PICK S : S = {i \in DOMAIN t : t[i] = toolResult(c)}
    OBVIOUS
  <2>2. toolResult(c).role = "toolResult" /\ toolResult(c).id = c
    BY DEF toolResult
  <2>3. \A x, y \in S : x = y
    BY <2>1, <2>2 DEF ResultsOnce
  <2>4. QED
    BY <2>1, <2>3, MoreThanOne DEF resultIdCount
<1>2. QED
  BY <1>1

-----------------------------------------------------------------------------
(***************************************************************************)
(* Transcripts that are sound but for some calls.                          *)
(***************************************************************************)

(* The calls that await a result are those of the last assistant message,  *)
(* which only its results follow.                                          *)
OpenTail(t, P) ==
  P # {} => \E k \in DOMAIN t :
    /\ t[k].role = "assistant" /\ P \subseteq ToSet(t[k].calls)
    /\ \A i \in (k + 1)..Len(t) : t[i].role = "toolResult" /\ t[i].id \in ToSet(t[k].calls)

(***************************************************************************)
(* The transcript t is sound but for the calls P, which still await their  *)
(* results.                                                                *)
(***************************************************************************)
Awaiting(t, P) ==
  /\ t \in Seq(All) /\ CallsOnce(t) /\ ResultsOnce(t) /\ Passes(t, P) /\ OpenTail(t, P)
  /\ P \subseteq callsOf(t) /\ resultsOf(t) = callsOf(t) \ P

(* The issues are the missing results. *)
LEMMA AwaitingIssues ==
  ASSUME NEW t, NEW P, Awaiting(t, P)
  PROVE  inspectTranscriptIntegrity(t) = issue("missing_result", P)
<1>1. PICK A, B, C, D, E :
        /\ A = {c \in callsOf(t) : callIdCount(t, c) > 1} /\ B = {c \in resultsOf(t) : resultIdCount(t, c) > 1}
        /\ C = resultsOf(t) \ callsOf(t) /\ D = callsOf(t) \ resultsOf(t) /\ E = interleaved(t)
  OBVIOUS
<1>2. A = {} /\ B = {} /\ C = {} /\ D = P /\ E = {}
  <2>1. A = {} /\ B = {}
    BY <1>1, CallsCounted, ResultsCounted DEF Awaiting
  <2>2. C = {} /\ D = P
    BY <1>1 DEF Awaiting
  <2>3. E = {}
    BY <1>1, PassesClean DEF Awaiting
  <2>4. QED
    BY <2>1, <2>2, <2>3
<1>3. inspectTranscriptIntegrity(t) =
        UNION {issue("duplicate_call_id", A), issue("duplicate_result", B), issue("orphan_result", C),
               issue("missing_result", D), issue("interleaved_non_result", E)}
  BY <1>1 DEF inspectTranscriptIntegrity
<1>4. \A k : issue(k, {}) = {}
  BY DEF issue
<1>5. QED
  BY <1>2, <1>3, <1>4

(* So the transcript is ok when nothing is missing, and never ambiguous. *)
LEMMA AwaitingVerdict ==
  ASSUME NEW t, NEW P, Awaiting(t, P)
  PROVE  (ok(t) <=> P = {}) /\ ~ambiguous(t) /\ missing(t) = P
<1>1. PICK I : I = inspectTranscriptIntegrity(t)
  OBVIOUS
<1>2. I = {[kind |-> "missing_result", id |-> c] : c \in P}
  BY <1>1, AwaitingIssues DEF issue
<1>3. (I = {} <=> P = {}) /\ (\A i \in I : i.kind = "missing_result") /\ {i.id : i \in I} = P
  <2>1. \A i \in I : i.kind = "missing_result" /\ i.id \in P
    BY <1>2
  <2>2. ASSUME NEW c \in P PROVE \E i \in I : i.id = c
    <3>1. PICK x : x = [kind |-> "missing_result", id |-> c]
      OBVIOUS
    <3>2. x \in I /\ x.id = c
      BY <1>2, <3>1
    <3>3. QED
      BY <3>2
  <2>3. QED
    BY <2>1, <2>2
<1>4. {j \in I : j.kind = "missing_result"} = I
  BY <1>3
<1>5. QED
  BY <1>1, <1>3, <1>4 DEF ok, ambiguous, missing

(* A transcript that is not ambiguous uses no call id twice. *)
LEMMA UnambiguousOnce ==
  ASSUME NEW t \in Seq(All), ~ambiguous(t)
  PROVE  CallsOnce(t)
<1>1. SUFFICES ASSUME ~CallsOnce(t) PROVE FALSE
  OBVIOUS
<1>2. PICK c : c \in {d \in callsOf(t) : callIdCount(t, d) > 1}
  BY <1>1, CallsCounted
<1>3. PICK x : x = [kind |-> "duplicate_call_id", id |-> c]
  OBVIOUS
<1>4. x \in issue("duplicate_call_id", {d \in callsOf(t) : callIdCount(t, d) > 1}) /\ x.kind = "duplicate_call_id"
  BY <1>2, <1>3 DEF issue
<1>5. x \in inspectTranscriptIntegrity(t)
  BY <1>4 DEF inspectTranscriptIntegrity
<1>6. QED
  BY <1>4, <1>5 DEF ambiguous

(* Nothing is missing in an empty transcript. *)
LEMMA AwaitingNone == Awaiting(none, {})
<1>1. none \in Seq(All) /\ DOMAIN none = {}
  BY SmallSequences, SmallIndices
<1>2. CallsOnce(none) /\ ResultsOnce(none)
  BY <1>1 DEF CallsOnce, ResultsOnce
<1>3. callsOf(none) = {} /\ resultsOf(none) = {}
  BY <1>1 DEF callsOf, resultsOf
<1>4. Passes(none, {})
  BY PassesNone DEF none
<1>5. QED
  BY <1>1, <1>2, <1>3, <1>4 DEF Awaiting, OpenTail

(* A caller's message, when nothing is missing. *)
LEMMA AwaitingUser ==
  ASSUME NEW t, NEW m \in Users, Awaiting(t, {})
  PROVE  Awaiting(Append(t, m), {})
<1>1. PICK u : u = Append(t, m)
  OBVIOUS
<1>2. m \in All /\ m.role = "user" /\ m.calls = <<>>
  BY UsersNumbered DEF All, Users, UsersOf
<1>3. Grown(t, m, u)
  BY <1>1, <1>2, AppendGrows DEF Awaiting
<1>4. DOMAIN m.calls = {} /\ ToSet(m.calls) = {} /\ Different(m.calls)
  BY <1>2 DEF ToSet, Different
<1>5. CallsOnce(u) /\ ResultsOnce(u)
  BY <1>2, <1>3, <1>4, CallsOnceGrows, ResultsOnceGrows DEF Awaiting
<1>6. callsOf(u) = callsOf(t) /\ resultsOf(u) = resultsOf(t)
  <2>1. callsOf(u) = callsOf(t) \cup ToSet(m.calls)
    BY <1>3, GrownCalls
  <2>2. resultsOf(u) = resultsOf(t)
    BY <1>2, <1>3, GrownResults
  <2>3. QED
    BY <1>4, <2>1, <2>2
<1>7. Passes(u, {})
  <2>1. Advances({}, m, {})
    BY <1>2, <1>4 DEF Advances
  <2>2. QED
    BY <1>3, <2>1, PassesGrow DEF Awaiting
<1>8. u \in Seq(All)
  BY <1>3 DEF Grown
<1>9. QED
  BY <1>1, <1>5, <1>6, <1>7, <1>8 DEF Awaiting, OpenTail

(* A reply with calls of fresh ids: they await their results. *)
LEMMA AwaitingReply ==
  ASSUME NEW t, Awaiting(t, {}), NEW m \in Others, m.role = "assistant", Different(m.calls),
         ToSet(m.calls) \cap callsOf(t) = {}
  PROVE  Awaiting(Append(t, m), ToSet(m.calls))
<1>1. PICK u, P : u = Append(t, m) /\ P = ToSet(m.calls)
  OBVIOUS
<1>2. m \in All
  BY DEF All
<1>3. Grown(t, m, u)
  BY <1>1, <1>2, AppendGrows DEF Awaiting
<1>4. CallsOnce(u) /\ ResultsOnce(u)
  <2>1. CallsOnce(u)
    BY <1>3, CallsOnceGrows DEF Awaiting
  <2>2. ResultsOnce(u)
    BY <1>3, ResultsOnceGrows DEF Awaiting
  <2>3. QED
    BY <2>1, <2>2
<1>5. callsOf(u) = callsOf(t) \cup P /\ resultsOf(u) = resultsOf(t)
  BY <1>1, <1>3, GrownCalls, GrownResults
<1>6. Passes(u, P)
  <2>1. Advances({}, m, P)
    BY <1>1 DEF Advances
  <2>2. QED
    BY <1>3, <2>1, PassesGrow DEF Awaiting
<1>7. OpenTail(u, P)
  <2>1. Len(t) + 1 \in DOMAIN u /\ u[Len(t) + 1] = m /\ Len(u) = Len(t) + 1 /\ Len(t) \in Nat
    BY <1>3 DEF Grown
  <2>2. \A i \in (Len(t) + 1 + 1)..Len(u) : FALSE
    BY <2>1
  <2>3. QED
    BY <1>1, <2>1, <2>2 DEF OpenTail
<1>8. u \in Seq(All)
  BY <1>3 DEF Grown
<1>9. P \subseteq callsOf(u) /\ resultsOf(u) = callsOf(u) \ P
  BY <1>1, <1>5 DEF Awaiting
<1>10. QED
  BY <1>1, <1>4, <1>6, <1>7, <1>8, <1>9 DEF Awaiting

(* A result of a call that awaits it. *)
LEMMA AwaitingResult ==
  ASSUME NEW t, NEW P, Awaiting(t, P), NEW m \in Others, m.role = "toolResult", m.id \in P
  PROVE  Awaiting(Append(t, m), P \ {m.id})
<1>1. PICK u : u = Append(t, m)
  OBVIOUS
<1>2. m \in All /\ m.calls = <<>>
  BY DEF All, Others
<1>3. Grown(t, m, u)
  BY <1>1, <1>2, AppendGrows DEF Awaiting
<1>4. DOMAIN m.calls = {} /\ ToSet(m.calls) = {} /\ Different(m.calls)
  BY <1>2 DEF ToSet, Different
<1>5. CallsOnce(u) /\ ResultsOnce(u)
  <2>1. CallsOnce(u)
    BY <1>3, <1>4, CallsOnceGrows DEF Awaiting
  <2>2. m.id \notin resultsOf(t)
    BY DEF Awaiting
  <2>3. ResultsOnce(u)
    BY <1>3, <2>2, ResultsOnceGrows DEF Awaiting
  <2>4. QED
    BY <2>1, <2>3
<1>6. callsOf(u) = callsOf(t) /\ resultsOf(u) = resultsOf(t) \cup {m.id}
  <2>1. callsOf(u) = callsOf(t) \cup ToSet(m.calls)
    BY <1>3, GrownCalls
  <2>2. resultsOf(u) = resultsOf(t) \cup {m.id}
    BY <1>3, GrownResults
  <2>3. QED
    BY <1>4, <2>1, <2>2
<1>7. Passes(u, P \ {m.id})
  <2>1. Advances(P, m, P \ {m.id})
    BY DEF Advances
  <2>2. QED
    BY <1>3, <2>1, PassesGrow DEF Awaiting
<1>8. OpenTail(u, P \ {m.id})
  <2>1. /\ Len(t) \in Nat /\ DOMAIN t = 1..Len(t) /\ DOMAIN u = 1..(Len(t) + 1) /\ Len(u) = Len(t) + 1
        /\ u[Len(t) + 1] = m /\ \A i \in 1..Len(t) : u[i] = t[i]
    BY <1>3 DEF Grown
  <2>2. PICK k \in DOMAIN t :
          /\ t[k].role = "assistant" /\ P \subseteq ToSet(t[k].calls)
          /\ \A i \in (k + 1)..Len(t) : t[i].role = "toolResult" /\ t[i].id \in ToSet(t[k].calls)
    BY DEF Awaiting, OpenTail
  <2>3. k \in DOMAIN u /\ u[k] = t[k]
    BY <2>1
  <2>4. ASSUME NEW i \in (k + 1)..Len(u) PROVE u[i].role = "toolResult" /\ u[i].id \in ToSet(t[k].calls)
    <3>1. CASE i = Len(t) + 1
      BY <2>1, <2>2, <3>1
    <3>2. CASE i # Len(t) + 1
      <4>1. i \in (k + 1)..Len(t) /\ i \in 1..Len(t)
        BY <2>1, <3>2
      <4>2. QED
        BY <2>1, <2>2, <4>1
    <3>3. QED
      BY <3>1, <3>2
  <2>5. QED
    BY <2>2, <2>3, <2>4 DEF OpenTail
<1>9. u \in Seq(All)
  BY <1>3 DEF Grown
<1>10. P \ {m.id} \subseteq callsOf(u) /\ resultsOf(u) = callsOf(u) \ (P \ {m.id})
  BY <1>6 DEF Awaiting
<1>11. QED
  BY <1>1, <1>5, <1>7, <1>8, <1>9, <1>10 DEF Awaiting

-----------------------------------------------------------------------------
(***************************************************************************)
(* Selecting from different elements.                                      *)
(***************************************************************************)

(* A head and a tail, put together, are head and tail. *)
LEMMA PutFirst ==
  ASSUME NEW T, NEW x \in T, NEW r \in Seq(T), NEW u, u = cat(one(x), r)
  PROVE  u \in Seq(T) /\ u # <<>> /\ Head(u) = x /\ Tail(u) = r
<1>1. one(x) \in Seq(T) /\ Len(one(x)) = 1 /\ one(x)[1] = x
  BY DEF one
<1>2. CatOf(T, one(x), r, u)
  BY <1>1, CatIs
<1>3. u \in Seq(T) /\ Len(u) = 1 + Len(r) /\ Len(r) \in Nat /\ u[1] = x /\ \A i \in 1..Len(r) : u[1 + i] = r[i]
  <2>1. 1 \in 1..Len(one(x))
    BY <1>1
  <2>2. QED
    BY <1>1, <1>2, <2>1 DEF CatOf
<1>4. u # <<>>
  BY <1>3, EmptySeq
<1>5. Head(u) = x /\ Tail(u) \in Seq(T) /\ Len(Tail(u)) = Len(u) - 1 /\ \A i \in 1..Len(Tail(u)) : Tail(u)[i] = u[i + 1]
  <2>1. Tail(u) \in Seq(T) /\ Len(Tail(u)) = Len(u) - 1 /\ \A i \in 1..Len(Tail(u)) : Tail(u)[i] = u[i + 1]
    BY <1>3, <1>4, HeadTailProperties
  <2>2. Head(u) = u[1]
    OBVIOUS
  <2>3. QED
    BY <1>3, <2>1, <2>2
<1>6. PICK v : v = Tail(u)
  OBVIOUS
<1>7. Len(v) = Len(r) /\ \A i \in 1..Len(r) : v[i] = r[i]
  <2>1. Len(v) = Len(r)
    BY <1>3, <1>5, <1>6
  <2>2. ASSUME NEW i \in 1..Len(r) PROVE v[i] = r[i]
    <3>1. i + 1 = 1 + i /\ i \in 1..Len(v)
      BY <1>3, <2>1
    <3>2. QED
      BY <1>3, <1>5, <1>6, <3>1
  <2>3. QED
    BY <2>1, <2>2
<1>8. v = r
  BY <1>5, <1>6, <1>7, SeqEqual
<1>9. QED
  BY <1>3, <1>4, <1>5, <1>6, <1>8

(* Different elements of two sequences are different together. *)
LEMMA DifferentCat ==
  ASSUME NEW T, NEW s \in Seq(T), NEW t \in Seq(T), NEW u, u = cat(s, t),
         Different(s), Different(t), ToSet(s) \cap ToSet(t) = {}
  PROVE  Different(u)
<1>1. CatOf(T, s, t, u)
  BY CatIs
<1>2. /\ Len(s) \in Nat /\ Len(t) \in Nat /\ DOMAIN s = 1..Len(s) /\ DOMAIN t = 1..Len(t)
      /\ DOMAIN u = 1..(Len(s) + Len(t))
      /\ (\A i \in 1..Len(s) : u[i] = s[i]) /\ \A i \in 1..Len(t) : u[Len(s) + i] = t[i]
  BY <1>1 DEF CatOf
<1>3. \A i \in 1..Len(s), j \in 1..Len(t) : s[i] # t[j]
  BY <1>2 DEF ToSet
<1>4. SUFFICES ASSUME NEW a \in DOMAIN u, NEW b \in DOMAIN u, u[a] = u[b] PROVE a = b
  BY DEF Different
<1>5. a \in 1..Len(s) \/ \E j \in 1..Len(t) : a = Len(s) + j
  <2>1. a \in 1..(Len(s) + Len(t)) /\ Len(s) \in Nat /\ Len(t) \in Nat
    BY <1>2
  <2>2. QED
    BY <2>1, CatSplit
<1>6. b \in 1..Len(s) \/ \E j \in 1..Len(t) : b = Len(s) + j
  <2>1. b \in 1..(Len(s) + Len(t)) /\ Len(s) \in Nat /\ Len(t) \in Nat
    BY <1>2
  <2>2. QED
    BY <2>1, CatSplit
<1>7. CASE a \in 1..Len(s) /\ b \in 1..Len(s)
  BY <1>2, <1>4, <1>7 DEF Different
<1>8. CASE a \in 1..Len(s) /\ \E j \in 1..Len(t) : b = Len(s) + j
  BY <1>2, <1>3, <1>4, <1>8
<1>9. CASE b \in 1..Len(s) /\ \E j \in 1..Len(t) : a = Len(s) + j
  BY <1>2, <1>3, <1>4, <1>9
<1>10. CASE (\E i \in 1..Len(t) : a = Len(s) + i) /\ \E j \in 1..Len(t) : b = Len(s) + j
  <2>1. PICK i \in 1..Len(t), j \in 1..Len(t) : a = Len(s) + i /\ b = Len(s) + j
    BY <1>10
  <2>2. t[i] = t[j]
    BY <1>2, <1>4, <2>1
  <2>3. QED
    BY <1>2, <2>1, <2>2 DEF Different
<1>11. QED
  BY <1>5, <1>6, <1>7, <1>8, <1>9, <1>10

(* One element and none are different. *)
LEMMA DifferentSmall == Different(none) /\ \A x : Different(one(x))
BY SmallIndices DEF Different

(* Selecting from different elements: each that is wanted, once. *)
LEMMA OnlySelects ==
  ASSUME NEW T, NEW s \in Seq(T), Different(s), NEW S
  PROVE  Different(only(s, S)) /\ ToSet(only(s, S)) = ToSet(s) \cap S
<1>1. PICK f \in [0..Len(s) -> Seq(T)] : Keeps(f, s, S, Len(s)) /\ only(s, S) = f[Len(s)]
  BY OnlyKeeps
<1>2. Len(s) \in Nat /\ DOMAIN s = 1..Len(s) /\ \A i \in 1..Len(s) : s[i] \in T
  BY LenProperties
<1> DEFINE first(n) == {s[i] : i \in 1..n}
<1> DEFINE P == {n \in Nat : n <= Len(s) => Different(f[n]) /\ ToSet(f[n]) = first(n) \cap S}
<1>3. ASSUME NEW n \in Nat, 0..(n - 1) \subseteq P PROVE n \in P
  <2>1. CASE n = 0
    <3>1. f[0] = none /\ first(0) = {}
      BY <1>1 DEF Keeps, none
    <3>2. Different(f[0]) /\ ToSet(f[0]) = first(0) \cap S
      BY <3>1, DifferentSmall, ElementsSmall
    <3>3. QED
      BY <2>1, <3>2
  <2>2. CASE n # 0 /\ n <= Len(s)
    <3>1. n - 1 \in 0..(n - 1) /\ n - 1 \in Nat /\ n - 1 <= Len(s) /\ n \in 1..Len(s) /\ s[n] \in T /\ n - 1 \in 0..Len(s)
      BY <1>2, <2>2
    <3>2. PICK g \in Seq(T) : g = f[n - 1]
      BY <1>1, <3>1
    <3>3. Different(g) /\ ToSet(g) = first(n - 1) \cap S
      BY <1>3, <3>1, <3>2
    <3>4. first(n) = first(n - 1) \cup {s[n]} /\ s[n] \notin first(n - 1)
      <4>1. 1..n = 1..(n - 1) \cup {n} /\ n \notin 1..(n - 1) /\ 1..(n - 1) \subseteq 1..Len(s)
        BY <1>2, <3>1
      <4>2. \A i \in 1..(n - 1) : s[i] # s[n]
        BY <1>2, <3>1, <4>1 DEF Different
      <4>3. QED
        BY <4>1, <4>2
    <3>5. f[n] = IF s[n] \in S THEN Append(g, s[n]) ELSE g
      BY <1>1, <3>1, <3>2 DEF Keeps
    <3>6. CASE s[n] \in S
      <4>1. f[n] = cat(g, one(s[n])) /\ one(s[n]) \in Seq(T)
        BY <3>1, <3>5, <3>6, AppendCat, SmallSequences
      <4>2. ToSet(one(s[n])) = {s[n]} /\ Different(one(s[n]))
        BY ElementsSmall, DifferentSmall
      <4>3. Different(f[n])
        <5>1. ToSet(g) \cap ToSet(one(s[n])) = {}
          BY <3>3, <3>4, <4>2
        <5>2. QED
          BY <3>3, <4>1, <4>2, <5>1, DifferentCat
      <4>4. ToSet(f[n]) = ToSet(g) \cup {s[n]}
        BY <4>1, <4>2, ElementsCat
      <4>5. ToSet(f[n]) = first(n) \cap S
        BY <3>3, <3>4, <3>6, <4>4
      <4>6. QED
        BY <4>3, <4>5
    <3>7. CASE s[n] \notin S
      <4>1. f[n] = g /\ first(n - 1) \cap S = first(n) \cap S
        BY <3>4, <3>5, <3>7
      <4>2. QED
        BY <3>3, <4>1
    <3>8. QED
      BY <3>6, <3>7
  <2>3. QED
    BY <2>1, <2>2
<1>4. Len(s) \in P
  <2> HIDE DEF P
  <2>1. P \in SUBSET Nat
    BY DEF P
  <2>2. P = Nat
    BY <1>3, <2>1, Inductively
  <2>3. QED
    BY <1>2, <2>2
<1>5. first(Len(s)) = ToSet(s)
  BY <1>2 DEF ToSet
<1>6. QED
  BY <1>1, <1>2, <1>4, <1>5

-----------------------------------------------------------------------------
(***************************************************************************)
(* The results of some calls, and the repair that adds them.               *)
(***************************************************************************)

(***************************************************************************)
(* td are the results of the calls P, one for each.                        *)
(***************************************************************************)
For(td, P) ==
  /\ td \in Seq(Others)
  /\ \A i \in DOMAIN td : td[i].role = "toolResult"
  /\ \A i, j \in DOMAIN td : td[i].id = td[j].id => i = j
  /\ P = {td[i].id : i \in DOMAIN td}

(* The results of different calls. *)
LEMMA ForCalls ==
  ASSUME NEW cs \in Seq(Nat), Different(cs), NEW r, r = [i \in DOMAIN cs |-> toolResult(cs[i])]
  PROVE  For(r, ToSet(cs))
<1>1. r \in Seq(Others)
  BY ResultsTyped
<1>2. DOMAIN r = DOMAIN cs /\ \A i \in DOMAIN cs : r[i].role = "toolResult" /\ r[i].id = cs[i]
  BY DEF toolResult
<1>3. QED
  BY <1>1, <1>2 DEF For, Different, ToSet

(* There is none for no call. *)
LEMMA ForNone ==
  For(none, {}) /\ \A P : For(none, P) => P = {}
<1>1. none \in Seq(Others) /\ DOMAIN none = {}
  BY SmallSequences, SmallIndices
<1>2. QED
  BY <1>1 DEF For

(* The first result is of one of the calls, the others are of the others. *)
LEMMA ForFirst ==
  ASSUME NEW td, NEW P, For(td, P), td # <<>>
  PROVE  /\ Head(td) \in Others /\ Head(td).role = "toolResult" /\ Head(td).id \in P
         /\ For(Tail(td), P \ {Head(td).id})
<1>1. PICK h, r : h = Head(td) /\ r = Tail(td)
  OBVIOUS
<1>2. td \in Seq(Others) /\ h \in Others /\ r \in Seq(Others) /\ td = cat(one(h), r)
  BY <1>1, HeadTail DEF For
<1>3. one(h) \in Seq(Others) /\ Len(one(h)) = 1 /\ one(h)[1] = h
  BY <1>2 DEF one
<1>4. CatOf(Others, one(h), r, td)
  BY <1>2, <1>3, CatIs
<1>5. /\ Len(r) \in Nat /\ DOMAIN r = 1..Len(r) /\ DOMAIN td = 1..(1 + Len(r))
      /\ td[1] = h /\ \A i \in 1..Len(r) : td[1 + i] = r[i]
  <2>1. 1 \in 1..Len(one(h))
    BY <1>3
  <2>2. QED
    BY <1>3, <1>4, <2>1 DEF CatOf
<1>6. 1 \in DOMAIN td /\ \A i \in DOMAIN r : 1 + i \in DOMAIN td /\ 1 + i # 1
  BY <1>5
<1>7. h.role = "toolResult" /\ h.id \in P
  BY <1>5, <1>6 DEF For
<1>8. \A i \in DOMAIN r : r[i].role = "toolResult" /\ r[i].id \in P /\ r[i].id # h.id
  BY <1>5, <1>6 DEF For
<1>9. ASSUME NEW i \in DOMAIN r, NEW j \in DOMAIN r, r[i].id = r[j].id PROVE i = j
  <2>1. 1 + i = 1 + j
    BY <1>5, <1>6, <1>9 DEF For
  <2>2. QED
    BY <1>5, <2>1
<1>10. ASSUME NEW c \in P, c # h.id PROVE \E i \in DOMAIN r : r[i].id = c
  <2>1. PICK k \in DOMAIN td : td[k].id = c
    BY DEF For
  <2>2. k # 1
    BY <1>5, <1>10, <2>1
  <2>3. k - 1 \in DOMAIN r /\ 1 + (k - 1) = k
    BY <1>5, <2>2
  <2>4. r[k - 1] = td[1 + (k - 1)]
    BY <1>5, <2>3
  <2>5. r[k - 1].id = c
    BY <2>1, <2>3, <2>4
  <2>6. QED
    BY <2>3, <2>5
<1>11. P \ {h.id} = {r[i].id : i \in DOMAIN r}
  BY <1>8, <1>10
<1>12. For(r, P \ {h.id})
  BY <1>2, <1>8, <1>9, <1>11 DEF For
<1>13. QED
  BY <1>1, <1>2, <1>7, <1>12

(* The calls of a message among messages without a repeated call. *)
LEMMA CallsDifferent ==
  ASSUME NEW t, CallsOnce(t), NEW k \in DOMAIN t
  PROVE  Different(t[k].calls)
BY DEF CallsOnce, Different

(* The tail that awaits results begins at the last assistant message. *)
LEMMA TailAtLast ==
  ASSUME NEW t, NEW P, Awaiting(t, P), P # {}, NEW k, k = lastAssistant(t)
  PROVE  /\ k # 0 /\ k \in DOMAIN t /\ P \subseteq ToSet(t[k].calls)
         /\ \A i \in (k + 1)..Len(t) : t[i].role = "toolResult" /\ t[i].id \in ToSet(t[k].calls)
<1>1. PICK l \in DOMAIN t :
        /\ t[l].role = "assistant" /\ P \subseteq ToSet(t[l].calls)
        /\ \A i \in (l + 1)..Len(t) : t[i].role = "toolResult" /\ t[i].id \in ToSet(t[l].calls)
  BY DEF Awaiting, OpenTail
<1>2. PICK I : I = {i \in 1..Len(t) : t[i].role = "assistant"}
  OBVIOUS
<1>3. Len(t) \in Nat /\ DOMAIN t = 1..Len(t) /\ I \in SUBSET (1..Len(t)) /\ l \in I
  BY <1>1, <1>2, LenProperties DEF Awaiting
<1>4. k = Max(I)
  <2>1. k = IF I # {} THEN Max(I) ELSE 0
    BY <1>2 DEF lastAssistant, SelectLastInSeq
  <2>2. QED
    BY <1>3, <2>1
<1>5. k \in I /\ l <= k
  BY <1>3, <1>4, MaxIndex
<1>6. ~(k \in (l + 1)..Len(t))
  BY <1>1, <1>2, <1>5
<1>7. k = l
  BY <1>3, <1>5, <1>6
<1>8. QED
  BY <1>1, <1>3, <1>7

(* Such a transcript can be repaired, by the results that it awaits. *)
LEMMA AwaitingRepair ==
  ASSUME NEW t, NEW P, Awaiting(t, P)
  PROVE  repairable(t) /\ For(closureResults(t), P)
<1>1. missing(t) = P /\ ~ambiguous(t)
  BY AwaitingVerdict
<1>2. CASE P = {}
  <2>1. repairable(t)
    BY <1>1, <1>2 DEF repairable
  <2>2. closureResults(t) = none
    BY <1>1, <1>2 DEF closureResults, none
  <2>3. QED
    BY <1>2, <2>1, <2>2, ForNone
<1>3. CASE P # {}
  <2>1. PICK k : k = lastAssistant(t)
    OBVIOUS
  <2>2. /\ k # 0 /\ k \in DOMAIN t /\ P \subseteq ToSet(t[k].calls)
        /\ \A i \in (k + 1)..Len(t) : t[i].role = "toolResult" /\ t[i].id \in ToSet(t[k].calls)
    BY <1>3, <2>1, TailAtLast
  <2>3. repairable(t)
    BY <1>1, <2>1, <2>2 DEF repairable
  <2>4. PICK cs, open : cs = t[k].calls /\ open = only(cs, P)
    OBVIOUS
  <2>5. cs \in Seq(Nat) /\ Different(cs)
    <3>1. t \in Seq(All) /\ DOMAIN t = 1..Len(t)
      BY LenProperties DEF Awaiting
    <3>2. t[k] \in All
      BY <2>2, <3>1
    <3>3. QED
      BY <2>2, <2>4, <3>2, CallsTyped, CallsDifferent DEF Awaiting
  <2>6. open \in Seq(Nat) /\ Different(open) /\ ToSet(open) = P
    <3>1. open \in Seq(Nat)
      BY <2>4, <2>5, OnlyTyped
    <3>2. Different(open) /\ ToSet(open) = ToSet(cs) \cap P
      BY <2>4, <2>5, OnlySelects
    <3>3. QED
      BY <2>2, <2>4, <3>1, <3>2
  <2>7. closureResults(t) = [i \in DOMAIN open |-> toolResult(open[i])]
    BY <1>1, <1>3, <2>1, <2>4 DEF closureResults
  <2>8. For(closureResults(t), P)
    BY <2>6, <2>7, ForCalls
  <2>9. QED
    BY <2>3, <2>8
<1>4. QED
  BY <1>2, <1>3

(* A batch's results, in whatever order its calls were finalized. *)
LEMMA BatchResults ==
  ASSUME NEW cs \in Seq(Nat), Different(cs), NEW finalized, finalized \subseteq ToSet(cs),
         NEW order, order = only(cs, finalized) \o only(cs, ToSet(cs) \ finalized),
         NEW r, r = [i \in DOMAIN order |-> toolResult(order[i])]
  PROVE  For(r, ToSet(cs))
<1>1. PICK a, b : a = only(cs, finalized) /\ b = only(cs, ToSet(cs) \ finalized)
  OBVIOUS
<1>2. a \in Seq(Nat) /\ Different(a) /\ ToSet(a) = finalized
  <2>1. a \in Seq(Nat)
    BY <1>1, OnlyTyped
  <2>2. Different(a) /\ ToSet(a) = ToSet(cs) \cap finalized
    BY <1>1, OnlySelects
  <2>3. QED
    BY <2>1, <2>2
<1>3. b \in Seq(Nat) /\ Different(b) /\ ToSet(b) = ToSet(cs) \ finalized
  <2>1. ToSet(cs) \cap (ToSet(cs) \ finalized) = ToSet(cs) \ finalized
    OBVIOUS
  <2>2. b \in Seq(Nat)
    BY <1>1, OnlyTyped
  <2>3. Different(b) /\ ToSet(b) = ToSet(cs) \cap (ToSet(cs) \ finalized)
    BY <1>1, OnlySelects
  <2>4. QED
    BY <2>1, <2>2, <2>3
<1>4. order = cat(a, b)
  BY <1>1 DEF cat
<1>5. Different(order)
  <2>1. ToSet(a) \cap ToSet(b) = {}
    BY <1>2, <1>3
  <2>2. QED
    BY <1>2, <1>3, <1>4, <2>1, DifferentCat
<1>6. ToSet(order) = ToSet(cs)
  <2>1. a \in Seq(Nat) /\ b \in Seq(Nat)
    BY <1>2, <1>3
  <2>2. ToSet(cat(a, b)) = ToSet(a) \cup ToSet(b)
    BY <2>1, ElementsCat
  <2>3. QED
    BY <1>2, <1>3, <1>4, <2>2
<1>7. order \in Seq(Nat)
  <2>1. CatOf(Nat, a, b, order)
    BY <1>2, <1>3, <1>4, CatIs
  <2>2. QED
    BY <2>1 DEF CatOf
<1>8. QED
  BY <1>5, <1>6, <1>7, ForCalls

-----------------------------------------------------------------------------
(***************************************************************************)
(* Every step keeps the transcript sound.                                  *)
(***************************************************************************)

(* Where every call has its result. *)
Quiet == {"idle", "prompts", "poll", "turn", "inject", "request", "stream", "streamAborted", "turnEnd",
          "followUps", "ending"}
(* A failed run's plan: the results that are awaited, then the failure. *)
Closing(td, t) ==
  \/ td = none /\ Awaiting(t, {})
  \/ \E front, P : td = cat(front, one(assistant("failure", <<>>))) /\ For(front, P) /\ Awaiting(t, P)

(***************************************************************************)
(* Without a scar the transcript is sound but for the calls under way: the *)
(* reply's while the batch runs, those of the results still to publish,    *)
(* and some of them once the run has failed.                               *)
(***************************************************************************)
SoundInv ==
  ghost.scars = {} =>
    /\ pc \in Quiet => Awaiting(messages, {})
    /\ pc = "batch" => messages # <<>> /\ Awaiting(messages, ToSet(Last(messages).calls))
    /\ pc = "results" => \E P : Awaiting(messages, P) /\ For(todo, P)
    /\ pc = "fail" => \E P : Awaiting(messages, P)
    /\ pc = "closing" => Closing(todo, messages)

(* A reply that is not ambiguous: its calls are fresh and await results. *)
LEMMA ReplyAwaits ==
  ASSUME NEW t, Awaiting(t, {}), NEW cs \in Seq(Nat), ~ambiguous(Append(t, assistant("reply", cs)))
  PROVE  Awaiting(Append(t, assistant("reply", cs)), ToSet(cs)) /\ Different(cs)
<1>1. PICK m, u : m = assistant("reply", cs) /\ u = Append(t, m)
  OBVIOUS
<1>2. m \in Others /\ m \in All /\ m.role = "assistant" /\ m.calls = cs
  BY <1>1, MessagesMade DEF All, assistant
<1>3. Grown(t, m, u)
  BY <1>1, <1>2, AppendGrows DEF Awaiting
<1>4. CallsOnce(u)
  <2>1. u \in Seq(All) /\ ~ambiguous(u)
    BY <1>1, <1>3 DEF Grown
  <2>2. QED
    BY <2>1, UnambiguousOnce
<1>5. Different(m.calls) /\ ToSet(m.calls) \cap callsOf(t) = {}
  BY <1>3, <1>4, CallsOnceGrew
<1>6. Awaiting(u, ToSet(m.calls))
  BY <1>1, <1>2, <1>5, AwaitingReply
<1>7. QED
  BY <1>1, <1>2, <1>5, <1>6

(* The failure message, when nothing is missing. *)
LEMMA FailureAwaits ==
  ASSUME NEW t, Awaiting(t, {})
  PROVE  Awaiting(Append(t, assistant("failure", <<>>)), {})
<1>1. PICK m : m = assistant("failure", <<>>)
  OBVIOUS
<1>2. m \in Others /\ m.role = "assistant" /\ m.calls = none
  BY <1>1, MessagesMade DEF assistant, none
<1>3. Different(m.calls) /\ ToSet(m.calls) = {}
  BY <1>2, DifferentSmall, ElementsSmall
<1>4. Awaiting(Append(t, m), ToSet(m.calls))
  BY <1>2, <1>3, AwaitingReply
<1>5. QED
  BY <1>1, <1>3, <1>4

(* A message of the plan is published. *)
LEMMA ClosingPublishes ==
  ASSUME NEW td, NEW t, Closing(td, t), td # <<>>
  PROVE  Closing(Tail(td), Append(t, Head(td)))
<1>1. PICK f : f = assistant("failure", <<>>)
  OBVIOUS
<1>2. PICK front, P : td = cat(front, one(f)) /\ For(front, P) /\ Awaiting(t, P)
  BY <1>1 DEF Closing, none
<1>3. f \in Others /\ front \in Seq(Others) /\ one(f) \in Seq(Others)
  BY <1>1, <1>2, MessagesMade, SmallSequences DEF For
<1>4. CASE front = none
  <2>1. td = cat(one(f), none)
    BY <1>2, <1>3, <1>4, CatNone
  <2>2. Head(td) = f /\ Tail(td) = none
    BY <1>3, <2>1, PutFirst, SmallSequences
  <2>3. Awaiting(t, {})
    BY <1>2, <1>4, ForNone
  <2>4. Awaiting(Append(t, f), {})
    BY <1>1, <2>3, FailureAwaits
  <2>5. QED
    BY <2>2, <2>4 DEF Closing
<1>5. CASE front # none
  <2>1. PICK h, r : h = Head(front) /\ r = Tail(front)
    OBVIOUS
  <2>2. h \in Others /\ r \in Seq(Others) /\ front = cat(one(h), r)
    BY <1>3, <1>5, <2>1, HeadTail DEF none
  <2>3. h.role = "toolResult" /\ h.id \in P /\ For(r, P \ {h.id})
    BY <1>2, <1>5, <2>1, ForFirst DEF none
  <2>4. PICK w : w = cat(r, one(f))
    OBVIOUS
  <2>5. td = cat(one(h), w) /\ w \in Seq(Others)
    <3>1. one(h) \in Seq(Others)
      BY <2>2, SmallSequences
    <3>2. (one(h) \o r) \o one(f) = one(h) \o (r \o one(f))
      BY <1>3, <2>2, <3>1, ConcatAssociative
    <3>3. td = cat(one(h), w)
      BY <1>2, <2>2, <2>4, <3>2 DEF cat
    <3>4. CatOf(Others, r, one(f), w)
      BY <1>3, <2>2, <2>4, CatIs
    <3>5. QED
      BY <3>3, <3>4 DEF CatOf
  <2>6. Head(td) = h /\ Tail(td) = w
    BY <2>2, <2>5, PutFirst
  <2>7. Awaiting(Append(t, h), P \ {h.id})
    BY <1>2, <2>2, <2>3, AwaitingResult
  <2>8. QED
    BY <1>1, <2>3, <2>4, <2>6, <2>7 DEF Closing
<1>6. QED
  BY <1>4, <1>5

(* In every state of the plan, some calls are awaited. *)
LEMMA ClosingAwaits ==
  ASSUME NEW td, NEW t, Closing(td, t)
  PROVE  (\E P : Awaiting(t, P)) /\ (td = <<>> => Awaiting(t, {}))
<1>1. PICK f : f = assistant("failure", <<>>)
  OBVIOUS
<1>2. CASE td = none /\ Awaiting(t, {})
  BY <1>2
<1>3. CASE \E front, P : td = cat(front, one(f)) /\ For(front, P) /\ Awaiting(t, P)
  <2>1. PICK front, P : td = cat(front, one(f)) /\ For(front, P) /\ Awaiting(t, P)
    BY <1>3
  <2>2. front \in Seq(Others) /\ one(f) \in Seq(Others) /\ Len(one(f)) = 1
    BY <1>1, <2>1, MessagesMade, SmallSequences DEF For, one
  <2>3. CatOf(Others, front, one(f), td)
    BY <2>1, <2>2, CatIs
  <2>4. Len(td) # 0
    BY <2>2, <2>3 DEF CatOf
  <2>5. td # <<>>
    BY <2>4
  <2>6. QED
    BY <2>1, <2>5
<1>4. QED
  BY <1>1, <1>2, <1>3 DEF Closing

(* The plan of a failed run. *)
LEMMA ClosingPlanned ==
  ASSUME NEW t, NEW P, Awaiting(t, P), NEW td,
         td = IF repairable(t) THEN closureResults(t) \o <<assistant("failure", <<>>)>> ELSE <<>>
  PROVE  Closing(td, t)
<1>1. repairable(t) /\ For(closureResults(t), P)
  BY AwaitingRepair
<1>2. td = cat(closureResults(t), one(assistant("failure", <<>>)))
  BY <1>1 DEF cat, one
<1>3. QED
  BY <1>1, <1>2 DEF Closing

(* No step leaves a transcript that is not sound, but for a scar. *)
LEMMA SoundNext ==
  ASSUME AgentInv, SoundInv, [Next]_vars
  PROVE  SoundInv'
<1>0. /\ messages \in Seq(All) /\ pending \in Seq(Users) /\ todo \in Seq(Others) /\ calls \in Nat
      /\ DOMAIN ghost = {"dropped", "lost", "scars"} /\ ContextInv
  BY BooksSequences DEF AgentInv, AgentTypes
<1>1. ASSUME UNCHANGED <<messages, todo, pc>>, ghost'.scars = ghost.scars PROVE SoundInv'
  BY <1>1 DEF SoundInv
<1>2. CASE UNCHANGED vars
  BY <1>1, <1>2 DEF vars
<1>3. CASE steer \/ followUp \/ abort
  BY <1>1, <1>3 DEF steer, followUp, abort
<1>4. CASE clearAllQueues
  <2>1. ghost'.scars = ghost.scars
    BY <1>0, <1>4 DEF clearAllQueues
  <2>2. QED
    BY <1>1, <1>4, <2>1 DEF clearAllQueues
<1>5. CASE reset
  <2>1. CASE pc = "idle"
    <3>1. messages' = none /\ pc' = "idle"
      BY <1>5, <2>1 DEF reset, none
    <3>2. QED
      BY <3>1, AwaitingNone DEF SoundInv, Quiet
  <2>2. CASE pc # "idle"
    <3>1. "reset" \in ghost'.scars
      BY <1>0, <1>5, <2>2 DEF reset
    <3>2. QED
      BY <3>1 DEF SoundInv
  <2>3. QED
    BY <2>1, <2>2
<1>6. ASSUME pc \in Quiet, pc' \in Quiet \cup {"fail"}, UNCHANGED <<messages, ghost>> PROVE SoundInv'
  <2>1. ghost'.scars = {} => Awaiting(messages', {})
    BY <1>6 DEF SoundInv
  <2>2. pc' \notin {"batch", "results", "closing"}
    BY <1>6 DEF Quiet
  <2>3. QED
    BY <2>1, <2>2 DEF SoundInv
<1>7. CASE prompt \/ continueFromAssistant
  <2>1. PICK prompts, skip : begin(prompts, skip)
    BY <1>7 DEF prompt, continueFromAssistant
  <2>2. QED
    BY <1>6, <2>1 DEF begin, Quiet
<1>8. CASE continueFromResult
  BY <1>6, <1>8 DEF continueFromResult, Quiet
<1>9. CASE pollSteering \/ turnStart \/ requestProvider \/ turnEnd \/ pollFollowUps
  BY <1>6, <1>9 DEF pollSteering, turnStart, requestProvider, turnEnd, pollFollowUps, Quiet
<1>10. CASE agentEnd
  BY <1>6, <1>10 DEF agentEnd, finishRun, Quiet
<1>11. ASSUME pc \in Quiet, ghost.scars = {}, pending # <<>> PROVE Awaiting(Append(messages, Head(pending)), {})
  <2>1. Head(pending) \in Users
    BY <1>0, <1>11, HeadTail
  <2>2. Awaiting(messages, {})
    BY <1>11 DEF SoundInv
  <2>3. QED
    BY <2>1, <2>2, AwaitingUser
<1>12. CASE publishPrompt
  <2>1. CASE pending = <<>>
    BY <1>6, <1>12, <2>1 DEF publishPrompt, Quiet
  <2>2. CASE pending # <<>>
    <3>1. pc = "prompts" /\ pc' = "prompts" /\ ghost' = ghost /\ messages' = Append(messages, Head(pending))
      BY <1>12, <2>2 DEF publishPrompt
    <3>2. QED
      BY <1>11, <2>2, <3>1 DEF SoundInv, Quiet
  <2>3. QED
    BY <2>1, <2>2
<1>13. CASE injectPending
  <2>1. CASE pending = <<>>
    BY <1>6, <1>13, <2>1 DEF injectPending, Quiet
  <2>2. CASE pending # <<>>
    <3>1. pc = "inject" /\ pc' = "inject" /\ ghost' = ghost /\ messages' = Append(messages, Head(pending))
      BY <1>13, <2>2 DEF injectPending
    <3>2. QED
      BY <1>11, <2>2, <3>1 DEF SoundInv, Quiet
  <2>3. QED
    BY <2>1, <2>2
<1>14. ASSUME NEW cs \in Replies, receive(cs), ghost'.scars = {}
       PROVE  /\ ghost.scars = {} /\ messages' = Append(messages, assistant("reply", cs))
              /\ Awaiting(messages', ToSet(cs)) /\ Different(cs) /\ cs \in Seq(Nat)
              /\ messages' # <<>> /\ Last(messages').calls = cs
  <2>1. cs \in Seq(Nat)
    BY <1>0, RepliesTyped
  <2>2. messages' = Append(messages, assistant("reply", cs)) /\ pc \in Quiet
    BY <1>14 DEF receive, Quiet
  <2>3. ghost.scars = {} /\ ~ambiguous(messages')
    BY <1>0, <1>14 DEF receive
  <2>4. Awaiting(messages, {})
    BY <2>2, <2>3 DEF SoundInv
  <2>5. Awaiting(messages', ToSet(cs)) /\ Different(cs)
    BY <2>1, <2>2, <2>3, <2>4, ReplyAwaits
  <2>6. messages' # <<>> /\ Last(messages').calls = cs
    <3>1. PICK m : m = assistant("reply", cs)
      OBVIOUS
    <3>2. m \in All /\ m.calls = cs
      BY <2>1, <3>1, MessagesMade DEF All, assistant
    <3>3. Append(messages, m) # <<>> /\ Last(Append(messages, m)) = m
      BY <1>0, <3>2, AppendProperties DEF Last
    <3>4. QED
      BY <2>2, <3>1, <3>2, <3>3
  <2>7. QED
    BY <2>1, <2>2, <2>3, <2>5, <2>6
<1>15. ASSUME NEW cs \in Replies, NEW stop \in StopReasons, respond(cs, stop) PROVE SoundInv'
  <2>1. SUFFICES ASSUME ghost'.scars = {} PROVE SoundInv'
    BY DEF SoundInv
  <2>2. receive(cs)
    BY <1>15 DEF respond
  <2>3. Awaiting(messages', ToSet(cs)) /\ Different(cs) /\ cs \in Seq(Nat) /\ messages' # <<>> /\ Last(messages').calls = cs
    BY <1>14, <2>1, <2>2
  <2>4. CASE pc' = "fail"
    BY <2>3, <2>4 DEF SoundInv, Quiet
  <2>5. CASE pc' = "batch"
    BY <2>3, <2>5 DEF SoundInv, Quiet
  <2>6. CASE pc' = "turnEnd"
    <3>1. cs = none
      BY <1>15, <2>6 DEF respond, none
    <3>2. ToSet(cs) = {}
      BY <3>1, ElementsSmall
    <3>3. QED
      BY <2>3, <2>6, <3>2 DEF SoundInv, Quiet
  <2>7. CASE pc' = "results"
    <3>1. todo' = [i \in DOMAIN cs |-> toolResult(cs[i])]
      BY <1>15, <2>7 DEF respond
    <3>2. For(todo', ToSet(cs))
      BY <2>3, <3>1, ForCalls
    <3>3. QED
      BY <2>3, <2>7, <3>2 DEF SoundInv, Quiet
  <2>8. QED
    BY <1>15, <2>4, <2>5, <2>6, <2>7 DEF respond
<1>16. ASSUME NEW cs \in Replies, respondThrows(cs) PROVE SoundInv'
  <2>1. SUFFICES ASSUME ghost'.scars = {} PROVE SoundInv'
    BY DEF SoundInv
  <2>2. receive(cs) /\ pc' = "fail"
    BY <1>16 DEF respondThrows
  <2>3. Awaiting(messages', ToSet(cs))
    BY <1>14, <2>1, <2>2
  <2>4. QED
    BY <2>2, <2>3 DEF SoundInv, Quiet
<1>17. ASSUME NEW finalized, NEW t, NEW s, executeToolCalls(finalized, t, s) PROVE SoundInv'
  <2>1. SUFFICES ASSUME ghost.scars = {} PROVE SoundInv'
    BY <1>17 DEF executeToolCalls, SoundInv
  <2>2. pc = "batch" /\ pc' = "results" /\ messages' = messages
    BY <1>17 DEF executeToolCalls
  <2>3. PICK cs, order : cs = Last(context).calls /\ order = only(cs, finalized) \o only(cs, ToSet(cs) \ finalized)
    OBVIOUS
  <2>4. finalized \subseteq ToSet(cs) /\ todo' = [i \in DOMAIN order |-> toolResult(order[i])]
    BY <1>17, <2>3 DEF executeToolCalls
  <2>5. context = messages
    BY <1>0, <2>1, <2>2 DEF ContextInv, Loop
  <2>6. messages # <<>> /\ Awaiting(messages, ToSet(cs))
    BY <2>1, <2>2, <2>3, <2>5 DEF SoundInv
  <2>7. cs \in Seq(Nat) /\ Different(cs)
    <3>1. /\ Len(messages) \in DOMAIN messages /\ Len(messages) \in 1..Len(messages)
          /\ Last(messages) = messages[Len(messages)]
      BY <1>0, <2>6, EmptySeq DEF Last
    <3>2. messages[Len(messages)] \in All
      BY <1>0, <3>1
    <3>3. CallsOnce(messages)
      BY <2>6 DEF Awaiting
    <3>4. cs = messages[Len(messages)].calls
      BY <2>3, <2>5, <3>1
    <3>5. QED
      BY <3>1, <3>2, <3>3, <3>4, CallsTyped, CallsDifferent
  <2>8. For(todo', ToSet(cs))
    BY <2>3, <2>4, <2>7, BatchResults
  <2>9. QED
    BY <2>2, <2>6, <2>8 DEF SoundInv, Quiet
<1>18. ASSUME pc = "results", ghost.scars = {}, todo # <<>>
       PROVE  \E P : Awaiting(Append(messages, Head(todo)), P) /\ For(Tail(todo), P)
  <2>1. PICK P : Awaiting(messages, P) /\ For(todo, P)
    BY <1>18 DEF SoundInv
  <2>2. /\ Head(todo) \in Others /\ Head(todo).role = "toolResult" /\ Head(todo).id \in P
        /\ For(Tail(todo), P \ {Head(todo).id})
    BY <1>18, <2>1, ForFirst
  <2>3. Awaiting(Append(messages, Head(todo)), P \ {Head(todo).id})
    BY <2>1, <2>2, AwaitingResult
  <2>4. QED
    BY <2>2, <2>3
<1>19. CASE publishResult
  <2>1. SUFFICES ASSUME ghost.scars = {} PROVE SoundInv'
    BY <1>19 DEF publishResult, SoundInv
  <2>2. CASE todo = <<>>
    <3>1. pc = "results" /\ pc' = "turnEnd" /\ messages' = messages
      BY <1>19, <2>2 DEF publishResult
    <3>2. PICK P : Awaiting(messages, P) /\ For(todo, P)
      BY <2>1, <3>1 DEF SoundInv
    <3>3. P = {}
      BY <2>2, <3>2, ForNone DEF none
    <3>4. QED
      BY <3>1, <3>2, <3>3 DEF SoundInv, Quiet
  <2>3. CASE todo # <<>>
    <3>1. /\ pc = "results" /\ pc' = "results" /\ messages' = Append(messages, Head(todo)) /\ todo' = Tail(todo)
      BY <1>19, <2>3 DEF publishResult
    <3>2. \E P : Awaiting(messages', P) /\ For(todo', P)
      BY <1>18, <2>1, <2>3, <3>1
    <3>3. QED
      BY <3>1, <3>2 DEF SoundInv, Quiet
  <2>4. QED
    BY <2>2, <2>3
<1>20. CASE throw
  <2>1. SUFFICES ASSUME ghost.scars = {} PROVE SoundInv'
    BY <1>0, <1>20 DEF throw, SoundInv
  <2>2. pc \in Loop /\ pc' = "fail"
    BY <1>20 DEF throw
  <2>3. \E P : Awaiting(messages, P)
    BY <2>1, <2>2 DEF SoundInv, Loop, Quiet
  <2>4. CASE messages' = messages
    BY <2>2, <2>3, <2>4 DEF SoundInv, Quiet
  <2>5. CASE publishing # <<>> /\ messages' = Append(messages, Head(publishing))
    <3>1. \E P : Awaiting(messages', P)
      <4>1. CASE pc \in {"prompts", "inject"}
        <5>1. publishing = pending /\ pc \in Quiet
          BY <4>1 DEF publishing, Quiet
        <5>2. QED
          BY <1>11, <2>1, <2>5, <5>1
      <4>2. CASE pc = "results"
        <5>1. publishing = todo
          BY <4>2 DEF publishing
        <5>2. QED
          BY <1>18, <2>1, <2>5, <4>2, <5>1
      <4>3. CASE pc \notin {"prompts", "inject", "results"}
        BY <2>5, <4>3 DEF publishing
      <4>4. QED
        BY <4>1, <4>2, <4>3
    <3>2. QED
      BY <2>2, <3>1 DEF SoundInv, Quiet
  <2>6. QED
    BY <1>20, <2>4, <2>5 DEF throw
<1>21. CASE planFailureTermination
  <2>1. SUFFICES ASSUME ghost.scars = {} PROVE SoundInv'
    BY <1>21 DEF planFailureTermination, SoundInv
  <2>2. PICK P : Awaiting(messages, P)
    BY <1>21, <2>1 DEF planFailureTermination, SoundInv
  <2>3. Closing(todo', messages)
    BY <1>21, <2>2, ClosingPlanned DEF planFailureTermination
  <2>4. QED
    BY <1>21, <2>3 DEF planFailureTermination, SoundInv, Quiet
<1>22. CASE publishClosure
  <2>1. SUFFICES ASSUME ghost.scars = {} PROVE SoundInv'
    BY <1>22 DEF publishClosure, finishRun, SoundInv
  <2>2. Closing(todo, messages)
    BY <1>22, <2>1 DEF publishClosure, SoundInv
  <2>3. CASE todo = <<>>
    <3>1. pc' = "idle" /\ messages' = messages
      BY <1>22, <2>3 DEF publishClosure, finishRun
    <3>2. Awaiting(messages, {})
      BY <2>2, <2>3, ClosingAwaits
    <3>3. QED
      BY <3>1, <3>2 DEF SoundInv, Quiet
  <2>4. CASE todo # <<>>
    <3>1. pc' = "closing" /\ messages' = Append(messages, Head(todo)) /\ todo' = Tail(todo)
      BY <1>22, <2>4 DEF publishClosure
    <3>2. Closing(todo', messages')
      BY <2>2, <2>4, <3>1, ClosingPublishes
    <3>3. QED
      BY <3>1, <3>2 DEF SoundInv, Quiet
  <2>5. QED
    BY <2>3, <2>4
<1>23. CASE closureThrows
  <2>1. SUFFICES ASSUME ghost'.scars = {} PROVE SoundInv'
    BY DEF SoundInv
  <2>2. ghost.scars = {} /\ ok(messages')
    BY <1>0, <1>23, <2>1 DEF closureThrows, finishRun
  <2>3. pc = "closing" /\ pc' = "idle"
    BY <1>23 DEF closureThrows, finishRun
  <2>4. Closing(todo, messages)
    BY <2>2, <2>3 DEF SoundInv
  <2>5. \E P : Awaiting(messages', P)
    <3>1. CASE messages' = messages
      BY <2>4, <3>1, ClosingAwaits
    <3>2. CASE todo # <<>> /\ messages' = Append(messages, Head(todo))
      BY <2>4, <3>2, ClosingPublishes, ClosingAwaits
    <3>3. QED
      BY <1>23, <3>1, <3>2 DEF closureThrows
  <2>6. Awaiting(messages', {})
    BY <2>2, <2>5, AwaitingVerdict
  <2>7. QED
    BY <2>3, <2>6 DEF SoundInv, Quiet
<1>24. QED
  BY <1>2, <1>3, <1>4, <1>5, <1>7, <1>8, <1>9, <1>10, <1>12, <1>13, <1>15, <1>16, <1>17, <1>19, <1>20, <1>21, <1>22,
     <1>23
  DEF Next, Callers, Starts, Loops, Throws

-----------------------------------------------------------------------------
(***************************************************************************)
(* The theorems.                                                           *)
(***************************************************************************)

(* Nothing was handed over yet. *)
LEMMA AgentInit ==
  ASSUME Init
  PROVE  AgentInv
<1>1. /\ messages = none /\ context = none /\ steering = none /\ followUps = none /\ pending = none /\ todo = none
      /\ pc = "idle" /\ next = 0 /\ calls = 0 /\ ghost.dropped = {} /\ ghost.lost = {}
      /\ DOMAIN ghost = {"dropped", "lost", "scars"}
  BY DEF Init, none
<1>2. AgentTypes
  BY <1>1, SmallSequences DEF AgentTypes
<1>3. PendingInv /\ ContextInv
  BY <1>1 DEF PendingInv, ContextInv, Loop, none
<1>4. Typed(none, none, none, none, 0)
  BY SmallSequences DEF Typed
<1>5. Balanced(none, none, none, none, 0, {})
  <2>1. \A n \in Nat : ~Gone({}, n) /\ ~(n < 0) /\ count(none, n) = 0
    BY CountSmall DEF Gone
  <2>2. QED
    BY <2>1 DEF Balanced, total
<1>6. InOrder(none, none, none, none)
  BY OrderedSmall, BeforeNone DEF InOrder
<1>7. BooksInv
  <2>1. ghost.dropped \cup ghost.lost = {}
    BY <1>1
  <2>2. QED
    BY <1>1, <1>4, <1>5, <1>6, <2>1 DEF BooksInv, Books
<1>8. QED
  BY <1>2, <1>3, <1>7 DEF AgentInv

(* The invariant of the agent, for every behaviour. *)
LEMMA AgentAlways == Spec => []AgentInv
<1>1. Init => AgentInv
  BY AgentInit
<1>2. AgentInv /\ [Next]_vars => AgentInv'
  BY TypesNext, PendingNext, ContextNext, BooksNext DEF AgentInv
<1>3. QED
  BY <1>1, <1>2, PTL DEF Spec

(* At every request the context of the loop, which the provider sees, is   *)
(* the agent's transcript, which listeners saw, for every number of runs,  *)
(* messages, errors and aborts, unless reset() came in between.            *)
THEOREM ContextMirrors == Spec => []ContextMirrorsMessages
<1>1. AgentInv => ContextMirrorsMessages
  BY DEF AgentInv, ContextInv, ContextMirrorsMessages, Loop
<1>2. QED
  BY <1>1, AgentAlways, PTL

(* A message that a caller handed over is in exactly one place until it is *)
(* cleared or lost with a failed run, and the messages of a queue reach    *)
(* the transcript in their order, for every number of them.                *)
THEOREM MessagesStayAccounted == Spec => []MessagesAccounted
<1>1. ASSUME AgentInv PROVE MessagesAccounted
  <2>1. Books(messages, pending, steering, followUps, next, ghost.dropped \cup ghost.lost) /\ BooksInv
    BY <1>1 DEF AgentInv, BooksInv
  <2>2. messages \in Seq(All) /\ pending \in Seq(All) /\ steering \in Seq(All) /\ followUps \in Seq(All) /\ next \in Nat
    BY <2>1, BooksSequences
  <2>3. ASSUME NEW n \in 0..(next - 1), NEW gone,
               gone = \E m \in ghost.dropped \union ghost.lost : m.role = "user" /\ m.id[2] = n
        PROVE  Cardinality(numbered(places, n)) = (IF gone THEN 0 ELSE 1)
    <3>1. n \in Nat /\ n < next
      BY <2>2
    <3>2. gone <=> Gone(ghost.dropped \cup ghost.lost, n)
      BY <2>3 DEF Gone, isNumber
    <3>3. total(messages, pending, steering, followUps, n) = IF Gone(ghost.dropped \cup ghost.lost, n) THEN 0 ELSE 1
      BY <2>1, <3>1 DEF Books, Balanced
    <3>4. PICK a, b : a = cat(steering, followUps) /\ b = cat(a, pending)
      OBVIOUS
    <3>5. a \in Seq(All) /\ b \in Seq(All) /\ places = cat(b, messages)
      BY <2>2, <3>4 DEF cat, places
    <3>6. /\ count(places, n) = count(b, n) + count(messages, n) /\ count(b, n) = count(a, n) + count(pending, n)
          /\ count(a, n) = count(steering, n) + count(followUps, n)
      BY <2>2, <3>4, <3>5, CountCat
    <3>7. /\ count(messages, n) \in Nat /\ count(pending, n) \in Nat
          /\ count(steering, n) \in Nat /\ count(followUps, n) \in Nat
      BY <2>2, NumberedFinite
    <3>8. count(places, n) = total(messages, pending, steering, followUps, n)
      BY <3>6, <3>7 DEF total
    <3>9. QED
      BY <3>2, <3>3, <3>8 DEF count
  <2>4. Ordered(messages)
    BY <2>1 DEF Books, InOrder
  <2>5. QED
    BY <2>3, <2>4 DEF MessagesAccounted, Ordered, precedes
<1>2. QED
  BY <1>1, AgentAlways, PTL

(* An idle agent has a transcript that the provider accepts, whatever      *)
(* failed, was aborted or was queued on the way, for every number of runs, *)
(* messages, calls and errors, unless a scar says why not.                 *)
THEOREM IdleTranscriptSound == Spec => []SoundWhenIdle
<1>1. Init => SoundInv
  <2>1. Init => messages = none /\ pc = "idle"
    BY DEF Init, none
  <2>2. QED
    BY <2>1, AwaitingNone DEF SoundInv, Quiet
<1>2. AgentInv /\ SoundInv /\ [Next]_vars => SoundInv'
  BY SoundNext
<1>3. SoundInv => SoundWhenIdle
  BY AwaitingVerdict DEF SoundInv, SoundWhenIdle, Quiet
<1>4. QED
  BY <1>1, <1>2, <1>3, AgentAlways, PTL DEF Spec
=============================================================================
