------------------------ MODULE ReplayLedgerStoreProofs ------------------------
(***************************************************************************)
(* What the replay ledger acknowledged survives, its chain does not fork,  *)
(* what is rolled back is kept and the store reads what it left, for every *)
(* set of managers and every number of events, faults and power failures;  *)
(* and the lock that its operations hold excludes.                         *)
(***************************************************************************)
EXTENDS ReplayLedgerStore, ReplayLedgerLock, Integers, SequenceTheorems, TLAPS

Heads == [ino : Nat, size : Nat, last : Int]
Halves == [event : Int, half : Nat]
Dirs == [ino : Nat, head : Heads]
Reading == {"read", "dropSync", "truncate", "truncateSync", "compare"}
Writing == {"write", "write2", "fsync", "publish"}
Creating == {"create", "publishGenesis", "genesisSync"}

(* The types of the store's state. *)
StoreTypes ==
  /\ dirs \in Seq(Dirs) /\ Len(dirs) >= 1
  /\ data \in Seq(Halves) /\ synced \in Seq(Halves) /\ inodes \in Nat
  /\ prev \in Seq(Int) /\ committed \in [Managers -> Heads]
  /\ op \in [at : {"none", "publishSync"} \cup Reading \cup Creating \cup Writing, event : Int, target : Heads]
  /\ acked \subseteq 1..Len(prev)

(* The i-th line of the ledger records event e, chained to the line above. *)
LineOf(i, e) ==
  /\ data[2 * i - 1] = [event |-> e, half |-> 1] /\ data[2 * i] = [event |-> e, half |-> 2]
  /\ prev[e] = IF i = 1 THEN 0 ELSE data[2 * i - 2].event

(* A head commits a prefix of the ledger that is on disk whatever happens: *)
(* whole lines, each chained to the one above it, no event twice.          *)
Commits(h) ==
  \E k \in 0..Len(data) :
    /\ h.size = 2 * k /\ h.size <= Len(data) /\ h.size <= Len(synced)
    /\ \A i \in 1..h.size : data[i] = synced[i]
    /\ \A i \in 1..k : \E e \in 1..Len(prev) : LineOf(i, e)
    /\ \A i, j \in 1..k : i < j => data[2 * i].event < data[2 * j].event
    /\ h.last = IF k = 0 THEN 0 ELSE data[2 * k].event

(* What power failure may leave of the directory is the store's own: no    *)
(* head and an empty ledger, or a head that commits what was acknowledged. *)
Sound(d) ==
  /\ d.head = Head0 => data = <<>> /\ synced = <<>> /\ acked = {}
  /\ d.head # Head0 => /\ d.ino # 0 /\ d.head.ino = d.ino /\ Commits(d.head)
                       /\ \A e \in acked : \E i \in 1..d.head.size : data[i].event = e
States == {dirs[i] : i \in DOMAIN dirs}
DirsSound == \A d \in States : Sound(d)

(* Where the operation is in its calls, and what it has done by then. *)
OpInv ==
  /\ (lock = "none" <=> op.at = "none") /\ lock \in Managers \cup {"none"}
  /\ op.at \in Creating \cup Writing \cup {"publishSync"} => op.event > 0
  /\ op.at \in Writing \cup Reading \cup {"create"} => Len(dirs) = 1 \/ op.at = "dropSync"
  /\ op.at \in Reading \cup {"create"} /\ op.event > 0 => prev[op.event] = op.target.last
  /\ op.event > 0 => op.event = Len(prev)
  /\ op.event > 0 /\ op.at # "publishSync" =>
       \A d \in States : \A i \in 1..d.head.size : data[i].event < op.event
  /\ op.at = "dropSync" => dir.head = Head0
  /\ op.at = "truncate" => dir.head.size <= Len(data) /\ SubSeq(data, dir.head.size + 1, Len(data)) \in quarantine
  /\ op.at \in {"truncateSync", "compare", "create", "write"} => Len(data) = dir.head.size
  /\ op.at = "create" => dir.head = Head0
  /\ op.at = "publishGenesis" => dir.head = Head0 /\ dir.ino # 0 /\ op.target = [ino |-> dir.ino, size |-> 0, last |-> 0]
  /\ op.at = "genesisSync" => dir.head = [ino |-> dir.ino, size |-> 0, last |-> 0] /\ dir.ino # 0 /\ data = <<>>
  /\ op.at \in Creating => prev[op.event] = 0
  /\ op.at \in Writing => dir.head # Head0 /\ prev[op.event] = dir.head.last
  /\ op.at = "write2" => Len(data) = dir.head.size + 1
  /\ op.at \in {"fsync", "publish"} =>
       /\ Len(data) = dir.head.size + 2 /\ data[Len(data)] = [event |-> op.event, half |-> 2]
       /\ op.target = [ino |-> dir.ino, size |-> Len(data), last |-> op.event]
  /\ op.at \in {"write2", "fsync", "publish"} => data[dir.head.size + 1] = [event |-> op.event, half |-> 1]
  /\ op.at = "publish" => synced = data
  /\ op.at = "publishSync" => dir.head # Head0 /\ \E i \in 1..dir.head.size : data[i].event = op.event

StoreInv == StoreTypes /\ DirsSound /\ OpInv
--------------------------------------------------------------------------------
(***************************************************************************)
(* The directory                                                           *)
(***************************************************************************)
(* The current state of the directory is one that power failure may leave. *)
LEMMA DirNow ==
  ASSUME StoreTypes
  PROVE  /\ dir \in Dirs /\ dir \in States /\ States \subseteq Dirs
         /\ dir.ino \in Nat /\ dir.head \in Heads /\ dir.head.size \in Nat
         /\ Len(dirs) = 1 => States = {dir}
<1>1. Len(dirs) \in Nat /\ DOMAIN dirs = 1..Len(dirs) /\ Len(dirs) \in DOMAIN dirs /\ dir = dirs[Len(dirs)]
  BY LenProperties DEF StoreTypes, dir, Last
<1>2. \A i \in DOMAIN dirs : dirs[i] \in Dirs
  BY <1>1 DEF StoreTypes
<1>3. dir.ino \in Nat /\ dir.head \in Heads
  BY <1>1, <1>2 DEF Dirs
<1>4. dir.head.size \in Nat
  BY <1>3 DEF Heads
<1>5. QED
  BY <1>1, <1>2, <1>3, <1>4 DEF States

(* fsyncDirectory: only the current state is left. *)
LEMMA DirSynced ==
  ASSUME StoreTypes, fsyncDirectory
  PROVE  dir' = dir /\ States' = {dir} /\ dirs' \in Seq(Dirs) /\ Len(dirs') = 1
<1>1. dirs' = <<dir>> /\ dir \in Dirs
  BY DirNow DEF fsyncDirectory
<1>2. dirs' \in Seq(Dirs) /\ Len(dirs') = 1 /\ DOMAIN dirs' = {1} /\ dirs'[1] = dir
  BY <1>1
<1>3. QED
  BY <1>2 DEF dir, Last, States

(* A change of the directory adds a state. *)
LEMMA DirChanged ==
  ASSUME StoreTypes, NEW d \in Dirs, changeDir(d)
  PROVE  dir' = d /\ States' = States \cup {d} /\ dirs' \in Seq(Dirs) /\ Len(dirs') = Len(dirs) + 1
<1>1. /\ dirs' = Append(dirs, d) /\ dirs \in Seq(Dirs) /\ Len(dirs) \in Nat /\ DOMAIN dirs = 1..Len(dirs)
  BY LenProperties DEF changeDir, StoreTypes
<1>2. /\ dirs' \in Seq(Dirs) /\ Len(dirs') = Len(dirs) + 1 /\ DOMAIN dirs' = 1..(Len(dirs) + 1)
      /\ dirs'[Len(dirs) + 1] = d /\ \A i \in 1..Len(dirs) : dirs'[i] = dirs[i]
  BY <1>1
<1>3. dir' = d
  BY <1>2 DEF dir, Last
<1>4. States' = States \cup {d}
  BY <1>1, <1>2 DEF States
<1>5. QED
  BY <1>2, <1>3, <1>4

(***************************************************************************)
(* Heads                                                                   *)
(***************************************************************************)
(* What a head commits stays so as long as its bytes do. *)
LEMMA CommitsKept ==
  ASSUME StoreTypes, NEW h \in Heads, Commits(h),
         data' \in Seq(Halves), synced' \in Seq(Halves), h.size <= Len(data'), h.size <= Len(synced'),
         \A i \in 1..h.size : data'[i] = data[i] /\ synced'[i] = data[i],
         Len(prev') \in Nat, Len(prev) <= Len(prev'), \A e \in 1..Len(prev) : prev'[e] = prev[e]
  PROVE  Commits(h)'
<1>1. PICK k \in 0..Len(data) :
        /\ h.size = 2 * k /\ h.size <= Len(data) /\ h.size <= Len(synced)
        /\ \A i \in 1..k : \E e \in 1..Len(prev) : LineOf(i, e)
        /\ \A i, j \in 1..k : i < j => data[2 * i].event < data[2 * j].event
        /\ h.last = IF k = 0 THEN 0 ELSE data[2 * k].event
  BY DEF Commits
<1>2. Len(data) \in Nat /\ Len(data') \in Nat /\ Len(prev) \in Nat /\ k \in Nat /\ k \in 0..Len(data')
  BY <1>1 DEF StoreTypes
<1>3. \A i \in 1..k : data'[2 * i] = data[2 * i] /\ data'[2 * i - 1] = data[2 * i - 1]
  BY <1>1, <1>2
<1>4. \A i \in 1..k : i # 1 => data'[2 * i - 2] = data[2 * i - 2]
  BY <1>1, <1>2
<1>5. ASSUME NEW i \in 1..k PROVE \E e \in 1..Len(prev') : LineOf(i, e)'
  <2>1. PICK e \in 1..Len(prev) : LineOf(i, e)
    BY <1>1
  <2>2. e \in 1..Len(prev') /\ prev'[e] = prev[e]
    BY <1>2
  <2>3. LineOf(i, e)'
    BY <1>3, <1>4, <2>1, <2>2 DEF LineOf
  <2>4. QED
    BY <2>2, <2>3
<1>6. \A i, j \in 1..k : i < j => data'[2 * i].event < data'[2 * j].event
  BY <1>1, <1>3
<1>7. h.last = IF k = 0 THEN 0 ELSE data'[2 * k].event
  BY <1>1, <1>2, <1>3
<1>8. \A i \in 1..h.size : data'[i] = synced'[i]
  OBVIOUS
<1>9. QED
  BY <1>1, <1>2, <1>5, <1>6, <1>7, <1>8 DEF Commits

(* A state of the directory stays sound as long as the bytes it commits    *)
(* stay, and nothing is written under a missing head.                      *)
LEMMA SoundKept ==
  ASSUME StoreTypes, NEW d \in Dirs, Sound(d), acked' = acked,
         data' \in Seq(Halves), synced' \in Seq(Halves),
         d.head = Head0 => data' = <<>> /\ synced' = <<>>,
         d.head # Head0 => /\ d.head.size <= Len(data') /\ d.head.size <= Len(synced')
                           /\ \A i \in 1..d.head.size : data'[i] = data[i] /\ synced'[i] = data[i],
         Len(prev') \in Nat, Len(prev) <= Len(prev'), \A e \in 1..Len(prev) : prev'[e] = prev[e]
  PROVE  Sound(d)'
<1>1. d.head \in Heads
  BY DEF Dirs
<1>2. CASE d.head = Head0
  BY <1>2 DEF Sound
<1>3. CASE d.head # Head0
  <2>1. PICK h \in Heads : h = d.head
    BY <1>1
  <2>2. Commits(h)'
    BY <1>3, <2>1, CommitsKept DEF Sound
  <2>3. \A e \in acked : \E i \in 1..h.size : data'[i].event = e
    BY <1>3, <2>1 DEF Sound
  <2>4. QED
    BY <1>3, <2>1, <2>2, <2>3 DEF Sound
<1>4. QED
  BY <1>2, <1>3

(* Nothing but the directory changes. *)
LEMMA SoundSame ==
  ASSUME StoreTypes, NEW d \in Dirs, Sound(d), UNCHANGED <<data, synced, prev, acked>>
  PROVE  Sound(d)'
<1>1. data \in Seq(Halves) /\ synced \in Seq(Halves) /\ Len(prev) \in Nat
  BY DEF StoreTypes
<1>2. d.head = Head0 => data = <<>> /\ synced = <<>>
  BY DEF Sound
<1>3. d.head # Head0 => /\ d.head.size <= Len(data) /\ d.head.size <= Len(synced)
                        /\ \A i \in 1..d.head.size : synced[i] = data[i]
  BY DEF Sound, Commits
<1>4. QED
  BY <1>1, <1>2, <1>3, SoundKept

(* readVerified accepts a sound directory. *)
LEMMA SoundAccepted ==
  ASSUME StoreTypes, Sound(dir)
  PROVE  ~refused
<1>1. dir \in Dirs
  BY DirNow
<1>2. CASE dir.head = Head0
  BY <1>2 DEF refused, Sound
<1>3. CASE dir.head # Head0
  <2>1. dir.ino # 0 /\ dir.head.ino = dir.ino /\ Commits(dir.head)
    BY <1>3 DEF Sound
  <2>2. PICK h \in Heads : h = dir.head
    BY <1>1 DEF Dirs
  <2>3. PICK k \in 0..Len(data) :
        /\ h.size = 2 * k /\ h.size <= Len(data) /\ h.size <= Len(synced)
        /\ \A i \in 1..k : \E e \in 1..Len(prev) : LineOf(i, e)
        /\ h.last = IF k = 0 THEN 0 ELSE data[2 * k].event
    BY <2>1, <2>2 DEF Commits
  <2>4. PICK d : d = SubSeq(data, 1, h.size)
    OBVIOUS
  <2>5. Len(data) \in Nat /\ k \in Nat /\ data \in Seq(Halves)
    BY <2>3 DEF StoreTypes
  <2>6. d \in Seq(Halves) /\ Len(d) = 2 * k /\ \A i \in 1..(2 * k) : d[i] = data[i]
    BY <2>3, <2>4, <2>5, SubSeqProperties
  <2>7. Len(d) % 2 = 0 /\ Len(d) \div 2 = k
    BY <2>5, <2>6
  <2>8. ASSUME NEW i \in 1..k
        PROVE  /\ SubSeq(d, 2 * i - 1, 2 * i) = line(d[2 * i].event)
               /\ prev[d[2 * i].event] = IF i = 1 THEN 0 ELSE d[2 * i - 2].event
    <3>1. PICK e \in 1..Len(prev) : LineOf(i, e)
      BY <2>3
    <3>2. 2 * i - 1 \in 1..(2 * k) /\ 2 * i \in 1..(2 * k) /\ (i # 1 => 2 * i - 2 \in 1..(2 * k))
      BY <2>5
    <3>3. d[2 * i - 1] = [event |-> e, half |-> 1] /\ d[2 * i] = [event |-> e, half |-> 2]
      BY <2>6, <3>1, <3>2 DEF LineOf
    <3>4. d[2 * i].event = e
      BY <3>3
    <3>5. SubSeq(d, 2 * i - 1, 2 * i) = <<d[2 * i - 1], d[2 * i]>>
      <4>1. PICK n \in Int : n = 2 * i - 1 /\ 2 * i = n + 1 /\ n >= 1 /\ n + 1 <= Len(d)
        BY <2>5, <2>6, <3>2
      <4>2. SubSeq(d, n, n + 1) \in Seq(Halves) /\ Len(SubSeq(d, n, n + 1)) = 2
        BY <2>6, <4>1
      <4>3. SubSeq(d, n, n + 1)[1] = d[n] /\ SubSeq(d, n, n + 1)[2] = d[n + 1]
        BY <2>6, <4>1
      <4>4. <<d[n], d[n + 1]>> \in Seq(Halves) /\ Len(<<d[n], d[n + 1]>>) = 2
        BY <2>6, <4>1
      <4>5. SubSeq(d, n, n + 1) = <<d[n], d[n + 1]>>
        <5>1. PICK s \in Seq(Halves) : s = SubSeq(d, n, n + 1) /\ Len(s) = 2 /\ s[1] = d[n] /\ s[2] = d[n + 1]
          BY <4>2, <4>3
        <5>2. PICK t \in Seq(Halves) : t = <<d[n], d[n + 1]>> /\ Len(t) = 2 /\ t[1] = d[n] /\ t[2] = d[n + 1]
          BY <4>4
        <5>3. ASSUME NEW x \in 1..Len(s) PROVE s[x] = t[x]
          <6>1. x = 1 \/ x = 2
            BY <5>1
          <6>2. QED
            BY <5>1, <5>2, <6>1
        <5>4. QED
          BY <5>1, <5>2, <5>3, SeqEqual
      <4>6. QED
        BY <4>1, <4>5
    <3>6. prev[e] = IF i = 1 THEN 0 ELSE d[2 * i - 2].event
      BY <2>6, <3>1, <3>2 DEF LineOf
    <3>7. QED
      BY <3>3, <3>4, <3>5, <3>6 DEF line
  <2>9. intact(d)
    BY <2>7, <2>8 DEF intact
  <2>10. lastOf(d) = h.last
    <3>1. CASE k = 0
      BY <2>3, <2>6, <3>1 DEF lastOf
    <3>2. CASE k # 0
      <4>1. d # <<>> /\ Last(d) = data[2 * k]
        BY <2>5, <2>6, <3>2 DEF Last
      <4>2. QED
        BY <2>3, <3>2, <4>1 DEF lastOf
    <3>3. QED
      BY <3>1, <3>2
  <2>11. h.size <= Len(data)
    BY <2>3
  <2>12. QED
    <3>1. ~(h.size > Len(data))
      BY <2>5, <2>3, <2>11
    <3>2. QED
      BY <1>3, <2>1, <2>2, <2>4, <2>9, <2>10, <3>1 DEF refused
<1>4. QED
  BY <1>2, <1>3

(* The committed events have been recorded. *)
LEMMA CommittedEvents ==
  ASSUME StoreTypes, NEW h \in Heads, Commits(h), NEW i \in 1..h.size
  PROVE  data[i].event \in 1..Len(prev)
<1>1. PICK k \in 0..Len(data) : h.size = 2 * k /\ \A j \in 1..k : \E e \in 1..Len(prev) : LineOf(j, e)
  BY DEF Commits
<1>2. k \in Nat /\ i \in 1..(2 * k)
  BY <1>1 DEF StoreTypes
<1>3. PICK j \in 1..k : i = 2 * j \/ i = 2 * j - 1
  <2>1. PICK j \in Int : j = (i + 1) \div 2
    BY <1>2
  <2>2. j \in 1..k /\ (i = 2 * j \/ i = 2 * j - 1)
    BY <1>2, <2>1
  <2>3. QED
    BY <2>2
<1>4. PICK e \in 1..Len(prev) : LineOf(j, e)
  BY <1>1
<1>5. data[i] = [event |-> e, half |-> 1] \/ data[i] = [event |-> e, half |-> 2]
  BY <1>3, <1>4 DEF LineOf
<1>6. QED
  BY <1>5

(* A line below a committed prefix, chained to it, makes a longer one. *)
LEMMA CommitsMore ==
  ASSUME StoreTypes, NEW h \in Heads, Commits(h), NEW e \in 1..Len(prev), NEW g \in Heads,
         g.size = h.size + 2, g.last = e, Len(data) = h.size + 2, synced = data,
         data[h.size + 1] = [event |-> e, half |-> 1], data[h.size + 2] = [event |-> e, half |-> 2],
         prev[e] = h.last, \A i \in 1..h.size : data[i].event < e
  PROVE  Commits(g)
<1>1. PICK k \in 0..Len(data) :
        /\ h.size = 2 * k
        /\ \A i \in 1..k : \E f \in 1..Len(prev) : LineOf(i, f)
        /\ \A i, j \in 1..k : i < j => data[2 * i].event < data[2 * j].event
        /\ h.last = IF k = 0 THEN 0 ELSE data[2 * k].event
  BY DEF Commits
<1>2. PICK n \in Nat : n = k + 1
  BY <1>1 DEF StoreTypes
<1>3. Len(data) \in Nat /\ k \in Nat /\ 2 * n = h.size + 2 /\ 2 * n - 1 = h.size + 1 /\ 2 * n - 2 = h.size
  BY <1>1, <1>2 DEF StoreTypes
<1>4. LineOf(n, e)
  BY <1>1, <1>2, <1>3 DEF LineOf
<1>5. \A i \in 1..n : \E f \in 1..Len(prev) : LineOf(i, f)
  <2>1. SUFFICES ASSUME NEW i \in 1..n PROVE \E f \in 1..Len(prev) : LineOf(i, f)
    OBVIOUS
  <2>2. i = n \/ i \in 1..k
    BY <1>2, <1>3
  <2>3. QED
    BY <1>1, <1>4, <2>2
<1>6. data[2 * n].event = e
  BY <1>3
<1>7. ASSUME NEW i \in 1..n, NEW j \in 1..n, i < j PROVE data[2 * i].event < data[2 * j].event
  <2>1. CASE j = n
    <3>1. 2 * i \in 1..h.size
      BY <1>2, <1>3, <1>7, <2>1
    <3>2. QED
      BY <1>6, <2>1, <3>1
  <2>2. CASE j # n
    BY <1>1, <1>2, <1>3, <1>7, <2>2
  <2>3. QED
    BY <2>1, <2>2
<1>8. n \in 0..Len(data) /\ g.size = 2 * n /\ g.size <= Len(data) /\ g.size <= Len(synced)
  BY <1>2, <1>3
<1>9. g.last = IF n = 0 THEN 0 ELSE data[2 * n].event
  BY <1>2, <1>3, <1>6
<1>10. \A i \in 1..g.size : data[i] = synced[i]
  OBVIOUS
<1>11. QED
  BY <1>5, <1>7, <1>8, <1>9, <1>10 DEF Commits

(***************************************************************************)
(* The steps                                                               *)
(***************************************************************************)
(* The calls that only move the operation on. *)
LEMMA OpMoves ==
  ASSUME StoreTypes, NEW l, goto(l)
  PROVE  op'.at = l /\ op'.event = op.event /\ op'.target = op.target
  BY DEF StoreTypes, goto

(* Types of an operation that moves on. *)
LEMMA OpTyped ==
  ASSUME StoreTypes, NEW l \in {"none", "publishSync"} \cup Reading \cup Creating \cup Writing, goto(l)
  PROVE  op' \in [at : {"none", "publishSync"} \cup Reading \cup Creating \cup Writing, event : Int, target : Heads]
  BY DEF StoreTypes, goto

(* The operation ends. *)
LEMMA OpFinished ==
  ASSUME finish
  PROVE  /\ op' \in [at : {"none", "publishSync"} \cup Reading \cup Creating \cup Writing, event : Int, target : Heads]
         /\ OpInv'
<1>1. op' = NoOp /\ lock' = "none"
  BY DEF finish
<1>2. Head0 \in Heads
  BY DEF Head0, Heads
<1>3. NoOp \in [at : {"none", "publishSync"} \cup Reading \cup Creating \cup Writing, event : Int, target : Heads]
  BY <1>2 DEF NoOp
<1>4. op'.at = "none" /\ op'.event = 0
  BY <1>1 DEF NoOp
<1>5. QED
  BY <1>1, <1>3, <1>4 DEF OpInv, Reading, Creating, Writing

(* The states of the directory stay sound when only it changes, and not to *)
(* anything new.                                                           *)
LEMMA StatesKept ==
  ASSUME StoreTypes, DirsSound, UNCHANGED <<data, synced, prev, acked>>, States' \subseteq States
  PROVE  DirsSound'
<1> SUFFICES ASSUME NEW d \in States' PROVE Sound(d)'
  BY DEF DirsSound
<1>1. d \in Dirs /\ Sound(d)
  BY DirNow DEF DirsSound
<1>2. QED
  BY <1>1, SoundSame

(* A state is added that is sound. *)
LEMMA StateAdded ==
  ASSUME StoreTypes, DirsSound, UNCHANGED <<data, synced, prev, acked>>,
         NEW n \in Dirs, Sound(n), States' \subseteq States \cup {n}
  PROVE  DirsSound'
<1> SUFFICES ASSUME NEW d \in States' PROVE Sound(d)'
  BY DEF DirsSound
<1>1. d \in Dirs /\ Sound(d)
  BY DirNow DEF DirsSound
<1>2. QED
  BY <1>1, SoundSame

(* The bytes below the only head change. *)
LEMMA BytesChanged ==
  ASSUME StoreTypes, DirsSound, States' = {dir}, acked' = acked, prev' = prev,
         data' \in Seq(Halves), synced' \in Seq(Halves), dir.head = Head0 => data' = <<>> /\ synced' = <<>>,
         dir.head.size <= Len(data'), dir.head.size <= Len(synced'),
         \A i \in 1..dir.head.size : data'[i] = data[i] /\ synced'[i] = data[i]
  PROVE  DirsSound'
<1>1. PICK d \in Dirs : d = dir /\ Sound(d)
  BY DirNow DEF DirsSound
<1>2. Len(prev) \in Nat
  BY DEF StoreTypes
<1>3. Sound(d)'
  BY <1>1, <1>2, SoundKept
<1>4. QED
  BY <1>1, <1>3 DEF DirsSound

(* start: load() or append() under the lock, its directory synced. *)
LEMMA StartNext ==
  ASSUME StoreInv, NEW m \in Managers, NEW k \in {"open", "verify", "append"}, NEW e \in -1..MaxEvents, start(m, k, e)
  PROVE  StoreInv'
<1>1. StoreTypes /\ DirsSound /\ OpInv /\ Len(prev) \in Nat
  BY DEF StoreInv, StoreTypes
<1>2. dir' = dir /\ States' = {dir} /\ dirs' \in Seq(Dirs) /\ Len(dirs') = 1 /\ dir \in Dirs /\ dir \in States
  BY <1>1, DirSynced, DirNow DEF start
<1>3. /\ lock' = m /\ op' = [at |-> "read", event |-> e, target |-> committed[m]]
      /\ UNCHANGED <<data, synced, quarantine, inodes, committed, acked, faults>>
  BY DEF start, begin
<1>4. committed[m] \in Heads /\ m # "none" /\ e \in Int
  BY <1>1, ReplayLedgerStoreAssumption DEF StoreTypes
<1>5. \/ prev' = prev /\ e <= 0
      \/ prev' = Append(prev, committed[m].last) /\ e = Len(prev) + 1
  <2>1. CASE k = "open"
    BY <2>1 DEF start, begin
  <2>2. CASE k = "verify"
    BY <2>2 DEF start, begin
  <2>3. CASE k = "append"
    BY <2>3 DEF start, begin
  <2>4. QED
    BY <2>1, <2>2, <2>3
<1>6. committed[m].last \in Int
  BY <1>4 DEF Heads
<1>7. /\ prev' \in Seq(Int) /\ Len(prev) <= Len(prev') /\ Len(prev') \in Nat
      /\ \A f \in 1..Len(prev) : prev'[f] = prev[f]
      /\ e > 0 => e = Len(prev) + 1 /\ e = Len(prev') /\ prev'[e] = committed[m].last
  <2>1. prev \in Seq(Int)
    BY <1>1 DEF StoreTypes
  <2>2. CASE prev' = prev /\ e <= 0
    BY <1>1, <1>4, <2>1, <2>2
  <2>3. CASE prev' = Append(prev, committed[m].last) /\ e = Len(prev) + 1
    BY <1>1, <1>4, <1>6, <2>1, <2>3
  <2>4. QED
    BY <1>5, <2>2, <2>3
<1>8. op'.at = "read" /\ op'.event = e /\ op'.target = committed[m]
  BY <1>3
<1>9. StoreTypes'
  <2>1. op' \in [at : {"none", "publishSync"} \cup Reading \cup Creating \cup Writing, event : Int, target : Heads]
    BY <1>3, <1>4 DEF Reading
  <2>2. acked' \subseteq 1..Len(prev')
    BY <1>1, <1>3, <1>7 DEF StoreTypes
  <2>3. QED
    BY <1>1, <1>2, <1>3, <1>7, <2>1, <2>2 DEF StoreTypes
<1>10. DirsSound'
  <2>1. PICK d \in Dirs : d = dir /\ Sound(d)
    BY <1>1, <1>2 DEF DirsSound
  <2>2. d.head = Head0 => data' = <<>> /\ synced' = <<>>
    BY <1>3, <2>1 DEF Sound
  <2>3. d.head # Head0 => /\ d.head.size <= Len(data') /\ d.head.size <= Len(synced')
                          /\ \A i \in 1..d.head.size : data'[i] = data[i] /\ synced'[i] = data[i]
    BY <1>3, <2>1 DEF Sound, Commits
  <2>4. data' \in Seq(Halves) /\ synced' \in Seq(Halves) /\ acked' = acked
    BY <1>1, <1>3 DEF StoreTypes
  <2>5. Sound(d)'
    BY <1>1, <1>7, <2>1, <2>2, <2>3, <2>4, SoundKept
  <2>6. QED
    BY <1>2, <2>1, <2>5 DEF DirsSound
<1>11. ASSUME e > 0, NEW i \in 1..dir.head.size PROVE data'[i].event < e
  <2>1. PICK h \in Heads : h = dir.head
    BY <1>2 DEF Dirs
  <2>2. dir.head # Head0
    BY <1>11 DEF Head0
  <2>3. Commits(h)
    BY <1>1, <1>2, <2>1, <2>2 DEF DirsSound, Sound
  <2>4. data[i].event \in 1..Len(prev)
    BY <1>1, <2>1, <2>3, CommittedEvents
  <2>5. QED
    BY <1>1, <1>3, <1>7, <1>11, <2>4
<1>12. OpInv'
  BY <1>2, <1>3, <1>4, <1>7, <1>8, <1>11 DEF OpInv, Reading, Creating, Writing
<1>13. QED
  BY <1>9, <1>10, <1>12 DEF StoreInv

(* dropUncommittedFile: the ledger that no head commits is empty. *)
LEMMA DropNext ==
  ASSUME StoreInv, dropUncommittedFile
  PROVE  StoreInv'
<1>1. StoreTypes /\ DirsSound /\ OpInv /\ Len(dirs) \in Nat
  BY DEF StoreInv, StoreTypes
<1>2. dir \in Dirs /\ dir \in States /\ dir.head = Head0 /\ Sound(dir)
  BY <1>1, DirNow DEF dropUncommittedFile, DirsSound
<1>3. PICK n \in Dirs : n = [dir EXCEPT !.ino = 0] /\ n.head = Head0 /\ n.ino = 0
  <2>1. [dir EXCEPT !.ino = 0] \in Dirs
    BY <1>2 DEF Dirs
  <2>2. [dir EXCEPT !.ino = 0].head = Head0 /\ [dir EXCEPT !.ino = 0].ino = 0
    BY <1>2 DEF Dirs
  <2>3. QED
    BY <2>1, <2>2
<1>4. dir' = n /\ States' = States \cup {n} /\ dirs' \in Seq(Dirs) /\ Len(dirs') = Len(dirs) + 1
  BY <1>1, <1>3, DirChanged DEF dropUncommittedFile
<1>5. op.at = "read" /\ op'.at = "dropSync" /\ op'.event = op.event /\ op'.target = op.target
  BY <1>1, OpMoves DEF dropUncommittedFile
<1>6. op' \in [at : {"none", "publishSync"} \cup Reading \cup Creating \cup Writing, event : Int, target : Heads]
  BY <1>1, OpTyped DEF dropUncommittedFile, Reading
<1>7. UNCHANGED <<data, synced, quarantine, inodes, prev, committed, lock, acked, faults>>
  BY DEF dropUncommittedFile
<1>8. StoreTypes'
  BY <1>1, <1>4, <1>6, <1>7 DEF StoreTypes
<1>9. Sound(n)
  BY <1>2, <1>3 DEF Sound
<1>10. DirsSound'
  BY <1>1, <1>4, <1>7, <1>9, StateAdded
<1>11. n.head.size = 0
  BY <1>3 DEF Head0
<1>12. op'.event > 0 => \A d \in States' : \A i \in 1..d.head.size : data'[i].event < op'.event
  BY <1>1, <1>4, <1>5, <1>7, <1>11 DEF OpInv
<1>13. OpInv'
  BY <1>1, <1>3, <1>4, <1>5, <1>7, <1>12 DEF OpInv, Reading, Creating, Writing
<1>14. QED
  BY <1>8, <1>10, <1>13 DEF StoreInv

(* The directory is synced, and the operation goes on to compare or write. *)
LEMMA SyncNext ==
  ASSUME StoreInv, dropSync \/ genesisSync
  PROVE  StoreInv'
<1>1. StoreTypes /\ DirsSound /\ OpInv
  BY DEF StoreInv
<1>2. fsyncDirectory /\ UNCHANGED <<data, synced, quarantine, inodes, prev, committed, lock, acked, faults>>
  BY DEF dropSync, genesisSync
<1>3. dir' = dir /\ States' = {dir} /\ dirs' \in Seq(Dirs) /\ Len(dirs') = 1 /\ dir \in Dirs /\ dir \in States
  BY <1>1, <1>2, DirSynced, DirNow
<1>4. PICK l \in {"compare", "write"} :
        goto(l) /\ (IF l = "compare" THEN op.at = "dropSync" ELSE op.at = "genesisSync")
  BY DEF dropSync, genesisSync
<1>5. op'.at = l /\ op'.event = op.event /\ op'.target = op.target
  BY <1>1, <1>4, OpMoves
<1>6. op' \in [at : {"none", "publishSync"} \cup Reading \cup Creating \cup Writing, event : Int, target : Heads]
  BY <1>1, <1>4, OpTyped DEF Reading, Writing
<1>7. StoreTypes'
  BY <1>1, <1>2, <1>3, <1>6 DEF StoreTypes
<1>8. DirsSound'
  BY <1>1, <1>2, <1>3, StatesKept
<1>9. Sound(dir) /\ Len(<<>>) = 0
  BY <1>1, <1>3 DEF DirsSound
<1>10. CASE l = "compare"
  <2>1. dir.head = Head0 /\ dir.head.size = 0 /\ Len(data) = 0
    BY <1>1, <1>4, <1>9, <1>10 DEF OpInv, Sound, Head0
  <2>2. OpInv'
    BY <1>1, <1>2, <1>3, <1>4, <1>5, <1>10, <2>1 DEF OpInv, Reading, Creating, Writing
  <2>3. QED
    BY <1>7, <1>8, <2>2 DEF StoreInv
<1>11. CASE l = "write"
  <2>1. dir.head = [ino |-> dir.ino, size |-> 0, last |-> 0] /\ dir.ino # 0 /\ data = <<>> /\ op.event > 0 /\ prev[op.event] = 0
    BY <1>1, <1>4, <1>11 DEF OpInv, Creating
  <2>2. dir.head # Head0 /\ dir.head.size = 0 /\ dir.head.last = 0 /\ Len(data) = 0
    BY <1>9, <2>1 DEF Head0
  <2>3. OpInv'
    BY <1>1, <1>2, <1>3, <1>4, <1>5, <1>11, <2>1, <2>2 DEF OpInv, Reading, Creating, Writing
  <2>4. QED
    BY <1>7, <1>8, <2>3 DEF StoreInv
<1>12. QED
  BY <1>10, <1>11

(* quarantineReplayLedgerSuffix saves what truncate will cut off. *)
LEMMA QuarantineNext ==
  ASSUME StoreInv, quarantineSuffix
  PROVE  StoreInv'
<1>1. StoreTypes /\ DirsSound /\ OpInv
  BY DEF StoreInv
<1>2. /\ fsyncDirectory /\ UNCHANGED <<data, synced, inodes, prev, committed, lock, acked, faults>>
      /\ op.at = "read" /\ dir.head.size < Len(data)
      /\ SubSeq(data, dir.head.size + 1, Len(data)) \in quarantine'
  BY DEF quarantineSuffix
<1>3. dir' = dir /\ States' = {dir} /\ dirs' \in Seq(Dirs) /\ Len(dirs') = 1 /\ dir \in Dirs /\ dir \in States
  BY <1>1, <1>2, DirSynced, DirNow
<1>4. op'.at = "truncate" /\ op'.event = op.event /\ op'.target = op.target
  BY <1>1, OpMoves DEF quarantineSuffix
<1>5. op' \in [at : {"none", "publishSync"} \cup Reading \cup Creating \cup Writing, event : Int, target : Heads]
  BY <1>1, OpTyped DEF quarantineSuffix, Reading
<1>6. StoreTypes'
  BY <1>1, <1>2, <1>3, <1>5 DEF StoreTypes
<1>7. DirsSound'
  BY <1>1, <1>2, <1>3, StatesKept
<1>8. dir.head.size \in Nat /\ Len(data) \in Nat
  BY <1>1, DirNow DEF StoreTypes
<1>9. OpInv'
  BY <1>1, <1>2, <1>3, <1>4, <1>8 DEF OpInv, Reading, Creating, Writing
<1>10. QED
  BY <1>6, <1>7, <1>9 DEF StoreInv

(* truncate and the fsync after it leave the committed prefix. *)
LEMMA TruncateNext ==
  ASSUME StoreInv, truncate \/ truncateSync
  PROVE  StoreInv'
<1>1. StoreTypes /\ DirsSound /\ OpInv /\ Len(data) \in Nat /\ Len(synced) \in Nat /\ Len(<<>>) = 0
  BY DEF StoreInv, StoreTypes
<1>2. dir \in Dirs /\ dir \in States /\ Sound(dir) /\ dir.head.size \in Nat /\ Len(dirs) = 1 /\ States = {dir}
  BY <1>1, DirNow DEF truncate, truncateSync, DirsSound, Dirs, Heads, OpInv, Reading
<1>3. /\ dir.head.size <= Len(data) /\ dir.head.size <= Len(synced)
      /\ \A i \in 1..dir.head.size : synced[i] = data[i]
      /\ dir.head = Head0 => data = <<>> /\ synced = <<>> /\ dir.head.size = 0
  <2>1. CASE dir.head = Head0
    <3>1. dir.head.size = 0 /\ data = <<>> /\ synced = <<>>
      BY <1>2, <2>1 DEF Sound, Head0
    <3>2. QED
      BY <1>1, <3>1
  <2>2. CASE dir.head # Head0
    BY <1>2, <2>2 DEF Sound, Commits
  <2>3. QED
    BY <2>1, <2>2
<1>4. CASE truncate
  <2>1. /\ op.at = "truncate" /\ data' = SubSeq(data, 1, dir.head.size)
        /\ UNCHANGED <<dirs, synced, quarantine, inodes, prev, committed, lock, acked, faults>>
    BY <1>4 DEF truncate
  <2>2. data' \in Seq(Halves) /\ Len(data') = dir.head.size /\ \A i \in 1..dir.head.size : data'[i] = data[i]
    BY <1>1, <1>2, <1>3, <2>1 DEF StoreTypes
  <2>3. dir' = dir /\ States' = States
    BY <2>1 DEF dir, States
  <2>4. op'.at = "truncateSync" /\ op'.event = op.event /\ op'.target = op.target
    BY <1>1, <1>4, OpMoves DEF truncate
  <2>5. op' \in [at : {"none", "publishSync"} \cup Reading \cup Creating \cup Writing, event : Int, target : Heads]
    BY <1>1, <1>4, OpTyped DEF truncate, Reading
  <2>6. StoreTypes'
    BY <1>1, <2>1, <2>2, <2>5 DEF StoreTypes
  <2>7. dir.head = Head0 => data' = <<>> /\ synced' = <<>>
    BY <1>3, <2>1, <2>2, EmptySeq
  <2>8. synced' \in Seq(Halves) /\ dir.head.size <= Len(data')
    BY <1>1, <1>2, <2>1, <2>2 DEF StoreTypes
  <2>9. DirsSound'
    BY <1>1, <1>2, <1>3, <2>1, <2>2, <2>3, <2>7, <2>8, BytesChanged
  <2>10. OpInv'
    BY <1>1, <1>2, <2>1, <2>2, <2>3, <2>4 DEF OpInv, Reading, Creating, Writing
  <2>11. QED
    BY <2>6, <2>9, <2>10 DEF StoreInv
<1>5. CASE truncateSync
  <2>1. /\ op.at = "truncateSync" /\ synced' = data /\ fsyncDirectory
        /\ UNCHANGED <<data, quarantine, inodes, prev, committed, lock, acked, faults>>
    BY <1>5 DEF truncateSync
  <2>2. dir' = dir /\ States' = {dir} /\ dirs' \in Seq(Dirs) /\ Len(dirs') = 1
    BY <1>1, <2>1, DirSynced
  <2>3. op'.at = "compare" /\ op'.event = op.event /\ op'.target = op.target
    BY <1>1, <1>5, OpMoves DEF truncateSync
  <2>4. op' \in [at : {"none", "publishSync"} \cup Reading \cup Creating \cup Writing, event : Int, target : Heads]
    BY <1>1, <1>5, OpTyped DEF truncateSync, Reading
  <2>5. StoreTypes'
    BY <1>1, <2>1, <2>2, <2>4 DEF StoreTypes
  <2>6. data' \in Seq(Halves) /\ synced' \in Seq(Halves)
    BY <1>1, <2>1 DEF StoreTypes
  <2>7. DirsSound'
    BY <1>1, <1>2, <1>3, <2>1, <2>2, <2>6, BytesChanged
  <2>8. OpInv'
    BY <1>1, <1>2, <2>1, <2>2, <2>3 DEF OpInv, Reading, Creating, Writing
  <2>9. QED
    BY <2>5, <2>7, <2>8 DEF StoreInv
<1>6. QED
  BY <1>4, <1>5

(* readVerified finds nothing to do. *)
LEMMA ReadNext ==
  ASSUME StoreInv, readClean
  PROVE  StoreInv'
<1>1. StoreTypes /\ DirsSound /\ OpInv /\ Len(<<>>) = 0
  BY DEF StoreInv
<1>2. /\ UNCHANGED <<dirs, data, synced, quarantine, inodes, prev, committed, lock, acked, faults>>
      /\ op.at = "read" /\ (dir.ino = 0 \/ (dir.head # Head0 /\ dir.head.size = Len(data)))
  BY DEF readClean, disk
<1>3. dir' = dir /\ States' = States /\ dir \in States /\ Sound(dir)
  BY <1>1, <1>2, DirNow DEF dir, States, DirsSound
<1>4. op'.at = "compare" /\ op'.event = op.event /\ op'.target = op.target
  BY <1>1, OpMoves DEF readClean
<1>5. op' \in [at : {"none", "publishSync"} \cup Reading \cup Creating \cup Writing, event : Int, target : Heads]
  BY <1>1, OpTyped DEF readClean, Reading
<1>6. StoreTypes'
  BY <1>1, <1>2, <1>5 DEF StoreTypes
<1>7. DirsSound'
  BY <1>1, <1>2, <1>3, StatesKept
<1>8. Len(data) = dir.head.size
  <2>1. CASE dir.head = Head0
    <3>1. data = <<>> /\ dir.head.size = 0
      BY <1>3, <2>1 DEF Sound, Head0
    <3>2. QED
      BY <1>1, <3>1
  <2>2. CASE dir.head # Head0
    BY <1>2, <1>3, <2>2 DEF Sound
  <2>3. QED
    BY <2>1, <2>2
<1>9. OpInv'
  BY <1>1, <1>2, <1>3, <1>4, <1>8 DEF OpInv, Reading, Creating, Writing
<1>10. QED
  BY <1>6, <1>7, <1>9 DEF StoreInv

(* The expected-head CAS: an append goes on only below the head that its   *)
(* event is chained to.                                                    *)
LEMMA CompareNext ==
  ASSUME StoreInv, compare
  PROVE  StoreInv'
<1>1. StoreTypes /\ DirsSound /\ OpInv
  BY DEF StoreInv
<1>2. UNCHANGED <<dirs, data, synced, quarantine, inodes, prev, acked, faults>> /\ op.at = "compare"
  BY DEF compare, disk
<1>3. dir' = dir /\ States' = States /\ dir \in States /\ Sound(dir) /\ dir.head \in Heads
  BY <1>1, <1>2, DirNow DEF dir, States, DirsSound
<1>4. lock \in Managers
  BY <1>1, <1>2 DEF OpInv
<1>5. DirsSound'
  BY <1>1, <1>2, <1>3, StatesKept
<1>6. CASE finish
  <2>1. committed' = committed \/ committed' = [committed EXCEPT ![lock] = dir.head]
    <3>1. op' # [op EXCEPT !.at = "create"] /\ op' # [op EXCEPT !.at = "write"]
      <4>1. op'.at = "none"
        BY <1>6 DEF finish, NoOp
      <4>2. [op EXCEPT !.at = "create"].at = "create" /\ [op EXCEPT !.at = "write"].at = "write"
        BY <1>1 DEF StoreTypes
      <4>3. QED
        BY <4>1, <4>2
    <3>2. QED
      BY <3>1 DEF compare, goto
  <2>2. committed' \in [Managers -> Heads]
    BY <1>1, <1>3, <1>4, <2>1 DEF StoreTypes
  <2>3. StoreTypes'
    BY <1>1, <1>2, <1>6, <2>2, OpFinished DEF StoreTypes
  <2>4. QED
    BY <1>5, <1>6, <2>3, OpFinished DEF StoreInv
<1>7. CASE ~finish
  <2>1. op.event > 0 /\ dir.head = op.target /\ UNCHANGED <<lock, committed>> /\ goto(IF dir.head.ino = 0 THEN "create" ELSE "write")
    BY <1>7 DEF compare
  <2>2. PICK l \in {"create", "write"} : goto(l) /\ (l = "create" <=> dir.head.ino = 0)
    BY <2>1
  <2>3. op'.at = l /\ op'.event = op.event /\ op'.target = op.target
    BY <1>1, <2>2, OpMoves
  <2>4. op' \in [at : {"none", "publishSync"} \cup Reading \cup Creating \cup Writing, event : Int, target : Heads]
    BY <1>1, <2>2, OpTyped DEF Creating, Writing
  <2>5. StoreTypes'
    BY <1>1, <1>2, <2>1, <2>4 DEF StoreTypes
  <2>6. dir.head.ino = 0 <=> dir.head = Head0
    BY <1>3 DEF Sound, Head0
  <2>7. prev[op.event] = dir.head.last
    BY <1>1, <1>2, <2>1 DEF OpInv, Reading
  <2>8. dir.head = Head0 => dir.head.last = 0
    BY DEF Head0
  <2>9. OpInv'
    BY <1>1, <1>2, <1>3, <2>1, <2>2, <2>3, <2>6, <2>7, <2>8 DEF OpInv, Reading, Creating, Writing
  <2>10. QED
    BY <1>5, <2>5, <2>9 DEF StoreInv
<1>8. QED
  BY <1>6, <1>7

(* initializeGenesis creates the ledger. *)
LEMMA CreateNext ==
  ASSUME StoreInv, createLedger
  PROVE  StoreInv'
<1>1. StoreTypes /\ DirsSound /\ OpInv
  BY DEF StoreInv
<1>2. /\ op.at = "create" /\ inodes' = inodes + 1 /\ data' = <<>> /\ synced' = <<>>
      /\ UNCHANGED <<quarantine, prev, committed, lock, acked, faults>>
  BY DEF createLedger
<1>3. PICK t \in Heads : t = [ino |-> inodes + 1, size |-> 0, last |-> 0]
  <2>1. inodes + 1 \in Nat
    BY <1>1 DEF StoreTypes
  <2>2. [ino |-> inodes + 1, size |-> 0, last |-> 0] \in Heads
    BY <2>1 DEF Heads
  <2>3. QED
    BY <2>2
<1>4. op' = [op EXCEPT !.at = "publishGenesis", !.target = t]
  BY <1>2, <1>3 DEF createLedger
<1>5. op'.at = "publishGenesis" /\ op'.event = op.event /\ op'.target = t
  BY <1>1, <1>4 DEF StoreTypes
<1>6. op' \in [at : {"none", "publishSync"} \cup Reading \cup Creating \cup Writing, event : Int, target : Heads]
  BY <1>1, <1>3, <1>4 DEF StoreTypes, Creating
<1>7. Len(dirs) = 1 /\ dir.head = Head0 /\ op.event > 0 /\ prev[op.event] = 0
  BY <1>1, <1>2 DEF OpInv, Creating
<1>8. dir \in Dirs /\ States = {dir} /\ Sound(dir)
  BY <1>1, <1>7, DirNow DEF DirsSound
<1>9. PICK n \in Dirs : n = [dir EXCEPT !.ino = inodes + 1] /\ n.head = Head0 /\ n.ino = inodes + 1
  <2>1. [dir EXCEPT !.ino = inodes + 1] \in Dirs
    <3>1. inodes + 1 \in Nat
      BY <1>1 DEF StoreTypes
    <3>2. QED
      BY <1>8, <3>1 DEF Dirs
  <2>2. [dir EXCEPT !.ino = inodes + 1].head = Head0 /\ [dir EXCEPT !.ino = inodes + 1].ino = inodes + 1
    BY <1>7, <1>8 DEF Dirs
  <2>3. QED
    BY <2>1, <2>2
<1>10. dir' = n /\ States' = {dir, n} /\ dirs' \in Seq(Dirs) /\ Len(dirs') = 2
  <2>1. changeDir(n)
    BY <1>2, <1>9 DEF createLedger
  <2>2. QED
    BY <1>1, <1>7, <1>8, <2>1, DirChanged
<1>11. <<>> \in Seq(Halves) /\ inodes + 1 \in Nat
  BY <1>1 DEF StoreTypes
<1>12. StoreTypes'
  BY <1>1, <1>2, <1>6, <1>10, <1>11 DEF StoreTypes
<1>13. acked = {}
  BY <1>7, <1>8 DEF Sound
<1>14. DirsSound'
  <2>1. ASSUME NEW d \in States' PROVE Sound(d)'
    <3>1. d.head = Head0
      BY <1>7, <1>9, <1>10
    <3>2. QED
      BY <1>2, <1>13, <3>1 DEF Sound
  <2>2. QED
    BY <2>1 DEF DirsSound
<1>15. \A d \in States' : d.head.size = 0
  <2>1. Head0.size = 0
    BY DEF Head0
  <2>2. QED
    BY <1>7, <1>9, <1>10, <2>1
<1>16. n.ino # 0 /\ t = [ino |-> n.ino, size |-> 0, last |-> 0]
  BY <1>1, <1>3, <1>9 DEF StoreTypes
<1>17. OpInv'
  BY <1>1, <1>2, <1>5, <1>7, <1>9, <1>10, <1>15, <1>16 DEF OpInv, Reading, Creating, Writing
<1>18. QED
  BY <1>12, <1>14, <1>17 DEF StoreInv

(* publishHead: the new head commits what is on disk. *)
LEMMA PublishNext ==
  ASSUME StoreInv, publishHead("publishGenesis", "genesisSync") \/ publishHead("publish", "publishSync")
  PROVE  StoreInv'
<1>1. StoreTypes /\ DirsSound /\ OpInv /\ Len(data) \in Nat
  BY DEF StoreInv, StoreTypes
<1>2. UNCHANGED <<data, synced, quarantine, inodes, prev, committed, lock, acked, faults>>
  BY DEF publishHead
<1>3. dir \in Dirs /\ dir \in States /\ Sound(dir) /\ op.target \in Heads /\ dir.head \in Heads /\ dir.head.size \in Nat
  BY <1>1, DirNow DEF DirsSound, StoreTypes
<1>4. PICK n \in Dirs : n = [dir EXCEPT !.head = op.target] /\ n.head = op.target /\ n.ino = dir.ino
  <2>1. [dir EXCEPT !.head = op.target] \in Dirs
    BY <1>3 DEF Dirs
  <2>2. [dir EXCEPT !.head = op.target].head = op.target /\ [dir EXCEPT !.head = op.target].ino = dir.ino
    BY <1>3 DEF Dirs
  <2>3. QED
    BY <2>1, <2>2
<1>5. dir' = n /\ States' = States \cup {n} /\ dirs' \in Seq(Dirs) /\ Len(dirs') = Len(dirs) + 1 /\ Len(dirs) \in Nat
  <2>1. changeDir(n) /\ Len(dirs) \in Nat
    BY <1>1, <1>4 DEF publishHead, StoreTypes
  <2>2. QED
    BY <1>1, <2>1, DirChanged
<1>6. CASE publishHead("publishGenesis", "genesisSync")
  <2>1. op.at = "publishGenesis" /\ op'.at = "genesisSync" /\ op'.event = op.event /\ op'.target = op.target
    BY <1>1, <1>6, OpMoves DEF publishHead
  <2>2. op' \in [at : {"none", "publishSync"} \cup Reading \cup Creating \cup Writing, event : Int, target : Heads]
    BY <1>1, <1>6, OpTyped DEF publishHead, Creating
  <2>3. StoreTypes'
    BY <1>1, <1>2, <1>5, <2>2 DEF StoreTypes
  <2>4. dir.head = Head0 /\ dir.ino # 0 /\ op.target = [ino |-> dir.ino, size |-> 0, last |-> 0] /\ op.event > 0 /\ prev[op.event] = 0
    BY <1>1, <2>1 DEF OpInv, Creating
  <2>5. data = <<>> /\ synced = <<>> /\ acked = {} /\ Len(<<>>) = 0
    BY <1>3, <2>4 DEF Sound
  <2>6. n.head.ino = dir.ino /\ n.head.size = 0 /\ n.head.last = 0
    BY <1>4, <2>4
  <2>7. Commits(n.head)
    <3>1. 0 \in 0..Len(data) /\ n.head.size = 2 * 0 /\ 1..n.head.size = {} /\ 1..0 = {}
      BY <2>5, <2>6
    <3>2. QED
      BY <2>5, <2>6, <3>1 DEF Commits
  <2>8. Sound(n)
    BY <1>4, <2>4, <2>5, <2>6, <2>7 DEF Sound, Head0
  <2>9. DirsSound'
    BY <1>1, <1>2, <1>5, <2>8, StateAdded
  <2>10. op'.event > 0 => \A d \in States' : \A i \in 1..d.head.size : data'[i].event < op'.event
    BY <1>1, <1>2, <1>5, <2>1, <2>6 DEF OpInv
  <2>11. OpInv'
    BY <1>1, <1>2, <1>4, <1>5, <2>1, <2>4, <2>5, <2>10 DEF OpInv, Reading, Creating, Writing
  <2>12. QED
    BY <2>3, <2>9, <2>11 DEF StoreInv
<1>7. CASE publishHead("publish", "publishSync")
  <2>1. op.at = "publish" /\ op'.at = "publishSync" /\ op'.event = op.event /\ op'.target = op.target
    BY <1>1, <1>7, OpMoves DEF publishHead
  <2>2. op' \in [at : {"none", "publishSync"} \cup Reading \cup Creating \cup Writing, event : Int, target : Heads]
    BY <1>1, <1>7, OpTyped DEF publishHead
  <2>3. StoreTypes'
    BY <1>1, <1>2, <1>5, <2>2 DEF StoreTypes
  <2>4. /\ dir.head # Head0 /\ prev[op.event] = dir.head.last /\ op.event > 0 /\ op.event = Len(prev) /\ synced = data
        /\ Len(data) = dir.head.size + 2 /\ data[Len(data)] = [event |-> op.event, half |-> 2]
        /\ data[dir.head.size + 1] = [event |-> op.event, half |-> 1]
        /\ op.target = [ino |-> dir.ino, size |-> Len(data), last |-> op.event]
        /\ \A i \in 1..dir.head.size : data[i].event < op.event
    BY <1>1, <1>3, <2>1 DEF OpInv, Writing
  <2>5. n.head.ino = dir.ino /\ n.head.size = dir.head.size + 2 /\ n.head.last = op.event
    BY <1>4, <2>4
  <2>6. op.event \in 1..Len(prev)
    BY <1>1, <2>4 DEF StoreTypes
  <2>7. Commits(dir.head) /\ dir.ino # 0
    BY <1>3, <2>4 DEF Sound
  <2>8. Commits(n.head)
    <3>1. PICK h \in Heads : h = dir.head
      BY <1>3
    <3>2. PICK g \in Heads : g = n.head
      BY <1>3, <1>4
    <3>3. PICK e \in 1..Len(prev) : e = op.event
      BY <2>6
    <3>4. Commits(g)
      BY <1>1, <2>4, <2>5, <2>7, <3>1, <3>2, <3>3, CommitsMore
    <3>5. QED
      BY <3>2, <3>4
  <2>9. \A e \in acked : \E i \in 1..n.head.size : data[i].event = e
    BY <1>3, <2>4, <2>5 DEF Sound
  <2>10. n.head # Head0
    BY <2>5, <2>7 DEF Head0
  <2>11. Sound(n)
    BY <1>4, <2>5, <2>7, <2>8, <2>9, <2>10 DEF Sound
  <2>12. DirsSound'
    BY <1>1, <1>2, <1>5, <2>11, StateAdded
  <2>13. \E i \in 1..n.head.size : data[i].event = op.event
    <3>1. Len(data) \in 1..n.head.size /\ data[Len(data)].event = op.event
      BY <1>1, <1>3, <2>4, <2>5
    <3>2. QED
      BY <3>1
  <2>14. OpInv'
    BY <1>1, <1>2, <1>5, <2>1, <2>4, <2>10, <2>13 DEF OpInv, Reading, Creating, Writing
  <2>15. QED
    BY <2>3, <2>12, <2>14 DEF StoreInv
<1>8. QED
  BY <1>6, <1>7

(* The line is written below the committed prefix, and synced. *)
LEMMA WriteNext ==
  ASSUME StoreInv, writeHalf \/ fsyncLedger
  PROVE  StoreInv'
<1>1. StoreTypes /\ DirsSound /\ OpInv /\ Len(data) \in Nat /\ data \in Seq(Halves) /\ op.event \in Int
  BY DEF StoreInv, StoreTypes
<1>2. UNCHANGED <<dirs, quarantine, inodes, prev, committed, lock, acked, faults>> /\ op.at \in {"write", "write2", "fsync"}
  BY DEF writeHalf, fsyncLedger
<1>3. dir' = dir /\ States' = States
  BY <1>2 DEF dir, States
<1>4. Len(dirs) = 1 /\ dir.head # Head0 /\ prev[op.event] = dir.head.last /\ op.event > 0
  BY <1>1, <1>2 DEF OpInv, Writing
<1>5. dir \in Dirs /\ States = {dir} /\ Sound(dir) /\ dir.head \in Heads /\ dir.head.size \in Nat /\ dir.ino \in Nat
  BY <1>1, <1>4, DirNow DEF DirsSound
<1>6. dir.head.size <= Len(data) /\ dir.head.size <= Len(synced) /\ \A i \in 1..dir.head.size : synced[i] = data[i]
  BY <1>4, <1>5 DEF Sound, Commits
<1>7. CASE writeHalf
  <2>1. PICK b \in Halves : data' = Append(data, b) /\ b = [event |-> op.event, half |-> IF op.at = "write" THEN 1 ELSE 2]
    <3>1. PICK x \in {1, 2} : x = IF op.at = "write" THEN 1 ELSE 2
      OBVIOUS
    <3>2. line(op.event)[x] = [event |-> op.event, half |-> x]
      BY DEF line
    <3>3. [event |-> op.event, half |-> x] \in Halves
      BY <1>1 DEF Halves
    <3>4. data' = Append(data, line(op.event)[x])
      BY <1>7, <3>1 DEF writeHalf
    <3>5. QED
      BY <3>1, <3>2, <3>3, <3>4
  <2>2. /\ data' \in Seq(Halves) /\ Len(data') = Len(data) + 1 /\ data'[Len(data) + 1] = b
        /\ \A i \in 1..Len(data) : data'[i] = data[i]
    BY <1>1, <2>1
  <2>3. synced' = synced /\ synced' \in Seq(Halves) /\ \A i \in 1..dir.head.size : data'[i] = data[i]
    BY <1>1, <1>5, <1>6, <1>7, <2>2 DEF writeHalf, StoreTypes
  <2>4. dir.head.size <= Len(data')
    BY <1>1, <1>5, <1>6, <2>2
  <2>5. DirsSound'
    BY <1>1, <1>2, <1>3, <1>4, <1>5, <1>6, <2>2, <2>3, <2>4, BytesChanged
  <2>6. CASE op.at = "write"
    <3>1. op' = [op EXCEPT !.at = "write2"]
      BY <1>7, <2>6 DEF writeHalf
    <3>2. op'.at = "write2" /\ op'.event = op.event
      BY <1>1, <3>1 DEF StoreTypes
    <3>3. op' \in [at : {"none", "publishSync"} \cup Reading \cup Creating \cup Writing, event : Int, target : Heads]
      BY <1>1, <3>1 DEF StoreTypes, Writing
    <3>4. StoreTypes'
      BY <1>1, <1>2, <2>2, <2>3, <3>3 DEF StoreTypes
    <3>5. Len(data) = dir.head.size /\ b = [event |-> op.event, half |-> 1]
      BY <1>1, <2>1, <2>6 DEF OpInv
    <3>6. \A d \in States' : \A i \in 1..d.head.size : data'[i].event < op'.event
      BY <1>1, <1>3, <1>4, <1>5, <2>3, <2>6, <3>2 DEF OpInv
    <3>7. OpInv'
      BY <1>1, <1>2, <1>3, <1>4, <2>2, <3>2, <3>5, <3>6 DEF OpInv, Reading, Creating, Writing
    <3>8. QED
      BY <2>5, <3>4, <3>7 DEF StoreInv
  <2>7. CASE op.at = "write2"
    <3>1. PICK t \in Heads : t = [ino |-> dir.ino, size |-> Len(data'), last |-> op.event]
      <4>1. [ino |-> dir.ino, size |-> Len(data'), last |-> op.event] \in Heads
        BY <1>1, <1>5, <2>2 DEF Heads
      <4>2. QED
        BY <4>1
    <3>2. op' = [op EXCEPT !.at = "fsync", !.target = t]
      BY <1>7, <2>7, <3>1 DEF writeHalf
    <3>3. op'.at = "fsync" /\ op'.event = op.event /\ op'.target = t
      BY <1>1, <3>2 DEF StoreTypes
    <3>4. op' \in [at : {"none", "publishSync"} \cup Reading \cup Creating \cup Writing, event : Int, target : Heads]
      BY <1>1, <3>1, <3>2 DEF StoreTypes, Writing
    <3>5. StoreTypes'
      BY <1>1, <1>2, <2>2, <2>3, <3>4 DEF StoreTypes
    <3>6. Len(data) = dir.head.size + 1 /\ data[dir.head.size + 1] = [event |-> op.event, half |-> 1] /\ b = [event |-> op.event, half |-> 2]
      BY <1>1, <2>1, <2>7 DEF OpInv
    <3>7. Len(data') = dir.head.size + 2 /\ data'[dir.head.size + 1] = [event |-> op.event, half |-> 1] /\ data'[Len(data')] = [event |-> op.event, half |-> 2]
      <4>1. PICK x \in 1..Len(data) : x = dir.head.size + 1 /\ x = Len(data)
        BY <1>5, <3>6
      <4>2. data'[x] = data[x] /\ Len(data') = x + 1 /\ data'[x + 1] = b
        BY <2>2, <4>1
      <4>3. Len(data') = dir.head.size + 2
        BY <1>5, <4>1, <4>2
      <4>4. QED
        BY <3>6, <4>1, <4>2, <4>3
    <3>8. \A d \in States' : \A i \in 1..d.head.size : data'[i].event < op'.event
      BY <1>1, <1>3, <1>4, <1>5, <2>3, <2>7, <3>3 DEF OpInv
    <3>9. OpInv'
      BY <1>1, <1>2, <1>3, <1>4, <3>1, <3>3, <3>7, <3>8 DEF OpInv, Reading, Creating, Writing
    <3>10. QED
      BY <2>5, <3>5, <3>9 DEF StoreInv
  <2>8. QED
    BY <1>7, <2>6, <2>7 DEF writeHalf
<1>8. CASE fsyncLedger
  <2>1. op.at = "fsync" /\ data' = data /\ synced' = data /\ goto("publish")
    BY <1>8 DEF fsyncLedger
  <2>2. op'.at = "publish" /\ op'.event = op.event /\ op'.target = op.target
    BY <1>1, <2>1, OpMoves
  <2>3. op' \in [at : {"none", "publishSync"} \cup Reading \cup Creating \cup Writing, event : Int, target : Heads]
    BY <1>1, <2>1, OpTyped DEF Writing
  <2>4. StoreTypes'
    BY <1>1, <1>2, <2>1, <2>3 DEF StoreTypes
  <2>5. DirsSound'
    BY <1>1, <1>2, <1>3, <1>4, <1>5, <1>6, <2>1, BytesChanged
  <2>6. OpInv'
    BY <1>1, <1>2, <1>3, <2>1, <2>2 DEF OpInv, Reading, Creating, Writing
  <2>7. QED
    BY <2>4, <2>5, <2>6 DEF StoreInv
<1>9. QED
  BY <1>7, <1>8

(* append() returns: the head on disk commits the event. *)
LEMMA AckNext ==
  ASSUME StoreInv, publishSync
  PROVE  StoreInv'
<1>1. StoreTypes /\ DirsSound /\ OpInv
  BY DEF StoreInv
<1>2. /\ op.at = "publishSync" /\ fsyncDirectory /\ finish
      /\ committed' = [committed EXCEPT ![lock] = op.target] /\ acked' = acked \union {op.event}
      /\ UNCHANGED <<data, synced, quarantine, inodes, prev, faults>>
  BY DEF publishSync
<1>3. dir' = dir /\ States' = {dir} /\ dirs' \in Seq(Dirs) /\ Len(dirs') = 1 /\ dir \in Dirs /\ Sound(dir)
  BY <1>1, <1>2, DirSynced, DirNow DEF DirsSound
<1>4. /\ lock \in Managers /\ op.event > 0 /\ op.event = Len(prev) /\ dir.head # Head0
      /\ \E i \in 1..dir.head.size : data[i].event = op.event
  BY <1>1, <1>2 DEF OpInv
<1>5. committed' \in [Managers -> Heads] /\ op.event \in 1..Len(prev)
  BY <1>1, <1>2, <1>4 DEF StoreTypes
<1>6. StoreTypes'
  <2>1. acked' \subseteq 1..Len(prev')
    BY <1>1, <1>2, <1>5 DEF StoreTypes
  <2>2. Len(dirs') >= 1
    BY <1>3
  <2>3. UNCHANGED <<data, synced, inodes, prev>>
    BY <1>2
  <2>4. op' \in [at : {"none", "publishSync"} \cup Reading \cup Creating \cup Writing, event : Int, target : Heads]
    BY <1>2, OpFinished
  <2>5. QED
    BY <1>1, <1>3, <1>5, <2>1, <2>2, <2>3, <2>4 DEF StoreTypes
<1>7. DirsSound'
  <2>1. PICK d \in Dirs : d = dir
    BY <1>3
  <2>2. Commits(d.head)' <=> Commits(d.head)
    BY <1>2 DEF Commits, LineOf
  <2>3. \A e \in acked' : \E i \in 1..d.head.size : data'[i].event = e
    BY <1>2, <1>3, <1>4, <2>1 DEF Sound
  <2>4. Sound(d)'
    BY <1>3, <1>4, <2>1, <2>2, <2>3 DEF Sound
  <2>5. QED
    BY <1>3, <2>1, <2>4 DEF DirsSound
<1>8. QED
  BY <1>2, <1>6, <1>7, OpFinished DEF StoreInv

(* A call fails, or the process dies. *)
LEMMA FailNext ==
  ASSUME StoreInv, fail
  PROVE  StoreInv'
<1>1. StoreTypes /\ DirsSound /\ OpInv
  BY DEF StoreInv
<1>2. finish /\ lock # "none" /\ UNCHANGED <<data, synced, quarantine, inodes, prev, acked>>
  BY DEF fail
<1>3. dirs' \in Seq(Dirs) /\ Len(dirs') >= 1 /\ States' \subseteq States
  <2>1. CASE fsyncDirectory
    <3>1. dirs' \in Seq(Dirs) /\ Len(dirs') = 1 /\ States' = {dir} /\ dir \in States
      BY <1>1, <2>1, DirSynced, DirNow
    <3>2. QED
      BY <3>1
  <2>2. CASE dirs' = dirs
    BY <1>1, <2>2 DEF StoreTypes, States
  <2>3. QED
    BY <2>1, <2>2 DEF fail
<1>4. Closed \in Heads
  BY DEF Closed, Heads
<1>5. committed' \in [Managers -> Heads]
  BY <1>1, <1>4 DEF StoreTypes, fail
<1>6. StoreTypes'
  BY <1>1, <1>2, <1>3, <1>5, OpFinished DEF StoreTypes
<1>7. DirsSound'
  BY <1>1, <1>2, <1>3, StatesKept
<1>8. QED
  BY <1>2, <1>6, <1>7, OpFinished DEF StoreInv

(* Power fails: what a head commits is in the ledger as synced and as      *)
(* seen, so it is in whatever is left.                                     *)
LEMMA PowerNext ==
  ASSUME StoreInv, powerLoss
  PROVE  StoreInv'
<1>1. StoreTypes /\ DirsSound /\ OpInv /\ Len(data) \in Nat /\ Len(synced) \in Nat /\ Len(<<>>) = 0 /\ <<>> \in Seq(Halves)
  BY DEF StoreInv, StoreTypes
<1>2. /\ finish /\ synced' = data' /\ UNCHANGED <<quarantine, inodes, prev, acked>>
      /\ committed' = [m \in Managers |-> Closed]
  BY DEF powerLoss
<1>3. PICK i \in DOMAIN dirs : dirs' = <<dirs[i]>>
  BY DEF powerLoss
<1>4. PICK d \in Dirs : d = dirs[i] /\ Sound(d)
  <2>1. dirs[i] \in States /\ dirs[i] \in Dirs
    BY <1>1, <1>3, DirNow DEF States
  <2>2. QED
    BY <1>1, <2>1 DEF DirsSound
<1>5. dirs' \in Seq(Dirs) /\ Len(dirs') = 1 /\ States' = {d} /\ dirs'[1] = d
  BY <1>3, <1>4 DEF States
<1>6. PICK long \in {data, synced}, short \in {data, synced}, n \in Nat :
        /\ n \in Len(short)..Len(long)
        /\ data' = IF d.ino = 0 THEN <<>> ELSE SubSeq(long, 1, n)
  <2>1. PICK long, short :
          /\ long = (IF Len(synced) > Len(data) THEN synced ELSE data)
          /\ short = (IF Len(synced) > Len(data) THEN data ELSE synced)
    OBVIOUS
  <2>2. \E n \in Len(short)..Len(long) : data' = IF d.ino = 0 THEN <<>> ELSE SubSeq(long, 1, n)
    BY <1>5, <2>1 DEF powerLoss
  <2>3. PICK n \in Len(short)..Len(long) : data' = IF d.ino = 0 THEN <<>> ELSE SubSeq(long, 1, n)
    BY <2>2
  <2>4. long \in {data, synced} /\ short \in {data, synced}
    BY <2>1
  <2>5. n \in Nat
    BY <1>1, <2>3, <2>4
  <2>6. QED
    BY <2>3, <2>4, <2>5
<1>7. long \in Seq(Halves) /\ n \in Nat /\ n <= Len(long) /\ Len(long) \in Nat /\ Len(short) \in Nat /\ Len(short) <= n
  BY <1>1, <1>6 DEF StoreTypes
<1>8. SubSeq(long, 1, n) \in Seq(Halves) /\ Len(SubSeq(long, 1, n)) = n /\ \A j \in 1..n : SubSeq(long, 1, n)[j] = long[j]
  BY <1>7
<1>9. data' \in Seq(Halves)
  BY <1>1, <1>6, <1>8
<1>10. Closed \in Heads
  BY DEF Closed, Heads
<1>11. StoreTypes'
  BY <1>1, <1>2, <1>5, <1>9, <1>10, OpFinished DEF StoreTypes
<1>12. d.head = Head0 => data' = <<>>
  <2>1. SUFFICES ASSUME d.head = Head0 PROVE data' = <<>>
    OBVIOUS
  <2>2. data = <<>> /\ synced = <<>>
    BY <1>4, <2>1 DEF Sound
  <2>3. n = 0
    BY <1>1, <1>6, <1>7, <2>2
  <2>4. SubSeq(long, 1, n) = <<>>
    BY <1>8, <2>3, EmptySeq
  <2>5. QED
    BY <1>6, <2>4
<1>13. d.head # Head0 => /\ d.head.size <= Len(data') /\ \A j \in 1..d.head.size : data'[j] = data[j]
  <2>1. SUFFICES ASSUME d.head # Head0
                 PROVE  d.head.size <= Len(data') /\ \A j \in 1..d.head.size : data'[j] = data[j]
    OBVIOUS
  <2>2. /\ d.ino # 0 /\ d.head.size <= Len(data) /\ d.head.size <= Len(synced)
        /\ \A j \in 1..d.head.size : data[j] = synced[j]
    BY <1>4, <2>1 DEF Sound, Commits
  <2>3. d.head.size \in Nat
    <3>1. d.head \in Heads
      BY DEF Dirs
    <3>2. QED
      BY <3>1 DEF Heads
  <2>4. d.head.size <= n
    BY <1>1, <1>6, <1>7, <2>2, <2>3
  <2>5. data' = SubSeq(long, 1, n)
    BY <1>6, <2>2
  <2>6. \A j \in 1..d.head.size : data'[j] = data[j]
    BY <1>6, <1>7, <1>8, <2>2, <2>3, <2>4, <2>5
  <2>7. QED
    BY <1>8, <2>4, <2>5, <2>6
<1>14. Sound(d)'
  <2>1. Len(prev) \in Nat
    BY <1>1 DEF StoreTypes
  <2>2. QED
    BY <1>1, <1>2, <1>4, <1>9, <1>12, <1>13, <2>1, SoundKept
<1>15. DirsSound'
  BY <1>5, <1>14 DEF DirsSound
<1>16. QED
  BY <1>2, <1>11, <1>15, OpFinished DEF StoreInv

(* The invariant holds when there is no ledger. *)
LEMMA StoreInit ==
  ASSUME Init
  PROVE  StoreInv
<1>1. /\ dirs = <<[ino |-> 0, head |-> Head0]>> /\ data = <<>> /\ synced = <<>> /\ inodes = 0 /\ prev = <<>> /\ acked = {}
      /\ committed = [m \in Managers |-> Closed] /\ lock = "none" /\ op = NoOp
  BY DEF Init
<1>2. Head0 \in Heads /\ Closed \in Heads
  BY DEF Head0, Closed, Heads
<1>3. PICK d \in Dirs : d = [ino |-> 0, head |-> Head0]
  BY <1>2 DEF Dirs
<1>4. dirs \in Seq(Dirs) /\ Len(dirs) = 1 /\ States = {d}
  BY <1>1, <1>3 DEF States
<1>5. op.at = "none" /\ op.event = 0 /\ op \in [at : {"none", "publishSync"} \cup Reading \cup Creating \cup Writing, event : Int, target : Heads]
  BY <1>1, <1>2 DEF NoOp
<1>6. StoreTypes
  BY <1>1, <1>2, <1>4, <1>5 DEF StoreTypes
<1>7. DirsSound
  BY <1>1, <1>3, <1>4 DEF DirsSound, Sound
<1>8. OpInv
  BY <1>1, <1>5 DEF OpInv, Reading, Creating, Writing
<1>9. QED
  BY <1>6, <1>7, <1>8 DEF StoreInv

(* Every state of the store satisfies the invariant. *)
LEMMA StoreAlways == Spec => []StoreInv
<1>1. Init => StoreInv
  BY StoreInit
<1>2. StoreInv /\ [Next]_vars => StoreInv'
  <2>1. SUFFICES ASSUME StoreInv, [Next]_vars PROVE StoreInv'
    OBVIOUS
  <2>2. CASE UNCHANGED vars
    <3>1. UNCHANGED <<dirs, data, synced, quarantine, inodes, prev, committed, lock, op, acked>>
      BY <2>2 DEF vars
    <3>2. UNCHANGED <<dir, States>>
      BY <3>1 DEF dir, States
    <3>3. StoreTypes' /\ OpInv'
      BY <2>1, <3>1, <3>2 DEF StoreInv, StoreTypes, OpInv
    <3>4. DirsSound'
      <4>1. ASSUME NEW d \in States PROVE Sound(d)'
        <5>1. Commits(d.head)' <=> Commits(d.head)
          BY <3>1 DEF Commits, LineOf
        <5>2. Sound(d)
          BY <2>1 DEF StoreInv, DirsSound
        <5>3. QED
          BY <3>1, <5>1, <5>2 DEF Sound
      <4>2. QED
        BY <3>2, <4>1 DEF DirsSound
    <3>5. QED
      BY <3>3, <3>4 DEF StoreInv
  <2>3. CASE Next
    BY <2>1, <2>3, StartNext, DropNext, SyncNext, QuarantineNext, TruncateNext, ReadNext, CompareNext,
       CreateNext, PublishNext, WriteNext, AckNext, FailNext, PowerNext DEF Next
  <2>4. QED
    BY <2>1, <2>2, <2>3
<1>3. QED
  BY <1>1, <1>2, PTL DEF Spec

(* What append() acknowledged is committed by the head on disk ever after, *)
(* whatever call fails, process dies or power is lost in between.          *)
THEOREM AcknowledgedEventsSurvive == Spec => []AcknowledgedSurvive
<1>1. StoreInv => AcknowledgedSurvive
  <2>1. SUFFICES ASSUME StoreInv PROVE AcknowledgedSurvive
    OBVIOUS
  <2>2. StoreTypes /\ Sound(dir) /\ dir.head \in Heads /\ Len(<<>>) = 0
    BY <2>1, DirNow DEF StoreInv, DirsSound
  <2>3. CASE dir.head = Head0
    <3>1. dir.head.size = 0 /\ data = <<>> /\ acked = {}
      BY <2>2, <2>3 DEF Sound, Head0
    <3>2. QED
      BY <2>2, <3>1 DEF AcknowledgedSurvive
  <2>4. CASE dir.head # Head0
    BY <2>2, <2>4 DEF Sound, Commits, AcknowledgedSurvive, events
  <2>5. QED
    BY <2>3, <2>4
<1>2. QED
  BY <1>1, StoreAlways, PTL

(* readVerified accepts whatever a failed call, a dead process or a power  *)
(* failure left: the store never refuses its own files.                    *)
THEOREM StoreReadsItself == Spec => []NeverRefusesItself
<1>1. StoreInv => NeverRefusesItself
  BY DirNow, SoundAccepted DEF StoreInv, DirsSound, NeverRefusesItself
<1>2. QED
  BY <1>1, StoreAlways, PTL

(* Managers with stale heads do not fork the chain of the acknowledged     *)
(* events: the expected head is compared under the lock.                   *)
THEOREM ChainStaysLinear == Spec => []ChainLinear
<1>1. StoreInv => ChainLinear
  <2>1. SUFFICES ASSUME StoreInv, NEW e \in acked, NEW f \in acked, prev[e] = prev[f] PROVE e = f
    BY DEF ChainLinear
  <2>2. StoreTypes /\ Sound(dir) /\ dir.head \in Heads /\ dir.head.size \in Nat
    BY <2>1, DirNow DEF StoreInv, DirsSound
  <2>3. dir.head # Head0
    BY <2>2 DEF Sound
  <2>4. PICK k \in 0..Len(data) :
          /\ dir.head.size = 2 * k
          /\ \A i \in 1..k : \E g \in 1..Len(prev) : LineOf(i, g)
          /\ \A i, j \in 1..k : i < j => data[2 * i].event < data[2 * j].event
    BY <2>2, <2>3 DEF Sound, Commits
  <2>5. k \in Nat /\ Len(prev) \in Nat
    BY <2>2, <2>4 DEF StoreTypes
  <2>6. ASSUME NEW g \in acked
        PROVE  \E i \in 1..k : LineOf(i, g) /\ data[2 * i].event = g
    <3>1. PICK j \in 1..dir.head.size : data[j].event = g
      BY <2>2, <2>3 DEF Sound
    <3>2. PICK i \in 1..k : j = 2 * i \/ j = 2 * i - 1
      <4>1. PICK i \in Int : i = (j + 1) \div 2
        BY <2>4, <2>5
      <4>2. i \in 1..k /\ (j = 2 * i \/ j = 2 * i - 1)
        BY <2>4, <2>5, <4>1
      <4>3. QED
        BY <4>2
    <3>3. PICK h \in 1..Len(prev) : LineOf(i, h)
      BY <2>4
    <3>4. data[2 * i - 1].event = h /\ data[2 * i].event = h
      BY <3>3 DEF LineOf
    <3>5. QED
      BY <3>1, <3>2, <3>3, <3>4
  <2>7. PICK i \in 1..k : LineOf(i, e) /\ data[2 * i].event = e
    BY <2>6
  <2>8. PICK j \in 1..k : LineOf(j, f) /\ data[2 * j].event = f
    BY <2>6
  <2>9. ASSUME NEW a \in 1..k, NEW b \in 1..k, NEW g \in acked, NEW h \in acked,
               LineOf(a, g), LineOf(b, h), prev[g] = prev[h], a < b
        PROVE  FALSE
    <3>1. PICK c \in 1..k : b = c + 1 /\ 2 * b - 2 = 2 * c /\ a <= c
      <4>1. b - 1 \in 1..k /\ 2 * b - 2 = 2 * (b - 1) /\ a <= b - 1 /\ b = (b - 1) + 1
        BY <2>5, <2>9
      <4>2. QED
        BY <4>1
    <3>2. prev[h] = data[2 * c].event
      BY <2>5, <2>9, <3>1 DEF LineOf
    <3>3. PICK p \in 1..Len(prev) : LineOf(c, p)
      BY <2>4
    <3>4. data[2 * c].event = p
      BY <3>3 DEF LineOf
    <3>5. CASE a = 1
      BY <2>5, <2>9, <3>2, <3>4, <3>5 DEF LineOf
    <3>6. CASE a # 1
      <4>1. a - 1 \in 1..k /\ a - 1 < c /\ 2 * a - 2 = 2 * (a - 1)
        BY <2>5, <3>1, <3>6
      <4>2. PICK z \in 1..k : z = a - 1 /\ z < c /\ 2 * a - 2 = 2 * z
        BY <4>1
      <4>3. prev[g] = data[2 * z].event
        BY <2>9, <3>6, <4>2 DEF LineOf
      <4>4. data[2 * z].event < data[2 * c].event
        BY <2>4, <4>2
      <4>5. PICK q \in 1..Len(prev) : data[2 * z].event = q
        <5>1. PICK q \in 1..Len(prev) : LineOf(z, q)
          BY <2>4
        <5>2. data[2 * z].event = q
          BY <5>1 DEF LineOf
        <5>3. QED
          BY <5>2
      <4>6. QED
        <5>1. data[2 * z].event = data[2 * c].event
          BY <2>9, <3>2, <4>3
        <5>2. q < q /\ q \in Nat
          BY <2>5, <4>4, <4>5, <5>1
        <5>3. QED
          BY <5>2
    <3>7. QED
      BY <3>5, <3>6
  <2>10. i = j
    BY <2>1, <2>5, <2>7, <2>8, <2>9
  <2>11. QED
    BY <2>7, <2>8, <2>10
<1>2. QED
  BY <1>1, StoreAlways, PTL

(* Faults are counted. *)
FaultsCounted == faults \in [1..2 -> Nat]

(* Each fault adds one to its count. *)
LEMMA FaultsAlways == Spec => []FaultsCounted
<1>1. Init => FaultsCounted
  BY DEF Init, FaultsCounted
<1>2. FaultsCounted /\ [Next]_vars => FaultsCounted'
  <2>1. SUFFICES ASSUME FaultsCounted, [Next]_vars PROVE faults' \in [1..2 -> Nat]
    BY DEF FaultsCounted
  <2>2. CASE fail
    BY <2>1, <2>2 DEF fail, FaultsCounted
  <2>3. CASE powerLoss
    BY <2>1, <2>3 DEF powerLoss, FaultsCounted
  <2>4. CASE faults' = faults
    BY <2>1, <2>4 DEF FaultsCounted
  <2>5. QED
    BY <2>1, <2>2, <2>3, <2>4
       DEF vars, Next, start, begin, dropUncommittedFile, dropSync, quarantineSuffix, truncate, truncateSync, readClean,
           compare, createLedger, publishHead, genesisSync, writeHalf, fsyncLedger, publishSync
<1>3. QED
  BY <1>1, <1>2, PTL DEF Spec

(* Bytes leave the ledger only after a quarantine artifact holds them,     *)
(* unless power fails.                                                     *)
THEOREM RollbacksKeepEvidence == Spec => RollbackKeepsEvidence
<1>1. StoreInv /\ FaultsCounted /\ [Next]_vars =>
        [Len(data') < Len(data) /\ faults' = faults =>
           SubSeq(data, Len(data') + 1, Len(data)) \in quarantine]_vars
  <2>1. SUFFICES ASSUME StoreInv, FaultsCounted, Next, Len(data') < Len(data), faults' = faults
                 PROVE  SubSeq(data, Len(data') + 1, Len(data)) \in quarantine
    OBVIOUS
  <2>2. StoreTypes /\ DirsSound /\ OpInv /\ Len(data) \in Nat /\ Len(<<>>) = 0 /\ Sound(dir) /\ dir.head.size \in Nat
    BY <2>1, DirNow DEF StoreInv, StoreTypes, DirsSound
  <2>3. ~(data' = data)
    BY <2>1, <2>2
  <2>4. CASE truncate
    <3>1. dir.head.size <= Len(data) /\ SubSeq(data, dir.head.size + 1, Len(data)) \in quarantine
      BY <2>2, <2>4 DEF truncate, OpInv
    <3>2. Len(data') = dir.head.size
      BY <2>2, <2>4, <3>1 DEF truncate, StoreTypes
    <3>3. QED
      BY <3>1, <3>2
  <2>5. ~createLedger
    <3>1. ASSUME createLedger PROVE Len(data) = 0
      <4>1. dir.head = Head0
        BY <2>2, <3>1 DEF createLedger, OpInv
      <4>2. data = <<>>
        BY <2>2, <4>1 DEF Sound
      <4>3. QED
        BY <2>2, <4>2
    <3>2. ASSUME createLedger PROVE Len(data') = 0
      BY <2>2, <3>2 DEF createLedger
    <3>3. QED
      BY <2>1, <3>1, <3>2
  <2>6. ~writeHalf
    <3>1. ASSUME writeHalf PROVE Len(data') = Len(data) + 1
      BY <2>2, <3>1 DEF writeHalf, StoreTypes
    <3>2. QED
      BY <2>1, <2>2, <3>1
  <2>7. ~fail /\ ~powerLoss
    <3>1. ASSUME fail PROVE FALSE
      BY <2>3, <3>1 DEF fail
    <3>2. ASSUME powerLoss PROVE FALSE
      BY <2>1, <3>2 DEF powerLoss, FaultsCounted
    <3>3. QED
      BY <3>1, <3>2
  <2>8. QED
    BY <2>1, <2>3, <2>4, <2>5, <2>6, <2>7
       DEF Next, start, begin, dropUncommittedFile, dropSync, quarantineSuffix, truncateSync, readClean, compare,
           publishHead, genesisSync, fsyncLedger, publishSync, disk
<1>2. QED
  BY <1>1, StoreAlways, FaultsAlways, PTL DEF Spec, RollbackKeepsEvidence
-----------------------------------------------------------------------------
(***************************************************************************)
(* The lock under which the store's operations run.                        *)
(*                                                                         *)
(* ReplayLedgerStore takes the lock for granted: one variable that says    *)
(* who holds it.  Here is the lock as processes take it, call by call, for *)
(* every set of processes and every number of runs and crashes, over a     *)
(* gate that anybody may enter at any time.  What the lock makes of it is  *)
(* proved under the hypothesis []GateExcludes and not without it: the      *)
(* lock's own calls do not exclude when its gate does not.                 *)
(***************************************************************************)

(* Initially nothing is linked and nobody is inside the gate. *)
LEMMA LockStarts == LockInit => TypeOK /\ LockInv
BY NoOwnerAssumption, ReplayLedgerLockAssumption
DEF LockInit, TypeOK, LockInv, Owners, NoOwner, Outside, Inside, holds, me

(* No step of run(), acquire() or release() leaves the types. *)
LEMMA LockTypeNext == TypeOK /\ [LockNext]_lockVars => TypeOK'
<1> SUFFICES ASSUME TypeOK, [LockNext]_lockVars PROVE TypeOK'
  OBVIOUS
<1> USE ReplayLedgerLockAssumption DEF TypeOK, Owners, Outside, Inside
<1>1. CASE UNCHANGED lockVars
  BY <1>1 DEF lockVars
<1>2. ASSUME NEW p \in Procs, Work(p) PROVE TypeOK'
  <2>1. CASE Run(p)
    BY <2>1 DEF Run, lockGoto
  <2>2. CASE Look(p)
    BY <2>2 DEF Look, lockGoto
  <2>3. CASE enter(p, "wantLink", "link")
    BY <2>3 DEF enter, lockGoto
  <2>4. CASE enter(p, "wantReclaim", "recheck")
    BY <2>4 DEF enter, lockGoto
  <2>5. CASE enter(p, "locked", "check")
    BY <2>5 DEF enter, lockGoto
  <2>6. CASE Link(p)
    BY <2>6 DEF Link, lockGoto, me
  <2>7. CASE Readback(p)
    BY <2>7 DEF Readback, lockGoto
  <2>8. CASE Recheck(p, "recheck", "final")
    BY <2>8 DEF Recheck, lockGoto
  <2>9. CASE Recheck(p, "final", "unlink")
    BY <2>9 DEF Recheck, lockGoto
  <2>10. CASE Unlink(p)
    BY <2>10 DEF Unlink, lockGoto
  <2>11. CASE Check(p)
    BY <2>11 DEF Check, lockGoto
  <2>12. CASE Release(p)
    BY <2>12 DEF Release, lockGoto
  <2> QED
    BY <1>2, <2>1, <2>2, <2>3, <2>4, <2>5, <2>6, <2>7, <2>8, <2>9, <2>10, <2>11, <2>12 DEF Work
<1>3. ASSUME NEW p \in Procs, GiveUp(p) \/ ReleaseFails(p) \/ RunAfterLeak(p) \/ Crash(p) PROVE TypeOK'
  BY <1>3 DEF GiveUp, ReleaseFails, RunAfterLeak, Crash, lockGoto
<1> QED
  BY <1>1, <1>2, <1>3 DEF LockNext

(* While the gate excludes, a step by one process, inside the gate or      *)
(* outside it, disturbs nothing that another process has compared.         *)
LEMMA LockInvNext == TypeOK /\ LockInv /\ GateExcludes /\ [LockNext]_lockVars => LockInv'
<1> SUFFICES ASSUME TypeOK, LockInv, GateExcludes, [LockNext]_lockVars PROVE LockInv'
  OBVIOUS
<1> USE NoOwnerAssumption
    DEF TypeOK, LockInv, GateExcludes, Owners, NoOwner, Outside, Inside, holds, me
<1>1. CASE UNCHANGED lockVars
  BY <1>1 DEF lockVars
<1>2. ASSUME NEW p \in Procs, Work(p) PROVE LockInv'
  <2>1. CASE Run(p)
    BY <2>1 DEF Run, lockGoto
  <2>2. CASE Look(p)
    BY <2>2 DEF Look, lockGoto
  <2>3. CASE enter(p, "wantLink", "link")
    BY <2>3 DEF enter, lockGoto
  <2>4. CASE enter(p, "wantReclaim", "recheck")
    BY <2>4 DEF enter, lockGoto
  <2>5. CASE enter(p, "locked", "check")
    BY <2>5 DEF enter, lockGoto
  <2>6. CASE Link(p)
    BY <2>6 DEF Link, lockGoto
  <2>7. CASE Readback(p)
    BY <2>7 DEF Readback, lockGoto
  <2>8. CASE Recheck(p, "recheck", "final")
    BY <2>8 DEF Recheck, lockGoto
  <2>9. CASE Recheck(p, "final", "unlink")
    BY <2>9 DEF Recheck, lockGoto
  <2>10. CASE Unlink(p)
    BY <2>10 DEF Unlink, lockGoto
  <2>11. CASE Check(p)
    BY <2>11 DEF Check, lockGoto
  <2>12. CASE Release(p)
    BY <2>12 DEF Release, lockGoto
  <2> QED
    BY <1>2, <2>1, <2>2, <2>3, <2>4, <2>5, <2>6, <2>7, <2>8, <2>9, <2>10, <2>11, <2>12 DEF Work
<1>3. ASSUME NEW p \in Procs, GiveUp(p) \/ ReleaseFails(p) \/ RunAfterLeak(p) \/ Crash(p) PROVE LockInv'
  <2>1. CASE GiveUp(p)
    BY <2>1 DEF GiveUp, lockGoto
  <2>2. CASE ReleaseFails(p)
    BY <2>2 DEF ReleaseFails, lockGoto
  <2>3. CASE RunAfterLeak(p)
    BY <2>3 DEF RunAfterLeak, lockGoto
  <2>4. CASE Crash(p)
    BY <2>4 DEF Crash, lockGoto
  <2> QED
    BY <1>3, <2>1, <2>2, <2>3, <2>4
<1> QED
  BY <1>1, <1>2, <1>3 DEF LockNext

(* The types hold whatever the gate does. *)
THEOREM LockTypes == LockSpec => []TypeOK
<1>1. LockInit => TypeOK  BY LockStarts
<1> QED  BY <1>1, LockTypeNext, PTL DEF LockSpec

(* The invariant holds for as long as the gate excludes. *)
LEMMA LockInvariant == LockSpec /\ []GateExcludes => [](TypeOK /\ LockInv)
BY LockStarts, LockTypeNext, LockInvNext, PTL DEF LockSpec

(* The lock needs nothing of its gate but exclusion: in every behaviour of *)
(* run() in which no two live processes are ever inside the gate, at most  *)
(* one is between acquire() and release(), however many processes contend, *)
(* die and reclaim.                                                        *)
THEOREM LockExcludes == LockSpec /\ []GateExcludes => []LockExclusive
<1>1. TypeOK /\ LockInv => LockExclusive
  BY DEF TypeOK, LockInv, LockExclusive, holds, me
<1> QED
  BY <1>1, LockInvariant, PTL

(* In every behaviour in which no two live processes are ever inside the   *)
(* gate, reclaim() and release() never remove the record of another live   *)
(* process.                                                                *)
THEOREM LockReleasedByOwner == LockSpec /\ []GateExcludes => OnlyOwnerReleases
<1>1. TypeOK /\ LockInv /\ [LockNext]_lockVars =>
        [linked.proc \in alive /\ linked' # linked => pc[linked.proc] = "release" /\ linked' = NoOwner]_lockVars
  <2> SUFFICES ASSUME TypeOK, LockInv, LockNext, linked.proc \in alive, linked' # linked
               PROVE  pc[linked.proc] = "release" /\ linked' = NoOwner
    BY DEF lockVars
  <2> PICK p \in Procs : Work(p) \/ GiveUp(p) \/ ReleaseFails(p) \/ RunAfterLeak(p) \/ Crash(p)
    BY DEF LockNext
  <2>1. Link(p) \/ Unlink(p) \/ Release(p)
    BY DEF Work, Run, Look, enter, Readback, Recheck, Check, GiveUp, ReleaseFails, RunAfterLeak, Crash
  <2>2. ~Link(p)
    BY NoOwnerAssumption DEF Link, TypeOK, NoOwner
  <2>3. ~Unlink(p)
    BY DEF Unlink, LockInv
  <2> QED
    BY <2>1, <2>2, <2>3 DEF Release, LockInv, holds, me
<1> QED
  BY <1>1, LockInvariant, PTL DEF LockSpec, OnlyOwnerReleases

(* The specification that the run lock_safety checks is one of those:      *)
(* LockSpec with a gate that excludes.                                     *)
THEOREM GatedLock == GatedSpec => LockSpec /\ []GateExcludes
<1>1. LockInit => GateExcludes
  BY DEF LockInit, GateExcludes, Inside
<1>2. GateExcludes /\ [LockNext /\ GateExcludes']_lockVars => GateExcludes'
  BY DEF GateExcludes, lockVars
<1> QED
  BY <1>1, <1>2, PTL DEF GatedSpec, LockSpec
================================================================================
