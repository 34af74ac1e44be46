--------------------------- MODULE DurableLockProofs ---------------------------
(***************************************************************************)
(* The durable directory lock never loses an ownership, for every set of   *)
(* processes and every number of tokens, crashes and failing calls.        *)
(***************************************************************************)
EXTENDS DurableLock, SequenceTheorems, TLAPS

Tokens == Nat
PCs == {"idle", "drain", "mkdir", "write", "inspect", "wait",
        "reread", "retire", "hold", "check", "rename"}

Dirs == [token : Tokens, pid : Procs, written : BOOLEAN]
Frames == [op : {"none", "acquire", "inspect"}, path : Seq(Tokens), pc : PCs,
           token : Tokens, result : {"none", "absent", "unknown", "failed"}]
Locks == [path : Seq(Tokens), token : Tokens]

(* The types of the lock's state. *)
LockTypes ==
  /\ alive \subseteq Procs
  /\ \A q \in DOMAIN dirs : q \in Seq(Tokens) /\ dirs[q] \in Dirs
  /\ at \in [Procs -> Frames]
  /\ retained \in [Procs -> SUBSET Locks]

(* The directory at path is p's, with this token. *)
mine(p, path, token) == owned(path, token) /\ dirs[path].pid = p

(* A token is that of one directory only. *)
TokensDiffer ==
  \A q1, q2 \in DOMAIN dirs : dirs[q1].token = dirs[q2].token => q1 = q2

(* A live process's path is made of tokens of dead owners: a directory     *)
(* that still bears one of them was left by the dead.                      *)
PathDead(p) ==
  \A q \in DOMAIN dirs : \A i \in DOMAIN at[p].path :
    dirs[q].token = at[p].path[i] => dirs[q].pid \notin alive

(* What a live process relies on in each of its states. *)
Secure(p) ==
  /\ Holds(p) => mine(p, at[p].path, at[p].token)
  /\ \A l \in retained[p] : mine(p, l.path, l.token)
  /\ retained[p] # {} => at[p].pc \in {"idle", "drain"}
  /\ at[p].pc = "write" =>
       /\ exists(at[p].path) /\ ~dirs[at[p].path].written
       /\ dirs[at[p].path].pid = p /\ dirs[at[p].path].token = at[p].token
  /\ at[p].pc \in {"reread", "retire"} => at[p].path # <<>>
  /\ at[p].pc = "retire" => owned(lockPath(p), staleToken(p))

OwnershipInv == TokensDiffer /\ \A p \in alive : PathDead(p) /\ Secure(p)
--------------------------------------------------------------------------------

(* What lockPath and staleToken take from a gate's path. *)
LEMMA FrontLast ==
  ASSUME NEW s \in Seq(Tokens), s # <<>>
  PROVE  /\ Front(s) \in Seq(Tokens) /\ Len(Front(s)) = Len(s) - 1 /\ Front(s) # s
         /\ \A i \in DOMAIN Front(s) : i \in DOMAIN s /\ Front(s)[i] = s[i]
         /\ Len(s) \in DOMAIN s /\ Last(s) = s[Len(s)]
<1> USE DEF Tokens
<1>1. Len(s) \in Nat /\ Len(s) >= 1 /\ DOMAIN s = 1..Len(s)
  BY EmptySeq
<1>2. Front(s) = [i \in 1..(Len(s) - 1) |-> s[i]]
  BY <1>1 DEF Front
<1>3. Front(s) \in Seq(Tokens) /\ Len(Front(s)) = Len(s) - 1
  BY <1>1 DEF Front
<1>4. DOMAIN Front(s) = 1..(Len(s) - 1)
  BY <1>2
<1>5. \A i \in DOMAIN Front(s) : i \in DOMAIN s /\ Front(s)[i] = s[i]
  BY <1>1, <1>2, <1>4
<1>6. Len(s) \in DOMAIN s /\ Front(s) # s
  BY <1>1, <1>3
<1> QED
  BY <1>3, <1>5, <1>6 DEF Last

(* A gate's path is determined by the lock it is for and the stale token. *)
LEMMA GateOf ==
  ASSUME NEW s \in Seq(Tokens), NEW t \in Seq(Tokens), s # <<>>, t # <<>>,
         Front(s) = Front(t), Last(s) = Last(t)
  PROVE  s = t
<1> USE DEF Tokens
<1>1. Len(s) = Len(t) /\ Len(s) \in Nat
  BY FrontLast
<1>2. ASSUME NEW i \in 1..Len(s) PROVE s[i] = t[i]
  <2>1. CASE i = Len(s)
    BY <1>1, <2>1, FrontLast
  <2>2. CASE i # Len(s)
    <3>1. i \in 1..Len(Front(s)) /\ i \in 1..Len(Front(t))
      BY <1>1, <2>2, FrontLast
    <3>2. i \in DOMAIN Front(s) /\ i \in DOMAIN Front(t)
      BY <3>1, FrontLast
    <3> QED
      BY <3>2, FrontLast
  <2> QED
    BY <2>1, <2>2
<1> QED
  BY <1>1, <1>2, SeqEqual

(* A token handed out to mkdir is nobody's. *)
LEMMA FreshToken ==
  ASSUME LockTypes, NEW t \in Fresh
  PROVE  /\ t \in Tokens
         /\ \A q \in DOMAIN dirs : dirs[q].token # t
         /\ \A p \in Procs : \A i \in DOMAIN at[p].path : at[p].path[i] # t
<1>1. t \in 1..MaxTokens /\ t \notin Used
  BY DEF Fresh
<1>2. \A q \in DOMAIN dirs : dirs[q].token # t
  <2>1. \A q \in DOMAIN dirs : dirs[q].token \in {dirs[q].token} \cup Range(q)
    OBVIOUS
  <2>2. \A q \in DOMAIN dirs : dirs[q].token \in Used
    BY <2>1 DEF Used
  <2> QED
    BY <1>1, <2>2
<1>3. \A p \in Procs : t \notin Range(at[p].path)
  <2>1. \A p \in Procs : Range(at[p].path) \subseteq {at[p].token} \cup Range(at[p].path)
    OBVIOUS
  <2>2. \A p \in Procs : Range(at[p].path) \subseteq Used
    BY <2>1 DEF Used
  <2> QED
    BY <1>1, <2>2
<1> QED
  BY <1>1, <1>2, <1>3, DurableLockAssumption DEF Tokens, Range

(* Initially there is no directory and every process is idle. *)
LEMMA LockInit == Init => LockTypes /\ OwnershipInv
<1> SUFFICES ASSUME Init PROVE LockTypes /\ OwnershipInv
  OBVIOUS
<1> USE DEF Init, Idle, Tokens
<1>0. Idle \in Frames
  BY DEF Frames, PCs
<1>1. LockTypes
  BY <1>0 DEF LockTypes
<1>2. DOMAIN dirs = {}
  OBVIOUS
<1>3. \A p \in Procs : Secure(p)
  BY DEF Secure, Holds
<1> QED
  BY <1>1, <1>2, <1>3 DEF OwnershipInv, TokensDiffer, PathDead, LockTypes

(* What a call leaves of the directories. *)
LEMMA DirTypes ==
  ASSUME LockTypes, NEW path \in Seq(Tokens), NEW d \in Dirs
  PROVE  /\ \A q \in DOMAIN without(path) :
              q \in DOMAIN dirs /\ q # path /\ without(path)[q] = dirs[q] /\ dirs[q] \in Dirs
         /\ \A q \in DOMAIN with(path, d) :
              q \in Seq(Tokens) /\ with(path, d)[q] \in Dirs
BY DEF LockTypes, without, with

(* No call leaves the types. *)
LEMMA LockTypesNext == LockTypes /\ OwnershipInv /\ [Next]_vars => LockTypes'
<1> SUFFICES ASSUME LockTypes, OwnershipInv, [Next]_vars PROVE LockTypes'
  OBVIOUS
<1>1. CASE UNCHANGED vars
  BY <1>1 DEF vars, LockTypes
<1>2. ASSUME NEW p \in Procs, Step(p) \/ Trouble(p) PROVE LockTypes'
  <2> DEFINE DirsOK == \A q \in DOMAIN dirs' : q \in Seq(Tokens) /\ dirs'[q] \in Dirs
  <2>a. at[p] \in Frames /\ at[p].path \in Seq(Tokens) /\ at[p].token \in Tokens
    BY DEF LockTypes, Frames
  <2>b. ASSUME NEW r \in Frames, move(p, r), alive' \subseteq alive,
               retained' \in [Procs -> SUBSET Locks], DirsOK
        PROVE  LockTypes'
    BY <2>b DEF LockTypes, move
  <2>c. /\ UNCHANGED dirs => DirsOK
        /\ UNCHANGED retained => retained' \in [Procs -> SUBSET Locks]
        /\ UNCHANGED alive => alive' \subseteq alive
    BY DEF LockTypes
  <2>d. Idle \in Frames
    BY DEF Idle, Frames, PCs, Tokens
  <2>e. ASSUME NEW pc \in PCs, NEW result \in {"none", "absent", "unknown", "failed"}
        PROVE  /\ [at[p] EXCEPT !.pc = pc] \in Frames
               /\ [at[p] EXCEPT !.pc = pc, !.result = result] \in Frames
    BY <2>a DEF Frames
  <2>f. ASSUME NEW t \in Tokens PROVE [at[p] EXCEPT !.token = t, !.pc = "write"] \in Frames
    BY <2>a DEF Frames, Tokens, PCs
  <2>g. ASSUME NEW op \in {"none", "acquire", "inspect"}, NEW pc \in PCs
        PROVE  [Idle EXCEPT !.op = op, !.pc = pc] \in Frames
    BY <2>d DEF Frames
  <2>h. ASSUME NEW path \in Seq(Tokens), NEW result, inspected(p, path, result)
        PROVE  \E r \in Frames : move(p, r)
    <3> DEFINE pc == IF result = "absent" THEN "mkdir" ELSE "wait"
    <3>1. pc \in PCs
      BY DEF PCs
    <3>2. inspected(p, path, result) =>
            move(p, Idle) \/ move(p, [at[p] EXCEPT !.path = path, !.token = 0, !.result = "none", !.pc = pc])
      BY DEF inspected
    <3> HIDE DEF pc
    <3>3. [at[p] EXCEPT !.path = path, !.token = 0, !.result = "none", !.pc = pc] \in Frames
      BY <2>a, <3>1 DEF Frames, Tokens
    <3> QED
      BY <2>h, <2>d, <3>2, <3>3
  <2>i. p \in alive => Secure(p)
    BY DEF OwnershipInv
  <2>j. ASSUME NEW op \in {"none", "acquire", "inspect"}, begin(p, op)
        PROVE  \E r \in Frames : move(p, r)
    BY <2>j, <2>g DEF begin, PCs
  <2>1. ASSUME NEW op \in {"acquire", "inspect"}, Start(p, op) PROVE LockTypes'
    BY <2>1, <2>b, <2>c, <2>g, <2>j DEF Start, PCs
  <2>2. CASE Drain(p)
    <3>1. PICK l \in retained[p] :
            IF owned(l.path, l.token)
            THEN /\ dirs' = without(l.path) /\ retained' = [retained EXCEPT ![p] = @ \ {l}]
                 /\ IF retained'[p] = {} THEN begin(p, at[p].op) ELSE UNCHANGED at
            ELSE throw(p) /\ UNCHANGED <<dirs, retained>>
      BY <2>2 DEF Drain
    <3>2. CASE ~owned(l.path, l.token)
      BY <2>2, <3>1, <3>2, <2>b, <2>c, <2>d DEF Drain, throw
    <3>3. CASE owned(l.path, l.token)
      <4>1. DirsOK
        BY <3>1, <3>3 DEF without, LockTypes
      <4>2. retained' \in [Procs -> SUBSET Locks]
        BY <3>1, <3>3 DEF LockTypes
      <4>3. CASE begin(p, at[p].op)
        BY <2>2, <2>a, <2>b, <2>c, <2>j, <4>1, <4>2, <4>3 DEF Drain, Frames
      <4>4. CASE UNCHANGED at
        BY <2>2, <4>1, <4>2, <4>4 DEF Drain, LockTypes
      <4> QED
        BY <3>1, <3>3, <4>3, <4>4
    <3> QED
      BY <3>2, <3>3
  <2>3. CASE Mkdir(p)
    <3>1. CASE exists(at[p].path)
      BY <2>3, <3>1, <2>b, <2>c, <2>e DEF Mkdir, goto, PCs
    <3>2. CASE ~exists(at[p].path)
      <4>1. PICK t \in Fresh :
              /\ dirs' = with(at[p].path, [token |-> t, pid |-> p, written |-> FALSE])
              /\ move(p, [at[p] EXCEPT !.token = t, !.pc = "write"])
        BY <2>3, <3>2 DEF Mkdir
      <4>2. t \in Tokens /\ [token |-> t, pid |-> p, written |-> FALSE] \in Dirs
        BY FreshToken DEF Dirs
      <4>3. DirsOK
        BY <2>a, <4>1, <4>2, DirTypes
      <4> QED
        BY <2>3, <2>a, <2>b, <2>c, <2>f, <4>1, <4>2, <4>3 DEF Mkdir, PCs
    <3> QED
      BY <3>1, <3>2
  <2>k. ASSUME running(p, "write"),
               dirs' = with(at[p].path, [dirs[at[p].path] EXCEPT !.written = TRUE])
        PROVE  DirsOK
    <3>1. at[p].path \in DOMAIN dirs
      BY <2>k, <2>i DEF running, Secure, exists
    <3>2. [dirs[at[p].path] EXCEPT !.written = TRUE] \in Dirs
      BY <3>1 DEF LockTypes, Dirs
    <3> QED
      BY <2>a, <2>k, <3>2, DirTypes
  <2>l. ASSUME NEW path, dirs' = without(path) PROVE DirsOK
    BY <2>l DEF without, LockTypes
  <2>4. CASE WriteOwner(p)
    <3>1. DirsOK
      BY <2>4, <2>k DEF WriteOwner
    <3> QED
      BY <2>4, <2>b, <2>c, <2>e, <3>1 DEF WriteOwner, goto, PCs
  <2>5. CASE Inspect(p)
    <3>1. \E r \in Frames : move(p, r)
      <4>1. CASE exists(at[p].path) /\ ~(~dirs[at[p].path].written \/ dirs[at[p].path].pid \in alive)
        <5>1. Append(at[p].path, dirs[at[p].path].token) \in Seq(Tokens)
          BY <2>a, <4>1 DEF exists, LockTypes, Dirs
        <5>2. move(p, [at[p] EXCEPT !.path = Append(at[p].path, dirs[at[p].path].token), !.pc = "mkdir"])
          BY <2>5, <4>1 DEF Inspect
        <5>3. [at[p] EXCEPT !.path = Append(at[p].path, dirs[at[p].path].token), !.pc = "mkdir"] \in Frames
          BY <2>a, <5>1 DEF Frames, PCs
        <5> QED
          BY <5>2, <5>3
      <4>2. CASE ~exists(at[p].path)
        BY <2>5, <2>a, <2>h, <4>2 DEF Inspect
      <4>3. CASE exists(at[p].path) /\ (~dirs[at[p].path].written \/ dirs[at[p].path].pid \in alive)
        BY <2>5, <2>a, <2>h, <4>3 DEF Inspect
      <4> QED
        BY <4>1, <4>2, <4>3
    <3> QED
      BY <2>5, <2>b, <2>c, <3>1 DEF Inspect
  <2>6. CASE Retry(p) \/ Busy(p) \/ Work(p) \/ Check(p)
    BY <2>6, <2>b, <2>c, <2>d, <2>e DEF Retry, Busy, Work, Check, goto, throw, PCs
  <2>7. CASE Reread(p)
    <3>1. CASE owned(lockPath(p), staleToken(p))
      BY <2>7, <3>1, <2>b, <2>c, <2>e DEF Reread, goto, PCs
    <3>2. CASE ~owned(lockPath(p), staleToken(p))
      BY <2>7, <3>2, <2>b, <2>c, <2>e DEF Reread, settle, PCs
    <3> QED
      BY <3>1, <3>2
  <2>8. CASE Retire(p)
    BY <2>8, <2>b, <2>c, <2>e, <2>l DEF Retire, settle, PCs
  <2>9. CASE RetireFails(p)
    BY <2>9, <2>b, <2>c, <2>e, <2>l DEF RetireFails, settle, PCs
  <2>10. CASE Rename(p)
    <3>1. \E r \in Frames : move(p, r)
      <4>1. CASE at[p].path = <<>> \/ at[p].result = "failed"
        BY <2>10, <2>d, <4>1 DEF Rename, released, throw
      <4>2. CASE at[p].path # <<>> /\ at[p].result # "failed"
        <5>1. lockPath(p) \in Seq(Tokens)
          BY <2>a, <4>2, FrontLast DEF lockPath
        <5> QED
          BY <2>10, <2>h, <4>2, <5>1 DEF Rename, released
      <4> QED
        BY <4>1, <4>2
    <3> QED
      BY <2>10, <2>b, <2>c, <2>l, <3>1 DEF Rename
  <2>11. CASE RenameFails(p)
    <3>1. [path |-> at[p].path, token |-> at[p].token] \in Locks
      BY <2>a DEF Locks
    <3>2. retained' \in [Procs -> SUBSET Locks]
      BY <2>11, <2>c, <3>1 DEF RenameFails, LockTypes
    <3> QED
      BY <2>11, <2>b, <2>c, <2>d, <2>l, <3>2 DEF RenameFails, throw
  <2>12. CASE WriteFails(p)
    <3>1. DirsOK
      BY <2>12, <2>c, <2>k, <2>l DEF WriteFails
    <3> QED
      BY <2>12, <2>b, <2>c, <2>d, <2>e, <3>1 DEF WriteFails, throw, PCs
  <2>13. CASE Crash(p)
    <3>1. retained' \in [Procs -> SUBSET Locks]
      BY <2>13 DEF Crash, LockTypes
    <3> QED
      BY <2>13, <2>b, <2>c, <2>d, <3>1 DEF Crash, throw
  <2> QED
    BY <1>2, <2>1, <2>2, <2>3, <2>4, <2>5, <2>6, <2>7, <2>8, <2>9, <2>10, <2>11, <2>12, <2>13
    DEF Step, Trouble
<1> QED
  BY <1>1, <1>2 DEF Next

(* The directories of the next state are those of this one, some removed, *)
(* some with their owner file now written.                                *)
Kept == \A q \in DOMAIN dirs' :
          q \in DOMAIN dirs /\ dirs'[q].token = dirs[q].token /\ dirs'[q].pid = dirs[q].pid

(* Dead tokens stay dead while no directory is made. *)
LEMMA PathStaysDead ==
  ASSUME NEW r, PathDead(r), Kept, alive' \subseteq alive,
         \A i \in DOMAIN at'[r].path : \E j \in DOMAIN at[r].path : at'[r].path[i] = at[r].path[j]
  PROVE  PathDead(r)'
BY DEF PathDead, Kept

(* The lock a process retires has a dead owner. *)
LEMMA RetiredIsDead ==
  ASSUME LockTypes, NEW p \in Procs, PathDead(p), Secure(p), at[p].pc = "retire"
  PROVE  /\ at[p].path # <<>> /\ lockPath(p) # at[p].path
         /\ lockPath(p) \in DOMAIN dirs /\ dirs[lockPath(p)].token = staleToken(p)
         /\ dirs[lockPath(p)].pid \notin alive
<1>1. at[p].path \in Seq(Tokens) /\ at[p].path # <<>>
  BY DEF LockTypes, Frames, Secure
<1>2. Len(at[p].path) \in DOMAIN at[p].path /\ staleToken(p) = at[p].path[Len(at[p].path)]
      /\ lockPath(p) # at[p].path
  BY <1>1, FrontLast DEF lockPath, staleToken
<1>3. lockPath(p) \in DOMAIN dirs /\ dirs[lockPath(p)].token = staleToken(p)
  BY DEF Secure, owned, exists
<1> QED
  BY <1>1, <1>2, <1>3 DEF PathDead

(* A process is secure after a step of another one that leaves alone the   *)
(* directories it owns and the one it is about to retire.                  *)
LEMMA Undisturbed ==
  ASSUME LockTypes, NEW r \in Procs, Secure(r), at'[r] = at[r], retained'[r] = retained[r],
         \A q \in DOMAIN dirs : dirs[q].pid = r => q \in DOMAIN dirs' /\ dirs'[q] = dirs[q],
         at[r].pc = "retire" =>
           lockPath(r) \in DOMAIN dirs' /\ dirs'[lockPath(r)] = dirs[lockPath(r)]
  PROVE  Secure(r)'
<1>1. Holds(r)' => mine(r, at[r].path, at[r].token)'
  BY DEF Secure, Holds, mine, owned, exists
<1>2. ASSUME NEW l \in retained[r] PROVE mine(r, l.path, l.token)'
  <2>1. mine(r, l.path, l.token)
    BY DEF Secure
  <2> QED
    BY <2>1 DEF mine, owned, exists
<1>3. at[r].pc = "write" =>
       /\ exists(at[r].path)' /\ ~dirs'[at[r].path].written
       /\ dirs'[at[r].path].pid = r /\ dirs'[at[r].path].token = at[r].token
  BY DEF Secure, exists
<1>4. at[r].pc = "retire" => owned(lockPath(r), staleToken(r))'
  BY DEF Secure, owned, exists, lockPath, staleToken
<1> QED
  BY <1>1, <1>2, <1>3, <1>4 DEF Secure, lockPath, staleToken

(* Removing a directory that p owns, or one that p retires, disturbs       *)
(* nobody else.                                                            *)
LEMMA RemovalDisturbsNobody ==
  ASSUME LockTypes, OwnershipInv, NEW p \in alive, NEW path, dirs' = without(path),
         \/ path \in DOMAIN dirs /\ dirs[path].pid = p
         \/ at[p].pc = "retire" /\ path = lockPath(p),
         NEW r \in alive, r # p, at'[r] = at[r], retained'[r] = retained[r]
  PROVE  Secure(r)'
<1>0. PathDead(p) /\ Secure(p) /\ PathDead(r) /\ Secure(r) /\ p \in Procs /\ r \in Procs
  BY DEF OwnershipInv, LockTypes
<1>1. \A q \in DOMAIN dirs : q # path => q \in DOMAIN dirs' /\ dirs'[q] = dirs[q]
  BY DEF without
<1>2. path \in DOMAIN dirs /\ dirs[path].pid # r
  BY <1>0, RetiredIsDead
<1>3. at[r].pc = "retire" => lockPath(r) # path
  <2> SUFFICES ASSUME at[r].pc = "retire", lockPath(r) = path PROVE FALSE
    OBVIOUS
  <2>1. dirs[path].pid \notin alive /\ dirs[path].token = staleToken(r)
    BY <1>0, RetiredIsDead
  <2>2. at[p].pc = "retire" /\ path = lockPath(p)
    BY <2>1
  <2>3. staleToken(p) = staleToken(r) /\ at[p].path # <<>> /\ at[r].path # <<>>
    BY <1>0, <2>1, <2>2, RetiredIsDead
  <2>4. at[p].path = at[r].path
    <3>1. at[p].path \in Seq(Tokens) /\ at[r].path \in Seq(Tokens)
      BY <1>0 DEF LockTypes, Frames
    <3> QED
      BY <2>2, <2>3, <3>1, GateOf DEF lockPath, staleToken
  <2> QED
    BY <1>0, <2>2, <2>4 DEF Secure, Holds, mine
<1>4. at[r].pc = "retire" => lockPath(r) \in DOMAIN dirs
  BY <1>0, RetiredIsDead
<1>5. at[r].pc = "retire" => lockPath(r) \in DOMAIN dirs' /\ dirs'[lockPath(r)] = dirs[lockPath(r)]
  BY <1>1, <1>3, <1>4
<1>6. \A q \in DOMAIN dirs : dirs[q].pid = r => q \in DOMAIN dirs' /\ dirs'[q] = dirs[q]
  BY <1>1, <1>2
<1> QED
  BY <1>0, <1>5, <1>6, Undisturbed

(* Writing one's owner file disturbs nobody else. *)
LEMMA WritingDisturbsNobody ==
  ASSUME LockTypes, OwnershipInv, NEW p \in alive, at[p].pc = "write",
         dirs' = with(at[p].path, [dirs[at[p].path] EXCEPT !.written = TRUE])
  PROVE  /\ Kept /\ at[p].path \in DOMAIN dirs' /\ dirs'[at[p].path].token = at[p].token
         /\ dirs'[at[p].path].pid = p /\ dirs'[at[p].path].written
         /\ \A r \in alive : r # p /\ at'[r] = at[r] /\ retained'[r] = retained[r] => Secure(r)'
<1> DEFINE path == at[p].path
<1>0. Secure(p) /\ p \in Procs
  BY DEF OwnershipInv, LockTypes
<1>1. path \in DOMAIN dirs /\ dirs[path].pid = p /\ dirs[path].token = at[p].token /\ dirs[path] \in Dirs
  BY <1>0 DEF Secure, exists, LockTypes
<1>2. DOMAIN dirs' = DOMAIN dirs /\ \A q \in DOMAIN dirs : q # path => dirs'[q] = dirs[q]
  BY <1>1 DEF with
<1>3. dirs'[path] = [dirs[path] EXCEPT !.written = TRUE]
  BY <1>1 DEF with
<1>4. dirs'[path].token = dirs[path].token /\ dirs'[path].pid = p /\ dirs'[path].written
  BY <1>1, <1>3 DEF Dirs
<1>5. Kept
  BY <1>1, <1>2, <1>4 DEF Kept
<1>7. ASSUME NEW r \in alive, r # p, at'[r] = at[r], retained'[r] = retained[r] PROVE Secure(r)'
  <2>0. PathDead(r) /\ Secure(r) /\ r \in Procs
    BY DEF OwnershipInv, LockTypes
  <2>1. at[r].pc = "retire" => lockPath(r) \in DOMAIN dirs /\ lockPath(r) # path
    BY <1>1, <2>0, RetiredIsDead
  <2>2. \A q \in DOMAIN dirs : dirs[q].pid = r => q \in DOMAIN dirs' /\ dirs'[q] = dirs[q]
    BY <1>1, <1>2, <1>7
  <2> QED
    BY <1>2, <1>7, <2>0, <2>1, <2>2, Undisturbed
<1> QED
  BY <1>1, <1>2, <1>4, <1>5, <1>7

(* A process that is out of the lock relies only on what it retained. *)
LEMMA IdleIsSecure ==
  ASSUME NEW p, at'[p].path = <<>>, at'[p].pc \in {"idle", "drain"},
         \A l \in retained'[p] : mine(p, l.path, l.token)'
  PROVE  Secure(p)' /\ \A i \in DOMAIN at'[p].path : i \in DOMAIN at[p].path /\ at'[p].path[i] = at[p].path[i]
BY DEF Secure, Holds

(* No call breaks what the live processes rely on. *)
LEMMA OwnershipNext == LockTypes /\ LockTypes' /\ OwnershipInv /\ [Next]_vars => OwnershipInv'
<1> SUFFICES ASSUME LockTypes, LockTypes', OwnershipInv, [Next]_vars PROVE OwnershipInv'
  OBVIOUS
<1>1. CASE UNCHANGED vars
  BY <1>1 DEF vars, OwnershipInv, TokensDiffer, PathDead, Secure, Holds, mine, owned, exists,
              lockPath, staleToken
<1>2. ASSUME NEW p \in Procs, Step(p) \/ Trouble(p) PROVE OwnershipInv'
  <2> DEFINE Shrinks == \A i \in DOMAIN at'[p].path : \E j \in DOMAIN at[p].path :
                          at'[p].path[i] = at[p].path[j]
             Alone == \A r \in alive : r # p => at'[r] = at[r] /\ retained'[r] = retained[r]
             Others == \A r \in alive : r # p => Secure(r)'
  <2>0. p \in alive
    BY <1>2 DEF Step, Trouble, Start, Drain, Mkdir, WriteOwner, Inspect, Retry, Reread, Retire, Work,
                Check, Rename, Busy, WriteFails, RetireFails, RenameFails, Crash, running
  <2>a. /\ PathDead(p) /\ Secure(p) /\ TokensDiffer /\ at[p].path \in Seq(Tokens) /\ at[p] \in Frames
        /\ \A r \in alive : PathDead(r) /\ Secure(r) /\ r \in Procs
    BY <2>0 DEF OwnershipInv, LockTypes, Frames
  <2>b. ASSUME Kept, alive' \subseteq alive, Alone, Others, p \in alive' => Secure(p)' /\ Shrinks
        PROVE  OwnershipInv'
    <3>1. TokensDiffer'
      BY <2>a, <2>b DEF TokensDiffer, Kept
    <3>2. ASSUME NEW r \in alive', r # p PROVE PathDead(r)'
      BY <2>a, <2>b, <3>2, PathStaysDead
    <3>3. p \in alive' => PathDead(p)'
      BY <2>a, <2>b, PathStaysDead
    <3> QED
      BY <2>b, <3>1, <3>2, <3>3 DEF OwnershipInv
  <2>c. ASSUME UNCHANGED dirs, Alone PROVE Kept /\ Others
    <3>1. ASSUME NEW r \in alive, r # p PROVE Secure(r)'
      <4>1. at[r].pc = "retire" => lockPath(r) \in DOMAIN dirs
        BY <2>a, RetiredIsDead
      <4> QED
        BY <2>a, <2>c, <3>1, <4>1, Undisturbed
    <3> QED
      BY <2>c, <3>1 DEF Kept
  <2>d. ASSUME NEW path, dirs' = without(path), Alone,
               \/ path \in DOMAIN dirs /\ dirs[path].pid = p
               \/ at[p].pc = "retire" /\ path = lockPath(p)
        PROVE  Kept /\ Others
    <3>1. ASSUME NEW r \in alive, r # p PROVE Secure(r)'
      BY <2>0, <2>d, <3>1, RemovalDisturbsNobody
    <3> QED
      BY <2>d, <3>1 DEF Kept, without
  <2>e. ASSUME NEW f, move(p, f), retained' = retained PROVE Alone /\ at'[p] = f
    BY <2>e, <2>a DEF move, LockTypes
  <2>f. ASSUME NEW f, move(p, f), NEW S, retained' = [retained EXCEPT ![p] = S]
        PROVE  Alone /\ at'[p] = f /\ retained'[p] = S
    BY <2>f, <2>a DEF move, LockTypes
  <2> HIDE DEF Alone, Others
  <2>g. ASSUME UNCHANGED <<dirs, retained>>
        PROVE  \A l \in retained'[p] : mine(p, l.path, l.token)'
    BY <2>a, <2>g DEF Secure, mine, owned, exists
  <2>h. ASSUME retained'[p] = {}, at'[p].pc \in {"idle", "mkdir", "inspect", "wait"}
        PROVE  Secure(p)'
    BY <2>h DEF Secure, Holds
  <2>i. at[p].pc \notin {"idle", "drain"} => retained[p] = {}
    BY <2>a DEF Secure
  <2>j. ASSUME UNCHANGED dirs, retained'[p] = {}, at'[p].path = at[p].path, at'[p].token = at[p].token,
               Holds(p), at'[p].pc \in {"hold", "check", "rename"}
        PROVE  Secure(p)'
    BY <2>a, <2>j DEF Secure, Holds, mine, owned, exists
  <2>k. ASSUME NEW pc, NEW result,
               \/ at'[p] = [at[p] EXCEPT !.pc = pc]
               \/ at'[p] = [at[p] EXCEPT !.pc = pc, !.result = result]
        PROVE  at'[p].pc = pc /\ at'[p].path = at[p].path /\ at'[p].token = at[p].token /\ Shrinks
    BY <2>a, <2>k DEF Frames
  <2>l. ASSUME NEW path, NEW result, inspected(p, path, result), retained' = retained
        PROVE  Alone /\ at'[p].pc \in {"idle", "mkdir", "wait"} /\ at'[p].path \in {<<>>, path}
    <3>1. CASE move(p, Idle)
      BY <2>e, <2>l, <3>1 DEF Idle
    <3>2. CASE move(p, [at[p] EXCEPT !.path = path, !.token = 0, !.result = "none",
                                     !.pc = IF result = "absent" THEN "mkdir" ELSE "wait"])
      <4>1. Alone /\ at'[p] = [at[p] EXCEPT !.path = path, !.token = 0, !.result = "none",
                                     !.pc = IF result = "absent" THEN "mkdir" ELSE "wait"]
        BY <2>e, <2>l, <3>2
      <4> QED
        BY <2>a, <4>1 DEF Frames
    <3> QED
      BY <2>l, <3>1, <3>2 DEF inspected
  <2>m. ASSUME throw(p), retained'[p] = {} PROVE Secure(p)' /\ Shrinks
    <3>1. at'[p] = Idle
      BY <2>a, <2>m DEF throw, move, LockTypes
    <3>2. at'[p].path = <<>> /\ at'[p].pc = "idle"
      BY <3>1 DEF Idle
    <3> QED
      BY <2>m, <3>2 DEF Secure, Holds
  <2>1. ASSUME NEW op \in {"acquire", "inspect"}, Start(p, op) PROVE OwnershipInv'
    <3>1. UNCHANGED <<dirs, alive, retained>>
      BY <2>1 DEF Start
    <3>2. CASE retained[p] = {} /\ begin(p, op)
      <4>1. Alone /\ at'[p] = [Idle EXCEPT !.op = op, !.pc = IF op = "inspect" THEN "inspect" ELSE "mkdir"]
        BY <2>e, <3>1, <3>2 DEF begin
      <4>2. at'[p].path = <<>> /\ at'[p].pc \in {"mkdir", "inspect"}
        BY <4>1 DEF Idle
      <4> QED
        BY <2>b, <2>c, <2>h, <3>1, <3>2, <4>1, <4>2
    <3>3. CASE move(p, [Idle EXCEPT !.op = op, !.pc = "drain"])
      <4>1. Alone /\ at'[p] = [Idle EXCEPT !.op = op, !.pc = "drain"]
        BY <2>e, <3>1, <3>3
      <4>2. at'[p].path = <<>> /\ at'[p].pc = "drain"
        BY <4>1 DEF Idle
      <4>3. Secure(p)' /\ Shrinks
        BY <2>g, <3>1, <4>2, IdleIsSecure
      <4> QED
        BY <2>b, <2>c, <3>1, <4>1, <4>3
    <3> QED
      BY <2>1, <3>2, <3>3 DEF Start
  <2>2. CASE Drain(p)
    <3>0. at[p].pc = "drain" /\ UNCHANGED alive
      BY <2>2 DEF Drain, running
    <3>1. PICK l \in retained[p] :
            IF owned(l.path, l.token)
            THEN /\ dirs' = without(l.path) /\ retained' = [retained EXCEPT ![p] = @ \ {l}]
                 /\ IF retained'[p] = {} THEN begin(p, at[p].op) ELSE UNCHANGED at
            ELSE throw(p) /\ UNCHANGED <<dirs, retained>>
      BY <2>2 DEF Drain
    <3>2. mine(p, l.path, l.token) /\ l \in Locks
      BY <2>a DEF Secure, LockTypes
    <3>3. dirs' = without(l.path) /\ retained' = [retained EXCEPT ![p] = retained[p] \ {l}]
      BY <3>1, <3>2 DEF mine
    <3>4. l.path \in DOMAIN dirs /\ dirs[l.path].pid = p
      BY <3>2 DEF mine, owned, exists
    <3>5. retained'[p] = retained[p] \ {l} /\ \A r \in alive : r # p => retained'[r] = retained[r]
      BY <3>3, <2>a DEF LockTypes
    <3>6. ASSUME NEW m \in retained'[p] PROVE mine(p, m.path, m.token)'
      <4>1. m \in retained[p] /\ m # l /\ m \in Locks /\ mine(p, m.path, m.token)
        BY <2>a, <3>5 DEF Secure, LockTypes
      <4>2. m.path # l.path
        BY <3>2, <4>1 DEF mine, owned, Locks
      <4> QED
        BY <3>3, <4>1, <4>2 DEF mine, owned, exists, without
    <3>7. CASE retained'[p] = {} /\ begin(p, at[p].op)
      <4>1. at'[p] = [Idle EXCEPT !.op = at[p].op, !.pc = IF at[p].op = "inspect" THEN "inspect" ELSE "mkdir"]
            /\ \A r \in alive : r # p => at'[r] = at[r]
        BY <2>a, <3>7 DEF begin, move, LockTypes
      <4>2. at'[p].path = <<>> /\ at'[p].pc \in {"mkdir", "inspect"}
        BY <4>1 DEF Idle
      <4>3. Alone
        BY <3>5, <4>1 DEF Alone
      <4> QED
        BY <2>b, <2>d, <2>h, <3>0, <3>3, <3>4, <3>7, <4>2, <4>3
    <3>8. CASE UNCHANGED at
      <4>1. Alone
        BY <3>5, <3>8 DEF Alone
      <4>2. Secure(p)' /\ Shrinks
        BY <3>0, <3>6, <3>8 DEF Secure, Holds
      <4> QED
        BY <2>b, <2>d, <3>0, <3>3, <3>4, <4>1, <4>2
    <3> QED
      BY <3>1, <3>2, <3>7, <3>8 DEF mine
  <2>3. CASE Mkdir(p)
    <3>0. at[p].pc = "mkdir" /\ UNCHANGED <<alive, retained>> /\ retained[p] = {}
      BY <2>3, <2>i DEF Mkdir, running
    <3>1. CASE goto(p, "inspect") /\ UNCHANGED dirs
      <4>1. Alone /\ at'[p] = [at[p] EXCEPT !.pc = "inspect"]
        BY <2>e, <3>0, <3>1 DEF goto
      <4> QED
        BY <2>b, <2>c, <2>h, <2>k, <3>0, <3>1, <4>1
    <3>2. ASSUME NEW t \in Fresh, ~exists(at[p].path),
                 dirs' = with(at[p].path, [token |-> t, pid |-> p, written |-> FALSE]),
                 move(p, [at[p] EXCEPT !.token = t, !.pc = "write"])
          PROVE  OwnershipInv'
      <4> DEFINE path == at[p].path
      <4>1. Alone /\ at'[p] = [at[p] EXCEPT !.token = t, !.pc = "write"]
        BY <2>e, <3>0, <3>2
      <4>2. at'[p].path = path /\ at'[p].token = t /\ at'[p].pc = "write"
        BY <2>a, <4>1 DEF Frames
      <4>3. path \notin DOMAIN dirs /\ DOMAIN dirs' = DOMAIN dirs \cup {path}
            /\ \A q \in DOMAIN dirs : dirs'[q] = dirs[q]
        BY <3>2 DEF exists, with
      <4>4. dirs'[path].token = t /\ dirs'[path].pid = p /\ ~dirs'[path].written
        BY <3>2 DEF with
      <4>5. TokensDiffer'
        BY <2>a, <4>3, <4>4, FreshToken DEF TokensDiffer
      <4>6. ASSUME NEW r \in alive PROVE PathDead(r)'
        <5>1. at'[r].path = at[r].path
          BY <4>1, <4>2 DEF Alone
        <5> QED
          BY <2>a, <3>0, <4>3, <4>4, <5>1, FreshToken DEF PathDead
      <4>7. ASSUME NEW r \in alive, r # p PROVE Secure(r)'
        <5>1. at[r].pc = "retire" => lockPath(r) \in DOMAIN dirs
          BY <2>a, RetiredIsDead
        <5> QED
          BY <2>a, <4>1, <4>3, <4>7, <5>1, Undisturbed DEF Alone
      <4>8. Secure(p)'
        BY <3>0, <4>2, <4>3, <4>4 DEF Secure, Holds, exists
      <4> QED
        BY <3>0, <4>5, <4>6, <4>7, <4>8 DEF OwnershipInv
    <3> QED
      BY <2>3, <3>1, <3>2 DEF Mkdir
  <2>4. CASE WriteOwner(p)
    <3>0. at[p].pc = "write" /\ UNCHANGED <<alive, retained>> /\ retained[p] = {}
      BY <2>4, <2>i DEF WriteOwner, running
    <3>1. Alone /\ at'[p] = [at[p] EXCEPT !.pc = IF at[p].path = <<>> THEN "hold" ELSE "reread"]
      BY <2>e, <2>4, <3>0 DEF WriteOwner, goto
    <3>2. /\ at'[p].path = at[p].path /\ at'[p].token = at[p].token /\ Shrinks
          /\ at'[p].pc = IF at[p].path = <<>> THEN "hold" ELSE "reread"
      BY <2>k, <3>1
    <3>3. /\ Kept /\ Others /\ at[p].path \in DOMAIN dirs' /\ dirs'[at[p].path].token = at[p].token
          /\ dirs'[at[p].path].pid = p /\ dirs'[at[p].path].written
      BY <2>0, <2>4, <3>0, <3>1, WritingDisturbsNobody DEF WriteOwner, Alone, Others
    <3>4. Secure(p)'
      BY <3>0, <3>2, <3>3 DEF Secure, mine, owned, exists
    <3> QED
      BY <2>b, <3>0, <3>1, <3>2, <3>3, <3>4
  <2>5. CASE Inspect(p)
    <3>0. at[p].pc = "inspect" /\ UNCHANGED <<dirs, alive, retained>> /\ retained[p] = {}
      BY <2>5, <2>i DEF Inspect, running
    <3>1. ASSUME NEW result, inspected(p, at[p].path, result) PROVE OwnershipInv'
      <4>1. Alone /\ at'[p].pc \in {"idle", "mkdir", "wait"} /\ at'[p].path \in {<<>>, at[p].path}
        BY <2>l, <3>0, <3>1
      <4> QED
        BY <2>b, <2>c, <2>h, <3>0, <4>1
    <3>2. ASSUME exists(at[p].path), dirs[at[p].path].pid \notin alive,
                 move(p, [at[p] EXCEPT !.path = Append(at[p].path, dirs[at[p].path].token), !.pc = "mkdir"])
          PROVE  OwnershipInv'
      <4>1. Alone /\ at'[p] = [at[p] EXCEPT !.path = Append(at[p].path, dirs[at[p].path].token), !.pc = "mkdir"]
        BY <2>e, <3>0, <3>2
      <4>2. at'[p].path = Append(at[p].path, dirs[at[p].path].token) /\ at'[p].pc = "mkdir"
        BY <2>a, <4>1 DEF Frames
      <4>3. Kept /\ Others
        BY <2>c, <3>0, <4>1
      <4>4. PathDead(p)'
        <5>1. dirs[at[p].path].token \in Tokens
          BY <3>2 DEF exists, LockTypes, Dirs
        <5>2. ASSUME NEW k \in DOMAIN at'[p].path
              PROVE  \/ k \in DOMAIN at[p].path /\ at'[p].path[k] = at[p].path[k]
                     \/ at'[p].path[k] = dirs[at[p].path].token
          BY <2>a, <4>2, <5>1, <5>2 DEF Tokens
        <5> QED
          BY <2>a, <3>0, <3>2, <5>2 DEF PathDead, TokensDiffer, exists
      <4>5. ASSUME NEW r \in alive, r # p PROVE PathDead(r)'
        BY <2>a, <3>0, <4>1, <4>3, <4>5, PathStaysDead DEF Alone
      <4>6. Secure(p)'
        BY <2>h, <3>0, <4>2
      <4> QED
        BY <2>a, <3>0, <4>3, <4>4, <4>5, <4>6 DEF OwnershipInv, Others, TokensDiffer
    <3> QED
      BY <2>5, <3>1, <3>2 DEF Inspect
  <2>6. CASE Retry(p) \/ Busy(p) \/ Work(p) \/ Check(p)
    <3>0. /\ UNCHANGED <<dirs, alive, retained>> /\ retained[p] = {}
          /\ at[p].pc \in {"wait", "hold", "check"}
      BY <2>6, <2>i DEF Retry, Busy, Work, Check, running
    <3>1. CASE throw(p)
      BY <2>b, <2>c, <2>e, <2>m, <3>0, <3>1 DEF throw
    <3>2. ASSUME NEW pc, goto(p, pc),
                 \/ at[p].pc = "wait" /\ pc = "mkdir"
                 \/ at[p].pc = "hold" /\ pc = "check"
                 \/ at[p].pc = "check" /\ pc = "rename"
          PROVE  OwnershipInv'
      <4>1. Alone /\ at'[p] = [at[p] EXCEPT !.pc = pc]
        BY <2>e, <3>0, <3>2 DEF goto
      <4>2. at'[p].pc = pc /\ at'[p].path = at[p].path /\ at'[p].token = at[p].token /\ Shrinks
        BY <2>k, <4>1
      <4>3. Secure(p)'
        BY <2>h, <2>j, <3>0, <3>2, <4>2 DEF Holds
      <4> QED
        BY <2>b, <2>c, <3>0, <4>1, <4>2, <4>3
    <3> QED
      BY <2>6, <3>1, <3>2 DEF Retry, Busy, Work, Check, running
  <2>7. CASE Reread(p)
    <3>0. at[p].pc = "reread" /\ UNCHANGED <<dirs, alive, retained>> /\ retained[p] = {}
      BY <2>7, <2>i DEF Reread, running
    <3>1. CASE owned(lockPath(p), staleToken(p)) /\ goto(p, "retire")
      <4>1. Alone /\ at'[p] = [at[p] EXCEPT !.pc = "retire"]
        BY <2>e, <3>0, <3>1 DEF goto
      <4>2. at'[p].pc = "retire" /\ at'[p].path = at[p].path /\ at'[p].token = at[p].token /\ Shrinks
        BY <2>k, <4>1
      <4>3. Secure(p)'
        BY <2>a, <3>0, <3>1, <4>2 DEF Secure, Holds, mine, owned, exists, lockPath, staleToken
      <4> QED
        BY <2>b, <2>c, <3>0, <4>1, <4>2, <4>3
    <3>2. ASSUME NEW result, settle(p, result) PROVE OwnershipInv'
      <4>1. Alone /\ at'[p] = [at[p] EXCEPT !.pc = "check", !.result = result]
        BY <2>e, <3>0, <3>2 DEF settle
      <4>2. at'[p].pc = "check" /\ at'[p].path = at[p].path /\ at'[p].token = at[p].token /\ Shrinks
        BY <2>k, <4>1
      <4> QED
        BY <2>b, <2>c, <2>j, <3>0, <4>1, <4>2 DEF Holds
    <3> QED
      BY <2>7, <3>1, <3>2 DEF Reread
  <2>8. CASE Retire(p) \/ RetireFails(p)
    <3>0. at[p].pc = "retire" /\ UNCHANGED <<alive, retained>> /\ retained[p] = {}
      BY <2>8, <2>i DEF Retire, RetireFails, running
    <3>1. PICK result : settle(p, result)
      BY <2>8 DEF Retire, RetireFails
    <3>2. Alone /\ at'[p] = [at[p] EXCEPT !.pc = "check", !.result = result]
      BY <2>e, <3>0, <3>1 DEF settle
    <3>3. at'[p].pc = "check" /\ at'[p].path = at[p].path /\ at'[p].token = at[p].token /\ Shrinks
      BY <2>k, <3>2
    <3>4. CASE UNCHANGED dirs
      BY <2>b, <2>c, <2>j, <3>0, <3>2, <3>3, <3>4 DEF Holds
    <3>5. CASE dirs' = without(lockPath(p))
      <4>1. Kept /\ Others
        BY <2>d, <3>0, <3>2, <3>5
      <4>2. lockPath(p) # at[p].path
        BY <2>a, <3>0, RetiredIsDead
      <4>3. Secure(p)'
        BY <2>a, <3>0, <3>3, <3>5, <4>2 DEF Secure, Holds, mine, owned, exists, without
      <4> QED
        BY <2>b, <3>0, <3>2, <3>3, <4>1, <4>3
    <3> QED
      BY <2>8, <3>4, <3>5 DEF Retire, RetireFails
  <2>9. CASE Rename(p)
    <3>0. /\ at[p].pc = "rename" /\ UNCHANGED <<alive, retained>> /\ retained[p] = {}
          /\ dirs' = without(at[p].path)
      BY <2>9, <2>i DEF Rename, running
    <3>1. at[p].path \in DOMAIN dirs /\ dirs[at[p].path].pid = p
      BY <2>a, <3>0 DEF Secure, Holds, mine, owned, exists
    <3>2. CASE throw(p)
      BY <2>b, <2>d, <2>e, <2>m, <3>0, <3>1, <3>2 DEF throw
    <3>3. CASE at[p].path # <<>> /\ inspected(p, lockPath(p), at[p].result)
      <4>1. Alone /\ at'[p].pc \in {"idle", "mkdir", "wait"} /\ at'[p].path \in {<<>>, lockPath(p)}
        BY <2>l, <3>0, <3>3
      <4>2. Shrinks
        BY <2>a, <3>3, <4>1, FrontLast DEF lockPath
      <4> QED
        BY <2>b, <2>d, <2>h, <3>0, <3>1, <4>1, <4>2
    <3> QED
      BY <2>9, <3>2, <3>3 DEF Rename, released
  <2>10. CASE RenameFails(p)
    <3>0. at[p].pc = "rename" /\ UNCHANGED alive /\ retained[p] = {} /\ throw(p)
      BY <2>10, <2>i DEF RenameFails, running
    <3>1. mine(p, at[p].path, at[p].token)
      BY <2>a, <3>0 DEF Secure, Holds
    <3>2. CASE dirs' = without(at[p].path) /\ UNCHANGED retained
      BY <2>b, <2>d, <2>e, <2>m, <3>0, <3>1, <3>2 DEF throw, mine, owned, exists
    <3>3. CASE /\ UNCHANGED dirs
               /\ retained' = [retained EXCEPT ![p] = @ \cup {[path |-> at[p].path, token |-> at[p].token]}]
      <4> DEFINE l == [path |-> at[p].path, token |-> at[p].token]
      <4>1. Alone /\ at'[p] = Idle /\ retained'[p] = {l}
        BY <2>f, <3>0, <3>3 DEF throw
      <4>2. at'[p].path = <<>> /\ at'[p].pc = "idle"
        BY <4>1 DEF Idle
      <4>3. mine(p, l.path, l.token)
        BY <3>1
      <4>4. \A m \in retained'[p] : mine(p, m.path, m.token)'
        BY <3>3, <4>1, <4>3 DEF mine, owned, exists
      <4>5. Secure(p)' /\ Shrinks
        BY <4>2, <4>4, IdleIsSecure
      <4> QED
        BY <2>b, <2>c, <3>0, <3>3, <4>1, <4>5
    <3> QED
      BY <2>10, <3>2, <3>3 DEF RenameFails
  <2>11. CASE WriteFails(p)
    <3>0. at[p].pc = "write" /\ UNCHANGED <<alive, retained>> /\ retained[p] = {}
      BY <2>11, <2>i DEF WriteFails, running
    <3>1. at[p].path \in DOMAIN dirs /\ dirs[at[p].path].pid = p
      BY <2>a, <3>0 DEF Secure, exists
    <3>2. CASE dirs' = without(at[p].path) /\ throw(p)
      BY <2>b, <2>d, <2>e, <2>m, <3>0, <3>1, <3>2 DEF throw
    <3>3. CASE UNCHANGED dirs /\ throw(p)
      BY <2>b, <2>c, <2>e, <2>m, <3>0, <3>3 DEF throw
    <3>4. CASE /\ dirs' = with(at[p].path, [dirs[at[p].path] EXCEPT !.written = TRUE])
               /\ move(p, [at[p] EXCEPT !.pc = "check", !.result = "failed"])
      <4>1. Alone /\ at'[p] = [at[p] EXCEPT !.pc = "check", !.result = "failed"]
        BY <2>e, <3>0, <3>4
      <4>2. at'[p].pc = "check" /\ at'[p].path = at[p].path /\ at'[p].token = at[p].token /\ Shrinks
        BY <2>k, <4>1
      <4>3. /\ Kept /\ Others /\ at[p].path \in DOMAIN dirs' /\ dirs'[at[p].path].token = at[p].token
            /\ dirs'[at[p].path].pid = p /\ dirs'[at[p].path].written
        BY <2>0, <3>0, <3>4, <4>1, WritingDisturbsNobody DEF Alone, Others
      <4>4. Secure(p)'
        BY <3>0, <4>2, <4>3 DEF Secure, mine, owned, exists
      <4> QED
        BY <2>b, <3>0, <4>1, <4>2, <4>3, <4>4
    <3> QED
      BY <2>11, <3>2, <3>3, <3>4 DEF WriteFails
  <2>12. CASE Crash(p)
    <3>1. /\ UNCHANGED dirs /\ alive' = alive \ {p} /\ throw(p)
          /\ retained' = [retained EXCEPT ![p] = {}]
      BY <2>12 DEF Crash
    <3>2. Alone
      BY <2>f, <3>1 DEF throw
    <3> QED
      BY <2>b, <2>c, <3>1, <3>2
  <2> QED
    BY <1>2, <2>1, <2>2, <2>3, <2>4, <2>5, <2>6, <2>7, <2>8, <2>9, <2>10, <2>11, <2>12
    DEF Step, Trouble
<1> QED
  BY <1>1, <1>2 DEF Next

(* The types and the invariant hold in every reachable state. *)
LEMMA LockInvariant == Spec => [](LockTypes /\ OwnershipInv)
BY LockInit, LockTypesNext, OwnershipNext, PTL DEF Spec

(* Ownership is never lost: whatever other processes observed, reclaimed   *)
(* or retried, and wherever they died or failed, the lock or gate that a   *)
(* live process holds, and each one it has still to release, is on disk    *)
(* with its own token.                                                     *)
THEOREM LockOwnershipKept == Spec => []OwnershipNeverLost
<1>1. LockTypes /\ OwnershipInv => OwnershipNeverLost
  BY DEF OwnershipInv, OwnershipNeverLost, Secure, mine
<1> QED
  BY <1>1, LockInvariant, PTL

(* Mutual exclusion: two live processes never hold the same lock, or the   *)
(* same reclaim gate, at once.                                             *)
LockExclusive ==
  \A p, q \in alive : Holds(p) /\ Holds(q) /\ at[p].path = at[q].path => p = q

(* acquireDurableFileLockSync excludes, and so does every reclaim gate,    *)
(* through any number of owners that died and gates that they left.        *)
THEOREM LockExcludes == Spec => []LockExclusive
<1>1. LockTypes /\ OwnershipInv => LockExclusive
  <2>1. ASSUME OwnershipInv, NEW p \in alive, Holds(p) PROVE dirs[at[p].path].pid = p
    BY <2>1 DEF OwnershipInv, Secure, mine
  <2> QED
    BY <2>1 DEF LockExclusive
<1> QED
  BY <1>1, LockInvariant, PTL
=============================================================================
