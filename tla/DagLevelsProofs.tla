---------------------------- MODULE DagLevelsProofs ----------------------------
(***************************************************************************)
(* The level assignment of dag-v2 implements the abstract level plan, for  *)
(* every set of calls, every batch size and either setting of              *)
(* strictExtensionClaims.                                                  *)
(***************************************************************************)
EXTENDS DagLevels, Integers, FiniteSetTheorems, SequenceTheorems, WellFoundedInduction, TLAPS

(* What resolveToolClaimsForCall answers: exclusive, or claims to read and *)
(* to write.                                                               *)
Resolved == {Resolution(call) : call \in ToolCalls}
AllClaims == UNION {r.claims : r \in Resolved}
LevelStates == [indices : SUBSET Nat, writeClaims : SUBSET AllClaims,
                readClaims : SUBSET AllClaims, hasExclusive : BOOLEAN]

(* The types of the scheduler's state; a scan is over the levels there are. *)
LevelTypes ==
  /\ entries \in Seq(Resolved)
  /\ levels \in Seq(LevelStates) /\ Len(levels) <= Len(entries)
  /\ pending = {} \/ \E call \in ToolCalls : pending = {call}
  /\ levelIndex \in 0..Len(levels) /\ targetIndex \in 0..levelIndex

(* Every call is on exactly one level and no level is empty. *)
LevelsPartition ==
  /\ \A i \in Placed : \E k \in 1..Len(levels) : i \in levels[k].indices
  /\ \A k \in 1..Len(levels) : levels[k].indices \subseteq Placed /\ levels[k].indices # {}
  /\ \A k, m \in 1..Len(levels) : \A i \in levels[k].indices : i \in levels[m].indices => m = k

(* The claims a level keeps stand for its calls: a call conflicts with the *)
(* level when it conflicts with one of them.                               *)
SummariesExact ==
  \A k \in 1..Len(levels) : \A r \in Resolved :
    resolutionConflictsLevel(r, levels[k]) <=>
      \E i \in levels[k].indices : resolutionsConflict(r, entries[i])

(* The target is one past the last conflicting level scanned so far. *)
ScanInv ==
  \A call \in pending :
    /\ \A m \in 1..levelIndex : resolutionConflictsLevel(Resolution(call), levels[m]) => m <= targetIndex
    /\ targetIndex = 0 \/ resolutionConflictsLevel(Resolution(call), levels[targetIndex])

(* A call is on a higher level than every earlier one it conflicts with. *)
ConflictsAscend ==
  \A k, m \in 1..Len(levels) : \A i \in levels[k].indices, j \in levels[m].indices :
    i < j /\ resolutionsConflict(entries[i], entries[j]) => k < m

LevelInv == LevelTypes /\ LevelsPartition /\ SummariesExact /\ ScanInv /\ ConflictsAscend
--------------------------------------------------------------------------------
(* A resolution that is not exclusive claims reads and writes only: an     *)
(* exclusive claim of a custom tool isolates its call.                     *)
LEMMA ResolutionShape ==
  ASSUME NEW r \in Resolved
  PROVE  \/ r = Exclusive
         \/ r.kind = "claims" /\ \A c \in r.claims : c.access \in {"read", "write"}
<1>1. PICK call \in ToolCalls : r = resolveToolClaimsForCall(call, strictExtensionClaims)
  BY DEF Resolved, Resolution
<1>2. ASSUME NEW path, NEW access \in {"read", "write"}, r = resolvePathClaim(path, access)
      PROVE  r = Exclusive \/ (r.kind = "claims" /\ \A c \in r.claims : c.access \in {"read", "write"})
  <2>1. CASE path = NullPath
    BY <1>2, <2>1 DEF resolvePathClaim
  <2>2. CASE path # NullPath
    <3>1. r = Claims({[kind |-> "path", key |-> path.key, realKey |-> path.realKey,
                       inode |-> path.inode, access |-> access]})
      BY <1>2, <2>2 DEF resolvePathClaim
    <3>2. QED
      BY <3>1 DEF Claims
  <2>3. QED
    BY <2>1, <2>2
<1>3. CASE call.declares = "undeclared"
  <2>1. r = resolveToolClaims(call, strictExtensionClaims)
    BY <1>1, <1>3 DEF resolveToolClaimsForCall
  <2>2. builtinPathAccess(call.name) \in {"read", "write"}
    BY DEF builtinPathAccess
  <2>3. r = Exclusive \/ r = Claims({}) \/ r = resolvePathClaim(call.path, builtinPathAccess(call.name))
    BY <2>1 DEF resolveToolClaims
  <2>4. Claims({}).kind = "claims" /\ Claims({}).claims = {}
    BY DEF Claims
  <2>5. QED
    BY <1>2, <2>2, <2>3, <2>4
<1>4. CASE call.declares # "undeclared"
  <2>1. r = Exclusive \/ r = normalizeCustomClaims(call.raws)
    BY <1>1, <1>4 DEF resolveToolClaimsForCall
  <2>2. CASE r # Exclusive
    <3>1. r = Claims(call.raws) /\ \A raw \in call.raws : isWellFormed(raw) /\ raw.access # "exclusive"
      BY <2>1, <2>2 DEF normalizeCustomClaims
    <3>2. r.kind = "claims" /\ r.claims = call.raws
      BY <3>1 DEF Claims
    <3>3. QED
      BY <3>1, <3>2 DEF isWellFormed
  <2>3. QED
    BY <2>2
<1>5. QED
  BY <1>3, <1>4

(* Conflict is symmetric. *)
LEMMA ConflictSymmetric ==
  ASSUME NEW l, NEW r
  PROVE  resolutionsConflict(l, r) <=> resolutionsConflict(r, l)
<1>1. ASSUME NEW c, NEW d PROVE claimsConflict(c, d) <=> claimsConflict(d, c)
  <2>1. pathClaimsOverlap(c, d) <=> pathClaimsOverlap(d, c)
    BY DEF pathClaimsOverlap, pathSegmentsOverlap
  <2>2. QED
    BY <2>1 DEF claimsConflict
<1>2. QED
  BY <1>1 DEF resolutionsConflict

(* joinLevel: what conflicts with the level afterwards is what did before  *)
(* and what conflicts with the call that joined.                           *)
LEMMA JoinConflicts ==
  ASSUME NEW level \in LevelStates, NEW i, NEW q \in Resolved, NEW r \in Resolved
  PROVE  resolutionConflictsLevel(r, joinLevel(level, i, q)) <=>
           resolutionConflictsLevel(r, level) \/ resolutionsConflict(r, q)
<1>1. Exclusive.kind = "exclusive" /\ Exclusive.claims = {}
  BY DEF Exclusive
<1>2. CASE q = Exclusive
  <2>1. joinLevel(level, i, q).hasExclusive
    BY <1>1, <1>2 DEF joinLevel
  <2>2. QED
    BY <1>1, <1>2, <2>1 DEF resolutionConflictsLevel, resolutionsConflict
<1>3. CASE r = Exclusive
  BY <1>1, <1>3 DEF resolutionConflictsLevel, resolutionsConflict
<1>4. CASE q # Exclusive /\ r # Exclusive
  <2>1. /\ q.kind = "claims" /\ \A c \in q.claims : c.access \in {"read", "write"}
        /\ r.kind = "claims" /\ \A c \in r.claims : c.access \in {"read", "write"}
    BY <1>4, ResolutionShape
  <2>2. /\ joinLevel(level, i, q).writeClaims = level.writeClaims \cup {c \in q.claims : c.access = "write"}
        /\ joinLevel(level, i, q).readClaims = level.readClaims \cup {c \in q.claims : c.access = "read"}
        /\ joinLevel(level, i, q).hasExclusive <=> level.hasExclusive
    <3>1. ~(q.kind = "exclusive" \/ \E c \in q.claims : c.access = "exclusive")
      BY <2>1
    <3>2. q.claims \ {c \in q.claims : c.access = "write"} = {c \in q.claims : c.access = "read"}
      BY <2>1
    <3>3. QED
      BY <3>1, <3>2 DEF joinLevel, LevelStates
  <2>3. ASSUME NEW c \in r.claims, NEW d \in q.claims
        PROVE  claimsConflict(c, d) <=> claimsConflict(c, d) /\ (d.access = "write" \/ (d.access = "read" /\ c.access = "write"))
    BY <2>1 DEF claimsConflict
  <2>4. resolutionsConflict(r, q) <=> \E c \in r.claims, d \in q.claims : claimsConflict(c, d)
    BY <2>1 DEF resolutionsConflict
  <2>5. QED
    BY <2>1, <2>2, <2>3, <2>4 DEF resolutionConflictsLevel, claimConflictsAny
<1>5. QED
  BY <1>2, <1>3, <1>4

(* A level of one call conflicts with what that call conflicts with. *)
LEMMA FirstConflicts ==
  ASSUME NEW i, NEW q \in Resolved, NEW r \in Resolved
  PROVE  resolutionConflictsLevel(r, joinLevel(EmptyLevel, i, q)) <=> resolutionsConflict(r, q)
<1>1. EmptyLevel \in LevelStates /\ EmptyLevel.hasExclusive = FALSE /\ EmptyLevel.writeClaims = {} /\ EmptyLevel.readClaims = {}
  BY DEF EmptyLevel, LevelStates
<1>2. resolutionConflictsLevel(r, EmptyLevel) => r = Exclusive
  BY <1>1, ResolutionShape DEF resolutionConflictsLevel, claimConflictsAny
<1>3. r = Exclusive => resolutionsConflict(r, q)
  BY DEF Exclusive, resolutionsConflict
<1>4. QED
  BY <1>1, <1>2, <1>3, JoinConflicts

(* A level stays one when a call joins it. *)
LEMMA JoinTyped ==
  ASSUME NEW level \in LevelStates, NEW i \in Nat, NEW q \in Resolved
  PROVE  joinLevel(level, i, q) \in LevelStates /\ joinLevel(level, i, q).indices = level.indices \cup {i}
<1>1. q.claims \subseteq AllClaims
  BY DEF AllClaims
<1>2. level.indices \in SUBSET Nat /\ level.writeClaims \subseteq AllClaims /\ level.readClaims \subseteq AllClaims
  BY DEF LevelStates
<1>3. PICK w, d, x : /\ joinLevel(level, i, q) = [indices |-> level.indices \cup {i}, writeClaims |-> w,
                                                   readClaims |-> d, hasExclusive |-> x]
                     /\ w \subseteq AllClaims /\ d \subseteq AllClaims /\ x \in BOOLEAN
  <2>1. PICK x \in BOOLEAN :
          x = (level.hasExclusive \/ q.kind = "exclusive" \/ \E c \in q.claims : c.access = "exclusive")
    OBVIOUS
  <2>2. PICK w \in SUBSET AllClaims :
          w = IF q.kind = "exclusive" \/ \E c \in q.claims : c.access = "exclusive" THEN level.writeClaims
              ELSE level.writeClaims \cup {c \in q.claims : c.access = "write"}
    BY <1>1, <1>2
  <2>3. PICK d \in SUBSET AllClaims :
          d = IF q.kind = "exclusive" \/ \E c \in q.claims : c.access = "exclusive" THEN level.readClaims
              ELSE level.readClaims \cup (q.claims \ {c \in q.claims : c.access = "write"})
    BY <1>1, <1>2
  <2>4. joinLevel(level, i, q) = [indices |-> level.indices \cup {i}, writeClaims |-> w, readClaims |-> d, hasExclusive |-> x]
    BY <2>1, <2>2, <2>3, Zenon DEF joinLevel
  <2>5. QED
    BY <2>1, <2>2, <2>3, <2>4
<1>4. QED
  BY <1>2, <1>3 DEF LevelStates

(* A call on exactly one level has that level. *)
LEMMA OnlyLevel ==
  ASSUME NEW ls, NEW i, NEW k \in 1..Len(ls), i \in ls[k].indices,
         \A m \in 1..Len(ls) : i \in ls[m].indices => m = k
  PROVE  (CHOOSE m \in 1..Len(ls) : i \in ls[m].indices) = k
  OBVIOUS

--------------------------------------------------------------------------------
(* The scan of a new call starts before the first level. *)
LEMMA NextEntryKeeps ==
  ASSUME LevelInv, NEW call \in ToolCalls, NextEntry(call)
  PROVE  LevelInv'
<1>1. pending' = {call} /\ levelIndex' = 0 /\ targetIndex' = 0 /\ UNCHANGED <<entries, levels>> /\ Len(levels) \in Nat
  BY DEF NextEntry, LevelInv, LevelTypes
<1>2. LevelTypes'
  BY <1>1 DEF LevelInv, LevelTypes
<1>3. LevelsPartition' /\ SummariesExact' /\ ConflictsAscend'
  BY <1>1 DEF LevelInv, LevelsPartition, SummariesExact, ConflictsAscend, Placed
<1>4. ScanInv'
  BY <1>1 DEF ScanInv
<1>5. QED
  BY <1>2, <1>3, <1>4 DEF LevelInv

(* One more level is scanned. *)
LEMMA ScanLevelKeeps ==
  ASSUME LevelInv, NEW call \in ToolCalls, ScanLevel(call)
  PROVE  LevelInv'
<1>1. LevelTypes /\ ScanInv /\ Len(levels) \in Nat /\ levelIndex \in Nat /\ targetIndex \in Nat /\ targetIndex <= levelIndex
  BY DEF LevelInv, LevelTypes
<1>2. /\ call \in pending /\ levelIndex < Len(levels) /\ levelIndex' = levelIndex + 1
      /\ targetIndex' = IF resolutionConflictsLevel(Resolution(call), levels[levelIndex + 1])
                        THEN levelIndex + 1 ELSE targetIndex
      /\ UNCHANGED <<entries, levels, pending>>
  BY DEF ScanLevel
<1>3. pending = {call}
  BY <1>1, <1>2 DEF LevelTypes
<1>4. levelIndex' \in 0..Len(levels) /\ targetIndex' \in 0..levelIndex'
  BY <1>1, <1>2
<1>5. LevelTypes'
  BY <1>1, <1>2, <1>4 DEF LevelTypes
<1>6. LevelsPartition' /\ SummariesExact' /\ ConflictsAscend'
  BY <1>2 DEF LevelInv, LevelsPartition, SummariesExact, ConflictsAscend, Placed
<1>7. /\ \A m \in 1..levelIndex : resolutionConflictsLevel(Resolution(call), levels[m]) => m <= targetIndex
      /\ targetIndex = 0 \/ resolutionConflictsLevel(Resolution(call), levels[targetIndex])
  BY <1>1, <1>2 DEF ScanInv
<1>8. CASE resolutionConflictsLevel(Resolution(call), levels[levelIndex + 1])
  <2>1. targetIndex' = levelIndex + 1
    BY <1>2, <1>8
  <2>2. \A m \in 1..levelIndex' : m <= targetIndex'
    BY <1>1, <1>2, <2>1
  <2>3. ScanInv'
    BY <1>2, <1>3, <1>8, <2>1, <2>2 DEF ScanInv
  <2>4. QED
    BY <1>5, <1>6, <2>3 DEF LevelInv
<1>9. CASE ~resolutionConflictsLevel(Resolution(call), levels[levelIndex + 1])
  <2>1. targetIndex' = targetIndex
    BY <1>2, <1>9
  <2>2. ASSUME NEW m \in 1..levelIndex', resolutionConflictsLevel(Resolution(call), levels[m]) PROVE m <= targetIndex
    <3>1. m # levelIndex + 1
      BY <1>9, <2>2
    <3>2. m \in 1..levelIndex
      BY <1>1, <1>2, <3>1
    <3>3. QED
      BY <1>7, <2>2, <3>2
  <2>3. ScanInv'
    BY <1>2, <1>3, <1>7, <2>1, <2>2 DEF ScanInv
  <2>4. QED
    BY <1>5, <1>6, <2>3 DEF LevelInv
<1>10. QED
  BY <1>8, <1>9

(* What the end of a scan has found: the levels with an earlier conflict   *)
(* are below the target, and the one directly below it is such a level.    *)
LEMMA TargetFound ==
  ASSUME LevelInv, NEW call \in ToolCalls, call \in pending, levelIndex = Len(levels)
  PROVE  /\ \A k \in 1..Len(levels) : \A j \in levels[k].indices :
              resolutionsConflict(Resolution(call), entries[j]) => k <= targetIndex
         /\ targetIndex = 0 \/ \E j \in levels[targetIndex].indices : resolutionsConflict(Resolution(call), entries[j])
<1>1. LevelTypes /\ SummariesExact /\ Resolution(call) \in Resolved /\ Len(levels) \in Nat
  BY DEF LevelInv, LevelTypes, Resolved
<1>2. /\ \A m \in 1..Len(levels) : resolutionConflictsLevel(Resolution(call), levels[m]) => m <= targetIndex
      /\ targetIndex = 0 \/ resolutionConflictsLevel(Resolution(call), levels[targetIndex])
  BY DEF LevelInv, ScanInv
<1>3. targetIndex = 0 \/ targetIndex \in 1..Len(levels)
  BY <1>1 DEF LevelTypes
<1>4. QED
  BY <1>1, <1>2, <1>3 DEF SummariesExact

(* Where a call is put: one level gains it, the others are as they were. *)
LEMMA PlaceShape ==
  ASSUME LevelInv, NEW call \in ToolCalls, PlaceEntry(call)
  PROVE  \E n \in Nat, q \in Resolved :
           /\ n = Len(entries) + 1 /\ q = Resolution(call) /\ entries' = Append(entries, q) /\ pending' = {}
           /\ entries' \in Seq(Resolved) /\ Len(entries') = n /\ entries'[n] = q
           /\ \A i \in 1..Len(entries) : entries'[i] = entries[i]
           /\ levels' \in Seq(LevelStates) /\ targetIndex + 1 \in 1..Len(levels')
           /\ \/ targetIndex = Len(levels) /\ Len(levels') = Len(levels) + 1
                 /\ levels'[targetIndex + 1] = joinLevel(EmptyLevel, n, q)
              \/ targetIndex < Len(levels) /\ Len(levels') = Len(levels)
                 /\ levels'[targetIndex + 1] = joinLevel(levels[targetIndex + 1], n, q)
           /\ \A k \in 1..Len(levels) : k # targetIndex + 1 => levels'[k] = levels[k]
<1>1. /\ entries \in Seq(Resolved) /\ Len(entries) \in Nat /\ levels \in Seq(LevelStates) /\ Len(levels) \in Nat
      /\ targetIndex \in Nat /\ targetIndex <= Len(levels) /\ Resolution(call) \in Resolved
  BY DEF LevelInv, LevelTypes, Resolved
<1>2. PICK n \in Nat, q \in Resolved : n = Len(entries) + 1 /\ q = Resolution(call)
  BY <1>1
<1>3. entries' = Append(entries, q) /\ pending' = {}
  BY <1>2 DEF PlaceEntry
<1>4. /\ entries' \in Seq(Resolved) /\ Len(entries') = n /\ entries'[n] = q
      /\ \A i \in 1..Len(entries) : entries'[i] = entries[i]
  BY <1>1, <1>2, <1>3
<1>5. EmptyLevel \in LevelStates
  BY DEF EmptyLevel, LevelStates
<1>6. CASE targetIndex = Len(levels)
  <2>1. PICK l \in LevelStates : l = joinLevel(EmptyLevel, n, q)
    BY <1>5, JoinTyped
  <2>2. levels' = Append(levels, l)
    BY <1>2, <1>6, <2>1 DEF PlaceEntry
  <2>3. /\ levels' \in Seq(LevelStates) /\ Len(levels') = Len(levels) + 1 /\ levels'[targetIndex + 1] = l
        /\ \A k \in 1..Len(levels) : levels'[k] = levels[k]
    BY <1>1, <1>6, <2>2
  <2>4. targetIndex + 1 \in 1..Len(levels')
    BY <1>1, <1>6, <2>3
  <2>5. QED
    BY <1>2, <1>3, <1>4, <1>6, <2>1, <2>3, <2>4
<1>7. CASE targetIndex # Len(levels)
  <2>1. targetIndex + 1 \in 1..Len(levels) /\ targetIndex < Len(levels)
    BY <1>1, <1>7
  <2>2. levels[targetIndex + 1] \in LevelStates
    BY <1>1, <2>1
  <2>3. PICK l \in LevelStates : l = joinLevel(levels[targetIndex + 1], n, q)
    BY <2>2, JoinTyped
  <2>4. levels' = [levels EXCEPT ![targetIndex + 1] = l]
    BY <1>2, <1>7, <2>3 DEF PlaceEntry
  <2>5. /\ levels' \in Seq(LevelStates) /\ Len(levels') = Len(levels) /\ levels'[targetIndex + 1] = l
        /\ \A k \in 1..Len(levels) : k # targetIndex + 1 => levels'[k] = levels[k]
    BY <1>1, <2>1, <2>4
  <2>6. QED
    BY <1>2, <1>3, <1>4, <2>1, <2>3, <2>5
<1>8. QED
  BY <1>6, <1>7

(* The levels after a call is placed partition the calls. *)
LEMMA PlaceEntryKeeps ==
  ASSUME LevelInv, NEW call \in ToolCalls, PlaceEntry(call)
  PROVE  /\ LevelInv' /\ entries' = Append(entries, Resolution(call)) /\ Len(entries') = Len(entries) + 1
         /\ targetIndex + 1 \in 1..Len(levels') /\ Len(entries) + 1 \in levels'[targetIndex + 1].indices
         /\ \A k \in 1..Len(levels) : k \in 1..Len(levels') /\ levels[k].indices \subseteq levels'[k].indices
<1>1. /\ LevelTypes /\ LevelsPartition /\ SummariesExact /\ Len(entries) \in Nat /\ Len(levels) \in Nat
      /\ levelIndex \in 0..Len(levels) /\ targetIndex \in 0..levelIndex /\ Len(levels) <= Len(entries)
      /\ levels \in Seq(LevelStates) /\ entries \in Seq(Resolved)
  BY DEF LevelInv, LevelTypes
<1>2. PICK n \in Nat, q \in Resolved :
           /\ n = Len(entries) + 1 /\ q = Resolution(call) /\ entries' = Append(entries, q) /\ pending' = {}
           /\ entries' \in Seq(Resolved) /\ Len(entries') = n /\ entries'[n] = q
           /\ \A i \in 1..Len(entries) : entries'[i] = entries[i]
           /\ levels' \in Seq(LevelStates) /\ targetIndex + 1 \in 1..Len(levels')
           /\ \/ targetIndex = Len(levels) /\ Len(levels') = Len(levels) + 1
                 /\ levels'[targetIndex + 1] = joinLevel(EmptyLevel, n, q)
              \/ targetIndex < Len(levels) /\ Len(levels') = Len(levels)
                 /\ levels'[targetIndex + 1] = joinLevel(levels[targetIndex + 1], n, q)
           /\ \A k \in 1..Len(levels) : k # targetIndex + 1 => levels'[k] = levels[k]
  BY PlaceShape
<1>3. UNCHANGED <<levelIndex, targetIndex>>
  BY DEF PlaceEntry
<1>4. LevelTypes'
  <2>1. Len(levels') <= Len(entries') /\ Len(levels') \in Nat /\ Len(levels) <= Len(levels')
    BY <1>1, <1>2
  <2>2. levelIndex' \in 0..Len(levels') /\ targetIndex' \in 0..levelIndex'
    BY <1>1, <1>3, <2>1
  <2>3. QED
    BY <1>2, <2>1, <2>2 DEF LevelTypes
<1>5. PICK t \in 1..Len(levels') : t = targetIndex + 1
  BY <1>2
<1>6. PICK old \in SUBSET Nat :
        /\ levels'[t].indices = old \cup {n} /\ old \subseteq 1..Len(entries)
        /\ t \in 1..Len(levels) => old = levels[t].indices
        /\ t \notin 1..Len(levels) => old = {}
  <2>1. EmptyLevel \in LevelStates /\ EmptyLevel.indices = {}
    BY DEF EmptyLevel, LevelStates
  <2>2. CASE targetIndex = Len(levels)
    <3>1. levels'[t].indices = {n} /\ t \notin 1..Len(levels)
      <4>1. levels'[t] = joinLevel(EmptyLevel, n, q)
        BY <1>1, <1>2, <1>5, <2>2
      <4>2. levels'[t].indices = {} \cup {n}
        BY <2>1, <4>1, JoinTyped
      <4>3. t \notin 1..Len(levels)
        BY <1>1, <1>5, <2>2
      <4>4. QED
        BY <4>2, <4>3
    <3>2. {} \in SUBSET Nat /\ {} \subseteq 1..Len(entries) /\ {n} = {} \cup {n}
      OBVIOUS
    <3>3. QED
      BY <3>1, <3>2
  <2>3. CASE targetIndex < Len(levels)
    <3>1. t \in 1..Len(levels)
      BY <1>1, <1>5, <2>3
    <3>2. levels[t] \in LevelStates /\ levels'[t] = joinLevel(levels[t], n, q)
      BY <1>1, <1>2, <1>5, <2>3, <3>1
    <3>3. levels'[t].indices = levels[t].indices \cup {n} /\ levels[t].indices \in SUBSET Nat
      BY <3>2, JoinTyped DEF LevelStates
    <3>4. levels[t].indices \subseteq 1..Len(entries)
      BY <1>1, <3>1 DEF LevelsPartition, Placed
    <3>5. QED
      BY <3>1, <3>3, <3>4
  <2>4. QED
    BY <1>2, <2>2, <2>3
<1>7. \A k \in 1..Len(levels') : k # t => k \in 1..Len(levels) /\ levels'[k] = levels[k]
  BY <1>1, <1>2, <1>5
<1>8. Len(levels) <= Len(levels') /\ Len(levels') \in Nat /\ n \notin 1..Len(entries) /\ 1..n = (1..Len(entries)) \cup {n}
  BY <1>1, <1>2
<1>9. LevelsPartition'
  <2>1. ASSUME NEW i \in 1..n PROVE \E k \in 1..Len(levels') : i \in levels'[k].indices
    <3>1. CASE i = n
      BY <1>6, <3>1
    <3>2. CASE i # n
      <4>1. PICK k \in 1..Len(levels) : i \in levels[k].indices
        BY <1>1, <1>8, <2>1, <3>2 DEF LevelsPartition, Placed
      <4>2. k \in 1..Len(levels')
        BY <1>1, <1>8
      <4>3. QED
        BY <1>6, <1>7, <4>1, <4>2
    <3>3. QED
      BY <3>1, <3>2
  <2>2. ASSUME NEW k \in 1..Len(levels') PROVE levels'[k].indices \subseteq 1..n /\ levels'[k].indices # {}
    BY <1>1, <1>6, <1>7, <1>8 DEF LevelsPartition, Placed
  <2>3. ASSUME NEW k \in 1..Len(levels'), NEW m \in 1..Len(levels'), NEW i, i \in levels'[k].indices, i \in levels'[m].indices
        PROVE  m = k
    <3>1. CASE i = n
      <4>1. ASSUME NEW x \in 1..Len(levels'), n \in levels'[x].indices PROVE x = t
        BY <1>1, <1>7, <1>8, <4>1 DEF LevelsPartition, Placed
      <4>2. QED
        BY <2>3, <3>1, <4>1
    <3>2. CASE i # n
      <4>1. ASSUME NEW x \in 1..Len(levels'), i \in levels'[x].indices
            PROVE  x \in 1..Len(levels) /\ i \in levels[x].indices
        <5>1. CASE x = t
          BY <1>6, <3>2, <4>1, <5>1
        <5>2. CASE x # t
          BY <1>7, <4>1, <5>2
        <5>3. QED
          BY <5>1, <5>2
      <4>2. QED
        BY <1>1, <2>3, <4>1 DEF LevelsPartition
    <3>3. QED
      BY <3>1, <3>2
  <2>4. QED
    BY <1>2, <2>1, <2>2, <2>3 DEF LevelsPartition, Placed
<1>10. SummariesExact'
  <2>1. SUFFICES ASSUME NEW k \in 1..Len(levels'), NEW r \in Resolved
                 PROVE  resolutionConflictsLevel(r, levels'[k]) <=>
                          \E i \in levels'[k].indices : resolutionsConflict(r, entries'[i])
    BY DEF SummariesExact
  <2>2. CASE k # t
    <3>1. k \in 1..Len(levels) /\ levels'[k] = levels[k] /\ levels[k].indices \subseteq 1..Len(entries)
      BY <1>1, <1>7, <2>2 DEF LevelsPartition, Placed
    <3>2. \A i \in levels[k].indices : entries'[i] = entries[i]
      BY <1>2, <3>1
    <3>3. resolutionConflictsLevel(r, levels[k]) <=> \E i \in levels[k].indices : resolutionsConflict(r, entries[i])
      BY <1>1, <3>1 DEF SummariesExact
    <3>4. QED
      BY <3>1, <3>2, <3>3
  <2>3. CASE k = t
    <3>1. (\E i \in levels'[t].indices : resolutionsConflict(r, entries'[i])) <=>
            (\E i \in old : resolutionsConflict(r, entries[i])) \/ resolutionsConflict(r, q)
      BY <1>2, <1>6
    <3>2. CASE targetIndex = Len(levels)
      <4>1. old = {} /\ levels'[t] = joinLevel(EmptyLevel, n, q)
        BY <1>1, <1>2, <1>5, <1>6, <3>2
      <4>2. QED
        BY <2>3, <3>1, <4>1, FirstConflicts
    <3>3. CASE targetIndex < Len(levels)
      <4>1. t \in 1..Len(levels)
        BY <1>1, <1>5, <3>3
      <4>2. old = levels[t].indices /\ levels'[t] = joinLevel(levels[t], n, q) /\ levels[t] \in LevelStates
        BY <1>1, <1>2, <1>5, <1>6, <3>3, <4>1
      <4>3. resolutionConflictsLevel(r, levels[t]) <=> \E i \in old : resolutionsConflict(r, entries[i])
        BY <1>1, <4>1, <4>2 DEF SummariesExact
      <4>4. resolutionConflictsLevel(r, levels'[t]) <=> resolutionConflictsLevel(r, levels[t]) \/ resolutionsConflict(r, q)
        BY <4>2, JoinConflicts
      <4>5. QED
        BY <2>3, <3>1, <4>3, <4>4
    <3>4. QED
      BY <1>2, <3>2, <3>3
  <2>4. QED
    BY <2>2, <2>3
<1>11. ScanInv'
  BY <1>2 DEF ScanInv
<1>12. \A k \in 1..Len(levels) : k \in 1..Len(levels') /\ levels[k].indices \subseteq levels'[k].indices
  <2>1. \A k \in 1..Len(levels) : k \in 1..Len(levels')
    BY <1>1, <1>8
  <2>2. QED
    BY <1>6, <1>7, <2>1
<1>13. ConflictsAscend'
  <2>1. SUFFICES ASSUME NEW k \in 1..Len(levels'), NEW m \in 1..Len(levels'),
                        NEW i \in levels'[k].indices, NEW j \in levels'[m].indices,
                        i < j, resolutionsConflict(entries'[i], entries'[j])
                 PROVE  k < m
    BY DEF ConflictsAscend
  <2>2. /\ i \in 1..n /\ j \in 1..n /\ i # n /\ i \in 1..Len(entries) /\ entries'[i] = entries[i]
    <3>1. i \in 1..n /\ j \in 1..n
      BY <1>2, <1>9 DEF LevelsPartition, Placed
    <3>2. i # n
      BY <2>1, <3>1
    <3>3. QED
      BY <1>2, <1>8, <3>1, <3>2
  <2>3. ASSUME NEW x \in 1..Len(levels'), NEW y \in levels'[x].indices, y # n
        PROVE  x \in 1..Len(levels) /\ y \in levels[x].indices
    <3>1. CASE x = t
      BY <1>6, <2>3, <3>1
    <3>2. CASE x # t
      BY <1>7, <2>3, <3>2
    <3>3. QED
      BY <3>1, <3>2
  <2>4. k \in 1..Len(levels) /\ i \in levels[k].indices
    BY <2>2, <2>3
  <2>5. CASE j = n
    <3>1. m = t
      BY <1>6, <1>9, <2>5 DEF LevelsPartition
    <3>2. resolutionsConflict(q, entries[i])
      BY <1>2, <2>1, <2>2, <2>5, ConflictSymmetric
    <3>3. call \in pending /\ levelIndex = Len(levels)
      BY DEF PlaceEntry
    <3>4. k <= targetIndex
      BY <1>2, <2>4, <3>2, <3>3, TargetFound
    <3>5. QED
      BY <1>1, <1>5, <3>1, <3>4
  <2>6. CASE j # n
    <3>1. m \in 1..Len(levels) /\ j \in levels[m].indices /\ j \in 1..Len(entries) /\ entries'[j] = entries[j]
      BY <1>2, <1>8, <2>2, <2>3, <2>6
    <3>2. QED
      BY <2>1, <2>2, <2>4, <3>1 DEF LevelInv, ConflictsAscend
  <2>7. QED
    BY <2>5, <2>6
<1>14. QED
  BY <1>2, <1>4, <1>5, <1>6, <1>9, <1>10, <1>11, <1>12, <1>13 DEF LevelInv

(* The invariant holds of an empty batch. *)
LEMMA LevelInit ==
  ASSUME Init
  PROVE  LevelInv
<1>1. entries = <<>> /\ levels = <<>> /\ pending = {} /\ levelIndex = 0 /\ targetIndex = 0 /\ Len(<<>>) = 0
  BY DEF Init
<1>2. <<>> \in Seq(Resolved) /\ <<>> \in Seq(LevelStates) /\ 1..0 = {}
  OBVIOUS
<1>3. LevelTypes
  BY <1>1, <1>2 DEF LevelTypes
<1>4. LevelsPartition /\ SummariesExact /\ ScanInv /\ ConflictsAscend
  BY <1>1, <1>2 DEF LevelsPartition, SummariesExact, ScanInv, ConflictsAscend, Placed
<1>5. QED
  BY <1>3, <1>4 DEF LevelInv

(* Every state of the scheduler satisfies the invariant. *)
LEMMA LevelAlways == Spec => []LevelInv
<1>1. Init => LevelInv
  BY LevelInit
<1>2. LevelInv /\ [Next]_vars => LevelInv'
  <2>1. SUFFICES ASSUME LevelInv, [Next]_vars PROVE LevelInv'
    OBVIOUS
  <2>2. CASE UNCHANGED vars
    BY <2>1, <2>2 DEF vars, LevelInv, LevelTypes, LevelsPartition, SummariesExact, ScanInv, ConflictsAscend, Placed
  <2>3. CASE Next
    BY <2>1, <2>3, NextEntryKeeps, ScanLevelKeeps, PlaceEntryKeeps DEF Next
  <2>4. QED
    BY <2>1, <2>2, <2>3
<1>3. QED
  BY <1>1, <1>2, PTL DEF Spec

--------------------------------------------------------------------------------
(* The two modules mean the same by a conflict. *)
LEMMA SameConflicts ==
  ASSUME NEW l, NEW r
  PROVE  Abstract!resolutionsConflict(l, r) <=> resolutionsConflict(l, r)
<1>1. ASSUME NEW c, NEW d PROVE Abstract!claimsConflict(c, d) <=> claimsConflict(c, d)
  <2>1. \A p, q : Abstract!IsPrefix(p, q) <=> IsPrefix(p, q)
    BY DEF Abstract!IsPrefix, IsPrefix
  <2>2. Abstract!pathClaimsOverlap(c, d) <=> pathClaimsOverlap(c, d)
    BY <2>1 DEF Abstract!pathClaimsOverlap, pathClaimsOverlap, Abstract!pathSegmentsOverlap, pathSegmentsOverlap,
           Abstract!pathClaimKeys, pathClaimKeys, Abstract!NoInode, NoInode
  <2>3. QED
    BY <2>2 DEF Abstract!claimsConflict, claimsConflict
<1>2. QED
  BY <1>1 DEF Abstract!resolutionsConflict, resolutionsConflict

(* The level of a placed call is where the partition has it. *)
LEMMA LevelsKnown ==
  ASSUME LevelInv, NEW k \in 1..Len(levels), NEW i \in levels[k].indices
  PROVE  i \in Placed /\ LevelOf(i) = k - 1
<1>1. \A m \in 1..Len(levels) : i \in levels[m].indices => m = k
  BY DEF LevelInv, LevelsPartition
<1>2. (CHOOSE m \in 1..Len(levels) : i \in levels[m].indices) = k
  BY <1>1
<1>3. QED
  BY <1>2 DEF LevelInv, LevelsPartition, LevelOf

(* Placing a call is Place of the level plan, on the level after the last  *)
(* conflict.                                                               *)
LEMMA PlaceImplements ==
  ASSUME LevelInv, NEW call \in ToolCalls, PlaceEntry(call)
  PROVE  Abstract!PlanNext
<1>1. /\ Len(entries) \in Nat /\ Len(levels) \in Nat /\ Len(levels) <= Len(entries) /\ entries \in Seq(Resolved)
      /\ targetIndex \in 0..Len(levels) /\ Resolution(call) \in Resolved
  BY DEF LevelInv, LevelTypes, Resolved
<1>2. call \in pending /\ levelIndex = Len(levels)
  BY DEF PlaceEntry
<1>3. /\ LevelInv' /\ entries' = Append(entries, Resolution(call)) /\ Len(entries') = Len(entries) + 1
      /\ targetIndex + 1 \in 1..Len(levels') /\ Len(entries) + 1 \in levels'[targetIndex + 1].indices
      /\ \A k \in 1..Len(levels) : k \in 1..Len(levels') /\ levels[k].indices \subseteq levels'[k].indices
  BY PlaceEntryKeeps
<1>4. \A j \in Placed : \E k \in 1..Len(levels) : j \in levels[k].indices /\ LevelOf(j) = k - 1
  BY LevelsKnown DEF LevelInv, LevelsPartition
<1>5. ASSUME NEW i, NEW k \in 1..Len(levels'), i \in levels'[k].indices
      PROVE  LevelOf(i)' = k - 1
  <2>1. \A m \in 1..Len(levels') : i \in levels'[m].indices => m = k
    BY <1>3, <1>5 DEF LevelInv, LevelsPartition
  <2>2. (CHOOSE m \in 1..Len(levels') : i \in levels'[m].indices) = k
    BY <1>5, <2>1, OnlyLevel
  <2>3. QED
    BY <2>2 DEF LevelOf
<1>6. PICK n \in Nat, t \in 0..Len(entries), q \in Resolved :
        n = Len(entries) + 1 /\ t = targetIndex /\ q = Resolution(call)
  BY <1>1
<1>7. LevelOf(n)' = t
  <2>1. LevelOf(n)' = (t + 1) - 1
    BY <1>3, <1>5, <1>6
  <2>2. QED
    BY <1>6, <2>1
<1>8. \A j \in Placed : LevelOf(j)' = LevelOf(j) /\ LevelOf(j) \in Nat
  <2>1. SUFFICES ASSUME NEW j \in Placed PROVE LevelOf(j)' = LevelOf(j) /\ LevelOf(j) \in Nat
    OBVIOUS
  <2>2. PICK k \in 1..Len(levels) : j \in levels[k].indices /\ LevelOf(j) = k - 1
    BY <1>4
  <2>3. k \in 1..Len(levels') /\ j \in levels'[k].indices
    BY <1>3, <2>2
  <2>4. LevelOf(j)' = k - 1
    BY <1>5, <2>3
  <2>5. k - 1 \in Nat
    BY <1>1
  <2>6. QED
    BY <2>2, <2>4, <2>5
<1>9. PICK lev : lev = [i \in Placed |-> LevelOf(i)]
  OBVIOUS
<1>10. PICK lev2 : lev2 = [i \in Placed |-> LevelOf(i)]'
  OBVIOUS
<1>11. lev \in Seq(Nat) /\ Len(lev) = Len(entries) /\ \A j \in Placed : lev[j] = LevelOf(j)
  BY <1>1, <1>8, <1>9 DEF Placed
<1>12. lev2 = [i \in 1..n |-> IF i = n THEN t ELSE lev[i]]
  <2>1. lev2 = [i \in 1..n |-> LevelOf(i)']
    BY <1>3, <1>6, <1>10 DEF Placed
  <2>2. \A i \in 1..n : i = n \/ i \in Placed
    BY <1>1, <1>6 DEF Placed
  <2>3. \A i \in 1..n : LevelOf(i)' = IF i = n THEN t ELSE lev[i]
    BY <1>7, <1>8, <1>11, <2>2
  <2>4. QED
    BY <2>1, <2>3
<1>13. lev2 = Append(lev, t)
  <2>1. t \in Nat /\ n = Len(lev) + 1 /\ n \in Nat /\ \A i \in 1..n : i # n => i \in 1..Len(lev) /\ lev[i] \in Nat
    BY <1>1, <1>6, <1>11
  <2>2. lev2 \in Seq(Nat) /\ Len(lev2) = n /\ \A i \in 1..n : lev2[i] = IF i = n THEN t ELSE lev[i]
    BY <1>12, <2>1
  <2>3. /\ Append(lev, t) \in Seq(Nat) /\ Len(Append(lev, t)) = n
        /\ \A i \in 1..n : Append(lev, t)[i] = IF i = n THEN t ELSE lev[i]
    BY <1>11, <2>1, AppendProperties
  <2>4. QED
    BY <2>2, <2>3, SeqEqual
<1>14. \A j \in Placed : resolutionsConflict(q, entries[j]) => lev[j] < t
  <2>1. SUFFICES ASSUME NEW j \in Placed, resolutionsConflict(q, entries[j]) PROVE lev[j] < t
    OBVIOUS
  <2>2. PICK k \in 1..Len(levels) : j \in levels[k].indices /\ LevelOf(j) = k - 1
    BY <1>4
  <2>3. k <= targetIndex
    BY <1>2, <1>6, <2>1, <2>2, TargetFound
  <2>4. QED
    BY <1>1, <1>6, <1>11, <2>2, <2>3
<1>15. t = 0 \/ \E j \in Placed : resolutionsConflict(q, entries[j]) /\ lev[j] + 1 = t
  <2>1. SUFFICES ASSUME t # 0 PROVE \E j \in Placed : resolutionsConflict(q, entries[j]) /\ lev[j] + 1 = t
    OBVIOUS
  <2>2. t \in 1..Len(levels)
    BY <1>1, <1>6, <2>1
  <2>3. PICK j \in levels[t].indices : resolutionsConflict(q, entries[j])
    BY <1>2, <1>6, <2>1, TargetFound
  <2>4. j \in Placed /\ LevelOf(j) = t - 1
    BY <2>2, LevelsKnown
  <2>5. lev[j] + 1 = t
    BY <1>1, <1>11, <2>2, <2>4
  <2>6. QED
    BY <2>3, <2>4, <2>5
<1>16. Abstract!IsTargetLevel(t, q, 1..Len(entries), entries, lev)
  BY <1>14, <1>15, SameConflicts DEF Abstract!IsTargetLevel, Placed
<1>17. Abstract!Place(q, t)
  BY <1>3, <1>6, <1>9, <1>10, <1>13, <1>16 DEF Abstract!Place
<1>18. QED
  BY <1>6, <1>17 DEF Abstract!PlanNext, Resolved

(* Every run of the scan loops is a run of the level plan: a call gets the *)
(* lowest level above the earlier calls it conflicts with, once and for    *)
(* all.                                                                    *)
THEOREM LevelsImplementPlan == Spec => ImplementsLevelPlan
<1>1. Init => Abstract!PlanInit
  <2>1. SUFFICES ASSUME Init PROVE Abstract!PlanInit
    OBVIOUS
  <2>2. entries = <<>> /\ Placed = {}
    BY <2>1 DEF Init, Placed
  <2>3. [i \in Placed |-> LevelOf(i)] = <<>>
    BY <2>2
  <2>4. QED
    BY <2>2, <2>3 DEF Abstract!PlanInit
<1>2. LevelInv /\ [Next]_vars => [Abstract!PlanNext]_(Abstract!planVars)
  <2>1. SUFFICES ASSUME LevelInv, [Next]_vars PROVE Abstract!PlanNext \/ UNCHANGED Abstract!planVars
    OBVIOUS
  <2>2. CASE UNCHANGED <<entries, levels>>
    BY <2>2 DEF Abstract!planVars, Placed, LevelOf
  <2>3. QED
    BY <2>1, <2>2, PlaceImplements DEF Next, NextEntry, ScanLevel, vars
<1>3. QED
  BY <1>1, <1>2, LevelAlways, PTL DEF Spec, ImplementsLevelPlan, Abstract!PlanSpec

--------------------------------------------------------------------------------
(*****************************************************************************)
(* What FlattenSeq returns.                                                *)
(*****************************************************************************)
(* A non-empty set of natural numbers has a least one. *)
LEMMA Smallest ==
  ASSUME NEW S \in SUBSET Nat, S # {}
  PROVE  \E x \in S : \A y \in S : x <= y
<1>1. PICK R : R = OpToRel(<, Nat) 
  OBVIOUS
<1>2. IsWellFoundedOn(R, Nat)
  BY <1>1, NatLessThanWellFounded
<1>3. PICK x \in S : \A y \in S : <<y, x>> \notin R
  BY <1>2, WFMin
<1>4. R = {ss \in Nat \X Nat : ss[1] < ss[2]}
  BY <1>1 DEF OpToRel
<1>5. ASSUME NEW y \in S PROVE x <= y
  <2>1. <<y, x>> \in Nat \X Nat /\ <<y, x>>[1] = y /\ <<y, x>>[2] = x /\ x \in Nat /\ y \in Nat
    OBVIOUS
  <2>2. ~(y < x)
    BY <1>3, <1>4, <2>1
  <2>3. QED
    BY <2>1, <2>2
<1>6. QED
  BY <1>5

(* f flattens the first m sequences of ss: lv[p] and ch[p] are where its   *)
(* p-th element is from.                                                   *)
Flattens(f, ss, m) ==
  /\ Len(f) \in Nat
  /\ \E lv, ch \in [1..Len(f) -> Nat] :
       /\ \A p \in 1..Len(f) : lv[p] \in 1..m /\ ch[p] \in 1..Len(ss[lv[p]]) /\ f[p] = ss[lv[p]][ch[p]]
       /\ \A k \in 1..m : \A n \in 1..Len(ss[k]) : \E p \in 1..Len(f) : lv[p] = k /\ ch[p] = n
       /\ \A p, q \in 1..Len(f) : p < q => lv[p] < lv[q] \/ (lv[p] = lv[q] /\ ch[p] < ch[q])

(* f is the recursive function of FlattenSeq, as far as m. *)
Unrolls(f, ss, m) == \A i \in 1..m : f[i] = IF i = 1 THEN ss[i] ELSE f[i - 1] \o ss[i]

(* There is such a function. *)
LEMMA PartialsExist ==
  ASSUME NEW T, NEW ss \in Seq(Seq(T)), NEW m \in 0..Len(ss)
  PROVE  \E f \in [1..m -> Seq(T)] : Unrolls(f, ss, m)
<1> DEFINE Bad == {n \in 0..Len(ss) : ~\E f \in [1..n -> Seq(T)] : Unrolls(f, ss, n)}
<1>1. Len(ss) \in Nat /\ Bad \in SUBSET Nat
  OBVIOUS
<1>2. SUFFICES ASSUME Bad # {} PROVE FALSE
  OBVIOUS
<1>3. PICK x \in Bad : \A y \in Bad : x <= y
  BY <1>1, <1>2, Smallest
<1>4. x # 0
  <2>1. [i \in 1..0 |-> <<>>] \in [1..0 -> Seq(T)] /\ Unrolls([i \in 1..0 |-> <<>>], ss, 0)
    BY DEF Unrolls
  <2>2. QED
    BY <1>3, <2>1
<1>5. x - 1 \in 0..Len(ss) /\ x - 1 \notin Bad /\ x \in Nat /\ x \in 1..Len(ss)
  <2>1. x \in 0..Len(ss) /\ x \in Nat
    BY <1>1, <1>3
  <2>2. x - 1 \in 0..Len(ss) /\ x \in 1..Len(ss) /\ ~(x <= x - 1)
    BY <1>1, <1>4, <2>1
  <2>3. QED
    BY <1>3, <2>1, <2>2
<1>6. PICK f \in [1..(x - 1) -> Seq(T)] : Unrolls(f, ss, x - 1)
  BY <1>5
<1>7. PICK v \in Seq(T) : v = IF x = 1 THEN ss[x] ELSE f[x - 1] \o ss[x]
  <2>1. ss[x] \in Seq(T)
    BY <1>5
  <2>2. CASE x = 1
    BY <2>1, <2>2
  <2>3. CASE x # 1
    <3>1. f[x - 1] \in Seq(T)
      BY <1>5, <1>6, <2>3
    <3>2. f[x - 1] \o ss[x] \in Seq(T)
      BY <2>1, <3>1, ConcatProperties
    <3>3. QED
      BY <2>3, <3>2
  <2>4. QED
    BY <2>2, <2>3
<1>8. PICK g : g = [i \in 1..x |-> IF i = x THEN v ELSE f[i]]
  OBVIOUS
<1>9. g \in [1..x -> Seq(T)]
  BY <1>5, <1>6, <1>7, <1>8
<1>10. ASSUME NEW i \in 1..x
       PROVE  g[i] = IF i = 1 THEN ss[i] ELSE g[i - 1] \o ss[i]
  <2>1. CASE i = x
    BY <1>5, <1>7, <1>8, <2>1
  <2>2. CASE i # x
    <3>1. i \in 1..(x - 1) /\ g[i] = f[i] /\ (i # 1 => g[i - 1] = f[i - 1])
      BY <1>5, <1>8, <2>2
    <3>2. QED
      BY <1>6, <3>1 DEF Unrolls
  <2>3. QED
    BY <2>1, <2>2
<1>11. Unrolls(g, ss, x)
  BY <1>10 DEF Unrolls
<1>12. QED
  BY <1>3, <1>9, <1>11

(* FlattenSeq is the value of that function at the last sequence. *)
LEMMA FlattenDef ==
  ASSUME NEW T, NEW ss \in Seq(Seq(T)), Len(ss) # 0
  PROVE  \E f : /\ f = [i \in 1..Len(ss) |-> IF i = 1 THEN ss[i] ELSE f[i - 1] \o ss[i]]
                /\ FlattenSeq(ss) = f[Len(ss)]
<1>1. PICK m \in 0..Len(ss) : m = Len(ss)
  OBVIOUS
<1>2. PICK g \in [1..m -> Seq(T)] : Unrolls(g, ss, m)
  BY PartialsExist
<1>3. g = [i \in 1..Len(ss) |-> IF i = 1 THEN ss[i] ELSE g[i - 1] \o ss[i]]
  BY <1>1, <1>2 DEF Unrolls
<1>4. PICK h : h = CHOOSE f : f = [i \in 1..Len(ss) |-> IF i = 1 THEN ss[i] ELSE f[i - 1] \o ss[i]]
  OBVIOUS
<1>5. h = [i \in 1..Len(ss) |-> IF i = 1 THEN ss[i] ELSE h[i - 1] \o ss[i]]
  BY <1>3, <1>4, Zenon
<1>6. FlattenSeq(ss) = h[Len(ss)]
  BY <1>4, Zenon DEF FlattenSeq
<1>7. QED
  BY <1>5, <1>6

(* One more sequence. *)
LEMMA FlattensMore ==
  ASSUME NEW T, NEW ss \in Seq(Seq(T)), NEW m \in Nat, m + 1 \in 1..Len(ss), NEW f \in Seq(T), Flattens(f, ss, m)
  PROVE  f \o ss[m + 1] \in Seq(T) /\ Flattens(f \o ss[m + 1], ss, m + 1)
<1>1. PICK s \in Seq(T) : s = ss[m + 1]
  OBVIOUS
<1>2. PICK g \in Seq(T) : g = f \o s
  BY ConcatProperties
<1>3. /\ Len(f) \in Nat /\ Len(s) \in Nat /\ Len(g) = Len(f) + Len(s) /\ Len(g) \in Nat
      /\ \A p \in 1..Len(g) : g[p] = IF p <= Len(f) THEN f[p] ELSE s[p - Len(f)]
  BY <1>2, ConcatProperties
<1>4. PICK lv, ch \in [1..Len(f) -> Nat] :
       /\ \A p \in 1..Len(f) : lv[p] \in 1..m /\ ch[p] \in 1..Len(ss[lv[p]]) /\ f[p] = ss[lv[p]][ch[p]]
       /\ \A k \in 1..m : \A n \in 1..Len(ss[k]) : \E p \in 1..Len(f) : lv[p] = k /\ ch[p] = n
       /\ \A p, q \in 1..Len(f) : p < q => lv[p] < lv[q] \/ (lv[p] = lv[q] /\ ch[p] < ch[q])
  BY DEF Flattens
<1>5. PICK lw, cw : /\ lw = [p \in 1..Len(g) |-> IF p <= Len(f) THEN lv[p] ELSE m + 1]
                    /\ cw = [p \in 1..Len(g) |-> IF p <= Len(f) THEN ch[p] ELSE p - Len(f)]
  OBVIOUS
<1>6. lw \in [1..Len(g) -> Nat] /\ cw \in [1..Len(g) -> Nat]
  BY <1>3, <1>4, <1>5
<1>7. ASSUME NEW p \in 1..Len(g) PROVE lw[p] \in 1..(m + 1) /\ cw[p] \in 1..Len(ss[lw[p]]) /\ g[p] = ss[lw[p]][cw[p]]
  <2>1. CASE p <= Len(f)
    <3>1. p \in 1..Len(f) /\ lw[p] = lv[p] /\ cw[p] = ch[p] /\ g[p] = f[p] /\ lv[p] \in 1..m
      BY <1>3, <1>4, <1>5, <2>1
    <3>2. lv[p] \in 1..(m + 1)
      BY <3>1
    <3>3. QED
      BY <1>4, <3>1, <3>2
  <2>2. CASE ~(p <= Len(f))
    <3>1. p - Len(f) \in 1..Len(s) /\ lw[p] = m + 1 /\ cw[p] = p - Len(f) /\ g[p] = s[p - Len(f)]
      BY <1>3, <1>5, <2>2
    <3>2. m + 1 \in 1..(m + 1)
      OBVIOUS
    <3>3. QED
      BY <1>1, <3>1, <3>2
  <2>3. QED
    BY <2>1, <2>2
<1>8. ASSUME NEW k \in 1..(m + 1), NEW n \in 1..Len(ss[k]) PROVE \E p \in 1..Len(g) : lw[p] = k /\ cw[p] = n
  <2>1. CASE k = m + 1
    <3>1. n \in 1..Len(s)
      BY <1>1, <2>1
    <3>2. PICK p \in 1..Len(g) : p = Len(f) + n
      <4>1. Len(f) + n \in 1..Len(g)
        BY <1>3, <3>1
      <4>2. QED
        BY <4>1
    <3>3. lw[p] = m + 1 /\ cw[p] = n
      BY <1>3, <1>5, <3>1, <3>2, SMTT(30)
    <3>4. QED
      BY <2>1, <3>3
  <2>2. CASE k # m + 1
    <3>1. k \in 1..m
      BY <2>2
    <3>2. PICK p \in 1..Len(f) : lv[p] = k /\ ch[p] = n
      BY <1>4, <3>1
    <3>3. p \in 1..Len(g) /\ lw[p] = lv[p] /\ cw[p] = ch[p]
      BY <1>3, <1>5
    <3>4. QED
      BY <3>2, <3>3
  <2>3. QED
    BY <2>1, <2>2
<1>9. ASSUME NEW p \in 1..Len(g), NEW q \in 1..Len(g), p < q
      PROVE  lw[p] < lw[q] \/ (lw[p] = lw[q] /\ cw[p] < cw[q])
  <2>1. CASE q <= Len(f)
    <3>1. p \in 1..Len(f) /\ q \in 1..Len(f) /\ lw[p] = lv[p] /\ cw[p] = ch[p] /\ lw[q] = lv[q] /\ cw[q] = ch[q]
      BY <1>3, <1>5, <1>9, <2>1
    <3>2. QED
      BY <1>4, <1>9, <3>1
  <2>2. CASE ~(q <= Len(f)) /\ p <= Len(f)
    <3>1. p \in 1..Len(f) /\ lw[p] = lv[p] /\ lw[q] = m + 1
      BY <1>3, <1>5, <2>2
    <3>2. lv[p] \in 1..m
      BY <1>4, <3>1
    <3>3. QED
      BY <3>1, <3>2
  <2>3. CASE ~(q <= Len(f)) /\ ~(p <= Len(f))
    BY <1>3, <1>5, <1>9, <2>3
  <2>4. QED
    BY <2>1, <2>2, <2>3
<1>10. Flattens(g, ss, m + 1)
  BY <1>3, <1>6, <1>7, <1>8, <1>9 DEF Flattens
<1>11. QED
  BY <1>1, <1>2, <1>10

(* FlattenSeq has the elements of all the sequences, in order. *)
LEMMA FlattenSeqFlattens ==
  ASSUME NEW T, NEW ss \in Seq(Seq(T))
  PROVE  Flattens(FlattenSeq(ss), ss, Len(ss))
<1>1. <<>> \in Seq(T) /\ Flattens(<<>>, ss, 0)
  <2>1. Len(<<>>) = 0 /\ 1..0 = {}
    OBVIOUS
  <2>2. PICK z \in [1..Len(<<>>) -> Nat] : z = [p \in 1..Len(<<>>) |-> 0]
    OBVIOUS
  <2>3. /\ \A p \in 1..Len(<<>>) : z[p] \in 1..0 /\ z[p] \in 1..Len(ss[z[p]]) /\ <<>>[p] = ss[z[p]][z[p]]
        /\ \A k \in 1..0 : \A n \in 1..Len(ss[k]) : \E p \in 1..Len(<<>>) : z[p] = k /\ z[p] = n
        /\ \A p, q \in 1..Len(<<>>) : p < q => z[p] < z[q] \/ (z[p] = z[q] /\ z[p] < z[q])
    BY <2>1
  <2>4. Len(<<>>) \in Nat
    BY <2>1
  <2>5. Flattens(<<>>, ss, 0)
    BY <2>3, <2>4, Zenon DEF Flattens
  <2>6. QED
    BY <2>5
<1>2. CASE Len(ss) = 0
  <2>1. ss = <<>> /\ FlattenSeq(ss) = ss
    BY <1>2, EmptySeq DEF FlattenSeq
  <2>2. QED
    BY <1>1, <1>2, <2>1
<1>3. CASE Len(ss) # 0
  <2>1. PICK f : /\ f = [i \in 1..Len(ss) |-> IF i = 1 THEN ss[i] ELSE f[i - 1] \o ss[i]]
                 /\ FlattenSeq(ss) = f[Len(ss)]
    BY <1>3, FlattenDef
  <2> DEFINE Bad == {n \in 1..Len(ss) : ~(f[n] \in Seq(T) /\ Flattens(f[n], ss, n))}
  <2>2. Len(ss) \in Nat /\ Bad \in SUBSET Nat /\ Len(ss) \in 1..Len(ss)
    BY <1>3
  <2>3. Bad = {}
    <3>1. SUFFICES ASSUME Bad # {} PROVE FALSE
      OBVIOUS
    <3>2. PICK x \in Bad : \A y \in Bad : x <= y
      BY <2>2, <3>1, Smallest
    <3>3. x \in 1..Len(ss) /\ x \in Nat /\ ~(f[x] \in Seq(T) /\ Flattens(f[x], ss, x)) /\ f[x] = IF x = 1 THEN ss[x] ELSE f[x - 1] \o ss[x]
      BY <2>1, <2>2, <3>2
    <3>4. CASE x = 1
      <4>1. <<>> \o ss[1] = ss[1]
        BY <3>3, <3>4, ConcatEmptySeq
      <4>2. f[1] \in Seq(T) /\ Flattens(f[1], ss, 0 + 1)
        <5>1. 0 \in Nat /\ 0 + 1 = 1 /\ 0 + 1 \in 1..Len(ss)
          BY <3>3, <3>4
        <5>2. <<>> \o ss[0 + 1] \in Seq(T) /\ Flattens(<<>> \o ss[0 + 1], ss, 0 + 1)
          BY <1>1, <5>1, FlattensMore
        <5>3. QED
          BY <3>3, <3>4, <4>1, <5>1, <5>2
      <4>3. QED
        BY <3>3, <3>4, <4>2
    <3>5. CASE x # 1
      <4>1. PICK y \in Nat : y = x - 1 /\ y + 1 = x /\ y \in 1..Len(ss) /\ ~(x <= y)
        BY <2>2, <3>3, <3>5
      <4>2. y \notin Bad
        BY <3>2, <4>1
      <4>3. f[y] \in Seq(T) /\ Flattens(f[y], ss, y)
        BY <4>1, <4>2
      <4>4. f[y] \o ss[y + 1] \in Seq(T) /\ Flattens(f[y] \o ss[y + 1], ss, y + 1)
        BY <3>3, <4>1, <4>3, FlattensMore
      <4>5. QED
        BY <3>3, <3>5, <4>1, <4>4
    <3>6. QED
      BY <3>4, <3>5
  <2>4. QED
    BY <2>1, <2>2, <2>3
<1>4. QED
  BY <1>2, <1>3

--------------------------------------------------------------------------------
(*****************************************************************************)
(* What chunksOf returns.                                                  *)
(*****************************************************************************)
(* Division by the cap. *)
LEMMA DivBounds ==
  ASSUME NEW a \in Nat, NEW c \in Nat, c > 0
  PROVE  a \div c \in Nat /\ c * (a \div c) <= a /\ a < c * (a \div c) + c
  OBVIOUS

(* Multiples of the cap are a cap apart. *)
LEMMA MultiplesApart ==
  ASSUME NEW x \in Nat, NEW y \in Nat, NEW c \in Nat, x < y
  PROVE  c * x \in Nat /\ c * y \in Nat /\ c * x + c <= c * y
  OBVIOUS

(* The ranks of the calls of a level are their places in it. *)
LEMMA RankBelow ==
  ASSUME NEW S \in SUBSET Nat, IsFiniteSet(S), NEW i \in S
  PROVE  /\ Cardinality(S) \in Nat /\ rank(i, S) \in Nat /\ rank(i, S) < Cardinality(S)
         /\ \A j \in S : i < j => rank(i, S) < rank(j, S)
<1>1. PICK B : B = {x \in S : x < i}
  OBVIOUS
<1>2. B \in SUBSET S /\ i \notin B /\ rank(i, S) = Cardinality(B)
  BY <1>1 DEF rank
<1>3. IsFiniteSet(B) /\ Cardinality(B) \in Nat /\ Cardinality(S) \in Nat
  BY <1>2, FS_Subset, FS_CardinalityType
<1>4. PICK C : C = B \cup {i}
  OBVIOUS
<1>5. IsFiniteSet(C) /\ Cardinality(C) = Cardinality(B) + 1
  BY <1>2, <1>3, <1>4, FS_AddElement
<1>6. C \in SUBSET S
  BY <1>2, <1>4
<1>7. Cardinality(C) <= Cardinality(S)
  BY <1>6, FS_Subset
<1>8. ASSUME NEW j \in S, i < j PROVE Cardinality(B) < rank(j, S)
  <2>1. PICK D : D = {x \in S : x < j}
    OBVIOUS
  <2>2. D \in SUBSET S /\ rank(j, S) = Cardinality(D)
    BY <2>1 DEF rank
  <2>3. IsFiniteSet(D) /\ Cardinality(D) \in Nat
    <3>1. IsFiniteSet(D)
      BY <2>2, FS_Subset
    <3>2. QED
      BY <3>1, FS_CardinalityType
  <2>4. C \in SUBSET D
    <3>1. \A x \in S : x \in Nat
      OBVIOUS
    <3>2. \A x \in C : x \in S /\ x <= i
      BY <1>1, <1>4, <3>1
    <3>3. \A x \in C : x \in D
      <4>1. SUFFICES ASSUME NEW x \in C PROVE x \in D
        OBVIOUS
      <4>2. x \in S /\ x \in Nat /\ x <= i /\ i \in Nat /\ j \in Nat /\ i < j
        BY <1>8, <3>1, <3>2
      <4>3. x < j
        BY <4>2
      <4>4. QED
        BY <2>1, <4>2, <4>3
    <3>4. QED
      BY <3>3
  <2>5. Cardinality(C) <= Cardinality(D)
    BY <2>3, <2>4, FS_Subset
  <2>6. QED
    BY <1>3, <1>5, <2>2, <2>3, <2>5
<1>9. QED
  BY <1>2, <1>3, <1>5, <1>7, <1>8

(* Different calls have different ranks. *)
LEMMA RankDiffers ==
  ASSUME NEW S \in SUBSET Nat, IsFiniteSet(S), NEW i \in S, NEW j \in S, rank(i, S) = rank(j, S)
  PROVE  i = j
<1>1. i \in Nat /\ j \in Nat /\ rank(i, S) \in Nat /\ rank(j, S) \in Nat
  BY RankBelow
<1>2. ~(i < j) /\ ~(j < i)
  BY <1>1, RankBelow
<1>3. QED
  BY <1>1, <1>2

(* Every place is taken. *)
LEMMA RankOnto ==
  ASSUME NEW S \in SUBSET Nat, IsFiniteSet(S), NEW v \in Nat, v < Cardinality(S)
  PROVE  \E i \in S : rank(i, S) = v
<1>1. Cardinality(S) \in Nat
  BY FS_CardinalityType
<1>2. PICK T : T = 0..(Cardinality(S) - 1)
  OBVIOUS
<1>3. IsFiniteSet(T) /\ Cardinality(T) = Cardinality(S) /\ v \in T
  <2>1. 0 \in Int /\ Cardinality(S) - 1 \in Int /\ ~(0 > Cardinality(S) - 1) /\ (Cardinality(S) - 1) - 0 + 1 = Cardinality(S)
    BY <1>1
  <2>2. IsFiniteSet(T) /\ Cardinality(T) = (Cardinality(S) - 1) - 0 + 1
    BY <1>2, <2>1, FS_Interval
  <2>3. QED
    BY <1>1, <1>2, <2>1, <2>2
<1>4. PICK f : f = [i \in S |-> rank(i, S)]
  OBVIOUS
<1>5. f \in [S -> T]
  BY <1>1, <1>2, <1>4, RankBelow
<1>6. \A a, b \in S : f[a] = f[b] => a = b
  BY <1>4, RankDiffers
<1>7. f \in Injection(S, T)
  BY <1>5, <1>6 DEF Injection, IsInjective
<1>8. f \in Surjection(S, T)
  BY <1>3, <1>7, FS_Injection
<1>9. PICK i \in S : f[i] = v
  BY <1>3, <1>8 DEF Surjection
<1>10. QED
  BY <1>4, <1>9

(* A chunk is not empty and within the cap. *)
LEMMA ChunkSize ==
  ASSUME NEW S \in SUBSET Nat, IsFiniteSet(S), NEW cap \in Nat, cap > 0, NEW n \in Nat, cap * n < Cardinality(S),
         NEW C, C = {i \in S : rank(i, S) \div cap = n}
  PROVE  Cardinality(C) \in 1..cap
<1>1. cap * n \in Nat /\ C \in SUBSET S
  OBVIOUS
<1>2. IsFiniteSet(C) /\ Cardinality(C) \in Nat
  BY <1>1, FS_Subset, FS_CardinalityType
<1>3. \A i \in C : rank(i, S) \in Nat /\ cap * n <= rank(i, S) /\ rank(i, S) < cap * n + cap
  BY RankBelow, DivBounds
<1>4. PICK T : T = (cap * n)..(cap * n + cap - 1)
  OBVIOUS
<1>5. IsFiniteSet(T) /\ Cardinality(T) = cap
  <2>1. cap * n \in Int /\ cap * n + cap - 1 \in Int /\ ~(cap * n > cap * n + cap - 1) /\ (cap * n + cap - 1) - (cap * n) + 1 = cap
    BY <1>1
  <2>2. IsFiniteSet(T) /\ Cardinality(T) = (cap * n + cap - 1) - (cap * n) + 1
    BY <1>4, <2>1, FS_Interval
  <2>3. QED
    BY <2>1, <2>2
<1>6. PICK f : f = [i \in C |-> rank(i, S)]
  OBVIOUS
<1>7. f \in [C -> T]
  <2>1. \A i \in C : rank(i, S) \in T
    BY <1>1, <1>3, <1>4
  <2>2. QED
    BY <1>6, <2>1
<1>8. \A a, b \in C : f[a] = f[b] => a = b
  BY <1>1, <1>6, RankDiffers
<1>9. f \in Injection(C, T)
  BY <1>7, <1>8 DEF Injection, IsInjective
<1>10. Cardinality(C) <= cap
  BY <1>5, <1>9, FS_Injection
<1>11. PICK i \in S : rank(i, S) = cap * n
  BY <1>1, RankOnto
<1>12. (cap * n) \div cap = n
  OBVIOUS
<1>13. C # {}
  BY <1>11, <1>12
<1>14. Cardinality(C) # 0
  BY <1>2, <1>13, FS_EmptySet
<1>15. QED
  BY <1>2, <1>10, <1>14

(* What a level is cut into: chunks of its calls, each call in one of      *)
(* them, no chunk empty or over the cap.                                   *)
LEMMA ChunksPartition ==
  ASSUME NEW S \in SUBSET Nat, IsFiniteSet(S), S # {}, NEW cap \in Nat, NEW c, c = chunksOf(S, cap)
  PROVE  /\ c \in Seq(SUBSET Nat)
         /\ \A n \in 1..Len(c) : c[n] \subseteq S
         /\ \A i \in S : \E n \in 1..Len(c) : i \in c[n]
         /\ \A n, m \in 1..Len(c) : \A i \in c[n] : i \in c[m] => n = m
         /\ cap # 0 => \A n \in 1..Len(c) : Cardinality(c[n]) \in 1..cap
<1>1. Cardinality(S) \in Nat /\ Cardinality(S) # 0
  BY FS_CardinalityType, FS_EmptySet
<1>2. CASE cap = 0 \/ Cardinality(S) <= cap
  <2>1. c = <<S>>
    BY <1>2 DEF chunksOf
  <2>2. c \in Seq(SUBSET Nat) /\ Len(c) = 1 /\ c[1] = S /\ \A n \in 1..Len(c) : n = 1
    BY <2>1
  <2>3. cap # 0 => Cardinality(S) \in 1..cap
    BY <1>1, <1>2
  <2>4. QED
    BY <2>2, <2>3
<1>3. CASE ~(cap = 0 \/ Cardinality(S) <= cap)
  <2>1. PICK k \in Nat : k = (Cardinality(S) + cap - 1) \div cap
    <3>1. Cardinality(S) + cap - 1 \in Nat /\ cap > 0
      BY <1>1, <1>3
    <3>2. QED
      BY <3>1, DivBounds
  <2>2. c = [n \in 1..k |-> {i \in S : rank(i, S) \div cap = n - 1}]
    BY <1>3, <2>1 DEF chunksOf
  <2>3. c \in Seq(SUBSET Nat) /\ Len(c) = k /\ \A n \in 1..k : c[n] = {i \in S : rank(i, S) \div cap = n - 1}
    <3>1. \A n \in 1..k : c[n] = {i \in S : rank(i, S) \div cap = n - 1}
      BY <2>2
    <3>2. \A n \in 1..k : c[n] \in SUBSET Nat
      BY <3>1
    <3>3. c \in [1..k -> SUBSET Nat]
      BY <2>2, <3>2
    <3>4. c \in Seq(SUBSET Nat) /\ Len(c) = k
      BY <3>3
    <3>5. QED
      BY <3>1, <3>4
  <2>4. cap * k \in Nat /\ cap * k <= Cardinality(S) + cap - 1 /\ Cardinality(S) + cap - 1 < cap * k + cap /\ cap > 0
    <3>1. Cardinality(S) + cap - 1 \in Nat /\ cap > 0
      BY <1>1, <1>3
    <3>2. QED
      BY <2>1, <3>1, DivBounds
  <2>5. ASSUME NEW i \in S PROVE \E n \in 1..k : i \in c[n]
    <3>1. rank(i, S) \in Nat /\ rank(i, S) < Cardinality(S)
      BY RankBelow
    <3>2. PICK q \in Nat : q = rank(i, S) \div cap /\ cap * q <= rank(i, S)
      BY <2>4, <3>1, DivBounds
    <3>3. q < k
      <4>1. SUFFICES ASSUME ~(q < k) PROVE FALSE
        OBVIOUS
      <4>2. cap * k <= cap * q
        <5>1. CASE q = k
          BY <2>4, <5>1
        <5>2. CASE k < q
          BY <2>4, <5>2, MultiplesApart
        <5>3. QED
          BY <4>1, <5>1, <5>2
      <4>3. QED
        BY <1>1, <2>4, <3>1, <3>2, <4>2
    <3>4. q + 1 \in 1..k /\ (q + 1) - 1 = q
      BY <3>3
    <3>5. QED
      BY <2>3, <3>2, <3>4
  <2>6. ASSUME NEW n \in 1..k, NEW m \in 1..k, NEW i, i \in c[n], i \in c[m] PROVE n = m
    BY <2>3, <2>6
  <2>7. ASSUME NEW n \in 1..k PROVE Cardinality(c[n]) \in 1..cap
    <3>1. PICK m \in Nat : m = n - 1
      OBVIOUS
    <3>2. cap * m < Cardinality(S)
      <4>1. m < k
        BY <3>1
      <4>2. cap * m + cap <= cap * k /\ cap * m \in Nat
        BY <4>1, MultiplesApart
      <4>3. QED
        BY <1>1, <2>4, <4>2
    <3>3. c[n] = {i \in S : rank(i, S) \div cap = m}
      BY <2>3, <3>1
    <3>4. QED
      BY <2>4, <3>2, <3>3, ChunkSize
  <2>8. QED
    BY <2>3, <2>5, <2>6, <2>7
<1>4. QED
  BY <1>2, <1>3

--------------------------------------------------------------------------------
(* The plan cuts levels into chunks and keeps their order, so it is sound  *)
(* when the levels are.                                                    *)
LEMMA CapKeepsPlan ==
  ASSUME LevelInv
  PROVE  CappedPlanSound
<1>1. /\ Len(levels) \in Nat /\ Len(entries) \in Nat /\ levels \in Seq(LevelStates) /\ DOMAIN levels = 1..Len(levels)
      /\ maxConcurrency \in Nat
  BY DagLevelsAssumption DEF LevelInv, LevelTypes
<1>2. ASSUME NEW k \in 1..Len(levels)
      PROVE  /\ levels[k].indices \in SUBSET Nat /\ IsFiniteSet(levels[k].indices)
             /\ levels[k].indices # {} /\ levels[k].indices \subseteq Placed
  <2>1. levels[k].indices \subseteq Placed /\ levels[k].indices # {}
    BY DEF LevelInv, LevelsPartition
  <2>2. IsFiniteSet(1..Len(entries))
    BY <1>1, FS_Interval
  <2>3. IsFiniteSet(levels[k].indices)
    BY <2>1, <2>2, FS_Subset DEF Placed
  <2>4. QED
    BY <1>1, <2>1, <2>3 DEF Placed
<1>3. PICK ss : ss = [k \in 1..Len(levels) |-> chunksOf(levels[k].indices, maxConcurrency)]
  OBVIOUS
<1>4. ASSUME NEW k \in 1..Len(levels)
      PROVE  /\ ss[k] \in Seq(SUBSET Nat)
             /\ \A n \in 1..Len(ss[k]) : ss[k][n] \subseteq levels[k].indices
             /\ \A i \in levels[k].indices : \E n \in 1..Len(ss[k]) : i \in ss[k][n]
             /\ \A n, m \in 1..Len(ss[k]) : \A i \in ss[k][n] : i \in ss[k][m] => n = m
             /\ maxConcurrency # 0 => \A n \in 1..Len(ss[k]) : Cardinality(ss[k][n]) \in 1..maxConcurrency
  <2>1. ss[k] = chunksOf(levels[k].indices, maxConcurrency)
    BY <1>3
  <2>2. QED
    BY <1>1, <1>2, <2>1, ChunksPartition
<1>5. ss \in Seq(Seq(SUBSET Nat)) /\ Len(ss) = Len(levels)
  <2>1. ss \in [1..Len(levels) -> Seq(SUBSET Nat)]
    BY <1>3, <1>4
  <2>2. QED
    BY <1>1, <2>1
<1>6. PICK plan : plan = Plan
  OBVIOUS
<1>7. plan = FlattenSeq(ss)
  BY <1>1, <1>3, <1>6 DEF Plan, applyConcurrencyCap
<1>8. Flattens(plan, ss, Len(levels))
  <2>1. Flattens(plan, ss, Len(ss))
    BY <1>5, <1>7, FlattenSeqFlattens
  <2>2. QED
    BY <1>5, <2>1
<1>9. Len(plan) \in Nat
  BY <1>8 DEF Flattens
<1>10. PICK lv, ch \in [1..Len(plan) -> Nat] :
       /\ \A p \in 1..Len(plan) : lv[p] \in 1..Len(levels) /\ ch[p] \in 1..Len(ss[lv[p]]) /\ plan[p] = ss[lv[p]][ch[p]]
       /\ \A k \in 1..Len(levels) : \A n \in 1..Len(ss[k]) : \E p \in 1..Len(plan) : lv[p] = k /\ ch[p] = n
       /\ \A p, q \in 1..Len(plan) : p < q => lv[p] < lv[q] \/ (lv[p] = lv[q] /\ ch[p] < ch[q])
  BY <1>8 DEF Flattens
<1>11. ASSUME NEW p \in 1..Len(plan)
       PROVE  \E k \in 1..Len(levels) : \E n \in 1..Len(ss[k]) :
                lv[p] = k /\ ch[p] = n /\ plan[p] = ss[k][n] /\ ss[k][n] \subseteq levels[k].indices
  <2>1. PICK k \in 1..Len(levels) : lv[p] = k
    BY <1>10
  <2>2. ch[p] \in 1..Len(ss[k]) /\ plan[p] = ss[k][ch[p]]
    BY <1>10, <2>1
  <2>3. PICK n \in 1..Len(ss[k]) : ch[p] = n /\ plan[p] = ss[k][n]
    BY <2>2
  <2>4. ss[k][n] \subseteq levels[k].indices
    BY <1>4
  <2>5. QED
    BY <2>1, <2>3, <2>4
<1>12. ASSUME NEW p \in 1..Len(plan), NEW q \in 1..Len(plan), NEW i, i \in plan[p], i \in plan[q]
       PROVE  p = q
  <2>1. PICK k \in 1..Len(levels) : \E n \in 1..Len(ss[k]) :
          lv[p] = k /\ ch[p] = n /\ plan[p] = ss[k][n] /\ ss[k][n] \subseteq levels[k].indices
    BY <1>11
  <2>2. PICK n \in 1..Len(ss[k]) : lv[p] = k /\ ch[p] = n /\ plan[p] = ss[k][n] /\ ss[k][n] \subseteq levels[k].indices
    BY <2>1
  <2>3. PICK l \in 1..Len(levels) : \E m \in 1..Len(ss[l]) :
          lv[q] = l /\ ch[q] = m /\ plan[q] = ss[l][m] /\ ss[l][m] \subseteq levels[l].indices
    BY <1>11
  <2>4. PICK m \in 1..Len(ss[l]) : lv[q] = l /\ ch[q] = m /\ plan[q] = ss[l][m] /\ ss[l][m] \subseteq levels[l].indices
    BY <2>3
  <2>5. l = k
    BY <1>12, <2>2, <2>4 DEF LevelInv, LevelsPartition
  <2>6. n = m
    BY <1>4, <1>12, <2>2, <2>4, <2>5
  <2>7. lv[p] = lv[q] /\ ch[p] = ch[q] /\ lv[p] \in Nat /\ ch[p] \in Nat
    BY <1>10, <2>2, <2>4, <2>5, <2>6
  <2>8. ~(lv[p] < lv[p]) /\ ~(ch[p] < ch[p])
    BY <2>7
  <2>9. ~(p < q) /\ ~(q < p)
    BY <1>10, <2>7, <2>8
  <2>10. QED
    BY <1>9, <2>9
<1>13. ASSUME NEW i \in Placed PROVE \E p \in 1..Len(plan) : i \in plan[p]
  <2>1. PICK k \in 1..Len(levels) : i \in levels[k].indices
    BY DEF LevelInv, LevelsPartition
  <2>2. PICK n \in 1..Len(ss[k]) : i \in ss[k][n]
    BY <1>4, <2>1
  <2>3. PICK p \in 1..Len(plan) : lv[p] = k /\ ch[p] = n
    <3>1. \A l \in 1..Len(levels) : \A m \in 1..Len(ss[l]) : \E p \in 1..Len(plan) : lv[p] = l /\ ch[p] = m
      BY <1>10
    <3>2. \A m \in 1..Len(ss[k]) : \E p \in 1..Len(plan) : lv[p] = k /\ ch[p] = m
      BY <3>1
    <3>3. QED
      BY <3>2
  <2>4. plan[p] = ss[k][n]
    BY <1>11, <2>3
  <2>5. QED
    BY <2>2, <2>4
<1>14. ASSUME NEW p \in 1..Len(plan), maxConcurrency # 0 PROVE Cardinality(plan[p]) \in 1..maxConcurrency
  <2>1. PICK k \in 1..Len(levels) : \E n \in 1..Len(ss[k]) : plan[p] = ss[k][n]
    BY <1>11
  <2>2. QED
    BY <1>4, <1>14, <2>1
<1>15. ASSUME NEW p \in 1..Len(plan), NEW q \in 1..Len(plan), NEW i \in plan[p], NEW j \in plan[q],
              i < j, resolutionsConflict(entries[i], entries[j])
       PROVE  p < q
  <2>1. lv[p] < lv[q] /\ lv[p] \in Nat /\ lv[q] \in Nat
    <3>1. PICK k \in 1..Len(levels) : lv[p] = k /\ plan[p] \subseteq levels[k].indices
      BY <1>11
    <3>2. PICK m \in 1..Len(levels) : lv[q] = m /\ plan[q] \subseteq levels[m].indices
      BY <1>11
    <3>3. k < m
      BY <1>15, <3>1, <3>2 DEF LevelInv, ConflictsAscend
    <3>4. QED
      BY <3>1, <3>2, <3>3
  <2>2. p # q
    BY <2>1
  <2>3. ~(q < p)
    BY <1>10, <2>1
  <2>4. QED
    BY <1>9, <2>2, <2>3
<1>16. QED
  BY <1>6, <1>12, <1>13, <1>14, <1>15 DEF CappedPlanSound

(* The plan that is executed, levels cut to maxConcurrency, has every call *)
(* once, no more than the cap at a time, and every call after the earlier  *)
(* ones it conflicts with.                                                 *)
THEOREM CappedPlanHolds == Spec => []CappedPlanSound
<1>1. LevelInv => CappedPlanSound
  BY CapKeepsPlan
<1>2. QED
  BY <1>1, LevelAlways, PTL
================================================================================
