------------------------------ MODULE DagLevels ------------------------------
(***************************************************************************)
(* The dag-v2 scheduler's level assignment                                 *)
(* (packages/agent/src/tool-dag-scheduler.ts), loop iteration by loop      *)
(* iteration: assignDagLevels takes the calls in source order, scans every *)
(* existing level for a conflict and puts the call one level after the     *)
(* last conflict it saw.                                                   *)
(*                                                                         *)
(* A level's indices are pushed in ascending order, so a set stands for    *)
(* the array; canonicalizeClaims sorts the claims of a call, so a set      *)
(* stands for them too.                                                    *)
(***************************************************************************)
EXTENDS Naturals, FiniteSets, Sequences, SequencesExt, ResourceClaims

CONSTANTS ToolCalls,             \* the calls a batch may contain
          strictExtensionClaims, \* the option of that name
          MaxCalls,              \* bound: calls in one batch
          maxConcurrency         \* width cap of a level, 0 for none

ASSUME DagLevelsAssumption ==
  /\ MaxCalls \in Nat
  /\ maxConcurrency \in Nat
  /\ strictExtensionClaims \in BOOLEAN

VARIABLES calls,       \* the calls placed so far, in source order
          entries,     \* their resolutions
          levels,      \* the levels built so far
          pending,     \* the call being placed, in a set of at most one
          levelIndex,  \* the scan's position: levels before it are scanned
          targetIndex  \* one past the last conflicting level seen, counted from 0

vars == <<calls, entries, levels, pending, levelIndex, targetIndex>>

EmptyLevel == [indices |-> {}, writeClaims |-> {}, readClaims |-> {}, hasExclusive |-> FALSE]

claimConflictsAny(claim, candidates) == \E c \in candidates : claimsConflict(claim, c)

resolutionConflictsLevel(r, level) ==
  \/ level.hasExclusive
  \/ r.kind = "exclusive"
  \/ \E c \in r.claims :
       \/ c.access = "exclusive"
       \/ claimConflictsAny(c, level.writeClaims)
       \/ c.access = "write" /\ claimConflictsAny(c, level.readClaims)

(* Mistaken variant: an exclusive call is not remembered. *)
joinLevelForgetsExclusive(level, i, r) ==
  [level EXCEPT !.indices = @ \union {i},
                !.writeClaims = @ \union {c \in r.claims : c.access = "write"},
                !.readClaims = @ \union {c \in r.claims : c.access = "read"}]

(* The level after a call with source index i and resolution r joins it. *)
joinLevel(level, i, r) ==
  LET exclusive == r.kind = "exclusive" \/ \E c \in r.claims : c.access = "exclusive"
      writes == {c \in r.claims : c.access = "write"}
  IN  [indices      |-> level.indices \union {i},
       writeClaims  |-> IF exclusive THEN level.writeClaims ELSE level.writeClaims \union writes,
       readClaims   |-> IF exclusive THEN level.readClaims
                        ELSE level.readClaims \union (r.claims \ writes),
       hasExclusive |-> level.hasExclusive \/ exclusive]

Init ==
  /\ calls = <<>> /\ entries = <<>> /\ levels = <<>>
  /\ pending = {} /\ levelIndex = 0 /\ targetIndex = 0

(* The outer loop takes the next call of the batch. *)
NextEntry(call) ==
  /\ pending = {} /\ Len(entries) < MaxCalls
  /\ pending' = {call} /\ levelIndex' = 0 /\ targetIndex' = 0
  /\ UNCHANGED <<calls, entries, levels>>

Resolution(call) == resolveToolClaimsForCall(call, strictExtensionClaims)

(* One iteration of the inner loop. *)
ScanLevel(call) ==
  /\ call \in pending /\ levelIndex < Len(levels)
  /\ targetIndex' = IF resolutionConflictsLevel(Resolution(call), levels[levelIndex + 1])
                    THEN levelIndex + 1 ELSE targetIndex
  /\ levelIndex' = levelIndex + 1
  /\ UNCHANGED <<calls, entries, levels, pending>>

(* The scan is over: the call joins its target level, a new one if need be. *)
PlaceEntry(call) ==
  /\ call \in pending /\ levelIndex = Len(levels)
  /\ LET i == Len(entries) + 1
         r == Resolution(call)
     IN  levels' = IF targetIndex = Len(levels)
                   THEN Append(levels, joinLevel(EmptyLevel, i, r))
                   ELSE [levels EXCEPT ![targetIndex + 1] = joinLevel(@, i, r)]
  /\ calls' = Append(calls, call)
  /\ entries' = Append(entries, Resolution(call))
  /\ pending' = {}
  /\ UNCHANGED <<levelIndex, targetIndex>>

Next == \E call \in ToolCalls : NextEntry(call) \/ ScanLevel(call) \/ PlaceEntry(call)

Spec == Init /\ [][Next]_vars

-----------------------------------------------------------------------------
(* applyConcurrencyCap: every level is cut, in source order, into chunks  *)
(* of at most cap calls; a cap of 0 leaves the levels whole.              *)
rank(i, S) == Cardinality({j \in S : j < i})

(* Mistaken variant: the last, partial chunk is dropped. *)
wholeChunksOf(S, cap) ==
  IF cap = 0 \/ Cardinality(S) <= cap THEN <<S>>
  ELSE [n \in 1..(Cardinality(S) \div cap) |-> {i \in S : rank(i, S) \div cap = n - 1}]

chunksOf(S, cap) ==
  IF cap = 0 \/ Cardinality(S) <= cap THEN <<S>>
  ELSE [n \in 1..((Cardinality(S) + cap - 1) \div cap) |-> {i \in S : rank(i, S) \div cap = n - 1}]

applyConcurrencyCap(lvls, cap) ==
  FlattenSeq([k \in DOMAIN lvls |-> chunksOf(lvls[k].indices, cap)])

Plan == applyConcurrencyCap(levels, maxConcurrency)

-----------------------------------------------------------------------------
Placed == 1..Len(entries)

(***************************************************************************)
(* The capped plan still runs every call exactly once, never more than the *)
(* cap at once, and never a conflicting call before or beside an earlier   *)
(* one.                                                                    *)
(***************************************************************************)
CappedPlanSound ==
  /\ \A i \in Placed : \E k \in 1..Len(Plan) :
       i \in Plan[k] /\ \A m \in 1..Len(Plan) : i \in Plan[m] => m = k
  /\ maxConcurrency # 0 => \A k \in 1..Len(Plan) : Cardinality(Plan[k]) \in 1..maxConcurrency
  /\ \A k, m \in 1..Len(Plan) : \A i \in Plan[k], j \in Plan[m] :
       i < j /\ resolutionsConflict(entries[i], entries[j]) => k < m

-----------------------------------------------------------------------------
(* The level of the i-th call, counted from 0. *)
LevelOf(i) == (CHOOSE k \in 1..Len(levels) : i \in levels[k].indices) - 1

Abstract == INSTANCE LevelPlan
              WITH Resolutions <- {Resolution(call) : call \in ToolCalls},
                   lev <- [i \in Placed |-> LevelOf(i)]

(* Every run of the scan loops is a run of the abstract level plan: each  *)
(* call gets the lowest level above its earlier conflicts, so that a      *)
(* conflict never holds back an independent later call.                   *)
ImplementsLevelPlan == Abstract!PlanSpec
=============================================================================
