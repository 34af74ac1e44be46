------------------------------ MODULE LevelPlan ------------------------------
(***************************************************************************)
(* What the dag-v2 scheduler promises of a batch, free of how it computes  *)
(* it: calls arrive in source order and each is put, once and for all, on  *)
(* the lowest level above every earlier call it conflicts with.            *)
(* DagLevels implements this specification; ToolBatch plans with           *)
(* IsTargetLevel.                                                          *)
(***************************************************************************)
EXTENDS Naturals, Sequences, ResourceClaims

CONSTANT Resolutions

VARIABLES entries,  \* the resolutions of the calls planned so far, in source order
          lev       \* lev[i] is the level (counted from 0) of the i-th call

planVars == <<entries, lev>>

(***************************************************************************)
(* t is the level of a call with resolution r, given the resolutions and   *)
(* the levels of the calls in placed: above each of them it conflicts with *)
(* and, unless it is the first level, directly above one of those.         *)
(***************************************************************************)
IsTargetLevel(t, r, placed, res, level) ==
  /\ \A j \in placed : resolutionsConflict(r, res[j]) => level[j] < t
  /\ t = 0 \/ \E j \in placed : resolutionsConflict(r, res[j]) /\ level[j] + 1 = t

PlanInit == entries = <<>> /\ lev = <<>>

Place(r, t) ==
  /\ IsTargetLevel(t, r, 1..Len(entries), entries, lev)
  /\ entries' = Append(entries, r)
  /\ lev' = Append(lev, t)

PlanNext == \E r \in Resolutions, t \in 0..Len(entries) : Place(r, t)

PlanSpec == PlanInit /\ [][PlanNext]_planVars
=============================================================================
