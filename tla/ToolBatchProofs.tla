--------------------------- MODULE ToolBatchProofs ---------------------------
(***************************************************************************)
(* Proofs about ToolBatch, for every number of calls, every set of         *)
(* resolutions, every concurrency cap and every set of events.             *)
(***************************************************************************)
EXTENDS ToolBatch, TLAPS

(* Conflict is symmetric, so a level is conflict free both ways although   *)
(* assignDagLevels only compares a call with the earlier ones.             *)
LEMMA ConflictSymmetric ==
  ASSUME NEW l, NEW r
  PROVE  resolutionsConflict(l, r) <=> resolutionsConflict(r, l)
<1>1. ASSUME NEW c, NEW d PROVE claimsConflict(c, d) <=> claimsConflict(d, c)
  <2>1. pathClaimsOverlap(c, d) <=> pathClaimsOverlap(d, c)
    BY DEF pathClaimsOverlap, pathSegmentsOverlap
  <2> QED  BY <2>1 DEF claimsConflict
<1> QED  BY <1>1 DEF resolutionsConflict

(* A chunk is taken from the calls left, and its calls share a level. *)
LEMMA ChunkOneLevel ==
  ASSUME NEW S \in SUBSET Calls, NEW plan \in [Calls -> Int]
  PROVE  /\ nextChunk(S, plan) \subseteq S
         /\ \A c, d \in nextChunk(S, plan) : plan[c] = plan[d]
BY DEF nextChunk, Calls

(***************************************************************************)
(* Type correctness.                                                       *)
(***************************************************************************)
LEMMA TypeOKInit == Init => TypeOK
<1> SUFFICES ASSUME Init PROVE TypeOK
  OBVIOUS
<1> USE ToolBatchAssumption DEF Init, None
<1>1. planned \in [Calls -> BOOLEAN]
  OBVIOUS
<1>2. PlanType
  <2>1. pc \in Pcs /\ signal \in BOOLEAN  BY DEF Pcs
  <2>2. planArgs \in [Calls -> Args] /\ args \in [Calls -> Args]  OBVIOUS
  <2>3. lev \in [Calls -> Int] /\ sub \in [Calls -> Int]  OBVIOUS
  <2> QED  BY <1>1, <2>1, <2>2, <2>3 DEF PlanType
<1>3. LevelType  BY DEF LevelType
<1>4. RaceType  BY DEF RaceType
<1>5. StopType  BY DEF StopType
<1>6. OutputType  BY DEF OutputType
<1> QED  BY <1>2, <1>3, <1>4, <1>5, <1>6 DEF TypeOK

LEMMA TypeOKNext == TypeOK /\ [Next]_vars => TypeOK'
<1> SUFFICES ASSUME TypeOK, [Next]_vars PROVE TypeOK'
  OBVIOUS
<1> USE ToolBatchAssumption DEF TypeOK, PlanType, LevelType, RaceType, StopType, OutputType, Pcs,
      planVars, levelVars, raceVars, finalVars, stopVars, outputVars
<1>1. ASSUME NEW c \in Calls, NEW t \in 0..N, PlaceCall(c, t) PROVE TypeOK'
  BY <1>1 DEF PlaceCall
<1>2. ASSUME NEW c \in Calls, NEW t \in 0..N, PlaceRunnable(c, t) PROVE TypeOK'
  BY <1>2 DEF PlaceRunnable
<1>3. CASE PlanDone
  BY <1>3 DEF PlanDone
<1>4. CASE NextLevel
  <2>1. nextChunk(todo, lev) \subseteq todo  BY ChunkOneLevel
  <2> QED  BY <1>4, <2>1 DEF NextLevel
<1>5. CASE ReplanDone
  BY <1>5 DEF ReplanDone
<1>6. CASE NextSublevel
  <2>1. nextChunk(waiting, sub) \subseteq waiting  BY ChunkOneLevel
  <2> QED  BY <1>6, <2>1 DEF NextSublevel
<1>7. CASE BeginSublevel
  BY <1>7 DEF BeginSublevel
<1>8. CASE SublevelEnd
  BY <1>8 DEF SublevelEnd
<1>9. CASE LevelEnd
  BY <1>9 DEF LevelEnd
<1>10. CASE Build
  BY <1>10 DEF Build, Dispositions, Outcomes
<1>11. CASE EmitResult
  <2>1. nextMsg \in Calls /\ nextMsg' \in 1..(N + 1)
    BY <1>11 DEF EmitResult, Calls
  <2>2. msg[nextMsg] # None => entry(nextMsg, msg[nextMsg], outcome[nextMsg] # None) \in Result
    BY <2>1 DEF entry, Result
  <2>3. results' \in Seq(Result)  BY <1>11, <2>2 DEF EmitResult
  <2>4. committed' \in [Calls -> BOOLEAN]
    BY <1>11, <2>1, Zenon DEF EmitResult
  <2> QED  BY <1>11, <2>1, <2>3, <2>4 DEF EmitResult
<1>12. CASE EmitDone
  BY <1>12 DEF EmitDone
<1>13. ASSUME NEW c \in Calls, EmitStart(c) PROVE TypeOK'
  BY <1>13 DEF EmitStart
<1>14. ASSUME NEW c \in Calls, CloseUnresolved(c) PROVE TypeOK'
  BY <1>14 DEF CloseUnresolved, entry, Result, Dispositions, Outcomes
<1>15. CASE FailureClosed
  BY <1>15 DEF FailureClosed
<1>16. ASSUME NEW c \in Calls, AuthorizeFails(c) PROVE TypeOK'
  BY <1>16 DEF AuthorizeFails, afterAuthorize, Outcomes
<1>17. ASSUME NEW c \in Calls, AuthorizeRefuses(c) PROVE TypeOK'
  BY <1>17 DEF AuthorizeRefuses, afterAuthorize, Outcomes
<1>18. ASSUME NEW c \in Calls, NEW a \in Args, Authorize(c, a) PROVE TypeOK'
  BY <1>18 DEF Authorize, afterAuthorize
<1>19. ASSUME NEW c \in Calls, NEW w \in {"real", "timeout", "aborted"}, RaceWon(c, w) PROVE TypeOK'
  BY <1>19 DEF RaceWon
<1>20. ASSUME NEW c \in Calls, NEW d \in Outcomes, NEW b \in BOOLEAN, Finalize(c, d, b) PROVE TypeOK'
  BY <1>20 DEF Finalize
<1>21. CASE Abort
  BY <1>21 DEF Abort
<1>22. CASE ListenerThrows
  BY <1>22 DEF ListenerThrows
<1>23. CASE ClosureThrows
  BY <1>23 DEF ClosureThrows
<1>24. ASSUME NEW b \in BOOLEAN, EmitThrows(b) PROVE TypeOK'
  <2>1. nextMsg \in Calls
    BY <1>24 DEF EmitThrows, Calls
  <2>2. entry(nextMsg, msg[nextMsg], outcome[nextMsg] # None) \in Result
    BY <1>24, <2>1 DEF EmitThrows, entry, Result
  <2>3. results' \in Seq(Result)  BY <1>24, <2>2 DEF EmitThrows
  <2>4. committed' \in [Calls -> BOOLEAN]
    BY <1>24, <2>1, Zenon DEF EmitThrows
  <2> QED  BY <1>24, <2>1, <2>3, <2>4 DEF EmitThrows
<1>25. ASSUME NEW c \in Calls, Settle(c) PROVE TypeOK'
  BY <1>25 DEF Settle
<1>26. ASSUME NEW c \in Calls, LateSettlement(c) PROVE TypeOK'
  BY <1>26 DEF LateSettlement
<1>27. ASSUME NEW c \in Calls, Timeout(c) PROVE TypeOK'
  BY <1>27 DEF Timeout
<1>28. CASE UNCHANGED vars
  BY <1>28 DEF vars
<1> QED
  BY <1>1, <1>2, <1>3, <1>4, <1>5, <1>6, <1>7, <1>8, <1>9, <1>10, <1>11, <1>12, <1>13, <1>14, <1>15, <1>16, <1>17, <1>18, <1>19, <1>20, <1>21, <1>22, <1>23, <1>24, <1>25, <1>26, <1>27, <1>28
     DEF Next, Driver, Hooks, Closing, Environment

(* A call is in one place at a time. *)
LEMMA BookkeepingNext == TypeOK /\ Bookkeeping /\ [Next]_vars => Bookkeeping'
<1> SUFFICES ASSUME TypeOK, Bookkeeping, [Next]_vars PROVE Bookkeeping'
  OBVIOUS
<1> USE DEF TypeOK, PlanType, LevelType, RaceType, StopType, Pcs, Bookkeeping, fresh,
      planVars, levelVars, raceVars, finalVars, stopVars, outputVars
<1>1. ASSUME NEW c \in Calls, NEW t \in 0..N, PlaceCall(c, t) PROVE Bookkeeping'
  BY <1>1 DEF PlaceCall
<1>2. ASSUME NEW c \in Calls, NEW t \in 0..N, PlaceRunnable(c, t) PROVE Bookkeeping'
  BY <1>2 DEF PlaceRunnable
<1>3. CASE PlanDone
  BY <1>3 DEF PlanDone
<1>4. CASE NextLevel
  <2>1. nextChunk(todo, lev) \subseteq todo  BY ChunkOneLevel
  <2> QED  BY <1>4, <2>1 DEF NextLevel
<1>5. CASE ReplanDone
  BY <1>5 DEF ReplanDone
<1>6. CASE NextSublevel
  <2>1. nextChunk(waiting, sub) \subseteq waiting  BY ChunkOneLevel
  <2> QED  BY <1>6, <2>1 DEF NextSublevel
<1>7. CASE BeginSublevel
  BY <1>7 DEF BeginSublevel
<1>8. CASE SublevelEnd
  BY <1>8 DEF SublevelEnd
<1>9. CASE LevelEnd
  BY <1>9 DEF LevelEnd
<1>10. CASE Build
  BY <1>10 DEF Build
<1>11. CASE EmitResult
  BY <1>11 DEF EmitResult
<1>12. CASE EmitDone
  BY <1>12 DEF EmitDone
<1>13. ASSUME NEW c \in Calls, EmitStart(c) PROVE Bookkeeping'
  BY <1>13 DEF EmitStart
<1>14. ASSUME NEW c \in Calls, CloseUnresolved(c) PROVE Bookkeeping'
  BY <1>14 DEF CloseUnresolved
<1>15. CASE FailureClosed
  BY <1>15 DEF FailureClosed
<1>16. ASSUME NEW c \in Calls, AuthorizeFails(c) PROVE Bookkeeping'
  BY <1>16 DEF AuthorizeFails, afterAuthorize
<1>17. ASSUME NEW c \in Calls, AuthorizeRefuses(c) PROVE Bookkeeping'
  BY <1>17 DEF AuthorizeRefuses, afterAuthorize
<1>18. ASSUME NEW c \in Calls, NEW a \in Args, Authorize(c, a) PROVE Bookkeeping'
  BY <1>18 DEF Authorize, afterAuthorize
<1>19. ASSUME NEW c \in Calls, NEW w \in {"real", "timeout", "aborted"}, RaceWon(c, w) PROVE Bookkeeping'
  BY <1>19 DEF RaceWon
<1>20. ASSUME NEW c \in Calls, NEW d \in Outcomes, NEW b \in BOOLEAN, Finalize(c, d, b) PROVE Bookkeeping'
  BY <1>20 DEF Finalize
<1>21. CASE Abort
  BY <1>21 DEF Abort
<1>22. CASE ListenerThrows
  BY <1>22 DEF ListenerThrows
<1>23. CASE ClosureThrows
  BY <1>23 DEF ClosureThrows
<1>24. ASSUME NEW b \in BOOLEAN, EmitThrows(b) PROVE Bookkeeping'
  BY <1>24 DEF EmitThrows
<1>25. ASSUME NEW c \in Calls, Settle(c) PROVE Bookkeeping'
  BY <1>25 DEF Settle
<1>26. ASSUME NEW c \in Calls, LateSettlement(c) PROVE Bookkeeping'
  BY <1>26 DEF LateSettlement
<1>27. ASSUME NEW c \in Calls, Timeout(c) PROVE Bookkeeping'
  BY <1>27 DEF Timeout
<1>28. CASE UNCHANGED vars
  BY <1>28 DEF vars
<1> HIDE DEF TypeOK, PlanType, LevelType, RaceType, StopType, Pcs, Bookkeeping, fresh,
      planVars, levelVars, raceVars, finalVars, stopVars, outputVars
<1> QED
  BY <1>1, <1>2, <1>3, <1>4, <1>5, <1>6, <1>7, <1>8, <1>9, <1>10, <1>11, <1>12, <1>13, <1>14, <1>15, <1>16, <1>17, <1>18, <1>19, <1>20, <1>21, <1>22, <1>23, <1>24, <1>25, <1>26, <1>27, <1>28
     DEF Next, Driver, Hooks, Closing, Environment

(* What a race leaves behind. *)
LEMMA RaceNext == TypeOK /\ Bookkeeping /\ RaceInv /\ [Next]_vars => RaceInv'
<1> SUFFICES ASSUME TypeOK, Bookkeeping, RaceInv, [Next]_vars PROVE RaceInv'
  OBVIOUS
<1> USE DEF TypeOK, PlanType, LevelType, RaceType, StopType, RaceInv, None,
      planVars, levelVars, raceVars, finalVars, stopVars, outputVars
<1>1. ASSUME NEW c \in Calls, NEW t \in 0..N, PlaceCall(c, t) PROVE RaceInv'
  BY <1>1 DEF PlaceCall
<1>2. ASSUME NEW c \in Calls, NEW t \in 0..N, PlaceRunnable(c, t) PROVE RaceInv'
  BY <1>2 DEF PlaceRunnable
<1>3. CASE PlanDone
  BY <1>3 DEF PlanDone
<1>4. CASE NextLevel
  BY <1>4 DEF NextLevel
<1>5. CASE ReplanDone
  BY <1>5 DEF ReplanDone
<1>6. CASE NextSublevel
  BY <1>6 DEF NextSublevel
<1>7. CASE BeginSublevel
  BY <1>7 DEF BeginSublevel, Bookkeeping
<1>8. CASE SublevelEnd
  BY <1>8 DEF SublevelEnd
<1>9. CASE LevelEnd
  BY <1>9 DEF LevelEnd
<1>10. CASE Build
  BY <1>10 DEF Build
<1>11. CASE EmitResult
  BY <1>11 DEF EmitResult
<1>12. CASE EmitDone
  BY <1>12 DEF EmitDone
<1>13. ASSUME NEW c \in Calls, EmitStart(c) PROVE RaceInv'
  BY <1>13 DEF EmitStart, Bookkeeping
<1>14. ASSUME NEW c \in Calls, CloseUnresolved(c) PROVE RaceInv'
  BY <1>14 DEF CloseUnresolved
<1>15. CASE FailureClosed
  BY <1>15 DEF FailureClosed
<1>16. ASSUME NEW c \in Calls, AuthorizeFails(c) PROVE RaceInv'
  BY <1>16 DEF AuthorizeFails, afterAuthorize, Bookkeeping, fresh
<1>17. ASSUME NEW c \in Calls, AuthorizeRefuses(c) PROVE RaceInv'
  BY <1>17 DEF AuthorizeRefuses, afterAuthorize, Bookkeeping, fresh
<1>18. ASSUME NEW c \in Calls, NEW a \in Args, Authorize(c, a) PROVE RaceInv'
  BY <1>18 DEF Authorize, afterAuthorize
<1>19. ASSUME NEW c \in Calls, NEW w \in {"real", "timeout", "aborted"}, RaceWon(c, w) PROVE RaceInv'
  BY <1>19 DEF RaceWon
<1>20. ASSUME NEW c \in Calls, NEW d \in Outcomes, NEW b \in BOOLEAN, Finalize(c, d, b) PROVE RaceInv'
  BY <1>20 DEF Finalize
<1>21. CASE Abort
  BY <1>21 DEF Abort
<1>22. CASE ListenerThrows
  BY <1>22 DEF ListenerThrows
<1>23. CASE ClosureThrows
  BY <1>23 DEF ClosureThrows
<1>24. ASSUME NEW b \in BOOLEAN, EmitThrows(b) PROVE RaceInv'
  BY <1>24 DEF EmitThrows
<1>25. ASSUME NEW c \in Calls, Settle(c) PROVE RaceInv'
  BY <1>25 DEF Settle
<1>26. ASSUME NEW c \in Calls, LateSettlement(c) PROVE RaceInv'
  BY <1>26 DEF LateSettlement
<1>27. ASSUME NEW c \in Calls, Timeout(c) PROVE RaceInv'
  BY <1>27 DEF Timeout
<1>28. CASE UNCHANGED vars
  BY <1>28 DEF vars
<1> HIDE DEF TypeOK, PlanType, LevelType, RaceType, StopType, RaceInv, None,
      planVars, levelVars, raceVars, finalVars, stopVars, outputVars
<1> QED
  BY <1>1, <1>2, <1>3, <1>4, <1>5, <1>6, <1>7, <1>8, <1>9, <1>10, <1>11, <1>12, <1>13, <1>14, <1>15, <1>16, <1>17, <1>18, <1>19, <1>20, <1>21, <1>22, <1>23, <1>24, <1>25, <1>26, <1>27, <1>28
     DEF Next, Driver, Hooks, Closing, Environment

(* Sublevels are conflict free. *)
LEMMA SublevelsNext == TypeOK /\ Bookkeeping /\ SublevelsSafe /\ [Next]_vars => SublevelsSafe'
<1> SUFFICES ASSUME TypeOK, Bookkeeping, SublevelsSafe, [Next]_vars PROVE SublevelsSafe'
  OBVIOUS
<1> USE DEF TypeOK, PlanType, LevelType, Pcs, Bookkeeping, SublevelsSafe, claimable,
      planVars, levelVars, raceVars, finalVars, stopVars, outputVars
<1>1. ASSUME NEW c \in Calls, NEW t \in 0..N, PlaceCall(c, t) PROVE SublevelsSafe'
  BY <1>1 DEF PlaceCall, conflict
<1>2. ASSUME NEW c \in Calls, NEW t \in 0..N, PlaceRunnable(c, t) PROVE SublevelsSafe'
  <2>1. /\ pc = "replan" /\ c \in waiting /\ sub[c] = -1
        /\ \A d \in waiting : d < c => sub[d] # -1
        /\ sub' = [sub EXCEPT ![c] = t] /\ UNCHANGED <<pc, waiting, args, planned>>
    BY <1>2 DEF PlaceRunnable
  <2>2. \A d \in waiting : sub[d] # -1 => d < c
    BY <2>1 DEF Calls
  <2>3. ASSUME NEW d \in waiting, d # c, sub[d] = t, t # -1 PROVE ~conflict(c, d)
    <3>1. d < c  BY <2>2, <2>3
    <3>2. CASE claimable(waiting)  BY <1>2, <2>3, <3>1, <3>2 DEF PlaceRunnable, targetLevel
    <3>3. CASE ~claimable(waiting)  BY <1>2, <2>1, <2>3, <3>1, <3>3 DEF PlaceRunnable, Calls
    <3> QED  BY <3>2, <3>3
  <2>4. \A d, e \in waiting : conflict(d, e) <=> conflict(e, d)
    BY ConflictSymmetric DEF conflict
  <2>5. \A d, e \in waiting : conflict(d, e)' <=> conflict(d, e)
    BY <2>1 DEF conflict
  <2>6. \A d, e \in waiting : d # e /\ sub'[d] = sub'[e] /\ sub'[d] # -1 => ~conflict(d, e)
    BY <2>1, <2>3, <2>4
  <2>7. ~claimable(waiting) => t = c
    BY <1>2 DEF PlaceRunnable
  <2> QED  BY <2>1, <2>2, <2>5, <2>6, <2>7 DEF Calls
<1>3. CASE PlanDone
  BY <1>3 DEF PlanDone, conflict
<1>4. CASE NextLevel
  BY <1>4 DEF NextLevel, conflict
<1>5. CASE ReplanDone
  BY <1>5 DEF ReplanDone, conflict
<1>6. CASE NextSublevel
  <2>1. /\ nextChunk(waiting, sub) \subseteq waiting
        /\ \A c, d \in nextChunk(waiting, sub) : sub[c] = sub[d]
    BY ChunkOneLevel
  <2>2. \A c, d \in nextChunk(waiting, sub) : c # d => ~conflict(c, d)
    BY <1>6, <2>1 DEF NextSublevel
  <2> QED  BY <1>6, <2>1, <2>2 DEF NextSublevel, conflict
<1>7. CASE BeginSublevel
  BY <1>7 DEF BeginSublevel, conflict
<1>8. CASE SublevelEnd
  BY <1>8 DEF SublevelEnd, conflict
<1>9. CASE LevelEnd
  BY <1>9 DEF LevelEnd, conflict
<1>10. CASE Build
  BY <1>10 DEF Build, conflict
<1>11. CASE EmitResult
  BY <1>11 DEF EmitResult, conflict
<1>12. CASE EmitDone
  BY <1>12 DEF EmitDone, conflict
<1>13. ASSUME NEW c \in Calls, EmitStart(c) PROVE SublevelsSafe'
  BY <1>13 DEF EmitStart, conflict
<1>14. ASSUME NEW c \in Calls, CloseUnresolved(c) PROVE SublevelsSafe'
  BY <1>14 DEF CloseUnresolved, conflict
<1>15. CASE FailureClosed
  BY <1>15 DEF FailureClosed, conflict
<1>16. ASSUME NEW c \in Calls, AuthorizeFails(c) PROVE SublevelsSafe'
  BY <1>16 DEF AuthorizeFails, afterAuthorize, conflict
<1>17. ASSUME NEW c \in Calls, AuthorizeRefuses(c) PROVE SublevelsSafe'
  BY <1>17 DEF AuthorizeRefuses, afterAuthorize, conflict
<1>18. ASSUME NEW c \in Calls, NEW a \in Args, Authorize(c, a) PROVE SublevelsSafe'
  BY <1>18 DEF Authorize, afterAuthorize, conflict
<1>19. ASSUME NEW c \in Calls, NEW w \in {"real", "timeout", "aborted"}, RaceWon(c, w) PROVE SublevelsSafe'
  BY <1>19 DEF RaceWon, conflict
<1>20. ASSUME NEW c \in Calls, NEW d \in Outcomes, NEW b \in BOOLEAN, Finalize(c, d, b) PROVE SublevelsSafe'
  BY <1>20 DEF Finalize, conflict
<1>21. CASE Abort
  BY <1>21 DEF Abort, conflict
<1>22. CASE ListenerThrows
  BY <1>22 DEF ListenerThrows, conflict
<1>23. CASE ClosureThrows
  BY <1>23 DEF ClosureThrows, conflict
<1>24. ASSUME NEW b \in BOOLEAN, EmitThrows(b) PROVE SublevelsSafe'
  BY <1>24 DEF EmitThrows, conflict
<1>25. ASSUME NEW c \in Calls, Settle(c) PROVE SublevelsSafe'
  BY <1>25 DEF Settle, conflict
<1>26. ASSUME NEW c \in Calls, LateSettlement(c) PROVE SublevelsSafe'
  BY <1>26 DEF LateSettlement, conflict
<1>27. ASSUME NEW c \in Calls, Timeout(c) PROVE SublevelsSafe'
  BY <1>27 DEF Timeout, conflict
<1>28. CASE UNCHANGED vars
  BY <1>28 DEF vars, conflict
<1> HIDE DEF TypeOK, PlanType, LevelType, Pcs, Bookkeeping, SublevelsSafe, claimable,
      planVars, levelVars, raceVars, finalVars, stopVars, outputVars
<1> QED
  BY <1>1, <1>2, <1>3, <1>4, <1>5, <1>6, <1>7, <1>8, <1>9, <1>10, <1>11, <1>12, <1>13, <1>14, <1>15, <1>16, <1>17, <1>18, <1>19, <1>20, <1>21, <1>22, <1>23, <1>24, <1>25, <1>26, <1>27, <1>28
     DEF Next, Driver, Hooks, Closing, Environment

(* When no tool may run. *)
LEMMA QuietNext == TypeOK /\ Bookkeeping /\ RaceInv /\ QuietInv /\ [Next]_vars => QuietInv'
<1> SUFFICES ASSUME TypeOK, Bookkeeping, RaceInv, QuietInv, [Next]_vars PROVE QuietInv'
  OBVIOUS
<1> USE DEF TypeOK, PlanType, LevelType, RaceType, StopType, Pcs, QuietInv, Running,
      planVars, levelVars, raceVars, finalVars, stopVars, outputVars
<1>1. ASSUME NEW c \in Calls, NEW t \in 0..N, PlaceCall(c, t) PROVE QuietInv'
  BY <1>1 DEF PlaceCall
<1>2. ASSUME NEW c \in Calls, NEW t \in 0..N, PlaceRunnable(c, t) PROVE QuietInv'
  BY <1>2 DEF PlaceRunnable
<1>3. CASE PlanDone
  BY <1>3 DEF PlanDone
<1>4. CASE NextLevel
  BY <1>4 DEF NextLevel
<1>5. CASE ReplanDone
  BY <1>5 DEF ReplanDone
<1>6. CASE NextSublevel
  BY <1>6 DEF NextSublevel, Bookkeeping
<1>7. CASE BeginSublevel
  BY <1>7 DEF BeginSublevel
<1>8. CASE SublevelEnd
  <2>1. \A c \in Running : ~signal => c \in chunk /\ outcome[c] = "timeout" /\ real[c] = "running"
    BY <1>8 DEF SublevelEnd, RaceInv, None
  <2>2. \/ pc' = "levelEnd" /\ (signal \/ unsettled')
        \/ pc' = "sub" /\ ~signal /\ Running = {}
    BY <1>8, <2>1 DEF SublevelEnd
  <2>3. UNCHANGED <<Running, signal>>  BY <1>8 DEF SublevelEnd
  <2> QED  BY <2>2, <2>3
<1>9. CASE LevelEnd
  BY <1>9 DEF LevelEnd, Bookkeeping
<1>10. CASE Build
  BY <1>10 DEF Build
<1>11. CASE EmitResult
  BY <1>11 DEF EmitResult
<1>12. CASE EmitDone
  BY <1>12 DEF EmitDone
<1>13. ASSUME NEW c \in Calls, EmitStart(c) PROVE QuietInv'
  BY <1>13 DEF EmitStart
<1>14. ASSUME NEW c \in Calls, CloseUnresolved(c) PROVE QuietInv'
  BY <1>14 DEF CloseUnresolved
<1>15. CASE FailureClosed
  BY <1>15 DEF FailureClosed
<1>16. ASSUME NEW c \in Calls, AuthorizeFails(c) PROVE QuietInv'
  BY <1>16 DEF AuthorizeFails, afterAuthorize
<1>17. ASSUME NEW c \in Calls, AuthorizeRefuses(c) PROVE QuietInv'
  BY <1>17 DEF AuthorizeRefuses, afterAuthorize
<1>18. ASSUME NEW c \in Calls, NEW a \in Args, Authorize(c, a) PROVE QuietInv'
  BY <1>18 DEF Authorize, afterAuthorize
<1>19. ASSUME NEW c \in Calls, NEW w \in {"real", "timeout", "aborted"}, RaceWon(c, w) PROVE QuietInv'
  BY <1>19 DEF RaceWon
<1>20. ASSUME NEW c \in Calls, NEW d \in Outcomes, NEW b \in BOOLEAN, Finalize(c, d, b) PROVE QuietInv'
  BY <1>20 DEF Finalize
<1>21. CASE Abort
  BY <1>21 DEF Abort
<1>22. CASE ListenerThrows
  BY <1>22 DEF ListenerThrows
<1>23. CASE ClosureThrows
  BY <1>23 DEF ClosureThrows
<1>24. ASSUME NEW b \in BOOLEAN, EmitThrows(b) PROVE QuietInv'
  BY <1>24 DEF EmitThrows
<1>25. ASSUME NEW c \in Calls, Settle(c) PROVE QuietInv'
  BY <1>25 DEF Settle
<1>26. ASSUME NEW c \in Calls, LateSettlement(c) PROVE QuietInv'
  BY <1>26 DEF LateSettlement
<1>27. ASSUME NEW c \in Calls, Timeout(c) PROVE QuietInv'
  BY <1>27 DEF Timeout
<1>28. CASE UNCHANGED vars
  BY <1>28 DEF vars
<1> HIDE DEF TypeOK, PlanType, LevelType, RaceType, StopType, Pcs, QuietInv, Running,
      planVars, levelVars, raceVars, finalVars, stopVars, outputVars
<1> QED
  BY <1>1, <1>2, <1>3, <1>4, <1>5, <1>6, <1>7, <1>8, <1>9, <1>10, <1>11, <1>12, <1>13, <1>14, <1>15, <1>16, <1>17, <1>18, <1>19, <1>20, <1>21, <1>22, <1>23, <1>24, <1>25, <1>26, <1>27, <1>28
     DEF Next, Driver, Hooks, Closing, Environment

(* Conflicting calls never overlap. *)
LEMMA OverlapNext == TypeOK /\ SublevelsSafe /\ QuietInv /\ NoUnsafeOverlap /\ [Next]_vars => NoUnsafeOverlap'
<1> SUFFICES ASSUME TypeOK, SublevelsSafe, QuietInv, NoUnsafeOverlap, [Next]_vars PROVE NoUnsafeOverlap'
  OBVIOUS
<1> USE DEF TypeOK, PlanType, LevelType, RaceType, NoUnsafeOverlap, Running, conflict,
      planVars, levelVars, raceVars, finalVars, stopVars, outputVars
<1>1. ASSUME NEW c \in Calls, NEW t \in 0..N, PlaceCall(c, t) PROVE NoUnsafeOverlap'
  BY <1>1 DEF PlaceCall
<1>2. ASSUME NEW c \in Calls, NEW t \in 0..N, PlaceRunnable(c, t) PROVE NoUnsafeOverlap'
  BY <1>2 DEF PlaceRunnable
<1>3. CASE PlanDone
  BY <1>3 DEF PlanDone
<1>4. CASE NextLevel
  BY <1>4 DEF NextLevel
<1>5. CASE ReplanDone
  BY <1>5 DEF ReplanDone
<1>6. CASE NextSublevel
  BY <1>6 DEF NextSublevel
<1>7. CASE BeginSublevel
  BY <1>7 DEF BeginSublevel, SublevelsSafe, QuietInv
<1>8. CASE SublevelEnd
  BY <1>8 DEF SublevelEnd
<1>9. CASE LevelEnd
  BY <1>9 DEF LevelEnd
<1>10. CASE Build
  BY <1>10 DEF Build
<1>11. CASE EmitResult
  BY <1>11 DEF EmitResult
<1>12. CASE EmitDone
  BY <1>12 DEF EmitDone
<1>13. ASSUME NEW c \in Calls, EmitStart(c) PROVE NoUnsafeOverlap'
  BY <1>13 DEF EmitStart
<1>14. ASSUME NEW c \in Calls, CloseUnresolved(c) PROVE NoUnsafeOverlap'
  BY <1>14 DEF CloseUnresolved
<1>15. CASE FailureClosed
  BY <1>15 DEF FailureClosed
<1>16. ASSUME NEW c \in Calls, AuthorizeFails(c) PROVE NoUnsafeOverlap'
  BY <1>16 DEF AuthorizeFails, afterAuthorize
<1>17. ASSUME NEW c \in Calls, AuthorizeRefuses(c) PROVE NoUnsafeOverlap'
  BY <1>17 DEF AuthorizeRefuses, afterAuthorize
<1>18. ASSUME NEW c \in Calls, NEW a \in Args, Authorize(c, a) PROVE NoUnsafeOverlap'
  BY <1>18 DEF Authorize, afterAuthorize, QuietInv
<1>19. ASSUME NEW c \in Calls, NEW w \in {"real", "timeout", "aborted"}, RaceWon(c, w) PROVE NoUnsafeOverlap'
  BY <1>19 DEF RaceWon
<1>20. ASSUME NEW c \in Calls, NEW d \in Outcomes, NEW b \in BOOLEAN, Finalize(c, d, b) PROVE NoUnsafeOverlap'
  BY <1>20 DEF Finalize
<1>21. CASE Abort
  BY <1>21 DEF Abort
<1>22. CASE ListenerThrows
  BY <1>22 DEF ListenerThrows
<1>23. CASE ClosureThrows
  BY <1>23 DEF ClosureThrows
<1>24. ASSUME NEW b \in BOOLEAN, EmitThrows(b) PROVE NoUnsafeOverlap'
  BY <1>24 DEF EmitThrows
<1>25. ASSUME NEW c \in Calls, Settle(c) PROVE NoUnsafeOverlap'
  BY <1>25 DEF Settle
<1>26. ASSUME NEW c \in Calls, LateSettlement(c) PROVE NoUnsafeOverlap'
  BY <1>26 DEF LateSettlement
<1>27. ASSUME NEW c \in Calls, Timeout(c) PROVE NoUnsafeOverlap'
  BY <1>27 DEF Timeout
<1>28. CASE UNCHANGED vars
  BY <1>28 DEF vars
<1> HIDE DEF TypeOK, PlanType, LevelType, RaceType, NoUnsafeOverlap, Running, conflict,
      planVars, levelVars, raceVars, finalVars, stopVars, outputVars
<1> QED
  BY <1>1, <1>2, <1>3, <1>4, <1>5, <1>6, <1>7, <1>8, <1>9, <1>10, <1>11, <1>12, <1>13, <1>14, <1>15, <1>16, <1>17, <1>18, <1>19, <1>20, <1>21, <1>22, <1>23, <1>24, <1>25, <1>26, <1>27, <1>28
     DEF Next, Driver, Hooks, Closing, Environment

(* Every call gets an outcome or a message. *)
LEMMA OutcomeNext == TypeOK /\ Bookkeeping /\ RaceInv /\ QuietInv /\ OutcomeInv /\ [Next]_vars => OutcomeInv'
<1> SUFFICES ASSUME TypeOK, Bookkeeping, RaceInv, QuietInv, OutcomeInv, [Next]_vars PROVE OutcomeInv'
  OBVIOUS
<1> USE DEF TypeOK, PlanType, LevelType, StopType, Pcs, OutcomeInv, fresh,
      planVars, levelVars, raceVars, finalVars, stopVars, outputVars
<1>1. ASSUME NEW c \in Calls, NEW t \in 0..N, PlaceCall(c, t) PROVE OutcomeInv'
  BY <1>1 DEF PlaceCall
<1>2. ASSUME NEW c \in Calls, NEW t \in 0..N, PlaceRunnable(c, t) PROVE OutcomeInv'
  BY <1>2 DEF PlaceRunnable
<1>3. CASE PlanDone
  BY <1>3 DEF PlanDone
<1>4. CASE NextLevel
  <2>1. nextChunk(todo, lev) \subseteq todo  BY ChunkOneLevel
  <2> QED  BY <1>4, <2>1 DEF NextLevel, Bookkeeping
<1>5. CASE ReplanDone
  BY <1>5 DEF ReplanDone
<1>6. CASE NextSublevel
  <2>1. nextChunk(waiting, sub) \subseteq waiting  BY ChunkOneLevel
  <2> QED  BY <1>6, <2>1 DEF NextSublevel, Bookkeeping
<1>7. CASE BeginSublevel
  BY <1>7 DEF BeginSublevel
<1>8. CASE SublevelEnd
  BY <1>8 DEF SublevelEnd, RaceInv
<1>9. CASE LevelEnd
  BY <1>9 DEF LevelEnd, QuietInv
<1>10. CASE Build
  BY <1>10 DEF Build, None, Outcomes
<1>11. CASE EmitResult
  BY <1>11 DEF EmitResult
<1>12. CASE EmitDone
  BY <1>12 DEF EmitDone
<1>13. ASSUME NEW c \in Calls, EmitStart(c) PROVE OutcomeInv'
  BY <1>13 DEF EmitStart
<1>14. ASSUME NEW c \in Calls, CloseUnresolved(c) PROVE OutcomeInv'
  BY <1>14 DEF CloseUnresolved
<1>15. CASE FailureClosed
  BY <1>15 DEF FailureClosed
<1>16. ASSUME NEW c \in Calls, AuthorizeFails(c) PROVE OutcomeInv'
  BY <1>16 DEF AuthorizeFails, afterAuthorize, None, Outcomes
<1>17. ASSUME NEW c \in Calls, AuthorizeRefuses(c) PROVE OutcomeInv'
  BY <1>17 DEF AuthorizeRefuses, afterAuthorize, None, Outcomes
<1>18. ASSUME NEW c \in Calls, NEW a \in Args, Authorize(c, a) PROVE OutcomeInv'
  BY <1>18 DEF Authorize, afterAuthorize
<1>19. ASSUME NEW c \in Calls, NEW w \in {"real", "timeout", "aborted"}, RaceWon(c, w) PROVE OutcomeInv'
  BY <1>19 DEF RaceWon
<1>20. ASSUME NEW c \in Calls, NEW d \in Outcomes, NEW b \in BOOLEAN, Finalize(c, d, b) PROVE OutcomeInv'
  BY <1>20 DEF Finalize, None, Outcomes
<1>21. CASE Abort
  BY <1>21 DEF Abort
<1>22. CASE ListenerThrows
  BY <1>22 DEF ListenerThrows
<1>23. CASE ClosureThrows
  BY <1>23 DEF ClosureThrows
<1>24. ASSUME NEW b \in BOOLEAN, EmitThrows(b) PROVE OutcomeInv'
  BY <1>24 DEF EmitThrows
<1>25. ASSUME NEW c \in Calls, Settle(c) PROVE OutcomeInv'
  BY <1>25 DEF Settle
<1>26. ASSUME NEW c \in Calls, LateSettlement(c) PROVE OutcomeInv'
  BY <1>26 DEF LateSettlement
<1>27. ASSUME NEW c \in Calls, Timeout(c) PROVE OutcomeInv'
  BY <1>27 DEF Timeout
<1>28. CASE UNCHANGED vars
  BY <1>28 DEF vars
<1> HIDE DEF TypeOK, PlanType, LevelType, StopType, Pcs, OutcomeInv, fresh,
      planVars, levelVars, raceVars, finalVars, stopVars, outputVars
<1> QED
  BY <1>1, <1>2, <1>3, <1>4, <1>5, <1>6, <1>7, <1>8, <1>9, <1>10, <1>11, <1>12, <1>13, <1>14, <1>15, <1>16, <1>17, <1>18, <1>19, <1>20, <1>21, <1>22, <1>23, <1>24, <1>25, <1>26, <1>27, <1>28
     DEF Next, Driver, Hooks, Closing, Environment

(* The last element of Append(s, e). *)
LEMMA AppendLast ==
  ASSUME NEW S, NEW s \in Seq(S), NEW e \in S
  PROVE  Append(s, e)[Len(s) + 1] = e
OBVIOUS

(* Since the transcript holds a prefix, the calls without a result are the  *)
(* ones past its end.                                                       *)
LEMMA UnresolvedSuffix ==
  ASSUME TypeOK, TranscriptInv
  PROVE  \A d \in Calls : d \in unresolved <=> Len(results) < d
<1> SUFFICES ASSUME NEW d \in Calls PROVE d \in unresolved <=> Len(results) < d
  OBVIOUS
<1>1. Len(results) \in Nat /\ N \in Nat /\ d \in 1..N
  BY ToolBatchAssumption DEF TypeOK, OutputType, Calls
<1>2. \A i \in 1..Len(results) : results[i].call = i
  BY DEF TranscriptInv
<1>3. CASE Len(results) < d
  BY <1>1, <1>2, <1>3 DEF unresolved
<1>4. CASE ~(Len(results) < d)
  <2>1. d \in 1..Len(results)  BY <1>1, <1>4
  <2> QED  BY <1>2, <1>4, <2>1 DEF unresolved
<1> QED  BY <1>3, <1>4

(* The transcript grows in source order. *)
LEMMA TranscriptNext == TypeOK /\ OutcomeInv /\ TranscriptInv /\ [Next]_vars => TranscriptInv'
<1> SUFFICES ASSUME TypeOK, OutcomeInv, TranscriptInv, [Next]_vars PROVE TranscriptInv'
  OBVIOUS
<1> USE ToolBatchAssumption DEF TypeOK, PlanType, OutputType, Pcs, TranscriptInv,
      planVars, levelVars, raceVars, finalVars, stopVars, outputVars
<1>1. ASSUME NEW c \in Calls, NEW t \in 0..N, PlaceCall(c, t) PROVE TranscriptInv'
  BY <1>1 DEF PlaceCall
<1>2. ASSUME NEW c \in Calls, NEW t \in 0..N, PlaceRunnable(c, t) PROVE TranscriptInv'
  BY <1>2 DEF PlaceRunnable
<1>3. CASE PlanDone
  BY <1>3 DEF PlanDone
<1>4. CASE NextLevel
  BY <1>4 DEF NextLevel
<1>5. CASE ReplanDone
  BY <1>5 DEF ReplanDone
<1>6. CASE NextSublevel
  BY <1>6 DEF NextSublevel
<1>7. CASE BeginSublevel
  BY <1>7 DEF BeginSublevel
<1>8. CASE SublevelEnd
  BY <1>8 DEF SublevelEnd
<1>9. CASE LevelEnd
  BY <1>9 DEF LevelEnd
<1>10. CASE Build
  BY <1>10 DEF Build
<1>11. CASE EmitResult
  BY <1>11 DEF EmitResult, OutcomeInv, entry, Calls
<1>12. CASE EmitDone
  BY <1>12 DEF EmitDone
<1>13. ASSUME NEW c \in Calls, EmitStart(c) PROVE TranscriptInv'
  BY <1>13 DEF EmitStart
<1>14. ASSUME NEW c \in Calls, CloseUnresolved(c) PROVE TranscriptInv'
  <2>1. Len(results) \in Nat  OBVIOUS
  <2>2. \A d \in Calls : d \in unresolved <=> Len(results) < d
    BY UnresolvedSuffix
  <2>3. c = Len(results) + 1  
    <3>1. c \in unresolved /\ \A d \in unresolved : c <= d  BY <1>14 DEF CloseUnresolved
    <3>2. Len(results) + 1 \in Calls  BY <2>1, <2>2, <3>1 DEF Calls
    <3> QED  BY <2>1, <2>2, <3>1, <3>2 DEF Calls
  <2>4. entry(c, "aborted", FALSE).call = c  BY DEF entry
  <2>5. entry(c, "aborted", FALSE) \in Result  BY DEF entry, Result, Dispositions, Outcomes
  <2>6. results' = Append(results, entry(c, "aborted", FALSE)) /\ UNCHANGED <<pc, nextMsg>>
    BY <1>14 DEF CloseUnresolved
  <2>7. Len(results') = c /\ c <= N  BY <2>1, <2>3, <2>5, <2>6 DEF Calls
  <2>8. ASSUME NEW i \in 1..Len(results') PROVE results'[i].call = i
    <3>1. CASE i = c
      <4>1. results \in Seq(Result)  OBVIOUS
      <4>2. Append(results, entry(c, "aborted", FALSE))[Len(results) + 1] = entry(c, "aborted", FALSE)
        BY ONLY <2>5, <4>1, AppendLast, Zenon
      <4> QED  BY <2>3, <2>4, <2>6, <3>1, <4>2
    <3>2. CASE i # c
      <4>1. i \in 1..Len(results)  BY <2>1, <2>3, <2>7, <3>2
      <4>2. results'[i] = results[i]  BY <2>5, <2>6, <4>1
      <4> QED  BY <4>1, <4>2
    <3> QED  BY <3>1, <3>2
  <2>9. pc = "failed"  BY <1>14 DEF CloseUnresolved
  <2> QED  BY <2>6, <2>7, <2>8, <2>9
<1>15. CASE FailureClosed
  <2>1. Len(results) \in Nat  OBVIOUS
  <2>2. \A d \in Calls : d \in unresolved <=> Len(results) < d
    BY UnresolvedSuffix
  <2>3. Len(results) = N
    <3>1. ~(Len(results) + 1 \in Calls)  BY <1>15, <2>1, <2>2 DEF FailureClosed
    <3> QED  BY <2>1, <3>1 DEF Calls
  <2> QED  BY <1>15, <2>1, <2>3 DEF FailureClosed
<1>16. ASSUME NEW c \in Calls, AuthorizeFails(c) PROVE TranscriptInv'
  BY <1>16 DEF AuthorizeFails, afterAuthorize
<1>17. ASSUME NEW c \in Calls, AuthorizeRefuses(c) PROVE TranscriptInv'
  BY <1>17 DEF AuthorizeRefuses, afterAuthorize
<1>18. ASSUME NEW c \in Calls, NEW a \in Args, Authorize(c, a) PROVE TranscriptInv'
  BY <1>18 DEF Authorize, afterAuthorize
<1>19. ASSUME NEW c \in Calls, NEW w \in {"real", "timeout", "aborted"}, RaceWon(c, w) PROVE TranscriptInv'
  BY <1>19 DEF RaceWon
<1>20. ASSUME NEW c \in Calls, NEW d \in Outcomes, NEW b \in BOOLEAN, Finalize(c, d, b) PROVE TranscriptInv'
  BY <1>20 DEF Finalize
<1>21. CASE Abort
  BY <1>21 DEF Abort
<1>22. CASE ListenerThrows
  BY <1>22 DEF ListenerThrows
<1>23. CASE ClosureThrows
  BY <1>23 DEF ClosureThrows
<1>24. ASSUME NEW b \in BOOLEAN, EmitThrows(b) PROVE TranscriptInv'
  BY <1>24 DEF EmitThrows, entry, Calls
<1>25. ASSUME NEW c \in Calls, Settle(c) PROVE TranscriptInv'
  BY <1>25 DEF Settle
<1>26. ASSUME NEW c \in Calls, LateSettlement(c) PROVE TranscriptInv'
  BY <1>26 DEF LateSettlement
<1>27. ASSUME NEW c \in Calls, Timeout(c) PROVE TranscriptInv'
  BY <1>27 DEF Timeout
<1>28. CASE UNCHANGED vars
  BY <1>28 DEF vars
<1> QED
  BY <1>1, <1>2, <1>3, <1>4, <1>5, <1>6, <1>7, <1>8, <1>9, <1>10, <1>11, <1>12, <1>13, <1>14, <1>15, <1>16, <1>17, <1>18, <1>19, <1>20, <1>21, <1>22, <1>23, <1>24, <1>25, <1>26, <1>27, <1>28
     DEF Next, Driver, Hooks, Closing, Environment

(* What appending to a sequence adds. *)
LEMMA AppendedLast ==
  ASSUME NEW S, NEW s \in Seq(S), NEW e \in S
  PROVE  \A i \in 1..Len(Append(s, e)) :
           \/ i \in 1..Len(s) /\ Append(s, e)[i] = s[i]
           \/ Append(s, e)[i] = e
OBVIOUS

(* The plan is made in source order; once made it is never changed, and    *)
(* neither are the arguments it was made from.                             *)
LEMMA PlanInOrderNext == TypeOK /\ PlanInOrder /\ [Next]_vars => PlanInOrder'
<1> SUFFICES ASSUME TypeOK, PlanInOrder, [Next]_vars PROVE PlanInOrder'
  OBVIOUS
<1> USE DEF TypeOK, PlanType, LevelType, Pcs, Ahead, PlanInOrder, claimable, plannedConflict,
      planVars, levelVars, raceVars, finalVars, stopVars, outputVars
<1>1. ASSUME NEW c \in Calls, NEW t \in 0..N, PlaceCall(c, t) PROVE PlanInOrder'
  <2>1. /\ pc = "plan" /\ lev[c] = -1 /\ \A d \in Calls : d < c => lev[d] # -1
        /\ lev' = [lev EXCEPT ![c] = t] /\ UNCHANGED <<pc, args, planArgs, planned, todo, cand>>
    BY <1>1 DEF PlaceCall
  <2>2. \A d \in Calls : lev[d] # -1 => d < c
    BY <2>1 DEF Calls
  <2>3. ASSUME NEW d \in Calls, d < c, plannedConflict(d, c) PROVE lev[d] < t
    <3>1. conflict(c, d)  BY <2>1, <2>3, ConflictSymmetric DEF conflict
    <3>2. CASE claimable(Calls)  BY <1>1, <2>3, <3>1, <3>2 DEF PlaceCall, targetLevel
    <3>3. CASE ~claimable(Calls)
      <4>1. t = c /\ lev[d] = d  BY <1>1, <2>1, <2>3, <3>3 DEF PlaceCall
      <4> QED  BY <2>3, <4>1
    <3> QED  BY <3>2, <3>3
  <2>4. \A d, e \in Calls :
          d < e /\ lev'[d] # -1 /\ lev'[e] # -1 /\ plannedConflict(d, e) => lev'[d] < lev'[e]
    BY <2>1, <2>2, <2>3 DEF Calls
  <2>5. ~claimable(Calls) => \A d \in Calls : lev'[d] \in {-1, d}
    BY <1>1, <2>1 DEF PlaceCall
  <2>6. \A d, e \in Calls : d < e /\ lev'[e] # -1 => lev'[d] # -1
    BY <2>1, <2>2 DEF Calls
  <2> QED  BY <2>1, <2>4, <2>5, <2>6
<1>2. ASSUME NEW c \in Calls, NEW t \in 0..N, PlaceRunnable(c, t) PROVE PlanInOrder'
  BY <1>2 DEF PlaceRunnable
<1>3. CASE PlanDone
  BY <1>3 DEF PlanDone
<1>4. CASE NextLevel
  BY <1>4 DEF NextLevel
<1>5. CASE ReplanDone
  BY <1>5 DEF ReplanDone
<1>6. CASE NextSublevel
  BY <1>6 DEF NextSublevel
<1>7. CASE BeginSublevel
  BY <1>7 DEF BeginSublevel
<1>8. CASE SublevelEnd
  BY <1>8 DEF SublevelEnd
<1>9. CASE LevelEnd
  BY <1>9 DEF LevelEnd
<1>10. CASE Build
  BY <1>10 DEF Build
<1>11. CASE EmitResult
  BY <1>11 DEF EmitResult
<1>12. CASE EmitDone
  BY <1>12 DEF EmitDone
<1>13. ASSUME NEW c \in Calls, EmitStart(c) PROVE PlanInOrder'
  BY <1>13 DEF EmitStart
<1>14. ASSUME NEW c \in Calls, CloseUnresolved(c) PROVE PlanInOrder'
  BY <1>14 DEF CloseUnresolved
<1>15. CASE FailureClosed
  BY <1>15 DEF FailureClosed
<1>16. ASSUME NEW c \in Calls, AuthorizeFails(c) PROVE PlanInOrder'
  BY <1>16 DEF AuthorizeFails, afterAuthorize
<1>17. ASSUME NEW c \in Calls, AuthorizeRefuses(c) PROVE PlanInOrder'
  BY <1>17 DEF AuthorizeRefuses, afterAuthorize
<1>18. ASSUME NEW c \in Calls, NEW a \in Args, Authorize(c, a) PROVE PlanInOrder'
  BY <1>18 DEF Authorize, afterAuthorize
<1>19. ASSUME NEW c \in Calls, NEW w \in {"real", "timeout", "aborted"}, RaceWon(c, w) PROVE PlanInOrder'
  BY <1>19 DEF RaceWon
<1>20. ASSUME NEW c \in Calls, NEW d \in Outcomes, NEW b \in BOOLEAN, Finalize(c, d, b) PROVE PlanInOrder'
  BY <1>20 DEF Finalize
<1>21. CASE Abort
  BY <1>21 DEF Abort
<1>22. CASE ListenerThrows
  BY <1>22 DEF ListenerThrows
<1>23. CASE ClosureThrows
  BY <1>23 DEF ClosureThrows
<1>24. ASSUME NEW b \in BOOLEAN, EmitThrows(b) PROVE PlanInOrder'
  BY <1>24 DEF EmitThrows
<1>25. ASSUME NEW c \in Calls, Settle(c) PROVE PlanInOrder'
  BY <1>25 DEF Settle
<1>26. ASSUME NEW c \in Calls, LateSettlement(c) PROVE PlanInOrder'
  BY <1>26 DEF LateSettlement
<1>27. ASSUME NEW c \in Calls, Timeout(c) PROVE PlanInOrder'
  BY <1>27 DEF Timeout
<1>28. CASE UNCHANGED vars
  BY <1>28 DEF vars
<1> HIDE DEF TypeOK, PlanType, LevelType, Pcs, Ahead, PlanInOrder, claimable, plannedConflict,
      planVars, levelVars, raceVars, finalVars, stopVars, outputVars
<1> QED
  BY <1>1, <1>2, <1>3, <1>4, <1>5, <1>6, <1>7, <1>8, <1>9, <1>10, <1>11, <1>12, <1>13, <1>14, <1>15, <1>16, <1>17, <1>18, <1>19, <1>20, <1>21, <1>22, <1>23, <1>24, <1>25, <1>26, <1>27, <1>28
     DEF Next, Driver, Hooks, Closing, Environment

(* Levels are taken lowest first, whole or in chunks. *)
LEMMA LevelsInOrderNext == TypeOK /\ Bookkeeping /\ PlanInOrder /\ LevelsInOrder /\ [Next]_vars => LevelsInOrder'
<1> SUFFICES ASSUME TypeOK, Bookkeeping, PlanInOrder, LevelsInOrder, [Next]_vars PROVE LevelsInOrder'
  OBVIOUS
<1> USE DEF TypeOK, PlanType, LevelType, Pcs, Ahead, LevelsInOrder,
      planVars, levelVars, raceVars, finalVars, stopVars, outputVars
<1>1. ASSUME NEW c \in Calls, NEW t \in 0..N, PlaceCall(c, t) PROVE LevelsInOrder'
  BY <1>1 DEF PlaceCall
<1>2. ASSUME NEW c \in Calls, NEW t \in 0..N, PlaceRunnable(c, t) PROVE LevelsInOrder'
  BY <1>2 DEF PlaceRunnable
<1>3. CASE PlanDone
  BY <1>3 DEF PlanDone, PlanInOrder, Bookkeeping
<1>4. CASE NextLevel
  <2>1. CASE signal \/ todo = {}
    BY <1>4, <2>1 DEF NextLevel
  <2>2. CASE ~(signal \/ todo = {})
    <3>1. /\ cand' = nextChunk(todo, lev) /\ todo' = todo \ cand' /\ unauth' = cand'
          /\ pc = "level" /\ pc' = "auth" /\ UNCHANGED <<lev, waiting>>
      BY <1>4, <2>2 DEF NextLevel
    <3>2. cand' \subseteq todo /\ \A c, d \in cand' : lev[c] = lev[d]
      BY <3>1, ChunkOneLevel
    <3>3. \A c \in cand', d \in todo : lev[c] <= lev[d]
      BY <3>1 DEF nextChunk
    <3>4. waiting = {}  BY <3>1 DEF Bookkeeping
    <3> QED  BY <3>1, <3>2, <3>3, <3>4
  <2> QED  BY <2>1, <2>2
<1>5. CASE ReplanDone
  BY <1>5 DEF ReplanDone
<1>6. CASE NextSublevel
  <2>1. nextChunk(waiting, sub) \subseteq waiting  BY ChunkOneLevel
  <2> QED  BY <1>6, <2>1 DEF NextSublevel
<1>7. CASE BeginSublevel
  BY <1>7 DEF BeginSublevel
<1>8. CASE SublevelEnd
  BY <1>8 DEF SublevelEnd
<1>9. CASE LevelEnd
  BY <1>9 DEF LevelEnd
<1>10. CASE Build
  BY <1>10 DEF Build
<1>11. CASE EmitResult
  BY <1>11 DEF EmitResult
<1>12. CASE EmitDone
  BY <1>12 DEF EmitDone
<1>13. ASSUME NEW c \in Calls, EmitStart(c) PROVE LevelsInOrder'
  BY <1>13 DEF EmitStart
<1>14. ASSUME NEW c \in Calls, CloseUnresolved(c) PROVE LevelsInOrder'
  BY <1>14 DEF CloseUnresolved
<1>15. CASE FailureClosed
  BY <1>15 DEF FailureClosed
<1>16. ASSUME NEW c \in Calls, AuthorizeFails(c) PROVE LevelsInOrder'
  BY <1>16 DEF AuthorizeFails, afterAuthorize
<1>17. ASSUME NEW c \in Calls, AuthorizeRefuses(c) PROVE LevelsInOrder'
  BY <1>17 DEF AuthorizeRefuses, afterAuthorize
<1>18. ASSUME NEW c \in Calls, NEW a \in Args, Authorize(c, a) PROVE LevelsInOrder'
  BY <1>18 DEF Authorize, afterAuthorize
<1>19. ASSUME NEW c \in Calls, NEW w \in {"real", "timeout", "aborted"}, RaceWon(c, w) PROVE LevelsInOrder'
  BY <1>19 DEF RaceWon
<1>20. ASSUME NEW c \in Calls, NEW d \in Outcomes, NEW b \in BOOLEAN, Finalize(c, d, b) PROVE LevelsInOrder'
  BY <1>20 DEF Finalize
<1>21. CASE Abort
  BY <1>21 DEF Abort
<1>22. CASE ListenerThrows
  BY <1>22 DEF ListenerThrows
<1>23. CASE ClosureThrows
  BY <1>23 DEF ClosureThrows
<1>24. ASSUME NEW b \in BOOLEAN, EmitThrows(b) PROVE LevelsInOrder'
  BY <1>24 DEF EmitThrows
<1>25. ASSUME NEW c \in Calls, Settle(c) PROVE LevelsInOrder'
  BY <1>25 DEF Settle
<1>26. ASSUME NEW c \in Calls, LateSettlement(c) PROVE LevelsInOrder'
  BY <1>26 DEF LateSettlement
<1>27. ASSUME NEW c \in Calls, Timeout(c) PROVE LevelsInOrder'
  BY <1>27 DEF Timeout
<1>28. CASE UNCHANGED vars
  BY <1>28 DEF vars
<1> HIDE DEF TypeOK, PlanType, LevelType, Pcs, Ahead, LevelsInOrder,
      planVars, levelVars, raceVars, finalVars, stopVars, outputVars
<1> QED
  BY <1>1, <1>2, <1>3, <1>4, <1>5, <1>6, <1>7, <1>8, <1>9, <1>10, <1>11, <1>12, <1>13, <1>14, <1>15, <1>16, <1>17, <1>18, <1>19, <1>20, <1>21, <1>22, <1>23, <1>24, <1>25, <1>26, <1>27, <1>28
     DEF Next, Driver, Hooks, Closing, Environment

(* A tool is invoked only when the earlier calls in planned conflict with  *)
(* it are over: they are on lower levels, and a call without an outcome is *)
(* on this level or a later one.                                           *)
LEMMA InOrderNext == TypeOK /\ Bookkeeping /\ OutcomeInv /\ OrderInv /\ [Next]_vars => PlannedConflictsInOrder'
<1> SUFFICES ASSUME TypeOK, Bookkeeping, OutcomeInv, OrderInv, [Next]_vars PROVE PlannedConflictsInOrder'
  OBVIOUS
<1> USE DEF TypeOK, PlanType, LevelType, RaceType, StopType, Outcomes, None, PlannedConflictsInOrder, OrderInv,
      planVars, levelVars, raceVars, finalVars, stopVars, outputVars
<1>1. ASSUME NEW c \in Calls, NEW t \in 0..N, PlaceCall(c, t) PROVE PlannedConflictsInOrder'
  BY <1>1 DEF PlaceCall
<1>2. ASSUME NEW c \in Calls, NEW t \in 0..N, PlaceRunnable(c, t) PROVE PlannedConflictsInOrder'
  BY <1>2 DEF PlaceRunnable
<1>3. CASE PlanDone
  BY <1>3 DEF PlanDone
<1>4. CASE NextLevel
  BY <1>4 DEF NextLevel
<1>5. CASE ReplanDone
  BY <1>5 DEF ReplanDone
<1>6. CASE NextSublevel
  BY <1>6 DEF NextSublevel
<1>7. CASE BeginSublevel
  <2>1. pc = "start" /\ UNCHANGED <<planArgs, outcome>>
    BY <1>7 DEF BeginSublevel
  <2>2. \A d \in Calls : real'[d] # "idle" => d \in chunk \/ real[d] # "idle"
    BY <1>7 DEF BeginSublevel
  <2>3. ASSUME NEW c \in Calls, NEW d \in chunk, c < d, plannedConflict(c, d) PROVE outcome[c] # None
    <3>1. lev[c] < lev[d]  BY <2>1, <2>3 DEF PlanInOrder, Ahead
    <3>2. chunk \subseteq cand /\ waiting \subseteq cand /\ unauth \subseteq cand
      BY <2>1 DEF LevelsInOrder, Ahead
    <3>3. c \notin cand  BY <2>1, <3>1, <3>2 DEF LevelsInOrder, Ahead
    <3>4. d \notin todo  BY DEF Bookkeeping, fresh
    <3>5. c \notin todo  BY <2>1, <3>1, <3>4 DEF LevelsInOrder, Ahead
    <3> QED  BY <2>1, <3>2, <3>3, <3>5 DEF OutcomeInv, fresh
  <2> QED  BY <2>1, <2>2, <2>3 DEF plannedConflict
<1>8. CASE SublevelEnd
  BY <1>8 DEF SublevelEnd
<1>9. CASE LevelEnd
  BY <1>9 DEF LevelEnd
<1>10. CASE Build
  BY <1>10 DEF Build
<1>11. CASE EmitResult
  BY <1>11 DEF EmitResult
<1>12. CASE EmitDone
  BY <1>12 DEF EmitDone
<1>13. ASSUME NEW c \in Calls, EmitStart(c) PROVE PlannedConflictsInOrder'
  BY <1>13 DEF EmitStart
<1>14. ASSUME NEW c \in Calls, CloseUnresolved(c) PROVE PlannedConflictsInOrder'
  BY <1>14 DEF CloseUnresolved
<1>15. CASE FailureClosed
  BY <1>15 DEF FailureClosed
<1>16. ASSUME NEW c \in Calls, AuthorizeFails(c) PROVE PlannedConflictsInOrder'
  BY <1>16 DEF AuthorizeFails, afterAuthorize
<1>17. ASSUME NEW c \in Calls, AuthorizeRefuses(c) PROVE PlannedConflictsInOrder'
  BY <1>17 DEF AuthorizeRefuses, afterAuthorize
<1>18. ASSUME NEW c \in Calls, NEW a \in Args, Authorize(c, a) PROVE PlannedConflictsInOrder'
  BY <1>18 DEF Authorize, afterAuthorize
<1>19. ASSUME NEW c \in Calls, NEW w \in {"real", "timeout", "aborted"}, RaceWon(c, w) PROVE PlannedConflictsInOrder'
  BY <1>19 DEF RaceWon
<1>20. ASSUME NEW c \in Calls, NEW d \in Outcomes, NEW b \in BOOLEAN, Finalize(c, d, b) PROVE PlannedConflictsInOrder'
  BY <1>20 DEF Finalize
<1>21. CASE Abort
  BY <1>21 DEF Abort
<1>22. CASE ListenerThrows
  BY <1>22 DEF ListenerThrows
<1>23. CASE ClosureThrows
  BY <1>23 DEF ClosureThrows
<1>24. ASSUME NEW b \in BOOLEAN, EmitThrows(b) PROVE PlannedConflictsInOrder'
  BY <1>24 DEF EmitThrows
<1>25. ASSUME NEW c \in Calls, Settle(c) PROVE PlannedConflictsInOrder'
  BY <1>25 DEF Settle
<1>26. ASSUME NEW c \in Calls, LateSettlement(c) PROVE PlannedConflictsInOrder'
  BY <1>26 DEF LateSettlement
<1>27. ASSUME NEW c \in Calls, Timeout(c) PROVE PlannedConflictsInOrder'
  BY <1>27 DEF Timeout
<1>28. CASE UNCHANGED vars
  BY <1>28 DEF vars
<1> HIDE DEF TypeOK, PlanType, LevelType, RaceType, StopType, Outcomes, None, PlannedConflictsInOrder, OrderInv,
      planVars, levelVars, raceVars, finalVars, stopVars, outputVars
<1> QED
  BY <1>1, <1>2, <1>3, <1>4, <1>5, <1>6, <1>7, <1>8, <1>9, <1>10, <1>11, <1>12, <1>13, <1>14, <1>15, <1>16, <1>17, <1>18, <1>19, <1>20, <1>21, <1>22, <1>23, <1>24, <1>25, <1>26, <1>27, <1>28
     DEF Next, Driver, Hooks, Closing, Environment

(* What a call's outcome says of its tool. *)
LEMMA OutcomeTruthfulNext == TypeOK /\ Bookkeeping /\ RaceInv /\ OutcomeTruthful /\ [Next]_vars => OutcomeTruthful'
<1> SUFFICES ASSUME TypeOK, Bookkeeping, RaceInv, OutcomeTruthful, [Next]_vars PROVE OutcomeTruthful'
  OBVIOUS
<1> USE DEF TypeOK, PlanType, LevelType, RaceType, StopType, Outcomes, None, OutcomeTruthful,
      planVars, levelVars, raceVars, finalVars, stopVars, outputVars
<1>1. ASSUME NEW c \in Calls, NEW t \in 0..N, PlaceCall(c, t) PROVE OutcomeTruthful'
  BY <1>1 DEF PlaceCall
<1>2. ASSUME NEW c \in Calls, NEW t \in 0..N, PlaceRunnable(c, t) PROVE OutcomeTruthful'
  BY <1>2 DEF PlaceRunnable
<1>3. CASE PlanDone
  BY <1>3 DEF PlanDone
<1>4. CASE NextLevel
  BY <1>4 DEF NextLevel
<1>5. CASE ReplanDone
  BY <1>5 DEF ReplanDone
<1>6. CASE NextSublevel
  <2>1. nextChunk(waiting, sub) \subseteq waiting  BY ChunkOneLevel
  <2> QED  BY <1>6, <2>1 DEF NextSublevel, Bookkeeping, fresh
<1>7. CASE BeginSublevel
  BY <1>7 DEF BeginSublevel
<1>8. CASE SublevelEnd
  BY <1>8 DEF SublevelEnd
<1>9. CASE LevelEnd
  BY <1>9 DEF LevelEnd
<1>10. CASE Build
  BY <1>10 DEF Build
<1>11. CASE EmitResult
  BY <1>11 DEF EmitResult
<1>12. CASE EmitDone
  BY <1>12 DEF EmitDone
<1>13. ASSUME NEW c \in Calls, EmitStart(c) PROVE OutcomeTruthful'
  BY <1>13 DEF EmitStart, Bookkeeping
<1>14. ASSUME NEW c \in Calls, CloseUnresolved(c) PROVE OutcomeTruthful'
  BY <1>14 DEF CloseUnresolved
<1>15. CASE FailureClosed
  BY <1>15 DEF FailureClosed
<1>16. ASSUME NEW c \in Calls, AuthorizeFails(c) PROVE OutcomeTruthful'
  BY <1>16 DEF AuthorizeFails, afterAuthorize, Bookkeeping, fresh
<1>17. ASSUME NEW c \in Calls, AuthorizeRefuses(c) PROVE OutcomeTruthful'
  BY <1>17 DEF AuthorizeRefuses, afterAuthorize, Bookkeeping, fresh
<1>18. ASSUME NEW c \in Calls, NEW a \in Args, Authorize(c, a) PROVE OutcomeTruthful'
  BY <1>18 DEF Authorize, afterAuthorize
<1>19. ASSUME NEW c \in Calls, NEW w \in {"real", "timeout", "aborted"}, RaceWon(c, w) PROVE OutcomeTruthful'
  BY <1>19 DEF RaceWon
<1>20. ASSUME NEW c \in Calls, NEW d \in Outcomes, NEW b \in BOOLEAN, Finalize(c, d, b) PROVE OutcomeTruthful'
  BY <1>20 DEF Finalize, RaceInv
<1>21. CASE Abort
  BY <1>21 DEF Abort
<1>22. CASE ListenerThrows
  BY <1>22 DEF ListenerThrows
<1>23. CASE ClosureThrows
  BY <1>23 DEF ClosureThrows
<1>24. ASSUME NEW b \in BOOLEAN, EmitThrows(b) PROVE OutcomeTruthful'
  BY <1>24 DEF EmitThrows
<1>25. ASSUME NEW c \in Calls, Settle(c) PROVE OutcomeTruthful'
  BY <1>25 DEF Settle
<1>26. ASSUME NEW c \in Calls, LateSettlement(c) PROVE OutcomeTruthful'
  BY <1>26 DEF LateSettlement
<1>27. ASSUME NEW c \in Calls, Timeout(c) PROVE OutcomeTruthful'
  BY <1>27 DEF Timeout
<1>28. CASE UNCHANGED vars
  BY <1>28 DEF vars
<1> HIDE DEF TypeOK, PlanType, LevelType, RaceType, StopType, Outcomes, None, OutcomeTruthful,
      planVars, levelVars, raceVars, finalVars, stopVars, outputVars
<1> QED
  BY <1>1, <1>2, <1>3, <1>4, <1>5, <1>6, <1>7, <1>8, <1>9, <1>10, <1>11, <1>12, <1>13, <1>14, <1>15, <1>16, <1>17, <1>18, <1>19, <1>20, <1>21, <1>22, <1>23, <1>24, <1>25, <1>26, <1>27, <1>28
     DEF Next, Driver, Hooks, Closing, Environment

(* What a message and a result of the transcript say of their call. *)
LEMMA MessageTruthfulNext == TypeOK /\ Bookkeeping /\ OutcomeInv /\ TranscriptInv /\ MessageTruthful /\ [Next]_vars => MessageTruthful'
<1> SUFFICES ASSUME TypeOK, Bookkeeping, OutcomeInv, TranscriptInv, MessageTruthful, [Next]_vars PROVE MessageTruthful'
  OBVIOUS
<1> USE DEF TypeOK, PlanType, LevelType, RaceType, StopType, OutputType, Pcs, MessageTruthful,
      planVars, levelVars, raceVars, finalVars, stopVars, outputVars
<1>1. ASSUME NEW c \in Calls, NEW t \in 0..N, PlaceCall(c, t) PROVE MessageTruthful'
  BY <1>1 DEF PlaceCall
<1>2. ASSUME NEW c \in Calls, NEW t \in 0..N, PlaceRunnable(c, t) PROVE MessageTruthful'
  BY <1>2 DEF PlaceRunnable
<1>3. CASE PlanDone
  BY <1>3 DEF PlanDone, OutcomeInv, Bookkeeping
<1>4. CASE NextLevel
  BY <1>4 DEF NextLevel, OutcomeInv, Bookkeeping
<1>5. CASE ReplanDone
  BY <1>5 DEF ReplanDone
<1>6. CASE NextSublevel
  BY <1>6 DEF NextSublevel
<1>7. CASE BeginSublevel
  BY <1>7 DEF BeginSublevel
<1>8. CASE SublevelEnd
  BY <1>8 DEF SublevelEnd
<1>9. CASE LevelEnd
  BY <1>9 DEF LevelEnd, OutcomeInv, Bookkeeping
<1>10. CASE Build
  <2>1. results = <<>>  BY <1>10 DEF Build, TranscriptInv
  <2> QED  BY <1>10, <2>1 DEF Build
<1>11. CASE EmitResult
  <2> DEFINE e == entry(nextMsg, msg[nextMsg], outcome[nextMsg] # None)
  <2>1. nextMsg \in Calls /\ pc = "emit" /\ UNCHANGED <<pc, msg, outcome, phase>>
    BY <1>11, ToolBatchAssumption DEF EmitResult, Calls
  <2>2. CASE msg[nextMsg] = None
    BY <1>11, <2>1, <2>2 DEF EmitResult
  <2>3. CASE msg[nextMsg] # None
    <3>1. results' = Append(results, e)  BY <1>11, <2>3 DEF EmitResult
    <3>2. e \in Result /\ e.call = nextMsg /\ e.disposition = msg[nextMsg]
      BY <2>1, <2>3 DEF entry, Result
    <3> QED  BY <2>1, <3>1, <3>2, AppendedLast
  <2> QED  BY <2>2, <2>3
<1>12. CASE EmitDone
  BY <1>12 DEF EmitDone
<1>13. ASSUME NEW c \in Calls, EmitStart(c) PROVE MessageTruthful'
  BY <1>13 DEF EmitStart, Bookkeeping
<1>14. ASSUME NEW c \in Calls, CloseUnresolved(c) PROVE MessageTruthful'
  <2> DEFINE e == entry(c, "aborted", FALSE)
  <2>1. results' = Append(results, e) /\ UNCHANGED <<pc, msg, outcome, phase>> /\ pc = "failed"
    BY <1>14 DEF CloseUnresolved
  <2>2. e \in Result /\ e.disposition = "aborted"
    BY DEF entry, Result, Dispositions, Outcomes
  <2>3. results \in Seq(Result)  OBVIOUS
  <2> HIDE DEF e
  <2>4. \A i \in 1..Len(results') : results'[i] = e \/ (i \in 1..Len(results) /\ results'[i] = results[i])
    BY <2>1, <2>2, <2>3, AppendedLast
  <2> QED  BY <2>1, <2>2, <2>4
<1>15. CASE FailureClosed
  BY <1>15 DEF FailureClosed
<1>16. ASSUME NEW c \in Calls, AuthorizeFails(c) PROVE MessageTruthful'
  BY <1>16 DEF AuthorizeFails, afterAuthorize
<1>17. ASSUME NEW c \in Calls, AuthorizeRefuses(c) PROVE MessageTruthful'
  BY <1>17 DEF AuthorizeRefuses, afterAuthorize
<1>18. ASSUME NEW c \in Calls, NEW a \in Args, Authorize(c, a) PROVE MessageTruthful'
  BY <1>18 DEF Authorize, afterAuthorize
<1>19. ASSUME NEW c \in Calls, NEW w \in {"real", "timeout", "aborted"}, RaceWon(c, w) PROVE MessageTruthful'
  BY <1>19 DEF RaceWon
<1>20. ASSUME NEW c \in Calls, NEW d \in Outcomes, NEW b \in BOOLEAN, Finalize(c, d, b) PROVE MessageTruthful'
  BY <1>20 DEF Finalize
<1>21. CASE Abort
  BY <1>21 DEF Abort
<1>22. CASE ListenerThrows
  BY <1>22 DEF ListenerThrows
<1>23. CASE ClosureThrows
  BY <1>23 DEF ClosureThrows
<1>24. ASSUME NEW b \in BOOLEAN, EmitThrows(b) PROVE MessageTruthful'
  <2> DEFINE e == entry(nextMsg, msg[nextMsg], outcome[nextMsg] # None)
  <2>1. /\ nextMsg \in Calls /\ pc = "emit" /\ pc' = "failed" /\ UNCHANGED <<msg, outcome, phase>>
        /\ msg[nextMsg] # None
    BY <1>24, ToolBatchAssumption DEF EmitThrows, Calls
  <2>2. CASE ~b
    BY <1>24, <2>1, <2>2 DEF EmitThrows
  <2>3. CASE b
    <3>1. results' = Append(results, e)  BY <1>24, <2>3 DEF EmitThrows
    <3>2. e \in Result /\ e.call = nextMsg /\ e.disposition = msg[nextMsg]
      BY <2>1, <2>3 DEF entry, Result
    <3> QED  BY <2>1, <3>1, <3>2, AppendedLast
  <2> QED  BY <2>2, <2>3
<1>25. ASSUME NEW c \in Calls, Settle(c) PROVE MessageTruthful'
  BY <1>25 DEF Settle
<1>26. ASSUME NEW c \in Calls, LateSettlement(c) PROVE MessageTruthful'
  BY <1>26 DEF LateSettlement
<1>27. ASSUME NEW c \in Calls, Timeout(c) PROVE MessageTruthful'
  BY <1>27 DEF Timeout
<1>28. CASE UNCHANGED vars
  BY <1>28 DEF vars
<1> HIDE DEF TypeOK, PlanType, LevelType, RaceType, StopType, OutputType, Pcs, MessageTruthful,
      planVars, levelVars, raceVars, finalVars, stopVars, outputVars
<1> QED
  BY <1>1, <1>2, <1>3, <1>4, <1>5, <1>6, <1>7, <1>8, <1>9, <1>10, <1>11, <1>12, <1>13, <1>14, <1>15, <1>16, <1>17, <1>18, <1>19, <1>20, <1>21, <1>22, <1>23, <1>24, <1>25, <1>26, <1>27, <1>28
     DEF Next, Driver, Hooks, Closing, Environment

(***************************************************************************)
(* The theorems.                                                           *)
(***************************************************************************)

(* Every reachable state of a tool batch (agent-loop.ts,                   *)
(* executeToolCallsDagLevels and runDagLevelCalls) is well typed.          *)
THEOREM TypeCorrect == Spec => []TypeOK
BY TypeOKInit, TypeOKNext, PTL DEF Spec

(* OverlapInv is an invariant of the batch. *)
LEMMA OverlapInvariant == Spec => [](TypeOK /\ OverlapInv)
<1>1. Init => OverlapInv
  <2> SUFFICES ASSUME Init PROVE OverlapInv
    OBVIOUS
  <2> USE DEF Init
  <2>1. Bookkeeping  BY DEF Bookkeeping, fresh, None
  <2>2. RaceInv  BY DEF RaceInv, None
  <2>3. SublevelsSafe  BY DEF SublevelsSafe
  <2>4. QuietInv  BY DEF QuietInv, Running
  <2>5. NoUnsafeOverlap  BY DEF NoUnsafeOverlap, Running
  <2> QED  BY <2>1, <2>2, <2>3, <2>4, <2>5 DEF OverlapInv
<1>2. TypeOK /\ OverlapInv /\ [Next]_vars => OverlapInv'
  BY BookkeepingNext, RaceNext, SublevelsNext, QuietNext, OverlapNext DEF OverlapInv
<1> QED  BY <1>1, <1>2, TypeOKInit, TypeOKNext, PTL DEF Spec

(* Two tools of a batch that execute at the same time never hold           *)
(* conflicting claims, for every batch, cap, rewrite and abort: the second *)
(* plan of runDagLevelCalls and the stop on an unsettled timeout suffice.  *)
THEOREM OverlapSafe == Spec => []NoUnsafeOverlap
BY OverlapInvariant, PTL DEF OverlapInv

(* The run goes on to another provider turn only with no tool of this      *)
(* batch executing.                                                        *)
THEOREM NextTurnQuiet == Spec => []QuietNextTurn
<1>1. OverlapInv => QuietNextTurn  BY DEF OverlapInv, QuietInv, QuietNextTurn
<1> QED  BY <1>1, OverlapInvariant, PTL

(* ClosureInv is an invariant of the batch. *)
LEMMA ClosureInvariant == Spec => [](TypeOK /\ OverlapInv /\ ClosureInv)
<1>1. Init => ClosureInv
  <2> SUFFICES ASSUME Init PROVE ClosureInv
    OBVIOUS
  <2>1. OutcomeInv  BY DEF Init, OutcomeInv, fresh
  <2>2. TranscriptInv  BY ToolBatchAssumption DEF Init, TranscriptInv
  <2> QED  BY <2>1, <2>2 DEF ClosureInv
<1>2. TypeOK /\ OverlapInv /\ ClosureInv /\ [Next]_vars => ClosureInv'
  BY OutcomeNext, TranscriptNext DEF OverlapInv, ClosureInv
<1> QED  BY <1>1, <1>2, OverlapInvariant, PTL DEF Spec

(* However a batch ends, the transcript then holds exactly one result per  *)
(* call, in source order.                                                  *)
THEOREM EveryTurnClosed == Spec => []TurnClosed
<1>1. ClosureInv => TurnClosed
  <2> SUFFICES ASSUME ClosureInv PROVE TurnClosed
    OBVIOUS
  <2> QED  BY DEF ClosureInv, TranscriptInv, TurnClosed, Calls
<1> QED  BY <1>1, ClosureInvariant, PTL

(* A tool is invoked only after every earlier call that conflicts with it  *)
(* in the batch plan (assignDagLevels) has its outcome, for every batch    *)
(* and every concurrency cap, whatever the hooks, timers, aborts and       *)
(* listeners do.                                                           *)
THEOREM ConflictsInSourceOrder == Spec => []PlannedConflictsInOrder
<1>1. Init => OrderInv
  <2> SUFFICES ASSUME Init PROVE OrderInv
    OBVIOUS
  <2>1. PlanInOrder  BY DEF Init, PlanInOrder, Ahead
  <2>2. LevelsInOrder  BY DEF Init, LevelsInOrder, Ahead
  <2>3. PlannedConflictsInOrder  BY DEF Init, PlannedConflictsInOrder
  <2> QED  BY <2>1, <2>2, <2>3 DEF OrderInv
<1>2. TypeOK /\ OverlapInv /\ ClosureInv /\ OrderInv /\ [Next]_vars => OrderInv'
  <2> SUFFICES ASSUME TypeOK, OverlapInv, ClosureInv, OrderInv, [Next]_vars PROVE OrderInv'
    OBVIOUS
  <2>1. Bookkeeping /\ OutcomeInv /\ PlanInOrder /\ LevelsInOrder
    BY DEF OverlapInv, ClosureInv, OrderInv
  <2> QED  BY <2>1, PlanInOrderNext, LevelsInOrderNext, InOrderNext DEF OrderInv
<1>3. OrderInv => PlannedConflictsInOrder  BY DEF OrderInv
<1> QED  BY <1>1, <1>2, <1>3, ClosureInvariant, PTL DEF Spec

(* The transcript never calls skipped or blocked a call whose tool was     *)
(* invoked, nor executed one whose tool has not settled, on every path     *)
(* through executeToolCallsDagLevels and handleRunFailure.                 *)
THEOREM TranscriptTruthful == Spec => []ResultsTruthful
<1>1. Init => TruthInv
  <2> SUFFICES ASSUME Init PROVE TruthInv
    OBVIOUS
  <2>1. OutcomeTruthful  BY DEF Init, OutcomeTruthful, None
  <2>2. MessageTruthful  BY DEF Init, MessageTruthful, None
  <2> QED  BY <2>1, <2>2 DEF TruthInv
<1>2. TypeOK /\ OverlapInv /\ ClosureInv /\ TruthInv /\ [Next]_vars => TruthInv'
  BY OutcomeTruthfulNext, MessageTruthfulNext DEF OverlapInv, ClosureInv, TruthInv
<1>3. TypeOK /\ TruthInv => ResultsTruthful
  <2> SUFFICES ASSUME TypeOK, TruthInv, NEW i \in 1..Len(results)
               PROVE  /\ results[i].disposition \in {"skipped", "blocked"} => real[results[i].call] = "idle"
                      /\ results[i].disposition = "executed" => real[results[i].call] = "settled"
    BY DEF ResultsTruthful
  <2> DEFINE c == results[i].call
  <2>1. results[i] \in Result  BY DEF TypeOK, OutputType
  <2>2. c \in Calls  BY <2>1 DEF Result
  <2>3. ASSUME results[i].disposition \in {"skipped", "blocked", "executed"}
        PROVE  msg[c] = results[i].disposition /\ msg[c] # None
    BY <2>3 DEF TruthInv, MessageTruthful, None
  <2>4. outcome[c] # "skipped"  BY <2>2 DEF TypeOK, StopType, Outcomes, None
  <2>5. ASSUME results[i].disposition \in {"skipped", "blocked", "executed"}
        PROVE  outcome[c] = results[i].disposition \/ (results[i].disposition = "skipped" /\ phase[c] = "idle")
    BY <2>2, <2>3, <2>5 DEF TruthInv, MessageTruthful
  <2> QED  BY <2>2, <2>4, <2>5 DEF TruthInv, OutcomeTruthful
<1> QED  BY <1>1, <1>2, <1>3, ClosureInvariant, PTL DEF Spec
=============================================================================
