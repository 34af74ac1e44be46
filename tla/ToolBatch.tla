------------------------------ MODULE ToolBatch ------------------------------
(***************************************************************************)
(* One assistant turn's tool batch under the dag-v2 scheduler              *)
(* (packages/agent/src/agent-loop.ts: executeToolCallsDagLevels and        *)
(* runDagLevelCalls; tool-timeout.ts; tool-execution-boundary.ts), up to   *)
(* the point where every call has its terminal result in the transcript.   *)
(*                                                                         *)
(* The driver plans the batch into levels, and for each level authorises   *)
(* the calls one by one (the beforeToolCall hook may block a call or       *)
(* rewrite its arguments), plans again on the final arguments and runs the *)
(* resulting sublevels.  Inside a sublevel every call races its tool       *)
(* against a timer and the run's abort signal.  Concurrently the user may  *)
(* abort, a timer may fire, and a tool that lost its race may settle late. *)
(* Any awaited event listener may throw, which rejects the whole batch;    *)
(* agent.ts then closes the turn (handleRunFailure).                       *)
(*                                                                         *)
(* Steps are the code between two awaits.  Arguments are abstracted to     *)
(* whether they are a plain object and to the claims they resolve to;      *)
(* result contents to the disposition, the executionStarted flag of the    *)
(* envelope and the terminate flag.                                        *)
(***************************************************************************)
EXTENDS Integers, FiniteSets, Sequences, ResourceClaims

CONSTANTS N,              \* calls in the batch
          Resolutions,    \* what the arguments of a call may resolve to
          maxConcurrency, \* width cap of a level, 0 for none
          Timed,          \* calls whose resolved timeout is positive
          Events          \* what the surroundings may do: a subset of EventKinds

EventKinds == {"unplanned", "opaque", "rewrite", "abort", "throw", "terminate"}

ASSUME ToolBatchAssumption ==
  N \in Nat /\ maxConcurrency \in Nat /\ Timed \subseteq 1..N /\ Events \subseteq EventKinds

Calls == 1..N

(* Arguments that are not a plain object resolve to an exclusive claim. *)
Args == [plain : {TRUE}, res : Resolutions]
          \union {a \in [plain : {FALSE}, res : {Exclusive}] : "opaque" \in Events}
None == "none"

(* Dispositions of a finalized call, and of a message in the transcript.   *)
(* "executed" is the tool's own result, completed or failed: the driver    *)
(* makes no difference between them.                                       *)
Outcomes == {"executed", "failed", "blocked", "aborted", "timeout"}
Dispositions == Outcomes \union {"skipped"}

VARIABLES
  pc,         \* where the driver is
  planned,    \* planned[c]: planToolCall found the tool and snapshot the arguments
  planArgs,   \* the arguments the batch was planned with
  args,       \* the arguments of each call, as the hook left them
  lev,        \* the batch plan: lev[c], or -1 before c is placed
  todo,       \* calls no candidate level has reached
  cand,       \* the candidate level being run
  unauth,     \* its calls still to authorise
  sub,        \* the level's second plan, over its runnable calls
  waiting,    \* runnable calls of the level not yet started
  chunk,      \* the sublevel started last
  toStart,    \* its calls whose start event is still to be emitted
  phase,      \* phase[c]: "idle", "started", "racing", "raced" or "ended"
  real,       \* the tool itself: "idle", "running" or "settled"
  cause,      \* the terminal cause resolved for c: None, "timeout" or "aborted"
  won,        \* who won c's race: None, "real", "timeout" or "aborted"
  outcome,    \* finalizedByIndex: c's disposition or None
  term,       \* term[c]: c's result asks to end the run
  signal,     \* the run's abort signal
  unsettled,  \* the level stopped on a timed-out tool that still runs
  skipped,    \* skippedReason is set
  stopRun,    \* the batch result's stopRun
  msg,        \* the result message built for c: its disposition, or None
  nextMsg,    \* the emission loop's index
  results,    \* tool results in the agent's transcript, oldest first
  committed,  \* commitTerminal was called for c
  late,       \* late-settlement events emitted for c
  starts      \* tool_execution_start events, oldest first

planVars == <<planned, planArgs, args, lev, sub>>
levelVars == <<todo, cand, unauth, waiting, chunk, toStart>>
raceVars == <<phase, real, cause, won>>
finalVars == <<outcome, term>>
stopVars == <<unsettled, skipped, stopRun>>
outputVars == <<msg, nextMsg, results, committed>>
vars == <<pc, planVars, levelVars, raceVars, finalVars, signal, stopVars, outputVars, late, starts>>

conflict(c, d) == resolutionsConflict(args[c].res, args[d].res)

(* The next chunk of a plan over the calls S: the calls of the lowest      *)
(* level left, at most maxConcurrency of them, in source order.            *)
nextChunk(S, plan) ==
  LET lowest == {c \in S : \A d \in S : plan[c] <= plan[d]}
  IN  {c \in lowest : \/ maxConcurrency = 0
                      \/ Cardinality({d \in lowest : d < c}) < maxConcurrency}

(* Mistaken variant: an off-by-one lets a conflicting call share a level. *)
targetLevelOffByOne(t, c, placed, plan) ==
  /\ \A d \in placed : conflict(c, d) => plan[d] <= t
  /\ t = 0 \/ \E d \in placed : conflict(c, d) /\ plan[d] = t

(* t is the level of call c above the calls in placed (assignDagLevels).   *)
targetLevel(t, c, placed, plan) ==
  /\ \A d \in placed : conflict(c, d) => plan[d] < t
  /\ t = 0 \/ \E d \in placed : conflict(c, d) /\ plan[d] + 1 = t

Init ==
  /\ pc = "plan"
  /\ planned \in [Calls -> {TRUE} \union {b \in {FALSE} : "unplanned" \in Events}]
  /\ planArgs \in [Calls -> Args] /\ args = planArgs
  /\ lev = [c \in Calls |-> -1] /\ sub = [c \in Calls |-> -1]
  /\ todo = Calls /\ cand = {} /\ unauth = {} /\ waiting = {} /\ chunk = {} /\ toStart = {}
  /\ phase = [c \in Calls |-> "idle"] /\ real = [c \in Calls |-> "idle"]
  /\ cause = [c \in Calls |-> None] /\ won = [c \in Calls |-> None]
  /\ outcome = [c \in Calls |-> None] /\ term = [c \in Calls |-> FALSE]
  /\ signal = FALSE /\ unsettled = FALSE /\ skipped = FALSE /\ stopRun = FALSE
  /\ msg = [c \in Calls |-> None] /\ nextMsg = 1 /\ results = <<>>
  /\ committed = [c \in Calls |-> FALSE] /\ late = [c \in Calls |-> 0]
  /\ starts = <<>>

-----------------------------------------------------------------------------
(* Planning (executeToolCallsDagLevels).  A batch is scheduled on claims   *)
(* only if every call was planned with plain arguments; otherwise each     *)
(* call is a level of its own.  An abort while claims resolve leaves no    *)
(* level to run.                                                           *)
claimable(S) == \A c \in S : planned[c] /\ args[c].plain

PlaceCall(c, t) ==
  /\ pc = "plan" /\ lev[c] = -1 /\ \A d \in Calls : d < c => lev[d] # -1
  /\ IF claimable(Calls) THEN targetLevel(t, c, {d \in Calls : d < c}, lev) ELSE t = c
  /\ lev' = [lev EXCEPT ![c] = t]
  /\ UNCHANGED <<pc, planned, planArgs, args, sub, levelVars, raceVars, finalVars, signal, stopVars, outputVars, late, starts>>

PlanDone ==
  /\ pc = "plan"
  /\ \/ (\A c \in Calls : lev[c] # -1) /\ pc' = "level"
     \/ signal /\ claimable(Calls) /\ pc' = "build"
  /\ UNCHANGED <<planVars, levelVars, raceVars, finalVars, signal, stopVars, outputVars, late, starts>>

(* The loop over levels takes the next candidate level. *)
NextLevel ==
  /\ pc = "level"
  /\ IF signal \/ todo = {}
     THEN pc' = "build" /\ UNCHANGED <<todo, cand, unauth>>
     ELSE /\ pc' = "auth"
          /\ cand' = nextChunk(todo, lev)
          /\ todo' = todo \ cand' /\ unauth' = cand'
  /\ UNCHANGED <<planVars, waiting, chunk, toStart, raceVars, finalVars, signal, stopVars, outputVars, late, starts>>

-----------------------------------------------------------------------------
(* Authorisation (runDagLevelCalls, authorizePlannedToolCall).  Each call  *)
(* gets an immediate outcome or becomes runnable with the arguments the    *)
(* hook left; an abort seen after a call abandons the level.               *)
afterAuthorize(c) ==
  /\ pc = "auth" /\ c \in unauth /\ \A d \in unauth : c <= d
  /\ unauth' = unauth \ {c}
  /\ pc' = IF signal THEN "levelEnd" ELSE IF unauth' = {} THEN "replan" ELSE "auth"

(* The tool is unknown, validation fails or the hook throws. *)
AuthorizeFails(c) ==
  /\ afterAuthorize(c)
  /\ outcome' = [outcome EXCEPT ![c] = "failed"]
  /\ UNCHANGED <<planVars, todo, cand, waiting, chunk, toStart, raceVars, term, signal, stopVars, outputVars, late, starts>>

AuthorizeRefuses(c) ==
  /\ afterAuthorize(c) /\ planned[c]
  /\ outcome' = [outcome EXCEPT ![c] = IF signal THEN "aborted" ELSE "blocked"]
  /\ UNCHANGED <<planVars, todo, cand, waiting, chunk, toStart, raceVars, term, signal, stopVars, outputVars, late, starts>>

Authorize(c, a) ==
  /\ afterAuthorize(c) /\ planned[c] /\ ~signal
  /\ a = args[c] \/ "rewrite" \in Events
  /\ args' = [args EXCEPT ![c] = a]
  /\ sub' = [sub EXCEPT ![c] = -1]
  /\ waiting' = waiting \union {c}
  /\ UNCHANGED <<planned, planArgs, lev, todo, cand, chunk, toStart, raceVars, finalVars, signal, stopVars, outputVars, late, starts>>

(* Mistaken variant: the level is run as first planned. *)
PlaceRunnableAsPlanned(c, t) ==
  /\ pc = "replan" /\ c \in waiting /\ sub[c] = -1 /\ t = 0
  /\ sub' = [sub EXCEPT ![c] = t]
  /\ UNCHANGED <<pc, planned, planArgs, args, lev, levelVars, raceVars, finalVars, signal, stopVars, outputVars, late, starts>>

(* The level is planned again on the final arguments of its runnable calls. *)
PlaceRunnable(c, t) ==
  /\ pc = "replan" /\ c \in waiting /\ sub[c] = -1
  /\ \A d \in waiting : d < c => sub[d] # -1
  /\ IF claimable(waiting) THEN targetLevel(t, c, {d \in waiting : d < c}, sub) ELSE t = c
  /\ sub' = [sub EXCEPT ![c] = t]
  /\ UNCHANGED <<pc, planned, planArgs, args, lev, levelVars, raceVars, finalVars, signal, stopVars, outputVars, late, starts>>

ReplanDone ==
  /\ pc = "replan"
  /\ \/ (\A c \in waiting : sub[c] # -1) /\ pc' = "sub"
     \/ signal /\ claimable(waiting) /\ pc' = "levelEnd"
  /\ UNCHANGED <<planVars, levelVars, raceVars, finalVars, signal, stopVars, outputVars, late, starts>>

-----------------------------------------------------------------------------
(* Running a sublevel: start events one by one in source order, then every *)
(* call at once.                                                           *)
NextSublevel ==
  /\ pc = "sub"
  /\ IF signal \/ waiting = {}
     THEN pc' = "levelEnd" /\ UNCHANGED <<waiting, chunk, toStart>>
     ELSE /\ pc' = "start"
          /\ chunk' = nextChunk(waiting, sub)
          /\ waiting' = waiting \ chunk' /\ toStart' = chunk'
  /\ UNCHANGED <<planVars, todo, cand, unauth, raceVars, finalVars, signal, stopVars, outputVars, late, starts>>

EmitStart(c) ==
  /\ pc = "start" /\ c \in toStart /\ \A d \in toStart : c <= d
  /\ toStart' = toStart \ {c}
  /\ phase' = [phase EXCEPT ![c] = "started"]
  /\ starts' = Append(starts, c)
  /\ UNCHANGED <<pc, planVars, todo, cand, unauth, waiting, chunk, real, cause, won, finalVars, signal, stopVars, outputVars, late>>

(* runToolCallWithTimeout: a run already aborted never invokes the tool. *)
BeginSublevel ==
  /\ pc = "start" /\ toStart = {} /\ pc' = "run"
  /\ phase' = [c \in Calls |-> IF c \in chunk THEN IF signal THEN "raced" ELSE "racing" ELSE phase[c]]
  /\ won' = [c \in Calls |-> IF c \in chunk /\ signal THEN "aborted" ELSE won[c]]
  /\ real' = [c \in Calls |-> IF c \in chunk /\ ~signal THEN "running" ELSE real[c]]
  /\ UNCHANGED <<planVars, levelVars, cause, finalVars, signal, stopVars, outputVars, late, starts>>

(* The tool's promise settles, possibly long after the call was closed. *)
Settle(c) ==
  /\ real[c] = "running"
  /\ real' = [real EXCEPT ![c] = "settled"]
  /\ UNCHANGED <<pc, planVars, levelVars, phase, cause, won, finalVars, signal, stopVars, outputVars, late, starts>>

(* The call's timer fires; it is disposed of when the race is over.  A     *)
(* timeout that resolves to 0 starts no timer.                             *)
Timeout(c) ==
  /\ c \in Timed /\ phase[c] = "racing" /\ cause[c] = None
  /\ cause' = [cause EXCEPT ![c] = "timeout"]
  /\ UNCHANGED <<pc, planVars, levelVars, phase, real, won, finalVars, signal, stopVars, outputVars, late, starts>>

(* The user aborts the run: agent.abort() fires every listener.  The       *)
(* driver does not wait at "level", "sub" or "build", so no abort gets in  *)
(* between.                                                                *)
Abort ==
  /\ "abort" \in Events /\ ~signal
  /\ pc \notin {"level", "sub", "build", "done", "closed", "rejected"}
  /\ signal' = TRUE
  /\ cause' = [c \in Calls |-> IF phase[c] = "racing" /\ cause[c] = None THEN "aborted" ELSE cause[c]]
  /\ UNCHANGED <<pc, planVars, levelVars, phase, real, won, finalVars, stopVars, outputVars, late, starts>>

(* Mistaken variant: only the tool itself can end its call. *)
RaceWonByTool(c, w) ==
  /\ phase[c] = "racing" /\ w = "real" /\ real[c] = "settled"
  /\ phase' = [phase EXCEPT ![c] = "raced"]
  /\ won' = [won EXCEPT ![c] = w]
  /\ UNCHANGED <<pc, planVars, levelVars, real, cause, finalVars, signal, stopVars, outputVars, late, starts>>

(* Promise.race: whichever is resolved may win when both are. *)
RaceWon(c, w) ==
  /\ phase[c] = "racing"
  /\ \/ w = "real" /\ real[c] = "settled"
     \/ w = cause[c] /\ w # None
  /\ phase' = [phase EXCEPT ![c] = "raced"]
  /\ won' = [won EXCEPT ![c] = w]
  /\ UNCHANGED <<pc, planVars, levelVars, real, cause, finalVars, signal, stopVars, outputVars, late, starts>>

(* Mistaken variant: the verdict of the runtime is forgotten. *)
FinalizeIgnoresVerdict(c, disposition, terminate) ==
  /\ pc = "run" /\ phase[c] = "raced" /\ ~terminate
  /\ disposition = IF signal THEN "aborted" ELSE "executed"
  /\ phase' = [phase EXCEPT ![c] = "ended"]
  /\ outcome' = [outcome EXCEPT ![c] = disposition]
  /\ UNCHANGED <<pc, planVars, levelVars, real, cause, won, term, signal, stopVars, outputVars, late, starts>>

(* finalizeExecutedToolCall: a runtime verdict is final; a real result is  *)
(* replaced by "aborted" if the run was aborted before or while the        *)
(* afterToolCall hook ran, and is otherwise what the tool and the hook     *)
(* make of it.                                                             *)
Finalize(c, disposition, terminate) ==
  /\ pc = "run" /\ phase[c] = "raced"
  /\ \/ won[c] # "real" /\ disposition = won[c] /\ ~terminate
     \/ won[c] = "real" /\ signal /\ disposition = "aborted" /\ ~terminate
     \/ /\ won[c] = "real" /\ ~signal /\ disposition = "executed"
        /\ terminate => "terminate" \in Events
  /\ phase' = [phase EXCEPT ![c] = "ended"]
  /\ outcome' = [outcome EXCEPT ![c] = disposition]
  /\ term' = [term EXCEPT ![c] = terminate]
  /\ UNCHANGED <<pc, planVars, levelVars, real, cause, won, signal, stopVars, outputVars, late, starts>>

(* Promise.all over the sublevel is done. *)
SublevelEnd ==
  /\ pc = "run" /\ \A c \in chunk : phase[c] = "ended"
  /\ LET still == \E c \in chunk : outcome[c] = "timeout" /\ real[c] = "running"
     IN  /\ pc' = IF signal \/ still THEN "levelEnd" ELSE "sub"
         /\ unsettled' = (~signal /\ still)
  /\ UNCHANGED <<planVars, levelVars, raceVars, finalVars, signal, skipped, stopRun, outputVars, late, starts>>

(* Mistaken variants: the reason for skipping the rest is not kept; the    *)
(* run is not told to stop.                                                *)
LevelEndForgetsReason ==
  LET over == {c \in cand : outcome[c] # None}
      terminate == over # {} /\ \A c \in over : term[c]
  IN  /\ pc = "levelEnd"
      /\ waiting' = {} /\ unauth' = {}
      /\ pc' = IF signal \/ unsettled \/ terminate THEN "build" ELSE "level"
      /\ stopRun' = (~signal /\ unsettled)
      /\ UNCHANGED <<planVars, todo, cand, chunk, toStart, raceVars, finalVars, signal, unsettled, skipped, outputVars, late, starts>>

LevelEndGoesOn ==
  /\ pc = "levelEnd" /\ pc' = IF signal \/ unsettled THEN "build" ELSE "level"
  /\ waiting' = {} /\ unauth' = {} /\ skipped' = unsettled
  /\ UNCHANGED <<planVars, todo, cand, chunk, toStart, raceVars, finalVars, signal, unsettled, stopRun, outputVars, late, starts>>

(* Back in the loop over levels: does the batch go on? *)
LevelEnd ==
  LET over == {c \in cand : outcome[c] # None}
      terminate == over # {} /\ \A c \in over : term[c]
  IN  /\ pc = "levelEnd"
      /\ waiting' = {} /\ unauth' = {}
      /\ pc' = IF signal \/ unsettled \/ terminate THEN "build" ELSE "level"
      /\ skipped' = (~signal /\ (unsettled \/ terminate))
      /\ stopRun' = (~signal /\ unsettled)
      /\ UNCHANGED <<planVars, todo, cand, chunk, toStart, raceVars, finalVars, signal, unsettled, outputVars, late, starts>>

-----------------------------------------------------------------------------
(* Closing the turn: all messages are built at once, then pushed and       *)
(* emitted one by one in source order; commitTerminal follows each.        *)
Build ==
  /\ pc = "build" /\ pc' = "emit"
  /\ msg' = [c \in Calls |-> IF outcome[c] # None THEN outcome[c]
                             ELSE IF signal THEN "aborted"
                             ELSE IF skipped THEN "skipped" ELSE None]
  /\ UNCHANGED <<planVars, levelVars, raceVars, finalVars, signal, stopVars, nextMsg, results, committed, late, starts>>

(* A transcript entry.  executionStarted is what the envelope records: a   *)
(* finalized call knows whether its tool was invoked, a synthesised result *)
(* says it was not.                                                        *)
entry(c, disposition, finalized) ==
  [call |-> c, disposition |-> disposition,
   executionStarted |-> finalized /\ real[c] # "idle"]

EmitResult ==
  /\ pc = "emit" /\ nextMsg <= N
  /\ nextMsg' = nextMsg + 1
  /\ results' = IF msg[nextMsg] = None THEN results
                ELSE Append(results, entry(nextMsg, msg[nextMsg], outcome[nextMsg] # None))
  /\ committed' = [committed EXCEPT ![nextMsg] = @ \/ outcome[nextMsg] # None]
  /\ UNCHANGED <<pc, planVars, levelVars, raceVars, finalVars, signal, stopVars, msg, late, starts>>

EmitDone ==
  /\ pc = "emit" /\ nextMsg > N /\ pc' = "done"
  /\ UNCHANGED <<planVars, levelVars, raceVars, finalVars, signal, stopVars, outputVars, late, starts>>

(* The audit event waits for commitTerminal, once per call that the        *)
(* runtime closed while its tool was running.                              *)
LateSettlement(c) ==
  /\ won[c] \in {"timeout", "aborted"} /\ real[c] = "settled"
  /\ committed[c] /\ late[c] = 0
  /\ late' = [late EXCEPT ![c] = 1]
  /\ UNCHANGED <<pc, planVars, levelVars, raceVars, finalVars, signal, stopVars, outputVars, starts>>

-----------------------------------------------------------------------------
(* A listener throws.  While results are emitted the reducer has already   *)
(* stored the message if message_end's listener threw, and has not if      *)
(* message_start's did; commitTerminal runs either way.                    *)
ListenerThrows ==
  /\ "throw" \in Events
  /\ pc = "start" \/ (pc = "run" /\ \E c \in chunk : phase[c] = "ended")
  /\ pc' = "failed"
  /\ UNCHANGED <<planVars, levelVars, raceVars, finalVars, signal, stopVars, outputVars, late, starts>>

EmitThrows(stored) ==
  /\ "throw" \in Events
  /\ pc = "emit" /\ nextMsg <= N /\ msg[nextMsg] # None /\ pc' = "failed"
  /\ results' = IF stored
                THEN Append(results, entry(nextMsg, msg[nextMsg], outcome[nextMsg] # None))
                ELSE results
  /\ committed' = [committed EXCEPT ![nextMsg] = @ \/ outcome[nextMsg] # None]
  /\ UNCHANGED <<planVars, levelVars, raceVars, finalVars, signal, stopVars, msg, nextMsg, late, starts>>

unresolved == {c \in Calls : \A i \in 1..Len(results) : results[i].call # c}

(* handleRunFailure: planFailureTermination repairs the open turn with one *)
(* synthetic "aborted" result per call that has none, in call order.       *)
CloseUnresolved(c) ==
  /\ pc = "failed" /\ c \in unresolved /\ \A d \in unresolved : c <= d
  /\ results' = Append(results, entry(c, "aborted", FALSE))
  /\ UNCHANGED <<pc, planVars, levelVars, raceVars, finalVars, signal, stopVars, msg, nextMsg, committed, late, starts>>

FailureClosed ==
  /\ pc = "failed" /\ unresolved = {} /\ pc' = "closed"
  /\ UNCHANGED <<planVars, levelVars, raceVars, finalVars, signal, stopVars, outputVars, late, starts>>

(* A listener that throws again during the closure rejects the run. *)
ClosureThrows ==
  /\ "throw" \in Events /\ pc = "failed" /\ pc' = "rejected"
  /\ UNCHANGED <<planVars, levelVars, raceVars, finalVars, signal, stopVars, outputVars, late, starts>>

-----------------------------------------------------------------------------
Driver ==
  \/ \E c \in Calls, t \in 0..N : PlaceCall(c, t) \/ PlaceRunnable(c, t)
  \/ PlanDone \/ NextLevel \/ ReplanDone \/ NextSublevel \/ BeginSublevel
  \/ SublevelEnd \/ LevelEnd \/ Build \/ EmitResult \/ EmitDone
  \/ \E c \in Calls : EmitStart(c) \/ CloseUnresolved(c)
  \/ FailureClosed

Hooks ==
  \E c \in Calls :
    \/ AuthorizeFails(c) \/ AuthorizeRefuses(c)
    \/ \E a \in Args : Authorize(c, a)

Closing(c) ==
  \/ \E w \in {"real", "timeout", "aborted"} : RaceWon(c, w)
  \/ \E d \in Outcomes, b \in BOOLEAN : Finalize(c, d, b)

Environment ==
  \/ Abort \/ ListenerThrows \/ ClosureThrows
  \/ \E stored \in BOOLEAN : EmitThrows(stored)
  \/ \E c \in Calls : Settle(c) \/ LateSettlement(c)

Next == Driver \/ Hooks \/ Environment \/ \E c \in Calls : Closing(c) \/ Timeout(c)

Spec == Init /\ [][Next]_vars

(***************************************************************************)
(* Every continuation of the driver is eventually scheduled, hooks return, *)
(* and a timer that was started fires (setTimeout).  Only the calls in     *)
(* Timed have one: the coding agent sets a timeout for its built-in tools, *)
(* for any other tool the default is 0.  Tools need not settle and nobody  *)
(* need abort.                                                             *)
(***************************************************************************)
Fairness ==
  /\ WF_vars(Driver) /\ WF_vars(Hooks)
  /\ \A c \in Calls : WF_vars(Closing(c))
  /\ \A c \in Timed : WF_vars(Timeout(c))

FairSpec == Spec /\ Fairness
-----------------------------------------------------------------------------
Pcs == {"plan", "level", "auth", "replan", "sub", "start", "run", "levelEnd", "build", "emit",
        "failed", "done", "closed", "rejected"}

PlanType ==
  /\ pc \in Pcs /\ signal \in BOOLEAN
  /\ planned \in [Calls -> BOOLEAN] /\ planArgs \in [Calls -> Args] /\ args \in [Calls -> Args]
  /\ lev \in [Calls -> Int] /\ sub \in [Calls -> Int]

LevelType ==
  /\ todo \subseteq Calls /\ cand \subseteq Calls /\ unauth \subseteq Calls
  /\ waiting \subseteq Calls /\ chunk \subseteq Calls /\ toStart \subseteq Calls

RaceType ==
  /\ phase \in [Calls -> {"idle", "started", "racing", "raced", "ended"}]
  /\ real \in [Calls -> {"idle", "running", "settled"}]
  /\ cause \in [Calls -> {None, "timeout", "aborted"}]
  /\ won \in [Calls -> {None, "real", "timeout", "aborted"}]

StopType ==
  /\ outcome \in [Calls -> Outcomes \union {None}] /\ term \in [Calls -> BOOLEAN]
  /\ unsettled \in BOOLEAN /\ skipped \in BOOLEAN /\ stopRun \in BOOLEAN

Result == [call : Calls, disposition : Dispositions, executionStarted : BOOLEAN]

OutputType ==
  /\ msg \in [Calls -> Dispositions \union {None}] /\ nextMsg \in 1..(N + 1)
  /\ results \in Seq(Result) /\ committed \in [Calls -> BOOLEAN]
  /\ late \in [Calls -> {0, 1}] /\ starts \in Seq(Calls)

TypeOK == PlanType /\ LevelType /\ RaceType /\ StopType /\ OutputType

Running == {c \in Calls : real[c] = "running"}

(***************************************************************************)
(* "Conflicting calls never overlap": two tools of the batch that are      *)
(* executing at the same time, a timed-out tool that ignores its signal    *)
(* included, hold final arguments whose claims do not conflict, even when  *)
(* the beforeToolCall hook rewrote them after the batch was planned.       *)
(***************************************************************************)
NoUnsafeOverlap ==
  \A c, d \in Running : c # d => ~conflict(c, d)

(***************************************************************************)
(* Conflicting calls run in source order: when a tool is invoked, every    *)
(* earlier call that the plan found in conflict with it is already closed. *)
(***************************************************************************)
PlannedConflictsInOrder ==
  \A c, d \in Calls :
    /\ c < d /\ real[d] # "idle"
    /\ resolutionsConflict(planArgs[c].res, planArgs[d].res)
    => outcome[c] # None

(***************************************************************************)
(* Every tool turn is closed with exactly one result per call, in source   *)
(* order, on every path: completed, blocked, failed, timed out, aborted,   *)
(* skipped, or cut short by a throwing listener and closed by              *)
(* handleRunFailure.                                                       *)
(***************************************************************************)
TurnClosed ==
  pc \in {"done", "closed"} =>
    /\ Len(results) = N
    /\ \A i \in Calls : results[i].call = i

(***************************************************************************)
(* The run only goes on to another provider turn when no tool of this      *)
(* batch is still executing: a timed-out tool that has not settled ends    *)
(* the run (stopRun), so it cannot race the next batch.                    *)
(***************************************************************************)
QuietNextTurn ==
  pc = "done" /\ ~signal /\ ~stopRun => Running = {}

(***************************************************************************)
(* A call the transcript calls skipped or blocked was never invoked; the   *)
(* tool of one it calls executed was invoked and has settled.              *)
(***************************************************************************)
ResultsTruthful ==
  \A i \in 1..Len(results) :
    /\ results[i].disposition \in {"skipped", "blocked"} => real[results[i].call] = "idle"
    /\ results[i].disposition = "executed" => real[results[i].call] = "settled"

(***************************************************************************)
(* A batch ends, with a closed turn unless a listener keeps throwing, even *)
(* if tools ignore their signals and never settle.  One thing alone keeps  *)
(* it from ending: a tool without a timer that never settles, in a run     *)
(* that nobody aborts.                                                     *)
(***************************************************************************)
BatchEnds ==
  \/ <>(pc \in {"done", "closed", "rejected"})
  \/ \E c \in Calls \ Timed : <>[](phase[c] = "racing" /\ real[c] = "running" /\ ~signal)

-----------------------------------------------------------------------------
(***************************************************************************)
(* The inductive invariants behind NoUnsafeOverlap, QuietNextTurn,         *)
(* TurnClosed, PlannedConflictsInOrder and ResultsTruthful, proved in      *)
(* ToolBatchProofs.                                                        *)
(***************************************************************************)
fresh == todo \union unauth \union waiting

(* A call is in one place at a time, and untouched until it is started. *)
Bookkeeping ==
  /\ todo \intersect unauth = {} /\ todo \intersect waiting = {} /\ unauth \intersect waiting = {}
  /\ chunk \intersect fresh = {}
  /\ \A c \in fresh : phase[c] = "idle" /\ outcome[c] = None
  /\ pc \in {"plan", "level"} => unauth = {} /\ waiting = {}
  /\ pc \in {"replan", "sub", "start", "run"} => unauth = {}
  /\ pc = "start" =>
       /\ toStart \subseteq chunk
       /\ \A c \in chunk : phase[c] = IF c \in toStart THEN "idle" ELSE "started"

(* What a race leaves behind: a call is over without its tool having       *)
(* settled only if the timer or the abort signal closed it.                *)
RaceInv ==
  /\ \A c \in Calls : won[c] = "real" => real[c] = "settled"
  /\ \A c \in Calls : won[c] = "aborted" \/ cause[c] = "aborted" => signal
  /\ \A c \in Calls : phase[c] \in {"raced", "ended"} <=> won[c] # None
  /\ \A c \in Calls : phase[c] = "ended" =>
       outcome[c] # None /\ (won[c] = "timeout" => outcome[c] = "timeout")

(* Runnable calls are placed in source order, and two of them on one       *)
(* sublevel do not conflict.                                               *)
SublevelsSafe ==
  /\ pc = "replan" =>
       /\ \A c, d \in waiting : c < d /\ sub[d] # -1 => sub[c] # -1
       /\ ~claimable(waiting) => \A c \in waiting : sub[c] \in {-1, c}
  /\ pc \in {"replan", "sub", "start", "run"} =>
       \A c, d \in waiting : c # d /\ sub[c] = sub[d] /\ sub[c] # -1 => ~conflict(c, d)
  /\ pc \in {"sub", "start", "run"} => \A c \in waiting : sub[c] # -1
  /\ pc = "auth" => \A c \in waiting : sub[c] = -1
  /\ pc = "start" => \A c, d \in chunk : c # d => ~conflict(c, d)

(* No tool runs while the driver plans, authorises or starts calls, and    *)
(* none is left running when it goes on without having been stopped.       *)
QuietInv ==
  /\ pc \in {"plan", "level", "auth", "replan", "sub", "start"} => Running = {}
  /\ pc = "run" => Running \subseteq chunk
  /\ pc = "levelEnd" /\ ~signal /\ ~unsettled => Running = {} /\ unauth = {} /\ waiting = {}
  /\ pc \in {"build", "emit", "done"} /\ ~signal /\ ~stopRun => Running = {}

(* A call without an outcome is still ahead of the driver, until the       *)
(* driver stops for a reason that gives every such call a message.         *)
OutcomeInv ==
  /\ pc \in {"plan", "level", "auth", "replan", "sub", "start", "run", "levelEnd"} =>
       \A c \in Calls : outcome[c] = None => c \in fresh \/ (pc \in {"start", "run"} /\ c \in chunk)
  /\ pc = "build" => signal \/ skipped \/ \A c \in Calls : outcome[c] # None
  /\ pc \in {"emit", "done"} => \A c \in Calls : msg[c] # None

(* The transcript holds the results of the first calls, in source order. *)
TranscriptInv ==
  /\ Len(results) <= N
  /\ \A i \in 1..Len(results) : results[i].call = i
  /\ pc \notin {"emit", "failed", "done", "closed", "rejected"} => results = <<>> /\ nextMsg = 1
  /\ pc = "emit" => Len(results) = nextMsg - 1
  /\ pc \in {"done", "closed"} => Len(results) = N

OverlapInv == Bookkeeping /\ RaceInv /\ SublevelsSafe /\ QuietInv /\ NoUnsafeOverlap
ClosureInv == OutcomeInv /\ TranscriptInv

plannedConflict(c, d) == resolutionsConflict(planArgs[c].res, planArgs[d].res)

(* The loop over levels has not ended. *)
Ahead == {"level", "auth", "replan", "sub", "start", "run", "levelEnd"}

(* The batch is planned in source order, on the arguments it was called    *)
(* with, and of two calls in planned conflict the earlier one is on the    *)
(* lower level.                                                            *)
PlanInOrder ==
  /\ pc = "plan" =>
       /\ args = planArgs /\ todo = Calls /\ cand = {}
       /\ \A c, d \in Calls : c < d /\ lev[d] # -1 => lev[c] # -1
       /\ ~claimable(Calls) => \A c \in Calls : lev[c] \in {-1, c}
  /\ \A c, d \in Calls :
       c < d /\ lev[c] # -1 /\ lev[d] # -1 /\ plannedConflict(c, d) => lev[c] < lev[d]
  /\ pc \in Ahead => \A c \in Calls : lev[c] # -1

(* The candidate level is one level of the plan, or a chunk of it, and no  *)
(* call on a lower level is still to come.                                 *)
LevelsInOrder ==
  pc \in Ahead =>
    /\ \A c \in Calls \ todo, d \in todo : lev[c] <= lev[d]
    /\ \A c, d \in cand : lev[c] = lev[d]
    /\ unauth \subseteq cand /\ waiting \subseteq cand
    /\ pc \in {"start", "run"} => chunk \subseteq cand

OrderInv == PlanInOrder /\ LevelsInOrder /\ PlannedConflictsInOrder

(* An outcome agrees with what happened to the tool. *)
OutcomeTruthful ==
  /\ \A c \in Calls : phase[c] \in {"idle", "started"} => real[c] = "idle"
  /\ \A c \in Calls : outcome[c] \in {"failed", "blocked"} => real[c] = "idle"
  /\ \A c \in Calls : outcome[c] = "executed" => real[c] = "settled"
  /\ pc = "start" => \A c \in chunk : outcome[c] = None

(* A message is the outcome of its call, or stands for a call that was     *)
(* never started; a result in the transcript is the message of its call,   *)
(* or the "aborted" of a failure closure.                                  *)
MessageTruthful ==
  /\ pc = "build" => \A c \in Calls : outcome[c] = None => phase[c] = "idle"
  /\ \A c \in Calls : msg[c] # None =>
       /\ pc \in {"emit", "failed", "done", "closed", "rejected"}
       /\ msg[c] = outcome[c] \/ (phase[c] = "idle" /\ msg[c] \in {"aborted", "skipped"})
  /\ \A i \in 1..Len(results) :
       results[i].disposition = "aborted" \/ results[i].disposition = msg[results[i].call]

TruthInv == OutcomeTruthful /\ MessageTruthful
=============================================================================
