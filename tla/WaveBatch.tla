------------------------------- MODULE WaveBatch -------------------------------
(***************************************************************************)
(* The waves-v1 executor of a tool batch (executeToolCalls,                *)
(* executeToolCallsInWaves, -Sequential and -Parallel of                   *)
(* packages/agent/src/agent-loop.ts, partitionToolBatchWaves of            *)
(* parallel-tool-batch.ts), with the tools that change files running in    *)
(* the file mutation queue.  Unlike dag-v2 it does not wait for a tool     *)
(* that timed out: what is left to keep a file's mutations apart and in    *)
(* order is the queue.                                                     *)
(*                                                                         *)
(* The sequential executor is the wave executor with one call per wave, and *)
(* the parallel one the wave executor with a single wave.  The votes to    *)
(* terminate that results carry are left out: they are only collected.     *)
(***************************************************************************)
EXTENDS FileMutationQueue

CONSTANTS N,          \* calls in the batch
          Batches,    \* the batches: N calls, each [tool, name]
          HookNames,  \* names a beforeToolCall hook may put in a call's arguments
          Modes       \* config.toolExecution: {"sequential", "parallel"} or a part of it

Calls == 1..N

ASSUME WaveBatchAssumption ==
  /\ N \in Nat \ {0} /\ Ops = Calls /\ HookNames \subseteq Names
  /\ \A batch \in Batches : \A i \in Calls : batch[i].name \in Names

VARIABLES
  calls,    \* calls[i]: the call as the model made it
  mode,     \* "sequential" when the run or a tool of the batch is
  waveOf,   \* the partition: the wave of each call, 0 before it is placed
  placed,   \* the calls placed so far
  wave,     \* the wave that runs
  phase,    \* "partition", "prepare", "run", "ended"
  entry,    \* entry[i]: "none", "prepared", "immediate", "started"
  cause,    \* cause[i]: what won the race: "none", "value", "timeout", "aborted"
  results,  \* the calls whose results were published, in order
  aborted   \* the run's signal

batchVars == <<calls, mode, waveOf, placed, wave, phase, entry, cause, results, aborted>>
vars == <<queueVars, batchVars>>

Mutates(i) == calls[i].tool \in {"write", "edit"}

Init ==
  /\ calls \in Batches /\ mode \in Modes
  /\ waveOf = [i \in Calls |-> 0] /\ placed = 0
  /\ wave = 1 /\ phase = "partition" /\ aborted = FALSE /\ results = <<>>
  /\ entry = [i \in Calls |-> "none"] /\ cause = [i \in Calls |-> "none"]
  /\ QueueInit({Target[n] : n \in Names}) /\ path = [i \in Calls |-> calls[i].name]

(***************************************************************************)
(* partitionToolBatchWaves, one call at a time                             *)
(***************************************************************************)
(* classifyToolCall: path-scoped, safe beside anything, or alone. *)
kind(call) ==
  CASE call.tool \in {"write", "edit"} -> "path"
    [] call.tool = "grep" -> "safe"
    [] OTHER -> "solo"

(* pathsOverlap compares names, not files. *)
overlaps(a, b) == kind(a) = "path" /\ kind(b) = "path" /\ a.name = b.name

lastWave == IF placed = 0 THEN 0 ELSE waveOf[placed]

(* A call starts a wave when calls run one at a time (executeToolCalls),   *)
(* when it is the first, when it or the last wave is to be alone, and when *)
(* its path is taken in the last wave.                                     *)
startsWave(i) ==
  \/ mode = "sequential" \/ placed = 0 \/ kind(calls[i]) = "solo"
  \/ \E j \in 1..placed :
       waveOf[j] = lastWave /\ (kind(calls[j]) = "solo" \/ overlaps(calls[j], calls[i]))

(* Nothing else runs before the partition is complete. *)
Partition ==
  /\ phase = "partition" /\ placed' = placed + 1
  /\ waveOf' = [waveOf EXCEPT ![placed'] = IF startsWave(placed') THEN lastWave + 1 ELSE lastWave]
  /\ phase' = IF placed' = N THEN "prepare" ELSE "partition"
  /\ UNCHANGED <<queueVars, calls, mode, wave, entry, cause, results, aborted>>

(***************************************************************************)
(* A wave                                                                  *)
(***************************************************************************)
current == {i \in Calls : waveOf[i] = wave}
unprepared == {i \in current : entry[i] = "none"}
enter(i, e) == entry' = [entry EXCEPT ![i] = e]

(* Mistaken variant: the wave is cut short by a refusal. *)
afterPreparationCut(i) ==
  phase' = IF unprepared = {i} \/ aborted \/ entry'[i] = "immediate" THEN "run" ELSE "prepare"

afterPreparation(i) == phase' = IF unprepared = {i} \/ aborted THEN "run" ELSE "prepare"

(* prepareToolCall of the next call of the wave: refused, or ready, with   *)
(* the name a hook may have put in place of the model's.                   *)
Prepare(i) ==
  /\ phase = "prepare" /\ i \in unprepared /\ \A j \in unprepared : i <= j
  /\ \/ enter(i, "immediate") /\ UNCHANGED path
     \/ /\ ~aborted /\ enter(i, "prepared")
        /\ \E n \in {path[i]} \cup {h \in HookNames : Mutates(i)} : path' = [path EXCEPT ![i] = n]
  /\ afterPreparation(i)
  /\ UNCHANGED <<stage, key, waits, registrations, tail, existing, unresolved,
                 calls, mode, waveOf, placed, wave, cause, results, aborted>>

(* runToolCallWithTimeout: the tool starts, unless the run was aborted     *)
(* while tool_execution_start was delivered.  Other tools only run.        *)
Start(i) ==
  /\ phase = "run" /\ i \in current /\ entry[i] = "prepared" /\ enter(i, "started")
  /\ \/ aborted /\ cause' = [cause EXCEPT ![i] = "aborted"] /\ UNCHANGED queueVars
     \/ ~aborted /\ Mutates(i) /\ Enter(i) /\ UNCHANGED cause
     \/ /\ ~aborted /\ ~Mutates(i) /\ become(i, "running")
        /\ UNCHANGED <<path, key, waits, registrations, tail, existing, unresolved, cause>>
  /\ UNCHANGED <<calls, mode, waveOf, placed, wave, phase, results, aborted>>

racing(i) == entry[i] = "started" /\ cause[i] = "none"
cancelled(i) == cause[i] \in {"timeout", "aborted"}
won(i, c) == cause' = [cause EXCEPT ![i] = c]

Timeout(i) ==
  /\ racing(i) /\ won(i, "timeout")
  /\ UNCHANGED <<queueVars, calls, mode, waveOf, placed, wave, phase, entry, results, aborted>>

Abort ==
  /\ ~aborted /\ phase \in {"prepare", "run"} /\ aborted' = TRUE
  /\ cause' = [i \in Calls |-> IF racing(i) THEN "aborted" ELSE cause[i]]
  /\ UNCHANGED <<queueVars, calls, mode, waveOf, placed, wave, phase, entry, results>>

(* The tool's own steps.  Once cancelled, what it returns is only audited. *)
settles(i) == cause' = IF racing(i) /\ stage'[i] = "settled" THEN [cause EXCEPT ![i] = "value"] ELSE cause
Work(i) ==
  /\ \/ ResolveKey(i) \/ ResolveKeyFails(i) \/ Register(i) \/ Begin(i, cancelled(i))
     \/ StartWrite(i, calls[i].tool, cancelled(i)) \/ EndWrite(i)
     \/ /\ stage[i] = "running" /\ become(i, "settled")
        /\ UNCHANGED <<path, key, waits, registrations, tail, existing, unresolved>>
  /\ settles(i) /\ UNCHANGED <<calls, mode, waveOf, placed, wave, phase, entry, results, aborted>>

(* Promise.all: every entry of the wave has its outcome, finalised by      *)
(* finalizeExecutedToolCall.                                               *)
finalized == \A i \in current : entry[i] \in {"none", "immediate"} \/ cause[i] # "none"
unpublished == {i \in current : entry[i] # "none" /\ \A k \in DOMAIN results : results[k] # i}

(* The results are then published one by one, in order. *)
Publish(i) ==
  /\ phase = "run" /\ finalized /\ i \in unpublished /\ \A j \in unpublished : i <= j
  /\ results' = Append(results, i)
  /\ UNCHANGED <<queueVars, calls, mode, waveOf, placed, wave, phase, entry, cause, aborted>>

(* After a wave: the next one, unless the run was aborted. *)
WaveEnd ==
  /\ phase = "run" /\ finalized /\ unpublished = {} /\ wave' = wave + 1
  /\ phase' = IF aborted \/ wave = lastWave THEN "ended" ELSE "prepare"
  /\ UNCHANGED <<queueVars, calls, mode, waveOf, placed, entry, cause, results, aborted>>

Executor == Partition \/ WaveEnd \/ \E i \in Calls : Prepare(i) \/ Start(i) \/ Publish(i)
Next == Executor \/ Abort \/ \E i \in Calls : Timeout(i) \/ Work(i)

(* The event loop runs what is ready and file operations end.  Nothing is  *)
(* asked of timers, which a call may not have, and of a tool outside the   *)
(* queue.                                                                  *)
Fairness ==
  /\ WF_vars(Executor)
  /\ \A i \in Calls : WF_vars(stage[i] # "running" /\ Work(i))
Spec == Init /\ [][Next]_vars
FairSpec == Spec /\ Fairness
--------------------------------------------------------------------------------
(* Mutations of one file keep the order of their waves, although a wave    *)
(* does not wait for the timed-out tools of the one before: a call reads   *)
(* and writes a file only when every earlier wave's call on that file,     *)
(* under whichever name, is over.  The exception: one of the two was       *)
(* queued under a link while the file did not exist.                       *)
MutationsInWaveOrder ==
  \A i, j \in Calls :
    waveOf[i] < waveOf[j] /\ file(i) = file(j) /\ Mutates(i) /\ Unfinished(i) /\ Inside(j)
      => {i, j} \cap unresolved # {}

(* A batch that was not aborted publishes one result per call, in the      *)
(* model's order; an aborted one a beginning of that, at least one.        *)
WaveResultsComplete ==
  phase = "ended" =>
    /\ results = [k \in 1..Len(results) |-> k] /\ Len(results) > 0
    /\ aborted \/ Len(results) = N

================================================================================
