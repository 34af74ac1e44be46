# A verification project for open-multi-agent-kit

open-multi-agent-kit (OMK) is a coding agent: a loop that sends a transcript to
a model provider, executes the tool calls in the reply, and goes on until the
model is done. Three parts of it carry guarantees that tests can hardly reach,
and they are what this project is about:

* the **agent runtime** (`packages/agent`, and the file mutation queue of the
  built-in tools): tools execute in parallel, time out, are aborted, have their
  arguments rewritten by hooks and report to listeners that may throw, while
  callers queue messages; whatever happens, the transcript must stay one that a
  provider accepts, and two tools must not change one file at the same time;
* the **session** (`packages/coding-agent/src/core`): a session file, a run
  journal and a lock directory that several processes may open, in which any of
  them may die at any file-system call, and whose history is compacted while
  runs, the user and extensions go on changing it;
* the **replay ledger** (`packages/coding-agent/src/guardrails`): several
  processes append to one hash-chained file under an interprocess lock made of
  hard links, with deaths and power failures.

## Inventory

| Component | State | Operations | Interacts with | What is hard |
|---|---|---|---|---|
| resource claims, dag-v2 scheduler (`tool-resource-claims.ts`, `builtin-tool-resource-claims.ts`, `tool-dag-scheduler.ts`) | the levels built so far | resolve claims, assign levels, cap | batch executor | untrusted claims, aliased paths, chunk boundaries |
| dag-v2 batch executor (`agent-loop.ts`, `tool-timeout.ts`, `tool-execution-boundary.ts`) | preparations, running promises, outcomes, results | plan, authorise, replan, execute, finalise, publish | hooks, listeners, tools | timeouts of tools that go on running, aborts at every await, hooks that rewrite arguments |
| waves-v1 batch executor (`agent-loop.ts`, `parallel-tool-batch.ts`) | waves, outcomes, results | partition, prepare, execute, publish | hooks, file mutation queue | the next wave does not wait for a tool that timed out |
| file mutation queue (`core/tools/file-mutation-queue.ts`, `write.ts`, `edit.ts`) | a promise chain per file, one for registrations | register, wait, mutate, release | the edit and write tools | two names of one file, files that do not exist yet, cancellation in the queue |
| transcript integrity (`tool-transcript-integrity.ts`) | none | inspect, repair | run loop, failure handling, compaction | exactness: neither let a broken transcript through nor refuse a sound one |
| agent and run loop (`agent.ts`, `agent-loop.ts`) | transcript (twice), two queues, the active run | prompt, continue, steer, followUp, clear, reset, abort | providers, listeners, batch executors | messages and errors at any await, an error while an error is handled |
| durable file lock (`core/durable-file-lock-*.ts`, `durable-file-identity.ts`) | lock directories with owner files, releases to retry | acquire, inspect, reclaim, release | session, journal, lease | check and rename are two calls; reclaim gates that are locks themselves; a lock without an owner |
| session file, owner lease, run journal (`session-manager.ts`, `session-owner-lease.ts`, `run-journal*.ts`) | entries, a lease, chained records | open, append, commit, quarantine, recover | durable lock, agent session | torn writes, two processes on one session, a run declared crashed while it lives |
| session termination (`session-termination.ts`) | none | classify, validate | run journal | two tables that must agree |
| compaction (`agent-session.ts`, `compaction/*.ts`) | captured source, hysteresis, overflow attempt | capture, repair, summarise, commit, cancel | session tree, runs | the branch changes while the summary is written; triggering itself again |
| replay ledger: mutation gate, lock, store and manager (`guardrails/replay-ledger-*.ts`, `evidence-system.ts`) | a gate link, intents, a lock link; ledger, head file, quarantine; each manager's head | acquire, reclaim, release; open, verify, append | one another | reclaim of a dead holder's gate by several processes, crashes between fsyncs, stale heads |
| evidence receipts, verified executor, session doctor, recovery checkpoint, correctness wall (`packages/adaptorch-wpl`), loops and subagents, provider resilience | | | | not modelled yet |
| providers, terminal UI, routers, loadouts, context budget, promptguard, vendored code | | | | not modelled: I/O, text, scoring or third-party code |

`PROJECT.json` lists all of them with their status, and the hazards of the code,
each at its line, with the properties that would catch it.

How they meet: a prompt goes from the agent session to the agent's run loop
(`AgentRun`), which hands every reply with tool calls to one of the two batch
executors (`ToolBatch`, `WaveBatch`); file-changing tools enter the mutation
queue (`FileMutationQueue`). Events of the run come back to the session, which
appends messages to the session file and the run's start and end to the journal
(`RunJournal`, with endings classified by `SessionTermination`), each under the
directory lock (`DurableLock`). Before and after a run the session may compact
(`SessionCompaction`). Guardrail evidence goes to the replay ledger
(`ReplayLedgerStore`) under `ReplayLedgerLock`, which changes its link only
inside `MutationGate`.

## Modules

| Module | Models |
|---|---|
| `ResourceClaims` | claims, conflicts, and how a call's claims are resolved; a path is its lexical key, its real key and its inode |
| `LevelPlan` | abstract: every call is on the least level above the earlier calls it conflicts with |
| `DagLevels`, `DagLevelsProofs` | `scheduleDagLevels`, entry by entry and level by level; implements `LevelPlan` |
| `ToolBatch`, `ToolBatchProofs` | `executeToolCallsDagLevels` and everything it awaits |
| `FileMutationQueue` | `withFileMutationQueue` and the bodies of `write` and `edit` |
| `WaveBatch`, `WaveBatchProofs` | `executeToolCallsInWaves` with its sequential and parallel forms, composed with `FileMutationQueue` |
| `TranscriptIntegrity` | `inspectTranscriptIntegrity` and `repairTranscriptIntegrity` as operators |
| `Selection` | `only`, the elements of a sequence that are in a set: the loops that push some elements of an array |
| `AgentRun`, `AgentRunProofs` | the `Agent` class and `runLoop`; uses `TranscriptIntegrity`; a tool batch is one step |
| `DurableLock`, `DurableLockProofs` | the directory lock with its recursive reclaim gates, one step per file-system call |
| `RunJournal`, `RunJournalProofs` | the run journal, the session file beside it, the owner lease and the life of a run, over a lock that excludes |
| `SessionTermination` | the classification of a run's ending and the journal's table for it, as operators |
| `SessionCompaction`, `SessionCompactionProofs` | manual and automatic compaction over the session tree, with the chain of a prompt |
| `MutationGate` | `ReplayLedgerMutationGate`, one step per file-system call |
| `ReplayLedgerLock` | `ReplayLedgerLock`, with the gate open (`LockSpec`) or excluding (`GatedSpec`); its theorems are with those of the store |
| `ReplayLedgerStore`, `ReplayLedgerStoreProofs` | `ReplayLedgerStore` and the managers, over a lock that excludes |
| `MC*` | the instances TLC checks; `MCAlgorithms` compares the pure algorithms with reference definitions |

Operators called "mistaken variant" are plausible bugs of the definition that
follows them. They are used nowhere in the specifications; `PROJECT.json`
("mutants") pairs each with the property that finds it.

### How state and actions correspond to the code

**DagLevels.** `levels` is the array `assignDagLevels` fills. `NextEntry` takes
the next call, `ScanLevel` is an iteration of the scan over the levels, `PlaceEntry`
the push with its update of the level's aggregates. `resolutionConflictsLevel`
uses those aggregates, as the code does, and the properties compare it with the
pairwise conflict. `Plan` applies the concurrency cap.

**ToolBatch.** A step is what happens between two awaits. `PlaceCall` and
`PlanDone` are the planning of the batch; for each level `Authorize*` is
`authorizePlannedToolCall` with the hook's verdict, `PlaceRunnable` the second
scheduling with the final arguments, `EmitStart` and `BeginSublevel` the start
of a sublevel. `Settle`, `Timeout` and `Abort` race, `RaceWon` is
`runToolCallWithTimeout` taking the first, `Finalize` is
`finalizeExecutedToolCall` with its hook. `Timed` are the calls whose
`resolveToolTimeoutMs` is positive: a tool with a timeout of its own, or any if
`tools.timeoutMs` is set, which by default it is not. `LevelEnd` decides whether the batch
goes on, `Build` and `EmitResult` publish one result per call in source order.
`ListenerThrows` abandons the batch at any event, and `CloseUnresolved` is the
failure path that closes the transcript. `real` is what the tool does,
`outcome` what the runtime says of it: a timed-out tool that ignores its signal
has an outcome and is still running. The scheduler is used here through
`targetLevel`, the least level above all earlier conflicts, which is what
`LevelPlan` promises and `DagLevels` implements.

**FileMutationQueue, WaveBatch.** `registrations` is the one chain on which
every call resolves its key, `tail` the map from keys to the last promise
chained on them, `waits` the promise a call found there. A name is a resolved
path and `Target` the file it leads to, so that a link and its target are two
names; `realpath` gives the file only if it exists (`ResolveKey`). The wave
executor cuts the batch into waves call by call (`Partition`; `waveOf` is the
wave of a call, `placed` how far it got), prepares the calls of a wave one by
one (`Prepare`, with the name a hook may put in the arguments), starts them
(`Start`), takes for each whichever of value, timeout and abort comes first
(`cause`), and when every call has an outcome, although its tool may still be
in the queue, publishes the results one by one (`Publish`, then `WaveEnd`).
The sequential executor is a wave per call, the parallel one a single wave.

**AgentRun.** `messages` is the agent's transcript, `context` the loop's.
`pending` holds messages drained from a queue and not yet recorded, `todo` the
results about to be published. Callers' actions are enabled at every await.
`throw` is an error of a listener, hook or provider at any await; `fail`,
`planFailureTermination` and `publishClosure` are `handleRunFailure`. `ghost`
is history: what was cleared, what was lost, and `scars`, the events after
which a transcript may be unsound.

**DurableLock.** The lock is the path `<<>>`; the gate for reclaiming a path
from the dead owner with token `t` is `Append(path, t)`, which is what the
gate's name, made of the lock's path and the owner's token, says. `at[p]` is
where process `p` is: its operation, the path it works on and the token of the
directory it made. `Mkdir` and `WriteOwner` create a lock, `Inspect` reads the
owner of one that is there and, if it is dead, goes one gate deeper; `Reread`,
`Retire` are the reclaim inside the gate; `Check`, `Rename` the release of a
lock or a gate. `WriteFails`, `RetireFails`, `RenameFails` are calls that
throw, with the cleanup the code does or fails to do; `retained` is
`retryableLocks`, which `Drain` tries first on the next operation.

**RunJournal.** Every operation on the journal or the session file happens
under that file's lock and is one step, which may fail half way (`faults`).
`proc[p]` is what a process holds: its session id, the entries in memory,
whether they are flushed, the head of the session file it last saw, and the
journal's lines it accepted with their generation (the file's identity, which
an atomic rewrite changes). `Commit` is `RunJournalStore.commit`: compare the
accepted head with the file, seal, append. `OpenJournal` is
`RunJournalStore.open` with quarantine and recovery. `leasing` are the
processes that take the owner lease; both kinds are modelled, because the
shipped `AgentSession` opens the store without one.

**SessionCompaction.** `entries` and `leaf` are the session tree;
`agent.messages` the agent's own copy, each with the entry it was written to
(0 for a message the session did not hear). `driver` is where the chain of a
prompt is: checks before it (`pre`, `projected`), the run, the check after it
(`post`), and the retry (`continue`). `jobs` are the two compactions. `Begin`
repairs an open tail in an emergency, passes the barrier and captures the
branch; `Commit` compares and appends, or gives up. `ManualStart` disconnects
the session from the agent and aborts the run, as `compact()` does, in that
order. `Foreign` is another process's append to the session file, after which
every append of this one throws (`RunBreaks`). Usage is one of four ratios,
placed by the thresholds of `hysteresis.ts`. The kinds of replies are an
answer, a call, an aborted one, the two `Errors` ("overflow" and any other
failure) and "silent": a reply without an error that `isContextOverflow` takes
for an overflow by its usage. The recovery drops either kind of overflow from
the agent's messages, but only an error leaves `_overflowRecoveryAttempted` set.
`opening` is the user message a run starts with, which for `agent.continue()`
after an assistant message is an empty one that it puts in. Its two refusals
(no message, open calls) never happen on the only path to it, a commit:
`CompactionKeepsTurns` says so, and `StartRun` is guarded by `continues`. A run
broken by another process's append closes its record through
`_publishRuntimeFailure`, except in the continuation inside `prompt()`'s own
check, where `activeRun` stays set.

**MutationGate, ReplayLedgerLock.** A step is one file-system call. An owner
record is a process and the number of its call of `run()`, since the code
draws a fresh id for each. A dead process is known to be dead, as
`inspectProcessIdentity` establishes with pid and start time; a liveness check
that throws is `GiveUp`, and so is running out of attempts. Candidate files,
which nobody else reads, and the callbacks for tests are left out. The lock's
steps between `withMutationGate`'s entry and exit are marked by their `pc`
(`Inside`); `GateExcludes` says that two processes are never there together.
`LockSpec` does not have it, and there TLC finds two holders of the lock;
`GatedSpec` allows only steps that keep it. The run is about `GatedSpec`, the
theorems have it as a hypothesis.

**ReplayLedgerStore.** The ledger's bytes are halves of lines, so that a line
may be half written. `dirs` holds the states of the directory since its last
fsync; `data` and `synced` are the file as processes see it and as it was last
synced. `fail` is a call that throws, after which the release of the lock syncs
the directory, or the death of the process, after which nothing does.
`powerLoss` picks one of the directory's states and some of the unsynced bytes.
The head file is written and synced under a temporary name, so only its rename
matters. The lock is a link in the ledger's own directory and its acquisition
syncs that directory; `start` models this because the recovery depends on it.

## Runs

| Run | Instance | Shows |
|---|---|---|
| `algorithms` | every batch of up to 4 calls from a catalogue of 13, cap 2; every transcript of up to 5 messages over 2 call ids; every input of the termination classifier | the scan with aggregates implements `LevelPlan`, and the cap loses nothing and keeps conflicting calls in order; inspection accepts exactly the well-formed transcripts and repair closes exactly what appended results can close; no ending the classifier produces is refused by the journal's own table |
| `tool_batch` | 3 calls on 2 files, two of them with a timer, cap 2, rewriting hooks, unknown tools, opaque arguments, timeouts, aborts, terminating results, throwing listeners, fairness | conflicting tools never execute at the same time, timed-out ones included; calls that conflict as planned run in source order; every turn is closed, with truthful results; nothing leaks into the next turn; the batch ends although tools never settle, unless one without a timer hangs and nobody aborts |
| `agent_run` | 2 messages, 2 runs, 1 call, 2 errors anywhere, fairness | an idle agent's transcript is sound, the two copies agree whenever the provider is asked, no message is lost unaccounted, duplicated or recorded out of its queue's order; every run ends |
| `waves` | 3 calls on a file and a link to it, a hook that renames, timeouts, an abort, fairness | edits of one file, under either of its names, exclude each other and keep the order of their waves, although a wave does not wait for the timed-out tools of the one before; every call gets its result; everybody who waits in the queue leaves it |
| `durable_lock` | 3 processes that take, inspect and release for ever, 2 deaths, 2 failing calls, fairness | a lock or gate is never taken from a live holder, also not by the retry of a failed release; a dead owner never wedges the lock, whoever died reclaiming it, unless a directory was left without an owner file |
| `session_journal` | 2 processes with and without the lease, 3 starts, 2 runs, 2 entries, an audit record, a failing write, crashes anywhere | the journal stays one that every later start accepts and keeps what it acknowledged; a leased run is not declared crashed while it lives; the session's revision never blocks a process whose view is current; file and journal name one session if all processes take the lease |
| `compaction` | 6 entries, 2 prompts, one `compact()`, one move of the user, an extension or another process | a summary stands on the branch it was made from, no source is compacted twice, a compaction leaves whole turns and a transcript `agent.continue()` accepts, compaction does not set itself off, the agent's conversation is the one the session would resume with |
| `gate_three` | 3 processes, 3 calls each, 2 deaths, fairness | the gate excludes; whoever keeps trying sees somebody get the gate |
| `lock_safety` | 3 processes, 2 calls each, 2 deaths, failing releases, fairness, a gate that excludes | the lock excludes and only its owner removes a live record; the locks of the dead are reclaimed |
| `ledger_history` | 3 managers, 4 events, 2 faults, 2 power failures | acknowledged events survive, the chain does not fork, rolled-back bytes are kept, the store always reads what it left |

Two runs show a disagreement between the code and what the repository says of
it (each is a finding in `PROJECT.json`):

| Run | What the repository says | What the code does |
|---|---|---|
| `gate_four` | contenders reclaiming one stale gate are serialised | two reclaimers and an acquirer can end with two holders; it takes the dead holder and three live processes, which is why `gate_three` passes |
| `compaction_aborts_run` | each run writes `run_started` and `run_finished` records (`packages/coding-agent/docs/usage.md:142`) | `compact()` stops listening before it aborts the run under way, so its `run_finished` is never written and the next prompt's `agent_start` throws |

Other passages that do not describe the modelled code, noted here without a
run of their own:

* `packages/agent/README.md:118` says the loop stops early only when every
  result of the batch sets `terminate`; dag-v2 decides level by level
  (`agent-loop.ts:752`), so one level whose results all ask for it is enough.
* `packages/agent/src/types.ts:553` says `executionStarted` records whether
  `execute` began; after a throwing listener the synthetic results
  (`tool-transcript-integrity.ts:180`) say it did not.
* `packages/coding-agent/docs/extensions.md:572` and
  `packages/agent/README.md:116` describe the order of `tool_execution_start`
  of waves-v1; dag-v2 emits it level by level, after the whole level's
  `beforeToolCall` hooks.
* `packages/agent/README.md:163` on `agent_end`: a listener that throws on it
  makes the agent publish a failure message and a second `agent_end`.
* `packages/coding-agent/test/suite/agent-session-compaction.test.ts:252`, "does
  not retry overflow recovery more than once", holds for overflows reported as
  errors. A reply without an error and with a usage beyond the window
  (`overflow.ts:135`) clears `_overflowRecoveryAttempted` itself, and its retry
  starts with an empty user message that clears it again, so that the session may
  compact and retry for as long as such replies come. `NoThrashing` excepts them.
  When the compaction of such a recovery fails, the agent goes on without the
  answer that was dropped at `agent-session.ts:3572`, which the session has;
  `ContextFollowsSession` therefore leaves these answers out.

### Bounds

Three calls are the fewest with which a hook can rewrite one call into a
conflict with a second while a third is on another level, with a cap that is
reached. `FewSurprises` keeps `tool_batch` small: at most one call has
arguments that differ from the planned ones or cannot be claimed, and none in a
behaviour with an abort, a vote to terminate or a throwing listener; timeouts
meet all of them. The theorems about the batch have neither bound. Four calls
in `algorithms` give every shape of conflict chain above a full chunk; two call
ids and five messages hold every pair of turns, one open and one closed, with a
message in between.

Two messages and two errors in `agent_run` are enough for an error while an
error is handled. In `waves`, three calls let two edits of different waves meet
in the queue while a third, of either wave, is cancelled in it.

In `durable_lock` two deaths give a dead owner and a dead reclaimer, so that the
gate of a gate is used; two failing calls a failed release that is retried after
a failed creation. Tokens are used again once nothing refers to them, so the
number of operations is not bounded; eight are never all in use. In
`session_journal` three starts of two processes are two at the same time and
one that finds what they left. In `compaction` six entries are a prompt with a
tool call, its compaction and a run on top, or two branches; the bound also
limits the agent's messages, and one move at any moment is enough to change
leaf, tree or file under a summary.

In the gate, a dead holder, two live processes and a second death cover every
two-party race; the three-party race is `gate_four`. Four events and two
managers that are alive let a stale head meet a ledger that was rolled back and
extended; with two faults and two power failures every fault can hit the
recovery from another.

`CHECK_DEADLOCK FALSE` is used where batches end, runs are bounded, or
processes stop after their calls; `durable_lock` is checked for deadlock.

### Fairness

`ToolBatch!FairSpec` is weak fairness of the runtime's own steps: promise
continuations run, the timers that were set fire, hooks and listeners settle. It
says nothing of the tools: `Settle` is not fair. A timer is set only for the
calls in `Timed`: the default of `tools.timeoutMs` is 0
(`agent-tool-settings.ts:6`), which disables it (`tool-timeout.ts:193`). `BatchEnds`
names what is left: a tool without a timer that hangs in a batch nobody aborts.
`WaveBatch!FairSpec` has no timers at all; it asks that file operations inside
the queue end, and nothing of other tools. `AgentRun!FairSpec` is weak fairness
of the loop and takes it that a batch ends, that is, that no tool without a timer
hangs in a run nobody aborts; errors, callers and new runs are not fair. In the gate and
the locks every live process is scheduled; that attempts run out, a call fails
or a process dies is always possible and never fair. The progress properties of
the ledger speak of a process that does not give up; `DurableLock!FairSpec`
takes a process that wants the lock to ask again after an error, as the next
write of its session does.

## Proofs

Eight modules hold theorems. Each is about the same `Spec` that TLC checks and
holds for every value of the constants: any number of calls, processes, events,
faults and deaths. The bounds that keep TLC's instances small (`MaxFaults` and
the like) are natural numbers in the assumptions and no theorem depends on their
size. What else is assumed is said below. The invariants that the theorems
speak of are seldom inductive; each module's own invariant says what the code
relies on between two steps. In all of them the proof of a step has one case
per action.

**`ToolBatchProofs`.** `TypeCorrect` is the type invariant. `OverlapSafe`
(`NoUnsafeOverlap`) and `NextTurnQuiet` (`QuietNextTurn`) follow from
`OverlapInv`. `NoUnsafeOverlap` is not inductive: that a sublevel may start
needs that nothing else is running. The parts: `Bookkeeping` (a call is in one
place at a time and untouched until it is started), `RaceInv` (a call is over
without its tool having settled only if the timer or the abort closed it, and
then its outcome says so), `SublevelsSafe` (runnable calls placed on one
sublevel do not conflict) and `QuietInv` (nothing runs while the driver plans,
authorises or starts calls, and nothing is left running when it goes on).
`SublevelsSafe` rests on the symmetry of conflict (`ConflictSymmetric`),
because the scan only compares a call with the earlier ones. `EveryTurnClosed`
(`TurnClosed`) follows from `ClosureInv`: `OutcomeInv` (a call without an
outcome is still ahead of the driver, until the driver stops for a reason that
gives it a result) and `TranscriptInv` (the results published are those of the
first calls, in source order). `ConflictsInSourceOrder`
(`PlannedConflictsInOrder`) adds `OrderInv`: the plan puts a call above the
earlier ones it conflicts with (`PlanInOrder`), and the driver takes the levels
one after the other (`LevelsInOrder`). `TranscriptTruthful` (`ResultsTruthful`)
adds `TruthInv`: what an outcome and then a message says of a call agrees with
what its tool did. The assumptions are the types of the constants: natural
numbers of calls and cap (0 is no cap), known kinds of events; nothing is
assumed of the resolutions.

**`DagLevelsProofs`.** `LevelsImplementPlan` is the refinement: the loops of
`assignDagLevels`, which scan all levels and compare a call with each
level's aggregates only, implement `LevelPlan`, in which a call goes to the
least level above its earlier conflicts. The invariant, `LevelInv`: every call
is on exactly one level and none is empty, a level's aggregates stand for its
calls (`SummariesExact`, from `JoinConflicts`: joining a call to a level adds
its conflicts and no other), and the scan's target is right for the levels
scanned so far. `SummariesExact` needs that a resolution which is not exclusive
holds no exclusive claim (`ResolutionShape`), which `Resolution` ensures.
`CappedPlanHolds` (`CappedPlanSound`) is about the plan cut into chunks: every
call once, no more than the cap at a time, conflicts in order. It needs what
`FlattenSeq` returns (`FlattenSeqFlattens`) and how calls are numbered within a
level (`RankBelow`, `RankOnto`, `ChunkSize`), which are inductions over data.
Since the library's induction theorems cannot be instantiated here, they go
through sets: a nonempty set of naturals has a smallest element (`Smallest`,
from `WFMin`), applied to the set of counterexamples. The assumptions are the
constants' types.

**`WaveBatchProofs`.** `QueueExcludes` (`MutationsExclusive`),
`QueueKeepsWaveOrder` (`MutationsInWaveOrder`) and `ResultsComplete`
(`WaveResultsComplete`), about the wave executor composed with the file
mutation queue. The promises of a key form a chain nobody stores: a call knows
only the one it waits for, the map only the last. `InLine` says that the calls
of a key can be ranked so that each waits for the one just before it, the last
is the one in the map, the one inside is first, and the ranks follow the waves.
`RegistrationInv` gives the order in which calls reach the chain; `StartedInv`,
`PartitionInv` and `ProgressInv` what the driver has done. Assumed: at least
one call, names of calls and hooks among the queue's names, and `Target`
idempotent (where a link leads is a real path).

**`DurableLockProofs`.** `LockOwnershipKept` (`OwnershipNeverLost`) and
`LockExcludes`, for every set of processes and any depth of gates. The
invariant: directories have different tokens, and for every live process
`PathDead` (the gate it works on is named after tokens of the dead, so whatever
still bears one of these tokens may be removed) and `Secure` (what it relies on
at each step; after `Reread` that the lock it is about to retire is still the
one it compared). The last is stable because only the holder of the gate named
after an owner retires that owner's lock, and gates are locks of the same kind.

**`RunJournalProofs`.** Its five theorems are the run's five invariants:
`JournalSound`, `AcknowledgedKept`, `RecoversOnlyDeadRuns`,
`RevisionNeverBlocks`, `SameSession`. The first two are kept together: a
process that accepted a head may append only if the journal still extends it.
The others need `RunsCounted` (a run's number is used once), `IdsOwned` (who
has made a session that is not on disk is alone with it), `RevisionsBehind` (no
record is ahead of the session it names) and `OneSession`. The journal's and
session file's lock is assumed to exclude, as `DurableLockProofs` shows of it;
the lease likewise has at most one live owner.

**`AgentRunProofs`.** `ContextMirrors` (`ContextMirrorsMessages`) follows from
`ContextInv`, which is about every point of the loop: the context is the
transcript, except that a run begins with its prompts in the context, and
publishes them one by one. `MessagesStayAccounted` (`MessagesAccounted`) counts
the places of a message, so its invariant keeps books. `Books` says of the
transcript, the pending messages and the two queues that each number given out
is counted once over all four, or not at all if it is gone (`Balanced`), and
that messages queued in the same way are in order, within each and from one to
the next (`InOrder`), which is what makes the transcript's order stable when
more is drained. One lemma for each way a message moves (`BooksSteer`,
`BooksPublish`, `BooksDrainSteering`, `BooksThrow`, ...) keeps them; the actions
are then only matched with these lemmas. `PendingInv` is needed on the way:
messages are drained only when none is pending, or the new ones would replace
the old. What a batch or the closure of a failed run appends is typed through
`only`. Assumed are the two queue modes and natural bounds.

`IdleTranscriptSound` (`SoundWhenIdle`) speaks of what inspection reports, which
is about the whole transcript at once. Its invariant `SoundInv` is stated with
`Awaiting(t, P)`: `t` is sound but for the calls `P`, whose results are still to
come. That is what inspection looks for, in a form that one more message keeps:
no call id and no result twice, the left-to-right pass never stops and ends with
`P` pending (`Passes`), and `P` belongs to the last assistant message, which only
its results follow (`OpenTail`). `AwaitingVerdict` says what inspection then
reports, the missing results of `P` and nothing else, and `AwaitingRepair` that
the repair appends one result for each of them. `SoundInv` gives `P` for every
point of the loop: none between turns, the reply's calls while their batch runs,
those of the results not yet published, and whatever is left when a run fails,
until `planFailureTermination` has closed it. A reply is where the exception for
repeated ids is needed: if inspection does not find the new transcript ambiguous
the reply's calls are fresh (`UnambiguousOnce`), and the batch answers each of
them once in whatever order it finalizes them (`BatchResults`). `ContextInv` is
used here, since the loop takes the calls from its own copy.

**`SessionCompactionProofs`.** `SummaryStandsOnItsBranch`
(`SummaryCoversBranch`), `CompactedOnce` (`SourceCompactedOnce`) and
`CompactionDoesNotThrash` (`NoThrashing`). `TreeInv` (a parent is an earlier
entry) makes branches settled: an append changes no branch there was
(`BranchSettled`), so a summary that passes the comparison of revisions stands
on the branch it was captured from (`CapturedInv`). `NoThrashing` needs where
the chain of a prompt is (`ChainInv`), that an armed threshold saw low usage
(`ThresholdInv`), and that an overflow compacted for is remembered until a user
message or a reply that is no error (`OverflowInv`).

`CompactionsKeepTurns` (`CompactionKeepsTurns`) and `ContextFollows`
(`ContextFollowsSession`) are about what `buildSessionContext` returns, through
`only`, `wayUp` and the latest compaction, so they need what these compute for
every session. That is by induction over the length of a sequence or over the
entries, with `Inductively`: a set of naturals that has every number all of
whose predecessors it has is `Nat`. It follows from `NatLessThanWellFounded`
and takes a set where the library's own induction theorem takes an operator.
The lemmas then say how a context changes when its branch grows by one entry
(`ContextGrows`), at a compaction (`ContextCut`), and that it is settled by
appends elsewhere (`ContextSettled`). The sequences are kept behind `cat`, `one`
and `part`, which are opened only in the lemmas about them.

`CompactionsKeepTurns` needs `TurnsInv`: what a compaction keeps first is on the
branch it was made from (`FirstOnBranch`), which is where `buildSessionContext`
looks for it. The cut itself is `CutKeeps`: the transcript in
front of it is closed because the barrier accepted it, the kept part starts at
no result, and a closed transcript cut there is closed again. That
`agent.continue()` accepts what is there when it is asked (`RetriesNext`) follows:
the agent's messages after a commit start with the summary and do not end with a
call, since the retry drops nothing but an error from a closed transcript
(`CommitContinues`), and until the run starts only `compact()` may replace them,
with another commit.

`ContextFollows` needs `ConversationInv`, which has `TurnsInv` and three parts
more. `MirrorInv` is the property at every point of a run and not only when all
is idle: if each message of the agent has been written, what was said in them is
what the session would resume with. It is not inductive alone. A recovery from
an overflow drops the last message of the agent and retries, and would lose an
answer that did not overflow if that was last; `RecoverInv` says it is not,
neither in the messages nor in what would be resumed, and that it is still so when the
compaction in between commits. `MessagesInv` is that the messages and entries
are of the kinds there are and that `compact()` neither repairs a tail nor
retries, which only the automatic compaction does.

**`ReplayLedgerStoreProofs`.** `AcknowledgedEventsSurvive`
(`AcknowledgedSurvive`), `StoreReadsItself` (`NeverRefusesItself`),
`ChainStaysLinear` (`ChainLinear`) and `RollbacksKeepEvidence`
(`RollbackKeepsEvidence`). The invariant is about every state a power failure
may leave of the directory (`DirsSound`): either it has no head, and then the
ledger is empty and nothing was acknowledged, or its head commits a prefix of
the ledger that is the same in memory and on disk, made of whole lines chained
one to the other with increasing events, and holds everything acknowledged.
`OpInv` says what the operation under way has done by each of its calls. The
order in which `append` syncs data, renames the head and syncs the directory is
what keeps `DirsSound`. It is over a lock that excludes, and over a file system
that loses bytes and does not change them.

The lock that the store takes for granted is proved in the same module, which
extends `ReplayLedgerLock` too (`LockSpec`). `LockTypes` is its type invariant.
`LockExcludes` and `LockReleasedByOwner` are conditional: `LockSpec` lets any
number of processes into the gate, and the theorems are about its behaviours with
`[]GateExcludes`. They follow from `LockInv`: a holder's record is the linked one,
and a process that is about to remove a record sees the record it compared, whose
owner is dead. Both parts are stable only because a record is linked and removed
inside the gate. The hypothesis is what `gate_three` checks of `MutationGate` for
three processes; `gate_four` refutes it for a dead holder and three live
processes, and then the theorems say nothing of the lock. `GatedLock` is the link
to the run: a behaviour of `GatedSpec`, which `lock_safety` checks, is one of
`LockSpec` with the hypothesis.

Only model-checked:

* liveness (`BatchEnds`, `RunEnds`, `MutationsSettle`, `DeadOwnersReclaimed`,
  `GateProgress`, `LockProgress`), which this prover does not do;
* `InspectionExact`, `RepairExact` and `EndingsRecorded`, which compare the
  transcript and termination algorithms with reference definitions, the first
  two over bounded transcripts, the last over all the endings there are;
  `AwaitingVerdict` and `AwaitingRepair` cover the transcripts that an
  agent without a scar has, not all of them;
* `GateExclusive` of `MutationGate`, which holds for three processes and not
  for four.

## Not modelled

Inside the modelled components:

* `ToolBatch`: streaming updates of a tool; the end events of siblings that
  settle after their batch was abandoned; tools of an abandoned batch that
  overlap the next run.
* `WaveBatch`: the votes to terminate, which are only collected, and throwing
  listeners (`ToolBatch` has them).
* `FileMutationQueue`: names that come to lead elsewhere; files removed by
  somebody else. Its properties except mutations queued under a link to a
  missing file: such a link has no real path yet, and the queue then keys it by
  its own name.
* `AgentRun`: partial messages, the `EventStream` wrapper `agentLoop`,
  `prepareNextTurn` replacing the context, and the interleaving of the
  batch's steps with callers (a batch is one step; `ToolBatch` has the inside).
* `DurableLock`: the layer above it that takes one lock for a file's path and
  one for its inode, resolves the file again up to four times and transfers
  locks; pids that are used again; owners on other hosts, which are never
  found dead. A dangling final symlink gets a path key of its own
  (`durable-file-io.ts`, `canonicalizePath`).
* `RunJournal`: `abandon`, which no session calls; a journal written before the
  session file's first flush has no other trace in the model than its records;
  corruption from outside. `RecoversOnlyDeadRuns` and `SameSession` are about
  processes with a lease. Without one, as the shipped `AgentSession` opens the
  store, a second start on a live session does record its run as crashed.
* `SessionCompaction`: the continuation with queued messages (`agent.continue()`
  takes them before it puts in an empty prompt), transient retries
  (`_prepareRetry`), two compactions of the same kind at once, first-kept
  entries chosen by an extension, branch summaries, navigation in the middle of
  a run; token estimation and the summary's text. A prompt that starts while
  `compact()` has disconnected the session (`modes/rpc/rpc-mode.ts:404`) is
  modelled, and `ContextFollowsSession` excepts what it leaves unwritten.
  `abortCompaction()` while `compact()` still waits for the run finds no
  controller and does nothing, as in the code.
* `MutationGate`: fsync; a gate lost to a power failure has no holder left.
* `ReplayLedgerStore`: operations on one directory persist in order; bytes are
  not corrupted or changed from outside, only lost; the lock excludes; a lock
  that leaks because its release failed is taken to be reclaimed.

Whole components, with the reasons in `PROJECT.json`: those that are I/O, text
or scoring (providers, terminal UI, routers, loadouts, context budget,
promptguard), which keep no state that interleaves; vendored and generated
code; and those the plan below still has. They are most of the repository's
lines.

## Plan

1. Done: scheduler, both batch executors, file mutation queue, transcript
   integrity, run loop; durable lock, session file, lease, journal, termination,
   compaction; gate, lock and store of the ledger; proofs about all of them
   except the gate and the pure algorithms.
2. Next theorems: what inspection and repair compute for every transcript
   (`InspectionExact`, `RepairExact`), from the lemmas about the pass and the
   counts that `IdleTranscriptSound` uses.
3. Next models: the identity layer of the durable lock with its two keys;
   receipts and the verified executor; the doctor's repair plan as operators;
   the correctness wall's state machine with its budgets; provider resilience;
   loops. A composition of `MutationGate` and `ReplayLedgerLock` that shows what
   `gate_four` means for the lock.
