--------------------------- MODULE SessionCompaction ---------------------------
(***************************************************************************)
(* Compaction in an AgentSession (packages/coding-agent/src/core/          *)
(* agent-session.ts, compaction/transaction.ts, compaction/hysteresis.ts,  *)
(* prepareCompaction of compaction/compaction.ts) with the session tree it *)
(* works on (session-manager.ts) and the runs that use it.                 *)
(*                                                                         *)
(* compact() (manual) and _runAutoCompaction (auto) each capture the       *)
(* active branch, wait for a summary and commit it by comparing what they  *)
(* captured with what is there by then.  A step is what happens between    *)
(* two awaits.  An entry is its kind and place in the tree; the digest of  *)
(* a source is the list of its entries.  Every "call" makes one tool call. *)
(***************************************************************************)
EXTENDS Naturals, Sequences, FiniteSets, SequencesExt, Selection

CONSTANTS MaxEntries,  \* bound: entries of the session, messages of the agent
          MaxPrompts,  \* bound: prompts
          MaxManual,   \* bound: calls of compact()
          MaxMoves     \* bound: moves of the leaf, entries of extensions and of another process

ASSUME SessionCompactionAssumption == {MaxEntries, MaxPrompts, MaxManual, MaxMoves} \subseteq Nat

VARIABLES
  entries,    \* the entries of the session, in file order
  leaf,       \* leafId: the entry the next one is appended to; 0 is null
  foreign,    \* another process has appended to the session file
  agent,      \* pc, aborting (the run's signal) and messages of the Agent
  connected,  \* this._unsubscribeAgent is set: the session hears the agent's events
  activeRun,  \* this._activeRunId is set: the journal's run is open
  driver,     \* where the chain prompt / _runAgentPrompt / _handlePostAgentRun is
  jobs,       \* the manual and the auto compaction
  armed,      \* _compactionHysteresisState
  tried,      \* _overflowRecoveryAttempted
  spent,      \* prompts, compact() calls and moves so far
  ghost       \* history: low (usage was low since the last commit), overflows (recoveries
              \* since the last user message or reply that was no error)

vars == <<entries, leaf, foreign, agent, connected, activeRun, driver, jobs, armed, tried, spent, ghost>>

(* No message, no compaction. *)
None == [at |-> 0, kind |-> "none"]
NoJob == [pc |-> "none", emergency |-> FALSE, retry |-> FALSE, stopped |-> FALSE, rearmed |-> TRUE,
          base |-> <<>>, branch |-> <<>>, source |-> <<>>]

Init ==
  /\ entries = <<>> /\ leaf = 0 /\ foreign = FALSE
  /\ agent = [pc |-> "idle", aborting |-> FALSE, messages |-> <<>>]
  /\ connected = TRUE /\ activeRun = FALSE
  /\ driver = [at |-> "idle", waiting |-> FALSE, prompting |-> FALSE, last |-> None]
  /\ jobs = [manual |-> NoJob, auto |-> NoJob]
  /\ armed = TRUE /\ tried = FALSE
  /\ spent = [prompts |-> 0, manual |-> 0, moves |-> 0]
  /\ ghost = [low |-> TRUE, overflows |-> 0]

(***************************************************************************)
(* SessionManager: the tree                                                *)
(***************************************************************************)
kind(e) == entries[e].kind
(* The way up from the root to e, by the parents of the entries up to e. *)
wayUp(parents, e) ==
  LET path[i \in 0..e] == IF i = 0 THEN <<>> ELSE Append(path[parents[i]], i) IN path[e]
(* getBranch: the entries from the root to e. *)
branchOf(es, e) == wayUp([i \in 1..e |-> es[i].parent], e)

(* Replies with stopReason "error": the context overflowed, or another.    *)
Errors == {"overflow", "failure"}
(* isContextOverflow: such an error, or a reply without one ("stop" or     *)
(* "length") whose usage is beyond the context window.                     *)
Overflows == {"overflow", "silent"}
Assistants == {"answer", "call", "aborted"} \cup Errors \cup Overflows
Messages == Assistants \cup {"user", "result"}

latestCompaction(es, path) == SelectLastInSeq(path, LAMBDA i : es[i].kind = "compaction")

(* buildSessionContext: the latest summary, what it kept, what came after. *)
buildSessionContext(es, e) ==
  LET path == branchOf(es, e)
      c == latestCompaction(es, path)
      messagesOf(s) == only(s, {i \in DOMAIN es : es[i].kind \in Messages}) IN
  IF c = 0 THEN messagesOf(path)
  ELSE LET first == SelectInSeq(path, LAMBDA i : i = es[path[c]].first) IN
       <<path[c]>> \o messagesOf(SubSeq(path, first, c - 1)) \o messagesOf(SubSeq(path, c + 1, Len(path)))

(* Messages the agent has of entries of the session. *)
loaded(es, ctx) == [i \in DOMAIN ctx |-> [at |-> ctx[i], kind |-> es[ctx[i]].kind]]
(* Mistaken variant: the agent goes on with the messages it has. *)
reloadedNot(es, e) == agent.messages

(* agent.state.messages = buildSessionContext().messages *)
reloaded(es, e) == loaded(es, buildSessionContext(es, e))

kindsOf(es, ctx) == [i \in DOMAIN ctx |-> es[ctx[i]].kind]

entry(k, parent) == [kind |-> k, parent |-> parent, first |-> 0, of |-> <<>>, source |-> <<>>]

(* The entries after appending messages of these kinds, one below another. *)
appended(kinds) ==
  LET n == Len(entries) IN
  entries \o [i \in 1..Len(kinds) |-> entry(kinds[i], IF i = 1 THEN leaf ELSE n + i - 1)]

(***************************************************************************)
(* inspectTranscriptIntegrity, and the barrier                             *)
(***************************************************************************)
broken(kinds) ==
  \/ \E i \in 1..(Len(kinds) - 1) : kinds[i] = "call" /\ kinds[i + 1] # "result"
  \/ \E i \in DOMAIN kinds : kinds[i] = "result" /\ (i = 1 \/ kinds[i - 1] # "call")
openTail(kinds) == kinds # <<>> /\ Last(kinds) = "call"
closed(kinds) == ~broken(kinds) /\ ~openTail(kinds)

branchKinds(es, e) == kindsOf(es, buildSessionContext(es, e))

(* evaluateCompactionBarrier: ready when the branch is closed and no tool  *)
(* is under way.                                                           *)
ready == closed(branchKinds(entries, leaf)) /\ agent.pc # "tool"

(***************************************************************************)
(* _captureCompactionState                                                 *)
(***************************************************************************)
revision == <<Len(entries), foreign, leaf>>

(* The branch from what the latest compaction kept. *)
sourceOf(es, path) ==
  LET c == latestCompaction(es, path) IN
  IF c = 0 THEN path ELSE SubSeq(path, SelectInSeq(path, LAMBDA i : i = es[path[c]].first), Len(path))

(* Mistaken variant: only the compactions of the active branch are known. *)
committedOnBranch(es) ==
  LET path == branchOf(es, leaf) IN {es[i].source : i \in {k \in ToSet(path) : es[k].kind = "compaction"}}

(* _priorCommittedCompactionSourceDigests *)
committed(es) == {es[i].source : i \in {k \in DOMAIN es : es[k].kind = "compaction"}}

(* Mistaken variant: a tool result may be the first entry that is kept. *)
cutPointsAnywhere(es, source) == {i \in ToSet(source) : es[i].kind \in Messages}

(* findCutPoint: sizes decide between the messages that are no results. *)
cutPoints(es, source) ==
  LET cuts == {i \in ToSet(source) : es[i].kind \in Messages \ {"result"}} IN
  IF cuts = {} THEN {Head(source)} ELSE cuts

(***************************************************************************)
(* stepCompactionHysteresis; ratios: 0 is at or below rearmRatio, 2 at or  *)
(* above triggerRatio, 3 at or above emergencyRatio                        *)
(***************************************************************************)
Ratios == 0..3
armedAt(ratio) == armed \/ ratio = 0
compactAt(ratio) == ratio = 3 \/ (armedAt(ratio) /\ ratio >= 2)

(* _recordCompactionCommitForHysteresis *)
armedAfterCommit == FALSE

(***************************************************************************)
(* The chain of a prompt                                                   *)
(***************************************************************************)
(* Where the chain goes after a check: again is _checkCompaction's result. *)
goesOn(again) ==
  [driver EXCEPT
    !.waiting = FALSE, !.last = IF driver.at = "post" THEN None ELSE @,
    !.at = CASE driver.at # "projected" /\ again -> "continue"
             [] driver.at = "pre" \/ (driver.at = "post" /\ driver.prompting) -> "projected"
             [] driver.at = "projected" -> "run"
             [] OTHER -> "idle",
    !.prompting = @ /\ driver.at # "projected"]

Prompt ==
  /\ driver.at = "idle" /\ spent.prompts < MaxPrompts
  /\ spent' = [spent EXCEPT !.prompts = @ + 1]
  /\ driver' = [driver EXCEPT !.at = "pre", !.prompting = TRUE]
  /\ UNCHANGED <<entries, leaf, foreign, agent, connected, activeRun, jobs, armed, tried, ghost>>

(* The assistant message a check looks at. *)
lastOf(kinds) ==
  LET k == SelectLastInSeq(agent.messages, LAMBDA m : m.kind \in kinds) IN
  IF k = 0 THEN None ELSE agent.messages[k]
checked == IF driver.at = "post" THEN driver.last ELSE lastOf(Assistants)

(* Messages from before the latest compaction say nothing about usage now. *)
beforeCompaction(m) ==
  LET path == branchOf(entries, leaf)
      c == latestCompaction(entries, path) IN c # 0 /\ m.at # 0 /\ m.at < path[c]
(* The message whose usage counts for the threshold. *)
usage == IF driver.at = "projected" \/ checked.kind \in Errors
         THEN lastOf({"answer", "call", "silent"}) ELSE checked

endsWithAssistant == agent.messages # <<>> /\ Last(agent.messages).kind \in Assistants

startAuto(job) ==
  /\ jobs' = [jobs EXCEPT !.auto = [job EXCEPT !.pc = "auth"]]
  /\ driver' = [driver EXCEPT !.waiting = TRUE, !.last = IF driver.at = "post" THEN None ELSE @]

(* _checkCompaction in prompt() and after a run, _checkProjectedCompaction *)
(* before a run.  The recovery drops the last answer, error or not.        *)
Check ==
  /\ driver.at \in {"pre", "projected", "post"} /\ ~driver.waiting
  /\ UNCHANGED <<entries, leaf, foreign, connected, activeRun, spent>>
  /\ LET m == checked
         overflow == driver.at # "projected" /\ m.kind \in Overflows
         skipped ==
           \/ driver.at # "projected" /\ (m = None \/ beforeCompaction(m))
           \/ driver.at = "post" /\ m.kind = "aborted"
           \/ beforeCompaction(usage) /\ ~overflow
           \/ driver.at # "projected" /\ usage = None /\ ~overflow
         pass == driver' = goesOn(FALSE) /\ UNCHANGED jobs IN
     \/ skipped /\ pass /\ UNCHANGED <<agent, armed, tried, ghost>>
     \/ ~skipped /\ overflow /\ tried /\ pass /\ UNCHANGED <<agent, armed, tried, ghost>>
     \/ /\ ~skipped /\ overflow /\ ~tried /\ tried' = TRUE /\ UNCHANGED armed
        /\ agent' = [agent EXCEPT !.messages = IF endsWithAssistant THEN Front(@) ELSE @]
        /\ ghost' = [ghost EXCEPT !.overflows = @ + 1]
        /\ startAuto([NoJob EXCEPT !.emergency = TRUE, !.retry = TRUE])
     \/ /\ ~skipped /\ ~overflow /\ UNCHANGED <<agent, tried>>
        /\ \E ratio \in Ratios :
             /\ armed' = armedAt(ratio) /\ ghost' = [ghost EXCEPT !.low = @ \/ ratio = 0]
             /\ IF compactAt(ratio)
                THEN startAuto([NoJob EXCEPT !.emergency = ratio = 3, !.rearmed = ghost'.low])
                ELSE pass

(***************************************************************************)
(* Runs, and what the session hears of them                                *)
(***************************************************************************)
(* message_end of messages of these kinds: the agent has them, and the     *)
(* session appends them if it is connected.                                *)
spoken(kinds, heardBy) ==
  [i \in DOMAIN kinds |-> [at |-> IF heardBy THEN Len(entries) + i ELSE 0, kind |-> kinds[i]]]

say(kinds, a) ==
  /\ Len(agent.messages) + Len(kinds) <= MaxEntries
  /\ agent' = [a EXCEPT !.messages = @ \o spoken(kinds, connected)]
  /\ IF connected /\ kinds # <<>>
     THEN /\ ~foreign /\ Len(entries) + Len(kinds) <= MaxEntries
          /\ entries' = appended(kinds) /\ leaf' = Len(entries')
     ELSE UNCHANGED <<entries, leaf>>

(* _lastAssistantMessage *)
heard(kinds) ==
  LET said == {i \in DOMAIN kinds : kinds[i] \in Assistants} IN
  IF connected /\ said # {} THEN spoken(kinds, TRUE)[CHOOSE i \in said : \A j \in said : j <= i] ELSE driver.last

endRun(kinds) ==
  /\ say(kinds, [agent EXCEPT !.pc = "idle", !.aborting = FALSE])
  /\ activeRun' = (activeRun /\ ~connected)
  /\ driver' = [driver EXCEPT !.at = "post", !.last = heard(kinds)]

agentKinds == [i \in DOMAIN agent.messages |-> agent.messages[i].kind]
sound == closed(agentKinds)
(* planFailureTermination *)
failure(kinds) ==
  IF broken(kinds) THEN <<>> ELSE IF openTail(kinds) THEN <<"result", "failure">> ELSE <<"failure">>

(* Mistaken variant: every run forgets the attempt. *)
attemptedPerRun == tried /\ ~connected

(* The user message a run starts with: that of the prompt, or the empty    *)
(* one that agent.continue() puts in after an assistant message.           *)
opening == IF driver.at = "run" \/ endsWithAssistant THEN <<"user">> ELSE <<>>

(* A user message starts: the attempt to recover was for the one before.   *)
attempted == tried /\ ~(connected /\ opening # <<>>)

(* agent.continue() refuses an empty transcript and one that ends with a   *)
(* call.  It is asked after a commit only, which leaves neither            *)
(* (CompactionKeepsTurns), so the refusal is no action of its own.         *)
continues == agent.messages # <<>> /\ Last(agent.messages).kind # "call"

(* agent_start while a run is active throws; the failure handling of the   *)
(* agent records the error and ends the run that was active.               *)
StartRun ==
  /\ driver.at \in {"run", "continue"} /\ agent.pc = "idle"
  /\ driver.at = "run" \/ continues
  /\ IF connected /\ activeRun
     THEN endRun(failure(agentKinds)) /\ UNCHANGED <<tried, ghost>>
     ELSE /\ say(opening, [agent EXCEPT !.pc = "streaming"])
          /\ activeRun' = (activeRun \/ connected) /\ driver' = [driver EXCEPT !.at = "running"]
          /\ tried' = attempted
          /\ ghost' = [ghost EXCEPT !.overflows = IF opening # <<>> THEN 0 ELSE @]
  /\ UNCHANGED <<foreign, connected, jobs, armed, spent>>

(* The provider answers, calls a tool, or refuses the request; a           *)
(* transcript that is not sound is not sent.                               *)
Reply ==
  /\ agent.pc = "streaming" /\ UNCHANGED <<foreign, connected, jobs, armed, spent>>
  /\ \/ ~sound /\ endRun(<<>>) /\ UNCHANGED <<tried, ghost>>
     \/ /\ sound /\ \E k \in {"answer", "silent"} \cup Errors :
          /\ endRun(<<k>>)
          /\ tried' = (tried /\ ~(connected /\ k \notin Errors))
          /\ ghost' = [ghost EXCEPT !.overflows = IF k \in Errors THEN @ ELSE 0]
     \/ /\ sound /\ ~agent.aborting
        /\ say(<<"call">>, [agent EXCEPT !.pc = "tool"])
        /\ driver' = [driver EXCEPT !.last = heard(<<"call">>)]
        /\ tried' = (tried /\ ~connected) /\ ghost' = [ghost EXCEPT !.overflows = 0]
        /\ UNCHANGED activeRun

ToolResult ==
  /\ agent.pc = "tool" /\ ~agent.aborting
  /\ say(<<"result">>, [agent EXCEPT !.pc = "streaming"])
  /\ UNCHANGED <<foreign, connected, activeRun, driver, jobs, armed, tried, spent, ghost>>

(* The run ends after an abort: open calls are answered, a reply that was  *)
(* under way becomes an aborted one.                                       *)
Aborted ==
  /\ agent.pc # "idle" /\ agent.aborting
  /\ endRun(IF agent.pc = "tool" THEN <<"result">> ELSE <<"aborted">>)
  /\ tried' = (tried /\ ~(connected /\ agent.pc = "streaming"))
  /\ ghost' = [ghost EXCEPT !.overflows = IF agent.pc = "streaming" THEN 0 ELSE @]
  /\ UNCHANGED <<foreign, connected, jobs, armed, spent>>

(* The session file was changed by another process: the listener throws    *)
(* when it appends a message, and again at the first message of the        *)
(* failure handling.  _publishRuntimeFailure closes the run, but not for a *)
(* continuation in prompt()'s own check, whose errors it does not get.     *)
breaking ==
  CASE driver.at \in {"run", "continue"} /\ activeRun -> {<<>>}
    [] driver.at \in {"run", "continue"} -> {opening} \ {<<>>}
    [] agent.pc = "tool" -> {<<"result">>}
    [] agent.pc = "streaming" /\ sound ->
         {<<k>> : k \in IF agent.aborting THEN {"aborted"} ELSE {"answer", "call"} \cup Overflows}
    [] OTHER -> {}

RunBreaks ==
  /\ driver.at \in {"run", "continue", "running"} /\ foreign /\ connected
  /\ \E kinds \in breaking :
       LET plan == failure(agentKinds \o kinds) IN
       /\ agent' = [pc |-> "idle", aborting |-> FALSE,
                    messages |-> agent.messages \o spoken(kinds, FALSE) \o spoken(IF plan = <<>> THEN <<>> ELSE <<Head(plan)>>, FALSE)]
       /\ driver' = IF plan = <<>> THEN [driver EXCEPT !.at = "post"] ELSE [driver EXCEPT !.at = "idle", !.prompting = FALSE]
       /\ tried' = (tried /\ kinds # <<"user">>)
       /\ ghost' = [ghost EXCEPT !.overflows = IF kinds = <<"user">> THEN 0 ELSE @]
       /\ activeRun' = (plan # <<>> /\ driver.prompting /\ (activeRun \/ driver.at # "running"))
  /\ UNCHANGED <<entries, leaf, foreign, connected, jobs, armed, spent>>

(* session.abort() *)
Abort ==
  /\ agent.pc # "idle" /\ ~agent.aborting /\ agent' = [agent EXCEPT !.aborting = TRUE]
  /\ UNCHANGED <<entries, leaf, foreign, connected, activeRun, driver, jobs, armed, tried, spent, ghost>>

(***************************************************************************)
(* The compactions                                                         *)
(***************************************************************************)
(* A compaction ends; again is what _runAutoCompaction returns.  compact() *)
(* reconnects the session, the chain of a prompt goes on after auto.       *)
endJob(j, again) ==
  /\ jobs' = [jobs EXCEPT ![j] = NoJob]
  /\ connected' = (connected \/ j = "manual")
  /\ driver' = IF j = "auto" THEN goesOn(again) ELSE driver

(* compact(): deaf to the agent from here on, it aborts the run. *)
ManualStart ==
  /\ jobs.manual.pc = "none" /\ spent.manual < MaxManual /\ spent' = [spent EXCEPT !.manual = @ + 1]
  /\ connected' = FALSE /\ jobs' = [jobs EXCEPT !.manual = [NoJob EXCEPT !.pc = "abort"]]
  /\ agent' = [agent EXCEPT !.aborting = agent.pc # "idle"]
  /\ UNCHANGED <<entries, leaf, foreign, activeRun, driver, armed, tried, ghost>>

ManualIdle ==
  /\ jobs.manual.pc = "abort" /\ agent.pc = "idle"
  /\ jobs' = [jobs EXCEPT !.manual.pc = "auth"]
  /\ UNCHANGED <<entries, leaf, foreign, agent, connected, activeRun, driver, armed, tried, spent, ghost>>

(* _repairEmergencyCompactionTail: the open tail is closed in the session, *)
(* and the agent takes its messages from there.                            *)
repairs(j) ==
  /\ jobs[j].emergency /\ ~foreign /\ Len(entries) + 2 <= MaxEntries
  /\ LET kinds == branchKinds(entries, leaf) IN ~broken(kinds) /\ openTail(kinds)

captured(j, es, e) ==
  LET path == branchOf(es, e) IN
  [jobs EXCEPT ![j].pc = "summary", ![j].branch = path, ![j].source = sourceOf(es, path),
               ![j].base = <<Len(es), foreign, e>>]

(* _beginCompactionTransaction and prepareCompaction: closed, not yet      *)
(* compacted, and something came after the latest compaction.              *)
Compactable(es, e) ==
  /\ e # 0 /\ es[e].kind # "compaction"
  /\ sourceOf(es, branchOf(es, e)) \notin committed(es)

Begin(j) ==
  /\ jobs[j].pc = "auth" /\ UNCHANGED <<foreign, activeRun, armed, tried, spent, ghost>>
  /\ LET repaired == appended(<<"result", "custom">>)
         es == IF repairs(j) THEN repaired ELSE entries
         e == IF repairs(j) THEN Len(es) ELSE leaf IN
     /\ entries' = es /\ leaf' = e
     /\ agent' = IF repairs(j) THEN [agent EXCEPT !.messages = reloaded(es, e)] ELSE agent
     /\ IF (repairs(j) \/ ready) /\ Compactable(es, e)
        THEN jobs' = captured(j, es, e) /\ UNCHANGED <<connected, driver>>
        ELSE endJob(j, FALSE)

(* No model, no authentication, an extension's veto or a failing provider. *)
JobFails(j) ==
  /\ jobs[j].pc \in {"auth", "summary"} /\ endJob(j, FALSE)
  /\ UNCHANGED <<entries, leaf, foreign, agent, activeRun, armed, tried, spent, ghost>>

(* Mistaken variant: the leaf is not part of the revision. *)
unchangedButLeaf(j) == jobs[j].base[1] = Len(entries) /\ jobs[j].base[2] = foreign

(* decideCompactionCommit: the revision and the source are the captured.   *)
unchanged(j) == jobs[j].base = revision /\ jobs[j].source = sourceOf(entries, branchOf(entries, leaf))

(* _commitCompaction, under the session's lock: compare and append. *)
Commit(j) ==
  /\ jobs[j].pc = "summary" /\ UNCHANGED <<foreign, activeRun, tried, spent>>
  /\ IF ~jobs[j].stopped /\ leaf # 0 /\ ready /\ jobs[j].source \notin committed(entries) /\ unchanged(j) /\ ~foreign
     THEN /\ Len(entries) < MaxEntries
          /\ \E first \in cutPoints(entries, jobs[j].source) :
               entries' = Append(entries, [entry("compaction", leaf) EXCEPT
                                             !.first = first, !.of = jobs[j].branch, !.source = jobs[j].source])
          /\ leaf' = Len(entries')
          /\ LET ctx == buildSessionContext(entries', leaf')
                 drop == jobs[j].retry /\ entries'[Last(ctx)].kind \in Errors IN
             agent' = [agent EXCEPT !.messages = loaded(entries', IF drop THEN Front(ctx) ELSE ctx)]
          /\ armed' = armedAfterCommit /\ ghost' = [ghost EXCEPT !.low = FALSE]
          /\ endJob(j, jobs[j].retry)
     ELSE endJob(j, FALSE) /\ UNCHANGED <<entries, leaf, agent, armed, ghost>>

(* abortCompaction(): the controllers that exist are aborted. *)
AbortCompaction ==
  /\ \E j \in {"manual", "auto"} : jobs[j].pc \in {"auth", "summary"} /\ ~jobs[j].stopped
  /\ jobs' = [j \in {"manual", "auto"} |-> [jobs[j] EXCEPT !.stopped = @ \/ jobs[j].pc \in {"auth", "summary"}]]
  /\ UNCHANGED <<entries, leaf, foreign, agent, connected, activeRun, driver, armed, tried, spent, ghost>>

(***************************************************************************)
(* Everybody else                                                          *)
(***************************************************************************)
move == spent.moves < MaxMoves /\ spent' = [spent EXCEPT !.moves = @ + 1]

(* navigateTree without a summary: to before a user message, or to any     *)
(* other entry; the agent's messages follow.  A run's end and the check    *)
(* after it are one step for everybody else.                               *)
NavigateTree(e) ==
  /\ move /\ e # leaf /\ (driver.at \in {"idle", "pre", "projected"} \/ driver.waiting)
  /\ leaf' = IF kind(e) = "user" THEN entries[e].parent ELSE e
  /\ agent' = [agent EXCEPT !.messages = reloaded(entries, leaf')]
  /\ UNCHANGED <<entries, foreign, connected, activeRun, driver, jobs, armed, tried, ghost>>

(* appendCustomEntry of an extension. *)
CustomEntry ==
  /\ move /\ ~foreign /\ Len(entries) < MaxEntries
  /\ entries' = appended(<<"custom">>) /\ leaf' = Len(entries')
  /\ UNCHANGED <<foreign, agent, connected, activeRun, driver, jobs, armed, tried, ghost>>

(* Another process appends to the session file. *)
Foreign ==
  /\ move /\ ~foreign /\ foreign' = TRUE
  /\ UNCHANGED <<entries, leaf, agent, connected, activeRun, driver, jobs, armed, tried, ghost>>

Next ==
  \/ Prompt \/ Check \/ StartRun \/ Reply \/ ToolResult \/ Aborted \/ RunBreaks \/ Abort
  \/ ManualStart \/ ManualIdle \/ AbortCompaction
  \/ \E j \in {"manual", "auto"} : Begin(j) \/ JobFails(j) \/ Commit(j)
  \/ (\E e \in DOMAIN entries : NavigateTree(e)) \/ CustomEntry \/ Foreign

Spec == Init /\ [][Next]_vars
--------------------------------------------------------------------------------
Compactions == {i \in DOMAIN entries : kind(i) = "compaction"}

(* A summary stands on exactly the branch it was made from, however the    *)
(* session changed while it was being written.                             *)
SummaryCoversBranch == \A c \in Compactions : entries[c].of = branchOf(entries, entries[c].parent)

(* No source is compacted twice, on whatever branch and by whichever of    *)
(* the two compactions.                                                    *)
SourceCompactedOnce == \A c, d \in Compactions : entries[c].source = entries[d].source => c = d

(* The two parts of CompactionKeepsTurns. *)
SummariesClosed == \A c \in Compactions : closed(branchKinds(entries, c))
RetriesAccepted == driver.at = "continue" => continues

(* What a compaction leaves to be sent is a closed transcript, and when    *)
(* the run is to be retried, agent.continue() accepts what the agent has.  *)
CompactionKeepsTurns == SummariesClosed /\ RetriesAccepted

(* Compaction does not run in circles: a threshold compaction starts only  *)
(* after usage has been low again since the last commit, emergencies       *)
(* aside, and an overflow gets one compact-and-retry until there is a user *)
(* message or a reply that is no error.  An overflow without an error is   *)
(* such a reply itself, and its retry starts with a user message that      *)
(* continue() puts in: recoveries from these may follow one another.       *)
NoThrashing ==
  /\ jobs.auto.pc # "none" /\ ~jobs.auto.emergency => jobs.auto.rearmed
  /\ ghost.overflows <= 1

(* When nothing is under way, the agent's conversation is the one that the *)
(* session would resume with, unless a run went on while compact() had     *)
(* disconnected the session.  Left out of both are errors, and answers     *)
(* that overflowed without one: the recovery drops such an answer from the *)
(* agent, and when its compaction fails the agent goes on without it.      *)
ContextFollowsSession ==
  LET said(s) == only(s, {m \in ToSet(s) : m.kind \notin Errors \cup Overflows}) IN
  /\ agent.pc = "idle" /\ driver.at = "idle" /\ jobs.auto.pc = "none"
  /\ \A i \in DOMAIN agent.messages : agent.messages[i].at # 0
  => said(agent.messages) = said(loaded(entries, buildSessionContext(entries, leaf)))

(* Each run the journal has open is under way: a run that ended has its    *)
(* run_finished record.                                                    *)
RunsFinished == activeRun /\ connected => agent.pc # "idle"
================================================================================
