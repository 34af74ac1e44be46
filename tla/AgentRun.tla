------------------------------- MODULE AgentRun -------------------------------
(***************************************************************************)
(* One agent and its runs: the Agent class (packages/agent/src/agent.ts)   *)
(* with its steering and follow-up queues, and the turn loop it drives     *)
(* (runLoop in packages/agent/src/agent-loop.ts).  A step is what happens  *)
(* between two awaits; callers may queue messages, clear the queues, reset *)
(* or abort at every await.  The tool batch of a turn is one step here and *)
(* a module of its own in ToolBatch.                                       *)
(*                                                                         *)
(* The agent keeps the transcript twice: messages is the Agent's, reduced  *)
(* from message_end events; context is the loop's, sent to the provider.   *)
(***************************************************************************)
EXTENDS TranscriptIntegrity

CONSTANTS steeringMode, followUpMode,  \* QueueMode: "all" or "one-at-a-time"
          MaxMessages,  \* bound: messages queued or prompted by callers
          MaxRuns,      \* bound: runs started
          MaxCalls,     \* bound: tool calls the provider asks for with a fresh id
          MaxThrows     \* bound: errors thrown by listeners, hooks or the provider

QueueMode == {"all", "one-at-a-time"}
ASSUME AgentRunAssumption ==
  /\ steeringMode \in QueueMode /\ followUpMode \in QueueMode
  /\ {MaxMessages, MaxRuns, MaxCalls, MaxThrows} \subseteq Nat

VARIABLES
  messages,   \* this._state.messages
  context,    \* currentContext.messages of the loop
  steering,   \* steeringQueue
  followUps,  \* followUpQueue
  pending,    \* the prompts to publish, then pendingMessages
  todo,       \* the tool results and failure message still to publish
  pc,         \* where the loop is; "idle" when there is no activeRun
  flags,      \* skip: skipInitialSteeringPoll, more: hasMoreToolCalls,
              \* stop: stopAfterToolBatch, aborted: the signal of the run
  next,       \* messages created so far
  runs,       \* runs started so far
  calls,      \* call ids the provider has used
  throws,     \* errors thrown so far
  ghost       \* history: dropped (messages removed on request), lost (messages drained and
              \* then lost to an error), scars (why the transcript may be broken)

vars == <<messages, context, steering, followUps, pending, todo, pc, flags, next, runs, calls, throws, ghost>>
callers == <<steering, followUps, next>>
bounds == <<runs, calls, throws>>

(* What a run starts with, and what is left of it when it is over. *)
fresh == [skip |-> FALSE, more |-> TRUE, stop |-> FALSE, aborted |-> FALSE]
finishRun(ghosts) ==
  /\ pc' = "idle" /\ context' = <<>> /\ pending' = <<>> /\ todo' = <<>> /\ flags' = fresh
  /\ ghost' = ghosts

Init ==
  /\ messages = <<>> /\ context = <<>> /\ steering = <<>> /\ followUps = <<>>
  /\ pending = <<>> /\ todo = <<>> /\ pc = "idle"
  /\ flags = fresh
  /\ next = 0 /\ runs = 0 /\ calls = 0 /\ throws = 0
  /\ ghost = [dropped |-> {}, lost |-> {}, scars |-> {}]

(* Mistaken variant: the newest message is taken. *)
drainedNewest(queue, mode) == IF mode = "all" \/ queue = <<>> THEN queue ELSE <<Last(queue)>>

(* PendingMessageQueue.drain: what is taken and what stays. *)
drained(queue, mode) == IF mode = "all" \/ queue = <<>> THEN queue ELSE <<Head(queue)>>
rest(queue, mode) == IF mode = "all" \/ queue = <<>> THEN <<>> ELSE Tail(queue)

-----------------------------------------------------------------------------
(* What callers may do at any time. *)
steer ==
  /\ next < MaxMessages /\ next' = next + 1
  /\ steering' = Append(steering, user(<<"steer", next>>))
  /\ UNCHANGED <<messages, context, followUps, pending, todo, pc, flags, bounds, ghost>>

followUp ==
  /\ next < MaxMessages /\ next' = next + 1
  /\ followUps' = Append(followUps, user(<<"followUp", next>>))
  /\ UNCHANGED <<messages, context, steering, pending, todo, pc, flags, bounds, ghost>>

clearAllQueues ==
  /\ steering \o followUps # <<>> /\ steering' = <<>> /\ followUps' = <<>>
  /\ ghost' = [ghost EXCEPT !.dropped = @ \union ToSet(steering \o followUps)]
  /\ UNCHANGED <<messages, context, pending, todo, pc, flags, next, bounds>>

(* reset() does not look for an active run: the loop's context survives it. *)
(* (On an empty transcript it is clearAllQueues.)                          *)
reset ==
  /\ messages # <<>> /\ messages' = <<>> /\ steering' = <<>> /\ followUps' = <<>>
  /\ ghost' = [ghost EXCEPT !.dropped = @ \union ToSet(steering \o followUps \o messages),
                            !.scars = IF pc = "idle" THEN {} ELSE @ \union {"reset"}]
  /\ UNCHANGED <<context, pending, todo, pc, flags, next, bounds>>

abort ==
  /\ pc # "idle" /\ ~flags.aborted /\ flags' = [flags EXCEPT !.aborted = TRUE]
  /\ UNCHANGED <<messages, context, callers, pending, todo, pc, bounds, ghost>>

-----------------------------------------------------------------------------
(* runWithLifecycle: the run starts in the same step as the caller's check *)
(* of activeRun, on a snapshot of the transcript.                          *)
begin(prompts, skip) ==
  /\ pc = "idle" /\ runs < MaxRuns /\ runs' = runs + 1
  /\ pc' = "prompts" /\ pending' = prompts /\ context' = messages \o prompts
  /\ flags' = [fresh EXCEPT !.skip = skip]
  /\ UNCHANGED <<messages, todo, calls, throws, ghost>>

prompt ==
  /\ next < MaxMessages /\ next' = next + 1
  /\ begin(<<user(<<"prompt", next>>)>>, FALSE)
  /\ UNCHANGED <<steering, followUps>>

(* continue() from an assistant message: queued steering, else queued      *)
(* follow-ups, else an empty prompt; pending tool calls are an error.      *)
continueFromAssistant ==
  /\ messages # <<>> /\ Last(messages).role = "assistant"
  /\ \/ /\ steering # <<>>
        /\ begin(drained(steering, steeringMode), TRUE)
        /\ steering' = rest(steering, steeringMode) /\ UNCHANGED <<followUps, next>>
     \/ /\ steering = <<>> /\ followUps # <<>>
        /\ begin(drained(followUps, followUpMode), FALSE)
        /\ followUps' = rest(followUps, followUpMode) /\ UNCHANGED <<steering, next>>
     \/ /\ steering \o followUps = <<>> /\ Last(messages).calls = <<>>
        /\ next < MaxMessages /\ next' = next + 1
        /\ begin(<<user(<<"prompt", next>>)>>, FALSE)
        /\ UNCHANGED <<steering, followUps>>

(* runContinuation: a transcript that is not sound fails inside the run. *)
continueFromResult ==
  /\ messages # <<>> /\ Last(messages).role # "assistant"
  /\ pc = "idle" /\ runs < MaxRuns /\ runs' = runs + 1
  /\ pc' = (IF ok(messages) THEN "prompts" ELSE "fail") /\ pending' = <<>> /\ context' = messages
  /\ UNCHANGED <<messages, calls, throws, callers, todo, flags, ghost>>

-----------------------------------------------------------------------------
(* A listener or a hook throws at an await of the loop: the run fails with *)
(* what was published so far; the drained messages are gone.  At an        *)
(* emitted message it may be the message_start listener or the message_end *)
(* listener, which runs after the message is recorded.                     *)
Loop == {"prompts", "poll", "turn", "inject", "request", "stream", "streamAborted", "batch", "results",
         "turnEnd", "followUps", "ending"}
publishing == IF pc \in {"prompts", "inject"} THEN pending ELSE IF pc = "results" THEN todo ELSE <<>>

throw ==
  /\ pc \in Loop /\ throws < MaxThrows /\ throws' = throws + 1
  /\ \/ UNCHANGED messages
     \/ publishing # <<>> /\ messages' = Append(messages, Head(publishing))
  /\ pc' = "fail" /\ pending' = <<>> /\ todo' = <<>>
  /\ ghost' = [ghost EXCEPT !.lost = @ \union (ToSet(pending) \ ToSet(messages'))]
  /\ UNCHANGED <<context, callers, flags, runs, calls>>

(* runAgentLoop publishes the prompts; they are in the context already. *)
publishPrompt ==
  /\ pc = "prompts"
  /\ IF pending = <<>> THEN pc' = "poll" /\ UNCHANGED <<messages, pending>>
     ELSE /\ messages' = Append(messages, Head(pending)) /\ pending' = Tail(pending)
          /\ UNCHANGED pc
  /\ UNCHANGED <<context, callers, todo, flags, bounds, ghost>>

(* getSteeringMessages, before the first turn and after every turn. *)
pollSteering ==
  /\ pc = "poll" /\ pc' = "turn"
  /\ pending' = (IF flags.skip THEN <<>> ELSE drained(steering, steeringMode))
  /\ steering' = (IF flags.skip THEN steering ELSE rest(steering, steeringMode))
  /\ flags' = [flags EXCEPT !.skip = FALSE]
  /\ UNCHANGED <<messages, context, followUps, next, todo, bounds, ghost>>

(* Mistaken variant: nothing ends the loop. *)
turnStartPollsForever ==
  /\ pc = "turn" /\ pc' = IF flags.more \/ pending # <<>> THEN "inject" ELSE "poll"
  /\ UNCHANGED <<messages, context, callers, pending, todo, flags, bounds, ghost>>

turnStart ==
  /\ pc = "turn"
  /\ pc' = IF flags.more \/ pending # <<>> THEN "inject" ELSE "followUps"
  /\ UNCHANGED <<messages, context, callers, pending, todo, flags, bounds, ghost>>

(* Mistaken variant: the injected message does not reach the context. *)
injectOnlyPublishes ==
  /\ pc = "inject"
  /\ IF pending = <<>> THEN pc' = "request" /\ UNCHANGED <<messages, context, pending>>
     ELSE /\ messages' = Append(messages, Head(pending)) /\ pending' = Tail(pending)
          /\ UNCHANGED <<pc, context>>
  /\ UNCHANGED <<callers, todo, flags, bounds, ghost>>

injectPending ==
  /\ pc = "inject"
  /\ IF pending = <<>> THEN pc' = "request" /\ UNCHANGED <<messages, context, pending>>
     ELSE /\ messages' = Append(messages, Head(pending)) /\ pending' = Tail(pending)
          /\ context' = Append(context, Head(pending)) /\ UNCHANGED pc
  /\ UNCHANGED <<callers, todo, flags, bounds, ghost>>

(* streamAssistantResponse refuses an unsound transcript, then asks. *)
requestProvider ==
  /\ pc = "request"
  /\ pc' = IF ~ok(context) THEN "fail" ELSE IF flags.aborted THEN "streamAborted" ELSE "stream"
  /\ UNCHANGED <<messages, context, callers, pending, todo, flags, bounds, ghost>>

(***************************************************************************)
(* The provider's reply: up to two calls with fresh ids, or an id it has   *)
(* used before, or the same id twice.  A request made with an aborted      *)
(* signal is answered by an aborted message, one that was under way when   *)
(* the signal came may still complete.                                     *)
(***************************************************************************)
Replies == {<<>>} \union {[i \in 1..n |-> calls + i] : n \in 1..2}
           \union {<<calls + 1, calls + 1>>} \union (IF calls = 0 THEN {} ELSE {<<1>>})
StopReasons == {"stop", "error", "aborted"}

receive(cs) ==
  /\ pc \in {"stream", "streamAborted"} /\ cs \in Replies
  /\ calls' = Max({calls} \union ToSet(cs)) /\ calls' <= MaxCalls
  /\ messages' = Append(messages, assistant("reply", cs))
  /\ ghost' = [ghost EXCEPT !.scars = IF ambiguous(messages') THEN @ \union {"duplicate"} ELSE @]
  /\ UNCHANGED <<callers, pending, runs>>

(***************************************************************************)
(* runLoop after the reply: ambiguous calls are refused; a reply cut short *)
(* by an error or an abort has its calls closed and ends the run; other    *)
(* calls are executed.                                                     *)
(***************************************************************************)
respond(cs, stop) ==
  /\ receive(cs) /\ context' = Append(context, assistant("reply", cs))
  /\ stop = "aborted" => flags.aborted
  /\ pc = "streamAborted" => stop = "aborted"
  /\ IF ambiguous(context') THEN pc' = "fail" /\ UNCHANGED <<todo, flags>>
     ELSE /\ todo' = (IF stop # "stop" THEN [i \in DOMAIN cs |-> toolResult(cs[i])] ELSE <<>>)
          /\ pc' = (IF stop # "stop" THEN "results" ELSE IF cs = <<>> THEN "turnEnd" ELSE "batch")
          /\ flags' = [flags EXCEPT !.more = FALSE, !.stop = stop # "stop"]
  /\ UNCHANGED throws

(* The reply is recorded and a message_end listener throws. *)
respondThrows(cs) ==
  /\ receive(cs) /\ throws < MaxThrows /\ throws' = throws + 1
  /\ pc' = "fail" /\ UNCHANGED <<context, todo, flags>>

(***************************************************************************)
(* executeToolCalls and closeAbortedToolBatch: one result per call, in     *)
(* source order; after an abort, the calls left without one come last.     *)
(* terminate and stopRun are the batch's verdict.                          *)
(***************************************************************************)
executeToolCalls(finalized, terminate, stopRun) ==
  LET cs == Last(context).calls
      order == only(cs, finalized) \o only(cs, ToSet(cs) \ finalized)
  IN  /\ pc = "batch" /\ pc' = "results"
      /\ finalized \subseteq ToSet(cs) /\ (~flags.aborted => finalized = ToSet(cs))
      /\ todo' = [i \in DOMAIN order |-> toolResult(order[i])]
      /\ flags' = [flags EXCEPT !.more = ~terminate, !.stop = stopRun]
      /\ UNCHANGED <<messages, context, callers, pending, bounds, ghost>>

publishResult ==
  /\ pc = "results"
  /\ IF todo # <<>>
     THEN /\ messages' = Append(messages, Head(todo)) /\ context' = Append(context, Head(todo))
          /\ todo' = Tail(todo) /\ UNCHANGED <<pc, flags>>
     ELSE /\ pc' = "turnEnd" /\ flags' = [flags EXCEPT !.stop = @ \/ flags.aborted]
          /\ UNCHANGED <<messages, context, todo>>
  /\ UNCHANGED <<callers, pending, bounds, ghost>>

(* turn_end; unless the run stops here, prepareNextTurn and                *)
(* shouldStopAfterTurn, which may stop it too.                             *)
turnEnd ==
  /\ pc = "turnEnd" /\ pc' \in (IF flags.stop THEN {"ending"} ELSE {"poll", "ending"})
  /\ UNCHANGED <<messages, context, callers, pending, todo, flags, bounds, ghost>>

(* Mistaken variant: what is drained is not taken off the queue. *)
pollFollowUpsPeeks ==
  /\ pc = "followUps" /\ pending' = drained(followUps, followUpMode)
  /\ pc' = (IF pending' = <<>> THEN "ending" ELSE "turn")
  /\ flags' = [flags EXCEPT !.more = TRUE]
  /\ UNCHANGED <<messages, context, callers, todo, bounds, ghost>>

(* The loop would stop: follow-ups start it again. *)
pollFollowUps ==
  /\ pc = "followUps" /\ pending' = drained(followUps, followUpMode)
  /\ followUps' = rest(followUps, followUpMode)
  /\ pc' = (IF pending' = <<>> THEN "ending" ELSE "turn")
  /\ flags' = [flags EXCEPT !.more = TRUE]
  /\ UNCHANGED <<messages, context, steering, next, todo, bounds, ghost>>

(* agent_end is published and finishRun makes the agent idle. *)
agentEnd ==
  /\ pc = "ending" /\ finishRun(ghost)
  /\ UNCHANGED <<messages, callers, bounds>>

-----------------------------------------------------------------------------
(* Mistaken variant: only the failure message is published. *)
planFailureOnly ==
  /\ pc = "fail" /\ pc' = "closing" /\ context' = <<>> /\ pending' = <<>>
  /\ todo' = <<assistant("failure", <<>>)>>
  /\ UNCHANGED <<messages, callers, flags, bounds, ghost>>

(* handleRunFailure.  The plan closes a transcript that can be closed and  *)
(* adds a failure message; over any other transcript it adds nothing.      *)
planFailureTermination ==
  /\ pc = "fail" /\ pc' = "closing" /\ context' = <<>> /\ pending' = <<>>
  /\ todo' = (IF repairable(messages)
              THEN closureResults(messages) \o <<assistant("failure", <<>>)>> ELSE <<>>)
  /\ UNCHANGED <<messages, callers, flags, bounds, ghost>>

publishClosure ==
  /\ pc = "closing"
  /\ IF todo # <<>>
     THEN /\ messages' = Append(messages, Head(todo)) /\ todo' = Tail(todo)
          /\ UNCHANGED <<pc, context, pending, flags, ghost>>
     ELSE finishRun(ghost) /\ UNCHANGED messages
  /\ UNCHANGED <<callers, bounds>>

(* A listener throws again: the rest of the plan is dropped, the run is    *)
(* over and the caller gets the error.                                     *)
closureThrows ==
  /\ pc = "closing" /\ throws < MaxThrows /\ throws' = throws + 1
  /\ \/ UNCHANGED messages
     \/ todo # <<>> /\ messages' = Append(messages, Head(todo))
  /\ finishRun([ghost EXCEPT !.scars = IF ok(messages') THEN @ ELSE @ \union {"closure"}])
  /\ UNCHANGED <<callers, runs, calls>>

Callers == steer \/ followUp \/ clearAllQueues \/ reset \/ abort
Starts == prompt \/ continueFromAssistant \/ continueFromResult
Loops ==
  \/ publishPrompt \/ pollSteering \/ turnStart \/ injectPending \/ requestProvider
  \/ \E cs \in Replies, stop \in StopReasons : respond(cs, stop)
  \/ \E finalized \in SUBSET (1..MaxCalls), t, s \in BOOLEAN : executeToolCalls(finalized, t, s)
  \/ publishResult \/ turnEnd \/ pollFollowUps \/ agentEnd
  \/ planFailureTermination \/ publishClosure
Throws == throw \/ (\E cs \in Replies : respondThrows(cs)) \/ closureThrows

Next == Callers \/ Starts \/ Loops \/ Throws

Spec == Init /\ [][Next]_vars

(* The loop is never blocked for good: providers answer, hooks and         *)
(* listeners settle, and batches end, that is, no tool without a timer     *)
(* hangs in a run that nobody aborts (ToolBatch!BatchEnds).                *)
FairSpec == Spec /\ WF_vars(Loops)

-----------------------------------------------------------------------------

(***************************************************************************)
(* Whatever failed, was aborted or was queued on the way, an idle agent    *)
(* has a transcript that the provider accepts, so that the next prompt can *)
(* run.  The exceptions are named by scars: the provider repeated a call   *)
(* id, reset() came in the middle of a run, or a listener threw again      *)
(* while the failed run was being closed.                                  *)
(***************************************************************************)
SoundWhenIdle == pc = "idle" /\ ghost.scars = {} => ok(messages)

(***************************************************************************)
(* The provider is asked about the transcript that listeners saw: at every *)
(* request the loop's context and the agent's messages, kept by different  *)
(* code, are equal.                                                        *)
(***************************************************************************)
ContextMirrorsMessages ==
  pc \in {"request", "stream", "batch"} /\ "reset" \notin ghost.scars => context = messages

(***************************************************************************)
(* A message a caller handed over is in one place only, a queue, the loop  *)
(* or the transcript, and disappears only when it is cleared or when a run *)
(* fails between draining it and recording it.  The messages of a queue    *)
(* reach the transcript in the order they were queued, in either queue     *)
(* mode and across runs.                                                   *)
(***************************************************************************)
places == steering \o followUps \o pending \o messages
numbered(t, n) == {i \in DOMAIN t : t[i].role = "user" /\ t[i].id[2] = n}
MessagesAccounted ==
  /\ \A n \in 0..(next - 1) :
       LET gone == \E m \in ghost.dropped \union ghost.lost : m.role = "user" /\ m.id[2] = n
       IN  Cardinality(numbered(places, n)) = (IF gone THEN 0 ELSE 1)
  /\ \A i, j \in DOMAIN messages :
       /\ i < j /\ messages[i].role = "user" /\ messages[j].role = "user"
       /\ messages[i].id[1] = messages[j].id[1]
       => messages[i].id[2] < messages[j].id[2]

(***************************************************************************)
(* A run ends, however its provider, hooks and listeners fail and whatever *)
(* is queued meanwhile; waitForIdle() resolves.                            *)
(***************************************************************************)
RunEnds == pc # "idle" ~> pc = "idle"
=============================================================================
