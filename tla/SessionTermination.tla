--------------------------- MODULE SessionTermination ---------------------------
(***************************************************************************)
(* How an AgentSession run ended (core/session-termination.ts) and what    *)
(* the run journal accepts as an ending (core/run-journal.ts).  Both files *)
(* tabulate kind, phase and retry advice of every cause; the journal's     *)
(* table says "keep in lockstep".  A cause is <<area, code>>.              *)
(***************************************************************************)
EXTENDS FiniteSets

transcriptIssues ==
  {"missing_result", "duplicate_result", "orphan_result", "duplicate_call_id", "interleaved_non_result",
   "invalid_jsonl", "invalid_tree", "unsupported_version", "trailing_fragment"}

(* SessionTerminationCause, as assertCause admits it. *)
Causes ==
  {<<"completed", "completed">>, <<"user", "abort">>, <<"configuration", "invalid">>, <<"internal", "unclassified">>}
    \union ({"provider"} \X {"abort", "auth", "rate_limit", "network", "protocol", "refusal", "context_overflow"})
    \union ({"tool"} \X {"timeout", "fatal"})
    \union ({"compaction"} \X {"aborted", "failed", "stale"})
    \union ({"persistence"} \X {"read_failed", "append_failed", "replace_failed", "fsync_failed", "lock_failed"})
    \union ({"process"} \X {"signal", "crash"})
    \union ({"transcript"} \X transcriptIssues)

Sources == {"observed", "inferred_on_resume"}
Inputs == [cause : Causes, source : Sources, sideEffects : {"none", "possible", "confirmed"}]

NoneOf == "undefined"

(***************************************************************************)
(* classifySessionTermination                                              *)
(***************************************************************************)
(* What it refuses to classify. *)
refused(in) ==
  \/ in.cause = <<"process", "crash">> /\ in.source # "inferred_on_resume"
  \/ in.cause = <<"process", "signal">> /\ in.source # "observed"

causeCodeOf(cause) ==
  CASE cause[1] = "completed" -> <<"session", "completed">>
    [] cause[1] = "user" -> <<"session", "user_abort">>
    [] OTHER -> cause

(* Kinds are written as the cause where they say no more than it. *)
kindOf(cause) == IF cause[1] \in {"compaction", "persistence", "transcript"} THEN <<cause[1]>> ELSE cause

phaseOf(cause, source) ==
  CASE cause[1] = "user" -> "control"
    [] cause[1] = "process" -> IF cause[2] = "signal" THEN "process" ELSE "resume"
    [] cause[1] = "transcript" -> IF source = "inferred_on_resume" THEN "resume" ELSE "preflight"
    [] cause[1] \in {"configuration", "internal"} -> "preflight"
    [] OTHER -> cause[1]

(* Mistaken variant: a provider's refusal of credentials is worth another try. *)
retryableOfAuth(cause) ==
  \/ cause[1] \in {"provider", "compaction", "persistence"}
  \/ cause \in {<<"tool", "timeout">>, <<"process", "crash">>}

(* classifyProvider and classifyCause. *)
retryableOf(cause) ==
  \/ cause[1] = "provider" /\ cause[2] # "auth"
  \/ cause[1] \in {"compaction", "persistence"}
  \/ cause \in {<<"tool", "timeout">>, <<"process", "crash">>}

autoRetried == {"provider"} \X {"rate_limit", "network", "refusal"}

isSafeToAutoRetry(in) ==
  retryableOf(in.cause) /\ in.source = "observed" /\ in.sideEffects = "none" /\ kindOf(in.cause) \in autoRetried

classified(in) ==
  [kind |-> kindOf(in.cause), phase |-> phaseOf(in.cause, in.source), source |-> in.source,
   causeCode |-> causeCodeOf(in.cause), retryable |-> retryableOf(in.cause),
   safeToAutoRetry |-> isSafeToAutoRetry(in), sideEffects |-> in.sideEffects,
   processSignal |-> IF in.cause = <<"process", "signal">> THEN "signal" ELSE NoneOf,
   transcriptIssue |-> IF in.cause[1] = "transcript" THEN in.cause[2] ELSE NoneOf]

(***************************************************************************)
(* The journal: assertTerminationCoherence and isTerminalCoherentWithEvent *)
(***************************************************************************)
row(kind, phase, retryable) == [kind |-> kind, phase |-> phase, retryable |-> retryable]

expected(code, source) ==
  LET area == code[1]
      suffix == code[2] IN
  CASE code = <<"session", "completed">> -> row(<<"completed", "completed">>, "completed", FALSE)
    [] code = <<"session", "user_abort">> -> row(<<"user", "abort">>, "control", FALSE)
    [] code = <<"provider", "auth">> -> row(code, "provider", FALSE)
    [] area = "provider" /\ suffix \in {"abort", "rate_limit", "network", "protocol", "refusal", "context_overflow"}
         -> row(code, "provider", TRUE)
    [] code = <<"tool", "timeout">> -> row(code, "tool", TRUE)
    [] code = <<"tool", "fatal">> -> row(code, "tool", FALSE)
    [] area = "compaction" /\ suffix \in {"aborted", "failed", "stale"} -> row(<<area>>, "compaction", TRUE)
    [] area = "persistence"
         /\ suffix \in {"read_failed", "append_failed", "replace_failed", "fsync_failed", "lock_failed"}
         -> row(<<area>>, "persistence", TRUE)
    [] code = <<"process", "signal">> -> row(code, "process", FALSE)
    [] code = <<"process", "crash">> -> row(code, "resume", TRUE)
    [] area = "transcript" /\ suffix \in transcriptIssues
         -> row(<<area>>, IF source = "inferred_on_resume" THEN "resume" ELSE "preflight", FALSE)
    [] code \in {<<"configuration", "invalid">>, <<"internal", "unclassified">>} -> row(code, "preflight", FALSE)
    [] OTHER -> row(<<>>, "incoherent", FALSE)

coherent(t) ==
  /\ row(t.kind, t.phase, t.retryable) = expected(t.causeCode, t.source)
  /\ t.processSignal # NoneOf <=> t.causeCode = <<"process", "signal">>
  /\ t.transcriptIssue = IF t.causeCode[1] = "transcript" THEN t.causeCode[2] ELSE NoneOf
  /\ t.safeToAutoRetry <=>
       (t.retryable /\ t.source = "observed" /\ t.sideEffects = "none" /\ t.kind \in autoRetried)

terminalCoherentWithEvent(event, t) ==
  IF event = "run_recovered"
  THEN t.source = "inferred_on_resume" /\ t.kind = <<"process", "crash">> /\ t.phase = "resume"
  ELSE t.source = "observed" /\ t.kind # <<"process", "crash">>

accepts(event, t) == coherent(t) /\ terminalCoherentWithEvent(event, t)
=================================================================================
