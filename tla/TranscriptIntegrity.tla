-------------------------- MODULE TranscriptIntegrity --------------------------
(***************************************************************************)
(* Inspection and repair of tool transcripts                               *)
(* (packages/agent/src/tool-transcript-integrity.ts).  A message has a     *)
(* role, an identity (for a tool result, the id of its call) and the ids   *)
(* of the calls it carries, in source order.                               *)
(***************************************************************************)
EXTENDS Naturals, Sequences, FiniteSets, SequencesExt, Selection

user(i) == [role |-> "user", id |-> i, calls |-> <<>>]
assistant(i, cs) == [role |-> "assistant", id |-> i, calls |-> cs]
toolResult(c) == [role |-> "toolResult", id |-> c, calls |-> <<>>]

(* The ids that occur, and how often: callIdCount and resultIdCount. *)
callsOf(t) == UNION {ToSet(t[i].calls) : i \in DOMAIN t}
resultsOf(t) == {t[i].id : i \in {j \in DOMAIN t : t[j].role = "toolResult"}}
callPlaces(t, c) == UNION {{i} \X {j \in DOMAIN t[i].calls : t[i].calls[j] = c} : i \in DOMAIN t}
callIdCount(t, c) == Cardinality(callPlaces(t, c))
resultIdCount(t, c) == Cardinality({i \in DOMAIN t : t[i] = toolResult(c)})

(* Mistaken variant: a message without calls does not end an open region. *)
scanStepSkips(known, s, m) ==
  CASE s.broken # {} -> s
    [] m.role = "toolResult" /\ m.id \in s.pending -> [s EXCEPT !.pending = @ \ {m.id}]
    [] m.role = "toolResult" /\ m.id \notin s.pending ->
         [s EXCEPT !.broken = IF m.id \in known THEN {m.id} ELSE {}]
    [] m.role # "toolResult" /\ s.pending # {} ->
         IF m.calls = <<>> THEN s ELSE [s EXCEPT !.broken = s.pending]
    [] OTHER -> [s EXCEPT !.pending = ToSet(m.calls)]

(***************************************************************************)
(* The left-to-right pass.  pending is not empty exactly while a region of *)
(* results is open; broken holds the ids the pass stops at.                *)
(***************************************************************************)
scanStep(known, s, m) ==
  CASE s.broken # {} -> s
    [] m.role = "toolResult" /\ m.id \in s.pending -> [s EXCEPT !.pending = @ \ {m.id}]
    [] m.role = "toolResult" /\ m.id \notin s.pending ->
         [s EXCEPT !.broken = IF m.id \in known THEN {m.id} ELSE {}]
    [] m.role # "toolResult" /\ s.pending # {} -> [s EXCEPT !.broken = s.pending]
    [] OTHER -> [s EXCEPT !.pending = ToSet(m.calls)]

interleaved(t) ==
  LET scan[i \in 0..Len(t)] ==
        IF i = 0 THEN [pending |-> {}, broken |-> {}] ELSE scanStep(callsOf(t), scan[i - 1], t[i])
  IN  scan[Len(t)].broken

issue(kind, ids) == {[kind |-> kind, id |-> c] : c \in ids}

inspectTranscriptIntegrity(t) ==
  UNION {issue("duplicate_call_id", {c \in callsOf(t) : callIdCount(t, c) > 1}),
         issue("duplicate_result", {c \in resultsOf(t) : resultIdCount(t, c) > 1}),
         issue("orphan_result", resultsOf(t) \ callsOf(t)),
         issue("missing_result", callsOf(t) \ resultsOf(t)),
         issue("interleaved_non_result", interleaved(t))}

ok(t) == inspectTranscriptIntegrity(t) = {}
ambiguous(t) == \E i \in inspectTranscriptIntegrity(t) : i.kind # "missing_result"
missing(t) == {i.id : i \in {j \in inspectTranscriptIntegrity(t) : j.kind = "missing_result"}}

lastAssistant(t) == SelectLastInSeq(t, LAMBDA m : m.role = "assistant")

(* repairTranscriptIntegrity throws unless this holds. *)
repairable(t) ==
  /\ ~ambiguous(t)
  /\ missing(t) # {} =>
       LET k == lastAssistant(t) IN
       /\ k # 0 /\ missing(t) \subseteq ToSet(t[k].calls)
       /\ \A i \in (k + 1)..Len(t) : t[i].role = "toolResult" /\ t[i].id \in ToSet(t[k].calls)

(* Mistaken variant: a result for every tail call, resolved or not. *)
closureAll(t) ==
  IF missing(t) = {} THEN <<>>
  ELSE [i \in DOMAIN t[lastAssistant(t)].calls |-> toolResult(t[lastAssistant(t)].calls[i])]

(* The synthetic results that repair appends, in source order. *)
closureResults(t) ==
  IF missing(t) = {} THEN <<>>
  ELSE LET open == only(t[lastAssistant(t)].calls, missing(t))
       IN  [i \in DOMAIN open |-> toolResult(open[i])]

repairTranscriptIntegrity(t) == t \o closureResults(t)
=============================================================================
