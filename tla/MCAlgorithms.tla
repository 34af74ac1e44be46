----------------------------- MODULE MCAlgorithms -----------------------------
(***************************************************************************)
(* The pure algorithms against reference definitions, one of them in each  *)
(* behaviour: the dag-v2 planner on the batches of MCDagLevels, transcript *)
(* inspection and repair on every transcript of up to MaxLength messages   *)
(* over a few call ids, and the ending of a run for every cause.           *)
(***************************************************************************)
EXTENDS MCDagLevels, TranscriptIntegrity, SessionTermination

CONSTANTS Ids,       \* the call ids a provider may use
          MaxLength  \* bound: messages in a transcript

ASSUME MCAlgorithmsAssumption == IsFiniteSet(Ids) /\ MaxLength \in Nat

VARIABLES transcript,  \* the transcript so far
          ended        \* the endings to be recorded, at most one

Letters ==
  {user(0)} \union {assistant(0, cs) : cs \in BoundedSeq(Ids, 2)} \union {toolResult(c) : c \in Ids}

AlgorithmsInit == Init /\ transcript = <<>> /\ ended = {}

Planning == transcript = <<>> /\ ended = {} /\ Next /\ UNCHANGED <<transcript, ended>>

AppendMessage(m) ==
  /\ pending = {} /\ calls = <<>> /\ ended = {} /\ Len(transcript) < MaxLength
  /\ transcript' = Append(transcript, m) /\ UNCHANGED <<vars, ended>>

EndRun(in) ==
  /\ pending = {} /\ calls = <<>> /\ transcript = <<>> /\ ended = {} /\ ~refused(in)
  /\ ended' = {in} /\ UNCHANGED <<vars, transcript>>

AlgorithmsNext == Planning \/ (\E m \in Letters : AppendMessage(m)) \/ (\E in \in Inputs : EndRun(in))

AlgorithmsSpec == AlgorithmsInit /\ [][AlgorithmsNext]_<<vars, transcript, ended>>

(***************************************************************************)
(* What inspection should accept, said without a pass over the messages:   *)
(* calls and results are in bijection, and the n calls of a message are    *)
(* answered by the n messages that follow it.                              *)
(***************************************************************************)
WellFormed(t) ==
  /\ \A i \in DOMAIN t : t[i].role = "assistant" =>
       LET n == Len(t[i].calls) IN
       /\ i + n <= Len(t)
       /\ Cardinality(ToSet(t[i].calls)) = n
       /\ {t[j] : j \in (i + 1)..(i + n)} = {toolResult(c) : c \in ToSet(t[i].calls)}
  /\ \A i, j \in DOMAIN t :
       i # j => ToSet(t[i].calls) \cap ToSet(t[j].calls) = {} /\ (t[i].role = "toolResult" => t[i] # t[j])
  /\ resultsOf(t) \subseteq callsOf(t)

(***************************************************************************)
(* inspectTranscriptIntegrity reports an issue exactly for the transcripts *)
(* that are not well formed: the gate in front of every provider request   *)
(* neither lets a broken transcript through nor refuses a sound one.       *)
(***************************************************************************)
InspectionExact == ok(transcript) <=> WellFormed(transcript)

(***************************************************************************)
(* repairTranscriptIntegrity repairs whatever appending results can repair *)
(* and nothing else; what it returns is well formed and the repair is      *)
(* idempotent.                                                             *)
(***************************************************************************)
RepairExact ==
  LET suffixes == {s \in BoundedSeq({toolResult(c) : c \in Ids}, 2) : WellFormed(transcript \o s)} IN
  /\ repairable(transcript) <=> suffixes # {}
  /\ repairable(transcript) => closureResults(transcript) \in suffixes
  /\ repairable(transcript) => closureResults(repairTranscriptIntegrity(transcript)) = <<>>

(***************************************************************************)
(* No ending is lost on its way to the journal: whatever was observed is   *)
(* accepted as run_finished and as run_abandoned, and of the endings that  *)
(* were inferred on resume exactly the crash as run_recovered.             *)
(***************************************************************************)
EndingsRecorded ==
  \A in \in ended :
    LET t == classified(in) IN
    /\ \A event \in {"run_finished", "run_abandoned"} : accepts(event, t) <=> in.source = "observed"
    /\ accepts("run_recovered", t) <=> in.cause = <<"process", "crash">>
=============================================================================
