------------------------ MODULE SessionCompactionProofs ------------------------
(***************************************************************************)
(* What a compaction commits stands on the branch it was made from, no     *)
(* source is compacted twice, compaction does not run in circles, no       *)
(* compaction separates a result from the answer that asked for it, and    *)
(* the agent's messages are those of the session, for every number of      *)
(* entries, prompts, compactions and moves.                                *)
(***************************************************************************)
EXTENDS SessionCompaction, SequenceTheorems, WellFoundedInduction, TLAPS

Jobs == {"manual", "auto"}
Places == {"idle", "pre", "projected", "run", "running", "post", "continue"}

(* The fields of the records. *)
Shapes ==
  /\ DOMAIN jobs = Jobs
  /\ \A j \in Jobs : DOMAIN jobs[j] = {"pc", "emergency", "retry", "stopped", "rearmed", "base", "branch", "source"}
  /\ DOMAIN driver = {"at", "waiting", "prompting", "last"}
  /\ DOMAIN agent = {"pc", "aborting", "messages"}
  /\ DOMAIN ghost = {"low", "overflows"}

Elements(s) == {s[i] : i \in DOMAIN s}

(* The entries are a tree: a parent is an earlier entry, or the root. *)
TreeInv ==
  /\ entries \in Seq(Elements(entries)) /\ foreign \in BOOLEAN
  /\ leaf \in 0..Len(entries)
  /\ \A i \in 1..Len(entries) : entries[i].parent \in 0..(i - 1)

(* A summary under way is of the branch that its revision names. *)
CapturedInv ==
  \A j \in Jobs : jobs[j].pc = "summary" =>
    \E e \in 0..Len(entries) :
      jobs[j].base[3] = e /\ jobs[j].branch = branchOf(entries, e)

(* Armed is rearmed: usage was low since the last commit. *)
ThresholdInv ==
  /\ armed \in BOOLEAN /\ ghost.low \in BOOLEAN
  /\ armed => ghost.low
  /\ jobs.auto.pc # "none" /\ ~jobs.auto.emergency => jobs.auto.rearmed

(* The chain of a prompt: it waits for the auto compaction, a run is under *)
(* way only at "running", and only the check after a run sees an overflow. *)
ChainInv ==
  /\ driver.at \in Places /\ tried \in BOOLEAN
  /\ agent.pc # "idle" <=> driver.at = "running"
  /\ driver.at # "post" => driver.last.kind \notin Overflows
  /\ driver.waiting \in BOOLEAN /\ (driver.waiting => driver.at \in {"pre", "projected", "post"})
  /\ jobs.auto.pc # "none" <=> driver.waiting
  /\ jobs.auto.retry \in BOOLEAN /\ (jobs.auto.retry => tried /\ driver.waiting)

(* An overflow that was compacted for is remembered until there is a user  *)
(* message or a reply that is no error.                                    *)
OverflowInv == ghost.overflows \in 0..1 /\ (ghost.overflows = 0 \/ tried)

CompactionInv ==
  /\ Shapes /\ TreeInv /\ CapturedInv /\ ThresholdInv /\ ChainInv /\ OverflowInv
  /\ SummaryCoversBranch /\ SourceCompactedOnce
--------------------------------------------------------------------------------
(***************************************************************************)
(* Sequences and the tree                                                  *)
(***************************************************************************)
(* A sequence is one over its own elements. *)
LEMMA OwnElements ==
  ASSUME NEW S, NEW s \in Seq(S)
  PROVE  s \in Seq(Elements(s))
<1>1. Len(s) \in Nat /\ s \in [1..Len(s) -> S] /\ DOMAIN s = 1..Len(s)
  BY LenProperties
<1>2. s \in [1..Len(s) -> Elements(s)]
  BY <1>1 DEF Elements
<1>3. QED
  BY <1>1, <1>2

(* What is appended that is no compaction: messages, and entries of extensions. *)
Plain == Messages \cup {"custom"}

(* es is the session with more entries, none of them a compaction. *)
Extended(es) ==
  /\ es \in Seq(Elements(es)) /\ Len(entries) <= Len(es)
  /\ \A i \in 1..Len(entries) : es[i] = entries[i]
  /\ \A i \in (Len(entries) + 1)..Len(es) : es[i].parent \in 0..(i - 1) /\ es[i].kind \in Plain

(* A branch is settled by the entries up to its end: what is appended      *)
(* later does not change it.                                               *)
LEMMA BranchSettled ==
  ASSUME NEW es, NEW fs, NEW e \in Nat, \A i \in 1..e : fs[i] = es[i]
  PROVE  branchOf(fs, e) = branchOf(es, e)
<1>1. [i \in 1..e |-> fs[i].parent] = [i \in 1..e |-> es[i].parent]
  OBVIOUS
<1>2. QED
  BY <1>1 DEF branchOf

(* The kinds of a list of messages. *)
LEMMA PlainKinds ==
  ASSUME NEW kinds \in Seq(Plain)
  PROVE  /\ Len(kinds) \in Nat /\ DOMAIN kinds = 1..Len(kinds)
         /\ \A i \in 1..Len(kinds) : kinds[i] \in Plain
BY LenProperties

(* Neither messages nor entries of extensions are compactions. *)
LEMMA PlainIsNone ==
  ASSUME NEW k \in Plain
  PROVE  k # "compaction"
BY DEF Plain, Messages, Assistants, Errors, Overflows

(* appended: the messages go below the leaf, one below another. *)
LEMMA AppendedExtends ==
  ASSUME TreeInv, NEW kinds \in Seq(Plain)
  PROVE  Extended(appended(kinds)) /\ Len(appended(kinds)) = Len(entries) + Len(kinds)
<1> PICK n \in Nat : n = Len(kinds)
  BY PlainKinds
<1> DEFINE below == [i \in 1..Len(kinds) |-> entry(kinds[i], IF i = 1 THEN leaf ELSE Len(entries) + i - 1)]
           both == Elements(entries) \cup Elements(below)
<1>1. Len(entries) \in Nat /\ DOMAIN entries = 1..Len(entries) /\ leaf \in 0..Len(entries)
  BY LenProperties DEF TreeInv
<1>2. below \in [1..n -> Elements(below)] /\ below \in Seq(Elements(below)) /\ Len(below) = n
  BY DEF Elements
<1>3. entries \in Seq(both) /\ below \in Seq(both)
  <2> HIDE DEF below
  <2>1. entries \in Seq(Elements(entries))
    BY DEF TreeInv
  <2>2. QED
    BY <1>2, <2>1, SeqMonotonic
<1>4. ASSUME NEW i \in 1..n
      PROVE  below[i].parent \in 0..(Len(entries) + i - 1) /\ below[i].kind \in Plain
  <2>1. PICK p \in Nat : p = (IF i = 1 THEN leaf ELSE Len(entries) + i - 1) /\ p <= Len(entries) + i - 1
    <3> DEFINE q == IF i = 1 THEN leaf ELSE Len(entries) + i - 1
    <3>1. q \in Nat /\ q <= Len(entries) + i - 1
      BY <1>1
    <3>2. QED
      BY <3>1
  <2>2. below[i] = entry(kinds[i], p)
    BY <2>1
  <2>3. below[i].parent = p /\ below[i].kind = kinds[i]
    BY <2>2 DEF entry
  <2>4. QED
    BY <1>1, <2>1, <2>3, PlainKinds
<1>5. appended(kinds) = entries \o below
  BY DEF appended
<1> HIDE DEF below, both
<1>6. /\ entries \o below \in Seq(both) /\ Len(entries \o below) = Len(entries) + n
      /\ \A i \in 1..Len(entries) + n : (entries \o below)[i] = IF i <= Len(entries) THEN entries[i] ELSE below[i - Len(entries)]
  BY <1>2, <1>3, ConcatProperties, ZenonT(60)
<1>7. entries \o below \in Seq(Elements(entries \o below))
  BY <1>6, OwnElements
<1>8. \A i \in 1..Len(entries) : (entries \o below)[i] = entries[i]
  BY <1>1, <1>6
<1>9. ASSUME NEW i \in (Len(entries) + 1)..Len(entries \o below)
      PROVE  (entries \o below)[i].parent \in 0..(i - 1) /\ (entries \o below)[i].kind \in Plain
  <2>1. i - Len(entries) \in 1..n /\ (entries \o below)[i] = below[i - Len(entries)]
    BY <1>1, <1>6
  <2>2. QED
    BY <1>1, <1>4, <2>1
<1>10. QED
  BY <1>1, <1>5, <1>6, <1>7, <1>8, <1>9 DEF Extended

(* say: what the session hears is appended. *)
LEMMA SayExtends ==
  ASSUME TreeInv, NEW kinds \in Seq(Plain), NEW a, say(kinds, a)
  PROVE  Extended(entries') /\ leaf' \in 0..Len(entries')
<1>1. Len(entries) \in Nat
  BY DEF TreeInv
<1>2. CASE connected /\ kinds # <<>>
  <2>1. entries' = appended(kinds) /\ leaf' = Len(entries')
    BY <1>2 DEF say
  <2>2. QED
    BY <1>1, <2>1, AppendedExtends, PlainKinds DEF Extended
<1>3. CASE ~(connected /\ kinds # <<>>)
  BY <1>1, <1>3 DEF say, Extended, TreeInv
<1>4. QED
  BY <1>2, <1>3

(* More entries: the tree stays one, and the compactions stand. *)
LEMMA TreeExtends ==
  ASSUME CompactionInv, Extended(entries'), leaf' \in 0..Len(entries'), foreign' \in BOOLEAN
  PROVE  TreeInv' /\ SummaryCoversBranch' /\ SourceCompactedOnce'
<1>1. /\ Len(entries) \in Nat /\ DOMAIN entries = 1..Len(entries)
      /\ Len(entries') \in Nat /\ DOMAIN entries' = 1..Len(entries') /\ Len(entries) <= Len(entries')
  BY LenProperties DEF CompactionInv, TreeInv, Extended
<1>2. TreeInv'
  BY <1>1 DEF CompactionInv, TreeInv, Extended
<1>3. ASSUME NEW c \in Compactions'
      PROVE  c \in Compactions /\ entries'[c] = entries[c] /\ c \in 1..Len(entries)
  BY <1>1, <1>3, PlainIsNone DEF Compactions, kind, Extended
<1>4. SummaryCoversBranch'
  <2> SUFFICES ASSUME NEW c \in Compactions'
               PROVE  entries'[c].of = branchOf(entries', entries'[c].parent)
    BY DEF SummaryCoversBranch
  <2>1. c \in Compactions /\ entries'[c] = entries[c] /\ c \in 1..Len(entries)
    BY <1>3
  <2>2. entries[c].of = branchOf(entries, entries[c].parent)
    BY <2>1 DEF CompactionInv, SummaryCoversBranch
  <2>3. entries[c].parent \in 0..(c - 1)
    BY <2>1 DEF CompactionInv, TreeInv
  <2>4. branchOf(entries', entries[c].parent) = branchOf(entries, entries[c].parent)
    <3>1. \A i \in 1..entries[c].parent : entries'[i] = entries[i]
      BY <1>1, <2>1, <2>3 DEF Extended
    <3>2. entries[c].parent \in Nat
      BY <1>1, <2>1, <2>3
    <3>3. QED
      BY <3>1, <3>2, BranchSettled
  <2>5. QED
    BY <2>1, <2>2, <2>4
<1>5. SourceCompactedOnce'
  BY <1>3 DEF CompactionInv, SourceCompactedOnce
<1>6. QED
  BY <1>2, <1>4, <1>5

(* _commitCompaction: the branch of the summary is the one it is appended  *)
(* to, and its source is new.                                              *)
LEMMA CommitStands ==
  ASSUME CompactionInv, NEW j \in Jobs, jobs[j].pc = "summary", jobs[j].source \notin committed(entries), unchanged(j),
         NEW first,
         entries' = Append(entries, [entry("compaction", leaf) EXCEPT
                                       !.first = first, !.of = jobs[j].branch, !.source = jobs[j].source]),
         leaf' = Len(entries'), foreign' \in BOOLEAN
  PROVE  /\ TreeInv' /\ SummaryCoversBranch' /\ SourceCompactedOnce'
         /\ Len(entries) <= Len(entries') /\ \A i \in 1..Len(entries) : entries'[i] = entries[i]
<1> DEFINE new == [entry("compaction", leaf) EXCEPT !.first = first, !.of = jobs[j].branch, !.source = jobs[j].source]
           both == Elements(entries) \cup {new}
<1>1. new.kind = "compaction" /\ new.parent = leaf /\ new.of = jobs[j].branch /\ new.source = jobs[j].source
  BY DEF entry
<1>2. entries' = Append(entries, new)
  OBVIOUS
<1> HIDE DEF new
<1>3. entries \in Seq(Elements(entries)) /\ leaf \in 0..Len(entries) /\ Len(entries) \in Nat
  BY DEF CompactionInv, TreeInv
<1>4. entries \in Seq(both) /\ new \in both
  BY <1>3, SeqMonotonic
<1> HIDE DEF both
<1>5. /\ entries' \in Seq(both) /\ Len(entries') = Len(entries) + 1
      /\ DOMAIN entries = 1..Len(entries) /\ DOMAIN entries' = 1..Len(entries')
      /\ \A i \in 1..Len(entries) : entries'[i] = entries[i]
      /\ entries'[Len(entries) + 1] = new
  BY <1>2, <1>3, <1>4
<1>6. entries' \in Seq(Elements(entries'))
  BY <1>5, OwnElements
<1>7. TreeInv'
  <2>1. ASSUME NEW i \in 1..Len(entries') PROVE entries'[i].parent \in 0..(i - 1)
    <3>1. CASE i \in 1..Len(entries)
      <4>1. entries'[i] = entries[i]
        BY <1>5, <3>1
      <4>2. QED
        BY <3>1, <4>1 DEF CompactionInv, TreeInv
    <3>2. CASE i = Len(entries) + 1
      <4>1. entries'[i] = new
        BY <1>5, <3>2
      <4>2. entries'[i].parent = leaf
        BY <1>1, <4>1
      <4>3. i - 1 = Len(entries)
        BY <1>3, <3>2
      <4>4. QED
        BY <1>3, <4>2, <4>3
    <3>3. QED
      BY <1>3, <1>5, <3>1, <3>2
  <2>2. QED
    BY <1>3, <1>5, <1>6, <2>1 DEF TreeInv
<1>8. ASSUME NEW c \in Compactions'
      PROVE  \/ c \in Compactions /\ entries'[c] = entries[c] /\ c \in 1..Len(entries)
             \/ c = Len(entries) + 1 /\ entries'[c] = new
  BY <1>3, <1>5, <1>8 DEF Compactions, kind
<1>9. jobs[j].branch = branchOf(entries, leaf)
  <2>1. jobs[j].base = <<Len(entries), foreign, leaf>>
    BY DEF unchanged, revision
  <2>2. <<Len(entries), foreign, leaf>>[3] = leaf
    OBVIOUS
  <2>3. jobs[j].base[3] = leaf
    BY <2>1, <2>2, Zenon
  <2>4. QED
    BY <2>3 DEF CompactionInv, CapturedInv
<1>10. SummaryCoversBranch'
  <2> SUFFICES ASSUME NEW c \in Compactions'
               PROVE  entries'[c].of = branchOf(entries', entries'[c].parent)
    BY DEF SummaryCoversBranch
  <2>1. PICK p \in 0..Len(entries) : p = entries'[c].parent /\ entries'[c].of = branchOf(entries, p)
    <3>1. CASE c \in Compactions /\ entries'[c] = entries[c] /\ c \in 1..Len(entries)
      <4>1. entries[c].of = branchOf(entries, entries[c].parent)
        BY <3>1 DEF CompactionInv, SummaryCoversBranch
      <4>2. entries[c].parent \in 0..Len(entries)
        BY <1>3, <3>1 DEF CompactionInv, TreeInv
      <4>3. QED
        BY <3>1, <4>1, <4>2
    <3>2. CASE c = Len(entries) + 1 /\ entries'[c] = new
      BY <1>1, <1>3, <1>9, <3>2
    <3>3. QED
      BY <1>8, <3>1, <3>2
  <2>2. branchOf(entries', p) = branchOf(entries, p)
    <3>1. p \in Nat /\ \A i \in 1..p : entries'[i] = entries[i]
      BY <1>3, <1>5
    <3>2. QED
      BY <3>1, BranchSettled
  <2>3. QED
    BY <2>1, <2>2
<1>11. SourceCompactedOnce'
  <2> SUFFICES ASSUME NEW c \in Compactions', NEW d \in Compactions', entries'[c].source = entries'[d].source
               PROVE  c = d
    BY DEF SourceCompactedOnce
  <2>1. ASSUME NEW b \in Compactions PROVE entries[b].source # jobs[j].source
    BY <2>1 DEF Compactions, kind, committed
  <2>2. QED
    BY <1>1, <1>8, <2>1 DEF CompactionInv, SourceCompactedOnce
<1>12. QED
  BY <1>3, <1>5, <1>7, <1>10, <1>11

(* What a failure handling says, and the lists of one or two messages. *)
LEMMA PlainLists ==
  /\ <<>> \in Seq(Plain)
  /\ \A k \in Plain : <<k>> \in Seq(Plain)
  /\ \A k, l \in Plain : <<k, l>> \in Seq(Plain)
  /\ {"user", "result", "custom", "call", "answer", "silent", "overflow", "failure", "aborted"} \subseteq Plain
<1>1. {"user", "result", "custom", "call", "answer", "silent", "overflow", "failure", "aborted"} \subseteq Plain
  BY DEF Plain, Messages, Assistants, Errors, Overflows
<1>2. QED
  BY <1>1

(* planFailureTermination plans messages. *)
LEMMA FailurePlain ==
  ASSUME NEW kinds
  PROVE  failure(kinds) \in Seq(Plain)
<1>1. "result" \in Plain /\ "failure" \in Plain
  BY PlainLists
<1>2. <<"result", "failure">> \in Seq(Plain) /\ <<"failure">> \in Seq(Plain) /\ <<>> \in Seq(Plain)
  BY <1>1, PlainLists
<1>3. QED
  BY <1>2 DEF failure

(* Nothing but Commit makes a compaction. *)
LEMMA OthersExtend ==
  ASSUME CompactionInv, [Next]_vars, ~\E j \in Jobs : Commit(j)
  PROVE  Extended(entries') /\ leaf' \in 0..Len(entries') /\ foreign' \in BOOLEAN
<1>1. TreeInv /\ foreign \in BOOLEAN /\ Len(entries) \in Nat /\ DOMAIN entries = 1..Len(entries)
  BY LenProperties DEF CompactionInv, TreeInv
<1>2. ASSUME UNCHANGED <<entries, leaf>> PROVE Extended(entries') /\ leaf' \in 0..Len(entries')
  BY <1>1, <1>2 DEF Extended, TreeInv
<1>3. CASE Prompt
  BY <1>1, <1>2, <1>3 DEF Prompt
<1>4. CASE Check
  BY <1>1, <1>2, <1>4 DEF Check
<1>5. CASE StartRun
  <2>1. foreign' = foreign
    BY <1>5 DEF StartRun
  <2>2. CASE connected /\ activeRun
    <3>1. say(failure(agentKinds), [agent EXCEPT !.pc = "idle", !.aborting = FALSE])
      BY <1>5, <2>2 DEF StartRun, endRun
    <3>2. QED
      BY <1>1, <2>1, <3>1, FailurePlain, SayExtends
  <2>3. CASE ~(connected /\ activeRun)
    <3>1. PICK kinds \in Seq(Plain) : say(kinds, [agent EXCEPT !.pc = "streaming"])
      <4>1. say(opening, [agent EXCEPT !.pc = "streaming"])
        BY <1>5, <2>3 DEF StartRun
      <4>2. opening \in Seq(Plain)
        BY PlainLists DEF opening
      <4>3. QED
        BY <4>1, <4>2
    <3>2. QED
      BY <1>1, <2>1, <3>1, SayExtends
  <2>4. QED
    BY <2>2, <2>3
<1>6. CASE Reply
  <2>1. foreign' = foreign
    BY <1>6 DEF Reply
  <2>2. PICK kinds \in {<<>>} \cup {<<k>> : k \in Plain} : \E a : say(kinds, a)
    <3>1. CASE endRun(<<>>)
      BY <3>1 DEF endRun
    <3>2. CASE \E k \in {"answer", "silent"} \cup Errors : endRun(<<k>>)
      <4>1. PICK k \in {"answer", "silent"} \cup Errors : endRun(<<k>>)
        BY <3>2
      <4>2. say(<<k>>, [agent EXCEPT !.pc = "idle", !.aborting = FALSE]) /\ k \in Plain
        BY <4>1, PlainLists DEF endRun, Errors
      <4>3. QED
        BY <4>2
    <3>3. CASE say(<<"call">>, [agent EXCEPT !.pc = "tool"])
      BY <3>3, PlainLists
    <3>4. QED
      BY <1>6, <3>1, <3>2, <3>3 DEF Reply
  <2>3. kinds \in Seq(Plain)
    BY PlainLists
  <2>4. QED
    BY <1>1, <2>1, <2>2, <2>3, SayExtends
<1>7. CASE ToolResult
  <2>1. <<"result">> \in Seq(Plain)
    BY PlainLists
  <2>2. QED
    BY <1>1, <1>7, <2>1, SayExtends DEF ToolResult
<1>8. CASE Aborted
  <2>1. foreign' = foreign
    BY <1>8 DEF Aborted
  <2>2. PICK kinds : kinds = (IF agent.pc = "tool" THEN <<"result">> ELSE <<"aborted">>)
    OBVIOUS
  <2>3. say(kinds, [agent EXCEPT !.pc = "idle", !.aborting = FALSE])
    BY <1>8, <2>2 DEF Aborted, endRun
  <2>4. kinds \in Seq(Plain)
    BY <2>2, PlainLists
  <2>5. QED
    BY <1>1, <2>1, <2>3, <2>4, SayExtends
<1>9. CASE RunBreaks
  BY <1>1, <1>2, <1>9 DEF RunBreaks
<1>10. CASE Abort
  BY <1>1, <1>2, <1>10 DEF Abort
<1>11. CASE ManualStart
  BY <1>1, <1>2, <1>11 DEF ManualStart
<1>12. CASE ManualIdle
  BY <1>1, <1>2, <1>12 DEF ManualIdle
<1>13. CASE AbortCompaction
  BY <1>1, <1>2, <1>13 DEF AbortCompaction
<1>14. ASSUME NEW j \in Jobs, Begin(j) PROVE Extended(entries') /\ leaf' \in 0..Len(entries') /\ foreign' \in BOOLEAN
  <2>1. foreign' = foreign
    BY <1>14 DEF Begin
  <2>2. CASE repairs(j)
    <3>1. entries' = appended(<<"result", "custom">>) /\ leaf' = Len(entries')
      BY <1>14, <2>2 DEF Begin
    <3>2. Extended(entries')
      BY <1>1, <3>1, PlainLists, AppendedExtends
    <3>3. QED
      BY <1>1, <2>1, <3>1, <3>2 DEF Extended
  <2>3. CASE ~repairs(j)
    BY <1>1, <1>2, <1>14, <2>1, <2>3 DEF Begin
  <2>4. QED
    BY <2>2, <2>3
<1>15. ASSUME NEW j \in Jobs, JobFails(j) PROVE Extended(entries') /\ leaf' \in 0..Len(entries') /\ foreign' \in BOOLEAN
  BY <1>1, <1>2, <1>15 DEF JobFails
<1>16. ASSUME NEW e \in DOMAIN entries, NavigateTree(e)
       PROVE  Extended(entries') /\ leaf' \in 0..Len(entries') /\ foreign' \in BOOLEAN
  <2>1. entries' = entries /\ foreign' = foreign /\ leaf' = IF kind(e) = "user" THEN entries[e].parent ELSE e
    BY <1>16 DEF NavigateTree
  <2>2. e \in 1..Len(entries) /\ entries[e].parent \in 0..(e - 1)
    BY <1>1 DEF TreeInv
  <2>3. leaf' \in 0..Len(entries)
    BY <1>1, <2>1, <2>2
  <2>4. Extended(entries)
    BY <1>1 DEF Extended, TreeInv
  <2>5. QED
    BY <1>1, <2>1, <2>3, <2>4
<1>17. CASE CustomEntry
  <2>1. <<"custom">> \in Seq(Plain)
    BY PlainLists
  <2>2. entries' = appended(<<"custom">>) /\ leaf' = Len(entries') /\ foreign' = foreign
    BY <1>17 DEF CustomEntry
  <2>3. Extended(entries')
    BY <1>1, <2>1, <2>2, AppendedExtends
  <2>4. QED
    BY <1>1, <2>2, <2>3 DEF Extended
<1>18. CASE Foreign
  BY <1>1, <1>2, <1>18 DEF Foreign
<1>19. CASE UNCHANGED vars
  BY <1>1, <1>2, <1>19 DEF vars
<1>20. QED
  BY <1>3, <1>4, <1>5, <1>6, <1>7, <1>8, <1>9, <1>10, <1>11, <1>12, <1>13, <1>14, <1>15, <1>16, <1>17, <1>18, <1>19 DEF Next, Jobs

(* The tree and the compactions in it, step by step. *)
LEMMA TreeNext ==
  ASSUME CompactionInv, [Next]_vars
  PROVE  /\ TreeInv' /\ SummaryCoversBranch' /\ SourceCompactedOnce'
         /\ Len(entries) <= Len(entries') /\ \A i \in 1..Len(entries) : entries'[i] = entries[i]
<1>1. CASE ~\E j \in Jobs : Commit(j)
  <2>1. Extended(entries') /\ leaf' \in 0..Len(entries') /\ foreign' \in BOOLEAN
    BY <1>1, OthersExtend
  <2>2. QED
    BY <2>1, TreeExtends DEF Extended
<1>2. CASE \E j \in Jobs : Commit(j)
  <2>1. PICK j \in Jobs : Commit(j)
    BY <1>2
  <2>2. foreign' \in BOOLEAN
    BY <2>1 DEF Commit, CompactionInv, TreeInv
  <2>3. CASE UNCHANGED <<entries, leaf>>
    <3>1. Extended(entries') /\ leaf' \in 0..Len(entries')
      BY <2>3 DEF CompactionInv, TreeInv, Extended
    <3>2. QED
      BY <2>2, <3>1, TreeExtends DEF Extended
  <2>4. CASE ~UNCHANGED <<entries, leaf>>
    <3>1. jobs[j].pc = "summary" /\ jobs[j].source \notin committed(entries) /\ unchanged(j)
      BY <2>1, <2>4 DEF Commit
    <3>2. PICK first : entries' = Append(entries, [entry("compaction", leaf) EXCEPT
                                       !.first = first, !.of = jobs[j].branch, !.source = jobs[j].source])
      BY <2>1, <2>4 DEF Commit
    <3>3. leaf' = Len(entries')
      BY <2>1, <2>4 DEF Commit
    <3>4. QED
      BY <2>2, <3>1, <3>2, <3>3, CommitStands
  <2>5. QED
    BY <2>3, <2>4
<1>3. QED
  BY <1>1, <1>2

(* _captureCompactionState: what the job holds then, the other untouched. *)
LEMMA CapturedJob ==
  ASSUME Shapes, NEW j \in Jobs, NEW es, NEW e
  PROVE  /\ DOMAIN captured(j, es, e) = Jobs
         /\ \A i \in Jobs : DOMAIN captured(j, es, e)[i] = DOMAIN jobs[i]
         /\ \A i \in Jobs : i # j => captured(j, es, e)[i] = jobs[i]
         /\ captured(j, es, e)[j].pc = "summary" /\ captured(j, es, e)[j].branch = branchOf(es, e)
         /\ captured(j, es, e)[j].base = <<Len(es), foreign, e>>
         /\ captured(j, es, e)[j].emergency = jobs[j].emergency /\ captured(j, es, e)[j].retry = jobs[j].retry
         /\ captured(j, es, e)[j].rearmed = jobs[j].rearmed
<1>1. PICK b, s, v : b = branchOf(es, e) /\ s = sourceOf(es, b) /\ v = <<Len(es), foreign, e>>
  OBVIOUS
<1> DEFINE job == [jobs[j] EXCEPT !.pc = "summary", !.branch = b, !.source = s, !.base = v]
<1>2. captured(j, es, e) = [jobs EXCEPT ![j] = job]
  <2>1. captured(j, es, e) = [jobs EXCEPT ![j].pc = "summary", ![j].branch = b, ![j].source = s, ![j].base = v]
    BY <1>1 DEF captured
  <2>2. QED
    BY <2>1 DEF Shapes
<1>3. /\ DOMAIN job = DOMAIN jobs[j] /\ job.pc = "summary" /\ job.branch = b /\ job.base = v
      /\ job.emergency = jobs[j].emergency /\ job.retry = jobs[j].retry /\ job.rearmed = jobs[j].rearmed
  BY DEF Shapes
<1> HIDE DEF job
<1>4. QED
  BY <1>1, <1>2, <1>3 DEF Shapes

(* A check passes, compacts for an overflow, or looks at the usage. *)
Passes == driver' = goesOn(FALSE) /\ jobs' = jobs
Recovers ==
  /\ driver.at # "projected" /\ checked.kind \in Overflows /\ ~tried /\ tried' = TRUE /\ armed' = armed
  /\ \E m : agent' = [agent EXCEPT !.messages = m]
  /\ ghost' = [ghost EXCEPT !.overflows = @ + 1]
  /\ startAuto([NoJob EXCEPT !.emergency = TRUE, !.retry = TRUE])
Measures(ratio) ==
  /\ agent' = agent /\ tried' = tried
  /\ armed' = armedAt(ratio) /\ ghost' = [ghost EXCEPT !.low = @ \/ ratio = 0]
  /\ \/ Passes
     \/ compactAt(ratio) /\ startAuto([NoJob EXCEPT !.emergency = ratio = 3, !.rearmed = ghost'.low])

(* These are the outcomes of a check. *)
LEMMA CheckOutcomes ==
  ASSUME Check
  PROVE  /\ driver.at \in {"pre", "projected", "post"} /\ ~driver.waiting
         /\ \/ Passes /\ UNCHANGED <<agent, armed, tried, ghost>>
            \/ Recovers
            \/ \E ratio \in Ratios : Measures(ratio)
  BY DEF Check, Passes, Recovers, Measures

(* The job that a check starts. *)
LEMMA StartedJob ==
  ASSUME Shapes, NEW job, DOMAIN job = DOMAIN NoJob, startAuto(job)
  PROVE  /\ DOMAIN jobs' = Jobs /\ jobs'.manual = jobs.manual /\ jobs'.auto = [job EXCEPT !.pc = "auth"]
         /\ DOMAIN jobs'.auto = DOMAIN jobs.auto /\ jobs'.auto.pc = "auth"
         /\ DOMAIN driver' = DOMAIN driver /\ driver'.waiting = TRUE /\ driver'.at = driver.at
         /\ driver'.last = IF driver.at = "post" THEN None ELSE driver.last
<1>1. DOMAIN NoJob = {"pc", "emergency", "retry", "stopped", "rearmed", "base", "branch", "source"}
  BY DEF NoJob
<1>2. jobs' = [jobs EXCEPT !.auto = [job EXCEPT !.pc = "auth"]] /\ DOMAIN jobs = {"manual", "auto"}
  BY DEF startAuto, Shapes, Jobs
<1>3. driver' = [driver EXCEPT !.waiting = TRUE, !.last = IF driver.at = "post" THEN None ELSE @]
  BY DEF startAuto
<1>4. QED
  BY <1>1, <1>2, <1>3 DEF Shapes, Jobs

(* The records keep their fields. *)
LEMMA ShapesNext ==
  ASSUME CompactionInv, [Next]_vars
  PROVE  Shapes'
<1>1. Shapes
  BY DEF CompactionInv
<1>2. ASSUME NEW j \in Jobs, NEW again, endJob(j, again)
      PROVE  DOMAIN jobs' = Jobs /\ DOMAIN driver' = DOMAIN driver /\ \A i \in Jobs : DOMAIN jobs'[i] = DOMAIN jobs[j]
  BY <1>1, <1>2 DEF Shapes, endJob, goesOn, NoJob, Jobs
<1>3. ASSUME NEW kinds, NEW a, DOMAIN a = DOMAIN agent, say(kinds, a) PROVE DOMAIN agent' = DOMAIN agent
  BY <1>3 DEF say
<1>4. CASE Prompt
  BY <1>1, <1>4 DEF Shapes, Prompt
<1>5. CASE Check
  <2>1. DOMAIN driver' = DOMAIN driver /\ DOMAIN agent' = DOMAIN agent /\ DOMAIN ghost' = DOMAIN ghost
    BY <1>5 DEF Check, goesOn, startAuto
  <2>2. CASE jobs' = jobs
    BY <1>1, <2>1, <2>2 DEF Shapes
  <2>3. CASE \E job : startAuto(job) /\ DOMAIN job = DOMAIN NoJob
    BY <1>1, <2>1, <2>3, StartedJob DEF Shapes, Jobs
  <2>4. DOMAIN [NoJob EXCEPT !.emergency = TRUE, !.retry = TRUE] = DOMAIN NoJob
    OBVIOUS
  <2>5. CASE Recovers
    BY <2>3, <2>4, <2>5 DEF Recovers
  <2>6. ASSUME NEW ratio \in Ratios, Measures(ratio) PROVE Shapes'
    <3>1. CASE Passes
      BY <2>2, <3>1 DEF Passes
    <3>2. CASE startAuto([NoJob EXCEPT !.emergency = ratio = 3, !.rearmed = ghost'.low])
      <4>1. PICK job : job = [NoJob EXCEPT !.emergency = ratio = 3, !.rearmed = ghost'.low]
        OBVIOUS
      <4>2. DOMAIN job = DOMAIN NoJob
        BY <4>1
      <4>3. startAuto(job)
        BY <3>2, <4>1, Zenon
      <4>4. QED
        BY <2>3, <4>2, <4>3
    <3>3. QED
      BY <2>6, <3>1, <3>2 DEF Measures
  <2>7. QED
    BY <1>5, <2>2, <2>5, <2>6, CheckOutcomes DEF Passes
<1>6. CASE StartRun
  BY <1>1, <1>3, <1>6 DEF Shapes, StartRun, endRun
<1>7. CASE Reply
  BY <1>1, <1>3, <1>7 DEF Shapes, Reply, endRun
<1>8. CASE ToolResult
  BY <1>1, <1>3, <1>8 DEF Shapes, ToolResult
<1>9. CASE Aborted
  BY <1>1, <1>3, <1>9 DEF Shapes, Aborted, endRun
<1>10. CASE RunBreaks
  BY <1>1, <1>10 DEF Shapes, RunBreaks
<1>11. CASE Abort
  BY <1>1, <1>11 DEF Shapes, Abort
<1>12. CASE ManualStart
  BY <1>1, <1>12 DEF Shapes, ManualStart, NoJob, Jobs
<1>13. CASE ManualIdle
  BY <1>1, <1>13 DEF Shapes, ManualIdle, Jobs
<1>14. CASE AbortCompaction
  BY <1>1, <1>14 DEF Shapes, AbortCompaction, Jobs
<1>15. ASSUME NEW j \in Jobs, Begin(j) PROVE Shapes'
  <2>1. DOMAIN agent' = DOMAIN agent /\ ghost' = ghost
    BY <1>15 DEF Begin
  <2>2. CASE endJob(j, FALSE)
    BY <1>1, <1>2, <2>1, <2>2, ZenonT(60) DEF Shapes
  <2>3. CASE ~endJob(j, FALSE)
    <3>1. driver' = driver /\ \E es, e : jobs' = captured(j, es, e)
      BY <1>15, <2>3 DEF Begin
    <3>2. PICK es, e : jobs' = captured(j, es, e)
      BY <3>1
    <3>3. DOMAIN jobs' = Jobs /\ \A i \in Jobs : DOMAIN jobs'[i] = DOMAIN jobs[i]
      BY <1>1, <3>2, CapturedJob
    <3>4. QED
      BY <1>1, <2>1, <3>1, <3>3 DEF Shapes
  <2>4. QED
    BY <2>2, <2>3
<1>16. ASSUME NEW j \in Jobs, JobFails(j) PROVE Shapes'
  BY <1>1, <1>2, <1>16, ZenonT(60) DEF Shapes, JobFails
<1>17. ASSUME NEW j \in Jobs, Commit(j) PROVE Shapes'
  <2>1. DOMAIN agent' = DOMAIN agent /\ DOMAIN ghost' = DOMAIN ghost
    BY <1>17 DEF Commit
  <2>2. PICK again : endJob(j, again)
    BY <1>17 DEF Commit
  <2>3. QED
    BY <1>1, <1>2, <2>1, <2>2 DEF Shapes
<1>18. ASSUME NEW e \in DOMAIN entries, NavigateTree(e) PROVE Shapes'
  BY <1>1, <1>18 DEF Shapes, NavigateTree
<1>19. CASE CustomEntry
  BY <1>1, <1>19 DEF Shapes, CustomEntry
<1>20. CASE Foreign
  BY <1>1, <1>20 DEF Shapes, Foreign
<1>21. CASE UNCHANGED vars
  BY <1>1, <1>21 DEF Shapes, vars
<1>22. QED
  BY <1>4, <1>5, <1>6, <1>7, <1>8, <1>9, <1>10, <1>11, <1>12, <1>13, <1>14, <1>15, <1>16, <1>17, <1>18, <1>19, <1>20, <1>21 DEF Next, Jobs

(* The end of a compaction. *)
LEMMA EndedJob ==
  ASSUME Shapes, NEW j \in Jobs, NEW again, endJob(j, again)
  PROVE  /\ jobs'[j] = NoJob /\ \A i \in Jobs : i # j => jobs'[i] = jobs[i]
         /\ driver' = IF j = "auto" THEN goesOn(again) ELSE driver
  BY DEF Shapes, endJob

(* The steps that leave the compactions and the hysteresis alone. *)
LEMMA QuietSteps ==
  ASSUME Shapes, [Next]_vars
  PROVE  \/ jobs' = jobs /\ armed' = armed /\ ghost'.low = ghost.low
         \/ Check \/ ManualStart \/ ManualIdle \/ AbortCompaction
         \/ \E j \in Jobs : Begin(j) \/ JobFails(j) \/ Commit(j)
<1>1. CASE Prompt
  BY <1>1 DEF Prompt, Shapes
<1>2. CASE StartRun
  BY <1>2 DEF StartRun, Shapes
<1>3. CASE Reply
  BY <1>3 DEF Reply, Shapes
<1>4. CASE ToolResult
  BY <1>4 DEF ToolResult
<1>5. CASE Aborted
  BY <1>5 DEF Aborted, Shapes
<1>6. CASE RunBreaks
  BY <1>6 DEF RunBreaks, Shapes
<1>7. CASE Abort
  BY <1>7 DEF Abort
<1>8. CASE (\E e \in DOMAIN entries : NavigateTree(e)) \/ CustomEntry \/ Foreign
  BY <1>8 DEF NavigateTree, CustomEntry, Foreign
<1>9. CASE UNCHANGED vars
  BY <1>9 DEF vars
<1>10. QED
  BY <1>1, <1>2, <1>3, <1>4, <1>5, <1>6, <1>7, <1>8, <1>9 DEF Next, Jobs

(* A summary under way keeps to the branch it captured. *)
LEMMA CapturedNext ==
  ASSUME CompactionInv, [Next]_vars
  PROVE  CapturedInv'
<1>1. /\ Shapes /\ CapturedInv /\ TreeInv' /\ Len(entries) \in Nat /\ Len(entries') \in Nat
      /\ Len(entries) <= Len(entries') /\ \A i \in 1..Len(entries) : entries'[i] = entries[i]
  BY TreeNext DEF CompactionInv, TreeInv
<1>2. ASSUME NEW j \in Jobs, jobs'[j].pc = "summary",
             jobs[j].pc = "summary" /\ jobs'[j].base = jobs[j].base /\ jobs'[j].branch = jobs[j].branch
      PROVE  \E e \in 0..Len(entries') : jobs'[j].base[3] = e /\ jobs'[j].branch = branchOf(entries', e)
  <2>1. PICK e \in 0..Len(entries) : jobs[j].base[3] = e /\ jobs[j].branch = branchOf(entries, e)
    BY <1>1, <1>2 DEF CapturedInv
  <2>2. e \in Nat /\ \A i \in 1..e : entries'[i] = entries[i]
    BY <1>1
  <2>3. branchOf(entries', e) = branchOf(entries, e)
    BY <2>2, BranchSettled
  <2>4. e \in 0..Len(entries')
    BY <1>1
  <2>5. QED
    BY <1>2, <2>1, <2>3, <2>4
<1>3. SUFFICES ASSUME NEW j \in Jobs, jobs'[j].pc = "summary"
               PROVE  \E e \in 0..Len(entries') : jobs'[j].base[3] = e /\ jobs'[j].branch = branchOf(entries', e)
  BY DEF CapturedInv
<1>4. CASE jobs' = jobs
  BY <1>2, <1>3, <1>4
<1>5. ASSUME jobs'[j] = jobs[j] PROVE \E e \in 0..Len(entries') : jobs'[j].base[3] = e /\ jobs'[j].branch = branchOf(entries', e)
  BY <1>2, <1>3, <1>5
<1>6. CASE Check
  <2>1. ASSUME NEW job, DOMAIN job = DOMAIN NoJob, startAuto(job) PROVE jobs'[j] = jobs[j]
    BY <1>1, <1>3, <2>1, StartedJob DEF Jobs
  <2>2. CASE Recovers
    <3>1. DOMAIN [NoJob EXCEPT !.emergency = TRUE, !.retry = TRUE] = DOMAIN NoJob
      OBVIOUS
    <3>2. QED
      BY <1>5, <2>1, <2>2, <3>1 DEF Recovers
  <2>3. ASSUME NEW ratio \in Ratios, Measures(ratio) PROVE jobs'[j] = jobs[j]
    <3>1. PICK job : job = [NoJob EXCEPT !.emergency = ratio = 3, !.rearmed = ghost'.low]
      OBVIOUS
    <3>2. DOMAIN job = DOMAIN NoJob
      BY <3>1
    <3>3. CASE startAuto([NoJob EXCEPT !.emergency = ratio = 3, !.rearmed = ghost'.low])
      <4>1. startAuto(job)
        BY <3>1, <3>3, Zenon
      <4>2. QED
        BY <2>1, <3>2, <4>1
    <3>4. QED
      BY <2>3, <3>3 DEF Measures, Passes
  <2>4. QED
    BY <1>4, <1>5, <1>6, <2>2, <2>3, CheckOutcomes DEF Passes
<1>7. CASE ManualStart
  BY <1>1, <1>3, <1>5, <1>7 DEF ManualStart, NoJob, Shapes, Jobs
<1>8. CASE ManualIdle
  BY <1>1, <1>3, <1>5, <1>8 DEF ManualIdle, Shapes, Jobs
<1>9. CASE AbortCompaction
  BY <1>1, <1>2, <1>3, <1>9 DEF AbortCompaction, Shapes, Jobs
<1>10. ASSUME NEW i \in Jobs, NEW again, endJob(i, again)
       PROVE  \E e \in 0..Len(entries') : jobs'[j].base[3] = e /\ jobs'[j].branch = branchOf(entries', e)
  <2>1. i # j
    <3>1. NoJob.pc # "summary"
      BY DEF NoJob
    <3>2. QED
      BY <1>1, <1>3, <1>10, <3>1, EndedJob
  <2>2. QED
    BY <1>1, <1>5, <1>10, <2>1, EndedJob
<1>11. ASSUME NEW i \in Jobs, Begin(i)
       PROVE  \E e \in 0..Len(entries') : jobs'[j].base[3] = e /\ jobs'[j].branch = branchOf(entries', e)
  <2>1. CASE endJob(i, FALSE)
    BY <1>10, <2>1
  <2>2. CASE jobs' = captured(i, entries', leaf')
    <3>1. CASE i = j
      <4>1. jobs'[j].branch = branchOf(entries', leaf') /\ jobs'[j].base = <<Len(entries'), foreign, leaf'>>
        BY <1>1, <2>2, <3>1, CapturedJob
      <4>2. <<Len(entries'), foreign, leaf'>>[3] = leaf'
        OBVIOUS
      <4>3. jobs'[j].base[3] = leaf'
        BY <4>1, <4>2, Zenon
      <4>4. leaf' \in 0..Len(entries')
        BY <1>1 DEF TreeInv
      <4>5. QED
        BY <4>1, <4>3, <4>4
    <3>2. CASE i # j
      BY <1>1, <1>5, <2>2, <3>2, CapturedJob
    <3>3. QED
      BY <3>1, <3>2
  <2>3. QED
    BY <1>11, <2>1, <2>2 DEF Begin
<1>12. ASSUME NEW i \in Jobs, Commit(i) PROVE \E again : endJob(i, again)
  BY <1>12 DEF Commit
<1>13. ASSUME NEW i \in Jobs, JobFails(i) PROVE endJob(i, FALSE)
  BY <1>13 DEF JobFails
<1>14. QED
  BY <1>1, <1>4, <1>6, <1>7, <1>8, <1>9, <1>10, <1>11, <1>12, <1>13, QuietSteps

(* Usage is looked at, and the record of it kept, before a compaction. *)
LEMMA ThresholdNext ==
  ASSUME CompactionInv, [Next]_vars
  PROVE  ThresholdInv'
<1>1. Shapes /\ ThresholdInv
  BY DEF CompactionInv
<1>2. ASSUME armed' = armed, ghost'.low = ghost.low,
             \/ jobs'.auto.pc = "none"
             \/ /\ jobs.auto.pc # "none"
                /\ jobs'.auto.emergency = jobs.auto.emergency /\ jobs'.auto.rearmed = jobs.auto.rearmed
      PROVE  ThresholdInv'
  BY <1>1, <1>2 DEF ThresholdInv
<1>3. CASE jobs' = jobs /\ armed' = armed /\ ghost'.low = ghost.low
  BY <1>1, <1>3 DEF ThresholdInv
<1>4. CASE Check
  <2>1. CASE Passes /\ UNCHANGED <<agent, armed, tried, ghost>>
    BY <1>3, <2>1 DEF Passes
  <2>2. CASE Recovers
    <3>1. PICK job : job = [NoJob EXCEPT !.emergency = TRUE, !.retry = TRUE]
      OBVIOUS
    <3>2. DOMAIN job = DOMAIN NoJob /\ job.emergency = TRUE /\ "pc" \in DOMAIN job
      BY <3>1 DEF NoJob
    <3>3. startAuto(job) /\ armed' = armed /\ ghost' = [ghost EXCEPT !.overflows = @ + 1]
      BY <2>2, <3>1 DEF Recovers
    <3>4. jobs'.auto = [job EXCEPT !.pc = "auth"]
      BY <1>1, <3>2, <3>3, StartedJob
    <3>5. jobs'.auto.emergency = TRUE
      BY <3>2, <3>4
    <3>6. ghost'.low = ghost.low
      BY <1>1, <3>3 DEF Shapes
    <3>7. QED
      BY <1>1, <3>3, <3>5, <3>6 DEF ThresholdInv
  <2>3. ASSUME NEW ratio \in Ratios, Measures(ratio) PROVE ThresholdInv'
    <3>1. armed' = (armed \/ ratio = 0) /\ ghost'.low = (ghost.low \/ ratio = 0)
      BY <1>1, <2>3 DEF Measures, armedAt, Shapes
    <3>2. armed' \in BOOLEAN /\ ghost'.low \in BOOLEAN /\ (armed' => ghost'.low)
      BY <1>1, <3>1 DEF ThresholdInv
    <3>3. CASE jobs' = jobs
      BY <1>1, <3>2, <3>3 DEF ThresholdInv
    <3>4. CASE compactAt(ratio) /\ startAuto([NoJob EXCEPT !.emergency = ratio = 3, !.rearmed = ghost'.low])
      <4>1. PICK job : job = [NoJob EXCEPT !.emergency = ratio = 3, !.rearmed = ghost'.low]
        OBVIOUS
      <4>2. DOMAIN job = DOMAIN NoJob /\ job.rearmed = ghost'.low /\ job.emergency = (ratio = 3) /\ "pc" \in DOMAIN job
        BY <4>1 DEF NoJob
      <4>3. startAuto(job)
        BY <3>4, <4>1, Zenon
      <4>4. jobs'.auto = [job EXCEPT !.pc = "auth"]
        BY <1>1, <4>2, <4>3, StartedJob
      <4>5. jobs'.auto.rearmed = ghost'.low /\ jobs'.auto.emergency = (ratio = 3)
        BY <4>2, <4>4
      <4>6. ratio = 3 \/ ghost'.low
        BY <1>1, <3>1, <3>4 DEF compactAt, armedAt, ThresholdInv
      <4>7. QED
        BY <3>2, <4>5, <4>6 DEF ThresholdInv
    <3>5. QED
      BY <2>3, <3>3, <3>4 DEF Measures, Passes
  <2>4. QED
    BY <1>4, <2>1, <2>2, <2>3, CheckOutcomes
<1>5. CASE ManualStart
  BY <1>1, <1>2, <1>5 DEF ManualStart, Shapes, Jobs, ThresholdInv
<1>6. CASE ManualIdle
  BY <1>1, <1>2, <1>6 DEF ManualIdle, Shapes, Jobs, ThresholdInv
<1>7. CASE AbortCompaction
  <2>1. /\ armed' = armed /\ ghost' = ghost
        /\ jobs'.auto.pc = jobs.auto.pc /\ jobs'.auto.emergency = jobs.auto.emergency
        /\ jobs'.auto.rearmed = jobs.auto.rearmed
    BY <1>1, <1>7 DEF AbortCompaction, Shapes, Jobs
  <2>2. QED
    BY <1>2, <2>1
<1>8. ASSUME NEW j \in Jobs, NEW again, endJob(j, again)
      PROVE  \/ jobs'.auto.pc = "none"
             \/ jobs'.auto = jobs.auto
  BY <1>1, <1>8, EndedJob DEF NoJob, Jobs
<1>9. ASSUME NEW j \in Jobs, Begin(j) PROVE ThresholdInv'
  <2>1. armed' = armed /\ ghost' = ghost
    BY <1>9 DEF Begin
  <2>2. CASE endJob(j, FALSE)
    <3>1. jobs'.auto.pc = "none" \/ jobs'.auto = jobs.auto
      BY <1>8, <2>2
    <3>2. QED
      BY <1>1, <2>1, <3>1 DEF ThresholdInv
  <2>3. CASE jobs' = captured(j, entries', leaf')
    <3>1. CASE j = "auto"
      <4>1. jobs.auto.pc # "none"
        BY <1>9, <3>1 DEF Begin
      <4>2. QED
        BY <1>1, <1>2, <2>1, <2>3, <3>1, <4>1, CapturedJob
    <3>2. CASE j # "auto"
      <4>1. jobs'.auto = jobs.auto
        BY <1>1, <2>3, <3>2, CapturedJob DEF Jobs
      <4>2. QED
        BY <1>1, <2>1, <4>1 DEF ThresholdInv
    <3>3. QED
      BY <3>1, <3>2
  <2>4. QED
    BY <1>9, <2>2, <2>3 DEF Begin
<1>10. ASSUME NEW j \in Jobs, JobFails(j) PROVE ThresholdInv'
  BY <1>1, <1>8, <1>10 DEF JobFails, ThresholdInv
<1>11. ASSUME NEW j \in Jobs, Commit(j) PROVE ThresholdInv'
  <2>1. PICK again : endJob(j, again)
    BY <1>11 DEF Commit
  <2>2. \/ armed' = armed /\ ghost' = ghost
        \/ armed' = FALSE /\ ghost' = [ghost EXCEPT !.low = FALSE]
    BY <1>11 DEF Commit, armedAfterCommit
  <2>3. \/ armed' = armed /\ ghost'.low = ghost.low
        \/ armed' = FALSE /\ ghost'.low = FALSE
    BY <1>1, <2>2 DEF Shapes
  <2>4. jobs'.auto.pc = "none" \/ jobs'.auto = jobs.auto
    BY <1>8, <2>1
  <2>5. armed' \in BOOLEAN /\ ghost'.low \in BOOLEAN /\ (armed' => ghost'.low)
    <3>1. CASE armed' = armed /\ ghost'.low = ghost.low
      BY <1>1, <3>1 DEF ThresholdInv
    <3>2. CASE armed' = FALSE /\ ghost'.low = FALSE
      BY <3>2
    <3>3. QED
      BY <2>3, <3>1, <3>2
  <2>6. jobs'.auto.pc # "none" /\ ~jobs'.auto.emergency => jobs'.auto.rearmed
    BY <1>1, <2>4 DEF ThresholdInv
  <2>7. QED
    BY <2>5, <2>6 DEF ThresholdInv
<1>12. QED
  BY <1>1, <1>3, <1>4, <1>5, <1>6, <1>7, <1>9, <1>10, <1>11, QuietSteps

(* Where the chain is after a check or a compaction. *)
LEMMA GoesOn ==
  ASSUME Shapes, NEW again \in BOOLEAN, driver.at \in {"pre", "projected", "post"}
  PROVE  /\ goesOn(again).waiting = FALSE
         /\ goesOn(again).last = IF driver.at = "post" THEN None ELSE driver.last
         /\ goesOn(again).at \in {"continue", "projected", "run", "idle"}
         /\ goesOn(again).at = "continue" => again
<1>1. PICK at : at = CASE driver.at # "projected" /\ again -> "continue"
                       [] driver.at = "pre" \/ (driver.at = "post" /\ driver.prompting) -> "projected"
                       [] driver.at = "projected" -> "run"
                       [] OTHER -> "idle"
  OBVIOUS
<1>2. at \in {"continue", "projected", "run", "idle"} /\ (at = "continue" => again)
  BY <1>1
<1>3. goesOn(again) = [driver EXCEPT !.waiting = FALSE, !.last = IF driver.at = "post" THEN None ELSE @,
                                     !.at = at, !.prompting = @ /\ driver.at # "projected"]
  BY <1>1 DEF goesOn
<1>4. goesOn(again).waiting = FALSE /\ goesOn(again).at = at
  BY <1>3 DEF Shapes
<1>5. goesOn(again).last = IF driver.at = "post" THEN None ELSE driver.last
  BY <1>3 DEF Shapes
<1>6. QED
  BY <1>2, <1>4, <1>5

(* _lastAssistantMessage after messages none of which is an overflow. *)
LEMMA HeardKind ==
  ASSUME NEW kinds \in {<<>>, <<"result">>, <<"call">>, <<"aborted">>, <<"failure">>, <<"result", "failure">>},
         driver.last.kind \notin Overflows
  PROVE  heard(kinds).kind \notin Overflows
<1> DEFINE said == {i \in DOMAIN kinds : kinds[i] \in Assistants}
           last == CHOOSE i \in said : \A j \in said : j <= i
<1>1. DOMAIN kinds \subseteq 1..2 /\ \A i \in DOMAIN kinds : kinds[i] \notin Overflows
  BY DEF Overflows
<1>2. CASE ~(connected /\ said # {})
  BY <1>2 DEF heard
<1>3. CASE connected /\ said # {}
  <2>1. \E i \in said : \A j \in said : j <= i
    <3>1. CASE 2 \in said
      BY <1>1, <3>1
    <3>2. CASE 2 \notin said
      BY <1>1, <1>3, <3>2
    <3>3. QED
      BY <3>1, <3>2
  <2>2. last \in said
    <3> HIDE DEF said
    <3>1. QED
      BY <2>1
  <2>3. heard(kinds) = spoken(kinds, TRUE)[last]
    BY <1>3 DEF heard
  <2>4. last \in DOMAIN kinds
    BY <2>2
  <2> HIDE DEF last, said
  <2>5. heard(kinds).kind = kinds[last]
    BY <2>3, <2>4 DEF spoken
  <2>6. QED
    BY <1>1, <2>4, <2>5
<1>4. QED
  BY <1>2, <1>3

(* The end of a run. *)
LEMMA EndedRun ==
  ASSUME Shapes, NEW kinds, endRun(kinds)
  PROVE  /\ agent'.pc = "idle" /\ driver'.at = "post" /\ driver'.last = heard(kinds)
         /\ driver'.waiting = driver.waiting
  BY DEF Shapes, endRun, say

(* The chain of a prompt and the overflow it remembers, step by step. *)
LEMMA ControlNext ==
  ASSUME CompactionInv, [Next]_vars
  PROVE  ChainInv' /\ OverflowInv'
<1>1. Shapes /\ ChainInv /\ OverflowInv
  BY DEF CompactionInv
<1>2. None.kind \notin Overflows
  BY DEF None, Overflows
<1>3. ASSUME driver' = driver, agent'.pc = agent.pc, tried' = tried, ghost' = ghost,
             jobs'.auto.pc = jobs.auto.pc, jobs'.auto.retry = jobs.auto.retry
      PROVE  ChainInv' /\ OverflowInv'
  BY <1>1, <1>3 DEF ChainInv, OverflowInv
<1>4. ASSUME NEW again \in BOOLEAN, driver' = goesOn(again), again => tried,
             driver.at \in {"pre", "projected", "post"}, agent'.pc = agent.pc, tried' = tried,
             ghost'.overflows = ghost.overflows, jobs'.auto.pc = "none", jobs'.auto.retry = FALSE
      PROVE  ChainInv' /\ OverflowInv'
  <2>1. /\ driver'.waiting = FALSE /\ driver'.at \in {"continue", "projected", "run", "idle"}
        /\ driver'.at = "continue" => tried
    BY <1>1, <1>4, GoesOn
  <2>2. driver'.last = IF driver.at = "post" THEN None ELSE driver.last
    BY <1>1, <1>4, GoesOn
  <2>3. driver'.last.kind \notin Overflows
    BY <1>1, <1>2, <2>2 DEF ChainInv
  <2>4. agent.pc = "idle"
    BY <1>1, <1>4 DEF ChainInv
  <2>5. ChainInv'
    BY <1>1, <1>4, <2>1, <2>3, <2>4 DEF ChainInv, Places
  <2>6. OverflowInv'
    BY <1>1, <1>4, <2>1 DEF OverflowInv
  <2>7. QED
    BY <2>5, <2>6
<1>5. ASSUME driver.at \notin {"pre", "projected", "post"} PROVE driver.waiting = FALSE /\ jobs.auto.retry = FALSE /\ jobs.auto.pc = "none"
  BY <1>1, <1>5 DEF ChainInv
<1>6. CASE Prompt
  <2>1. driver.at = "idle" /\ driver'.at = "pre" /\ driver'.waiting = driver.waiting /\ driver'.last = driver.last
    BY <1>1, <1>6 DEF Prompt, Shapes
  <2>2. ghost' = ghost /\ agent' = agent /\ jobs' = jobs /\ tried' = tried
    BY <1>6 DEF Prompt
  <2>3. QED
    BY <1>1, <2>1, <2>2 DEF ChainInv, OverflowInv, Places
<1>7. CASE Check
  <2>1. driver.at \in {"pre", "projected", "post"} /\ driver.waiting = FALSE
    BY <1>1, <1>7, CheckOutcomes DEF ChainInv
  <2>2. jobs.auto.pc = "none" /\ jobs.auto.retry = FALSE /\ agent.pc = "idle"
    BY <1>1, <2>1 DEF ChainInv
  <2>3. CASE Passes /\ UNCHANGED <<agent, armed, tried, ghost>>
    BY <1>4, <2>1, <2>2, <2>3 DEF Passes
  <2>4. ASSUME NEW job, DOMAIN job = DOMAIN NoJob, startAuto(job), agent'.pc = agent.pc
        PROVE  /\ driver'.at = driver.at /\ driver'.waiting = TRUE /\ driver'.last.kind \notin Overflows
               /\ jobs'.auto.pc = "auth" /\ jobs'.auto.retry = job.retry
    <3>1. driver'.last = (IF driver.at = "post" THEN None ELSE driver.last) /\ driver'.at = driver.at /\ driver'.waiting = TRUE
      BY <1>1, <2>4, StartedJob
    <3>2. jobs'.auto = [job EXCEPT !.pc = "auth"] /\ jobs'.auto.pc = "auth"
      BY <1>1, <2>4, StartedJob
    <3>3. jobs'.auto.retry = job.retry
      BY <2>4, <3>2 DEF NoJob
    <3>4. driver'.last.kind \notin Overflows
      BY <1>1, <1>2, <3>1 DEF ChainInv
    <3>5. QED
      BY <3>1, <3>2, <3>3, <3>4
  <2>5. CASE Recovers
    <3>1. PICK job : job = [NoJob EXCEPT !.emergency = TRUE, !.retry = TRUE]
      OBVIOUS
    <3>2. DOMAIN job = DOMAIN NoJob /\ job.retry = TRUE
      BY <3>1 DEF NoJob
    <3>3. /\ startAuto(job) /\ driver.at # "projected" /\ checked.kind \in Overflows /\ ~tried /\ tried' = TRUE
          /\ ghost' = [ghost EXCEPT !.overflows = @ + 1]
      BY <2>5, <3>1 DEF Recovers
    <3>4. agent'.pc = agent.pc
      BY <1>1, <2>5 DEF Recovers, Shapes
    <3>5. ghost.overflows = 0
      BY <1>1, <2>1, <3>3 DEF OverflowInv, checked
    <3>6. ghost'.overflows = 1
      BY <1>1, <3>3, <3>5 DEF Shapes
    <3>7. /\ driver'.at = driver.at /\ driver'.waiting = TRUE /\ driver'.last.kind \notin Overflows
          /\ jobs'.auto.pc = "auth" /\ jobs'.auto.retry = TRUE
      BY <2>4, <3>2, <3>3, <3>4
    <3>8. ChainInv'
      BY <2>1, <2>2, <3>3, <3>4, <3>7 DEF ChainInv, Places
    <3>9. OverflowInv'
      BY <3>3, <3>6 DEF OverflowInv
    <3>10. QED
      BY <3>8, <3>9
  <2>6. ASSUME NEW ratio \in Ratios, Measures(ratio) PROVE ChainInv' /\ OverflowInv'
    <3>1. agent' = agent /\ tried' = tried /\ ghost'.overflows = ghost.overflows
      BY <1>1, <2>6 DEF Measures, Shapes
    <3>2. CASE Passes
      BY <1>4, <2>1, <2>2, <3>1, <3>2 DEF Passes
    <3>3. CASE startAuto([NoJob EXCEPT !.emergency = ratio = 3, !.rearmed = ghost'.low])
      <4>1. PICK job : job = [NoJob EXCEPT !.emergency = ratio = 3, !.rearmed = ghost'.low]
        OBVIOUS
      <4>2. DOMAIN job = DOMAIN NoJob /\ job.retry = FALSE
        BY <4>1 DEF NoJob
      <4>3. startAuto(job)
        BY <3>3, <4>1, Zenon
      <4>4. /\ driver'.at = driver.at /\ driver'.waiting = TRUE /\ driver'.last.kind \notin Overflows
            /\ jobs'.auto.pc = "auth" /\ jobs'.auto.retry = FALSE
        BY <2>4, <3>1, <4>2, <4>3
      <4>5. ChainInv'
        BY <1>1, <2>1, <2>2, <3>1, <4>4 DEF ChainInv, Places
      <4>6. OverflowInv'
        BY <1>1, <3>1, <4>4 DEF OverflowInv
      <4>7. QED
        BY <4>5, <4>6
    <3>4. QED
      BY <2>6, <3>2, <3>3 DEF Measures
  <2>7. QED
    BY <1>7, <2>3, <2>5, <2>6, CheckOutcomes
<1>8. ASSUME NEW kinds, endRun(kinds), jobs' = jobs, driver.at \in {"run", "continue", "running"}, tried' \in BOOLEAN,
             ghost'.overflows \in 0..1, ghost'.overflows = 0 \/ tried'
      PROVE  ChainInv' /\ OverflowInv'
  <2>1. agent'.pc = "idle" /\ driver'.at = "post" /\ driver'.last = heard(kinds) /\ driver'.waiting = driver.waiting
    BY <1>1, <1>8, EndedRun
  <2>2. ChainInv'
    BY <1>5, <1>8, <2>1 DEF ChainInv, Places
  <2>3. OverflowInv'
    BY <1>8 DEF OverflowInv
  <2>4. QED
    BY <2>2, <2>3
<1>9. CASE StartRun
  <2>1. driver.at \in {"run", "continue"} /\ jobs' = jobs
    BY <1>9 DEF StartRun
  <2>2. driver.last.kind \notin Overflows
    BY <1>1, <2>1 DEF ChainInv
  <2>3. CASE connected /\ activeRun
    <3>1. endRun(failure(agentKinds)) /\ tried' = tried /\ ghost' = ghost
      BY <1>9, <2>3 DEF StartRun
    <3>2. QED
      BY <1>1, <1>8, <2>1, <3>1 DEF ChainInv, OverflowInv
  <2>4. CASE ~(connected /\ activeRun)
    <3>1. driver' = [driver EXCEPT !.at = "running"] /\ tried' = attempted /\ ghost' = [ghost EXCEPT !.overflows = IF opening # <<>> THEN 0 ELSE @]
      BY <1>9, <2>4 DEF StartRun
    <3>2. agent'.pc = "streaming"
      BY <1>1, <1>9, <2>4 DEF StartRun, say, Shapes
    <3>3. driver'.at = "running" /\ driver'.waiting = driver.waiting /\ driver'.last = driver.last
      BY <1>1, <3>1 DEF Shapes
    <3>4. ghost'.overflows = IF opening # <<>> THEN 0 ELSE ghost.overflows
      BY <1>1, <3>1 DEF Shapes
    <3>5. tried' \in BOOLEAN /\ (opening = <<>> /\ tried => tried')
      BY <1>1, <3>1 DEF attempted, ChainInv
    <3>6. ChainInv'
      BY <1>5, <2>1, <2>2, <3>2, <3>3, <3>5 DEF ChainInv, Places
    <3>7. OverflowInv'
      BY <1>1, <2>1, <3>4, <3>5 DEF OverflowInv
    <3>8. QED
      BY <3>6, <3>7
  <2>5. QED
    BY <2>3, <2>4
<1>10. CASE Reply
  <2>1. driver.at = "running" /\ jobs' = jobs /\ driver.last.kind \notin Overflows
    BY <1>1, <1>10 DEF Reply, ChainInv
  <2>2. ghost.overflows = 0 \/ tried
    BY <1>1, <2>1 DEF OverflowInv
  <2>3. CASE endRun(<<>>) /\ UNCHANGED <<tried, ghost>>
    BY <1>1, <1>8, <2>1, <2>2, <2>3 DEF ChainInv, OverflowInv
  <2>4. ASSUME NEW k, endRun(<<k>>), tried' = (tried /\ ~(connected /\ k \notin Errors)),
               ghost' = [ghost EXCEPT !.overflows = IF k \in Errors THEN @ ELSE 0]
        PROVE  ChainInv' /\ OverflowInv'
    <3>1. ghost'.overflows = IF k \in Errors THEN ghost.overflows ELSE 0
      BY <1>1, <2>4 DEF Shapes
    <3>2. tried' \in BOOLEAN /\ (k \in Errors /\ tried => tried')
      BY <2>4
    <3>3. ghost'.overflows \in 0..1 /\ (ghost'.overflows = 0 \/ tried')
      BY <1>1, <2>2, <3>1, <3>2 DEF OverflowInv
    <3>4. QED
      BY <1>8, <2>1, <2>4, <3>2, <3>3
  <2>5. CASE /\ say(<<"call">>, [agent EXCEPT !.pc = "tool"]) /\ driver' = [driver EXCEPT !.last = heard(<<"call">>)]
             /\ tried' = (tried /\ ~connected) /\ ghost' = [ghost EXCEPT !.overflows = 0]
    <3>1. agent'.pc = "tool" /\ ghost'.overflows = 0 /\ tried' \in BOOLEAN
      BY <1>1, <2>5 DEF Shapes, say
    <3>2. driver'.at = "running" /\ driver'.waiting = driver.waiting /\ driver'.last = heard(<<"call">>)
      BY <1>1, <2>1, <2>5 DEF Shapes
    <3>3. heard(<<"call">>).kind \notin Overflows
      BY <2>1, HeardKind
    <3>4. driver.waiting = FALSE /\ jobs.auto.retry = FALSE /\ jobs.auto.pc = "none"
      BY <1>5, <2>1
    <3>5. ChainInv'
      BY <2>1, <3>1, <3>2, <3>3, <3>4 DEF ChainInv, Places
    <3>6. QED
      BY <3>1, <3>5 DEF OverflowInv
  <2>6. QED
    BY <1>10, <2>3, <2>4, <2>5 DEF Reply
<1>11. CASE ToolResult
  <2>1. /\ agent.pc = "tool" /\ agent'.pc = "streaming" /\ driver' = driver /\ jobs' = jobs
        /\ tried' = tried /\ ghost' = ghost
    BY <1>1, <1>11 DEF ToolResult, say, Shapes
  <2>2. QED
    BY <1>1, <2>1 DEF ChainInv, OverflowInv
<1>12. CASE Aborted
  <2>1. PICK kinds : kinds = (IF agent.pc = "tool" THEN <<"result">> ELSE <<"aborted">>)
    OBVIOUS
  <2>2. endRun(kinds) /\ jobs' = jobs /\ tried' \in BOOLEAN
    BY <1>12, <2>1 DEF Aborted
  <2>3. driver.at = "running"
    BY <1>1, <1>12 DEF Aborted, ChainInv
  <2>4. ghost'.overflows = (IF agent.pc = "streaming" THEN 0 ELSE ghost.overflows) /\ (agent.pc # "streaming" /\ tried => tried')
    BY <1>1, <1>12 DEF Aborted, Shapes
  <2>5. QED
    BY <1>1, <1>8, <2>2, <2>3, <2>4 DEF OverflowInv
<1>13. CASE RunBreaks
  <2>1. driver.at \in {"run", "continue", "running"} /\ jobs' = jobs /\ agent'.pc = "idle" /\ tried' \in BOOLEAN
    BY <1>13 DEF RunBreaks
  <2>2. \/ driver' = [driver EXCEPT !.at = "post"]
        \/ driver' = [driver EXCEPT !.at = "idle", !.prompting = FALSE]
    BY <1>13 DEF RunBreaks
  <2>3. driver'.at \in {"post", "idle"} /\ driver'.waiting = driver.waiting /\ driver'.last = driver.last
    BY <1>1, <2>2 DEF Shapes
  <2>4. driver.last.kind \notin Overflows
    BY <1>1, <2>1 DEF ChainInv
  <2>5. ChainInv'
    BY <1>5, <2>1, <2>3, <2>4 DEF ChainInv, Places
  <2>6. PICK kinds : /\ tried' = (tried /\ kinds # <<"user">>)
                     /\ ghost' = [ghost EXCEPT !.overflows = IF kinds = <<"user">> THEN 0 ELSE @]
    BY <1>13 DEF RunBreaks
  <2>7. ghost'.overflows = (IF kinds = <<"user">> THEN 0 ELSE ghost.overflows) /\ (kinds # <<"user">> /\ tried => tried')
    BY <1>1, <2>6 DEF Shapes
  <2>8. OverflowInv'
    BY <1>1, <2>7 DEF OverflowInv
  <2>9. QED
    BY <2>5, <2>8
<1>14. CASE Abort
  BY <1>1, <1>3, <1>14 DEF Abort, Shapes
<1>15. CASE ManualStart
  BY <1>1, <1>3, <1>15 DEF ManualStart, Shapes, Jobs
<1>16. CASE ManualIdle
  BY <1>1, <1>3, <1>16 DEF ManualIdle, Shapes, Jobs
<1>17. CASE AbortCompaction
  BY <1>1, <1>3, <1>17 DEF AbortCompaction, Shapes, Jobs
<1>18. ASSUME NEW j \in Jobs, NEW again \in BOOLEAN, endJob(j, again), again => jobs[j].retry, jobs[j].pc # "none",
              agent'.pc = agent.pc, tried' = tried, ghost'.overflows = ghost.overflows
       PROVE  ChainInv' /\ OverflowInv'
  <2>1. CASE j = "auto"
    <3>1. driver' = goesOn(again) /\ jobs'.auto = NoJob
      BY <1>1, <1>18, <2>1, EndedJob
    <3>2. jobs'.auto.pc = "none" /\ jobs'.auto.retry = FALSE
      BY <3>1 DEF NoJob
    <3>3. driver.at \in {"pre", "projected", "post"} /\ (again => tried)
      BY <1>1, <1>18, <2>1 DEF ChainInv
    <3>4. QED
      BY <1>4, <1>18, <3>1, <3>2, <3>3
  <2>2. CASE j # "auto"
    <3>1. driver' = driver /\ jobs'.auto = jobs.auto
      BY <1>1, <1>18, <2>2, EndedJob DEF Jobs
    <3>2. QED
      BY <1>1, <1>18, <3>1 DEF ChainInv, OverflowInv
  <2>3. QED
    BY <2>1, <2>2
<1>19. ASSUME NEW j \in Jobs, Begin(j) PROVE ChainInv' /\ OverflowInv'
  <2>1. tried' = tried /\ ghost' = ghost /\ jobs[j].pc = "auth"
    BY <1>19 DEF Begin
  <2>2. agent'.pc = agent.pc
    BY <1>1, <1>19 DEF Begin, Shapes
  <2>3. CASE endJob(j, FALSE)
    BY <1>18, <2>1, <2>2, <2>3
  <2>4. CASE jobs' = captured(j, entries', leaf') /\ driver' = driver
    <3>1. CASE j = "auto"
      <4>1. jobs'.auto.pc = "summary" /\ jobs'.auto.retry = jobs.auto.retry /\ jobs.auto.pc = "auth"
        BY <1>1, <2>1, <2>4, <3>1, CapturedJob
      <4>2. QED
        BY <1>1, <2>1, <2>2, <2>4, <4>1 DEF ChainInv, OverflowInv
    <3>2. CASE j # "auto"
      <4>1. jobs'.auto = jobs.auto
        BY <1>1, <2>4, <3>2, CapturedJob DEF Jobs
      <4>2. QED
        BY <1>3, <2>1, <2>2, <2>4, <4>1
    <3>3. QED
      BY <3>1, <3>2
  <2>5. QED
    BY <1>19, <2>3, <2>4 DEF Begin
<1>20. ASSUME NEW j \in Jobs, JobFails(j) PROVE ChainInv' /\ OverflowInv'
  <2>1. jobs[j].pc # "none" /\ endJob(j, FALSE) /\ agent' = agent /\ tried' = tried /\ ghost' = ghost
    BY <1>20 DEF JobFails
  <2>2. QED
    BY <1>18, <2>1
<1>21. ASSUME NEW j \in Jobs, Commit(j) PROVE ChainInv' /\ OverflowInv'
  <2>1. jobs[j].pc # "none" /\ tried' = tried
    BY <1>21 DEF Commit
  <2>2. agent'.pc = agent.pc
    BY <1>1, <1>21 DEF Commit, Shapes
  <2>3. ghost'.overflows = ghost.overflows
    BY <1>1, <1>21 DEF Commit, Shapes
  <2>4. CASE endJob(j, FALSE)
    BY <1>18, <2>1, <2>2, <2>3, <2>4
  <2>5. CASE endJob(j, jobs[j].retry)
    <3>1. CASE j = "auto"
      <4>1. jobs[j].retry \in BOOLEAN
        BY <1>1, <3>1 DEF ChainInv
      <4>2. QED
        BY <1>18, <2>1, <2>2, <2>3, <2>5, <4>1
    <3>2. CASE j # "auto"
      <4>1. endJob(j, FALSE)
        BY <2>5, <3>2 DEF endJob
      <4>2. QED
        BY <2>4, <4>1
    <3>3. QED
      BY <3>1, <3>2
  <2>6. QED
    BY <1>21, <2>4, <2>5 DEF Commit
<1>22. ASSUME NEW e \in DOMAIN entries, NavigateTree(e) PROVE ChainInv' /\ OverflowInv'
  BY <1>1, <1>3, <1>22 DEF NavigateTree, Shapes
<1>23. CASE CustomEntry
  BY <1>3, <1>23 DEF CustomEntry
<1>24. CASE Foreign
  BY <1>3, <1>24 DEF Foreign
<1>25. CASE UNCHANGED vars
  BY <1>3, <1>25 DEF vars
<1>26. QED
  BY <1>6, <1>7, <1>9, <1>10, <1>11, <1>12, <1>13, <1>14, <1>15, <1>16, <1>17, <1>19, <1>20, <1>21, <1>22, <1>23, <1>24, <1>25 DEF Next, Jobs

(* The invariant of the session. *)
LEMMA InvInit ==
  ASSUME Init
  PROVE  CompactionInv
<1>1. Shapes
  BY DEF Init, Shapes, Jobs, NoJob
<1>2. TreeInv /\ CapturedInv
  <2>1. entries = <<>> /\ entries \in Seq(Elements(entries)) /\ Len(entries) = 0 /\ leaf = 0 /\ foreign = FALSE
    BY DEF Init
  <2>2. \A j \in Jobs : jobs[j].pc = "none"
    BY DEF Init, Jobs, NoJob
  <2>3. TreeInv
    <3>1. 1..Len(entries) = {} /\ leaf \in 0..Len(entries)
      BY <2>1
    <3>2. QED
      BY <2>1, <3>1 DEF TreeInv
  <2>4. QED
    BY <2>2, <2>3 DEF CapturedInv
<1>3. ThresholdInv /\ OverflowInv
  BY DEF Init, ThresholdInv, OverflowInv, NoJob
<1>4. ChainInv
  BY DEF Init, ChainInv, Places, NoJob, None, Overflows
<1>5. SummaryCoversBranch /\ SourceCompactedOnce
  <2>1. Compactions = {}
    BY DEF Init, Compactions
  <2>2. QED
    BY <2>1 DEF SummaryCoversBranch, SourceCompactedOnce
<1>6. QED
  BY <1>1, <1>2, <1>3, <1>4, <1>5 DEF CompactionInv

(* Every state of a session satisfies the invariant. *)
LEMMA InvAlways == Spec => []CompactionInv
<1>1. Init => CompactionInv
  BY InvInit
<1>2. CompactionInv /\ [Next]_vars => CompactionInv'
  <2> SUFFICES ASSUME CompactionInv, [Next]_vars PROVE CompactionInv'
    OBVIOUS
  <2>1. QED
    BY ShapesNext, TreeNext, CapturedNext, ThresholdNext, ControlNext DEF CompactionInv
<1>3. QED
  BY <1>1, <1>2, PTL DEF Spec

(* A summary stands on exactly the branch it was made from:                *)
(* _commitCompaction compares the leaf and the number of entries with      *)
(* those captured before the provider was asked, and nothing that is       *)
(* appended changes a branch.                                              *)
THEOREM SummaryStandsOnItsBranch == Spec => []SummaryCoversBranch
<1>1. CompactionInv => SummaryCoversBranch
  BY DEF CompactionInv
<1>2. QED
  BY <1>1, InvAlways, PTL

(* No source is compacted twice, by compact() or by _runAutoCompaction, on *)
(* this branch or on another: the digests of all committed sources are     *)
(* looked at again when a summary is committed.                            *)
THEOREM CompactedOnce == Spec => []SourceCompactedOnce
<1>1. CompactionInv => SourceCompactedOnce
  BY DEF CompactionInv
<1>2. QED
  BY <1>1, InvAlways, PTL

(* Compaction does not run in circles: below the emergency ratio it starts *)
(* only when usage was low since the last commit, and                      *)
(* _overflowRecoveryAttempted allows one recovery until a user message or  *)
(* a reply that is no error.  An overflow that came without an error is    *)
(* such a reply, so recoveries from these may follow one another.          *)
THEOREM CompactionDoesNotThrash == Spec => []NoThrashing
<1>1. CompactionInv => NoThrashing
  BY DEF CompactionInv, ThresholdInv, OverflowInv, NoThrashing
<1>2. QED
  BY <1>1, InvAlways, PTL

(***************************************************************************)
(* Selections. only(s, S) is a recursive function of the length: what it   *)
(* returns is found by induction over the natural numbers, in the form     *)
(* that takes a set of them.                                               *)
(***************************************************************************)

(* Induction over the natural numbers, for a set of them. *)
LEMMA Inductively ==
  ASSUME NEW P \in SUBSET Nat, \A n \in Nat : 0..(n - 1) \subseteq P => n \in P
  PROVE  P = Nat
<1>1. PICK R : R = OpToRel(<, Nat)
  OBVIOUS
<1>2. IsWellFoundedOn(R, Nat)
  BY <1>1, NatLessThanWellFounded
<1>3. SUFFICES ASSUME Nat \ P # {} PROVE FALSE
  OBVIOUS
<1>4. PICK x \in Nat \ P : \A y \in Nat \ P : <<y, x>> \notin R
  BY <1>2, <1>3, WFMin
<1>5. R = {ss \in Nat \X Nat : ss[1] < ss[2]}
  BY <1>1 DEF OpToRel
<1>6. ASSUME NEW y \in 0..(x - 1) PROVE y \in P
  <2>1. <<y, x>> \in Nat \X Nat /\ <<y, x>>[1] = y /\ <<y, x>>[2] = x /\ y < x
    OBVIOUS
  <2>2. QED
    BY <1>4, <1>5, <2>1
<1>7. QED
  BY <1>4, <1>6

(* f is the recursive function of only(s, S), as far as m. *)
Keeps(f, s, S, m) ==
  /\ f[0] = <<>>
  /\ \A i \in 1..m : f[i] = IF s[i] \in S THEN Append(f[i - 1], s[i]) ELSE f[i - 1]

(* There is such a function. *)
LEMMA KeepsExists ==
  ASSUME NEW T, NEW s \in Seq(T), NEW S
  PROVE  \E f \in [0..Len(s) -> Seq(T)] : Keeps(f, s, S, Len(s))
<1> DEFINE P == {n \in Nat : n <= Len(s) => \E f \in [0..n -> Seq(T)] : Keeps(f, s, S, n)}
<1>1. ASSUME NEW n \in Nat, 0..(n - 1) \subseteq P PROVE n \in P
  <2>1. CASE n = 0
    <3>1. [i \in 0..0 |-> <<>>] \in [0..0 -> Seq(T)] /\ Keeps([i \in 0..0 |-> <<>>], s, S, 0)
      BY DEF Keeps
    <3>2. QED
      BY <2>1, <3>1
  <2>2. CASE n # 0 /\ n <= Len(s)
    <3>1. n - 1 \in 0..(n - 1) /\ n - 1 <= Len(s) /\ n \in 1..Len(s)
      BY <2>2
    <3>2. PICK f \in [0..(n - 1) -> Seq(T)] : Keeps(f, s, S, n - 1)
      BY <1>1, <3>1
    <3>3. PICK v \in Seq(T) : v = IF s[n] \in S THEN Append(f[n - 1], s[n]) ELSE f[n - 1]
      <4>1. f[n - 1] \in Seq(T) /\ s[n] \in T
        BY <3>1, <3>2
      <4>2. Append(f[n - 1], s[n]) \in Seq(T)
        BY <4>1, AppendProperties
      <4>3. QED
        BY <4>1, <4>2
    <3>4. PICK g : g = [i \in 0..n |-> IF i = n THEN v ELSE f[i]]
      OBVIOUS
    <3>5. g \in [0..n -> Seq(T)]
      BY <3>2, <3>3, <3>4
    <3>6. g[0] = <<>>
      BY <2>2, <3>2, <3>4 DEF Keeps
    <3>7. ASSUME NEW i \in 1..n
          PROVE  g[i] = IF s[i] \in S THEN Append(g[i - 1], s[i]) ELSE g[i - 1]
      <4>1. CASE i = n
        BY <3>1, <3>3, <3>4, <4>1
      <4>2. CASE i # n
        <5>1. i \in 1..(n - 1) /\ g[i] = f[i] /\ g[i - 1] = f[i - 1]
          BY <3>4, <4>2
        <5>2. QED
          BY <3>2, <5>1 DEF Keeps
      <4>3. QED
        BY <4>1, <4>2
    <3>8. Keeps(g, s, S, n)
      BY <3>6, <3>7 DEF Keeps
    <3>9. QED
      BY <3>5, <3>8
  <2>3. QED
    BY <2>1, <2>2
<1> HIDE DEF P
<1>2. P \in SUBSET Nat
  BY DEF P
<1>3. P = Nat
  BY <1>1, <1>2, Inductively
<1>4. Len(s) \in P
  BY <1>3
<1>5. QED
  BY <1>4 DEF P

(* only is its value at the end. *)
LEMMA OnlyKeeps ==
  ASSUME NEW T, NEW s \in Seq(T), NEW S
  PROVE  \E f \in [0..Len(s) -> Seq(T)] : Keeps(f, s, S, Len(s)) /\ only(s, S) = f[Len(s)]
<1> DEFINE eq(f) == f = [i \in 0..Len(s) |-> IF i = 0 THEN <<>> ELSE IF s[i] \in S THEN Append(f[i - 1], s[i]) ELSE f[i - 1]]
<1>1. PICK f \in [0..Len(s) -> Seq(T)] : Keeps(f, s, S, Len(s))
  BY KeepsExists
<1>2. eq(f)
  <2>1. f = [i \in 0..Len(s) |-> f[i]]
    BY <1>1
  <2>2. \A i \in 0..Len(s) : f[i] = IF i = 0 THEN <<>> ELSE IF s[i] \in S THEN Append(f[i - 1], s[i]) ELSE f[i - 1]
    <3>1. \A i \in 0..Len(s) : i = 0 \/ i \in 1..Len(s)
      OBVIOUS
    <3>2. QED
      BY <1>1, <3>1, Zenon DEF Keeps
  <2>3. QED
    BY <2>1, <2>2, Zenon
<1>3. PICK h : h = CHOOSE g : eq(g)
  OBVIOUS
<1>4. eq(h)
  <2> HIDE DEF eq
  <2>1. QED
    BY <1>2, <1>3, Zenon
<1>5. h[Len(s)] = only(s, S)
  BY <1>3, Zenon DEF only
<1>6. Keeps(h, s, S, Len(s))
  <2>1. \A i \in 0..Len(s) : h[i] = IF i = 0 THEN <<>> ELSE IF s[i] \in S THEN Append(h[i - 1], s[i]) ELSE h[i - 1]
    BY <1>4, Zenon
  <2>2. 0 \in 0..Len(s) /\ \A i \in 1..Len(s) : i \in 0..Len(s) /\ i # 0
    OBVIOUS
  <2>3. QED
    BY <2>1, <2>2, Zenon DEF Keeps
<1>7. h \in [0..Len(s) -> Seq(T)]
  <2> DEFINE P == {n \in Nat : n <= Len(s) => h[n] \in Seq(T)}
  <2>1. ASSUME NEW n \in Nat, 0..(n - 1) \subseteq P PROVE n \in P
    <3>1. CASE n = 0
      <4>1. h[0] = <<>> /\ <<>> \in Seq(T)
        BY <1>6, Zenon, EmptySeq DEF Keeps
      <4>2. QED
        BY <3>1, <4>1
    <3>2. CASE n # 0 /\ n <= Len(s)
      <4>1. n \in 1..Len(s) /\ n - 1 \in 0..(n - 1) /\ n - 1 <= Len(s) /\ s[n] \in T
        BY <3>2
      <4>2. h[n - 1] \in Seq(T)
        BY <2>1, <4>1
      <4>3. Append(h[n - 1], s[n]) \in Seq(T)
        BY <4>1, <4>2, AppendProperties
      <4>4. h[n] \in Seq(T)
        BY <1>6, <4>1, <4>2, <4>3 DEF Keeps
      <4>5. QED
        BY <4>4
    <3>3. QED
      BY <3>1, <3>2
  <2> HIDE DEF P
  <2>2. P \in SUBSET Nat
    BY DEF P
  <2>3. P = Nat
    BY <2>1, <2>2, Inductively
  <2>4. ASSUME NEW i \in 0..Len(s) PROVE h[i] \in Seq(T)
    BY <2>3 DEF P
  <2>5. DOMAIN h = 0..Len(s) /\ h = [i \in DOMAIN h |-> h[i]]
    BY <1>4
  <2>6. QED
    BY <2>4, <2>5
<1>8. QED
  BY <1>5, <1>6, <1>7

(* only gives a sequence of the same elements. *)
LEMMA OnlyTyped ==
  ASSUME NEW T, NEW s \in Seq(T), NEW S
  PROVE  only(s, S) \in Seq(T)
<1>1. PICK f \in [0..Len(s) -> Seq(T)] : Keeps(f, s, S, Len(s)) /\ only(s, S) = f[Len(s)]
  BY OnlyKeeps
<1>2. Len(s) \in 0..Len(s)
  OBVIOUS
<1>3. QED
  BY <1>1, <1>2

(* only of nothing. *)
LEMMA OnlyEmpty ==
  ASSUME NEW S
  PROVE  only(<<>>, S) = <<>>
<1>1. PICK e \in Seq(Nat) : e = <<>>
  BY EmptySeq
<1>2. Len(e) = 0
  BY <1>1
<1>3. PICK f \in [0..Len(e) -> Seq(Nat)] : Keeps(f, e, S, Len(e)) /\ only(e, S) = f[Len(e)]
  BY OnlyKeeps
<1>4. f[0] = <<>>
  BY <1>3, Zenon DEF Keeps
<1>5. QED
  BY <1>1, <1>2, <1>3, <1>4

(* only of one element more. *)
LEMMA OnlyAppend ==
  ASSUME NEW T, NEW s \in Seq(T), NEW x \in T, NEW S
  PROVE  /\ only(s, S) \in Seq(T)
         /\ only(Append(s, x), S) = IF x \in S THEN Append(only(s, S), x) ELSE only(s, S)
<1>1. PICK f \in [0..Len(s) -> Seq(T)] : Keeps(f, s, S, Len(s)) /\ only(s, S) = f[Len(s)]
  BY OnlyKeeps
<1>2. PICK t \in Seq(T) : t = Append(s, x)
  BY AppendProperties
<1>3. Len(t) = Len(s) + 1 /\ t[Len(s) + 1] = x /\ \A i \in 1..Len(s) : t[i] = s[i]
  BY <1>2, AppendProperties
<1>4. PICK g \in [0..Len(t) -> Seq(T)] : Keeps(g, t, S, Len(t)) /\ only(t, S) = g[Len(t)]
  BY OnlyKeeps
<1> DEFINE P == {n \in Nat : n <= Len(s) => g[n] = f[n]}
<1>5. ASSUME NEW n \in Nat, 0..(n - 1) \subseteq P PROVE n \in P
  <2>1. CASE n = 0
    BY <1>1, <1>4, <2>1 DEF Keeps
  <2>2. CASE n # 0 /\ n <= Len(s)
    <3>1. n \in 1..Len(s) /\ n \in 1..Len(t) /\ n - 1 \in 0..(n - 1) /\ n - 1 <= Len(s) /\ t[n] = s[n]
      BY <1>3, <2>2
    <3>2. g[n - 1] = f[n - 1]
      BY <1>5, <3>1
    <3>3. g[n] = f[n]
      BY <1>1, <1>4, <3>1, <3>2 DEF Keeps
    <3>4. QED
      BY <3>3
  <2>3. QED
    BY <2>1, <2>2
<1> HIDE DEF P
<1>6. P \in SUBSET Nat
  BY DEF P
<1>7. P = Nat
  BY <1>5, <1>6, Inductively
<1>8. g[Len(s)] = f[Len(s)]
  BY <1>7 DEF P
<1>9. Len(s) \in Nat /\ Len(t) \in 1..Len(t) /\ Len(t) - 1 = Len(s)
  BY <1>3
<1>10. g[Len(t)] = IF x \in S THEN Append(g[Len(s)], x) ELSE g[Len(s)]
  BY <1>3, <1>4, <1>9 DEF Keeps
<1>11. QED
  BY <1>1, <1>2, <1>4, <1>8, <1>9, <1>10

(* The two cases of it. *)
LEMMA OnlyTaken ==
  ASSUME NEW T, NEW s \in Seq(T), NEW x \in T, NEW S, x \in S
  PROVE  only(Append(s, x), S) = Append(only(s, S), x)
BY OnlyAppend, Zenon

(* An element outside the set leaves the selection as it was. *)
LEMMA OnlyLeft ==
  ASSUME NEW T, NEW s \in Seq(T), NEW x \in T, NEW S, x \notin S
  PROVE  only(Append(s, x), S) = only(s, S)
<1>1. only(Append(s, x), S) = IF x \in S THEN Append(only(s, S), x) ELSE only(s, S)
  BY OnlyAppend
<1>2. QED
  BY <1>1

(* Appending after a concatenation. *)
LEMMA AppendConcat ==
  ASSUME NEW T, NEW a \in Seq(T), NEW b \in Seq(T), NEW x \in T
  PROVE  a \o Append(b, x) = Append(a \o b, x)
<1>1. a \o b \in Seq(T) /\ <<x>> \in Seq(T)
  BY ConcatProperties
<1>2. Append(b, x) = b \o <<x>> /\ Append(a \o b, x) = (a \o b) \o <<x>>
  BY <1>1, AppendIsConcat
<1>3. (a \o b) \o <<x>> = a \o (b \o <<x>>)
  BY <1>1, ConcatAssociative
<1>4. QED
  BY <1>2, <1>3, Zenon

(* only of two sequences, one after the other. *)
LEMMA OnlyConcat ==
  ASSUME NEW T, NEW s \in Seq(T), NEW t \in Seq(T), NEW S
  PROVE  only(s \o t, S) = only(s, S) \o only(t, S)
<1> DEFINE P == {n \in Nat : \A u \in Seq(T) : Len(u) = n => only(s \o u, S) = only(s, S) \o only(u, S)}
<1>1. ASSUME NEW n \in Nat, 0..(n - 1) \subseteq P PROVE n \in P
  <2>1. SUFFICES ASSUME NEW u \in Seq(T), Len(u) = n PROVE only(s \o u, S) = only(s, S) \o only(u, S)
    OBVIOUS
  <2>2. CASE u = <<>>
    <3>1. only(s, S) \in Seq(T)
      BY OnlyTyped
    <3>2. s \o u = s /\ only(s, S) \o <<>> = only(s, S)
      BY <2>2, <3>1, ConcatEmptySeq
    <3>3. QED
      BY <2>2, <3>2, OnlyEmpty
  <2>3. CASE u # <<>>
    <3>1. PICK v \in Seq(T), x \in T : u = Append(v, x)
      BY <2>3, SequenceEmptyOrAppend
    <3>2. Len(v) \in 0..(n - 1) /\ Len(v) \in Nat
      BY <2>1, <3>1, AppendProperties
    <3>3. only(s \o v, S) = only(s, S) \o only(v, S)
      BY <1>1, <3>2
    <3>4. s \o v \in Seq(T) /\ s \o u = Append(s \o v, x)
      BY <3>1, AppendConcat, ConcatProperties
    <3>5. PICK a \in Seq(T), b \in Seq(T) : a = only(s, S) /\ b = only(v, S)
      BY OnlyTyped
    <3>6. a \o Append(b, x) = Append(a \o b, x)
      BY AppendConcat
    <3>7. CASE x \in S
      <4>1. only(s \o u, S) = Append(a \o b, x)
        <5>1. only(Append(s \o v, x), S) = Append(only(s \o v, S), x)
          BY <3>4, <3>7, OnlyTaken
        <5>2. QED
          BY <3>3, <3>4, <3>5, <5>1
      <4>2. only(u, S) = Append(b, x)
        BY <3>1, <3>5, <3>7, OnlyTaken, Zenon
      <4>3. QED
        BY <3>5, <3>6, <4>1, <4>2, Zenon
    <3>8. CASE x \notin S
      <4>1. only(s \o u, S) = a \o b
        <5>1. only(Append(s \o v, x), S) = only(s \o v, S)
          BY <3>4, <3>8, OnlyLeft
        <5>2. QED
          BY <3>3, <3>4, <3>5, <5>1
      <4>2. only(u, S) = b
        BY <3>1, <3>5, <3>8, OnlyLeft, Zenon
      <4>3. QED
        BY <3>5, <4>1, <4>2, Zenon
    <3>9. QED
      BY <3>7, <3>8
  <2>4. QED
    BY <2>2, <2>3
<1> HIDE DEF P
<1>2. P \in SUBSET Nat
  BY DEF P
<1>3. P = Nat
  BY <1>1, <1>2, Inductively
<1>4. Len(t) \in P
  BY <1>3
<1>5. QED
  BY <1>4 DEF P

(* Only whether the elements of s are in S matters. *)
LEMMA OnlySame ==
  ASSUME NEW T, NEW s \in Seq(T), NEW S, NEW R, \A i \in 1..Len(s) : s[i] \in S <=> s[i] \in R
  PROVE  only(s, S) = only(s, R)
<1> DEFINE P == {n \in Nat : \A u \in Seq(T) :
                   Len(u) = n /\ (\A i \in 1..Len(u) : u[i] \in S <=> u[i] \in R) => only(u, S) = only(u, R)}
<1>1. ASSUME NEW n \in Nat, 0..(n - 1) \subseteq P PROVE n \in P
  <2>1. SUFFICES ASSUME NEW u \in Seq(T), Len(u) = n, \A i \in 1..Len(u) : u[i] \in S <=> u[i] \in R
                 PROVE  only(u, S) = only(u, R)
    OBVIOUS
  <2>2. CASE u = <<>>
    BY <2>2, OnlyEmpty
  <2>3. CASE u # <<>>
    <3>1. PICK v \in Seq(T), x \in T : u = Append(v, x)
      BY <2>3, SequenceEmptyOrAppend
    <3>2. /\ Len(v) \in 0..(n - 1) /\ Len(v) \in Nat /\ Len(u) = Len(v) + 1 /\ u[Len(v) + 1] = x
          /\ \A i \in 1..Len(v) : u[i] = v[i]
      BY <2>1, <3>1, AppendProperties
    <3>3. \A i \in 1..Len(v) : i \in 1..Len(u)
      BY <3>2
    <3>4. only(v, S) = only(v, R)
      BY <1>1, <2>1, <3>2, <3>3
    <3>5. Len(v) + 1 \in 1..Len(u)
      BY <3>2
    <3>6. x \in S <=> x \in R
      BY <2>1, <3>2, <3>5
    <3>7. CASE x \in S
      <4>1. only(Append(v, x), S) = Append(only(v, S), x) /\ only(Append(v, x), R) = Append(only(v, R), x)
        BY <3>6, <3>7, OnlyTaken
      <4>2. QED
        BY <3>1, <3>4, <4>1
    <3>8. CASE x \notin S
      BY <3>1, <3>4, <3>6, <3>8, OnlyLeft, Zenon
    <3>9. QED
      BY <3>7, <3>8
  <2>4. QED
    BY <2>2, <2>3
<1> HIDE DEF P
<1>2. P \in SUBSET Nat
  BY DEF P
<1>3. P = Nat
  BY <1>1, <1>2, Inductively
<1>4. Len(s) \in P
  BY <1>3
<1>5. QED
  BY <1>4 DEF P

(* What only keeps was there, and is in S. *)
LEMMA OnlyFrom ==
  ASSUME NEW T, NEW s \in Seq(T), NEW S
  PROVE  only(s, S) \in Seq(T) /\ \A i \in 1..Len(only(s, S)) : only(s, S)[i] \in S
<1> DEFINE P == {n \in Nat : \A u \in Seq(T) : Len(u) = n => only(u, S) \in Seq(T \cap S)}
<1>1. ASSUME NEW n \in Nat, 0..(n - 1) \subseteq P PROVE n \in P
  <2>1. SUFFICES ASSUME NEW u \in Seq(T), Len(u) = n PROVE only(u, S) \in Seq(T \cap S)
    OBVIOUS
  <2>2. CASE u = <<>>
    BY <2>2, OnlyEmpty, EmptySeq
  <2>3. CASE u # <<>>
    <3>1. PICK v \in Seq(T), x \in T : u = Append(v, x)
      BY <2>3, SequenceEmptyOrAppend
    <3>2. Len(v) \in 0..(n - 1) /\ Len(v) \in Nat
      BY <2>1, <3>1, AppendProperties
    <3>3. only(v, S) \in Seq(T \cap S)
      BY <1>1, <3>2
    <3>4. x \in S => Append(only(v, S), x) \in Seq(T \cap S)
      BY <3>3, AppendProperties
    <3>5. CASE x \in S
      BY <3>1, <3>4, <3>5, OnlyTaken, Zenon
    <3>6. CASE x \notin S
      BY <3>1, <3>3, <3>6, OnlyLeft, Zenon
    <3>7. QED
      BY <3>5, <3>6
  <2>4. QED
    BY <2>2, <2>3
<1> HIDE DEF P
<1>2. P \in SUBSET Nat
  BY DEF P
<1>3. P = Nat
  BY <1>1, <1>2, Inductively
<1>4. Len(s) \in P
  BY <1>3
<1>5. only(s, S) \in Seq(T \cap S)
  BY <1>4 DEF P
<1>6. Seq(T \cap S) \subseteq Seq(T)
  BY SeqMonotonic
<1>7. \A i \in 1..Len(only(s, S)) : only(s, S)[i] \in T \cap S
  BY <1>5
<1>8. QED
  BY <1>5, <1>6, <1>7

(***************************************************************************)
(* The branch of an entry: the path from the root down to it.              *)
(***************************************************************************)

(* f is the recursive function of wayUp(parents, e), as far as m. *)
Climbs(f, parents, m) ==
  /\ f[0] = <<>>
  /\ \A i \in 1..m : f[i] = Append(f[parents[i]], i)

(* The way up starts at the root and goes down the tree. *)
Below(parents, m) == \A i \in 1..m : parents[i] \in 0..(i - 1)

(* There is such a function. *)
LEMMA ClimbsExists ==
  ASSUME NEW e \in Nat, NEW parents, \A i \in 1..e : parents[i] \in 0..(i - 1)
  PROVE  \E f \in [0..e -> Seq(Nat)] : Climbs(f, parents, e)
<1> DEFINE P == {n \in Nat : n <= e => \E f \in [0..n -> Seq(Nat)] : Climbs(f, parents, n)}
<1>1. ASSUME NEW n \in Nat, 0..(n - 1) \subseteq P PROVE n \in P
  <2>1. CASE n = 0
    <3>1. PICK f : f = [i \in 0..0 |-> <<>>]
      OBVIOUS
    <3>2. f \in [0..0 -> Seq(Nat)] /\ f[0] = <<>>
      BY <3>1
    <3>3. Climbs(f, parents, 0)
      BY <3>2 DEF Climbs
    <3>4. QED
      BY <2>1, <3>2, <3>3
  <2>2. CASE n # 0 /\ n <= e
    <3>1. n - 1 \in 0..(n - 1) /\ n - 1 <= e /\ n \in 1..e /\ parents[n] \in 0..(n - 1)
      BY <2>2
    <3>2. PICK f \in [0..(n - 1) -> Seq(Nat)] : Climbs(f, parents, n - 1)
      BY <1>1, <3>1
    <3>3. PICK v \in Seq(Nat) : v = Append(f[parents[n]], n)
      BY <3>1, <3>2, AppendProperties
    <3>4. PICK g : g = [i \in 0..n |-> IF i = n THEN v ELSE f[i]]
      OBVIOUS
    <3>5. g \in [0..n -> Seq(Nat)]
      BY <3>2, <3>3, <3>4
    <3>6. g[0] = <<>>
      BY <2>2, <3>2, <3>4 DEF Climbs
    <3>7. ASSUME NEW i \in 1..n PROVE g[i] = Append(g[parents[i]], i)
      <4>1. parents[i] \in 0..(i - 1)
        BY <3>1
      <4>2. g[parents[i]] = f[parents[i]]
        BY <3>4, <4>1
      <4>3. CASE i = n
        <5>1. g[n] = v
          BY <3>4
        <5>2. QED
          BY <3>3, <4>2, <4>3, <5>1
      <4>4. CASE i # n
        <5>1. i \in 1..(n - 1) /\ g[i] = f[i]
          BY <3>4, <4>4
        <5>2. QED
          BY <3>2, <4>2, <5>1 DEF Climbs
      <4>5. QED
        BY <4>3, <4>4
    <3>8. Climbs(g, parents, n)
      BY <3>6, <3>7 DEF Climbs
    <3>9. QED
      BY <3>5, <3>8
  <2>3. QED
    BY <2>1, <2>2
<1> HIDE DEF P
<1>2. P \in SUBSET Nat
  BY DEF P
<1>3. P = Nat
  BY <1>1, <1>2, Inductively
<1>4. e \in P
  BY <1>3
<1>5. QED
  BY <1>4 DEF P

(* Two of them agree as far as both go. *)
LEMMA ClimbsAgree ==
  ASSUME NEW m \in Nat, NEW parents, NEW f, NEW g, Below(parents, m),
         Climbs(f, parents, m), Climbs(g, parents, m)
  PROVE  \A i \in 0..m : f[i] = g[i]
<1> DEFINE P == {n \in Nat : n <= m => f[n] = g[n]}
<1>1. ASSUME NEW n \in Nat, 0..(n - 1) \subseteq P PROVE n \in P
  <2>1. CASE n = 0
    BY <2>1 DEF Climbs
  <2>2. CASE n # 0 /\ n <= m
    <3>1. n \in 1..m /\ parents[n] \in 0..(n - 1) /\ parents[n] <= m
      BY <2>2 DEF Below
    <3>2. f[parents[n]] = g[parents[n]]
      BY <1>1, <3>1
    <3>3. f[n] = g[n]
      BY <3>1, <3>2 DEF Climbs
    <3>4. QED
      BY <3>3
  <2>3. QED
    BY <2>1, <2>2
<1> HIDE DEF P
<1>2. P \in SUBSET Nat
  BY DEF P
<1>3. P = Nat
  BY <1>1, <1>2, Inductively
<1>4. QED
  BY <1>3 DEF P

(* wayUp is its value at the end. *)
LEMMA WayUpClimbs ==
  ASSUME NEW e \in Nat, NEW parents, \A i \in 1..e : parents[i] \in 0..(i - 1)
  PROVE  \E f \in [0..e -> Seq(Nat)] : Climbs(f, parents, e) /\ wayUp(parents, e) = f[e]
<1> DEFINE eq(f) == f = [i \in 0..e |-> IF i = 0 THEN <<>> ELSE Append(f[parents[i]], i)]
<1>1. PICK f \in [0..e -> Seq(Nat)] : Climbs(f, parents, e)
  BY ClimbsExists
<1>2. eq(f)
  <2>1. f = [i \in 0..e |-> f[i]]
    BY <1>1
  <2>2. \A i \in 0..e : f[i] = IF i = 0 THEN <<>> ELSE Append(f[parents[i]], i)
    <3>1. \A i \in 0..e : i = 0 \/ i \in 1..e
      OBVIOUS
    <3>2. QED
      BY <1>1, <3>1, Zenon DEF Climbs
  <2>3. QED
    BY <2>1, <2>2, Zenon
<1>3. PICK h : h = CHOOSE g : eq(g)
  OBVIOUS
<1>4. eq(h)
  <2> HIDE DEF eq
  <2>1. QED
    BY <1>2, <1>3, Zenon
<1>5. h[e] = wayUp(parents, e)
  BY <1>3, Zenon DEF wayUp
<1>6. Climbs(h, parents, e)
  <2>1. \A i \in 0..e : h[i] = IF i = 0 THEN <<>> ELSE Append(h[parents[i]], i)
    BY <1>4, Zenon
  <2>2. 0 \in 0..e /\ \A i \in 1..e : i \in 0..e /\ i # 0
    OBVIOUS
  <2>3. QED
    BY <2>1, <2>2, Zenon DEF Climbs
<1>7. \A i \in 0..e : h[i] = f[i]
  <2> HIDE DEF eq
  <2>1. Below(parents, e) /\ Climbs(f, parents, e) /\ Climbs(h, parents, e)
    BY <1>1, <1>6 DEF Below
  <2>2. QED
    BY <2>1, ClimbsAgree, SMT
<1>8. e \in 0..e
  OBVIOUS
<1>9. QED
  <2>1. h[e] = f[e]
    BY <1>7, <1>8
  <2>2. QED
    BY <1>1, <1>5, <2>1, Zenon

(* The entries are a tree, like those of TreeInv. *)
Tree(es) == es \in Seq(Elements(es)) /\ \A i \in 1..Len(es) : es[i].parent \in 0..(i - 1)

(* getBranch: the branch of the parent, and the entry. *)
LEMMA BranchStep ==
  ASSUME NEW es, Tree(es), NEW e \in 1..Len(es)
  PROVE  /\ branchOf(es, 0) = <<>>
         /\ branchOf(es, es[e].parent) \in Seq(Nat)
         /\ branchOf(es, e) = Append(branchOf(es, es[e].parent), e)
<1> DEFINE up(k) == [i \in 1..k |-> es[i].parent]
<1>1. Len(es) \in Nat /\ e \in Nat /\ es[e].parent \in 0..(e - 1)
  BY DEF Tree
<1>2. ASSUME NEW k \in 0..e PROVE \A i \in 1..k : up(k)[i] = es[i].parent /\ es[i].parent \in 0..(i - 1)
  BY <1>1 DEF Tree
<1>3. ASSUME NEW k \in 0..e
      PROVE  \E f \in [0..k -> Seq(Nat)] : Climbs(f, up(k), k) /\ branchOf(es, k) = f[k]
  <2>1. \A i \in 1..k : up(k)[i] \in 0..(i - 1)
    BY <1>2
  <2>2. branchOf(es, k) = wayUp(up(k), k)
    BY DEF branchOf
  <2> HIDE DEF up
  <2>3. k \in Nat
    BY <1>1
  <2>4. QED
    BY <2>1, <2>2, <2>3, WayUpClimbs
<1>4. PICK p \in 0..(e - 1) : p = es[e].parent
  BY <1>1
<1>5. p \in 0..e /\ e \in 0..e /\ 0 \in 0..e /\ p \in Nat /\ e \in 1..e
  BY <1>1
<1>6. PICK f \in [0..e -> Seq(Nat)] : Climbs(f, up(e), e) /\ branchOf(es, e) = f[e]
  BY <1>3, <1>5
<1>7. PICK g \in [0..p -> Seq(Nat)] : Climbs(g, up(p), p) /\ branchOf(es, p) = g[p]
  BY <1>3, <1>5
<1>8. PICK z \in [0..0 -> Seq(Nat)] : Climbs(z, up(0), 0) /\ branchOf(es, 0) = z[0]
  BY <1>3, <1>5
<1>9. up(e)[e] = p
  BY <1>2, <1>4, <1>5
<1>10. f[p] = g[p]
  <2>1. ASSUME NEW i \in 1..p PROVE up(e)[i] = up(p)[i] /\ up(e)[i] \in 0..(i - 1)
    <3>1. i \in 1..e
      BY <1>1, <1>4
    <3>2. QED
      BY <1>2, <1>5, <3>1
  <2> HIDE DEF up
  <2>2. Climbs(f, up(e), p)
    <3>1. \A i \in 1..p : i \in 1..e
      BY <1>1, <1>4
    <3>2. QED
      BY <1>6, <3>1 DEF Climbs
  <2>3. \A i \in 0..p : f[i] = g[i]
    <3>1. Below(up(e), p)
      BY <2>1 DEF Below
    <3>2. Climbs(g, up(e), p)
      BY <1>7, <2>1 DEF Climbs
    <3>3. PICK ps, a, b : ps = up(e) /\ a = f /\ b = g
      OBVIOUS
    <3>4. Below(ps, p) /\ Climbs(a, ps, p) /\ Climbs(b, ps, p)
      BY <2>2, <3>1, <3>2, <3>3
    <3>5. \A i \in 0..p : a[i] = b[i]
      BY <1>5, <3>4, ClimbsAgree, SMT
    <3>6. QED
      BY <3>3, <3>5
  <2>4. QED
    BY <1>5, <2>3
<1> HIDE DEF up
<1>11. f[e] = Append(f[p], e)
  BY <1>5, <1>6, <1>9 DEF Climbs
<1>12. z[0] = <<>>
  BY <1>8 DEF Climbs
<1>13. g[p] \in Seq(Nat)
  BY <1>5, <1>7
<1>14. QED
  BY <1>4, <1>6, <1>7, <1>8, <1>10, <1>11, <1>12, <1>13

(* The branch of nothing. *)
LEMMA BranchOfNone ==
  ASSUME NEW es
  PROVE  branchOf(es, 0) = <<>>
<1>1. PICK up : up = [i \in 1..0 |-> es[i].parent]
  OBVIOUS
<1>2. \A i \in 1..0 : up[i] \in 0..(i - 1)
  OBVIOUS
<1>3. PICK f \in [0..0 -> Seq(Nat)] : Climbs(f, up, 0) /\ wayUp(up, 0) = f[0]
  BY <1>2, WayUpClimbs
<1>4. QED
  BY <1>1, <1>3 DEF Climbs, branchOf

(* b lists numbers up to n, in ascending order. *)
Ascending(b, n) == b \in Seq(1..n) /\ \A i, j \in 1..Len(b) : i < j => b[i] < b[j]

(* A branch goes down the tree. *)
LEMMA BranchAscending ==
  ASSUME NEW es, Tree(es), NEW e \in 0..Len(es)
  PROVE  Ascending(branchOf(es, e), e)
<1> DEFINE P == {n \in Nat : n <= Len(es) => Ascending(branchOf(es, n), n)}
<1>0. Len(es) \in Nat
  BY DEF Tree
<1>1. ASSUME NEW n \in Nat, 0..(n - 1) \subseteq P PROVE n \in P
  <2>1. CASE n = 0
    <3>1. Ascending(<<>>, 0)
      BY DEF Ascending
    <3>2. QED
      BY <2>1, <3>1, BranchOfNone
  <2>2. CASE n # 0 /\ n <= Len(es)
    <3>1. n \in 1..Len(es)
      BY <1>0, <2>2
    <3>2. PICK p \in 0..(n - 1) : p = es[n].parent
      BY <3>1 DEF Tree
    <3>3. PICK b : b = branchOf(es, p)
      OBVIOUS
    <3>4. Ascending(b, p)
      BY <1>0, <1>1, <2>2, <3>2, <3>3
    <3>5. branchOf(es, n) = Append(b, n)
      BY <3>1, <3>2, <3>3, BranchStep
    <3>6. b \in Seq(1..p) /\ Len(b) \in Nat
      BY <3>4 DEF Ascending
    <3>7. 1..p \subseteq 1..n /\ n \in 1..n
      BY <3>1, <3>2
    <3>8. b \in Seq(1..n)
      BY <3>6, <3>7, SeqMonotonic
    <3>9. /\ Append(b, n) \in Seq(1..n) /\ Len(Append(b, n)) = Len(b) + 1
          /\ \A i \in 1..Len(b) : Append(b, n)[i] = b[i] /\ b[i] \in 1..p
          /\ Append(b, n)[Len(b) + 1] = n
      BY <3>6, <3>7, <3>8, AppendProperties
    <3>10. ASSUME NEW i \in 1..(Len(b) + 1), NEW j \in 1..(Len(b) + 1), i < j
           PROVE  Append(b, n)[i] < Append(b, n)[j]
      <4>1. i \in 1..Len(b)
        BY <3>6, <3>10
      <4>2. CASE j = Len(b) + 1
        BY <3>2, <3>9, <4>1, <4>2
      <4>3. CASE j \in 1..Len(b)
        BY <3>4, <3>9, <3>10, <4>1, <4>3 DEF Ascending
      <4>4. QED
        BY <3>6, <4>2, <4>3
    <3>11. Ascending(Append(b, n), n)
      BY <3>9, <3>10 DEF Ascending
    <3>12. QED
      BY <3>5, <3>11
  <2>3. QED
    BY <2>1, <2>2
<1> HIDE DEF P
<1>2. P \in SUBSET Nat
  BY DEF P
<1>3. P = Nat
  BY <1>1, <1>2, Inductively
<1>4. QED
  BY <1>0, <1>3 DEF P

(* Max and Min of indices. *)
LEMMA MaxIndex ==
  ASSUME NEW n \in Nat, NEW S \in SUBSET (1..n), S # {}
  PROVE  Max(S) \in S /\ \A y \in S : y <= Max(S)
<1> DEFINE P == {k \in Nat : \A T \in SUBSET (1..k) : T # {} => \E x \in T : \A y \in T : x >= y}
<1>1. ASSUME NEW k \in Nat, 0..(k - 1) \subseteq P PROVE k \in P
  <2>1. SUFFICES ASSUME NEW T \in SUBSET (1..k), T # {} PROVE \E x \in T : \A y \in T : x >= y
    OBVIOUS
  <2>2. CASE k \in T
    BY <2>1, <2>2
  <2>3. CASE k \notin T
    <3>1. k # 0 /\ k - 1 \in 0..(k - 1) /\ T \in SUBSET (1..(k - 1))
      <4>1. k # 0
        <5>1. PICK x : x \in T
          BY <2>1
        <5>2. x \in 1..k
          BY <5>1
        <5>3. QED
          BY <5>2
      <4>2. \A y \in T : y \in 1..(k - 1)
        BY <2>1, <2>3
      <4>3. QED
        BY <4>1, <4>2
    <3>2. QED
      BY <1>1, <2>1, <3>1
  <2>4. QED
    BY <2>2, <2>3
<1> HIDE DEF P
<1>2. P \in SUBSET Nat
  BY DEF P
<1>3. P = Nat
  BY <1>1, <1>2, Inductively
<1>4. \E x \in S : \A y \in S : x >= y
  BY <1>3 DEF P
<1>5. Max(S) \in S /\ \A y \in S : Max(S) >= y
  BY <1>4, Zenon DEF Max
<1>6. \A y \in S : y \in Int
  OBVIOUS
<1>7. QED
  BY <1>5, <1>6

(* A nonempty set of indices has a least element, and Min is it. *)
LEMMA MinIndex ==
  ASSUME NEW n \in Nat, NEW S \in SUBSET (1..n), S # {}
  PROVE  Min(S) \in S /\ \A y \in S : Min(S) <= y
<1> DEFINE P == {k \in Nat : k \in S => \E x \in S : \A y \in S : x <= y}
<1>1. ASSUME NEW k \in Nat, 0..(k - 1) \subseteq P PROVE k \in P
  <2>1. SUFFICES ASSUME k \in S PROVE \E x \in S : \A y \in S : x <= y
    OBVIOUS
  <2>2. CASE \E i \in 0..(k - 1) : i \in S
    BY <1>1, <2>2
  <2>3. CASE ~\E i \in 0..(k - 1) : i \in S
    <3>1. \A y \in S : k <= y
      BY <2>3
    <3>2. QED
      BY <2>1, <3>1
  <2>4. QED
    BY <2>2, <2>3
<1> HIDE DEF P
<1>2. P \in SUBSET Nat
  BY DEF P
<1>3. P = Nat
  BY <1>1, <1>2, Inductively
<1>4. \E x \in S : \A y \in S : x <= y
  <2>1. PICK z : z \in S
    OBVIOUS
  <2>2. z \in Nat
    BY <2>1
  <2>3. z \in P
    BY <1>3, <2>2
  <2>4. QED
    BY <2>1, <2>3 DEF P
<1>5. PICK m : m = CHOOSE x \in S : \A y \in S : x <= y
  OBVIOUS
<1>6. m \in S /\ \A y \in S : m <= y
  BY <1>4, <1>5, Zenon
<1>7. Min(S) = m
  BY <1>5 DEF Min
<1>8. QED
  BY <1>6, <1>7, Zenon

(* c is the index of the last compaction of path, 0 if there is none. *)
IsLatest(es, path, c) ==
  /\ c \in 0..Len(path)
  /\ c # 0 => es[path[c]].kind = "compaction"
  /\ \A i \in (c + 1)..Len(path) : es[path[i]].kind # "compaction"

(* What getLatestCompactionEntry returns is the last compaction of the path. *)
LEMMA LatestIs ==
  ASSUME NEW es, NEW T, NEW path \in Seq(T)
  PROVE  IsLatest(es, path, latestCompaction(es, path))
<1> DEFINE I == {i \in 1..Len(path) : es[path[i]].kind = "compaction"}
<1>1. latestCompaction(es, path) = IF I # {} THEN Max(I) ELSE 0
  BY DEF latestCompaction, SelectLastInSeq
<1>2. Len(path) \in Nat /\ I \in SUBSET (1..Len(path))
  OBVIOUS
<1>3. CASE I = {}
  <2>1. latestCompaction(es, path) = 0
    BY <1>1, <1>3
  <2>2. QED
    BY <1>2, <1>3, <2>1 DEF IsLatest
<1>4. CASE I # {}
  <2>1. PICK c : c = latestCompaction(es, path)
    OBVIOUS
  <2>2. c \in I /\ \A y \in I : y <= c
    <3> HIDE DEF I
    <3>1. QED
      BY <1>1, <1>2, <1>4, <2>1, MaxIndex
  <2>3. c \in 1..Len(path) /\ es[path[c]].kind = "compaction"
    BY <2>2
  <2>4. ASSUME NEW i \in (c + 1)..Len(path) PROVE es[path[i]].kind # "compaction"
    <3>1. i \in 1..Len(path) /\ ~(i <= c)
      BY <1>2, <2>3
    <3>2. QED
      BY <2>2, <3>1
  <2>5. QED
    BY <1>2, <2>1, <2>3, <2>4 DEF IsLatest
<1>5. QED
  BY <1>3, <1>4

(* There is one such index. *)
LEMMA LatestUnique ==
  ASSUME NEW es, NEW T, NEW path \in Seq(T), NEW c, NEW d, IsLatest(es, path, c), IsLatest(es, path, d)
  PROVE  c = d
<1>1. Len(path) \in Nat /\ c \in 0..Len(path) /\ d \in 0..Len(path)
  BY DEF IsLatest
<1>2. CASE c < d
  BY <1>1, <1>2 DEF IsLatest
<1>3. CASE d < c
  BY <1>1, <1>3 DEF IsLatest
<1>4. QED
  BY <1>1, <1>2, <1>3

(* The index of an element of an ascending sequence. *)
LEMMA IndexIs ==
  ASSUME NEW n \in Nat, NEW path, Ascending(path, n), NEW k \in 1..Len(path), NEW x, path[k] = x
  PROVE  SelectInSeq(path, LAMBDA i : i = x) = k
<1> DEFINE I == {i \in 1..Len(path) : path[i] = x}
<1>1. SelectInSeq(path, LAMBDA i : i = x) = IF I # {} THEN Min(I) ELSE 0
  BY DEF SelectInSeq
<1>2. Len(path) \in Nat /\ \A i \in 1..Len(path) : path[i] \in 1..n
  BY DEF Ascending
<1>3. k \in I
  OBVIOUS
<1>4. ASSUME NEW i \in I PROVE i = k
  <2>1. i \in 1..Len(path) /\ path[i] = path[k]
    OBVIOUS
  <2>2. i < k => path[i] < path[k]
    BY <2>1 DEF Ascending
  <2>3. k < i => path[k] < path[i]
    BY <2>1 DEF Ascending
  <2>4. path[i] \in Nat /\ path[k] \in Nat
    BY <1>2, <2>1
  <2>5. QED
    BY <1>2, <2>1, <2>2, <2>3, <2>4
<1>5. Min(I) \in I
  <2>1. I \in SUBSET (1..Len(path)) /\ I # {}
    BY <1>3
  <2> HIDE DEF I
  <2>2. QED
    BY <1>2, <2>1, MinIndex
<1>6. QED
  BY <1>1, <1>3, <1>4, <1>5

(* What a compaction kept first is on the branch it was made from. *)
FirstOnBranch(es) ==
  \A d \in 1..Len(es) : es[d].kind = "compaction" =>
    \E k \in 1..Len(branchOf(es, es[d].parent)) : branchOf(es, es[d].parent)[k] = es[d].first

Sane(es) == Tree(es) /\ FirstOnBranch(es)

(* One more entry at the end of a path. *)
LEMMA LatestStep ==
  ASSUME NEW es, NEW T, NEW path \in Seq(T), NEW e \in T
  PROVE  /\ es[e].kind = "compaction" => latestCompaction(es, Append(path, e)) = Len(path) + 1
         /\ es[e].kind # "compaction" => latestCompaction(es, Append(path, e)) = latestCompaction(es, path)
<1>1. PICK more \in Seq(T) : more = Append(path, e)
  BY AppendProperties
<1>2. Len(path) \in Nat /\ Len(more) = Len(path) + 1 /\ more[Len(path) + 1] = e /\ \A i \in 1..Len(path) : more[i] = path[i]
  BY <1>1, AppendProperties
<1>3. PICK c : c = latestCompaction(es, path)
  OBVIOUS
<1>4. IsLatest(es, path, c)
  BY <1>3, LatestIs
<1>5. IsLatest(es, more, latestCompaction(es, more))
  BY LatestIs
<1>6. CASE es[e].kind = "compaction"
  <2>1. IsLatest(es, more, Len(path) + 1)
    BY <1>2, <1>6 DEF IsLatest
  <2>2. latestCompaction(es, more) = Len(path) + 1
    BY <1>5, <2>1, LatestUnique
  <2>3. QED
    BY <1>1, <1>6, <2>2
<1>7. CASE es[e].kind # "compaction"
  <2>1. c \in 0..Len(more)
    BY <1>2, <1>4 DEF IsLatest
  <2>2. c # 0 => es[more[c]].kind = "compaction"
    BY <1>2, <1>4 DEF IsLatest
  <2>3. ASSUME NEW i \in (c + 1)..Len(more) PROVE es[more[i]].kind # "compaction"
    <3>1. CASE i = Len(path) + 1
      BY <1>2, <1>7, <3>1
    <3>2. CASE i # Len(path) + 1
      <4>1. i \in (c + 1)..Len(path) /\ i \in 1..Len(path)
        BY <1>2, <1>4, <2>1, <3>2 DEF IsLatest
      <4>2. QED
        BY <1>2, <1>4, <4>1 DEF IsLatest
    <3>3. QED
      BY <3>1, <3>2
  <2>4. IsLatest(es, more, c)
    BY <2>1, <2>2, <2>3 DEF IsLatest
  <2>5. latestCompaction(es, more) = c
    BY <1>5, <2>4, LatestUnique
  <2>6. QED
    BY <1>1, <1>3, <1>7, <2>5
<1>8. QED
  BY <1>6, <1>7

(* The latest compaction of a path kept, from f on, a part of it. *)
KeptFrom(es, path, f) ==
  LET c == latestCompaction(es, path) IN
  f \in 1..(c - 1) /\ path[f] = es[path[c]].first

(* Every path has one, or no compaction. *)
LEMMA BranchKept ==
  ASSUME NEW es, Sane(es), NEW e \in 0..Len(es), latestCompaction(es, branchOf(es, e)) # 0
  PROVE  \E f : KeptFrom(es, branchOf(es, e), f)
<1> DEFINE P == {n \in Nat : n <= Len(es) /\ latestCompaction(es, branchOf(es, n)) # 0 => \E f : KeptFrom(es, branchOf(es, n), f)}
<1>0. Len(es) \in Nat /\ Tree(es)
  BY DEF Sane, Tree
<1>1. ASSUME NEW n \in Nat, 0..(n - 1) \subseteq P PROVE n \in P
  <2>1. SUFFICES ASSUME n <= Len(es), latestCompaction(es, branchOf(es, n)) # 0
                 PROVE  \E f : KeptFrom(es, branchOf(es, n), f)
    OBVIOUS
  <2>2. CASE n = 0
    <3>1. <<>> \in Seq(Nat) /\ Len(<<>>) = 0 /\ branchOf(es, n) = <<>>
      BY <2>2, BranchOfNone
    <3>2. IsLatest(es, <<>>, latestCompaction(es, <<>>))
      BY <3>1, LatestIs
    <3>3. latestCompaction(es, <<>>) \in 0..0
      BY <3>1, <3>2 DEF IsLatest
    <3>4. QED
      BY <2>1, <3>1, <3>3
  <2>3. CASE n # 0
    <3>1. n \in 1..Len(es) /\ n \in Nat
      BY <1>0, <2>1, <2>3
    <3>2. PICK p \in 0..(n - 1) : p = es[n].parent
      BY <1>0, <3>1 DEF Tree
    <3>3. PICK b \in Seq(Nat) : b = branchOf(es, p) /\ branchOf(es, n) = Append(b, n)
      BY <1>0, <3>1, <3>2, BranchStep
    <3>4. /\ Len(b) \in Nat /\ Append(b, n)[Len(b) + 1] = n
          /\ \A i \in 1..Len(b) : Append(b, n)[i] = b[i]
      BY <3>1, <3>3, AppendProperties
    <3>5. /\ es[n].kind = "compaction" => latestCompaction(es, Append(b, n)) = Len(b) + 1
          /\ es[n].kind # "compaction" => latestCompaction(es, Append(b, n)) = latestCompaction(es, b)
      BY <3>1, <3>3, LatestStep
    <3>6. CASE es[n].kind = "compaction"
      <4>1. PICK k \in 1..Len(b) : b[k] = es[n].first
        BY <3>1, <3>2, <3>3, <3>6 DEF Sane, FirstOnBranch
      <4>2. latestCompaction(es, Append(b, n)) = Len(b) + 1 /\ k \in 1..(Len(b) + 1 - 1)
        BY <3>4, <3>5, <3>6
      <4>3. KeptFrom(es, Append(b, n), k)
        BY <3>4, <4>1, <4>2 DEF KeptFrom
      <4>4. QED
        BY <3>3, <4>3
    <3>7. CASE es[n].kind # "compaction"
      <4>1. PICK c : c = latestCompaction(es, b)
        OBVIOUS
      <4>2. c = latestCompaction(es, Append(b, n)) /\ c # 0
        BY <2>1, <3>3, <3>5, <3>7, <4>1
      <4>3. c \in 1..Len(b)
        <5>1. IsLatest(es, b, c)
          BY <3>3, <4>1, LatestIs
        <5>2. QED
          BY <3>4, <4>2, <5>1 DEF IsLatest
      <4>4. PICK f : KeptFrom(es, b, f)
        <5>1. p \in P /\ p <= Len(es)
          BY <1>0, <1>1, <2>1, <3>1, <3>2
        <5>2. QED
          BY <3>3, <4>1, <4>2, <5>1
      <4>5. f \in 1..(c - 1) /\ b[f] = es[b[c]].first
        BY <4>1, <4>4 DEF KeptFrom
      <4>6. f \in 1..Len(b)
        BY <3>4, <4>3, <4>5
      <4>7. Append(b, n)[f] = b[f] /\ Append(b, n)[c] = b[c]
        BY <3>4, <4>3, <4>6
      <4>8. KeptFrom(es, Append(b, n), f)
        BY <4>2, <4>5, <4>7 DEF KeptFrom
      <4>9. QED
        BY <3>3, <4>8
    <3>8. QED
      BY <3>6, <3>7
  <2>4. QED
    BY <2>2, <2>3
<1> HIDE DEF P
<1>2. P \in SUBSET Nat
  BY DEF P
<1>3. P = Nat
  BY <1>1, <1>2, Inductively
<1>4. e \in P /\ e <= Len(es)
  BY <1>0, <1>3
<1>5. QED
  BY <1>4 DEF P

(***************************************************************************)
(* What a context holds. Its sequences are kept behind cat, one and part,  *)
(* so that a step about them is a step about three operators.              *)
(***************************************************************************)

(* The entries that are messages. *)
Talk(es) == {i \in DOMAIN es : es[i].kind \in Messages}

(* The index of x in path. *)
indexOf(path, x) == LET I == {i \in 1..Len(path) : path[i] = x} IN IF I # {} THEN Min(I) ELSE 0

(* The two definitions that look for what the latest compaction kept. *)
LEMMA SourceDef ==
  ASSUME NEW es, NEW path, NEW c, c = latestCompaction(es, path)
  PROVE  /\ c = 0 => sourceOf(es, path) = path
         /\ c # 0 => sourceOf(es, path) = SubSeq(path, indexOf(path, es[path[c]].first), Len(path))
BY DEF sourceOf, SelectInSeq, indexOf

(* The index of an element of an ascending sequence. *)
LEMMA IndexOfIs ==
  ASSUME NEW n \in Nat, NEW path, Ascending(path, n), NEW k \in 1..Len(path)
  PROVE  indexOf(path, path[k]) = k
BY IndexIs DEF indexOf, SelectInSeq

(* The operators of sequences by other names, for the provers to take as   *)
(* they are.                                                               *)
cat(s, t) == s \o t
one(x) == <<x>>
none == <<>>
part(s, m, n) == SubSeq(s, m, n)

(* A part of a path, to its end, and what follows one of its elements. *)
LEMMA TailSplit ==
  ASSUME NEW T, NEW s \in Seq(T), NEW f \in 1..Len(s), NEW c \in f..Len(s)
  PROVE  /\ SubSeq(s, f, c - 1) \in Seq(T) /\ SubSeq(s, c, Len(s)) \in Seq(T) /\ SubSeq(s, c + 1, Len(s)) \in Seq(T)
         /\ <<s[c]>> \in Seq(T) /\ s[c] \in T
         /\ SubSeq(s, f, Len(s)) \in Seq(T)
         /\ SubSeq(s, f, Len(s)) = SubSeq(s, f, c - 1) \o SubSeq(s, c, Len(s))
         /\ SubSeq(s, c, Len(s)) = <<s[c]>> \o SubSeq(s, c + 1, Len(s))
<1>1. Len(s) \in Nat /\ \A i \in 1..Len(s) : s[i] \in T
  OBVIOUS
<1>2. f \in Int /\ c \in Int /\ c - 1 \in Int /\ c + 1 \in Int /\ Len(s) \in Int /\ c \in 1..Len(s)
  BY <1>1
<1>3. \A i \in f..(c - 1) : s[i] \in T
  BY <1>1, <1>2
<1>4. \A i \in c..Len(s) : s[i] \in T
  BY <1>1, <1>2
<1>5. \A i \in (c + 1)..Len(s) : s[i] \in T
  BY <1>1, <1>2
<1>6. SubSeq(s, f, c - 1) \in Seq(T) /\ SubSeq(s, c, Len(s)) \in Seq(T) /\ SubSeq(s, c + 1, Len(s)) \in Seq(T)
  BY <1>2, <1>3, <1>4, <1>5, SubSeqProperties
<1>7. s[c] \in T /\ <<s[c]>> \in Seq(T)
  BY <1>1, <1>2
<1>8. SubSeq(s, f, c - 1) \o SubSeq(s, (c - 1) + 1, Len(s)) = SubSeq(s, f, Len(s))
  <2>1. f \in 1..(Len(s) + 1) /\ c - 1 \in (f - 1)..Len(s) /\ Len(s) \in (c - 1)..Len(s)
    BY <1>1, <1>2
  <2>2. QED
    BY <2>1, ConcatAdjacentSubSeq
<1>9. (c - 1) + 1 = c
  BY <1>2
<1>10. SubSeq(s, c, Len(s)) = <<s[c]>> \o SubSeq(s, c + 1, Len(s))
  <2>1. Len(s) \in c..Len(s)
    BY <1>1, <1>2
  <2>2. QED
    BY <1>2, <2>1, SubSeqRecursiveFirst
<1>11. SubSeq(s, f, Len(s)) \in Seq(T)
  BY <1>6, <1>8, <1>9, ConcatProperties
<1>12. QED
  BY <1>6, <1>7, <1>8, <1>9, <1>10, <1>11

(* only of one element. *)
LEMMA OnlyOne ==
  ASSUME NEW T, NEW x \in T, NEW S
  PROVE  /\ x \in S => only(<<x>>, S) = <<x>>
         /\ x \notin S => only(<<x>>, S) = <<>>
<1>1. PICK e \in Seq(T) : e = <<>>
  BY EmptySeq
<1>2. <<x>> = Append(e, x) /\ Append(e, x) = <<x>>
  BY <1>1
<1>3. only(e, S) = e
  BY <1>1, OnlyEmpty
<1>4. CASE x \in S
  <2>1. only(Append(e, x), S) = Append(e, x)
    BY <1>3, <1>4, OnlyTaken
  <2>2. QED
    BY <1>2, <1>4, <2>1
<1>5. CASE x \notin S
  <2>1. only(Append(e, x), S) = e
    BY <1>3, <1>5, OnlyLeft
  <2>2. QED
    BY <1>1, <1>2, <1>5, <2>1
<1>6. QED
  BY <1>4, <1>5

(* Their laws. *)
LEMMA CatType ==
  ASSUME NEW T, NEW s \in Seq(T), NEW t \in Seq(T)
  PROVE  cat(s, t) \in Seq(T)
BY ConcatProperties DEF cat

(* Concatenation is associative. *)
LEMMA CatAssoc ==
  ASSUME NEW T, NEW s \in Seq(T), NEW t \in Seq(T), NEW u \in Seq(T)
  PROVE  cat(cat(s, t), u) = cat(s, cat(t, u))
BY ConcatAssociative DEF cat

(* Nothing is the unit of concatenation. *)
LEMMA CatNone ==
  ASSUME NEW T, NEW s \in Seq(T)
  PROVE  cat(s, none) = s /\ cat(none, s) = s
BY ConcatEmptySeq DEF cat, none

(* Nothing is a sequence over every set. *)
LEMMA NoneType ==
  ASSUME NEW T
  PROVE  none \in Seq(T)
BY EmptySeq DEF none

(* One element is a sequence over every set it is in. *)
LEMMA OneType ==
  ASSUME NEW T, NEW x \in T
  PROVE  one(x) \in Seq(T)
BY DEF one

(* Appending is concatenation with one element. *)
LEMMA AppendCat ==
  ASSUME NEW T, NEW s \in Seq(T), NEW x \in T
  PROVE  Append(s, x) = cat(s, one(x))
BY AppendIsConcat DEF cat, one

(* only, by parts. *)
LEMMA OnlyCat ==
  ASSUME NEW T, NEW S, NEW s \in Seq(T), NEW t \in Seq(T)
  PROVE  only(cat(s, t), S) = cat(only(s, S), only(t, S))
BY OnlyConcat DEF cat

(* The selection from one element of the set. *)
LEMMA OnlyOneIn ==
  ASSUME NEW T, NEW S, NEW x \in T, x \in S
  PROVE  only(one(x), S) = one(x)
BY OnlyOne DEF one

(* The selection from one element outside the set. *)
LEMMA OnlyOneOut ==
  ASSUME NEW T, NEW S, NEW x \in T, x \notin S
  PROVE  only(one(x), S) = none
BY OnlyOne DEF one, none

(* The messages of a path from f on, around one that is no message. *)
LEMMA OnlyAround ==
  ASSUME NEW T, NEW M, NEW path \in Seq(T), NEW f \in 1..Len(path), NEW c \in f..Len(path), path[c] \notin M
  PROVE  /\ part(path, f, Len(path)) \in Seq(T)
         /\ cat(cat(one(path[c]), only(part(path, f, c - 1), M)), only(part(path, c + 1, Len(path)), M))
              = cat(one(path[c]), only(part(path, f, Len(path)), M))
<1>1. PICK a, d, x, b, s :
        /\ a = part(path, f, c - 1) /\ d = part(path, c + 1, Len(path)) /\ x = path[c]
        /\ b = part(path, c, Len(path)) /\ s = part(path, f, Len(path))
  OBVIOUS
<1>2. a \in Seq(T) /\ d \in Seq(T) /\ x \in T /\ b \in Seq(T) /\ s \in Seq(T) /\ s = cat(a, b) /\ b = cat(one(x), d)
  BY <1>1, TailSplit, ZenonT(40) DEF part, cat, one
<1>3. one(x) \in Seq(T) /\ only(one(x), M) = none
  BY <1>1, <1>2, OneType, OnlyOneOut, Zenon
<1>4. only(a, M) \in Seq(T) /\ only(d, M) \in Seq(T) /\ only(b, M) \in Seq(T)
  BY <1>2, OnlyTyped, Zenon
<1>5. only(b, M) = only(d, M)
  <2>1. only(b, M) = cat(none, only(d, M))
    BY <1>2, <1>3, OnlyCat, ZenonT(40)
  <2>2. QED
    BY <1>4, <2>1, CatNone, Zenon
<1>6. only(s, M) = cat(only(a, M), only(d, M))
  BY <1>2, <1>5, OnlyCat
<1>7. cat(cat(one(x), only(a, M)), only(d, M)) = cat(one(x), only(s, M))
  BY <1>3, <1>4, <1>6, CatAssoc
<1>8. QED
  BY <1>1, <1>2, <1>7, Zenon

(* The summary that a context starts with. *)
headOf(es, path) == LET c == latestCompaction(es, path) IN IF c = 0 THEN none ELSE one(path[c])

(* A branch, its latest compaction and what that one kept. *)
Formed(es, path, c) ==
  \/ c = 0 /\ headOf(es, path) = none /\ sourceOf(es, path) = path
  \/ \E f \in 1..(c - 1) :
       /\ f \in 1..Len(path) /\ c \in f..Len(path)
       /\ es[path[c]].kind = "compaction" /\ headOf(es, path) = one(path[c])
       /\ path[f] = es[path[c]].first /\ indexOf(path, es[path[c]].first) = f
       /\ sourceOf(es, path) = part(path, f, Len(path))

(* Every branch is of that form. *)
LEMMA BranchForm ==
  ASSUME NEW es, Sane(es), NEW e \in 0..Len(es), NEW path, path = branchOf(es, e),
         NEW c, c = latestCompaction(es, path)
  PROVE  /\ path \in Seq(1..Len(es)) /\ Len(path) \in Nat /\ c \in 0..Len(path)
         /\ Formed(es, path, c)
<1>1. Tree(es) /\ Len(es) \in Nat
  BY DEF Sane, Tree
<1>2. Ascending(path, e)
  BY <1>1, BranchAscending
<1>3. path \in Seq(1..Len(es)) /\ Len(path) \in Nat
  <2>1. path \in Seq(1..e) /\ 1..e \subseteq 1..Len(es)
    BY <1>1, <1>2 DEF Ascending
  <2>2. QED
    BY <2>1, SeqMonotonic
<1>4. IsLatest(es, path, c)
  BY <1>3, LatestIs
<1>5. c \in 0..Len(path)
  BY <1>4 DEF IsLatest
<1>6. CASE c = 0
  <2>1. sourceOf(es, path) = path
    BY <1>6, SourceDef
  <2>2. headOf(es, path) = none
    BY <1>6 DEF headOf
  <2>3. QED
    BY <1>3, <1>5, <1>6, <2>1, <2>2 DEF Formed
<1>7. CASE c # 0
  <2>1. PICK f : KeptFrom(es, path, f)
    BY <1>7, BranchKept
  <2>2. f \in 1..(c - 1) /\ path[f] = es[path[c]].first
    BY <2>1 DEF KeptFrom
  <2>3. f \in 1..Len(path) /\ c \in f..Len(path)
    BY <1>3, <1>5, <2>2
  <2>4. e \in Nat
    BY <1>1
  <2>5. indexOf(path, es[path[c]].first) = f
    <3>1. indexOf(path, path[f]) = f
      BY <1>2, <2>3, <2>4, IndexOfIs
    <3>2. QED
      BY <2>2, <3>1
  <2>6. sourceOf(es, path) = part(path, f, Len(path))
    <3>1. sourceOf(es, path) = SubSeq(path, indexOf(path, es[path[c]].first), Len(path))
      BY <1>7, SourceDef
    <3>2. QED
      BY <2>5, <3>1 DEF part
  <2>7. headOf(es, path) = one(path[c]) /\ es[path[c]].kind = "compaction"
    BY <1>4, <1>7 DEF headOf, IsLatest
  <2>8. QED
    BY <1>3, <1>5, <2>2, <2>3, <2>5, <2>6, <2>7 DEF Formed
<1>8. QED
  BY <1>6, <1>7

(* buildSessionContext, with the other names. *)
LEMMA ContextCat ==
  ASSUME NEW es, NEW e, NEW path, path = branchOf(es, e), NEW c, c = latestCompaction(es, path)
  PROVE  /\ c = 0 => buildSessionContext(es, e) = only(path, Talk(es))
         /\ c # 0 => buildSessionContext(es, e) =
              cat(cat(one(path[c]), only(part(path, indexOf(path, es[path[c]].first), c - 1), Talk(es))),
                  only(part(path, c + 1, Len(path)), Talk(es)))
BY DEF buildSessionContext, SelectInSeq, indexOf, Talk, cat, one, part

(* buildSessionContext: the summary, and the messages of the source. *)
LEMMA ContextForm ==
  ASSUME NEW es, Sane(es), NEW e \in 0..Len(es), NEW path, path = branchOf(es, e), NEW T, T = 1..Len(es)
  PROVE  /\ headOf(es, path) \in Seq(T) /\ sourceOf(es, path) \in Seq(T)
         /\ only(sourceOf(es, path), Talk(es)) \in Seq(T)
         /\ buildSessionContext(es, e) \in Seq(T)
         /\ buildSessionContext(es, e) = cat(headOf(es, path), only(sourceOf(es, path), Talk(es)))
<1>1. PICK c : c = latestCompaction(es, path)
  OBVIOUS
<1>2. path \in Seq(T) /\ Len(path) \in Nat /\ c \in 0..Len(path)
  BY <1>1, BranchForm
<1>3. /\ c = 0 => buildSessionContext(es, e) = only(path, Talk(es))
      /\ c # 0 => buildSessionContext(es, e) =
           cat(cat(one(path[c]), only(part(path, indexOf(path, es[path[c]].first), c - 1), Talk(es))),
               only(part(path, c + 1, Len(path)), Talk(es)))
  BY <1>1, ContextCat
<1>4. SUFFICES /\ headOf(es, path) \in Seq(T) /\ sourceOf(es, path) \in Seq(T)
               /\ buildSessionContext(es, e) = cat(headOf(es, path), only(sourceOf(es, path), Talk(es)))
  BY CatType, OnlyTyped
<1>5. CASE c = 0 /\ headOf(es, path) = none /\ sourceOf(es, path) = path
  BY <1>2, <1>3, <1>5, CatNone, OnlyTyped, NoneType
<1>6. ASSUME NEW f \in 1..(c - 1), f \in 1..Len(path), c \in f..Len(path),
             es[path[c]].kind = "compaction", headOf(es, path) = one(path[c]),
             indexOf(path, es[path[c]].first) = f, sourceOf(es, path) = part(path, f, Len(path))
      PROVE  /\ headOf(es, path) \in Seq(T) /\ sourceOf(es, path) \in Seq(T)
             /\ buildSessionContext(es, e) = cat(headOf(es, path), only(sourceOf(es, path), Talk(es)))
  <2>1. path[c] \notin Talk(es)
    BY <1>6 DEF Talk, Messages, Assistants, Errors, Overflows
  <2>2. c # 0 /\ path[c] \in T
    BY <1>2, <1>6
  <2>3. buildSessionContext(es, e) = cat(cat(one(path[c]), only(part(path, f, c - 1), Talk(es))), only(part(path, c + 1, Len(path)), Talk(es)))
    BY <1>3, <1>6, <2>2, Zenon
  <2>4. /\ part(path, f, Len(path)) \in Seq(T)
        /\ cat(cat(one(path[c]), only(part(path, f, c - 1), Talk(es))), only(part(path, c + 1, Len(path)), Talk(es)))
             = cat(one(path[c]), only(part(path, f, Len(path)), Talk(es)))
    <3>1. PICK M, n : M = Talk(es) /\ n = Len(path)
      OBVIOUS
    <3>2. path \in Seq(T) /\ f \in 1..Len(path) /\ c \in f..Len(path) /\ path[c] \notin M
      BY <1>2, <1>6, <2>1, <3>1
    <3>3. /\ part(path, f, Len(path)) \in Seq(T)
          /\ cat(cat(one(path[c]), only(part(path, f, c - 1), M)), only(part(path, c + 1, Len(path)), M))
               = cat(one(path[c]), only(part(path, f, Len(path)), M))
      BY <3>2, OnlyAround
    <3>4. QED
      BY <3>1, <3>3
  <2>5. QED
    BY <1>6, <2>2, <2>3, <2>4, OneType, Zenon
<1>7. QED
  <2>1. Formed(es, path, c)
    BY <1>1, BranchForm
  <2>2. QED
    BY <1>5, <1>6, <2>1 DEF Formed

(***************************************************************************)
(* The source of a compaction and the context, when the branch grows by a  *)
(* message and when it grows by a compaction.                              *)
(***************************************************************************)

(* The end of a sequence. *)
LEMMA PartIs ==
  ASSUME NEW T, NEW s \in Seq(T), NEW f \in 1..Len(s), NEW a, a = SubSeq(s, f, Len(s))
  PROVE  a \in Seq(T) /\ Len(a) = Len(s) - f + 1 /\ \A i \in 1..(Len(s) - f + 1) : a[i] = s[f + i - 1]
<1>1. Len(s) \in Nat /\ \A i \in 1..Len(s) : s[i] \in T
  OBVIOUS
<1>2. f \in Int /\ Len(s) \in Int /\ f <= Len(s)
  BY <1>1
<1>3. \A i \in f..Len(s) : s[i] \in T
  BY <1>1
<1>4. QED
  BY <1>2, <1>3, SubSeqProperties

(* The end of a sequence, and one element more. *)
LEMMA PartGrows ==
  ASSUME NEW T, NEW s \in Seq(T), NEW x \in T, NEW f \in 1..Len(s), NEW t \in Seq(T),
         Len(t) = Len(s) + 1, t[Len(s) + 1] = x, \A i \in 1..Len(s) : t[i] = s[i]
  PROVE  part(t, f, Len(t)) = cat(part(s, f, Len(s)), one(x))
<1>1. Len(s) \in Nat
  OBVIOUS
<1>5. PICK a, b : a = SubSeq(s, f, Len(s)) /\ b = SubSeq(t, f, Len(t))
  OBVIOUS
<1>7. a \in Seq(T) /\ Len(a) = Len(s) - f + 1 /\ \A i \in 1..(Len(s) - f + 1) : a[i] = s[f + i - 1]
  BY <1>5, PartIs
<1>6. f \in 1..Len(t)
  BY <1>1
<1>8. b \in Seq(T) /\ Len(b) = Len(t) - f + 1 /\ \A i \in 1..(Len(t) - f + 1) : b[i] = t[f + i - 1]
  BY <1>1, <1>5, <1>6, PartIs
<1>9. PICK c \in Seq(T) : c = Append(a, x)
  BY <1>7, AppendProperties
<1>10. Len(c) = Len(a) + 1 /\ c[Len(a) + 1] = x /\ \A i \in 1..Len(a) : c[i] = a[i]
  <2>1. a \in Seq(T)
    BY <1>7
  <2>2. QED
    BY <1>9, <2>1, AppendProperties
<1>11. Len(b) = Len(c)
  BY <1>1, <1>7, <1>8, <1>10
<1>12. ASSUME NEW i \in 1..Len(b) PROVE b[i] = c[i]
  <2>1. i \in 1..(Len(t) - f + 1) /\ b[i] = t[f + i - 1]
    BY <1>1, <1>8
  <2>2. CASE i = Len(a) + 1
    <3>1. f + i - 1 = Len(s) + 1
      BY <1>1, <1>7, <2>2
    <3>2. QED
      BY <1>1, <1>10, <2>1, <2>2, <3>1
  <2>3. CASE i # Len(a) + 1
    <3>1. i \in 1..Len(a) /\ i \in 1..(Len(s) - f + 1) /\ f + i - 1 \in 1..Len(s)
      BY <1>1, <1>7, <1>10, <1>11, <2>3
    <3>2. QED
      BY <1>1, <1>7, <1>10, <2>1, <3>1
  <2>4. QED
    BY <2>2, <2>3
<1>13. b = c
  BY <1>8, <1>9, <1>11, <1>12, SeqEqual
<1>14. c = cat(a, one(x))
  BY <1>7, <1>9, AppendCat
<1>15. QED
  BY <1>5, <1>13, <1>14 DEF part

(* The part from f on grows with the sequence. *)
LEMMA PartAppend ==
  ASSUME NEW T, NEW s \in Seq(T), NEW x \in T, NEW f \in 1..Len(s)
  PROVE  part(Append(s, x), f, Len(Append(s, x))) = cat(part(s, f, Len(s)), one(x))
<1>1. PICK t \in Seq(T) : t = Append(s, x)
  BY AppendProperties
<1>2. Len(t) = Len(s) + 1 /\ t[Len(s) + 1] = x /\ \A i \in 1..Len(s) : t[i] = s[i]
  BY <1>1, AppendProperties
<1>3. part(t, f, Len(t)) = cat(part(s, f, Len(s)), one(x))
  BY <1>2, PartGrows
<1>4. QED
  BY <1>1, <1>3

(* A branch is that of the parent and the entry. *)
LEMMA BranchGrows ==
  ASSUME NEW es, Sane(es), NEW e \in 1..Len(es), NEW T, T = 1..Len(es), NEW p, p = es[e].parent
  PROVE  /\ p \in 0..Len(es) /\ p \in 0..(e - 1) /\ e \in 0..Len(es) /\ e \in T /\ e \in Nat
         /\ branchOf(es, p) \in Seq(T) /\ Len(branchOf(es, p)) \in Nat
         /\ branchOf(es, e) = Append(branchOf(es, p), e)
         /\ Ascending(branchOf(es, e), e)
         /\ Len(branchOf(es, e)) = Len(branchOf(es, p)) + 1
         /\ branchOf(es, e)[Len(branchOf(es, p)) + 1] = e
         /\ \A i \in 1..Len(branchOf(es, p)) : branchOf(es, e)[i] = branchOf(es, p)[i]
<1>1. Tree(es) /\ Len(es) \in Nat
  BY DEF Sane, Tree
<1>2. p \in 0..(e - 1)
  BY <1>1 DEF Tree
<1>3. p \in 0..Len(es) /\ e \in 0..Len(es) /\ e \in Nat
  BY <1>1, <1>2
<1>4. branchOf(es, e) = Append(branchOf(es, p), e)
  BY <1>1, BranchStep
<1>5. branchOf(es, p) \in Seq(T)
  BY <1>3, BranchForm
<1>6. Ascending(branchOf(es, e), e)
  BY <1>1, <1>3, BranchAscending
<1>7. PICK b \in Seq(T) : b = branchOf(es, p)
  BY <1>5
<1>8. Len(b) \in Nat /\ Len(Append(b, e)) = Len(b) + 1 /\ Append(b, e)[Len(b) + 1] = e /\ \A i \in 1..Len(b) : Append(b, e)[i] = b[i]
  BY AppendProperties
<1>9. QED
  BY <1>2, <1>3, <1>4, <1>5, <1>6, <1>7, <1>8

(* An entry that is no compaction comes at the end of the source. *)
LEMMA SourceGrows ==
  ASSUME NEW es, Sane(es), NEW e \in 1..Len(es), es[e].kind # "compaction", NEW p, p = es[e].parent
  PROVE  /\ headOf(es, branchOf(es, e)) = headOf(es, branchOf(es, p))
         /\ sourceOf(es, branchOf(es, e)) = cat(sourceOf(es, branchOf(es, p)), one(e))
<1>1. PICK T, b, q, c : T = 1..Len(es) /\ b = branchOf(es, p) /\ q = branchOf(es, e) /\ c = latestCompaction(es, b)
  OBVIOUS
<1>2. /\ p \in 0..Len(es) /\ e \in 0..Len(es) /\ e \in T /\ e \in Nat /\ b \in Seq(T) /\ Len(b) \in Nat
      /\ q = Append(b, e) /\ Ascending(q, e) /\ Len(q) = Len(b) + 1 /\ \A i \in 1..Len(b) : q[i] = b[i]
  BY <1>1, BranchGrows
<1>3. latestCompaction(es, q) = c
  BY <1>1, <1>2, LatestStep
<1>4. CASE c = 0 /\ headOf(es, b) = none /\ sourceOf(es, b) = b
  <2>1. sourceOf(es, q) = q
    BY <1>3, <1>4, SourceDef
  <2>2. headOf(es, q) = none
    BY <1>3, <1>4 DEF headOf
  <2>3. q = cat(b, one(e))
    BY <1>2, AppendCat
  <2>4. QED
    BY <1>1, <1>4, <2>1, <2>2, <2>3
<1>5. ASSUME NEW f \in 1..(c - 1), f \in 1..Len(b), c \in f..Len(b), headOf(es, b) = one(b[c]),
             b[f] = es[b[c]].first, sourceOf(es, b) = part(b, f, Len(b))
      PROVE  headOf(es, q) = headOf(es, b) /\ sourceOf(es, q) = cat(sourceOf(es, b), one(e))
  <2>1. f \in 1..Len(q) /\ c \in 1..Len(b) /\ c # 0
    BY <1>2, <1>5
  <2>2. q[f] = b[f] /\ q[c] = b[c]
    BY <1>2, <1>5, <2>1
  <2>3. headOf(es, q) = one(b[c])
    BY <1>3, <2>1, <2>2 DEF headOf
  <2>4. indexOf(q, es[q[c]].first) = f
    <3>1. q[f] = es[q[c]].first
      BY <1>5, <2>2
    <3>2. PICK x : x = es[q[c]].first
      OBVIOUS
    <3>3. indexOf(q, x) = f
      <4>1. indexOf(q, q[f]) = f
        BY <1>2, <2>1, IndexOfIs
      <4>2. QED
        BY <3>1, <3>2, <4>1
    <3>4. QED
      BY <3>2, <3>3
  <2>5. sourceOf(es, q) = part(q, f, Len(q))
    <3>1. sourceOf(es, q) = SubSeq(q, indexOf(q, es[q[c]].first), Len(q))
      BY <1>3, <2>1, SourceDef
    <3>2. QED
      BY <2>4, <3>1 DEF part
  <2>6. part(q, f, Len(q)) = cat(part(b, f, Len(b)), one(e))
    <3>1. part(Append(b, e), f, Len(Append(b, e))) = cat(part(b, f, Len(b)), one(e))
      BY <1>2, <1>5, PartAppend
    <3>2. QED
      BY <1>2, <3>1
  <2>7. QED
    BY <1>5, <2>3, <2>5, <2>6
<1>6. QED
  <2>1. Formed(es, b, c)
    BY <1>1, <1>2, BranchForm
  <2>2. QED
    BY <1>1, <1>4, <1>5, <2>1 DEF Formed

(* A compaction: the source starts with what it kept. *)
LEMMA SourceCut ==
  ASSUME NEW es, Sane(es), NEW e \in 1..Len(es), es[e].kind = "compaction", NEW b, b = branchOf(es, es[e].parent),
         NEW k \in 1..Len(b), b[k] = es[e].first
  PROVE  /\ headOf(es, branchOf(es, e)) = one(e)
         /\ sourceOf(es, branchOf(es, e)) = cat(part(b, k, Len(b)), one(e))
<1>1. PICK T, q, p : T = 1..Len(es) /\ q = branchOf(es, e) /\ p = es[e].parent
  OBVIOUS
<1>2. /\ e \in T /\ e \in Nat /\ b \in Seq(T) /\ Len(b) \in Nat /\ q = Append(b, e) /\ Ascending(q, e)
      /\ Len(q) = Len(b) + 1 /\ q[Len(b) + 1] = e /\ \A i \in 1..Len(b) : q[i] = b[i]
  BY <1>1, BranchGrows, SMTT(20)
<1>3. latestCompaction(es, q) = Len(b) + 1 /\ Len(b) + 1 # 0
  <2>1. latestCompaction(es, Append(b, e)) = Len(b) + 1
    BY <1>2, LatestStep
  <2>2. QED
    BY <1>2, <2>1
<1>4. headOf(es, q) = one(e)
  BY <1>2, <1>3 DEF headOf
<1>5. k \in 1..Len(q) /\ q[k] = es[e].first
  BY <1>2
<1>6. indexOf(q, es[q[Len(b) + 1]].first) = k
  <2>1. PICK x : x = es[e].first
    OBVIOUS
  <2>2. indexOf(q, x) = k
    <3>1. indexOf(q, q[k]) = k
      BY <1>2, <1>5, IndexOfIs
    <3>2. QED
      BY <1>5, <2>1, <3>1
  <2>3. QED
    BY <1>2, <2>1, <2>2
<1>7. sourceOf(es, q) = SubSeq(q, indexOf(q, es[q[Len(b) + 1]].first), Len(q))
  BY <1>3, SourceDef
<1>8. sourceOf(es, q) = part(q, k, Len(q))
  BY <1>6, <1>7 DEF part
<1>9. part(q, k, Len(q)) = cat(part(b, k, Len(b)), one(e))
  <2>1. part(Append(b, e), k, Len(Append(b, e))) = cat(part(b, k, Len(b)), one(e))
    BY <1>2, PartAppend
  <2>2. QED
    BY <1>2, <2>1
<1>10. QED
  BY <1>1, <1>4, <1>8, <1>9

(* buildSessionContext: an entry that is no compaction adds its message. *)
LEMMA ContextGrows ==
  ASSUME NEW es, Sane(es), NEW e \in 1..Len(es), es[e].kind # "compaction", NEW p, p = es[e].parent
  PROVE  /\ e \in Talk(es) => buildSessionContext(es, e) = cat(buildSessionContext(es, p), one(e))
         /\ e \notin Talk(es) => buildSessionContext(es, e) = buildSessionContext(es, p)
         /\ p \in 0..Len(es) /\ p \in 0..(e - 1) /\ e \in 0..Len(es)
<1>1. PICK T, b, q, M : T = 1..Len(es) /\ b = branchOf(es, p) /\ q = branchOf(es, e) /\ M = Talk(es)
  OBVIOUS
<1>2. p \in 0..Len(es) /\ p \in 0..(e - 1) /\ e \in 0..Len(es) /\ e \in T
  BY <1>1, BranchGrows
<1>3. PICK h, s : h = headOf(es, b) /\ s = sourceOf(es, b)
  OBVIOUS
<1>4. headOf(es, q) = h /\ sourceOf(es, q) = cat(s, one(e))
  BY <1>1, <1>3, SourceGrows
<1>5. h \in Seq(T) /\ s \in Seq(T) /\ only(s, M) \in Seq(T) /\ buildSessionContext(es, p) = cat(h, only(s, M))
  BY <1>1, <1>2, <1>3, ContextForm
<1>6. buildSessionContext(es, e) = cat(h, only(cat(s, one(e)), M))
  <2>1. buildSessionContext(es, e) = cat(headOf(es, q), only(sourceOf(es, q), M))
    BY <1>1, <1>2, ContextForm
  <2>2. QED
    BY <1>4, <2>1
<1>7. one(e) \in Seq(T)
  BY <1>2, OneType
<1>8. only(cat(s, one(e)), M) = cat(only(s, M), only(one(e), M))
  BY <1>5, <1>7, OnlyCat
<1>9. CASE e \in M
  <2>1. only(one(e), M) = one(e)
    BY <1>2, <1>9, OnlyOneIn
  <2>2. cat(cat(h, only(s, M)), one(e)) = cat(h, cat(only(s, M), one(e)))
    BY <1>5, <1>7, CatAssoc
  <2>3. QED
    BY <1>1, <1>2, <1>5, <1>6, <1>8, <1>9, <2>1, <2>2
<1>10. CASE e \notin M
  <2>1. only(one(e), M) = none
    BY <1>2, <1>10, OnlyOneOut
  <2>2. cat(only(s, M), none) = only(s, M)
    BY <1>5, CatNone
  <2>3. QED
    BY <1>1, <1>2, <1>5, <1>6, <1>8, <1>10, <2>1, <2>2
<1>11. QED
  BY <1>9, <1>10

(* A compaction: its summary, and the messages from what it kept on. *)
LEMMA ContextCut ==
  ASSUME NEW es, Sane(es), NEW e \in 1..Len(es), es[e].kind = "compaction", NEW b, b = branchOf(es, es[e].parent),
         NEW k \in 1..Len(b), b[k] = es[e].first
  PROVE  buildSessionContext(es, e) = cat(one(e), only(part(b, k, Len(b)), Talk(es)))
<1>1. PICK T, p, q, M, s : T = 1..Len(es) /\ p = es[e].parent /\ q = branchOf(es, e) /\ M = Talk(es) /\ s = part(b, k, Len(b))
  OBVIOUS
<1>2. e \in 0..Len(es) /\ e \in T /\ b \in Seq(T)
  BY <1>1, BranchGrows
<1>3. headOf(es, q) = one(e) /\ sourceOf(es, q) = cat(s, one(e))
  BY <1>1, SourceCut
<1>4. buildSessionContext(es, e) = cat(headOf(es, q), only(sourceOf(es, q), M))
  BY <1>1, <1>2, ContextForm
<1>5. s \in Seq(T) /\ one(e) \in Seq(T)
  BY <1>1, <1>2, PartIs, OneType DEF part
<1>6. e \notin M
  BY <1>1 DEF Talk, Messages, Assistants, Errors, Overflows
<1>7. only(cat(s, one(e)), M) = cat(only(s, M), only(one(e), M))
  BY <1>5, OnlyCat
<1>8. only(one(e), M) = none /\ only(s, M) \in Seq(T)
  BY <1>2, <1>5, <1>6, OnlyOneOut, OnlyTyped
<1>9. cat(only(s, M), none) = only(s, M)
  BY <1>8, CatNone
<1>10. QED
  BY <1>1, <1>3, <1>4, <1>7, <1>8, <1>9

(* A context is settled by the entries up to its end. *)
LEMMA ContextSettled ==
  ASSUME NEW es, NEW fs, Sane(es), Sane(fs), NEW e \in 0..Len(es),
         Len(es) <= Len(fs), \A i \in 1..Len(es) : fs[i] = es[i]
  PROVE  buildSessionContext(fs, e) = buildSessionContext(es, e)
<1>1. Len(es) \in Nat /\ Len(fs) \in Nat /\ DOMAIN es = 1..Len(es) /\ DOMAIN fs = 1..Len(fs)
  BY DEF Sane, Tree
<1>2. PICK T, path, c : T = 1..Len(es) /\ path = branchOf(es, e) /\ c = latestCompaction(es, path)
  OBVIOUS
<1>3. path \in Seq(T) /\ Len(path) \in Nat /\ c \in 0..Len(path)
  BY <1>2, BranchForm
<1>4. path = branchOf(fs, e)
  <2>1. e \in Nat /\ \A i \in 1..e : fs[i] = es[i]
    BY <1>1
  <2>2. QED
    BY <1>2, <2>1, BranchSettled
<1>5. \A i \in 1..Len(path) : path[i] \in T /\ fs[path[i]] = es[path[i]]
  BY <1>2, <1>3
<1>6. latestCompaction(fs, path) = c
  <2>1. IsLatest(es, path, c)
    BY <1>2, <1>3, LatestIs
  <2>2. IsLatest(fs, path, c)
    <3>1. \A i \in (c + 1)..Len(path) : i \in 1..Len(path)
      BY <1>3
    <3>2. c # 0 => c \in 1..Len(path)
      BY <1>3
    <3>3. QED
      BY <1>5, <2>1, <3>1, <3>2 DEF IsLatest
  <2>3. IsLatest(fs, path, latestCompaction(fs, path))
    BY <1>3, LatestIs
  <2>4. QED
    BY <1>3, <2>2, <2>3, LatestUnique
<1>7. headOf(fs, path) = headOf(es, path)
  BY <1>2, <1>6 DEF headOf
<1>8. sourceOf(fs, path) = sourceOf(es, path)
  <2>1. CASE c = 0
    <3>1. sourceOf(es, path) = path
      BY <1>2, <2>1, SourceDef
    <3>2. sourceOf(fs, path) = path
      BY <1>6, <2>1, SourceDef
    <3>3. QED
      BY <3>1, <3>2
  <2>2. CASE c # 0
    <3>1. fs[path[c]] = es[path[c]]
      BY <1>3, <1>5, <2>2
    <3>2. sourceOf(es, path) = SubSeq(path, indexOf(path, es[path[c]].first), Len(path))
      BY <1>2, <2>2, SourceDef
    <3>3. sourceOf(fs, path) = SubSeq(path, indexOf(path, fs[path[c]].first), Len(path))
      BY <1>6, <2>2, SourceDef
    <3>4. QED
      BY <3>1, <3>2, <3>3
  <2>3. QED
    BY <2>1, <2>2
<1>9. PICK s : s = sourceOf(es, path)
  OBVIOUS
<1>10. s \in Seq(T) /\ buildSessionContext(es, e) = cat(headOf(es, path), only(s, Talk(es)))
  BY <1>2, <1>9, ContextForm
<1>11. e \in 0..Len(fs)
  BY <1>1
<1>12. buildSessionContext(fs, e) = cat(headOf(fs, path), only(sourceOf(fs, path), Talk(fs)))
  BY <1>4, <1>11, ContextForm
<1>13. only(s, Talk(es)) = only(s, Talk(fs))
  <2>1. \A x \in T : x \in Talk(es) <=> x \in Talk(fs)
    BY <1>1, <1>2 DEF Talk
  <2>2. \A i \in 1..Len(s) : s[i] \in Talk(es) <=> s[i] \in Talk(fs)
    BY <1>10, <2>1
  <2>3. QED
    BY <1>10, <2>2, OnlySame
<1>14. QED
  BY <1>7, <1>8, <1>9, <1>10, <1>12, <1>13

(***************************************************************************)
(* Where a compaction cuts: no result is kept without the answer that      *)
(* asked for it.                                                           *)
(***************************************************************************)

(* u is s followed by t, by its elements. *)
CatOf(T, s, t, u) ==
  /\ u \in Seq(T) /\ Len(s) \in Nat /\ Len(t) \in Nat /\ Len(u) = Len(s) + Len(t)
  /\ \A i \in 1..Len(s) : u[i] = s[i] /\ s[i] \in T
  /\ \A i \in 1..Len(t) : u[Len(s) + i] = t[i] /\ t[i] \in T

(* The elements of a concatenation. *)
LEMMA CatIndex ==
  ASSUME NEW T, NEW s \in Seq(T), NEW t \in Seq(T), NEW u, u = cat(s, t)
  PROVE  CatOf(T, s, t, u)
<1>1. Len(s) \in Nat /\ Len(t) \in Nat /\ (\A i \in 1..Len(s) : s[i] \in T) /\ (\A i \in 1..Len(t) : t[i] \in T)
  OBVIOUS
<1>2. PICK v : v = s \o t
  OBVIOUS
<1>3. v \in Seq(T) /\ Len(v) = Len(s) + Len(t) /\ \A i \in 1..(Len(s) + Len(t)) : v[i] = IF i <= Len(s) THEN s[i] ELSE t[i - Len(s)]
  BY <1>2, ConcatProperties
<1>4. \A i \in 1..Len(s) : v[i] = s[i]
  BY <1>1, <1>3
<1>5. ASSUME NEW i \in 1..Len(t) PROVE v[Len(s) + i] = t[i]
  <2>1. Len(s) + i \in 1..(Len(s) + Len(t)) /\ ~(Len(s) + i <= Len(s)) /\ Len(s) + i - Len(s) = i
    BY <1>1
  <2>2. QED
    BY <1>3, <2>1
<1>7. u = v
  BY <1>2 DEF cat
<1>8. QED
  BY <1>1, <1>3, <1>4, <1>5, <1>7 DEF CatOf

(* One element, by index. *)
LEMMA OneIndex ==
  ASSUME NEW x
  PROVE  Len(one(x)) = 1 /\ one(x)[1] = x
BY DEF one

(* The element i of s is on the path, which goes on from there as s does. *)
Within(T, path, s, i) == \E k \in 1..Len(path), a \in Seq(T) : path[k] = s[i] /\ s = cat(a, part(path, k, Len(path)))

(* What is in the end of a sequence, and what comes before it. *)
LEMMA PartSplit ==
  ASSUME NEW T, NEW path \in Seq(T), NEW f \in 1..Len(path), NEW s, s = part(path, f, Len(path)), NEW i \in 1..Len(s)
  PROVE  Within(T, path, s, i)
<1>1. s \in Seq(T) /\ Len(s) = Len(path) - f + 1 /\ \A n \in 1..(Len(path) - f + 1) : s[n] = path[f + n - 1]
  BY PartIs DEF part
<1>2. Len(path) \in Nat /\ i \in 1..(Len(path) - f + 1)
  BY <1>1
<1>3. f + i - 1 \in f..Len(path)
  BY <1>2
<1>4. PICK k \in f..Len(path) : k = f + i - 1
  BY <1>3
<1>5. k \in 1..Len(path) /\ path[k] = s[i]
  BY <1>1, <1>2, <1>4
<1>6. part(path, f, k - 1) \in Seq(T) /\ part(path, f, Len(path)) = cat(part(path, f, k - 1), part(path, k, Len(path)))
  BY TailSplit DEF part, cat
<1>7. QED
  BY <1>5, <1>6 DEF Within

(* What is in a source is on the branch, which goes on as the source does. *)
LEMMA SourceSplit ==
  ASSUME NEW es, Sane(es), NEW e \in 0..Len(es), NEW path, path = branchOf(es, e), NEW T, T = 1..Len(es),
         NEW s, s = sourceOf(es, path), NEW i \in 1..Len(s)
  PROVE  Within(T, path, s, i)
<1>1. PICK c : c = latestCompaction(es, path)
  OBVIOUS
<1>2. path \in Seq(T) /\ Len(path) \in Nat /\ Formed(es, path, c)
  BY <1>1, BranchForm
<1>3. PICK f \in 1..Len(path) : s = part(path, f, Len(path))
  <2>1. CASE c = 0 /\ sourceOf(es, path) = path
    <3>1. 1 \in 1..Len(path)
      BY <1>2, <2>1
    <3>2. path = part(path, 1, Len(path))
      BY <1>2, SubSeqFull DEF part
    <3>3. QED
      BY <2>1, <3>1, <3>2
  <2>2. CASE \E f \in 1..Len(path) : sourceOf(es, path) = part(path, f, Len(path))
    BY <2>2
  <2>3. QED
    BY <1>2, <2>1, <2>2 DEF Formed
<1>4. QED
  BY <1>2, <1>3, PartSplit

(* Element i of o is in S, and one of s. *)
OfBoth(s, S, o, i) == o[i] \in S /\ \E k \in 1..Len(s) : o[i] = s[k]

(* What only leaves is in the sequence, and in S. *)
LEMMA OnlyElements ==
  ASSUME NEW T, NEW s \in Seq(T), NEW S, NEW o, o = only(s, S), NEW i \in 1..Len(o)
  PROVE  OfBoth(s, S, o, i)
<1>1. s \in Seq(Elements(s)) /\ DOMAIN s = 1..Len(s)
  BY OwnElements
<1>2. o \in Seq(Elements(s)) /\ \A j \in 1..Len(o) : o[j] \in S
  BY <1>1, OnlyFrom
<1>3. o[i] \in Elements(s)
  BY <1>2
<1>4. QED
  BY <1>1, <1>2, <1>3 DEF Elements, OfBoth

(* A list of entries, and the kinds of it. *)
LEMMA KindsIndex ==
  ASSUME NEW es, NEW T, NEW u \in Seq(T), NEW k, k = kindsOf(es, u)
  PROVE  DOMAIN k = 1..Len(u) /\ Len(k) = Len(u) /\ Len(u) \in Nat /\ \A i \in 1..Len(u) : k[i] = es[u[i]].kind
<1>1. Len(u) \in Nat /\ DOMAIN u = 1..Len(u)
  OBVIOUS
<1>2. k = [i \in 1..Len(u) |-> es[u[i]].kind]
  BY <1>1 DEF kindsOf
<1>3. DOMAIN k = 1..Len(u) /\ \A i \in 1..Len(u) : k[i] = es[u[i]].kind
  BY <1>2
<1>4. Len(k) = Len(u)
  BY <1>1, <1>2
<1>5. QED
  BY <1>1, <1>3, <1>4

(* closed, for a list of entries. *)
Closed(es, u) ==
  /\ \A i \in 1..(Len(u) - 1) : es[u[i]].kind = "call" => es[u[i + 1]].kind = "result"
  /\ \A i \in 1..Len(u) : es[u[i]].kind = "result" => i # 1 /\ es[u[i - 1]].kind = "call"
  /\ Len(u) # 0 => es[u[Len(u)]].kind # "call"

(* closed, of the kinds of a context, says what Closed says of its entries. *)
LEMMA ClosedIs ==
  ASSUME NEW es, NEW T, NEW u \in Seq(T)
  PROVE  closed(kindsOf(es, u)) <=> Closed(es, u)
<1>1. PICK k : k = kindsOf(es, u)
  OBVIOUS
<1>2. DOMAIN k = 1..Len(u) /\ Len(k) = Len(u) /\ Len(u) \in Nat /\ \A i \in 1..Len(u) : k[i] = es[u[i]].kind
  BY <1>1, KindsIndex
<1>3. \A i \in 1..(Len(u) - 1) : i \in 1..Len(u) /\ i + 1 \in 1..Len(u)
  BY <1>2
<1>4. \A i \in 1..Len(u) : i # 1 => i - 1 \in 1..Len(u)
  BY <1>2
<1>5. k # <<>> <=> Len(u) # 0
  <2>1. k = [i \in 1..Len(u) |-> es[u[i]].kind]
    BY <1>1, <1>2 DEF kindsOf
  <2>2. k \in Seq(Elements(k))
    BY <1>2, <2>1 DEF Elements
  <2>3. QED
    BY <1>2, <2>2, EmptySeq
<1>6. Len(u) # 0 => Len(u) \in 1..Len(u)
  BY <1>2
<1>7. broken(k) <=> \/ \E i \in 1..(Len(u) - 1) : es[u[i]].kind = "call" /\ es[u[i + 1]].kind # "result"
                    \/ \E i \in 1..Len(u) : es[u[i]].kind = "result" /\ (i = 1 \/ es[u[i - 1]].kind # "call")
  <2>1. \A i \in 1..(Len(u) - 1) : k[i] = es[u[i]].kind /\ k[i + 1] = es[u[i + 1]].kind
    BY <1>2, <1>3
  <2>2. (\E i \in 1..(Len(k) - 1) : k[i] = "call" /\ k[i + 1] # "result")
          <=> (\E i \in 1..(Len(u) - 1) : es[u[i]].kind = "call" /\ es[u[i + 1]].kind # "result")
    BY <1>2, <2>1
  <2>3. \A i \in 1..Len(u) : k[i] = es[u[i]].kind /\ (i # 1 => k[i - 1] = es[u[i - 1]].kind)
    BY <1>2, <1>4
  <2>4. (\E i \in DOMAIN k : k[i] = "result" /\ (i = 1 \/ k[i - 1] # "call"))
          <=> (\E i \in 1..Len(u) : es[u[i]].kind = "result" /\ (i = 1 \/ es[u[i - 1]].kind # "call"))
    <3>1. DOMAIN k = 1..Len(u)
      BY <1>2
    <3>2. \A i \in 1..Len(u) : (k[i] = "result" /\ (i = 1 \/ k[i - 1] # "call"))
                                <=> (es[u[i]].kind = "result" /\ (i = 1 \/ es[u[i - 1]].kind # "call"))
      BY <2>3
    <3>3. QED
      BY <3>1, <3>2, ZenonT(40)
  <2>5. broken(k) <=> \/ \E i \in 1..(Len(k) - 1) : k[i] = "call" /\ k[i + 1] # "result"
                      \/ \E i \in DOMAIN k : k[i] = "result" /\ (i = 1 \/ k[i - 1] # "call")
    BY DEF broken
  <2>6. QED
    BY <2>2, <2>4, <2>5, Zenon
<1>8. openTail(k) <=> Len(u) # 0 /\ es[u[Len(u)]].kind = "call"
  BY <1>2, <1>5, <1>6 DEF openTail, Last
<1>9. QED
  BY <1>1, <1>7, <1>8 DEF closed, Closed

(* The end of a closed list that does not start with a result is closed,   *)
(* below a summary too.                                                    *)
LEMMA CutClosed ==
  ASSUME NEW es, NEW fs, NEW T, NEW a \in Seq(T), NEW b \in Seq(T), NEW x, NEW u, u = cat(a, b), Closed(es, u),
         \A t \in T : fs[t] = es[t], fs[x].kind = "compaction", Len(b) # 0 => es[b[1]].kind # "result",
         NEW v, v = cat(one(x), b)
  PROVE  Closed(fs, v)
<1>1. /\ Len(a) \in Nat /\ Len(b) \in Nat /\ Len(u) = Len(a) + Len(b)
      /\ \A i \in 1..Len(b) : u[Len(a) + i] = b[i] /\ b[i] \in T
  <2>1. CatOf(T, a, b, u)
    BY CatIndex
  <2>2. QED
    BY <2>1 DEF CatOf
<1>2. Len(v) = 1 + Len(b) /\ v[1] = x /\ \A i \in 1..Len(b) : v[1 + i] = b[i]
  <2>1. PICK V : V = T \cup {x}
    OBVIOUS
  <2>2. b \in Seq(V) /\ x \in V /\ one(x) \in Seq(V)
    BY <2>1, SeqMonotonic, OneType
  <2>3. Len(one(x)) = 1 /\ one(x)[1] = x
    BY OneIndex
  <2>4. CatOf(V, one(x), b, v)
    BY <2>2, CatIndex
  <2>5. 1 \in 1..Len(one(x))
    BY <2>3
  <2>6. QED
    BY <2>3, <2>4, <2>5 DEF CatOf
<1>3. ASSUME NEW i \in 1..Len(b)
      PROVE  fs[v[1 + i]].kind = es[b[i]].kind /\ es[u[Len(a) + i]].kind = es[b[i]].kind
  BY <1>1, <1>2
<1>4. fs[v[1]].kind = "compaction"
  BY <1>2
<1>5. ASSUME NEW i \in 1..(Len(v) - 1), fs[v[i]].kind = "call" PROVE fs[v[i + 1]].kind = "result"
  <2>1. i # 1
    BY <1>4, <1>5
  <2>2. PICK k \in 1..(Len(b) - 1) : i = 1 + k
    <3>1. i - 1 \in 1..(Len(b) - 1) /\ i = 1 + (i - 1)
      BY <1>1, <1>2, <2>1
    <3>2. QED
      BY <3>1
  <2>3. k \in 1..Len(b) /\ k + 1 \in 1..Len(b) /\ Len(a) + k \in 1..(Len(u) - 1) /\ i + 1 = 1 + (k + 1) /\ Len(a) + k + 1 = Len(a) + (k + 1)
    BY <1>1, <2>2
  <2>4. es[u[Len(a) + k]].kind = "call"
    BY <1>3, <1>5, <2>2, <2>3
  <2>5. es[u[Len(a) + k + 1]].kind = "result"
    BY <2>3, <2>4 DEF Closed
  <2>6. es[b[k + 1]].kind = "result"
    BY <1>3, <2>3, <2>5
  <2>7. QED
    BY <1>3, <2>3, <2>6
<1>6. ASSUME NEW i \in 1..Len(v), fs[v[i]].kind = "result" PROVE i # 1 /\ fs[v[i - 1]].kind = "call"
  <2>1. i # 1
    BY <1>4, <1>6
  <2>2. PICK k \in 1..Len(b) : i = 1 + k
    <3>1. i - 1 \in 1..Len(b) /\ i = 1 + (i - 1)
      BY <1>1, <1>2, <2>1
    <3>2. QED
      BY <3>1
  <2>3. es[b[k]].kind = "result"
    BY <1>3, <1>6, <2>2
  <2>4. k # 1
    BY <2>3
  <2>5. k - 1 \in 1..Len(b) /\ Len(a) + k \in 1..Len(u) /\ i - 1 = 1 + (k - 1) /\ Len(a) + k - 1 = Len(a) + (k - 1)
    BY <1>1, <2>2, <2>4
  <2>6. es[u[Len(a) + k]].kind = "result"
    BY <1>3, <2>2, <2>3
  <2>7. es[u[Len(a) + k - 1]].kind = "call"
    <3>1. PICK n : n = Len(a) + k
      OBVIOUS
    <3>2. n \in 1..Len(u) /\ es[u[n]].kind = "result"
      BY <2>5, <2>6, <3>1
    <3>3. es[u[n - 1]].kind = "call"
      BY <3>2 DEF Closed
    <3>4. QED
      BY <3>1, <3>3
  <2>8. es[b[k - 1]].kind = "call"
    BY <1>3, <2>5, <2>7
  <2>9. fs[v[i - 1]].kind = "call"
    BY <1>3, <2>5, <2>8
  <2>10. QED
    BY <2>1, <2>9
<1>7. fs[v[Len(v)]].kind # "call"
  <2>1. CASE Len(b) = 0
    BY <1>1, <1>2, <1>4, <2>1
  <2>2. CASE Len(b) # 0
    <3>1. Len(b) \in 1..Len(b) /\ Len(u) = Len(a) + Len(b) /\ Len(u) # 0 /\ Len(v) = 1 + Len(b)
      BY <1>1, <1>2, <2>2
    <3>2. es[u[Len(u)]].kind # "call"
      BY <3>1 DEF Closed
    <3>3. es[b[Len(b)]].kind # "call"
      BY <1>3, <3>1, <3>2
    <3>4. QED
      BY <1>3, <3>1, <3>3
  <2>3. QED
    BY <2>1, <2>2
<1>8. QED
  BY <1>5, <1>6, <1>7 DEF Closed

(* What is kept from first on, of the context u, starts with no result. *)
CutsAt(es, T, path, u, first) ==
  \E k \in 1..Len(path), a \in Seq(T), b \in Seq(T) :
    /\ path[k] = first /\ b = only(part(path, k, Len(path)), Talk(es)) /\ u = cat(a, b)
    /\ Len(b) # 0 => es[b[1]].kind # "result"

(* findCutPoint: what is kept starts with no result, given that what there *)
(* was is closed.                                                          *)
LEMMA CutFirst ==
  ASSUME NEW es, Sane(es), NEW e \in 1..Len(es), NEW T, T = 1..Len(es), NEW path, path = branchOf(es, e),
         NEW s, s = sourceOf(es, path), NEW first \in cutPoints(es, s), Closed(es, buildSessionContext(es, e))
  PROVE  CutsAt(es, T, path, buildSessionContext(es, e), first)
<1>1. PICK M, h, ctx : M = Talk(es) /\ h = headOf(es, path) /\ ctx = buildSessionContext(es, e)
  OBVIOUS
<1>2. e \in 0..Len(es) /\ Len(es) \in Nat /\ DOMAIN es = 1..Len(es)
  BY DEF Sane, Tree
<1>3. h \in Seq(T) /\ s \in Seq(T) /\ only(s, M) \in Seq(T) /\ ctx = cat(h, only(s, M))
  BY <1>1, <1>2, ContextForm
<1>4. DOMAIN s = 1..Len(s) /\ Len(s) \in Nat
  BY <1>3
<1>5. Len(s) # 0
  <2>1. \/ sourceOf(es, path) = cat(sourceOf(es, branchOf(es, es[e].parent)), one(e))
        \/ \E b, k : /\ k \in 1..Len(b) /\ b = branchOf(es, es[e].parent)
                    /\ sourceOf(es, path) = cat(part(b, k, Len(b)), one(e))
    <3>1. CASE es[e].kind # "compaction"
      BY <3>1, SourceGrows
    <3>2. CASE es[e].kind = "compaction"
      <4>1. PICK b : b = branchOf(es, es[e].parent)
        OBVIOUS
      <4>2. PICK k \in 1..Len(b) : b[k] = es[e].first
        BY <3>2, <4>1 DEF Sane, FirstOnBranch
      <4>3. sourceOf(es, path) = cat(part(b, k, Len(b)), one(e))
        BY <3>2, <4>1, <4>2, SourceCut
      <4>4. QED
        BY <4>1, <4>3
    <3>3. QED
      BY <3>1, <3>2
  <2>2. ASSUME NEW d \in Seq(T), s = cat(d, one(e)) PROVE Len(s) # 0
    <3>1. one(e) \in Seq(T) /\ Len(one(e)) = 1
      BY OneType, OneIndex
    <3>2. CatOf(T, d, one(e), s)
      BY <2>2, <3>1, CatIndex
    <3>3. QED
      BY <3>1, <3>2 DEF CatOf
  <2>3. PICK p : p = es[e].parent
    OBVIOUS
  <2>4. p \in 0..Len(es) /\ branchOf(es, p) \in Seq(T) /\ sourceOf(es, branchOf(es, p)) \in Seq(T)
    <3>1. p \in 0..Len(es)
      BY <2>3, BranchGrows
    <3>2. QED
      BY <3>1, BranchForm, ContextForm
  <2>5. ASSUME NEW k \in 1..Len(branchOf(es, p)) PROVE part(branchOf(es, p), k, Len(branchOf(es, p))) \in Seq(T)
    <3>1. PICK b \in Seq(T) : b = branchOf(es, p)
      BY <2>4
    <3>2. part(b, k, Len(b)) \in Seq(T)
      BY <3>1, PartIs DEF part
    <3>3. QED
      BY <3>1, <3>2
  <2>6. QED
    BY <2>1, <2>2, <2>3, <2>4, <2>5
<1>6. PICK i \in 1..Len(s) : s[i] = first
  <2>1. Head(s) = s[1] /\ 1 \in 1..Len(s)
    BY <1>3, <1>4, <1>5
  <2>2. QED
    BY <1>4, <2>1 DEF cutPoints, ToSet
<1>7. PICK k \in 1..Len(path), c \in Seq(T) : path[k] = s[i] /\ s = cat(c, part(path, k, Len(path)))
  <2>1. Within(T, path, s, i)
    BY <1>2, SourceSplit
  <2>2. QED
    BY <2>1 DEF Within
<1>8. PICK r, b, a, o : r = part(path, k, Len(path)) /\ b = only(r, M) /\ a = cat(h, only(c, M)) /\ o = only(s, M)
  OBVIOUS
<1>9. path \in Seq(T)
  BY <1>2, BranchForm
<1>10. r \in Seq(T)
  BY <1>8, <1>9, PartIs DEF part
<1>11. b \in Seq(T) /\ only(c, M) \in Seq(T) /\ o = cat(only(c, M), b)
  BY <1>7, <1>8, <1>10, OnlyTyped, OnlyCat
<1>12. a \in Seq(T) /\ ctx = cat(a, b)
  BY <1>3, <1>8, <1>11, CatType, CatAssoc
<1>13. ASSUME Len(b) # 0 PROVE es[b[1]].kind # "result"
  <2>1. CASE es[first].kind \in Messages /\ es[first].kind # "result"
    <3>1. r = cat(one(first), part(path, k + 1, Len(path))) /\ part(path, k + 1, Len(path)) \in Seq(T) /\ first \in T
      <4>1. k \in k..Len(path) /\ path[k] = first
        BY <1>6, <1>7, <1>9
      <4>2. SubSeq(path, k, Len(path)) = <<path[k]>> \o SubSeq(path, k + 1, Len(path)) /\ SubSeq(path, k + 1, Len(path)) \in Seq(T) /\ path[k] \in T
        BY <1>9, <4>1, TailSplit
      <4>3. QED
        BY <1>8, <4>1, <4>2 DEF part, cat, one
    <3>2. first \in M
      BY <1>1, <1>2, <2>1, <3>1 DEF Talk
    <3>3. PICK d : d = part(path, k + 1, Len(path))
      OBVIOUS
    <3>4. one(first) \in Seq(T) /\ only(one(first), M) = one(first) /\ only(d, M) \in Seq(T) /\ d \in Seq(T)
      BY <3>1, <3>2, <3>3, OneType, OnlyOneIn, OnlyTyped
    <3>5. b = cat(one(first), only(d, M))
      BY <1>8, <3>1, <3>3, <3>4, OnlyCat
    <3>6. b[1] = first
      <4>1. Len(one(first)) = 1 /\ one(first)[1] = first
        BY OneIndex
      <4>2. CatOf(T, one(first), only(d, M), b)
        BY <3>4, <3>5, CatIndex
      <4>3. QED
        BY <4>1, <4>2 DEF CatOf
    <3>7. QED
      BY <2>1, <3>6
  <2>2. CASE \A n \in 1..Len(s) : es[s[n]].kind \notin Messages \ {"result"}
    <3>1. /\ Len(o) = Len(only(c, M)) + Len(b) /\ Len(only(c, M)) \in Nat /\ Len(b) \in Nat
      <4>1. CatOf(T, only(c, M), b, o)
        BY <1>11, CatIndex
      <4>2. QED
        BY <4>1 DEF CatOf
    <3>2. 1 \in 1..Len(o)
      BY <1>13, <3>1
    <3>3. es[o[1]].kind = "result"
      <4>1. o[1] \in M /\ \E n \in 1..Len(s) : o[1] = s[n]
        <5>1. PICK z \in 1..Len(o) : z = 1
          BY <3>2
        <5>2. s \in Seq(T) /\ o = only(s, M)
          BY <1>3, <1>8
        <5>3. OfBoth(s, M, o, z)
          BY <5>2, OnlyElements
        <5>4. QED
          BY <5>1, <5>3 DEF OfBoth
      <4>2. es[o[1]].kind \in Messages
        BY <1>1, <4>1 DEF Talk
      <4>3. QED
        BY <2>2, <4>1, <4>2
    <3>4. /\ Len(ctx) = Len(h) + Len(o) /\ Len(h) \in Nat /\ (\A n \in 1..Len(h) : ctx[n] = h[n])
          /\ \A n \in 1..Len(o) : ctx[Len(h) + n] = o[n]
      <4>1. CatOf(T, h, o, ctx)
        BY <1>3, <1>8, CatIndex
      <4>2. QED
        BY <4>1 DEF CatOf
    <3>5. PICK m \in Nat : m = Len(h) + 1
      BY <3>4
    <3>6. m \in 1..Len(ctx) /\ es[ctx[m]].kind = "result"
      <4>1. ctx[m] = o[1]
        BY <3>2, <3>4, <3>5
      <4>2. Len(o) \in Nat
        BY <3>1
      <4>3. m \in 1..Len(ctx)
        BY <3>2, <3>4, <3>5, <4>2
      <4>4. QED
        BY <3>3, <4>1, <4>3
    <3>7. Len(h) \in 1..Len(h) /\ es[h[Len(h)]].kind = "call"
      <4>1. Closed(es, ctx)
        BY <1>1
      <4>2. m # 1 /\ es[ctx[m - 1]].kind = "call"
        BY <3>6, <4>1 DEF Closed
      <4>3. m - 1 = Len(h) /\ Len(h) \in 1..Len(h)
        BY <3>4, <3>5, <4>2
      <4>4. QED
        BY <3>4, <4>2, <4>3
    <3>8. es[h[Len(h)]].kind = "compaction" \/ Len(h) = 0
      <4>1. PICK g : g = latestCompaction(es, path)
        OBVIOUS
      <4>2. Formed(es, path, g)
        BY <1>2, <4>1, BranchForm
      <4>3. h = none \/ (h = one(path[g]) /\ es[path[g]].kind = "compaction")
        BY <1>1, <4>2 DEF Formed
      <4>4. Len(none) = 0 /\ Len(one(path[g])) = 1 /\ one(path[g])[1] = path[g]
        BY OneIndex DEF none
      <4>5. QED
        BY <4>3, <4>4
    <3>9. QED
      BY <3>7, <3>8
  <2>3. QED
    <3>1. first \in (IF {n \in ToSet(s) : es[n].kind \in Messages \ {"result"}} = {} THEN {Head(s)} ELSE {n \in ToSet(s) : es[n].kind \in Messages \ {"result"}})
      BY DEF cutPoints
    <3>2. CASE {n \in ToSet(s) : es[n].kind \in Messages \ {"result"}} = {}
      <4>1. \A n \in 1..Len(s) : s[n] \in ToSet(s)
        BY <1>4 DEF ToSet
      <4>2. QED
        BY <2>2, <3>2, <4>1
    <3>3. CASE {n \in ToSet(s) : es[n].kind \in Messages \ {"result"}} # {}
      BY <2>1, <3>1, <3>3
    <3>4. QED
      BY <3>2, <3>3
<1>14. QED
  BY <1>1, <1>6, <1>7, <1>8, <1>11, <1>12, <1>13 DEF CutsAt

(***************************************************************************)
(* Every compaction of the tree keeps its turns.                           *)
(***************************************************************************)

(* What compaction d kept first is on its branch. *)
StartsOn(es, d) == \E k \in 1..Len(branchOf(es, es[d].parent)) : branchOf(es, es[d].parent)[k] = es[d].first

(* What a compaction kept first stays on its branch, whatever is appended. *)
LEMMA FirstSettled ==
  ASSUME NEW es, NEW fs, Sane(es), Tree(fs), Len(es) <= Len(fs), \A i \in 1..Len(es) : fs[i] = es[i],
         NEW d \in 1..Len(es), fs[d].kind = "compaction"
  PROVE  StartsOn(fs, d)
<1>1. Len(es) \in Nat /\ es[d].parent \in 0..(d - 1)
  BY DEF Sane, Tree
<1>2. PICK p : p = es[d].parent
  OBVIOUS
<1>3. p \in Nat /\ \A i \in 1..p : fs[i] = es[i]
  BY <1>1, <1>2
<1>4. branchOf(fs, p) = branchOf(es, p)
  BY <1>3, BranchSettled
<1>5. fs[d] = es[d]
  OBVIOUS
<1>6. \E k \in 1..Len(branchOf(es, p)) : branchOf(es, p)[k] = es[d].first
  BY <1>2, <1>5 DEF Sane, FirstOnBranch
<1>7. QED
  BY <1>2, <1>4, <1>5, <1>6 DEF StartsOn

(* Entries that are no compactions leave the tree sane. *)
LEMMA SaneExtends ==
  ASSUME NEW es, NEW fs, Sane(es), Tree(fs), Len(es) <= Len(fs), \A i \in 1..Len(es) : fs[i] = es[i],
         \A i \in (Len(es) + 1)..Len(fs) : fs[i].kind # "compaction"
  PROVE  Sane(fs)
<1>1. Len(es) \in Nat /\ Len(fs) \in Nat
  BY DEF Sane, Tree
<1>2. ASSUME NEW d \in 1..Len(fs), fs[d].kind = "compaction"
      PROVE  StartsOn(fs, d)
  <2>1. d \in 1..Len(es)
    BY <1>1, <1>2
  <2>2. QED
    BY <1>2, <2>1, FirstSettled
<1>3. QED
  BY <1>2 DEF Sane, FirstOnBranch, StartsOn

(* The kinds of a context are settled by the entries up to its end. *)
LEMMA KindsSettled ==
  ASSUME NEW es, NEW fs, Sane(es), Sane(fs), NEW e \in 0..Len(es),
         Len(es) <= Len(fs), \A i \in 1..Len(es) : fs[i] = es[i]
  PROVE  branchKinds(fs, e) = branchKinds(es, e)
<1>1. PICK u, T : u = buildSessionContext(es, e) /\ T = 1..Len(es)
  OBVIOUS
<1>2. u = buildSessionContext(fs, e)
  BY <1>1, ContextSettled
<1>3. u \in Seq(T)
  BY <1>1, ContextForm
<1>4. \A i \in DOMAIN u : fs[u[i]] = es[u[i]]
  BY <1>1, <1>3
<1>5. kindsOf(fs, u) = kindsOf(es, u)
  BY <1>4 DEF kindsOf
<1>6. QED
  BY <1>1, <1>2, <1>5 DEF branchKinds

(* The context at n is a summary and the end of the one at e, which does *)
(* not start with a result.                                               *)
CutContext(es, e, fs, n) ==
  \E a, b \in Seq(1..Len(es)) :
    /\ buildSessionContext(es, e) = cat(a, b) /\ buildSessionContext(fs, n) = cat(one(n), b)
    /\ Len(b) # 0 => es[b[1]].kind # "result"

(* _commitCompaction: the summary of a closed branch, cut where            *)
(* findCutPoint cuts.                                                      *)
LEMMA CutKeeps ==
  ASSUME NEW es, Sane(es), NEW e \in 1..Len(es), closed(branchKinds(es, e)),
         NEW first \in cutPoints(es, sourceOf(es, branchOf(es, e))),
         NEW fs, Tree(fs), NEW n, n = Len(es) + 1, Len(fs) = n, \A i \in 1..Len(es) : fs[i] = es[i],
         fs[n].kind = "compaction", fs[n].parent = e, fs[n].first = first
  PROVE  Sane(fs) /\ Closed(es, buildSessionContext(es, e)) /\ CutContext(es, e, fs, n)
<1>1. PICK T, path, s, u : T = 1..Len(es) /\ path = branchOf(es, e) /\ s = sourceOf(es, path) /\ u = buildSessionContext(es, e)
  OBVIOUS
<1>2. Len(es) \in Nat /\ e \in 0..Len(es) /\ DOMAIN es = 1..Len(es) /\ DOMAIN fs = 1..Len(fs)
  BY DEF Sane, Tree
<1>3. u \in Seq(T)
  BY <1>1, <1>2, ContextForm
<1>4. Closed(es, u)
  <2>1. closed(kindsOf(es, u))
    BY <1>1 DEF branchKinds
  <2>2. QED
    BY <1>3, <2>1, ClosedIs
<1>5. CutsAt(es, T, path, u, first)
  BY <1>1, <1>4, CutFirst
<1>6. PICK k \in 1..Len(path), a \in Seq(T), b \in Seq(T) :
        /\ path[k] = first /\ b = only(part(path, k, Len(path)), Talk(es)) /\ u = cat(a, b)
        /\ Len(b) # 0 => es[b[1]].kind # "result"
  BY <1>5 DEF CutsAt
<1>7. branchOf(fs, e) = path
  <2>1. e \in Nat /\ \A i \in 1..e : fs[i] = es[i]
    BY <1>2
  <2>2. QED
    BY <1>1, <2>1, BranchSettled
<1>8. Sane(fs)
  <2>1. ASSUME NEW d \in 1..Len(fs), fs[d].kind = "compaction"
        PROVE  StartsOn(fs, d)
    <3>1. CASE d = n
      BY <1>6, <1>7, <3>1 DEF StartsOn
    <3>2. CASE d \in 1..Len(es)
      <4>1. Len(es) <= Len(fs)
        BY <1>2
      <4>2. QED
        BY <2>1, <3>2, <4>1, FirstSettled
    <3>3. QED
      BY <1>2, <3>1, <3>2
  <2>2. QED
    BY <2>1 DEF Sane, FirstOnBranch, StartsOn
<1>9. path \in Seq(T)
  BY <1>1, <1>2, BranchForm
<1>10. PICK r : r = part(path, k, Len(path))
  OBVIOUS
<1>11. r \in Seq(T)
  BY <1>9, <1>10, PartIs DEF part
<1>12. only(r, Talk(fs)) = b
  <2>1. \A x \in T : x \in Talk(es) <=> x \in Talk(fs)
    BY <1>1, <1>2 DEF Talk
  <2>2. \A i \in 1..Len(r) : r[i] \in Talk(es) <=> r[i] \in Talk(fs)
    BY <1>11, <2>1
  <2>3. only(r, Talk(es)) = only(r, Talk(fs))
    BY <1>11, <2>2, OnlySame
  <2>4. QED
    BY <1>6, <1>10, <2>3
<1>13. PICK v : v = cat(one(n), b)
  OBVIOUS
<1>14. buildSessionContext(fs, n) = v
  <2>1. n \in 1..Len(fs)
    BY <1>2
  <2>2. buildSessionContext(fs, n) = cat(one(n), only(part(path, k, Len(path)), Talk(fs)))
    BY <1>6, <1>7, <1>8, <2>1, ContextCut
  <2>3. QED
    BY <1>10, <1>12, <1>13, <2>2
<1>15. QED
  BY <1>1, <1>4, <1>6, <1>8, <1>13, <1>14 DEF CutContext

(* What a summary leaves of a closed transcript is closed. *)
LEMMA CutStands ==
  ASSUME NEW es, NEW e, Len(es) \in Nat, Closed(es, buildSessionContext(es, e)),
         NEW fs, Sane(fs), NEW n, n = Len(es) + 1, Len(fs) = n, \A i \in 1..Len(es) : fs[i] = es[i],
         fs[n].kind = "compaction", CutContext(es, e, fs, n)
  PROVE  closed(branchKinds(fs, n))
<1>1. PICK T, V, u, v : T = 1..Len(es) /\ V = 1..Len(fs) /\ u = buildSessionContext(es, e) /\ v = buildSessionContext(fs, n)
  OBVIOUS
<1>2. PICK a \in Seq(T), b \in Seq(T) : u = cat(a, b) /\ v = cat(one(n), b) /\ (Len(b) # 0 => es[b[1]].kind # "result")
  BY <1>1 DEF CutContext
<1>3. Closed(fs, v)
  <2>1. \A t \in T : fs[t] = es[t]
    BY <1>1
  <2>2. Closed(es, u)
    BY <1>1
  <2>3. QED
    BY <1>2, <2>1, <2>2, CutClosed
<1>4. v \in Seq(V)
  <2>1. n \in 0..Len(fs)
    OBVIOUS
  <2>2. QED
    BY <1>1, <2>1, ContextForm
<1>5. closed(kindsOf(fs, v))
  BY <1>3, <1>4, ClosedIs
<1>6. QED
  BY <1>1, <1>5 DEF branchKinds

(* Every summary kept the end of its branch, and leaves closed transcripts. *)
TurnsInv == FirstOnBranch(entries) /\ SummariesClosed

(* The session's entries are a tree. *)
LEMMA EntriesSane ==
  ASSUME TreeInv, FirstOnBranch(entries)
  PROVE  Sane(entries) /\ Tree(entries)
BY DEF TreeInv, Sane, Tree

(* Entries that are no compactions: the summaries are as closed as before. *)
LEMMA TurnsExtend ==
  ASSUME TreeInv, TurnsInv, TreeInv', Extended(entries')
  PROVE  TurnsInv'
<1>1. PICK es, fs : es = entries /\ fs = entries'
  OBVIOUS
<1>2. Sane(es)
  BY <1>1, EntriesSane DEF TurnsInv
<1>3. Tree(fs)
  BY <1>1 DEF Tree, TreeInv
<1>4. Len(es) <= Len(fs) /\ (\A i \in 1..Len(es) : fs[i] = es[i]) /\ \A i \in (Len(es) + 1)..Len(fs) : fs[i].kind # "compaction"
  BY <1>1, PlainIsNone DEF Extended
<1>5. Sane(fs)
  BY <1>2, <1>3, <1>4, SaneExtends
<1>6. Len(es) \in Nat /\ Len(fs) \in Nat /\ DOMAIN es = 1..Len(es) /\ DOMAIN fs = 1..Len(fs)
  BY <1>2, <1>3 DEF Sane, Tree
<1>7. ASSUME NEW c \in DOMAIN fs, fs[c].kind = "compaction" PROVE closed(branchKinds(fs, c))
  <2>1. c \in 1..Len(es) /\ c \in 0..Len(es) /\ es[c].kind = "compaction"
    BY <1>4, <1>6, <1>7
  <2>2. closed(branchKinds(es, c))
    BY <1>1, <1>6, <2>1 DEF TurnsInv, SummariesClosed, Compactions, kind
  <2>3. branchKinds(fs, c) = branchKinds(es, c)
    BY <1>2, <1>4, <1>5, <2>1, KindsSettled
  <2>4. QED
    BY <2>2, <2>3
<1>8. SummariesClosed'
  BY <1>1, <1>7 DEF SummariesClosed, Compactions, kind
<1>9. QED
  BY <1>1, <1>5, <1>8 DEF TurnsInv, Sane

(* One more compaction, of a closed branch and cut as findCutPoint cuts. *)
LEMMA TurnsCommit ==
  ASSUME TreeInv, TurnsInv, TreeInv', leaf # 0, closed(branchKinds(entries, leaf)),
         NEW first \in cutPoints(entries, sourceOf(entries, branchOf(entries, leaf))),
         Len(entries') = Len(entries) + 1, \A i \in 1..Len(entries) : entries'[i] = entries[i],
         NEW new, entries'[Len(entries) + 1] = new, new.kind = "compaction", new.parent = leaf, new.first = first
  PROVE  TurnsInv'
<1>1. PICK es, fs, e, n : es = entries /\ fs = entries' /\ e = leaf /\ n = Len(entries) + 1
  OBVIOUS
<1>2. Sane(es)
  BY <1>1, EntriesSane DEF TurnsInv
<1>3. Tree(fs)
  BY <1>1 DEF Tree, TreeInv
<1>4. Len(es) \in Nat /\ Len(fs) \in Nat /\ DOMAIN es = 1..Len(es) /\ DOMAIN fs = 1..Len(fs)
  BY <1>2, <1>3 DEF Sane, Tree
<1>5. e \in 1..Len(es)
  BY <1>1, <1>4 DEF TreeInv
<1>6. Len(fs) = n /\ n = Len(es) + 1 /\ (\A i \in 1..Len(es) : fs[i] = es[i]) /\ fs[n].kind = "compaction" /\ fs[n].parent = e /\ fs[n].first = first
  BY <1>1
<1>7. closed(branchKinds(es, e)) /\ first \in cutPoints(es, sourceOf(es, branchOf(es, e)))
  BY <1>1
<1>8. Sane(fs) /\ closed(branchKinds(fs, n))
  <2>1. Sane(fs) /\ Closed(es, buildSessionContext(es, e)) /\ CutContext(es, e, fs, n)
    BY <1>2, <1>3, <1>5, <1>6, <1>7, CutKeeps
  <2>2. closed(branchKinds(fs, n))
    BY <1>4, <1>6, <2>1, CutStands
  <2>3. QED
    BY <2>1, <2>2
<1>9. ASSUME NEW c \in DOMAIN fs, fs[c].kind = "compaction" PROVE closed(branchKinds(fs, c))
  <2>1. CASE c = n
    BY <1>8, <2>1
  <2>2. CASE c # n
    <3>1. c \in 1..Len(es) /\ c \in 0..Len(es) /\ es[c].kind = "compaction" /\ Len(es) <= Len(fs)
      BY <1>4, <1>6, <1>9, <2>2
    <3>2. closed(branchKinds(es, c))
      BY <1>1, <1>4, <3>1 DEF TurnsInv, SummariesClosed, Compactions, kind
    <3>3. \A i \in 1..Len(es) : fs[i] = es[i]
      BY <1>6
    <3>4. branchKinds(fs, c) = branchKinds(es, c)
      BY <1>2, <1>8, <3>1, <3>3, KindsSettled
    <3>5. QED
      BY <3>2, <3>4
  <2>3. QED
    BY <2>1, <2>2
<1>10. SummariesClosed'
  BY <1>1, <1>9 DEF SummariesClosed, Compactions, kind
<1>11. QED
  BY <1>1, <1>8, <1>10 DEF TurnsInv, Sane

(* What a commit that appends has appended. *)
LEMMA CommitAppends ==
  ASSUME CompactionInv, NEW j \in Jobs, Commit(j), ~UNCHANGED <<entries, leaf>>
  PROVE  /\ leaf # 0 /\ closed(branchKinds(entries, leaf))
         /\ Len(entries') = Len(entries) + 1 /\ leaf' = Len(entries) + 1
         /\ (\A i \in 1..Len(entries) : entries'[i] = entries[i])
         /\ entries'[Len(entries) + 1].kind = "compaction" /\ entries'[Len(entries) + 1].parent = leaf
         /\ entries'[Len(entries) + 1].first \in cutPoints(entries, sourceOf(entries, branchOf(entries, leaf)))
<1>1. leaf # 0 /\ ready /\ unchanged(j)
  BY DEF Commit
<1>2. PICK first \in cutPoints(entries, jobs[j].source) :
        entries' = Append(entries, [entry("compaction", leaf) EXCEPT
                                      !.first = first, !.of = jobs[j].branch, !.source = jobs[j].source])
  BY DEF Commit
<1>3. leaf' = Len(entries')
  BY DEF Commit
<1>4. jobs[j].source = sourceOf(entries, branchOf(entries, leaf))
  BY <1>1 DEF unchanged
<1>5. PICK new : new = [entry("compaction", leaf) EXCEPT !.first = first, !.of = jobs[j].branch, !.source = jobs[j].source]
  OBVIOUS
<1>6. new.kind = "compaction" /\ new.parent = leaf /\ new.first = first
  BY <1>5 DEF entry
<1>7. entries' = Append(entries, new)
  BY <1>2, <1>5
<1>8. entries \in Seq(Elements(entries) \cup {new}) /\ new \in Elements(entries) \cup {new}
  BY SeqMonotonic DEF CompactionInv, TreeInv
<1>9. /\ Len(entries) \in Nat /\ Len(entries') = Len(entries) + 1
      /\ \A i \in 1..Len(entries) : entries'[i] = entries[i]
      /\ entries'[Len(entries) + 1] = new
  BY <1>7, <1>8, AppendProperties
<1>10. closed(branchKinds(entries, leaf))
  BY <1>1 DEF ready
<1>11. QED
  BY <1>1, <1>2, <1>3, <1>4, <1>6, <1>9, <1>10

(* Turns stay whole, step by step. *)
LEMMA TurnsNext ==
  ASSUME CompactionInv, TurnsInv, [Next]_vars
  PROVE  TurnsInv'
<1>1. TreeInv /\ TreeInv'
  BY TreeNext DEF CompactionInv
<1>2. CASE ~\E j \in Jobs : Commit(j)
  <2>1. Extended(entries')
    BY <1>2, OthersExtend
  <2>2. QED
    BY <1>1, <2>1, TurnsExtend
<1>3. CASE \E j \in Jobs : Commit(j)
  <2>1. PICK j \in Jobs : Commit(j)
    BY <1>3
  <2>2. CASE UNCHANGED <<entries, leaf>>
    <3>1. Extended(entries')
      BY <1>1, <2>2 DEF TreeInv, Extended
    <3>2. QED
      BY <1>1, <3>1, TurnsExtend
  <2>3. CASE ~UNCHANGED <<entries, leaf>>
    <3>1. /\ leaf # 0 /\ closed(branchKinds(entries, leaf))
          /\ Len(entries') = Len(entries) + 1
          /\ (\A i \in 1..Len(entries) : entries'[i] = entries[i])
          /\ entries'[Len(entries) + 1].kind = "compaction" /\ entries'[Len(entries) + 1].parent = leaf
          /\ entries'[Len(entries) + 1].first \in cutPoints(entries, sourceOf(entries, branchOf(entries, leaf)))
      BY <2>1, <2>3, CommitAppends
    <3>2. QED
      BY <1>1, <3>1, TurnsCommit
  <2>4. QED
    BY <2>2, <2>3
<1>4. QED
  BY <1>2, <1>3

(* Turns are whole in every state. *)
LEMMA TurnsAlways == Spec => []TurnsInv
<1>1. Init => TurnsInv
  <2> SUFFICES ASSUME Init PROVE TurnsInv
    OBVIOUS
  <2>1. entries = <<>> /\ Len(entries) = 0 /\ DOMAIN entries = {}
    BY DEF Init
  <2>2. QED
    BY <2>1 DEF TurnsInv, FirstOnBranch, SummariesClosed, Compactions
<1>2. CompactionInv /\ TurnsInv /\ [Next]_vars => TurnsInv'
  BY TurnsNext
<1>3. QED
  BY <1>1, <1>2, InvAlways, PTL DEF Spec

(***************************************************************************)
(* The conversation: the messages of the agent and those of the session.   *)
(***************************************************************************)

(* Messages of the agent; the ones that are neither errors nor overflows,  *)
(* which recoveries drop.                                                  *)
Kinds == Plain \cup {"compaction"}
Lapses == Errors \cup Overflows
Msgs == [at : Nat, kind : Kinds]
Said == {m \in Msgs : m.kind \notin Lapses}

(* The message with the content of entry e. *)
msgOf(es, e) == [at |-> e, kind |-> es[e].kind]

(* All kinds of entries are known. *)
Known(es) == \A i \in 1..Len(es) : es[i].kind \in Kinds

(* What is said, after one more message. *)
withSaid(s, m) == IF m.kind \in Lapses THEN s ELSE cat(s, one(m))

(* What was said grows by a message, unless the message is no answer. *)
LEMMA SaidOne ==
  ASSUME NEW s \in Seq(Msgs), NEW m \in Msgs
  PROVE  only(cat(s, one(m)), Said) = withSaid(only(s, Said), m)
<1>1. one(m) \in Seq(Msgs) /\ only(s, Said) \in Seq(Msgs)
  BY OneType, OnlyTyped
<1>2. only(cat(s, one(m)), Said) = cat(only(s, Said), only(one(m), Said))
  BY <1>1, OnlyCat
<1>3. CASE m.kind \in Lapses
  <2>1. m \notin Said
    BY <1>3 DEF Said
  <2>2. only(one(m), Said) = none
    BY <2>1, OnlyOneOut
  <2>3. cat(only(s, Said), none) = only(s, Said)
    BY <1>1, CatNone
  <2>4. QED
    BY <1>2, <1>3, <2>2, <2>3 DEF withSaid
<1>4. CASE m.kind \notin Lapses
  <2>1. m \in Said
    BY <1>4 DEF Said
  <2>2. only(one(m), Said) = one(m)
    BY <2>1, OnlyOneIn
  <2>3. QED
    BY <1>2, <1>4, <2>2 DEF withSaid
<1>5. QED
  BY <1>3, <1>4

(* Messages of entries, one by one. *)
LEMMA LoadedIs ==
  ASSUME NEW es, Known(es), NEW u \in Seq(1..Len(es)), Len(es) \in Nat, NEW l, l = loaded(es, u)
  PROVE  /\ l \in Seq(Msgs) /\ Len(l) = Len(u) /\ Len(u) \in Nat
         /\ \A i \in 1..Len(u) : l[i] = msgOf(es, u[i]) /\ l[i] \in Msgs
<1>1. Len(u) \in Nat /\ DOMAIN u = 1..Len(u) /\ \A i \in 1..Len(u) : u[i] \in 1..Len(es)
  OBVIOUS
<1>2. l = [i \in 1..Len(u) |-> msgOf(es, u[i])]
  BY <1>1 DEF loaded, msgOf
<1>3. ASSUME NEW i \in 1..Len(u) PROVE msgOf(es, u[i]) \in Msgs
  BY <1>1 DEF msgOf, Msgs, Known
<1>4. l \in [1..Len(u) -> Msgs]
  BY <1>2, <1>3
<1>5. l \in Seq(Msgs) /\ Len(l) = Len(u)
  BY <1>1, <1>4
<1>6. QED
  BY <1>1, <1>2, <1>3, <1>5

(* Equal sequences, by their elements. *)
LEMMA SameElements ==
  ASSUME NEW T, NEW s \in Seq(T), NEW t \in Seq(T), Len(s) = Len(t), \A i \in 1..Len(s) : s[i] = t[i]
  PROVE  s = t
BY SeqEqual

(* loaded, by parts. *)
LEMMA LoadedOne ==
  ASSUME NEW es, Known(es), NEW u \in Seq(1..Len(es)), Len(es) \in Nat, NEW e \in 1..Len(es)
  PROVE  loaded(es, cat(u, one(e))) = cat(loaded(es, u), one(msgOf(es, e)))
<1>1. PICK T : T = 1..Len(es)
  OBVIOUS
<1>2. PICK v, w, l, m, k : v = cat(u, one(e)) /\ w = loaded(es, v) /\ l = loaded(es, u) /\ m = msgOf(es, e) /\ k = cat(l, one(m))
  OBVIOUS
<1>3. one(e) \in Seq(T) /\ u \in Seq(T) /\ e \in T
  BY <1>1, OneType
<1>4. CatOf(T, u, one(e), v)
  BY <1>2, <1>3, CatIndex
<1>5. Len(one(e)) = 1 /\ one(e)[1] = e /\ Len(one(m)) = 1 /\ one(m)[1] = m
  BY OneIndex
<1>6. v \in Seq(T) /\ Len(v) = Len(u) + 1 /\ Len(u) \in Nat /\ (\A i \in 1..Len(u) : v[i] = u[i]) /\ v[Len(u) + 1] = e
  BY <1>4, <1>5 DEF CatOf
<1>7. l \in Seq(Msgs) /\ Len(l) = Len(u) /\ \A i \in 1..Len(u) : l[i] = msgOf(es, u[i])
  BY <1>2, LoadedIs
<1>8. w \in Seq(Msgs) /\ Len(w) = Len(v) /\ \A i \in 1..Len(v) : w[i] = msgOf(es, v[i])
  BY <1>1, <1>2, <1>6, LoadedIs
<1>9. m \in Msgs
  BY <1>2 DEF msgOf, Msgs, Known
<1>10. CatOf(Msgs, l, one(m), k)
  <2>1. one(m) \in Seq(Msgs)
    BY <1>9, OneType
  <2>2. QED
    BY <1>2, <1>7, <2>1, CatIndex
<1>11. k \in Seq(Msgs) /\ Len(k) = Len(l) + 1 /\ (\A i \in 1..Len(l) : k[i] = l[i]) /\ k[Len(l) + 1] = m
  BY <1>5, <1>7, <1>6, <1>10 DEF CatOf
<1>12. ASSUME NEW i \in 1..Len(w) PROVE w[i] = k[i]
  <2>1. i \in 1..Len(v) /\ w[i] = msgOf(es, v[i])
    BY <1>8
  <2>2. CASE i \in 1..Len(u)
    BY <1>6, <1>7, <1>11, <2>1, <2>2
  <2>3. CASE i = Len(u) + 1
    BY <1>2, <1>6, <1>7, <1>11, <2>1, <2>3
  <2>4. QED
    BY <1>6, <2>1, <2>2, <2>3
<1>13. w = k
  <2>1. Len(w) = Len(k)
    BY <1>6, <1>7, <1>8, <1>11
  <2>2. QED
    BY <1>8, <1>11, <1>12, <2>1, SameElements
<1>14. QED
  BY <1>2, <1>13

(* Messages of entries that are settled. *)
LEMMA LoadedSettled ==
  ASSUME NEW es, NEW fs, NEW T, NEW u \in Seq(T), \A t \in T : fs[t] = es[t]
  PROVE  loaded(fs, u) = loaded(es, u)
<1>1. DOMAIN u = 1..Len(u) /\ \A i \in 1..Len(u) : u[i] \in T
  OBVIOUS
<1>2. \A i \in DOMAIN u : [at |-> u[i], kind |-> fs[u[i]].kind] = [at |-> u[i], kind |-> es[u[i]].kind]
  BY <1>1
<1>3. QED
  BY <1>2, Zenon DEF loaded

(* What the session would resume with at e, and what of it is said. *)
resumed(es, e) == loaded(es, buildSessionContext(es, e))
saidAt(es, e) == only(resumed(es, e), Said)

(* The last message is no answer. *)
EndsOpen(s) == Len(s) # 0 /\ s[Len(s)].kind \in Assistants => s[Len(s)].kind \in Lapses

(* What a resumed session holds are messages. *)
LEMMA ResumedType ==
  ASSUME NEW es, Sane(es), Known(es), NEW e \in 0..Len(es)
  PROVE  resumed(es, e) \in Seq(Msgs) /\ saidAt(es, e) \in Seq(Msgs)
<1>1. PICK u, l : u = buildSessionContext(es, e) /\ l = resumed(es, e)
  OBVIOUS
<1>2. Len(es) \in Nat
  BY DEF Sane, Tree
<1>3. u \in Seq(1..Len(es))
  BY <1>1, ContextForm
<1>4. l = loaded(es, u)
  BY <1>1 DEF resumed
<1>5. l \in Seq(Msgs)
  BY <1>2, <1>3, <1>4, LoadedIs
<1>6. only(l, Said) \in Seq(Msgs)
  BY <1>5, OnlyTyped
<1>7. QED
  BY <1>1, <1>5, <1>6 DEF saidAt

(* An entry that is no compaction adds its message, if it has one. *)
LEMMA ResumedGrows ==
  ASSUME NEW es, Sane(es), Known(es), NEW e \in 1..Len(es), NEW p, p = es[e].parent
  PROVE  /\ p \in 0..Len(es)
         /\ es[e].kind \in Messages => resumed(es, e) = cat(resumed(es, p), one(msgOf(es, e)))
         /\ es[e].kind = "custom" => resumed(es, e) = resumed(es, p)
<1>1. Len(es) \in Nat /\ DOMAIN es = 1..Len(es) /\ p \in 0..Len(es)
  BY DEF Sane, Tree
<1>2. PICK u : u = buildSessionContext(es, p)
  OBVIOUS
<1>3. u \in Seq(1..Len(es))
  BY <1>1, <1>2, ContextForm
<1>4. CASE es[e].kind \in Messages
  <2>1. es[e].kind # "compaction" /\ e \in Talk(es)
    <3>1. e \in Talk(es)
      BY <1>1, <1>4 DEF Talk
    <3>2. "compaction" \notin Messages
      BY DEF Messages, Assistants, Errors, Overflows
    <3>3. QED
      BY <1>4, <3>1, <3>2
  <2>2. buildSessionContext(es, e) = cat(u, one(e))
    BY <1>2, <2>1, ContextGrows
  <2>3. loaded(es, cat(u, one(e))) = cat(loaded(es, u), one(msgOf(es, e)))
    BY <1>1, <1>3, LoadedOne
  <2>4. "custom" \notin Messages
    BY DEF Messages, Assistants, Errors, Overflows
  <2>5. QED
    BY <1>1, <1>2, <1>4, <2>2, <2>3, <2>4 DEF resumed
<1>5. CASE es[e].kind = "custom"
  <2>1. es[e].kind # "compaction" /\ e \notin Talk(es)
    BY <1>5 DEF Talk, Messages, Assistants, Errors, Overflows
  <2>2. buildSessionContext(es, e) = u
    BY <1>2, <2>1, ContextGrows
  <2>3. "custom" \notin Messages
    BY DEF Messages, Assistants, Errors, Overflows
  <2>4. QED
    BY <1>1, <1>2, <1>5, <2>2, <2>3 DEF resumed
<1>6. QED
  BY <1>1, <1>4, <1>5

(* What was said at an entry is what was said at its parent and the entry's own message. *)
LEMMA SaidGrows ==
  ASSUME NEW es, Sane(es), Known(es), NEW e \in 1..Len(es), NEW p, p = es[e].parent
  PROVE  /\ es[e].kind \in Messages => saidAt(es, e) = withSaid(saidAt(es, p), msgOf(es, e))
         /\ es[e].kind = "custom" => saidAt(es, e) = saidAt(es, p)
<1>1. PICK s, m : s = resumed(es, p) /\ m = msgOf(es, e)
  OBVIOUS
<1>2. p \in 0..Len(es) /\ (es[e].kind \in Messages => resumed(es, e) = cat(s, one(m)))
      /\ (es[e].kind = "custom" => resumed(es, e) = s)
  BY <1>1, ResumedGrows
<1>3. s \in Seq(Msgs)
  BY <1>1, <1>2, ResumedType
<1>4. m \in Msgs
  BY <1>1 DEF msgOf, Msgs, Known
<1>5. only(cat(s, one(m)), Said) = withSaid(only(s, Said), m)
  BY <1>3, <1>4, SaidOne
<1>6. QED
  BY <1>1, <1>2, <1>5 DEF saidAt

(* What is appended later changes nothing of it. *)
LEMMA ResumedSettled ==
  ASSUME NEW es, NEW fs, Sane(es), Sane(fs), NEW e \in 0..Len(es),
         Len(es) <= Len(fs), \A i \in 1..Len(es) : fs[i] = es[i]
  PROVE  resumed(fs, e) = resumed(es, e) /\ saidAt(fs, e) = saidAt(es, e)
<1>1. PICK T, u : T = 1..Len(es) /\ u = buildSessionContext(es, e)
  OBVIOUS
<1>2. u \in Seq(T)
  BY <1>1, ContextForm
<1>3. u = buildSessionContext(fs, e)
  BY <1>1, ContextSettled
<1>4. \A t \in T : fs[t] = es[t]
  BY <1>1
<1>5. loaded(fs, u) = loaded(es, u)
  BY <1>2, <1>4, LoadedSettled
<1>6. QED
  BY <1>1, <1>3, <1>5 DEF resumed, saidAt

(* A list ends as its last message says. *)
LEMMA EndsOpenOne ==
  ASSUME NEW s \in Seq(Msgs), NEW m \in Msgs, m.kind \in Assistants => m.kind \in Lapses
  PROVE  EndsOpen(cat(s, one(m)))
<1>1. PICK u : u = cat(s, one(m))
  OBVIOUS
<1>2. one(m) \in Seq(Msgs) /\ Len(one(m)) = 1 /\ one(m)[1] = m
  BY OneType, OneIndex
<1>3. CatOf(Msgs, s, one(m), u)
  BY <1>1, <1>2, CatIndex
<1>4. Len(u) = Len(s) + 1 /\ u[Len(s) + 1] = m
  BY <1>2, <1>3 DEF CatOf
<1>5. QED
  BY <1>1, <1>4 DEF EndsOpen

(* A summary and the end of an open list is an open list. *)
LEMMA EndsOpenCut ==
  ASSUME NEW es, NEW fs, Known(fs), Len(fs) \in Nat, NEW T, NEW a \in Seq(T), NEW b \in Seq(T), T \subseteq 1..Len(fs),
         NEW x \in 1..Len(fs), \A t \in T : fs[t] = es[t], fs[x].kind = "compaction",
         NEW u, u = cat(a, b), NEW v, v = cat(one(x), b), EndsOpen(loaded(fs, u))
  PROVE  EndsOpen(loaded(fs, v))
<1>1. PICK V, lu, lv : V = 1..Len(fs) /\ lu = loaded(fs, u) /\ lv = loaded(fs, v)
  OBVIOUS
<1>2. a \in Seq(V) /\ b \in Seq(V) /\ x \in V /\ one(x) \in Seq(V)
  BY <1>1, SeqMonotonic, OneType
<1>3. CatOf(V, a, b, u) /\ CatOf(V, one(x), b, v)
  BY <1>2, CatIndex
<1>4. Len(one(x)) = 1 /\ one(x)[1] = x
  BY OneIndex
<1>5. u \in Seq(V) /\ Len(a) \in Nat /\ Len(b) \in Nat /\ Len(u) = Len(a) + Len(b) /\ \A i \in 1..Len(b) : u[Len(a) + i] = b[i]
  BY <1>3 DEF CatOf
<1>6. v \in Seq(V) /\ Len(v) = 1 + Len(b) /\ v[1] = x /\ \A i \in 1..Len(b) : v[1 + i] = b[i]
  <2>1. 1 \in 1..Len(one(x))
    BY <1>4
  <2>2. QED
    BY <1>3, <1>4, <2>1 DEF CatOf
<1>7. lu \in Seq(Msgs) /\ Len(lu) = Len(u) /\ \A i \in 1..Len(u) : lu[i] = msgOf(fs, u[i])
  BY <1>1, <1>5, LoadedIs, ZenonT(40)
<1>8. lv \in Seq(Msgs) /\ Len(lv) = Len(v) /\ \A i \in 1..Len(v) : lv[i] = msgOf(fs, v[i])
  BY <1>1, <1>6, LoadedIs
<1>9. CASE Len(b) = 0
  <2>1. Len(lv) = 1 /\ lv[1] = msgOf(fs, x)
    BY <1>5, <1>6, <1>8, <1>9
  <2>2. lv[1].kind = "compaction"
    BY <2>1 DEF msgOf
  <2>3. QED
    BY <1>1, <2>1, <2>2 DEF EndsOpen, Assistants, Errors, Overflows
<1>10. CASE Len(b) # 0
  <2>1. Len(b) \in 1..Len(b) /\ Len(u) \in 1..Len(u) /\ Len(v) \in 1..Len(v) /\ Len(u) # 0 /\ Len(v) # 0
    BY <1>5, <1>6, <1>10
  <2>2. u[Len(u)] = b[Len(b)] /\ v[Len(v)] = b[Len(b)]
    BY <1>5, <1>6, <2>1
  <2>3. lv[Len(lv)] = msgOf(fs, b[Len(b)]) /\ lu[Len(lu)] = msgOf(fs, b[Len(b)]) /\ Len(lu) # 0
    BY <1>7, <1>8, <2>1, <2>2
  <2>4. QED
    BY <1>1, <2>3 DEF EndsOpen
<1>11. QED
  BY <1>9, <1>10

(* Each message is one of an entry, or an error. *)
Persisted(ms) == \A i \in 1..Len(ms) : ms[i].at # 0 \/ ms[i].kind \in Lapses

(* The messages say what the session would resume with at e. *)
Mirrors(ms, es, e) == Persisted(ms) => only(ms, Said) = saidAt(es, e)

(* One more message. *)
LEMMA PersistedOne ==
  ASSUME NEW ms \in Seq(Msgs), NEW m \in Msgs
  PROVE  Persisted(cat(ms, one(m))) <=> Persisted(ms) /\ (m.at # 0 \/ m.kind \in Lapses)
<1>1. PICK u : u = cat(ms, one(m))
  OBVIOUS
<1>2. one(m) \in Seq(Msgs) /\ Len(one(m)) = 1 /\ one(m)[1] = m
  BY OneType, OneIndex
<1>3. CatOf(Msgs, ms, one(m), u)
  BY <1>1, <1>2, CatIndex
<1>4. Len(ms) \in Nat /\ Len(u) = Len(ms) + 1 /\ u[Len(ms) + 1] = m /\ \A i \in 1..Len(ms) : u[i] = ms[i]
  BY <1>2, <1>3 DEF CatOf
<1>5. Persisted(u) <=> Persisted(ms) /\ (m.at # 0 \/ m.kind \in Lapses)
  <2>1. ASSUME Persisted(u) PROVE Persisted(ms) /\ (m.at # 0 \/ m.kind \in Lapses)
    <3>1. Len(ms) + 1 \in 1..Len(u) /\ \A i \in 1..Len(ms) : i \in 1..Len(u)
      BY <1>4
    <3>2. QED
      BY <1>4, <2>1, <3>1 DEF Persisted
  <2>2. ASSUME Persisted(ms), m.at # 0 \/ m.kind \in Lapses PROVE Persisted(u)
    <3>1. \A i \in 1..Len(u) : i \in 1..Len(ms) \/ i = Len(ms) + 1
      BY <1>4
    <3>2. QED
      BY <1>4, <2>2, <3>1 DEF Persisted
  <2>3. QED
    BY <2>1, <2>2
<1>6. QED
  BY <1>1, <1>5

(* A message that the session heard. *)
LEMMA MirrorsHeard ==
  ASSUME NEW es, Sane(es), Known(es), NEW e \in 1..Len(es), es[e].kind \in Messages, NEW p, p = es[e].parent,
         NEW ms \in Seq(Msgs), Mirrors(ms, es, p), NEW m, m = msgOf(es, e)
  PROVE  Mirrors(cat(ms, one(m)), es, e) /\ cat(ms, one(m)) \in Seq(Msgs)
<1>1. m \in Msgs
  <2>1. Len(es) \in Nat
    BY DEF Sane, Tree
  <2>2. QED
    BY <2>1 DEF msgOf, Msgs, Known
<1>2. Persisted(cat(ms, one(m))) => Persisted(ms)
  BY <1>1, PersistedOne
<1>3. only(cat(ms, one(m)), Said) = withSaid(only(ms, Said), m)
  BY <1>1, SaidOne
<1>4. saidAt(es, e) = withSaid(saidAt(es, p), m)
  BY SaidGrows
<1>5. cat(ms, one(m)) \in Seq(Msgs)
  BY <1>1, OneType, CatType
<1>6. QED
  BY <1>2, <1>3, <1>4, <1>5 DEF Mirrors

(* A message that the session did not hear. *)
LEMMA MirrorsDeaf ==
  ASSUME NEW es, NEW e, NEW ms \in Seq(Msgs), Mirrors(ms, es, e), NEW m \in Msgs, m.at = 0
  PROVE  Mirrors(cat(ms, one(m)), es, e) /\ cat(ms, one(m)) \in Seq(Msgs)
<1>1. Persisted(cat(ms, one(m))) => Persisted(ms) /\ m.kind \in Lapses
  BY PersistedOne
<1>2. m.kind \in Lapses => only(cat(ms, one(m)), Said) = only(ms, Said)
  BY SaidOne DEF withSaid
<1>3. cat(ms, one(m)) \in Seq(Msgs)
  BY OneType, CatType
<1>4. QED
  BY <1>1, <1>2, <1>3 DEF Mirrors

(* An error at the end is dropped. *)
LEMMA MirrorsDropped ==
  ASSUME NEW es, NEW e, NEW ms \in Seq(Msgs), NEW m \in Msgs, m.kind \in Lapses, Mirrors(cat(ms, one(m)), es, e)
  PROVE  Mirrors(ms, es, e)
<1>1. Persisted(ms) => Persisted(cat(ms, one(m)))
  BY PersistedOne
<1>2. only(cat(ms, one(m)), Said) = only(ms, Said)
  BY SaidOne DEF withSaid
<1>3. QED
  BY <1>1, <1>2 DEF Mirrors

(* The start of a sequence. *)
LEMMA PrefixIs ==
  ASSUME NEW T, NEW s \in Seq(T), NEW n \in 0..Len(s), NEW a, a = SubSeq(s, 1, n)
  PROVE  a \in Seq(T) /\ Len(a) = n /\ \A i \in 1..n : a[i] = s[i]
<1>1. Len(s) \in Nat /\ \A i \in 1..Len(s) : s[i] \in T
  OBVIOUS
<1>2. PICK m \in Int : m = 1
  OBVIOUS
<1>3. a = SubSeq(s, m, n)
  BY <1>2
<1>4. n \in Int /\ \A i \in m..n : s[i] \in T
  BY <1>1, <1>2
<1>5. a \in Seq(T) /\ Len(a) = (IF m <= n THEN n - m + 1 ELSE 0) /\ \A i \in 1..(n - m + 1) : a[i] = s[m + i - 1]
  BY <1>3, <1>4, SubSeqProperties
<1>6. Len(a) = n /\ n - m + 1 = n
  BY <1>1, <1>2, <1>5
<1>7. ASSUME NEW i \in 1..n PROVE a[i] = s[i]
  <2>1. m + i - 1 = i /\ i \in 1..(n - m + 1)
    BY <1>2, <1>6
  <2>2. QED
    BY <1>5, <2>1
<1>8. QED
  BY <1>5, <1>6, <1>7

(* A list is all but its last element, and that one. *)
LEMMA FrontLast ==
  ASSUME NEW T, NEW s \in Seq(T), s # <<>>
  PROVE  /\ Front(s) \in Seq(T) /\ Last(s) \in T /\ Last(s) = s[Len(s)] /\ Len(s) \in 1..Len(s)
         /\ s = cat(Front(s), one(Last(s)))
<1>1. Len(s) \in Nat /\ Len(s) # 0
  BY EmptySeq
<1>2. PICK f, x : f = Front(s) /\ x = Last(s)
  OBVIOUS
<1>3. x = s[Len(s)] /\ Len(s) \in 1..Len(s) /\ x \in T
  BY <1>1, <1>2 DEF Last
<1>4. f = SubSeq(s, 1, Len(s) - 1)
  BY <1>2 DEF Front
<1>5. f \in Seq(T) /\ Len(f) = Len(s) - 1 /\ \A i \in 1..Len(f) : f[i] = s[i]
  <2>1. PICK n \in 0..Len(s) : n = Len(s) - 1
    BY <1>1, SMTT(30)
  <2>2. f = SubSeq(s, 1, n)
    BY <1>4, <2>1
  <2>3. f \in Seq(T) /\ Len(f) = n /\ \A i \in 1..n : f[i] = s[i]
    BY <2>2, PrefixIs
  <2>4. QED
    BY <2>1, <2>3
<1>6. PICK u : u = cat(f, one(x))
  OBVIOUS
<1>7. one(x) \in Seq(T) /\ Len(one(x)) = 1 /\ one(x)[1] = x
  BY <1>3, OneType, OneIndex
<1>8. CatOf(T, f, one(x), u)
  BY <1>5, <1>6, <1>7, CatIndex
<1>9. u \in Seq(T) /\ Len(u) = Len(s) /\ (\A i \in 1..(Len(s) - 1) : u[i] = s[i]) /\ u[Len(s)] = s[Len(s)]
  <2>1. u \in Seq(T) /\ Len(f) \in Nat /\ Len(u) = Len(f) + 1 /\ (\A i \in 1..Len(f) : u[i] = f[i]) /\ u[Len(f) + 1] = x
    BY <1>7, <1>8 DEF CatOf
  <2>2. QED
    BY <1>1, <1>3, <1>5, <2>1
<1>10. \A i \in 1..Len(s) : s[i] = u[i]
  BY <1>1, <1>9
<1>11. s = u
  BY <1>9, <1>10, SameElements
<1>12. QED
  BY <1>2, <1>3, <1>5, <1>6, <1>11

(* The messages and entries that a list of kinds becomes. *)
msg(i, k, c) == [at |-> IF c THEN Len(entries) + i ELSE 0, kind |-> k]
SaidLists == {<<>>} \cup {<<k>> : k \in Messages} \cup {<<"result", "failure">>}

(* A message that a run adds is a message. *)
LEMMA MsgType ==
  ASSUME NEW i \in {1, 2}, NEW k \in Messages, NEW c, Len(entries) \in Nat
  PROVE  msg(i, k, c) \in Msgs
<1>1. PICK a : a = IF c THEN Len(entries) + i ELSE 0
  OBVIOUS
<1>2. a \in Nat
  BY <1>1
<1>3. k \in Kinds
  BY DEF Kinds, Plain
<1>4. [at |-> a, kind |-> k] \in Msgs
  BY <1>2, <1>3 DEF Msgs
<1>5. QED
  BY <1>1, <1>4 DEF msg

(* A step that says nothing leaves the messages. *)
LEMMA SpokenNone ==
  ASSUME NEW ms \in Seq(Msgs), NEW c
  PROVE  ms \o spoken(<<>>, c) = ms
<1>1. spoken(<<>>, c) = none
  BY DEF spoken, none
<1>2. cat(ms, none) = ms
  BY CatNone
<1>3. QED
  BY <1>1, <1>2 DEF cat

(* A step that says one thing. *)
LEMMA SpokenOne ==
  ASSUME NEW ms, NEW k, NEW c, NEW m, m = msg(1, k, c)
  PROVE  ms \o spoken(<<k>>, c) = cat(ms, one(m))
<1>1. spoken(<<k>>, c) = [i \in 1..1 |-> msg(i, <<k>>[i], c)]
  BY DEF spoken, msg
<1>2. [i \in 1..1 |-> msg(i, <<k>>[i], c)] = <<msg(1, k, c)>>
  OBVIOUS
<1>3. QED
  BY <1>1, <1>2 DEF one, cat

(* A step that says two things. *)
LEMMA SpokenTwo ==
  ASSUME NEW ms \in Seq(Msgs), NEW k, NEW l, NEW c, NEW x \in Msgs, NEW y \in Msgs, x = msg(1, k, c), y = msg(2, l, c)
  PROVE  ms \o spoken(<<k, l>>, c) = cat(cat(ms, one(x)), one(y))
<1>1. spoken(<<k, l>>, c) = [i \in 1..2 |-> msg(i, <<k, l>>[i], c)]
  BY DEF spoken, msg
<1>2. [i \in 1..2 |-> msg(i, <<k, l>>[i], c)] = <<msg(1, k, c), msg(2, l, c)>>
  OBVIOUS
<1>3. PICK u : u = cat(one(x), one(y))
  OBVIOUS
<1>4. CatOf(Msgs, one(x), one(y), u)
  BY <1>3, OneType, CatIndex
<1>5. Len(one(x)) = 1 /\ Len(one(y)) = 1 /\ one(x)[1] = x /\ one(y)[1] = y
  BY OneIndex
<1>6. u \in Seq(Msgs) /\ Len(u) = 2 /\ u[1] = x /\ u[2] = y
  BY <1>4, <1>5 DEF CatOf
<1>7. <<x, y>> \in Seq(Msgs) /\ Len(<<x, y>>) = 2 /\ <<x, y>>[1] = x /\ <<x, y>>[2] = y
  OBVIOUS
<1>8. PICK w \in Seq(Msgs) : w = <<x, y>> /\ Len(w) = 2 /\ w[1] = x /\ w[2] = y
  BY <1>7
<1>9. \A i \in 1..Len(u) : u[i] = w[i]
  BY <1>6, <1>8
<1>10. u = w
  BY <1>6, <1>8, <1>9, SameElements
<1>11. spoken(<<k, l>>, c) = cat(one(x), one(y))
  BY <1>1, <1>2, <1>3, <1>8, <1>10
<1>12. one(x) \in Seq(Msgs) /\ one(y) \in Seq(Msgs)
  BY OneType
<1>13. cat(cat(ms, one(x)), one(y)) = cat(ms, cat(one(x), one(y)))
  BY <1>12, CatAssoc
<1>14. QED
  BY <1>11, <1>13 DEF cat

(* The entries that are appended, one below another. *)
LEMMA AppendedIs ==
  ASSUME TreeInv, NEW kinds \in Seq(Plain), NEW i \in 1..Len(kinds), NEW fs, fs = appended(kinds),
         NEW p, p = IF i = 1 THEN leaf ELSE Len(entries) + i - 1
  PROVE  fs[Len(entries) + i].kind = kinds[i] /\ fs[Len(entries) + i].parent = p
<1> DEFINE below == [z \in 1..Len(kinds) |-> entry(kinds[z], IF z = 1 THEN leaf ELSE Len(entries) + z - 1)]
           both == Elements(entries) \cup Elements(below)
<1>1. Len(entries) \in Nat /\ Len(kinds) \in Nat
  BY DEF TreeInv
<1>2. below \in Seq(Elements(below)) /\ Len(below) = Len(kinds)
  BY <1>1 DEF Elements
<1>3. below[i] = entry(kinds[i], p)
  OBVIOUS
<1>4. fs = cat(entries, below)
  BY DEF appended, cat
<1>5. entries \in Seq(both) /\ below \in Seq(both)
  <2> HIDE DEF below
  <2>1. entries \in Seq(Elements(entries))
    BY DEF TreeInv
  <2>2. QED
    BY <1>2, <2>1, SeqMonotonic
<1> HIDE DEF below, both
<1>6. CatOf(both, entries, below, fs)
  BY <1>4, <1>5, CatIndex
<1>7. fs[Len(entries) + i] = below[i]
  BY <1>2, <1>6 DEF CatOf
<1>8. QED
  BY <1>3, <1>7 DEF entry

(***************************************************************************)
(* The steps, by what they say and what they record.                       *)
(***************************************************************************)

(* The agent has messages of known kinds; compact() neither repairs a tail *)
(* nor retries.                                                            *)
MessagesInv ==
  /\ agent.messages \in Seq(Msgs) /\ Known(entries)
  /\ jobs.manual.retry = FALSE /\ jobs.manual.emergency = FALSE

(* The agent's messages say what the session would resume with. *)
MirrorInv == Mirrors(agent.messages, entries, leaf)

(* When a check is going to recover from an overflow, there is no answer   *)
(* at the end of the messages.                                             *)
RecoverInv ==
  driver.last.kind \in Overflows =>
    driver.waiting = FALSE /\ EndsOpen(agent.messages) /\ EndsOpen(resumed(entries, leaf))

(* What is known of the entries, before and after a step. *)
Surroundings ==
  /\ TreeInv /\ TreeInv' /\ Sane(entries) /\ Sane(entries') /\ Known(entries) /\ Known(entries')
  /\ Len(entries) \in Nat /\ Len(entries') \in Nat /\ Len(entries) <= Len(entries')
  /\ \A i \in 1..Len(entries) : entries'[i] = entries[i]
  /\ leaf \in 0..Len(entries) /\ leaf' \in 0..Len(entries')

(* The tree before and after a step is as the lemmas above need it. *)
LEMMA SurroundingsHold ==
  ASSUME CompactionInv, TurnsInv, Known(entries), [Next]_vars
  PROVE  Surroundings
<1>1. TreeInv /\ TreeInv' /\ Len(entries) <= Len(entries') /\ \A i \in 1..Len(entries) : entries'[i] = entries[i]
  BY TreeNext DEF CompactionInv
<1>2. TurnsInv'
  BY TurnsNext
<1>3. Sane(entries)
  BY <1>1, EntriesSane DEF TurnsInv
<1>4. Sane(entries')
  BY <1>1, <1>2 DEF TurnsInv, Sane, Tree, TreeInv
<1>5. Len(entries) \in Nat /\ Len(entries') \in Nat /\ leaf \in 0..Len(entries) /\ leaf' \in 0..Len(entries')
  BY <1>1 DEF TreeInv
<1>6. ASSUME Extended(entries') PROVE Known(entries')
  <2>1. ASSUME NEW i \in 1..Len(entries') PROVE entries'[i].kind \in Kinds
    <3>1. CASE i \in 1..Len(entries)
      BY <1>1, <3>1 DEF Known
    <3>2. CASE i \in (Len(entries) + 1)..Len(entries')
      BY <1>6, <3>2 DEF Extended, Kinds
    <3>3. QED
      BY <1>5, <3>1, <3>2
  <2>2. QED
    BY <2>1 DEF Known
<1>7. Known(entries')
  <2>1. CASE ~\E j \in Jobs : Commit(j)
    BY <1>6, <2>1, OthersExtend
  <2>2. ASSUME NEW j \in Jobs, Commit(j), UNCHANGED <<entries, leaf>> PROVE Known(entries')
    BY <2>2 DEF Known
  <2>3. ASSUME NEW j \in Jobs, Commit(j), ~UNCHANGED <<entries, leaf>> PROVE Known(entries')
    <3>1. Len(entries') = Len(entries) + 1 /\ entries'[Len(entries) + 1].kind = "compaction"
      BY <2>3, CommitAppends
    <3>2. \A i \in 1..Len(entries') : i \in 1..Len(entries) \/ i = Len(entries) + 1
      BY <1>5, <3>1
    <3>3. QED
      BY <1>1, <3>1, <3>2 DEF Known, Kinds
  <2>4. QED
    BY <2>1, <2>2, <2>3
<1>8. QED
  BY <1>1, <1>3, <1>4, <1>5, <1>7 DEF Surroundings

(* What the session heard is below the leaf. *)
Heard(kinds) ==
  \A i \in 1..Len(kinds) :
    /\ entries'[Len(entries) + i].kind = kinds[i]
    /\ entries'[Len(entries) + i].parent = IF i = 1 THEN leaf ELSE Len(entries) + i - 1

(* The entries appended for messages are heard on the branch, in order. *)
LEMMA AppendedHeard ==
  ASSUME TreeInv, NEW kinds \in Seq(Plain), entries' = appended(kinds), leaf' = Len(entries')
  PROVE  Heard(kinds) /\ leaf' = Len(entries) + Len(kinds) /\ Len(entries') = Len(entries) + Len(kinds)
<1>1. Len(appended(kinds)) = Len(entries) + Len(kinds)
  BY AppendedExtends
<1>2. ASSUME NEW i \in 1..Len(kinds)
      PROVE  /\ entries'[Len(entries) + i].kind = kinds[i]
             /\ entries'[Len(entries) + i].parent = IF i = 1 THEN leaf ELSE Len(entries) + i - 1
  <2>1. PICK p, fs : p = (IF i = 1 THEN leaf ELSE Len(entries) + i - 1) /\ fs = appended(kinds)
    OBVIOUS
  <2>2. fs[Len(entries) + i].kind = kinds[i] /\ fs[Len(entries) + i].parent = p
    BY <2>1, AppendedIs
  <2>3. QED
    BY <2>1, <2>2
<1>3. QED
  BY <1>1, <1>2 DEF Heard

(* Messages that go below one another, and what the agent says. *)
LEMMA HeardMirrors ==
  ASSUME Surroundings, NEW ms \in Seq(Msgs), Mirrors(ms, entries, leaf), NEW k \in Messages, NEW l \in Messages
  PROVE  /\ Heard(<<k>>) /\ leaf' = Len(entries) + 1 =>
              LET m == msg(1, k, TRUE) IN
              /\ Mirrors(cat(ms, one(m)), entries', leaf') /\ cat(ms, one(m)) \in Seq(Msgs)
              /\ resumed(entries', leaf') = cat(resumed(entries, leaf), one(m))
         /\ Heard(<<k, l>>) /\ leaf' = Len(entries) + 2 =>
              LET m == cat(cat(ms, one(msg(1, k, TRUE))), one(msg(2, l, TRUE))) IN
              Mirrors(m, entries', leaf') /\ m \in Seq(Msgs)
<1>1. PICK es, fs, e : es = entries /\ fs = entries' /\ e = leaf
  OBVIOUS
<1>2. /\ Sane(es) /\ Sane(fs) /\ Known(es) /\ Known(fs) /\ e \in 0..Len(es)
      /\ Len(es) \in Nat /\ Len(fs) \in Nat /\ Len(es) <= Len(fs) /\ \A i \in 1..Len(es) : fs[i] = es[i]
  BY <1>1 DEF Surroundings
<1>3. resumed(fs, e) = resumed(es, e) /\ saidAt(fs, e) = saidAt(es, e)
  BY <1>2, ResumedSettled
<1>4. Mirrors(ms, fs, e)
  BY <1>1, <1>3 DEF Mirrors
<1>5. ASSUME NEW f \in 1..Len(fs), NEW h \in Messages, fs[f].kind = h, NEW i \in {1, 2}, f = Len(es) + i
      PROVE  msg(i, h, TRUE) = msgOf(fs, f)
  BY <1>1, <1>5 DEF msg, msgOf
<1>6. ASSUME Heard(<<k>>), leaf' = Len(entries) + 1, NEW m, m = msg(1, k, TRUE)
      PROVE  /\ Mirrors(cat(ms, one(m)), entries', leaf') /\ cat(ms, one(m)) \in Seq(Msgs)
             /\ resumed(entries', leaf') = cat(resumed(entries, leaf), one(m))
  <2>1. PICK f : f = Len(es) + 1
    OBVIOUS
  <2>2. f \in 1..Len(fs) /\ leaf' = f
    BY <1>1, <1>2, <1>6, <2>1 DEF Surroundings
  <2>3. fs[f].kind = k /\ fs[f].parent = e
    BY <1>1, <1>6, <2>1 DEF Heard
  <2>4. m = msgOf(fs, f)
    BY <1>5, <1>6, <2>1, <2>2, <2>3
  <2>5. Mirrors(cat(ms, one(m)), fs, f) /\ cat(ms, one(m)) \in Seq(Msgs)
    BY <1>2, <1>4, <2>2, <2>3, <2>4, MirrorsHeard
  <2>6. resumed(fs, f) = cat(resumed(fs, e), one(m))
    BY <1>2, <2>2, <2>3, <2>4, ResumedGrows
  <2>7. QED
    BY <1>1, <1>3, <2>2, <2>5, <2>6
<1>7. ASSUME Heard(<<k, l>>), leaf' = Len(entries) + 2, NEW m, m = msg(1, k, TRUE), NEW n, n = msg(2, l, TRUE)
      PROVE  Mirrors(cat(cat(ms, one(m)), one(n)), entries', leaf') /\ cat(cat(ms, one(m)), one(n)) \in Seq(Msgs)
  <2>1. PICK f, g : f = Len(es) + 1 /\ g = Len(es) + 2
    OBVIOUS
  <2>2. f \in 1..Len(fs) /\ g \in 1..Len(fs) /\ leaf' = g
    BY <1>1, <1>2, <1>7, <2>1 DEF Surroundings
  <2>3. fs[f].kind = k /\ fs[f].parent = e /\ fs[g].kind = l /\ fs[g].parent = f
    <3>1. /\ <<k, l>>[1] = k /\ <<k, l>>[2] = l /\ 1 \in 1..Len(<<k, l>>) /\ 2 \in 1..Len(<<k, l>>)
      OBVIOUS
    <3>2. fs[f].kind = k /\ fs[f].parent = e
      BY <1>1, <1>7, <2>1, <3>1 DEF Heard
    <3>3. fs[g].kind = l /\ fs[g].parent = Len(es) + 2 - 1
      BY <1>1, <1>7, <2>1, <3>1 DEF Heard
    <3>4. QED
      BY <1>2, <2>1, <3>2, <3>3
  <2>4. m = msgOf(fs, f) /\ n = msgOf(fs, g)
    BY <1>5, <1>7, <2>1, <2>2, <2>3
  <2>5. PICK us : us = cat(ms, one(m))
    OBVIOUS
  <2>6. Mirrors(us, fs, f) /\ us \in Seq(Msgs)
    BY <1>2, <1>4, <2>2, <2>3, <2>4, <2>5, MirrorsHeard
  <2>7. Mirrors(cat(us, one(n)), fs, g) /\ cat(us, one(n)) \in Seq(Msgs)
    BY <1>2, <2>2, <2>3, <2>4, <2>6, MirrorsHeard
  <2>8. QED
    BY <1>1, <2>2, <2>5, <2>7
<1>8. QED
  BY <1>6, <1>7

(* say: what the agent has and what the session has to resume with grow    *)
(* by the same messages, or by errors only.                                *)
LEMMA SayMirrors ==
  ASSUME Surroundings, agent.messages \in Seq(Msgs), MirrorInv, NEW kinds \in SaidLists, NEW a,
         "messages" \in DOMAIN a, a.messages = agent.messages, say(kinds, a)
  PROVE  agent'.messages \in Seq(Msgs) /\ MirrorInv'
<1>1. PICK ms \in Seq(Msgs) : ms = agent.messages
  OBVIOUS
<1>2. agent'.messages = ms \o spoken(kinds, connected)
  BY <1>1 DEF say
<1>3. Mirrors(ms, entries, leaf) /\ Len(entries) \in Nat /\ TreeInv
  BY <1>1 DEF MirrorInv, Surroundings
<1>4. "result" \in Messages /\ "failure" \in Messages /\ Messages \subseteq Plain
  BY DEF Messages, Assistants, Errors, Overflows, Plain
<1>5. ASSUME entries' = entries, leaf' = leaf, NEW us \in Seq(Msgs), agent'.messages = us, Mirrors(us, entries, leaf)
      PROVE  agent'.messages \in Seq(Msgs) /\ MirrorInv'
  BY <1>5 DEF MirrorInv
<1>6. CASE kinds = <<>>
  <2>1. ms \o spoken(<<>>, connected) = ms
    BY SpokenNone
  <2>2. entries' = entries /\ leaf' = leaf
    BY <1>6 DEF say
  <2>3. QED
    BY <1>2, <1>3, <1>5, <1>6, <2>1, <2>2
<1>7. ASSUME NEW k \in Messages, kinds = <<k>> PROVE agent'.messages \in Seq(Msgs) /\ MirrorInv'
  <2>1. PICK m : m = msg(1, k, connected)
    OBVIOUS
  <2>2. m \in Msgs /\ ms \o spoken(<<k>>, connected) = cat(ms, one(m))
    BY <1>3, <2>1, MsgType, SpokenOne
  <2>3. agent'.messages = cat(ms, one(m))
    BY <1>2, <1>7, <2>2
  <2>4. CASE connected
    <3>1. entries' = appended(kinds) /\ leaf' = Len(entries')
      BY <1>7, <2>4 DEF say
    <3>2. kinds \in Seq(Plain) /\ Len(kinds) = 1
      BY <1>4, <1>7
    <3>3. Heard(<<k>>) /\ leaf' = Len(entries) + 1
      BY <1>3, <1>7, <3>1, <3>2, AppendedHeard
    <3>4. m = msg(1, k, TRUE)
      BY <2>1, <2>4 DEF msg
    <3>5. Mirrors(cat(ms, one(m)), entries', leaf') /\ cat(ms, one(m)) \in Seq(Msgs)
      BY <1>3, <3>3, <3>4, HeardMirrors
    <3>6. QED
      BY <2>3, <3>5 DEF MirrorInv
  <2>5. CASE ~connected
    <3>1. m.at = 0
      BY <2>1, <2>5 DEF msg
    <3>2. Mirrors(cat(ms, one(m)), entries, leaf) /\ cat(ms, one(m)) \in Seq(Msgs)
      BY <1>3, <2>2, <3>1, MirrorsDeaf
    <3>3. entries' = entries /\ leaf' = leaf
      BY <2>5 DEF say
    <3>4. QED
      BY <1>5, <2>3, <3>2, <3>3
  <2>6. QED
    BY <2>4, <2>5
<1>8. CASE kinds = <<"result", "failure">>
  <2>1. PICK m, n : m = msg(1, "result", connected) /\ n = msg(2, "failure", connected)
    OBVIOUS
  <2>2. m \in Msgs /\ n \in Msgs /\ ms \o spoken(<<"result", "failure">>, connected) = cat(cat(ms, one(m)), one(n))
    <3>1. m \in Msgs /\ n \in Msgs
      BY <1>3, <1>4, <2>1, MsgType
    <3>2. QED
      BY <2>1, <3>1, SpokenTwo
  <2>3. agent'.messages = cat(cat(ms, one(m)), one(n))
    BY <1>2, <1>8, <2>2
  <2>4. CASE connected
    <3>1. entries' = appended(kinds) /\ leaf' = Len(entries')
      BY <1>8, <2>4 DEF say
    <3>2. kinds \in Seq(Plain) /\ Len(kinds) = 2
      BY <1>4, <1>8
    <3>3. Heard(<<"result", "failure">>) /\ leaf' = Len(entries) + 2
      BY <1>3, <1>8, <3>1, <3>2, AppendedHeard
    <3>4. m = msg(1, "result", TRUE) /\ n = msg(2, "failure", TRUE)
      BY <2>1, <2>4 DEF msg
    <3>5. Mirrors(cat(cat(ms, one(m)), one(n)), entries', leaf') /\ cat(cat(ms, one(m)), one(n)) \in Seq(Msgs)
      BY <1>3, <1>4, <3>3, <3>4, HeardMirrors
    <3>6. QED
      BY <2>3, <3>5 DEF MirrorInv
  <2>5. CASE ~connected
    <3>1. m.at = 0 /\ n.at = 0
      BY <2>1, <2>5 DEF msg
    <3>2. PICK us : us = cat(ms, one(m))
      OBVIOUS
    <3>3. Mirrors(us, entries, leaf) /\ us \in Seq(Msgs)
      BY <1>3, <2>2, <3>1, <3>2, MirrorsDeaf
    <3>4. Mirrors(cat(us, one(n)), entries, leaf) /\ cat(us, one(n)) \in Seq(Msgs)
      BY <2>2, <3>1, <3>3, MirrorsDeaf
    <3>5. entries' = entries /\ leaf' = leaf
      BY <2>5 DEF say
    <3>6. QED
      BY <1>5, <2>3, <3>2, <3>4, <3>5
  <2>6. QED
    BY <2>4, <2>5
<1>9. QED
  BY <1>6, <1>7, <1>8 DEF SaidLists

(* An error that the session heard ends both. *)
LEMMA SayEnds ==
  ASSUME Surroundings, agent.messages \in Seq(Msgs), MirrorInv, NEW k \in Lapses, NEW a, connected,
         "messages" \in DOMAIN a, a.messages = agent.messages, say(<<k>>, a)
  PROVE  EndsOpen(agent'.messages) /\ EndsOpen(resumed(entries', leaf'))
<1>1. PICK ms \in Seq(Msgs) : ms = agent.messages
  OBVIOUS
<1>2. k \in Messages /\ Messages \subseteq Plain
  BY DEF Lapses, Errors, Overflows, Messages, Assistants, Errors, Overflows, Plain
<1>3. PICK m : m = msg(1, k, TRUE)
  OBVIOUS
<1>4. Mirrors(ms, entries, leaf) /\ Len(entries) \in Nat /\ TreeInv
  BY <1>1 DEF MirrorInv, Surroundings
<1>5. m \in Msgs /\ ms \o spoken(<<k>>, TRUE) = cat(ms, one(m))
  BY <1>2, <1>3, <1>4, MsgType, SpokenOne
<1>6. agent'.messages = cat(ms, one(m))
  <2>1. agent'.messages = ms \o spoken(<<k>>, connected)
    BY <1>1 DEF say
  <2>2. spoken(<<k>>, connected) = spoken(<<k>>, TRUE)
    BY DEF spoken
  <2>3. QED
    BY <1>5, <2>1, <2>2
<1>7. m.kind \in Lapses
  BY <1>3 DEF msg
<1>8. EndsOpen(agent'.messages)
  BY <1>5, <1>6, <1>7, EndsOpenOne
<1>9. entries' = appended(<<k>>) /\ leaf' = Len(entries')
  BY DEF say
<1>10. <<k>> \in Seq(Plain) /\ Len(<<k>>) = 1
  BY <1>2
<1>11. Heard(<<k>>) /\ leaf' = Len(entries) + 1
  BY <1>4, <1>9, <1>10, AppendedHeard
<1>12. resumed(entries', leaf') = cat(resumed(entries, leaf), one(m))
  BY <1>2, <1>3, <1>4, <1>11, HeardMirrors
<1>13. resumed(entries, leaf) \in Seq(Msgs)
  BY ResumedType DEF Surroundings
<1>14. EndsOpen(resumed(entries', leaf'))
  BY <1>5, <1>7, <1>12, <1>13, EndsOpenOne
<1>15. QED
  BY <1>8, <1>14

(* The agent takes its messages from the session. *)
LEMMA ReloadMirrors ==
  ASSUME Surroundings, agent'.messages = resumed(entries', leaf')
  PROVE  agent'.messages \in Seq(Msgs) /\ MirrorInv'
<1>1. resumed(entries', leaf') \in Seq(Msgs)
  BY ResumedType DEF Surroundings
<1>2. QED
  BY <1>1 DEF MirrorInv, Mirrors, saidAt

(* A check that recovers drops the last message if it is an assistant's. *)
LEMMA CheckMessages ==
  ASSUME Check
  PROVE  /\ entries' = entries /\ leaf' = leaf
         /\ \/ agent' = agent
            \/ /\ driver.at # "projected" /\ checked.kind \in Overflows
               /\ agent' = [agent EXCEPT !.messages = IF endsWithAssistant THEN Front(@) ELSE @]
BY DEF Check

(* The last assistant message, when the last message is one. *)
LEMMA LastOfIs ==
  ASSUME agent.messages \in Seq(Msgs), endsWithAssistant
  PROVE  lastOf(Assistants) = agent.messages[Len(agent.messages)]
<1>1. PICK ms \in Seq(Msgs) : ms = agent.messages
  OBVIOUS
<1>2. ms # <<>> /\ Last(ms).kind \in Assistants
  BY <1>1 DEF endsWithAssistant
<1>3. Last(ms) = ms[Len(ms)] /\ Len(ms) \in 1..Len(ms)
  BY <1>2, FrontLast
<1> DEFINE I == {i \in 1..Len(ms) : ms[i].kind \in Assistants}
<1>4. SelectLastInSeq(ms, LAMBDA m : m.kind \in Assistants) = IF I # {} THEN Max(I) ELSE 0
  BY DEF SelectLastInSeq
<1>5. Len(ms) \in I /\ Len(ms) \in Nat /\ I \in SUBSET (1..Len(ms))
  BY <1>2, <1>3
<1>6. Max(I) = Len(ms)
  <2> HIDE DEF I
  <2>1. Max(I) \in I /\ \A y \in I : y <= Max(I)
    BY <1>5, MaxIndex
  <2>2. Max(I) \in 1..Len(ms) /\ Len(ms) <= Max(I)
    BY <1>5, <2>1
  <2>3. QED
    BY <1>5, <2>2
<1>7. SelectLastInSeq(ms, LAMBDA m : m.kind \in Assistants) = Len(ms)
  BY <1>4, <1>5, <1>6
<1>8. Len(ms) # 0
  BY <1>3
<1>9. lastOf(Assistants) = LET k == SelectLastInSeq(ms, LAMBDA m : m.kind \in Assistants) IN IF k = 0 THEN None ELSE ms[k]
  BY <1>1 DEF lastOf
<1>10. QED
  BY <1>1, <1>7, <1>8, <1>9

(* _checkCompaction drops nothing but an error. *)
LEMMA CheckMirrors ==
  ASSUME Shapes, MessagesInv, MirrorInv, RecoverInv, Check
  PROVE  agent'.messages \in Seq(Msgs) /\ MirrorInv'
<1>1. PICK ms \in Seq(Msgs) : ms = agent.messages
  BY DEF MessagesInv
<1>2. entries' = entries /\ leaf' = leaf /\ Mirrors(ms, entries, leaf)
  BY <1>1, CheckMessages DEF MirrorInv
<1>3. CASE agent'.messages = ms
  BY <1>2, <1>3 DEF MirrorInv
<1>4. CASE agent'.messages # ms
  <2>1. driver.at # "projected" /\ checked.kind \in Overflows /\ endsWithAssistant /\ agent'.messages = Front(ms)
    BY <1>1, <1>4, CheckMessages DEF Shapes
  <2>2. ms # <<>> /\ Last(ms).kind \in Assistants
    BY <1>1, <2>1 DEF endsWithAssistant
  <2>3. PICK f, x : f = Front(ms) /\ x = Last(ms)
    OBVIOUS
  <2>4. f \in Seq(Msgs) /\ x \in Msgs /\ x = ms[Len(ms)] /\ Len(ms) \in 1..Len(ms) /\ ms = cat(f, one(x))
    BY <2>2, <2>3, FrontLast
  <2>5. x.kind \in Lapses
    <3>1. CASE driver.at = "post"
      <4>1. driver.last.kind \in Overflows
        BY <2>1, <3>1 DEF checked
      <4>2. EndsOpen(ms)
        BY <1>1, <4>1 DEF RecoverInv
      <4>3. Len(ms) # 0 /\ ms[Len(ms)].kind \in Assistants
        BY <2>2, <2>3, <2>4
      <4>4. QED
        BY <2>4, <4>2, <4>3 DEF EndsOpen
    <3>2. CASE driver.at # "post"
      <4>1. checked = lastOf(Assistants)
        BY <3>2 DEF checked
      <4>2. lastOf(Assistants) = ms[Len(ms)]
        BY <1>1, <2>1, LastOfIs
      <4>3. QED
        BY <2>1, <2>4, <4>1, <4>2 DEF Lapses, Errors, Overflows
    <3>3. QED
      BY <3>1, <3>2
  <2>6. Mirrors(f, entries, leaf)
    BY <1>2, <2>4, <2>5, MirrorsDropped
  <2>7. QED
    BY <1>2, <2>1, <2>3, <2>4, <2>6 DEF MirrorInv
<1>5. QED
  BY <1>3, <1>4

(* What a commit leaves of the context. *)
LEMMA CommitCuts ==
  ASSUME CompactionInv, Surroundings, NEW j \in Jobs, Commit(j), ~UNCHANGED <<entries, leaf>>
  PROVE  /\ CutContext(entries, leaf, entries', leaf') /\ leaf' = Len(entries) + 1 /\ Len(entries') = Len(entries) + 1
         /\ entries'[leaf'].kind = "compaction"
<1>1. PICK es, fs, e, n : es = entries /\ fs = entries' /\ e = leaf /\ n = Len(entries) + 1
  OBVIOUS
<1>2. /\ e # 0 /\ closed(branchKinds(es, e)) /\ Len(fs) = n /\ leaf' = n
      /\ fs[n].kind = "compaction" /\ fs[n].parent = e
      /\ fs[n].first \in cutPoints(es, sourceOf(es, branchOf(es, e)))
  BY <1>1, CommitAppends
<1>3. Sane(es) /\ Tree(fs) /\ e \in 0..Len(es) /\ Len(es) \in Nat /\ \A i \in 1..Len(es) : fs[i] = es[i]
  BY <1>1 DEF Surroundings, Sane
<1>4. e \in 1..Len(es) /\ n = Len(es) + 1
  BY <1>1, <1>2, <1>3
<1>5. PICK first \in cutPoints(es, sourceOf(es, branchOf(es, e))) : fs[n].first = first
  BY <1>2
<1>6. CutContext(es, e, fs, n)
  BY <1>2, <1>3, <1>4, <1>5, CutKeeps
<1>7. QED
  BY <1>1, <1>2, <1>6

(* A commit replaces the messages by what the session resumes with, less   *)
(* an error at the end when the run is retried.                            *)
LEMMA CommitMirrors ==
  ASSUME Shapes, CompactionInv, Surroundings, NEW j \in Jobs, Commit(j), ~UNCHANGED <<entries, leaf>>
  PROVE  /\ agent'.messages \in Seq(Msgs) /\ MirrorInv'
         /\ jobs[j].retry = FALSE => agent'.messages = resumed(entries', leaf')
<1>1. PICK fs, n, u : fs = entries' /\ n = leaf' /\ u = buildSessionContext(fs, n)
  OBVIOUS
<1>2. Sane(fs) /\ Known(fs) /\ n \in 0..Len(fs) /\ Len(fs) \in Nat
  BY <1>1 DEF Surroundings
<1>3. u \in Seq(1..Len(fs))
  BY <1>1, <1>2, ContextForm
<1>4. agent' = [agent EXCEPT !.messages = loaded(fs, IF jobs[j].retry /\ fs[Last(u)].kind \in Errors THEN Front(u) ELSE u)]
  BY <1>1 DEF Commit
<1>5. CASE ~(jobs[j].retry /\ fs[Last(u)].kind \in Errors)
  <2>1. agent'.messages = loaded(fs, u)
    BY <1>4, <1>5 DEF Shapes
  <2>2. agent'.messages = resumed(entries', leaf')
    BY <1>1, <2>1 DEF resumed
  <2>3. QED
    BY <2>2, ReloadMirrors
<1>6. CASE jobs[j].retry /\ fs[Last(u)].kind \in Errors
  <2>1. agent'.messages = loaded(fs, Front(u))
    BY <1>4, <1>6 DEF Shapes
  <2>2. u # <<>>
    <3>1. CutContext(entries, leaf, fs, n) /\ n = Len(entries) + 1 /\ n \in 1..Len(fs)
      <4>1. CutContext(entries, leaf, entries', leaf') /\ leaf' = Len(entries) + 1 /\ Len(entries') = Len(entries) + 1
        BY CommitCuts
      <4>2. QED
        BY <1>1, <1>2, <4>1 DEF Surroundings
    <3>2. PICK b \in Seq(1..Len(entries)) : u = cat(one(n), b)
      BY <1>1, <3>1 DEF CutContext
    <3>3. b \in Seq(1..Len(fs)) /\ one(n) \in Seq(1..Len(fs))
      <4>1. 1..Len(entries) \subseteq 1..Len(fs)
        BY <1>1 DEF Surroundings
      <4>2. QED
        BY <3>1, <4>1, SeqMonotonic, OneType
    <3>4. CatOf(1..Len(fs), one(n), b, u) /\ Len(one(n)) = 1
      BY <3>2, <3>3, CatIndex, OneIndex
    <3>5. Len(u) # 0
      BY <3>4 DEF CatOf
    <3>6. QED
      BY <1>3, <3>5, EmptySeq
  <2>3. PICK f, x : f = Front(u) /\ x = Last(u)
    OBVIOUS
  <2>4. f \in Seq(1..Len(fs)) /\ x \in 1..Len(fs) /\ u = cat(f, one(x))
    BY <1>3, <2>2, <2>3, FrontLast
  <2>5. PICK m, l : m = msgOf(fs, x) /\ l = loaded(fs, f)
    OBVIOUS
  <2>6. loaded(fs, u) = cat(l, one(m))
    BY <1>2, <2>4, <2>5, LoadedOne
  <2>7. l \in Seq(Msgs)
    BY <1>2, <2>4, <2>5, LoadedIs
  <2>8. m \in Msgs
    BY <1>2, <2>4, <2>5 DEF msgOf, Msgs, Known
  <2>9. m.kind \in Lapses
    BY <1>6, <2>3, <2>5 DEF msgOf, Lapses, Errors, Overflows
  <2>10. Mirrors(cat(l, one(m)), fs, n)
    BY <1>1, <2>6 DEF Mirrors, saidAt, resumed
  <2>11. Mirrors(l, fs, n)
    BY <2>7, <2>8, <2>9, <2>10, MirrorsDropped
  <2>12. QED
    BY <1>1, <1>6, <2>1, <2>3, <2>5, <2>7, <2>11 DEF MirrorInv
<1>7. QED
  BY <1>5, <1>6

(* If there was no answer at the end, there is none after a commit. *)
LEMMA CommitEnds ==
  ASSUME CompactionInv, Surroundings, NEW j \in Jobs, Commit(j), ~UNCHANGED <<entries, leaf>>, EndsOpen(resumed(entries, leaf))
  PROVE  EndsOpen(resumed(entries', leaf'))
<1>1. PICK es, fs, n, T, u, v :
        es = entries /\ fs = entries' /\ n = leaf' /\ T = 1..Len(entries) /\ u = buildSessionContext(entries, leaf) /\ v = buildSessionContext(fs, n)
  OBVIOUS
<1>2. Known(fs) /\ Len(fs) \in Nat /\ (\A t \in T : fs[t] = es[t]) /\ T \subseteq 1..Len(fs)
  BY <1>1 DEF Surroundings
<1>3. CutContext(entries, leaf, entries', leaf') /\ leaf' = Len(entries) + 1 /\ Len(entries') = Len(entries) + 1
      /\ entries'[leaf'].kind = "compaction"
  BY CommitCuts
<1>4. n \in 1..Len(fs) /\ fs[n].kind = "compaction"
  BY <1>1, <1>3 DEF Surroundings
<1>5. PICK a \in Seq(T), b \in Seq(T) : u = cat(a, b) /\ v = cat(one(n), b)
  BY <1>1, <1>3 DEF CutContext
<1>6. EndsOpen(loaded(fs, u))
  <2>1. u \in Seq(T)
    BY <1>5, CatType
  <2>2. loaded(fs, u) = loaded(es, u)
    BY <1>2, <2>1, LoadedSettled
  <2>3. QED
    BY <1>1, <2>2 DEF resumed
<1>7. EndsOpen(loaded(fs, v))
  BY <1>2, <1>4, <1>5, <1>6, EndsOpenCut
<1>8. QED
  BY <1>1, <1>7 DEF resumed

(* Messages that the session does not hear. *)
LEMMA DeafMirrors ==
  ASSUME Len(entries) \in Nat, NEW ms \in Seq(Msgs), NEW es, NEW e, Mirrors(ms, es, e),
         NEW kinds \in {<<>>} \cup {<<k>> : k \in Messages}
  PROVE  ms \o spoken(kinds, FALSE) \in Seq(Msgs) /\ Mirrors(ms \o spoken(kinds, FALSE), es, e)
<1>1. CASE kinds = <<>>
  BY <1>1, SpokenNone
<1>2. ASSUME NEW k \in Messages, kinds = <<k>>
      PROVE  ms \o spoken(kinds, FALSE) \in Seq(Msgs) /\ Mirrors(ms \o spoken(kinds, FALSE), es, e)
  <2>1. PICK m : m = msg(1, k, FALSE)
    OBVIOUS
  <2>2. m \in Msgs /\ m.at = 0
    BY <2>1, MsgType DEF msg
  <2>3. ms \o spoken(<<k>>, FALSE) = cat(ms, one(m))
    BY <2>1, SpokenOne
  <2>4. Mirrors(cat(ms, one(m)), es, e) /\ cat(ms, one(m)) \in Seq(Msgs)
    BY <2>2, MirrorsDeaf
  <2>5. QED
    BY <1>2, <2>3, <2>4
<1>3. QED
  BY <1>1, <1>2

(* The messages of a run that breaks. *)
LEMMA BreaksMirrors ==
  ASSUME Surroundings, MessagesInv, MirrorInv, RunBreaks
  PROVE  agent'.messages \in Seq(Msgs) /\ MirrorInv'
<1>1. PICK ms \in Seq(Msgs) : ms = agent.messages
  BY DEF MessagesInv
<1>2. entries' = entries /\ leaf' = leaf
  BY DEF RunBreaks
<1>3. PICK kinds \in breaking :
        agent' = [pc |-> "idle", aborting |-> FALSE, messages |->
                    agent.messages \o spoken(kinds, FALSE)
                      \o spoken(IF failure(agentKinds \o kinds) = <<>> THEN <<>> ELSE <<Head(failure(agentKinds \o kinds))>>, FALSE)]
  BY Zenon DEF RunBreaks
<1>4. breaking \subseteq {<<>>} \cup {<<k>> : k \in Messages}
  <2>1. {"user", "result", "aborted", "answer", "silent", "overflow", "call"} \subseteq Messages
    BY DEF Messages, Assistants, Errors, Overflows
  <2>2. opening \in {<<>>, <<"user">>}
    BY DEF opening
  <2>3. breaking \subseteq {<<>>} \cup {<<k>> : k \in {"user", "result", "aborted", "answer", "silent", "overflow", "call"}}
    BY <2>2 DEF breaking, Overflows
  <2>4. QED
    BY <2>1, <2>3
<1>5. PICK more : more = IF failure(agentKinds \o kinds) = <<>> THEN <<>> ELSE <<Head(failure(agentKinds \o kinds))>>
  OBVIOUS
<1>6. more \in {<<>>} \cup {<<k>> : k \in Messages}
  <2>1. PICK plan : plan = failure(agentKinds \o kinds)
    OBVIOUS
  <2>2. plan \in {<<>>, <<"result", "failure">>, <<"failure">>}
    BY <2>1 DEF failure
  <2>3. Head(<<"result", "failure">>) = "result" /\ Head(<<"failure">>) = "failure"
    OBVIOUS
  <2>4. "result" \in Messages /\ "failure" \in Messages
    BY DEF Messages, Assistants, Errors, Overflows
  <2>5. more = IF plan = <<>> THEN <<>> ELSE <<Head(plan)>>
    BY <1>5, <2>1
  <2>6. QED
    BY <2>2, <2>3, <2>4, <2>5
<1>7. PICK us : us = ms \o spoken(kinds, FALSE)
  OBVIOUS
<1>8. Mirrors(ms, entries, leaf) /\ Len(entries) \in Nat
  BY <1>1 DEF MirrorInv, Surroundings
<1>9. us \in Seq(Msgs) /\ Mirrors(us, entries, leaf)
  BY <1>4, <1>7, <1>8, DeafMirrors
<1>10. us \o spoken(more, FALSE) \in Seq(Msgs) /\ Mirrors(us \o spoken(more, FALSE), entries, leaf)
  BY <1>6, <1>8, <1>9, DeafMirrors
<1>11. agent'.messages = us \o spoken(more, FALSE)
  BY <1>1, <1>3, <1>5, <1>7
<1>12. QED
  BY <1>2, <1>10, <1>11 DEF MirrorInv

(* An entry of an extension says nothing. *)
LEMMA CustomMirrors ==
  ASSUME Surroundings, CustomEntry
  PROVE  /\ resumed(entries', leaf') = resumed(entries, leaf)
         /\ saidAt(entries', leaf') = saidAt(entries, leaf)
<1>1. PICK es, fs, e, f : es = entries /\ fs = entries' /\ e = leaf /\ f = Len(entries) + 1
  OBVIOUS
<1>2. <<"custom">> \in Seq(Plain) /\ Len(<<"custom">>) = 1 /\ TreeInv
  BY PlainLists DEF Surroundings
<1>3. Heard(<<"custom">>) /\ leaf' = Len(entries) + 1
  BY <1>2, AppendedHeard DEF CustomEntry
<1>4. fs[f].kind = "custom" /\ fs[f].parent = e /\ leaf' = f
  BY <1>1, <1>3 DEF Heard
<1>5. /\ Sane(es) /\ Sane(fs) /\ Known(fs) /\ e \in 0..Len(es) /\ Len(es) <= Len(fs) /\ f \in 1..Len(fs)
      /\ \A i \in 1..Len(es) : fs[i] = es[i]
  BY <1>1, <1>4 DEF Surroundings
<1>6. resumed(fs, f) = resumed(fs, e)
  BY <1>4, <1>5, ResumedGrows
<1>7. resumed(fs, e) = resumed(es, e)
  BY <1>5, ResumedSettled
<1>8. QED
  BY <1>1, <1>4, <1>6, <1>7 DEF saidAt

(* What runs say. *)
LEMMA RunsSay ==
  ASSUME Shapes, StartRun \/ Reply \/ ToolResult \/ Aborted
  PROVE  \E kinds \in SaidLists : \E a : "messages" \in DOMAIN a /\ a.messages = agent.messages /\ say(kinds, a)
<1>1. ASSUME NEW p, NEW q, NEW kinds \in SaidLists,
             say(kinds, [agent EXCEPT !.pc = p]) \/ say(kinds, [agent EXCEPT !.pc = p, !.aborting = q])
      PROVE  \E ks \in SaidLists : \E a : "messages" \in DOMAIN a /\ a.messages = agent.messages /\ say(ks, a)
  BY <1>1 DEF Shapes
<1>2. ASSUME NEW kinds \in SaidLists, endRun(kinds)
      PROVE  \E ks \in SaidLists : \E a : "messages" \in DOMAIN a /\ a.messages = agent.messages /\ say(ks, a)
  BY <1>1, <1>2 DEF endRun
<1>3. /\ <<>> \in SaidLists /\ <<"user">> \in SaidLists /\ <<"result">> \in SaidLists /\ <<"call">> \in SaidLists
      /\ <<"aborted">> \in SaidLists /\ <<"failure">> \in SaidLists /\ <<"result", "failure">> \in SaidLists
      /\ \A k \in {"answer", "silent"} \cup Errors : <<k>> \in SaidLists
  <2>1. \A k \in Messages : <<k>> \in SaidLists
    BY DEF SaidLists
  <2>2. {"user", "result", "call", "aborted", "failure", "answer", "silent", "overflow"} \subseteq Messages
    BY DEF Messages, Assistants, Errors, Overflows
  <2>3. <<>> \in SaidLists /\ <<"result", "failure">> \in SaidLists
    BY DEF SaidLists
  <2>4. QED
    BY <2>1, <2>2, <2>3 DEF Errors
<1>4. CASE StartRun
  <2>1. CASE connected /\ activeRun
    <3>1. endRun(failure(agentKinds))
      BY <1>4, <2>1 DEF StartRun
    <3>2. failure(agentKinds) \in {<<>>, <<"failure">>, <<"result", "failure">>}
      BY DEF failure
    <3>3. QED
      BY <1>2, <1>3, <3>1, <3>2
  <2>2. CASE ~(connected /\ activeRun)
    <3>1. PICK kinds : kinds = opening
      OBVIOUS
    <3>2. say(kinds, [agent EXCEPT !.pc = "streaming"])
      BY <1>4, <2>2, <3>1 DEF StartRun
    <3>3. kinds \in SaidLists
      BY <1>3, <3>1 DEF opening
    <3>4. QED
      BY <1>1, <3>2, <3>3
  <2>3. QED
    BY <2>1, <2>2
<1>5. CASE Reply
  <2>1. \/ endRun(<<>>) \/ \E k \in {"answer", "silent"} \cup Errors : endRun(<<k>>)
        \/ say(<<"call">>, [agent EXCEPT !.pc = "tool"])
    BY <1>5 DEF Reply
  <2>2. QED
    BY <1>1, <1>2, <1>3, <2>1
<1>6. CASE ToolResult
  BY <1>1, <1>3, <1>6 DEF ToolResult
<1>7. CASE Aborted
  BY <1>2, <1>3, <1>7 DEF Aborted
<1>8. QED
  BY <1>4, <1>5, <1>6, <1>7

(* compact() neither repairs nor retries. *)
LEMMA ManualNext ==
  ASSUME CompactionInv, MessagesInv, [Next]_vars
  PROVE  jobs'.manual.retry = FALSE /\ jobs'.manual.emergency = FALSE
<1>1. Shapes /\ jobs.manual.retry = FALSE /\ jobs.manual.emergency = FALSE
  BY DEF CompactionInv, MessagesInv
<1>2. CASE jobs'.manual = jobs.manual
  BY <1>1, <1>2
<1>3. CASE Check
  <2>1. ASSUME NEW job, DOMAIN job = DOMAIN NoJob, startAuto(job) PROVE jobs'.manual = jobs.manual
    BY <1>1, <2>1, StartedJob
  <2>2. CASE Recovers
    <3>1. DOMAIN [NoJob EXCEPT !.emergency = TRUE, !.retry = TRUE] = DOMAIN NoJob
      OBVIOUS
    <3>2. QED
      BY <1>2, <2>1, <2>2, <3>1 DEF Recovers
  <2>3. ASSUME NEW ratio \in Ratios, Measures(ratio) PROVE jobs'.manual = jobs.manual
    <3>1. PICK job : job = [NoJob EXCEPT !.emergency = ratio = 3, !.rearmed = ghost'.low]
      OBVIOUS
    <3>2. DOMAIN job = DOMAIN NoJob
      BY <3>1
    <3>3. CASE startAuto([NoJob EXCEPT !.emergency = ratio = 3, !.rearmed = ghost'.low])
      <4>1. startAuto(job)
        BY <3>1, <3>3, Zenon
      <4>2. QED
        BY <2>1, <3>2, <4>1
    <3>4. QED
      BY <2>3, <3>3 DEF Measures, Passes
  <2>4. QED
    BY <1>2, <1>3, <2>2, <2>3, CheckOutcomes DEF Passes
<1>4. CASE ManualStart
  BY <1>1, <1>4 DEF ManualStart, NoJob, Shapes, Jobs
<1>5. CASE ManualIdle
  BY <1>1, <1>5 DEF ManualIdle, Shapes, Jobs
<1>6. CASE AbortCompaction
  BY <1>1, <1>6 DEF AbortCompaction, Shapes, Jobs
<1>7. ASSUME NEW j \in Jobs, NEW again, endJob(j, again)
      PROVE  jobs'.manual.retry = FALSE /\ jobs'.manual.emergency = FALSE
  <2>1. jobs'.manual = NoJob \/ jobs'.manual = jobs.manual
    BY <1>1, <1>7, EndedJob DEF Jobs
  <2>2. QED
    BY <1>1, <2>1 DEF NoJob
<1>8. ASSUME NEW j \in Jobs, Begin(j) PROVE jobs'.manual.retry = FALSE /\ jobs'.manual.emergency = FALSE
  <2>1. CASE endJob(j, FALSE)
    BY <1>7, <2>1
  <2>2. CASE jobs' = captured(j, entries', leaf')
    <3>1. CASE j = "manual"
      BY <1>1, <2>2, <3>1, CapturedJob
    <3>2. CASE j # "manual"
      <4>1. jobs'.manual = jobs.manual
        BY <1>1, <2>2, <3>2, CapturedJob DEF Jobs
      <4>2. QED
        BY <1>2, <4>1
    <3>3. QED
      BY <3>1, <3>2
  <2>3. QED
    BY <1>8, <2>1, <2>2 DEF Begin
<1>9. ASSUME NEW j \in Jobs, JobFails(j) \/ Commit(j) PROVE \E again : endJob(j, again)
  BY <1>9 DEF JobFails, Commit
<1>10. QED
  BY <1>1, <1>2, <1>3, <1>4, <1>5, <1>6, <1>7, <1>8, <1>9, QuietSteps

(***************************************************************************)
(* The invariant of the conversation.                                      *)
(***************************************************************************)

(* The messages and what the session would resume with, step by step. *)
LEMMA MirrorNext ==
  ASSUME CompactionInv, Surroundings, MessagesInv, MirrorInv, RecoverInv, [Next]_vars
  PROVE  agent'.messages \in Seq(Msgs) /\ MirrorInv'
<1>1. Shapes /\ agent.messages \in Seq(Msgs)
  BY DEF CompactionInv, MessagesInv
<1>2. ASSUME agent'.messages = agent.messages, entries' = entries, leaf' = leaf
      PROVE  agent'.messages \in Seq(Msgs) /\ MirrorInv'
  BY <1>1, <1>2 DEF MirrorInv
<1>3. CASE Prompt
  BY <1>2, <1>3 DEF Prompt
<1>4. CASE Check
  BY <1>1, <1>4, CheckMirrors
<1>5. CASE StartRun \/ Reply \/ ToolResult \/ Aborted
  <2>1. PICK kinds \in SaidLists : \E a : "messages" \in DOMAIN a /\ a.messages = agent.messages /\ say(kinds, a)
    BY <1>1, <1>5, RunsSay
  <2>2. PICK a : "messages" \in DOMAIN a /\ a.messages = agent.messages /\ say(kinds, a)
    BY <2>1
  <2>3. QED
    BY <1>1, <2>1, <2>2, SayMirrors
<1>6. CASE RunBreaks
  BY <1>6, BreaksMirrors
<1>7. CASE Abort
  BY <1>1, <1>2, <1>7 DEF Abort, Shapes
<1>8. CASE ManualStart
  BY <1>1, <1>2, <1>8 DEF ManualStart, Shapes
<1>9. CASE ManualIdle
  BY <1>2, <1>9 DEF ManualIdle
<1>10. CASE AbortCompaction
  BY <1>2, <1>10 DEF AbortCompaction
<1>11. ASSUME NEW j \in Jobs, Begin(j) PROVE agent'.messages \in Seq(Msgs) /\ MirrorInv'
  <2>1. CASE repairs(j)
    <3>1. agent' = [agent EXCEPT !.messages = reloaded(entries', leaf')]
      BY <1>11, <2>1 DEF Begin
    <3>2. agent'.messages = resumed(entries', leaf')
      BY <1>1, <3>1 DEF Shapes, reloaded, resumed
    <3>3. QED
      BY <3>2, ReloadMirrors
  <2>2. CASE ~repairs(j)
    BY <1>2, <1>11, <2>2 DEF Begin
  <2>3. QED
    BY <2>1, <2>2
<1>12. ASSUME NEW j \in Jobs, JobFails(j) PROVE agent'.messages \in Seq(Msgs) /\ MirrorInv'
  BY <1>2, <1>12 DEF JobFails
<1>13. ASSUME NEW j \in Jobs, Commit(j) PROVE agent'.messages \in Seq(Msgs) /\ MirrorInv'
  <2>1. CASE UNCHANGED <<entries, leaf>>
    <3>1. Len(entries') = Len(entries)
      BY <2>1
    <3>2. agent' = agent
      <4>1. CASE agent' # agent
        <5>1. PICK new : entries' = Append(entries, new)
          BY <1>13, <4>1 DEF Commit
        <5>2. entries \in Seq(Elements(entries) \cup {new}) /\ new \in Elements(entries) \cup {new}
          BY SeqMonotonic DEF Surroundings, TreeInv
        <5>3. Len(entries') = Len(entries) + 1
          BY <5>1, <5>2, AppendProperties
        <5>4. QED
          BY <3>1, <5>3 DEF Surroundings
      <4>2. QED
        BY <4>1
    <3>3. QED
      BY <1>2, <2>1, <3>2
  <2>2. CASE ~UNCHANGED <<entries, leaf>>
    BY <1>1, <1>13, <2>2, CommitMirrors
  <2>3. QED
    BY <2>1, <2>2
<1>14. ASSUME NEW e \in DOMAIN entries, NavigateTree(e) PROVE agent'.messages \in Seq(Msgs) /\ MirrorInv'
  <2>1. agent' = [agent EXCEPT !.messages = reloaded(entries, leaf')] /\ entries' = entries
    BY <1>14 DEF NavigateTree
  <2>2. agent'.messages = resumed(entries', leaf')
    BY <1>1, <2>1 DEF Shapes, reloaded, resumed
  <2>3. QED
    BY <2>2, ReloadMirrors
<1>15. CASE CustomEntry
  <2>1. saidAt(entries', leaf') = saidAt(entries, leaf) /\ agent' = agent
    BY <1>15, CustomMirrors DEF CustomEntry
  <2>2. QED
    BY <1>1, <2>1 DEF MirrorInv, Mirrors
<1>16. CASE Foreign
  BY <1>2, <1>16 DEF Foreign
<1>17. CASE UNCHANGED vars
  BY <1>2, <1>17 DEF vars
<1>18. QED
  BY <1>3, <1>4, <1>5, <1>6, <1>7, <1>8, <1>9, <1>10, <1>11, <1>12, <1>13, <1>14, <1>15, <1>16, <1>17 DEF Next, Jobs

(* _lastAssistantMessage after one message. *)
LEMMA HeardOne ==
  ASSUME NEW k
  PROVE  /\ heard(<<k>>).kind = k \/ heard(<<k>>) = driver.last
         /\ ~connected => heard(<<k>>) = driver.last
         /\ heard(<<>>) = driver.last
<1> DEFINE said(ks) == {i \in DOMAIN ks : ks[i] \in Assistants}
           last(ks) == CHOOSE i \in said(ks) : \A j \in said(ks) : j <= i
<1>1. ASSUME NEW ks PROVE heard(ks) = IF connected /\ said(ks) # {} THEN spoken(ks, TRUE)[last(ks)] ELSE driver.last
  BY DEF heard
<1>2. said(<<>>) = {}
  OBVIOUS
<1>3. CASE connected /\ said(<<k>>) # {}
  <2>1. said(<<k>>) = {1}
    BY <1>3
  <2>2. last(<<k>>) = 1
    BY <2>1
  <2>3. spoken(<<k>>, TRUE)[1].kind = k
    BY DEF spoken
  <2>4. heard(<<k>>).kind = k
    BY <1>1, <1>3, <2>2, <2>3
  <2>5. QED
    BY <1>1, <1>2, <1>3, <2>4
<1>4. CASE ~(connected /\ said(<<k>>) # {})
  BY <1>1, <1>2, <1>4
<1>5. QED
  BY <1>3, <1>4

(* A check that is going to recover finds no answer to drop. *)
LEMMA RecoverNext ==
  ASSUME CompactionInv, ChainInv', Surroundings, MessagesInv, MirrorInv, RecoverInv, [Next]_vars
  PROVE  RecoverInv'
<1>1. Shapes /\ ChainInv /\ agent.messages \in Seq(Msgs)
  BY DEF CompactionInv, MessagesInv
<1>2. CASE driver'.last.kind \notin Overflows
  BY <1>2 DEF RecoverInv
<1>3. CASE driver'.at # "post"
  BY <1>2, <1>3 DEF ChainInv
<1>4. ASSUME agent'.messages = agent.messages, entries' = entries, leaf' = leaf, driver' = driver PROVE RecoverInv'
  BY <1>4 DEF RecoverInv
<1>5. driver.at # "post" => driver.last.kind \notin Overflows
  BY <1>1 DEF ChainInv
<1>6. ASSUME NEW kinds, endRun(kinds), heard(kinds).kind \notin Overflows PROVE RecoverInv'
  BY <1>1, <1>2, <1>6, EndedRun
<1>7. ASSUME NEW again \in BOOLEAN, driver' = goesOn(again), driver.at \in {"pre", "projected", "post"} PROVE RecoverInv'
  <2>1. driver'.at \in {"continue", "projected", "run", "idle"}
    BY <1>1, <1>7, GoesOn
  <2>2. QED
    BY <1>3, <2>1
<1>8. CASE Prompt
  <2>1. driver'.at = "pre"
    BY <1>1, <1>8 DEF Prompt, Shapes
  <2>2. QED
    BY <1>3, <2>1
<1>9. CASE Check
  <2>1. driver.at \in {"pre", "projected", "post"}
    BY <1>9, CheckOutcomes
  <2>2. CASE driver' = goesOn(FALSE)
    BY <1>7, <2>1, <2>2
  <2>3. CASE \E job : startAuto(job)
    <3>1. driver' = [driver EXCEPT !.waiting = TRUE, !.last = IF driver.at = "post" THEN None ELSE @]
      BY <2>3 DEF startAuto
    <3>2. driver'.last = IF driver.at = "post" THEN None ELSE driver.last
      BY <1>1, <3>1 DEF Shapes
    <3>3. None.kind \notin Overflows
      BY DEF None, Overflows
    <3>4. QED
      BY <1>2, <1>5, <3>2, <3>3
  <2>4. driver' = goesOn(FALSE) \/ \E job : startAuto(job)
    <3>1. CASE Recovers
      BY <3>1 DEF Recovers
    <3>2. ASSUME NEW ratio \in Ratios, Measures(ratio) PROVE driver' = goesOn(FALSE) \/ \E job : startAuto(job)
      BY <3>2 DEF Measures, Passes
    <3>3. QED
      BY <1>9, <3>1, <3>2, CheckOutcomes DEF Passes
  <2>5. QED
    BY <2>2, <2>3, <2>4
<1>10. CASE StartRun
  <2>1. driver.last.kind \notin Overflows
    BY <1>5, <1>10 DEF StartRun
  <2>2. CASE connected /\ activeRun
    <3>1. endRun(failure(agentKinds))
      BY <1>10, <2>2 DEF StartRun
    <3>2. failure(agentKinds) \in {<<>>, <<"failure">>, <<"result", "failure">>}
      BY DEF failure
    <3>3. heard(failure(agentKinds)).kind \notin Overflows
      BY <2>1, <3>2, HeardKind
    <3>4. QED
      BY <1>6, <3>1, <3>3
  <2>3. CASE ~(connected /\ activeRun)
    <3>1. driver' = [driver EXCEPT !.at = "running"]
      BY <1>10, <2>3 DEF StartRun
    <3>2. driver'.at = "running"
      BY <1>1, <3>1 DEF Shapes
    <3>3. QED
      BY <1>3, <3>2
  <2>4. QED
    BY <2>2, <2>3
<1>11. CASE Reply
  <2>1. driver.at = "running" /\ driver.last.kind \notin Overflows /\ driver.waiting = FALSE
    BY <1>1, <1>11 DEF Reply, ChainInv
  <2>2. CASE endRun(<<>>)
    BY <1>6, <2>1, <2>2, HeardOne
  <2>3. ASSUME NEW k \in {"answer", "silent"} \cup Errors, endRun(<<k>>) PROVE RecoverInv'
    <3>1. CASE k \in Overflows /\ connected
      <4>1. k \in Lapses
        BY <3>1 DEF Lapses
      <4>2. PICK a : a = [agent EXCEPT !.pc = "idle", !.aborting = FALSE]
        OBVIOUS
      <4>3. say(<<k>>, a)
        BY <2>3, <4>2 DEF endRun
      <4>4. "messages" \in DOMAIN a /\ a.messages = agent.messages
        BY <1>1, <4>2 DEF Shapes
      <4>5. EndsOpen(agent'.messages) /\ EndsOpen(resumed(entries', leaf'))
        BY <1>1, <3>1, <4>1, <4>3, <4>4, SayEnds
      <4>6. driver'.waiting = FALSE
        BY <1>1, <2>1, <2>3, EndedRun
      <4>7. QED
        BY <4>5, <4>6 DEF RecoverInv
    <3>2. CASE ~(k \in Overflows /\ connected)
      <4>1. heard(<<k>>).kind \notin Overflows
        BY <2>1, <3>2, HeardOne
      <4>2. QED
        BY <1>6, <2>3, <4>1
    <3>3. QED
      BY <3>1, <3>2
  <2>4. CASE driver' = [driver EXCEPT !.last = heard(<<"call">>)]
    <3>1. driver'.at = "running"
      BY <1>1, <2>1, <2>4 DEF Shapes
    <3>2. QED
      BY <1>3, <3>1
  <2>5. QED
    BY <1>11, <2>2, <2>3, <2>4 DEF Reply
<1>12. CASE ToolResult
  <2>1. driver' = driver /\ driver.at = "running"
    BY <1>1, <1>12 DEF ToolResult, ChainInv
  <2>2. QED
    BY <1>3, <2>1
<1>13. CASE Aborted
  <2>1. driver.last.kind \notin Overflows
    BY <1>1, <1>13 DEF Aborted, ChainInv
  <2>2. PICK kinds : kinds = (IF agent.pc = "tool" THEN <<"result">> ELSE <<"aborted">>)
    OBVIOUS
  <2>3. endRun(kinds)
    BY <1>13, <2>2 DEF Aborted
  <2>4. heard(kinds).kind \notin Overflows
    BY <2>1, <2>2, HeardKind
  <2>5. QED
    BY <1>6, <2>3, <2>4
<1>14. CASE RunBreaks
  <2>1. driver.last.kind \notin Overflows
    BY <1>5, <1>14 DEF RunBreaks
  <2>2. \/ driver' = [driver EXCEPT !.at = "post"]
        \/ driver' = [driver EXCEPT !.at = "idle", !.prompting = FALSE]
    BY <1>14 DEF RunBreaks
  <2>3. driver'.last = driver.last
    BY <1>1, <2>2 DEF Shapes
  <2>4. QED
    BY <1>2, <2>1, <2>3
<1>15. CASE Abort
  <2>1. driver' = driver /\ driver.at = "running"
    BY <1>1, <1>15 DEF Abort, ChainInv
  <2>2. QED
    BY <1>3, <2>1
<1>16. CASE ManualStart
  BY <1>1, <1>4, <1>16 DEF ManualStart, Shapes
<1>17. CASE ManualIdle
  BY <1>4, <1>17 DEF ManualIdle
<1>18. CASE AbortCompaction
  BY <1>4, <1>18 DEF AbortCompaction
<1>19. ASSUME NEW again, endJob("auto", again), again \in BOOLEAN, jobs.auto.pc # "none" PROVE RecoverInv'
  <2>1. driver' = goesOn(again)
    BY <1>19 DEF endJob
  <2>2. driver.at \in {"pre", "projected", "post"}
    BY <1>1, <1>19 DEF ChainInv
  <2>3. QED
    BY <1>7, <1>19, <2>1, <2>2
<1>20. ASSUME NEW again, endJob("manual", again) PROVE driver' = driver
  BY <1>20 DEF endJob
<1>21. CASE Begin("auto")
  <2>1. jobs.auto.pc # "none" /\ driver.waiting = TRUE
    BY <1>1, <1>21 DEF Begin, ChainInv
  <2>2. CASE endJob("auto", FALSE)
    BY <1>19, <2>1, <2>2
  <2>3. CASE driver' = driver
    BY <1>2, <2>1, <2>3 DEF RecoverInv
  <2>4. QED
    BY <1>21, <2>2, <2>3 DEF Begin
<1>22. CASE Begin("manual")
  <2>1. ~repairs("manual")
    BY DEF repairs, MessagesInv
  <2>2. entries' = entries /\ leaf' = leaf /\ agent' = agent
    BY <1>22, <2>1 DEF Begin
  <2>3. driver' = driver
    BY <1>20, <1>22 DEF Begin
  <2>4. QED
    BY <1>4, <2>2, <2>3
<1>23. CASE JobFails("auto")
  BY <1>19, <1>23 DEF JobFails
<1>24. CASE JobFails("manual")
  BY <1>4, <1>20, <1>24 DEF JobFails
<1>25. CASE Commit("auto")
  <2>1. jobs.auto.pc # "none" /\ jobs.auto.retry \in BOOLEAN
    BY <1>1, <1>25 DEF Commit, ChainInv
  <2>2. endJob("auto", FALSE) \/ endJob("auto", jobs.auto.retry)
    BY <1>25 DEF Commit
  <2>3. QED
    BY <1>19, <2>1, <2>2
<1>26. CASE Commit("manual")
  <2>1. driver' = driver
    BY <1>20, <1>26 DEF Commit
  <2>2. CASE agent' = agent /\ entries' = entries /\ leaf' = leaf
    BY <1>4, <2>1, <2>2
  <2>3. CASE ~(agent' = agent /\ entries' = entries /\ leaf' = leaf)
    <3>1. ~UNCHANGED <<entries, leaf>>
      <4>1. PICK new : entries' = Append(entries, new)
        BY <1>26, <2>3 DEF Commit
      <4>2. entries \in Seq(Elements(entries) \cup {new}) /\ new \in Elements(entries) \cup {new}
        BY SeqMonotonic DEF Surroundings, TreeInv
      <4>3. Len(entries') = Len(entries) + 1
        BY <4>1, <4>2, AppendProperties
      <4>4. QED
        BY <4>3 DEF Surroundings
    <3>2. "manual" \in Jobs /\ jobs.manual.retry = FALSE
      BY DEF Jobs, MessagesInv
    <3>3. agent'.messages = resumed(entries', leaf')
      BY <1>1, <1>26, <3>1, <3>2, CommitMirrors
    <3>4. EndsOpen(resumed(entries, leaf)) => EndsOpen(resumed(entries', leaf'))
      BY <1>26, <3>1, <3>2, CommitEnds
    <3>5. QED
      BY <2>1, <3>3, <3>4 DEF RecoverInv
  <2>4. QED
    BY <2>2, <2>3
<1>27. ASSUME NEW e \in DOMAIN entries, NavigateTree(e) PROVE RecoverInv'
  <2>1. driver' = driver /\ (driver.at \in {"idle", "pre", "projected"} \/ driver.waiting)
    BY <1>27 DEF NavigateTree
  <2>2. driver.last.kind \notin Overflows
    BY <1>5, <2>1 DEF RecoverInv
  <2>3. QED
    BY <1>2, <2>1, <2>2
<1>28. CASE CustomEntry
  <2>1. resumed(entries', leaf') = resumed(entries, leaf) /\ agent' = agent /\ driver' = driver
    BY <1>28, CustomMirrors DEF CustomEntry
  <2>2. QED
    BY <2>1 DEF RecoverInv
<1>29. CASE Foreign
  BY <1>4, <1>29 DEF Foreign
<1>30. CASE UNCHANGED vars
  BY <1>4, <1>30 DEF vars
<1>31. QED
  BY <1>8, <1>9, <1>10, <1>11, <1>12, <1>13, <1>14, <1>15, <1>16, <1>17, <1>18, <1>21, <1>22, <1>23, <1>24, <1>25, <1>26, <1>27, <1>28, <1>29, <1>30 DEF Next

(* The invariant of the agent's conversation. *)
ConversationInv == TurnsInv /\ MessagesInv /\ MirrorInv /\ RecoverInv

(* Nothing was said at first. *)
LEMMA ConversationInit ==
  ASSUME Init
  PROVE  ConversationInv
<1>1. entries = <<>> /\ Len(entries) = 0 /\ DOMAIN entries = {} /\ leaf = 0 /\ agent.messages = <<>>
  BY DEF Init
<1>2. TurnsInv
  BY <1>1 DEF TurnsInv, FirstOnBranch, SummariesClosed, Compactions
<1>3. MessagesInv
  BY <1>1 DEF Init, MessagesInv, Known, NoJob
<1>4. RecoverInv
  BY DEF Init, RecoverInv, None, Overflows
<1>5. MirrorInv
  <2>1. TreeInv
    BY InvInit DEF CompactionInv
  <2>2. Sane(entries) /\ 0 \in 0..Len(entries)
    BY <1>1, <1>2, <2>1, EntriesSane DEF TurnsInv
  <2>3. buildSessionContext(entries, 0) \in Seq(1..Len(entries))
    BY <2>2, ContextForm
  <2>4. PICK u : u = buildSessionContext(entries, leaf)
    OBVIOUS
  <2>5. u \in Seq({})
    BY <1>1, <2>3, <2>4
  <2>6. Len(u) = 0 /\ DOMAIN u = {}
    BY <2>5
  <2>7. loaded(entries, u) = <<>>
    BY <2>6 DEF loaded
  <2>8. only(agent.messages, Said) = saidAt(entries, leaf)
    BY <1>1, <2>4, <2>7 DEF saidAt, resumed
  <2>9. QED
    BY <2>8 DEF MirrorInv, Mirrors
<1>6. QED
  BY <1>2, <1>3, <1>4, <1>5 DEF ConversationInv

(* Every step keeps the four parts of the invariant. *)
LEMMA ConversationNext ==
  ASSUME CompactionInv, ConversationInv, [Next]_vars
  PROVE  ConversationInv'
<1>1. TurnsInv /\ MessagesInv /\ MirrorInv /\ RecoverInv
  BY DEF ConversationInv
<1>2. Surroundings
  BY <1>1, SurroundingsHold DEF MessagesInv
<1>3. TurnsInv'
  BY <1>1, TurnsNext
<1>4. agent'.messages \in Seq(Msgs) /\ MirrorInv'
  BY <1>1, <1>2, MirrorNext
<1>5. MessagesInv'
  BY <1>1, <1>2, <1>4, ManualNext DEF MessagesInv, Surroundings
<1>6. RecoverInv'
  BY <1>1, <1>2, ControlNext, RecoverNext
<1>7. QED
  BY <1>3, <1>4, <1>5, <1>6 DEF ConversationInv

(* The invariant of the conversation, for every behaviour. *)
LEMMA ConversationAlways == Spec => []ConversationInv
<1>1. Init => ConversationInv
  BY ConversationInit
<1>2. CompactionInv /\ ConversationInv /\ [Next]_vars => ConversationInv'
  BY ConversationNext
<1>3. QED
  BY <1>1, <1>2, InvAlways, PTL DEF Spec

(* After a commit, the agent's messages start with the summary and do not  *)
(* end with a call: of the closed context, nothing but an error is dropped. *)
LEMMA CommitContinues ==
  ASSUME Shapes, CompactionInv, Surroundings, TurnsInv', NEW j \in Jobs, Commit(j), ~UNCHANGED <<entries, leaf>>
  PROVE  continues'
<1>1. PICK fs, n, u, T : fs = entries' /\ n = leaf' /\ u = buildSessionContext(fs, n) /\ T = 1..Len(entries')
  OBVIOUS
<1>2. Sane(fs) /\ Known(fs) /\ n \in 0..Len(fs) /\ Len(fs) \in Nat
  BY <1>1 DEF Surroundings
<1>3. u \in Seq(T)
  BY <1>1, <1>2, ContextForm
<1>4. CutContext(entries, leaf, fs, n) /\ n = Len(entries) + 1 /\ Len(fs) = Len(entries) + 1 /\ fs[n].kind = "compaction"
  BY <1>1, CommitCuts
<1>5. n \in T /\ 1..Len(entries) \subseteq T
  BY <1>1, <1>4 DEF Surroundings
<1>6. Len(u) \in Nat /\ Len(u) # 0 /\ u[1] = n
  <2>1. PICK b \in Seq(1..Len(entries)) : u = cat(one(n), b)
    BY <1>1, <1>4 DEF CutContext
  <2>2. b \in Seq(T) /\ one(n) \in Seq(T)
    BY <1>5, <2>1, SeqMonotonic, OneType
  <2>3. CatOf(T, one(n), b, u) /\ Len(one(n)) = 1 /\ one(n)[1] = n /\ Len(b) \in Nat
    BY <1>5, <2>1, <2>2, CatIndex, OneIndex
  <2>4. QED
    BY <2>3 DEF CatOf
<1>7. Closed(fs, u)
  <2>1. Sane(fs) /\ n \in DOMAIN fs
    BY <1>1, <1>2, <1>5 DEF Sane, Tree
  <2>2. closed(branchKinds(fs, n))
    BY <1>1, <1>4, <2>1 DEF TurnsInv, SummariesClosed, Compactions, kind
  <2>3. QED
    BY <1>1, <1>3, <2>2, ClosedIs DEF branchKinds
<1>8. PICK v : /\ v = IF jobs[j].retry /\ fs[Last(u)].kind \in Errors THEN Front(u) ELSE u
               /\ agent'.messages = loaded(fs, v)
  <2>1. agent' = [agent EXCEPT !.messages = loaded(fs, IF jobs[j].retry /\ fs[Last(u)].kind \in Errors THEN Front(u) ELSE u)]
    BY <1>1 DEF Commit
  <2>2. QED
    BY <2>1 DEF Shapes
<1>9. Last(u) = u[Len(u)]
  BY DEF Last
<1>10. v \in Seq(T) /\ Len(v) \in Nat /\ Len(v) # 0 /\ fs[v[Len(v)]].kind # "call"
  <2>1. CASE v = u
    BY <1>3, <1>6, <1>7, <2>1 DEF Closed
  <2>2. CASE v = Front(u) /\ fs[Last(u)].kind \in Errors
    <3>1. Len(u) # 1
      BY <1>4, <1>6, <1>9, <2>2 DEF Errors
    <3>2. PICK i \in Nat : i # 0 /\ Len(u) = i + 1
      <4>1. ASSUME NEW m \in Nat, m # 0, m # 1 PROVE m - 1 \in Nat /\ m - 1 # 0 /\ m = (m - 1) + 1
        BY <4>1
      <4>2. QED
        BY <1>6, <3>1, <4>1
    <3>3. v = SubSeq(u, 1, i)
      <4>1. (i + 1) - 1 = i
        OBVIOUS
      <4>2. QED
        BY <2>2, <3>2, <4>1 DEF Front
    <3>4. i \in 0..Len(u) /\ i \in 1..(Len(u) - 1) /\ i \in 1..i
      BY <3>2
    <3>5. v \in Seq(T) /\ Len(v) = i /\ v[i] = u[i]
      BY <1>3, <3>3, <3>4, PrefixIs
    <3>6. fs[u[i + 1]].kind # "result"
      BY <1>9, <2>2, <3>2 DEF Errors
    <3>7. fs[u[i]].kind # "call"
      BY <1>7, <3>4, <3>6 DEF Closed
    <3>8. QED
      BY <3>2, <3>5, <3>7
  <2>3. QED
    BY <1>8, <2>1, <2>2
<1>11. PICK l : l = loaded(fs, v)
  OBVIOUS
<1>12. l \in Seq(Msgs) /\ Len(l) = Len(v) /\ l[Len(v)] = msgOf(fs, v[Len(v)])
  BY <1>1, <1>2, <1>10, <1>11, LoadedIs
<1>13. l # <<>> /\ Last(l).kind # "call"
  BY <1>10, <1>12 DEF Last, msgOf
<1>14. QED
  BY <1>8, <1>11, <1>13 DEF continues

(* agent.continue() is asked with what the last commit left. *)
LEMMA RetriesNext ==
  ASSUME CompactionInv, ConversationInv, RetriesAccepted, [Next]_vars
  PROVE  RetriesAccepted'
<1>1. Shapes /\ ChainInv /\ TurnsInv /\ MessagesInv
  BY DEF CompactionInv, ConversationInv
<1>2. CASE driver'.at # "continue"
  BY <1>2 DEF RetriesAccepted
<1>3. ASSUME driver.at = driver'.at, agent'.messages = agent.messages PROVE RetriesAccepted'
  BY <1>3 DEF RetriesAccepted, continues
<1>4. CASE Prompt
  BY <1>1, <1>2, <1>4 DEF Prompt, Shapes
<1>5. CASE Check
  <2>1. driver.at \in {"pre", "projected", "post"}
    BY <1>5 DEF Check
  <2>2. CASE Passes
    BY <1>1, <1>2, <2>1, <2>2, GoesOn DEF Passes
  <2>3. ASSUME NEW job, startAuto(job) PROVE driver'.at # "continue"
    BY <1>1, <2>1, <2>3 DEF startAuto, Shapes
  <2>4. CASE Recovers
    BY <1>2, <2>3, <2>4 DEF Recovers
  <2>5. ASSUME NEW ratio \in Ratios, Measures(ratio) PROVE RetriesAccepted'
    <3>1. CASE startAuto([NoJob EXCEPT !.emergency = ratio = 3, !.rearmed = ghost'.low])
      <4>1. PICK job : job = [NoJob EXCEPT !.emergency = ratio = 3, !.rearmed = ghost'.low]
        OBVIOUS
      <4>2. startAuto(job)
        BY <3>1, <4>1, Zenon
      <4>3. QED
        BY <1>2, <2>3, <4>2
    <3>2. QED
      BY <2>2, <2>5, <3>1 DEF Measures
  <2>6. QED
    BY <1>5, <2>2, <2>4, <2>5, CheckOutcomes
<1>6. ASSUME NEW kinds, endRun(kinds) PROVE RetriesAccepted'
  BY <1>1, <1>2, <1>6, EndedRun
<1>7. CASE StartRun
  <2>1. CASE connected /\ activeRun
    BY <1>6, <1>7, <2>1 DEF StartRun
  <2>2. CASE ~(connected /\ activeRun)
    <3>1. driver' = [driver EXCEPT !.at = "running"]
      BY <1>7, <2>2 DEF StartRun
    <3>2. QED
      BY <1>1, <1>2, <3>1 DEF Shapes
  <2>3. QED
    BY <2>1, <2>2
<1>8. CASE agent.pc # "idle" /\ driver'.at = driver.at
  BY <1>1, <1>2, <1>8 DEF ChainInv
<1>9. CASE Reply
  <2>1. \/ endRun(<<>>) \/ \E k \in {"answer", "silent"} \cup Errors : endRun(<<k>>)
        \/ agent.pc # "idle" /\ driver' = [driver EXCEPT !.last = heard(<<"call">>)]
    BY <1>9 DEF Reply
  <2>2. QED
    BY <1>1, <1>6, <1>8, <2>1 DEF Shapes
<1>10. CASE ToolResult
  BY <1>8, <1>10 DEF ToolResult
<1>11. CASE Aborted
  BY <1>6, <1>11 DEF Aborted
<1>12. CASE RunBreaks
  <2>1. \/ driver' = [driver EXCEPT !.at = "post"]
        \/ driver' = [driver EXCEPT !.at = "idle", !.prompting = FALSE]
    BY <1>12 DEF RunBreaks
  <2>2. QED
    BY <1>1, <1>2, <2>1 DEF Shapes
<1>13. CASE Abort
  BY <1>1, <1>3, <1>13 DEF Abort, Shapes
<1>14. CASE ManualStart
  BY <1>1, <1>3, <1>14 DEF ManualStart, Shapes
<1>15. CASE ManualIdle \/ AbortCompaction
  BY <1>3, <1>15 DEF ManualIdle, AbortCompaction
<1>16. ASSUME NEW j \in Jobs, jobs[j].pc # "none", endJob(j, FALSE), agent' = agent PROVE RetriesAccepted'
  <2>1. CASE j = "auto"
    <3>1. driver' = goesOn(FALSE) /\ driver.at \in {"pre", "projected", "post"}
      BY <1>1, <1>16, <2>1 DEF endJob, ChainInv
    <3>2. QED
      BY <1>1, <1>2, <3>1, GoesOn
  <2>2. CASE j # "auto"
    BY <1>3, <1>16, <2>2 DEF endJob
  <2>3. QED
    BY <2>1, <2>2
<1>17. ASSUME NEW j \in Jobs, Begin(j) PROVE RetriesAccepted'
  <2>1. jobs[j].pc = "auth"
    BY <1>17 DEF Begin
  <2>2. CASE j = "auto"
    <3>1. driver.at \in {"pre", "projected", "post"}
      BY <1>1, <2>1, <2>2 DEF ChainInv
    <3>2. driver' = driver \/ driver' = goesOn(FALSE)
      BY <1>17, <2>2 DEF Begin, endJob
    <3>3. QED
      BY <1>1, <1>2, <3>1, <3>2, GoesOn
  <2>3. CASE j = "manual"
    <3>1. ~repairs(j)
      BY <1>1, <2>3 DEF repairs, MessagesInv
    <3>2. agent' = agent /\ driver' = driver
      BY <1>17, <2>3, <3>1 DEF Begin, endJob
    <3>3. QED
      BY <1>3, <3>2
  <2>4. QED
    BY <2>2, <2>3 DEF Jobs
<1>18. ASSUME NEW j \in Jobs, JobFails(j) PROVE RetriesAccepted'
  BY <1>16, <1>18 DEF JobFails
<1>19. ASSUME NEW j \in Jobs, Commit(j) PROVE RetriesAccepted'
  <2>1. CASE ~UNCHANGED <<entries, leaf>>
    <3>1. Surroundings /\ TurnsInv'
      BY <1>1, SurroundingsHold, TurnsNext DEF MessagesInv
    <3>2. continues'
      BY <1>1, <1>19, <2>1, <3>1, CommitContinues
    <3>3. QED
      BY <3>2 DEF RetriesAccepted
  <2>2. CASE UNCHANGED <<entries, leaf>>
    <3>1. jobs[j].pc # "none"
      BY <1>19 DEF Commit
    <3>2. endJob(j, FALSE) /\ agent' = agent
      <4>1. ASSUME NEW x PROVE Append(entries, x) # entries
        <5>1. entries \in Seq(Elements(entries) \cup {x})
          BY SeqMonotonic DEF CompactionInv, TreeInv
        <5>2. Len(Append(entries, x)) = Len(entries) + 1 /\ Len(entries) \in Nat
          BY <5>1
        <5>3. QED
          BY <5>2
      <4>2. QED
        BY <1>19, <2>2, <4>1 DEF Commit
    <3>3. QED
      BY <1>16, <3>1, <3>2
  <2>3. QED
    BY <2>1, <2>2
<1>20. ASSUME NEW e \in DOMAIN entries, NavigateTree(e) PROVE RetriesAccepted'
  <2>1. driver' = driver /\ (driver.at \in {"idle", "pre", "projected"} \/ driver.waiting)
    BY <1>20 DEF NavigateTree
  <2>2. QED
    BY <1>1, <1>2, <2>1 DEF ChainInv
<1>21. CASE CustomEntry \/ Foreign
  BY <1>3, <1>21 DEF CustomEntry, Foreign
<1>22. CASE UNCHANGED vars
  BY <1>3, <1>22 DEF vars
<1>23. QED
  BY <1>4, <1>5, <1>7, <1>9, <1>10, <1>11, <1>12, <1>13, <1>14, <1>15, <1>17, <1>18, <1>19, <1>20, <1>21, <1>22 DEF Next, Jobs

(* Whatever compact() and _runAutoCompaction commit, in whatever order, on *)
(* whatever branch and however often a branch was compacted before, leaves *)
(* a transcript whose calls all have their results: findCutPoint never     *)
(* starts what is kept with a result, and the barrier has seen the branch  *)
(* closed.  The retry after a commit is therefore always one that          *)
(* agent.continue() accepts, whatever compact() does in between.           *)
THEOREM CompactionsKeepTurns == Spec => []CompactionKeepsTurns
<1>1. Init => RetriesAccepted
  BY DEF Init, RetriesAccepted
<1>2. CompactionInv /\ ConversationInv /\ RetriesAccepted /\ [Next]_vars => RetriesAccepted'
  BY RetriesNext
<1>3. TurnsInv /\ RetriesAccepted => CompactionKeepsTurns
  BY DEF TurnsInv, CompactionKeepsTurns
<1>4. QED
  BY <1>1, <1>2, <1>3, InvAlways, TurnsAlways, ConversationAlways, PTL DEF Spec

(* said, as it stands in the property, is what no recovery drops. *)
LEMMA SaidIs ==
  ASSUME NEW s \in Seq(Msgs)
  PROVE  only(s, {m \in ToSet(s) : m.kind \notin Errors \cup Overflows}) = only(s, Said)
<1>1. ASSUME NEW i \in 1..Len(s) PROVE s[i] \in {m \in ToSet(s) : m.kind \notin Errors \cup Overflows} <=> s[i] \in Said
  <2>1. s[i] \in ToSet(s) /\ s[i] \in Msgs
    BY DEF ToSet
  <2>2. QED
    BY <2>1 DEF Said, Lapses, Errors, Overflows
<1>2. QED
  BY <1>1, OnlySame

(* When nothing is under way, the agent's conversation is the one that the *)
(* session would resume with, errors and answers beyond the window aside:  *)
(* whatever runs, compactions, navigations, extensions and other processes *)
(* did before, in whatever order, unless a message has no entry because    *)
(* compact() had disconnected the session or another process had the file. *)
THEOREM ContextFollows == Spec => []ContextFollowsSession
<1>1. CompactionInv /\ ConversationInv => ContextFollowsSession
  <2> SUFFICES ASSUME CompactionInv, ConversationInv, \A i \in DOMAIN agent.messages : agent.messages[i].at # 0
               PROVE  only(agent.messages, {m \in ToSet(agent.messages) : m.kind \notin Errors \cup Overflows})
                        = only(loaded(entries, buildSessionContext(entries, leaf)),
                               {m \in ToSet(loaded(entries, buildSessionContext(entries, leaf))) : m.kind \notin Errors \cup Overflows})
    BY DEF ContextFollowsSession
  <2>1. agent.messages \in Seq(Msgs) /\ Known(entries) /\ TreeInv /\ FirstOnBranch(entries)
    BY DEF ConversationInv, MessagesInv, CompactionInv, TurnsInv
  <2>2. Sane(entries) /\ leaf \in 0..Len(entries)
    BY <2>1, EntriesSane DEF TreeInv
  <2>3. PICK l : l = loaded(entries, buildSessionContext(entries, leaf))
    OBVIOUS
  <2>4. l \in Seq(Msgs) /\ saidAt(entries, leaf) = only(l, Said)
    BY <2>1, <2>2, <2>3, ResumedType DEF resumed, saidAt
  <2>5. Persisted(agent.messages)
    BY <2>1 DEF Persisted
  <2>6. only(agent.messages, Said) = only(l, Said)
    BY <2>4, <2>5 DEF ConversationInv, MirrorInv, Mirrors
  <2>7. only(agent.messages, {m \in ToSet(agent.messages) : m.kind \notin Errors \cup Overflows}) = only(agent.messages, Said)
    BY <2>1, SaidIs
  <2>8. only(l, {m \in ToSet(l) : m.kind \notin Errors \cup Overflows}) = only(l, Said)
    BY <2>4, SaidIs
  <2>9. QED
    BY <2>3, <2>6, <2>7, <2>8
<1>2. QED
  BY <1>1, InvAlways, ConversationAlways, PTL
================================================================================
