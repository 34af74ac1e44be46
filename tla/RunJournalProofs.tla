--------------------------- MODULE RunJournalProofs ---------------------------
(***************************************************************************)
(* The run journal stays sound, keeps what it acknowledged and belongs to  *)
(* its session, for every set of processes and every number of starts,     *)
(* runs, entries, audits and failed writes.                                *)
(***************************************************************************)
EXTENDS RunJournal, SequenceTheorems, TLAPS

Events == {"run_started", "run_finished", "run_recovered", "audit"}
Hashes == {<<>>} \cup (Nat \X Events \X Nat)
Records == [seq : Nat, prev : Hashes, event : Events, run : Nat, id : Nat, revision : Nat]
Files == [id : Nat, entries : Nat, torn : BOOLEAN, gen : Nat]
Memories == [status : {"down", "opening", "up", "refused"}, id : Nat, entries : Nat,
             flushed : BOOLEAN, head : Files, accepted : Seq(Records), gen : Nat, active : Nat]

(* The types of the journal's state. *)
JournalTypes ==
  /\ session \in Files
  /\ journal \in [lines : Seq(Records), torn : BOOLEAN, gen : Nat]
  /\ proc \in [Procs -> Memories]
  /\ leasing \subseteq Procs /\ lease \in Procs \cup {"nobody"}
  /\ boots \in Nat /\ runs \in Nat

(* What a store has accepted is of its own session. *)
AcceptedOwn ==
  \A p \in Procs : up(p) => \A k \in DOMAIN proc[p].accepted : proc[p].accepted[k].id = proc[p].id

(* A run's number is used once: no record and no memory is ahead of runs,  *)
(* and only a session that is up has a run.                                *)
RunsCounted ==
  /\ \A k \in DOMAIN journal.lines : journal.lines[k].run <= runs
  /\ \A p \in Procs : proc[p].active <= runs /\ (~up(p) => proc[p].active = None)

(* Session ids: who has made one that is not on disk is alone with it.     *)
IdsOwned ==
  /\ session.id <= boots /\ \A k \in DOMAIN journal.lines : journal.lines[k].id <= boots
  /\ session.id = None => session = NoFile
  /\ \A p \in Procs : alive(p) =>
       /\ proc[p].id # None /\ proc[p].id <= boots
       /\ IF proc[p].flushed
          THEN /\ proc[p].id = session.id /\ proc[p].head.id = session.id
               /\ proc[p].head.entries = proc[p].entries /\ proc[p].entries <= session.entries
          ELSE /\ proc[p].head = NoFile
               /\ proc[p].id = session.id => proc[p].entries <= session.entries
               /\ \A q \in Procs : alive(q) /\ ~proc[q].flushed /\ proc[q].id = proc[p].id => q = p

(* A record's revision is not ahead of the session it names: of the file,  *)
(* or, before there is one, of the memory that made the session.           *)
RevisionsBehind ==
  \A k \in DOMAIN journal.lines :
    /\ session.id # None /\ journal.lines[k].id = session.id => journal.lines[k].revision <= session.entries
    /\ \A p \in Procs : session.id = None /\ alive(p) /\ journal.lines[k].id = proc[p].id
                          => journal.lines[k].revision <= proc[p].entries

(* With leases there is one live process, and it has the session that the  *)
(* file and the journal name.                                              *)
OneSession ==
  leasing = Procs =>
    /\ \A p \in Procs : alive(p) => lease = p /\ (session.id # None => proc[p].id = session.id)
    /\ \A p \in Procs : up(p) /\ journal.lines # <<>> => journal.lines[1].id = proc[p].id
    /\ SameSession

JournalInv ==
  /\ JournalSound /\ AcknowledgedKept /\ AcceptedOwn
  /\ RunsCounted /\ RecoversOnlyDeadRuns /\ IdsOwned /\ RevisionsBehind /\ OneSession
--------------------------------------------------------------------------------

(* What appending a line does to the lines before it. *)
LEMMA AppendKeeps ==
  ASSUME NEW lines \in Seq(Records), NEW rec \in Records
  PROVE  /\ Append(lines, rec) \in Seq(Records) /\ Append(lines, rec) # <<>>
         /\ DOMAIN lines = 1..Len(lines) /\ Len(lines) \in Nat
         /\ DOMAIN Append(lines, rec) = 1..(Len(lines) + 1)
         /\ \A k \in DOMAIN lines : Append(lines, rec)[k] = lines[k]
         /\ Append(lines, rec)[Len(lines) + 1] = rec
         /\ \A k \in 1..(Len(lines) + 1) :
              SubSeq(Append(lines, rec), 1, k - 1) = SubSeq(lines, 1, k - 1)
         /\ SubSeq(lines, 1, Len(lines)) = lines
<1>1. /\ Append(lines, rec) \in Seq(Records) /\ Append(lines, rec) # <<>>
      /\ DOMAIN lines = 1..Len(lines) /\ Len(lines) \in Nat
      /\ Len(Append(lines, rec)) = Len(lines) + 1
      /\ \A k \in 1..Len(lines) : Append(lines, rec)[k] = lines[k]
      /\ Append(lines, rec)[Len(lines) + 1] = rec
  BY AppendProperties
<1>2. DOMAIN Append(lines, rec) = 1..(Len(lines) + 1)
  BY <1>1
<1>3. ASSUME NEW k \in 1..(Len(lines) + 1)
      PROVE  SubSeq(Append(lines, rec), 1, k - 1) = SubSeq(lines, 1, k - 1)
  <2>1. SubSeq(Append(lines, rec), 1, k - 1) = [j \in 1..(k - 1) |-> Append(lines, rec)[j]]
    BY <1>1
  <2>2. SubSeq(lines, 1, k - 1) = [j \in 1..(k - 1) |-> lines[j]]
    BY <1>1
  <2>3. \A j \in 1..(k - 1) : Append(lines, rec)[j] = lines[j]
    BY <1>1
  <2> QED
    BY <2>1, <2>2, <2>3
<1>4. SubSeq(lines, 1, Len(lines)) = lines
  <2>1. SubSeq(lines, 1, Len(lines)) = [j \in 1..Len(lines) |-> lines[j]]
    BY <1>1
  <2> QED
    BY <1>1, <2>1
<1> QED
  BY <1>1, <1>2, <1>3, <1>4

(* seal() and the checks of start, finish, recover and audit keep a clean  *)
(* journal clean.                                                          *)
LEMMA CleanAppend ==
  ASSUME NEW lines \in Seq(Records), NEW rec \in Records, Clean(lines),
         rec.seq = Len(lines), rec.prev = hash(lines),
         \A k \in DOMAIN lines : lines[k].id = rec.id,
         Admitted(lines, rec.event, rec.run, rec.revision)
  PROVE  Clean(Append(lines, rec))
<1> DEFINE more == Append(lines, rec)
<1>1. more[1].id = rec.id
  BY AppendKeeps
<1>2. ASSUME NEW k \in DOMAIN lines
      PROVE  LET before == SubSeq(more, 1, k - 1) IN
             /\ more[k].seq = k - 1 /\ more[k].prev = hash(before) /\ more[k].id = more[1].id
             /\ Admitted(before, more[k].event, more[k].run, more[k].revision)
  <2>1. more[k] = lines[k] /\ SubSeq(more, 1, k - 1) = SubSeq(lines, 1, k - 1)
    BY AppendKeeps
  <2>2. lines[k].id = more[1].id
    BY <1>1
  <2> HIDE DEF more
  <2> QED
    BY <2>1, <2>2 DEF Clean
<1>3. LET k == Len(lines) + 1
          before == SubSeq(more, 1, k - 1) IN
      /\ more[k].seq = k - 1 /\ more[k].prev = hash(before) /\ more[k].id = more[1].id
      /\ Admitted(before, more[k].event, more[k].run, more[k].revision)
  <2>0. Len(lines) \in Nat /\ (Len(lines) + 1) - 1 = Len(lines)
    BY AppendKeeps
  <2>1. more[Len(lines) + 1] = rec /\ SubSeq(more, 1, (Len(lines) + 1) - 1) = lines
    BY <2>0, AppendKeeps
  <2> HIDE DEF more
  <2> QED
    BY <2>0, <2>1, <1>1
<1>4. DOMAIN more = DOMAIN lines \cup {Len(lines) + 1}
  BY AppendKeeps
<1> HIDE DEF more
<1>5. Clean(more)
  BY <1>2, <1>3, <1>4 DEF Clean
<1> QED
  BY <1>5 DEF more

(* The open run is the run of some line. *)
LEMMA OpenRunOfLine ==
  ASSUME NEW lines \in Seq(Records)
  PROVE  /\ openRun(lines) \in Nat
         /\ openRun(lines) = None \/ \E k \in DOMAIN lines : openRun(lines) = lines[k].run
<1>1. CASE unclosed(lines) = {}
  BY <1>1 DEF openRun, None
<1>2. CASE unclosed(lines) # {}
  <2> DEFINE k == CHOOSE k \in unclosed(lines) : TRUE
  <2>1. k \in unclosed(lines)
    BY <1>2
  <2>2. k \in DOMAIN lines
    BY <2>1 DEF unclosed
  <2>3. openRun(lines) = lines[k].run
    BY <1>2 DEF openRun
  <2>4. lines[k] \in Records
    BY <2>2
  <2> HIDE DEF k
  <2> QED
    BY <2>2, <2>3, <2>4 DEF Records
<1> QED
  BY <1>1, <1>2

(* What seal() makes is a record. *)
LEMMA SealTypes ==
  ASSUME NEW lines \in Seq(Records), NEW event \in Events, NEW run \in Nat, NEW id \in Nat,
         NEW revision \in Nat
  PROVE  /\ seal(lines, event, run, id, revision) \in Records
         /\ lines # <<>> => Last(lines) \in Records /\ Len(lines) \in DOMAIN lines
                            /\ lastRevision(lines) = lines[Len(lines)].revision
         /\ lastRevision(lines) \in Nat
<1>1. lines # <<>> => Len(lines) \in DOMAIN lines /\ Last(lines) = lines[Len(lines)] /\ Last(lines) \in Records
  BY EmptySeq DEF Last
<1>2. hash(lines) \in Hashes
  BY <1>1 DEF hash, Hashes, Records
<1>3. Len(lines) \in Nat
  OBVIOUS
<1>4. seal(lines, event, run, id, revision) \in Records
  BY <1>2, <1>3 DEF seal, Records
<1> QED
  BY <1>1, <1>4 DEF lastRevision, Records

(* The step writes rec to the journal for process p. *)
Written(p, rec) ==
  /\ rec \in Records /\ journal'.lines = Append(journal.lines, rec)
  /\ rec.seq = Len(journal.lines) /\ rec.prev = hash(journal.lines)
  /\ rec.id = proc[p].id /\ \A k \in DOMAIN journal.lines : journal.lines[k].id = rec.id
  /\ Admitted(journal.lines, rec.event, rec.run, rec.revision)
  /\ alive(p) /\ leaseAllows(p) /\ rec.run <= runs'
  /\ rec.event = "run_recovered" => proc[p].status = "opening"
  /\ \/ rec.revision = proc[p].entries
     \/ journal.lines # <<>> /\ rec.revision = lastRevision(journal.lines)

(* The step leaves the journal's lines alone, or p writes one. *)
JournalStep(p) ==
  /\ journal' \in [lines : Seq(Records), torn : BOOLEAN, gen : Nat]
  /\ \/ journal'.lines = journal.lines /\ acked' = acked
     \/ \E rec : Written(p, rec) /\ acked' \subseteq acked \cup {rec}

(* The step leaves p's memory as r, with or without a record accepted. *)
MemoryStep(p, r) ==
  /\ \A q \in Procs : q # p => proc'[q] = proc[q]
  /\ proc' \in [Procs -> Memories]
  /\ \/ proc'[p] = r
     \/ \E rec \in Records : Written(p, rec) /\ proc'[p] = [r EXCEPT !.accepted = Append(@, rec)]
                             /\ journal.lines = proc[p].accepted

(* RunJournalStore.commit writes one record, or nothing, or half a line.  *)
LEMMA CommitStep ==
  ASSUME JournalTypes, AcceptedOwn, NEW p \in Procs, up(p),
         NEW event \in Events, event # "run_recovered", NEW run \in Nat, run <= runs',
         NEW r \in Memories, NEW r0 \in Memories, Commit(p, event, run, r, r0)
  PROVE  JournalStep(p) /\ (MemoryStep(p, r) \/ MemoryStep(p, r0))
<1> DEFINE rec == seal(proc[p].accepted, event, run, proc[p].id, proc[p].entries)
<1>0. proc[p] \in Memories /\ journal \in [lines : Seq(Records), torn : BOOLEAN, gen : Nat]
  BY DEF JournalTypes
<1>1. proc[p].accepted \in Seq(Records) /\ proc[p].id \in Nat /\ proc[p].entries \in Nat
  BY <1>0 DEF Memories
<1>2. rec \in Records
  BY <1>1, SealTypes
<1>3. ASSUME Committable(p, event, run), journal'.lines = Append(journal.lines, rec) PROVE Written(p, rec)
  <2>1. journal.lines = proc[p].accepted /\ leaseAllows(p)
        /\ Admitted(proc[p].accepted, event, run, proc[p].entries)
    BY <1>3 DEF Committable, current
  <2>2. /\ rec.seq = Len(proc[p].accepted) /\ rec.prev = hash(proc[p].accepted) /\ rec.event = event
        /\ rec.run = run /\ rec.id = proc[p].id /\ rec.revision = proc[p].entries
    BY DEF seal
  <2>3. \A k \in DOMAIN journal.lines : journal.lines[k].id = proc[p].id
    BY <2>1 DEF AcceptedOwn
  <2>4. alive(p)
    BY DEF up, alive
  <2> HIDE DEF rec
  <2> QED
    BY <1>2, <1>3, <2>1, <2>2, <2>3, <2>4 DEF Written
<1>4. Committable(p, event, run) => journal.lines = proc[p].accepted
  BY DEF Committable, current
<1>5. ASSUME NEW m \in Memories, set(p, m)
      PROVE  /\ proc' \in [Procs -> Memories] /\ proc'[p] = m
             /\ \A q \in Procs : q # p => proc'[q] = proc[q]
  BY <1>5 DEF set, JournalTypes
<1>6. [r EXCEPT !.accepted = Append(@, rec)] \in Memories
  <2>1. Append(r.accepted, rec) \in Seq(Records)
    BY <1>2, AppendKeeps DEF Memories
  <2> HIDE DEF rec
  <2> QED
    BY <2>1 DEF Memories
<1>7. ASSUME journal' = [journal EXCEPT !.lines = Append(journal.lines, rec)]
      PROVE  journal'.lines = Append(journal.lines, rec)
             /\ journal' \in [lines : Seq(Records), torn : BOOLEAN, gen : Nat]
  <2>1. Append(journal.lines, rec) \in Seq(Records)
    BY <1>0, <1>2, AppendKeeps
  <2> HIDE DEF rec
  <2> QED
    BY <1>0, <1>7, <2>1
<1>8. CASE /\ Committable(p, event, run) /\ write(Append(journal.lines, rec))
           /\ set(p, [r EXCEPT !.accepted = Append(@, rec)])
           /\ acked' = acked \cup {rec}
  <2>1. Written(p, rec) /\ journal' \in [lines : Seq(Records), torn : BOOLEAN, gen : Nat]
    BY <1>3, <1>7, <1>8 DEF write
  <2>2. /\ proc'[p] = [r EXCEPT !.accepted = Append(@, rec)] /\ proc' \in [Procs -> Memories]
        /\ \A q \in Procs : q # p => proc'[q] = proc[q]
    BY <1>5, <1>6, <1>8
  <2> HIDE DEF rec
  <2>3. JournalStep(p)
    BY <1>8, <2>1 DEF JournalStep
  <2>4. MemoryStep(p, r)
    BY <1>2, <1>4, <1>6, <1>8, <2>1, <2>2 DEF MemoryStep
  <2> QED
    BY <2>3, <2>4
<1>9. CASE Committable(p, event, run) /\ writeFails(rec) /\ set(p, r0) /\ UNCHANGED acked
  <2>1. MemoryStep(p, r0)
    BY <1>5, <1>9 DEF MemoryStep
  <2>2. CASE journal' = [journal EXCEPT !.torn = TRUE]
    BY <1>0, <1>9, <2>1, <2>2 DEF JournalStep
  <2>3. CASE write(Append(journal.lines, rec))
    <3>1. Written(p, rec) /\ journal' \in [lines : Seq(Records), torn : BOOLEAN, gen : Nat]
      BY <1>3, <1>7, <1>9, <2>3 DEF write
    <3> HIDE DEF rec
    <3> QED
      BY <1>9, <2>1, <3>1 DEF JournalStep
  <2> QED
    BY <1>9, <2>2, <2>3 DEF writeFails
<1>10. CASE set(p, r0) /\ UNCHANGED <<journal, faults, acked>>
  BY <1>0, <1>5, <1>10 DEF MemoryStep, JournalStep
<1> QED
  BY <1>8, <1>9, <1>10 DEF Commit

(* A step of p that concerns the journal and not the session file. *)
Quiet(p) ==
  /\ UNCHANGED <<session, leasing, boots>> /\ runs' \in Nat /\ runs <= runs'
  /\ proc' \in [Procs -> Memories] /\ \A q \in Procs : q # p => proc'[q] = proc[q]
  /\ alive(p)' => /\ alive(p) /\ proc'[p].id = proc[p].id /\ proc'[p].entries = proc[p].entries
                  /\ proc'[p].flushed = proc[p].flushed /\ proc'[p].head = proc[p].head
  /\ lease' = lease \/ (lease = p /\ lease' = "nobody" /\ ~alive(p)')
  /\ up(p)' => \A k \in DOMAIN proc'[p].accepted : proc'[p].accepted[k].id = proc'[p].id
  /\ up(p)' /\ ~up(p) => \A k \in DOMAIN journal'.lines : journal'.lines[k].id = proc'[p].id
  /\ ~up(p)' => proc'[p].active = None
  /\ up(p)' => \/ proc'[p].active \in {None, proc[p].active}
               \/ up(p) /\ runs' = runs + 1 /\ proc'[p].active = runs'

(* A memory that goes on as r, with the same session, is quiet. *)
LEMMA QuietMemory ==
  ASSUME JournalTypes, AcceptedOwn, NEW p \in Procs, up(p), NEW r \in Memories, MemoryStep(p, r),
         UNCHANGED <<session, leasing, boots>>, runs' \in Nat, runs <= runs',
         \/ r = Down /\ (lease' = lease \/ (lease = p /\ lease' = "nobody"))
         \/ /\ UNCHANGED lease
            /\ \/ r \in {proc[p], [proc[p] EXCEPT !.active = None]}
               \/ r = [proc[p] EXCEPT !.active = runs'] /\ runs' = runs + 1
  PROVE  Quiet(p)
<1>0. proc[p] \in Memories /\ proc[p].status = "up" /\ proc[p].active \in Nat
  BY DEF JournalTypes, up, Memories
<1>1. /\ proc'[p].status = r.status /\ proc'[p].id = r.id /\ proc'[p].entries = r.entries
      /\ proc'[p].flushed = r.flushed /\ proc'[p].head = r.head /\ proc'[p].active = r.active
      /\ \/ proc'[p].accepted = r.accepted
         \/ \E rec \in Records : Written(p, rec) /\ proc'[p].accepted = Append(r.accepted, rec)
                                 /\ journal.lines = proc[p].accepted
  BY DEF MemoryStep, Memories
<1>2. CASE r = Down /\ (lease' = lease \/ (lease = p /\ lease' = "nobody"))
  <2>1. r.status = "down" /\ r.active = None
    BY <1>2 DEF Down
  <2> QED
    BY <1>1, <1>2, <2>1 DEF Quiet, up, alive, MemoryStep
<1>3. CASE /\ UNCHANGED lease
           /\ \/ r \in {proc[p], [proc[p] EXCEPT !.active = None]}
              \/ r = [proc[p] EXCEPT !.active = runs'] /\ runs' = runs + 1
  <2>1. /\ r.status = "up" /\ r.id = proc[p].id /\ r.entries = proc[p].entries
        /\ r.flushed = proc[p].flushed /\ r.head = proc[p].head /\ r.accepted = proc[p].accepted
    BY <1>0, <1>3 DEF Memories
  <2>2. r.active \in {None, proc[p].active} \/ (r.active = runs' /\ runs' = runs + 1)
    BY <1>0, <1>3 DEF Memories
  <2>3. ASSUME NEW k \in DOMAIN proc'[p].accepted PROVE proc'[p].accepted[k].id = proc'[p].id
    <3>1. CASE proc'[p].accepted = r.accepted
      BY <1>1, <2>1, <3>1, <2>3 DEF AcceptedOwn
    <3>2. ASSUME NEW rec \in Records, Written(p, rec), proc'[p].accepted = Append(proc[p].accepted, rec)
          PROVE  proc'[p].accepted[k].id = proc'[p].id
      <4>1. rec.id = proc[p].id /\ proc[p].accepted \in Seq(Records)
        BY <1>0, <3>2 DEF Written, Memories
      <4>2. \/ k \in DOMAIN proc[p].accepted /\ proc'[p].accepted[k] = proc[p].accepted[k]
            \/ proc'[p].accepted[k] = rec
        BY <2>3, <3>2, <4>1, AppendKeeps
      <4> QED
        BY <1>1, <2>1, <4>1, <4>2 DEF AcceptedOwn
    <3> QED
      BY <1>1, <2>1, <3>1, <3>2
  <2>4. up(p)' /\ alive(p) /\ alive(p)'
    BY <1>0, <1>1, <2>1 DEF up, alive
  <2> QED
    BY <1>1, <1>3, <2>1, <2>2, <2>3, <2>4 DEF Quiet, MemoryStep
<1> QED
  BY <1>2, <1>3

(* The life of a run: each of its operations is quiet and writes at most   *)
(* one record.                                                             *)
LEMMA RunStep ==
  ASSUME JournalTypes, JournalInv, NEW p \in Procs,
         AgentStart(p) \/ AgentEnd(p) \/ RuntimeFailure(p) \/ Audit(p) \/ Signal(p)
  PROVE  JournalStep(p) /\ Quiet(p)
<1>0. /\ up(p) /\ AcceptedOwn /\ proc[p] \in Memories /\ runs \in Nat /\ UNCHANGED <<session, leasing, boots>>
      /\ proc[p].active \in Nat /\ proc[p].active <= runs /\ proc[p].accepted \in Seq(Records)
  BY DEF AgentStart, AgentEnd, RuntimeFailure, Audit, Signal, JournalInv, JournalTypes, RunsCounted, Memories
<1> DEFINE ended == [proc[p] EXCEPT !.active = None]
           started == [proc[p] EXCEPT !.active = runs']
<1>1. ended \in Memories /\ (runs' \in Nat => started \in Memories) /\ Down \in Memories
  <2>1. <<>> \in Seq(Records)
    OBVIOUS
  <2> QED
    BY <1>0, <2>1 DEF Memories, None, Down, NoFile, Files
<1> HIDE DEF ended, started
<1>2. CASE AgentStart(p)
  <2>1. runs' = runs + 1 /\ runs' \in Nat /\ runs <= runs' /\ UNCHANGED lease
    BY <1>0, <1>2 DEF AgentStart
  <2>2. Commit(p, "run_started", runs', started, started)
    BY <1>2, <2>1 DEF AgentStart, started
  <2>3. JournalStep(p) /\ MemoryStep(p, started)
    BY <1>0, <1>1, <2>1, <2>2, CommitStep DEF Events
  <2> QED
    BY <1>0, <1>1, <2>1, <2>3, QuietMemory DEF started
<1>3. CASE AgentEnd(p)
  <2>1. runs' = runs /\ UNCHANGED lease
    BY <1>3 DEF AgentEnd
  <2>2. Commit(p, "run_finished", proc[p].active, ended, proc[p])
    BY <1>3 DEF AgentEnd, ended
  <2>3. JournalStep(p) /\ (MemoryStep(p, ended) \/ MemoryStep(p, proc[p]))
    BY <1>0, <1>1, <2>1, <2>2, CommitStep DEF Events
  <2> QED
    BY <1>0, <1>1, <2>1, <2>3, QuietMemory DEF ended
<1>4. CASE RuntimeFailure(p)
  <2>1. runs' = runs /\ UNCHANGED lease
    BY <1>4 DEF RuntimeFailure
  <2>2. CASE Commit(p, "run_finished", proc[p].active, ended, ended)
    <3>1. JournalStep(p) /\ MemoryStep(p, ended)
      BY <1>0, <1>1, <2>1, <2>2, CommitStep DEF Events
    <3> QED
      BY <1>0, <1>1, <2>1, <3>1, QuietMemory DEF ended
  <2>3. CASE set(p, ended) /\ UNCHANGED <<journal, faults, acked>>
    <3>1. JournalStep(p)
      BY <2>3 DEF JournalStep, JournalTypes
    <3>2. MemoryStep(p, ended)
      BY <1>1, <2>3 DEF MemoryStep, set, JournalTypes
    <3> QED
      BY <1>0, <1>1, <2>1, <3>1, <3>2, QuietMemory DEF ended
  <2> QED
    BY <1>4, <2>2, <2>3 DEF RuntimeFailure, ended
<1>5. CASE Audit(p)
  <2>1. runs' = runs /\ UNCHANGED lease
    BY <1>5 DEF Audit
  <2>2. Commit(p, "audit", openRun(proc[p].accepted), proc[p], proc[p])
    BY <1>5 DEF Audit
  <2>3. openRun(proc[p].accepted) \in Nat
    BY <1>0, OpenRunOfLine
  <2>4. CASE ~Committable(p, "audit", openRun(proc[p].accepted))
    <3>1. set(p, proc[p]) /\ UNCHANGED <<journal, faults, acked>>
      BY <2>2, <2>4 DEF Commit
    <3>2. JournalStep(p)
      BY <3>1 DEF JournalStep, JournalTypes
    <3>3. MemoryStep(p, proc[p])
      BY <1>0, <3>1 DEF MemoryStep, set, JournalTypes
    <3> QED
      BY <1>0, <2>1, <3>2, <3>3, QuietMemory
  <2>5. CASE Committable(p, "audit", openRun(proc[p].accepted))
    <3>1. journal.lines = proc[p].accepted
      BY <2>5 DEF Committable, current
    <3>2. openRun(proc[p].accepted) <= runs'
      BY <1>0, <2>1, <3>1, OpenRunOfLine DEF JournalInv, RunsCounted, None
    <3>3. JournalStep(p) /\ MemoryStep(p, proc[p])
      BY <1>0, <2>2, <2>3, <3>2, CommitStep DEF Events
    <3> QED
      BY <1>0, <2>1, <3>3, QuietMemory
  <2> QED
    BY <2>4, <2>5
<1>6. CASE Signal(p)
  <2>1. runs' = runs /\ (lease' = lease \/ (lease = p /\ lease' = "nobody"))
    BY <1>6 DEF Signal, down
  <2>2. Commit(p, "run_finished", proc[p].active, Down, Down)
    BY <1>6 DEF Signal
  <2>3. JournalStep(p) /\ MemoryStep(p, Down)
    BY <1>0, <1>1, <2>1, <2>2, CommitStep DEF Events
  <2> QED
    BY <1>0, <1>1, <2>1, <2>3, QuietMemory
<1> QED
  BY <1>2, <1>3, <1>4, <1>5, <1>6

(* Opening the journal is quiet and writes at most the recovery record;    *)
(* so is ending the process.                                               *)
LEMMA OpenStep ==
  ASSUME JournalTypes, JournalInv, NEW p \in Procs, OpenJournal(p) \/ Exit(p) \/ Crash(p)
  PROVE  JournalStep(p) /\ Quiet(p)
<1>0. /\ AcceptedOwn /\ proc[p] \in Memories /\ runs \in Nat /\ runs' = runs
      /\ UNCHANGED <<session, leasing, boots>>
      /\ journal \in [lines : Seq(Records), torn : BOOLEAN, gen : Nat]
  BY DEF OpenJournal, Exit, Crash, JournalInv, JournalTypes
<1>1. CASE Exit(p) \/ Crash(p)
  <2>1. set(p, Down) /\ UNCHANGED <<journal, acked>> /\ (lease' = lease \/ (lease = p /\ lease' = "nobody"))
    BY <1>1 DEF Exit, Crash, down
  <2>2. Down \in Memories /\ Down.status = "down" /\ Down.active = None
    <3>1. <<>> \in Seq(Records)
      OBVIOUS
    <3> QED
      BY <3>1 DEF Memories, None, Down, NoFile, Files
  <2>3. proc'[p] = Down /\ proc' \in [Procs -> Memories] /\ \A q \in Procs : q # p => proc'[q] = proc[q]
    BY <2>1, <2>2 DEF set, JournalTypes
  <2>4. JournalStep(p)
    BY <1>0, <2>1 DEF JournalStep
  <2> QED
    BY <1>0, <2>1, <2>2, <2>3, <2>4 DEF Quiet, alive, up
<1>2. CASE OpenJournal(p)
  <2> DEFINE j == repaired
             run == openRun(j.lines)
             rec == seal(j.lines, "run_recovered", run, proc[p].id, lastRevision(j.lines))
             opened(lines) == [proc[p] EXCEPT !.status = "up", !.accepted = lines, !.gen = j.gen]
  <2>1. proc[p].status = "opening" /\ UNCHANGED lease /\ proc[p].active = None
    BY <1>2 DEF OpenJournal, JournalInv, RunsCounted, up
  <2>2. j \in [lines : Seq(Records), torn : BOOLEAN, gen : Nat] /\ j.lines = journal.lines
    <3>1. journal.gen + 1 \in Nat
      BY <1>0
    <3>2. [journal EXCEPT !.torn = FALSE, !.gen = @ + 1] \in [lines : Seq(Records), torn : BOOLEAN, gen : Nat]
          /\ [journal EXCEPT !.torn = FALSE, !.gen = @ + 1].lines = journal.lines
      BY <1>0, <3>1
    <3> QED
      BY <1>0, <3>2 DEF repaired
  <2>3. ASSUME refuse(p) PROVE Quiet(p)
    <3>1. [proc[p] EXCEPT !.status = "refused"] \in Memories
      BY <1>0 DEF Memories
    <3>2. /\ proc'[p] = [proc[p] EXCEPT !.status = "refused"] /\ proc' \in [Procs -> Memories]
          /\ \A q \in Procs : q # p => proc'[q] = proc[q]
      BY <2>3, <3>1 DEF refuse, set, JournalTypes
    <3>3. /\ proc'[p].status = "refused" /\ proc'[p].id = proc[p].id /\ proc'[p].entries = proc[p].entries
          /\ proc'[p].flushed = proc[p].flushed /\ proc'[p].head = proc[p].head
          /\ proc'[p].active = proc[p].active
      BY <1>0, <3>2 DEF Memories
    <3> QED
      BY <1>0, <2>1, <3>2, <3>3 DEF Quiet, up, alive
  <2>4. ASSUME NEW lines \in Seq(Records), \A k \in DOMAIN lines : lines[k].id = proc[p].id,
               set(p, opened(lines)), journal'.lines = lines
        PROVE  Quiet(p)
    <3>1. opened(lines) \in Memories
      BY <1>0, <2>2 DEF Memories
    <3>2. /\ proc'[p] = opened(lines) /\ proc' \in [Procs -> Memories]
          /\ \A q \in Procs : q # p => proc'[q] = proc[q]
      BY <2>4, <3>1 DEF set, JournalTypes
    <3>3. /\ proc'[p].status = "up" /\ proc'[p].id = proc[p].id /\ proc'[p].entries = proc[p].entries
          /\ proc'[p].flushed = proc[p].flushed /\ proc'[p].head = proc[p].head
          /\ proc'[p].active = proc[p].active /\ proc'[p].accepted = lines
      BY <1>0, <3>2 DEF Memories
    <3> QED
      BY <1>0, <2>1, <2>4, <3>2, <3>3 DEF Quiet, up, alive
  <2> HIDE DEF j
  <2>5. CASE refuse(p) /\ UNCHANGED <<journal, faults, acked>>
    BY <1>0, <2>3, <2>5 DEF JournalStep
  <2>6. ASSUME leaseAllows(p), Clean(journal.lines), ~foreign(p) PROVE JournalStep(p) /\ Quiet(p)
    <3>1. \A k \in DOMAIN journal.lines : journal.lines[k].id = proc[p].id
      BY <2>6 DEF foreign
    <3>2. CASE journal' = j /\ set(p, opened(j.lines)) /\ UNCHANGED <<faults, acked>>
      BY <2>2, <2>4, <3>1, <3>2 DEF JournalStep
    <3>3. CASE run # None /\ ~(journal' = j /\ set(p, opened(j.lines)) /\ UNCHANGED <<faults, acked>>)
      <4>1. proc[p].id \in Nat /\ run \in Nat /\ journal.lines \in Seq(Records)
        BY <1>0, <2>2, OpenRunOfLine DEF Memories
      <4>2. lastRevision(j.lines) \in Nat
        BY <2>2, <4>1, SealTypes DEF Events
      <4>3. rec \in Records
        BY <2>2, <4>1, <4>2, SealTypes DEF Events
      <4>4. journal.lines # <<>> /\ run <= runs
        BY <2>2, <3>3, <4>1, OpenRunOfLine DEF JournalInv, RunsCounted, None
      <4>5. /\ rec.seq = Len(journal.lines) /\ rec.prev = hash(journal.lines) /\ rec.event = "run_recovered"
            /\ rec.run = run /\ rec.id = proc[p].id /\ rec.revision = lastRevision(journal.lines)
        BY <2>2 DEF seal
      <4>6. Admitted(journal.lines, rec.event, rec.run, rec.revision)
        <5>1. rec.revision >= lastRevision(journal.lines)
          BY <2>2, <4>2, <4>5
        <5>2. openRun(journal.lines) = run
          BY <2>2
        <5> HIDE DEF rec
        <5> QED
          BY <3>3, <4>5, <5>1, <5>2 DEF Admitted, Terminals
      <4> HIDE DEF rec
      <4>7. ASSUME journal'.lines = Append(journal.lines, rec) PROVE Written(p, rec)
        BY <1>0, <2>1, <2>6, <3>1, <4>3, <4>4, <4>5, <4>6, <4>7 DEF Written, alive
      <4>8. /\ Append(j.lines, rec) \in Seq(Records)
            /\ \A k \in DOMAIN Append(j.lines, rec) : Append(j.lines, rec)[k].id = proc[p].id
        BY <2>2, <3>1, <4>3, <4>5, AppendKeeps
      <4>9. ASSUME journal' = [j EXCEPT !.lines = Append(@, rec)]
            PROVE  /\ journal'.lines = Append(j.lines, rec) /\ Written(p, rec)
                   /\ journal' \in [lines : Seq(Records), torn : BOOLEAN, gen : Nat]
        BY <2>2, <4>7, <4>8, <4>9
      <4>10. CASE /\ journal' = [j EXCEPT !.lines = Append(@, rec)] /\ set(p, opened(Append(j.lines, rec)))
                  /\ acked' = acked \cup {rec}
        <5>1. JournalStep(p)
          BY <4>9, <4>10 DEF JournalStep
        <5>2. Quiet(p)
          BY <2>4, <4>8, <4>9, <4>10
        <5> QED
          BY <5>1, <5>2
      <4>11. CASE /\ refuse(p) /\ UNCHANGED acked
                  /\ journal' \in {[j EXCEPT !.torn = TRUE], [j EXCEPT !.lines = Append(@, rec)]}
        <5>1. CASE journal' = [j EXCEPT !.torn = TRUE]
          BY <2>2, <2>3, <4>11, <5>1 DEF JournalStep
        <5>2. CASE journal' = [j EXCEPT !.lines = Append(@, rec)]
          <6>1. JournalStep(p)
            BY <4>9, <4>11, <5>2 DEF JournalStep
          <6> QED
            BY <2>3, <4>11, <6>1
        <5> QED
          BY <4>11, <5>1, <5>2
      <4> QED
        BY <1>2, <2>6, <3>3, <4>10, <4>11 DEF OpenJournal, j, rec
    <3> QED
      BY <1>2, <2>6, <3>2, <3>3 DEF OpenJournal, j
  <2> QED
    BY <1>2, <2>5, <2>6 DEF OpenJournal
<1> QED
  BY <1>1, <1>2

(* The types, field by field. *)
LEMMA Fields ==
  ASSUME JournalTypes
  PROVE  /\ journal.lines \in Seq(Records) /\ session \in Files /\ boots \in Nat /\ runs \in Nat
         /\ session.entries \in Nat /\ session.id \in Nat /\ session.gen \in Nat
         /\ \A k \in DOMAIN journal.lines :
              /\ journal.lines[k] \in Records /\ journal.lines[k].revision \in Nat
              /\ journal.lines[k].run \in Nat /\ journal.lines[k].id \in Nat
         /\ \A q \in Procs :
              /\ proc[q] \in Memories /\ proc[q].entries \in Nat /\ proc[q].id \in Nat
              /\ proc[q].active \in Nat /\ proc[q].head \in Files
<1>1. journal.lines \in Seq(Records) /\ session \in Files /\ boots \in Nat /\ runs \in Nat
  BY DEF JournalTypes
<1>2. \A k \in DOMAIN journal.lines : journal.lines[k] \in Records
  BY <1>1
<1>3. \A q \in Procs : proc[q] \in Memories
  BY DEF JournalTypes
<1>4. \A q \in Procs : proc[q].entries \in Nat /\ proc[q].id \in Nat /\ proc[q].active \in Nat /\ proc[q].head \in Files
  BY <1>3 DEF Memories
<1>5. \A rec \in Records : rec.revision \in Nat /\ rec.run \in Nat /\ rec.id \in Nat
  BY DEF Records
<1>6. session.entries \in Nat /\ session.id \in Nat /\ session.gen \in Nat
  BY <1>1 DEF Files
<1> QED
  BY <1>1, <1>2, <1>3, <1>4, <1>5, <1>6

(* What a quiet step makes of the lines: those there were, and at most one *)
(* that p wrote.                                                           *)
LEMMA LinesStep ==
  ASSUME JournalTypes, NEW p \in Procs, JournalStep(p), NEW k \in DOMAIN journal'.lines
  PROVE  \/ k \in DOMAIN journal.lines /\ journal'.lines[k] = journal.lines[k]
         \/ Written(p, journal'.lines[k])
<1>1. journal.lines \in Seq(Records)
  BY DEF JournalTypes
<1> QED
  BY <1>1, AppendKeeps DEF JournalStep, Written

(* A quiet step keeps the journal sound and what it acknowledged. *)
LEMMA QuietSound ==
  ASSUME JournalTypes, JournalInv, NEW p \in Procs, JournalStep(p), Quiet(p)
  PROVE  JournalSound' /\ AcknowledgedKept' /\ AcceptedOwn'
<1>0. journal.lines \in Seq(Records)
  BY DEF JournalTypes
<1>1. AcceptedOwn'
  BY DEF AcceptedOwn, Quiet, JournalInv, up
<1>2. CASE journal'.lines = journal.lines /\ acked' = acked
  BY <1>1, <1>2 DEF JournalInv, JournalSound, AcknowledgedKept
<1>3. ASSUME NEW rec, Written(p, rec), acked' \subseteq acked \cup {rec}
      PROVE  JournalSound' /\ AcknowledgedKept'
  <2>1. Clean(journal'.lines)
    BY <1>0, <1>3, CleanAppend DEF Written, JournalInv, JournalSound
  <2>2. Range(journal.lines) \subseteq Range(journal'.lines) /\ rec \in Range(journal'.lines)
    <3>1. /\ DOMAIN journal.lines = 1..Len(journal.lines) /\ Len(journal.lines) \in Nat
          /\ DOMAIN journal'.lines = 1..(Len(journal.lines) + 1)
          /\ \A k \in DOMAIN journal.lines : journal'.lines[k] = journal.lines[k]
          /\ journal'.lines[Len(journal.lines) + 1] = rec
      BY <1>0, <1>3, AppendKeeps DEF Written
    <3>2. DOMAIN journal.lines \subseteq DOMAIN journal'.lines /\ Len(journal.lines) + 1 \in DOMAIN journal'.lines
      BY <3>1
    <3> QED
      BY <3>1, <3>2 DEF Range
  <2>3. AcknowledgedKept'
    BY <1>3, <2>2 DEF JournalInv, AcknowledgedKept
  <2> QED
    BY <2>1, <2>3 DEF JournalSound
<1> QED
  BY <1>1, <1>2, <1>3 DEF JournalStep

(* A quiet step recovers no run of the lease's live owner. *)
LEMMA QuietRuns ==
  ASSUME JournalTypes, JournalInv, NEW p \in Procs, JournalStep(p), Quiet(p)
  PROVE  RunsCounted' /\ RecoversOnlyDeadRuns'
<1>0. /\ journal.lines \in Seq(Records) /\ runs \in Nat /\ runs' \in Nat /\ runs <= runs'
      /\ \A k \in DOMAIN journal.lines : journal.lines[k] \in Records /\ journal.lines[k].run \in Nat
      /\ \A q \in Procs : proc[q] \in Memories /\ proc[q].active \in Nat
      /\ RunsCounted /\ RecoversOnlyDeadRuns
  BY Fields DEF JournalInv, Quiet
<1>1. ASSUME NEW k \in DOMAIN journal'.lines PROVE journal'.lines[k].run <= runs'
  BY <1>0, LinesStep DEF RunsCounted, Written
<1>2. ASSUME NEW q \in Procs PROVE proc'[q].active <= runs' /\ (~up(q)' => proc'[q].active = None)
  <2>1. CASE q # p
    BY <1>0, <2>1 DEF RunsCounted, Quiet, up
  <2>2. CASE q = p
    BY <1>0, <2>2 DEF RunsCounted, Quiet, None
  <2> QED
    BY <2>1, <2>2
<1>3. ASSUME NEW q \in Procs, NEW k \in DOMAIN journal'.lines, up(q)', lease' = q,
             journal'.lines[k].run = proc'[q].active, proc'[q].active # None,
             journal'.lines[k].event = "run_recovered"
      PROVE  FALSE
  <2>1. lease = q
    BY <1>3, RunJournalAssumption DEF Quiet
  <2>2. CASE q # p
    <3>1. proc'[q] = proc[q] /\ up(q) /\ alive(q)
      BY <1>3, <2>2 DEF Quiet, up, alive
    <3>2. ~leaseAllows(p)
      BY <2>1, <2>2, <3>1 DEF leaseAllows
    <3>3. k \in DOMAIN journal.lines /\ journal'.lines[k] = journal.lines[k]
      BY <1>3, <3>2, LinesStep DEF Written
    <3> QED
      BY <1>0, <1>3, <2>1, <3>1, <3>3 DEF RecoversOnlyDeadRuns
  <2>3. CASE q = p
    <3>1. up(p) => ~Written(p, journal'.lines[k])
      BY <1>3 DEF Written, up
    <3>2. up(p)
      BY <1>0, <1>3, <2>3 DEF Quiet, RunsCounted
    <3>3. k \in DOMAIN journal.lines /\ journal'.lines[k] = journal.lines[k]
      BY <1>3, <3>1, <3>2, LinesStep
    <3>4. proc'[p].active # runs + 1
      BY <1>0, <1>3, <2>3, <3>3 DEF RunsCounted
    <3>5. proc'[p].active = proc[p].active
      BY <1>3, <2>3, <3>4 DEF Quiet
    <3> QED
      BY <1>0, <1>3, <2>1, <2>3, <3>2, <3>3, <3>5 DEF RecoversOnlyDeadRuns
  <2> QED
    BY <2>2, <2>3
<1>4. RunsCounted'
  BY <1>1, <1>2 DEF RunsCounted, None
<1>5. RecoversOnlyDeadRuns'
  BY <1>3 DEF RecoversOnlyDeadRuns, None
<1> QED
  BY <1>4, <1>5

(* A quiet step leaves the sessions to those who have them. *)
LEMMA QuietIds ==
  ASSUME JournalTypes, JournalInv, NEW p \in Procs, JournalStep(p), Quiet(p)
  PROVE  IdsOwned' /\ RevisionsBehind'
<1>0. /\ journal.lines \in Seq(Records) /\ session \in Files /\ boots \in Nat
      /\ \A k \in DOMAIN journal.lines : journal.lines[k] \in Records /\ journal.lines[k].revision \in Nat
      /\ \A q \in Procs : proc[q] \in Memories /\ proc[q].entries \in Nat /\ proc[q].id \in Nat
      /\ session.entries \in Nat /\ session.id \in Nat
      /\ IdsOwned /\ RevisionsBehind
  BY Fields DEF JournalInv
<1>1. \A q \in Procs : alive(q)' =>
        /\ alive(q) /\ proc'[q].id = proc[q].id /\ proc'[q].entries = proc[q].entries
        /\ proc'[q].flushed = proc[q].flushed /\ proc'[q].head = proc[q].head
  BY DEF Quiet, alive
<1>2. UNCHANGED <<session, boots>>
  BY DEF Quiet
<1>3. IdsOwned'
  <2>1. ASSUME NEW k \in DOMAIN journal'.lines PROVE journal'.lines[k].id <= boots
    BY <1>0, LinesStep DEF IdsOwned, Written
  <2>2. ASSUME NEW q \in Procs, alive(q)'
        PROVE  /\ proc'[q].id # None /\ proc'[q].id <= boots
               /\ IF proc'[q].flushed
                  THEN /\ proc'[q].id = session.id /\ proc'[q].head.id = session.id
                       /\ proc'[q].head.entries = proc'[q].entries /\ proc'[q].entries <= session.entries
                  ELSE /\ proc'[q].head = NoFile
                       /\ proc'[q].id = session.id => proc'[q].entries <= session.entries
                       /\ \A r \in Procs : alive(r)' /\ ~proc'[r].flushed /\ proc'[r].id = proc'[q].id => r = q
    BY <1>0, <1>1, <2>2 DEF IdsOwned
  <2>3. session.id <= boots /\ (session.id = None => session = NoFile)
    BY <1>0 DEF IdsOwned
  <2> QED
    BY <1>2, <2>1, <2>2, <2>3 DEF IdsOwned
<1>4. ASSUME NEW k \in DOMAIN journal'.lines, session.id # None, journal'.lines[k].id = session.id
      PROVE  journal'.lines[k].revision <= session.entries
  <2>1. CASE k \in DOMAIN journal.lines /\ journal'.lines[k] = journal.lines[k]
    BY <1>0, <1>4, <2>1 DEF RevisionsBehind
  <2>2. CASE Written(p, journal'.lines[k])
    <3> DEFINE rec == journal'.lines[k]
    <3>1. rec.id = proc[p].id /\ alive(p) /\ \A i \in DOMAIN journal.lines : journal.lines[i].id = rec.id
      BY <2>2 DEF Written
    <3>2. proc[p].entries <= session.entries
      BY <1>0, <1>4, <3>1 DEF IdsOwned
    <3>3. CASE rec.revision = proc[p].entries
      BY <3>2, <3>3
    <3>4. CASE journal.lines # <<>> /\ rec.revision = lastRevision(journal.lines)
      <4>1. /\ Len(journal.lines) \in DOMAIN journal.lines
            /\ rec.revision = journal.lines[Len(journal.lines)].revision
        BY <1>0, <3>4, SealTypes DEF Events
      <4> QED
        BY <1>0, <1>4, <3>1, <4>1 DEF RevisionsBehind
    <3> QED
      BY <2>2, <3>3, <3>4 DEF Written
  <2> QED
    BY <2>1, <2>2, LinesStep
<1>5. ASSUME NEW k \in DOMAIN journal'.lines, NEW q \in Procs, session.id = None, alive(q)',
             journal'.lines[k].id = proc'[q].id
      PROVE  journal'.lines[k].revision <= proc'[q].entries
  <2>0. alive(q) /\ proc'[q].id = proc[q].id /\ proc'[q].entries = proc[q].entries
    BY <1>1, <1>5
  <2>1. CASE k \in DOMAIN journal.lines /\ journal'.lines[k] = journal.lines[k]
    BY <1>0, <1>5, <2>0, <2>1 DEF RevisionsBehind
  <2>2. CASE Written(p, journal'.lines[k])
    <3> DEFINE rec == journal'.lines[k]
    <3>1. rec.id = proc[p].id /\ alive(p) /\ \A i \in DOMAIN journal.lines : journal.lines[i].id = rec.id
      BY <2>2 DEF Written
    <3>2. ~proc[p].flushed /\ ~proc[q].flushed
      BY <1>0, <1>5, <2>0, <3>1 DEF IdsOwned
    <3>3. p = q
      BY <1>0, <1>5, <2>0, <3>1, <3>2 DEF IdsOwned
    <3>4. CASE rec.revision = proc[p].entries
      BY <1>0, <2>0, <3>3, <3>4
    <3>5. CASE journal.lines # <<>> /\ rec.revision = lastRevision(journal.lines)
      <4>1. /\ Len(journal.lines) \in DOMAIN journal.lines
            /\ rec.revision = journal.lines[Len(journal.lines)].revision
        BY <1>0, <3>5, SealTypes DEF Events
      <4> QED
        BY <1>0, <1>5, <2>0, <3>1, <3>3, <4>1 DEF RevisionsBehind
    <3> QED
      BY <2>2, <3>4, <3>5 DEF Written
  <2> QED
    BY <2>1, <2>2, LinesStep
<1>6. RevisionsBehind'
  BY <1>2, <1>4, <1>5 DEF RevisionsBehind
<1> QED
  BY <1>3, <1>6

(* With leases for all, a quiet step writes to the journal of the session. *)
LEMMA QuietOne ==
  ASSUME JournalTypes, JournalInv, NEW p \in Procs, JournalStep(p), Quiet(p)
  PROVE  OneSession'
<1> SUFFICES ASSUME leasing' = Procs
             PROVE  /\ \A q \in Procs : alive(q)' => lease' = q /\ (session'.id # None => proc'[q].id = session'.id)
                    /\ \A q \in Procs : up(q)' /\ journal'.lines # <<>> => journal'.lines[1].id = proc'[q].id
                    /\ SameSession'
  BY DEF OneSession
<1>0. /\ journal.lines \in Seq(Records) /\ leasing = Procs /\ UNCHANGED session
      /\ \A q \in Procs : alive(q) => lease = q /\ (session.id # None => proc[q].id = session.id)
      /\ \A q \in Procs : up(q) /\ journal.lines # <<>> => journal.lines[1].id = proc[q].id
      /\ SameSession
  BY DEF JournalTypes, JournalInv, OneSession, Quiet
<1>1. \A q \in Procs : alive(q)' => alive(q) /\ proc'[q].id = proc[q].id /\ lease' = lease
  BY <1>0 DEF Quiet, alive
<1>2. \A q \in Procs : alive(q)' => lease' = q /\ (session'.id # None => proc'[q].id = session'.id)
  BY <1>0, <1>1
<1>3. \/ journal'.lines = journal.lines
      \/ /\ alive(p) /\ journal'.lines # <<>> /\ journal'.lines[1].id = proc[p].id
         /\ journal.lines # <<>> => journal'.lines[1] = journal.lines[1]
  <2>1. ASSUME NEW rec, Written(p, rec)
        PROVE  /\ alive(p) /\ journal'.lines # <<>> /\ journal'.lines[1].id = proc[p].id
               /\ journal.lines # <<>> => journal'.lines[1] = journal.lines[1]
    <3>1. /\ rec \in Records /\ journal'.lines = Append(journal.lines, rec) /\ alive(p) /\ rec.id = proc[p].id
          /\ \A k \in DOMAIN journal.lines : journal.lines[k].id = rec.id
      BY <2>1 DEF Written
    <3>2. journal.lines # <<>> => 1 \in DOMAIN journal.lines
      BY <1>0, EmptySeq
    <3>3. journal.lines = <<>> => Len(journal.lines) = 0
      OBVIOUS
    <3>4. journal.lines = <<>> => journal'.lines[1] = rec
      BY <1>0, <3>1, <3>3, AppendKeeps
    <3> QED
      BY <1>0, <3>1, <3>2, <3>4, AppendKeeps
  <2> QED
    BY <2>1 DEF JournalStep
<1>4. ASSUME NEW q \in Procs, up(q)', journal'.lines # <<>> PROVE journal'.lines[1].id = proc'[q].id
  <2>1. alive(q)' /\ alive(q) /\ proc'[q].id = proc[q].id
    BY <1>1, <1>4 DEF up, alive
  <2>2. CASE q = p /\ ~up(p)
    <3>1. 1 \in DOMAIN journal'.lines
      BY <1>4, EmptySeq DEF JournalStep
    <3> QED
      BY <1>4, <2>2, <3>1 DEF Quiet
  <2>3. CASE up(q)
    <3>1. alive(p) => p = q
      BY <1>0, <2>1
    <3> QED
      BY <1>0, <1>3, <1>4, <2>1, <2>3, <3>1
  <2> QED
    BY <1>4, <2>2, <2>3 DEF Quiet, up
<1>5. SameSession'
  BY <1>0, <1>3 DEF SameSession
<1> QED
  BY <1>2, <1>4, <1>5

(* A process that opens the session takes it from the file, or makes one   *)
(* with an id that nobody has.                                             *)
LEMMA BootStep ==
  ASSUME JournalTypes, JournalInv, NEW p \in Procs, Boot(p)
  PROVE  JournalTypes' /\ JournalInv'
<1>0. /\ ~alive(p) /\ boots' = boots + 1 /\ UNCHANGED <<journal, leasing, runs, acked>>
      /\ p \in leasing => leaseAllows(p)
      /\ lease' = IF p \in leasing THEN p ELSE lease
  BY DEF Boot
<1>1. /\ session' \in Files /\ session'.id = session.id /\ session'.entries = session.entries
      /\ session.id = None => session' = session
  <2>1. session.id # None => session' = session \/ session' = [session EXCEPT !.torn = FALSE, !.gen = session.gen + 1]
    BY DEF Boot
  <2>2. session.id = None => session' = session
    BY DEF Boot
  <2>3. session \in Files /\ session.gen + 1 \in Nat
    BY Fields
  <2>4. /\ [session EXCEPT !.torn = FALSE, !.gen = session.gen + 1] \in Files
        /\ [session EXCEPT !.torn = FALSE, !.gen = session.gen + 1].id = session.id
        /\ [session EXCEPT !.torn = FALSE, !.gen = session.gen + 1].entries = session.entries
    BY <2>3 DEF Files
  <2> QED
    BY <2>1, <2>2, <2>3, <2>4
<1>2. PICK r \in Memories :
        /\ set(p, r) /\ r.status = "opening" /\ r.active = None
        /\ IF session.id = None
           THEN r.id = boots + 1 /\ r.entries = 0 /\ ~r.flushed /\ r.head = NoFile
           ELSE r.id = session.id /\ r.entries = session.entries /\ r.flushed /\ r.head = session'
  <2>0. <<>> \in Seq(Records) /\ boots + 1 \in Nat
    BY Fields
  <2>1. CASE session.id = None
    <3> DEFINE m == [Down EXCEPT !.status = "opening", !.id = boots + 1]
    <3>1. m \in Memories /\ m.status = "opening" /\ m.active = None /\ m.id = boots + 1
          /\ m.entries = 0 /\ ~m.flushed /\ m.head = NoFile
      BY <2>0 DEF Memories, Down, NoFile, Files, None
    <3>2. set(p, m)
      BY <2>1 DEF Boot
    <3> QED
      BY <2>1, <3>1, <3>2
  <2>2. CASE session.id # None
    <3> DEFINE m == [Down EXCEPT !.status = "opening", !.id = session.id, !.entries = session.entries,
                                 !.flushed = TRUE, !.head = session']
    <3>1. m \in Memories /\ m.status = "opening" /\ m.active = None /\ m.id = session.id
          /\ m.entries = session.entries /\ m.flushed /\ m.head = session'
      BY <1>1, <2>0, Fields DEF Memories, Down, None
    <3>2. set(p, m)
      BY <2>2 DEF Boot
    <3> QED
      BY <2>2, <3>1, <3>2
  <2> QED
    BY <2>1, <2>2
<1>3. proc' \in [Procs -> Memories] /\ proc'[p] = r /\ \A q \in Procs : q # p => proc'[q] = proc[q]
  BY <1>2 DEF set, JournalTypes
<1>4. JournalTypes'
  BY <1>0, <1>1, <1>3, Fields DEF JournalTypes
<1>5. ~up(p)' /\ alive(p)' /\ \A q \in Procs : q # p => (up(q)' <=> up(q)) /\ (alive(q)' <=> alive(q))
  BY <1>2, <1>3 DEF up, alive
<1>6. JournalSound' /\ AcknowledgedKept'
  BY <1>0 DEF JournalInv, JournalSound, AcknowledgedKept
<1>7. AcceptedOwn'
  BY <1>3, <1>5 DEF JournalInv, AcceptedOwn
<1>8. RunsCounted'
  BY <1>0, <1>2, <1>3, <1>5, Fields DEF JournalInv, RunsCounted, None
<1>9. RecoversOnlyDeadRuns'
  BY <1>0, <1>3, <1>5 DEF JournalInv, RecoversOnlyDeadRuns
<1>10. IdsOwned /\ RevisionsBehind /\ OneSession
  BY DEF JournalInv
<1>11. IdsOwned'
  <2>1. session'.id <= boots' /\ (session'.id = None => session' = NoFile)
    BY <1>0, <1>1, <1>10, Fields DEF IdsOwned
  <2>2. \A k \in DOMAIN journal'.lines : journal'.lines[k].id <= boots'
    BY <1>0, <1>10, Fields DEF IdsOwned
  <2>3. \A q \in Procs : alive(q) => proc[q].id <= boots /\ proc[q].id # boots + 1
    BY <1>10, Fields DEF IdsOwned
  <2>4. r.id # None /\ r.id <= boots'
    BY <1>0, <1>2, <1>10, Fields DEF IdsOwned, None
  <2>5. r.flushed => /\ r.id = session'.id /\ r.head.id = session'.id
                     /\ r.head.entries = r.entries /\ r.entries <= session'.entries
    BY <1>1, <1>2, Fields
  <2>6. ~r.flushed => r.head = NoFile /\ r.id # session'.id /\ r.id = boots + 1
    BY <1>1, <1>2, <1>10, Fields DEF IdsOwned
  <2>7. ASSUME NEW q \in Procs, q # p, alive(q)
        PROVE  /\ proc[q].id # None /\ proc[q].id <= boots'
               /\ IF proc[q].flushed
                  THEN /\ proc[q].id = session'.id /\ proc[q].head.id = session'.id
                       /\ proc[q].head.entries = proc[q].entries /\ proc[q].entries <= session'.entries
                  ELSE /\ proc[q].head = NoFile
                       /\ proc[q].id = session'.id => proc[q].entries <= session'.entries
                       /\ \A o \in Procs : alive(o) /\ ~proc[o].flushed /\ proc[o].id = proc[q].id => o = q
    BY <1>0, <1>1, <1>10, <2>7, Fields DEF IdsOwned
  <2> QED
    BY <1>3, <1>5, <2>1, <2>2, <2>3, <2>4, <2>5, <2>6, <2>7 DEF IdsOwned
<1>12. RevisionsBehind'
  <2>1. ASSUME NEW k \in DOMAIN journal.lines, session'.id # None, journal.lines[k].id = session'.id
        PROVE  journal.lines[k].revision <= session'.entries
    BY <1>1, <1>10, <2>1 DEF RevisionsBehind
  <2>2. ASSUME NEW k \in DOMAIN journal.lines, NEW q \in Procs, session'.id = None, alive(q)',
               journal.lines[k].id = proc'[q].id
        PROVE  journal.lines[k].revision <= proc'[q].entries
    <3>1. q # p
      BY <1>1, <1>2, <1>3, <1>10, <2>2, Fields DEF IdsOwned
    <3> QED
      BY <1>1, <1>3, <1>5, <1>10, <2>2, <3>1 DEF RevisionsBehind
  <2> QED
    BY <1>0, <2>1, <2>2 DEF RevisionsBehind
<1>13. OneSession'
  <2> SUFFICES ASSUME leasing' = Procs
               PROVE  /\ \A q \in Procs : alive(q)' => lease' = q /\ (session'.id # None => proc'[q].id = session'.id)
                      /\ \A q \in Procs : up(q)' /\ journal'.lines # <<>> => journal'.lines[1].id = proc'[q].id
                      /\ SameSession'
    BY DEF OneSession
  <2>1. \A q \in Procs : q # p => ~alive(q)
    BY <1>0, <1>10 DEF OneSession, leaseAllows
  <2>2. \A q \in Procs : alive(q)' => q = p
    BY <1>5, <2>1
  <2>3. \A q \in Procs : ~up(q)'
    BY <1>5, <2>1 DEF up, alive
  <2>4. lease' = p /\ (session'.id # None => proc'[p].id = session'.id)
    BY <1>0, <1>1, <1>2, <1>3
  <2>5. SameSession'
    BY <1>0, <1>1, <1>10 DEF OneSession, SameSession
  <2> QED
    BY <2>2, <2>3, <2>4, <2>5
<1> QED
  BY <1>4, <1>6, <1>7, <1>8, <1>9, <1>11, <1>12, <1>13 DEF JournalInv

(* An entry goes into the session file that the process has, or stays in   *)
(* the memory that made the session.                                       *)
LEMMA AppendStep ==
  ASSUME JournalTypes, JournalInv, NEW p \in Procs, NEW assistant \in BOOLEAN, AppendEntry(p, assistant)
  PROVE  JournalTypes' /\ JournalInv'
<1> DEFINE n == proc[p].entries + 1
           next == [id |-> proc[p].id, entries |-> n, torn |-> FALSE, gen |-> session.gen]
<1>0. /\ up(p) /\ alive(p) /\ session = proc[p].head /\ UNCHANGED <<journal, lease, leasing, boots, runs, acked>>
      /\ IdsOwned /\ RevisionsBehind /\ OneSession
  BY DEF AppendEntry, JournalInv, up, alive
<1>1. n \in Nat /\ next \in Files /\ next.id = proc[p].id /\ next.entries = n /\ proc[p].entries <= n
  BY Fields DEF Files
<1>2. /\ proc[p].flushed => session.id = proc[p].id /\ session.entries = proc[p].entries
      /\ ~proc[p].flushed => session = NoFile /\ session.id = None /\ proc[p].id # session.id
      /\ proc[p].id # None /\ proc[p].id <= boots
  BY <1>0 DEF IdsOwned, NoFile
<1> DEFINE Wrote == session' = next
           Left == /\ session' \in Files /\ session'.id = session.id /\ session'.entries = session.entries
                   /\ session.id = None => session' = session
           Took(f) == /\ proc' \in [Procs -> Memories] /\ \A q \in Procs : q # p => proc'[q] = proc[q]
                      /\ proc'[p].status = "up" /\ proc'[p].id = proc[p].id /\ proc'[p].entries = n
                      /\ proc'[p].active = proc[p].active /\ proc'[p].accepted = proc[p].accepted
                      /\ IF f THEN proc'[p].flushed /\ proc'[p].head = next
                         ELSE proc'[p].flushed = proc[p].flushed /\ proc'[p].head = proc[p].head
<1>3. \/ Wrote /\ Took(TRUE)
      \/ (Wrote \/ Left) /\ UNCHANGED proc
      \/ ~proc[p].flushed /\ UNCHANGED session /\ Took(FALSE)
  <2>0. proc[p] \in Memories /\ proc[p].status = "up" /\ session \in Files
    BY <1>0, Fields DEF up
  <2>1. CASE session' = next /\ set(p, [proc[p] EXCEPT !.entries = n, !.flushed = TRUE, !.head = next])
    <3> HIDE DEF n, next
    <3>1. [proc[p] EXCEPT !.entries = n, !.flushed = TRUE, !.head = next] \in Memories
      BY <1>1, <2>0 DEF Memories
    <3>2. /\ proc' \in [Procs -> Memories] /\ \A q \in Procs : q # p => proc'[q] = proc[q]
          /\ proc'[p] = [proc[p] EXCEPT !.entries = n, !.flushed = TRUE, !.head = next]
      BY <2>1, <3>1 DEF set, JournalTypes
    <3> QED
      BY <2>0, <2>1, <3>2 DEF Memories
  <2>2. CASE UNCHANGED proc /\ session' \in {[session EXCEPT !.torn = proc[p].flushed], next}
    <3>1. CASE session' = [session EXCEPT !.torn = proc[p].flushed]
      <4>1. proc[p].flushed \in BOOLEAN
        BY <2>0 DEF Memories
      <4>2. session' \in Files /\ session'.id = session.id /\ session'.entries = session.entries
        BY <2>0, <3>1, <4>1 DEF Files
      <4>3. session.id = None => session' = session
        <5> SUFFICES ASSUME session.id = None PROVE session' = session
          OBVIOUS
        <5>1. session = NoFile /\ ~proc[p].flushed
          BY <1>0, <1>2 DEF IdsOwned
        <5>2. proc[p].flushed = FALSE
          BY <4>1, <5>1
        <5>3. session' = [session EXCEPT !.torn = FALSE]
          BY <3>1, <5>2
        <5>4. session.torn = FALSE
          BY <5>1 DEF NoFile
        <5> QED
          BY <2>0, <5>3, <5>4 DEF Files
      <4> QED
        BY <2>2, <4>2, <4>3
    <3> QED
      BY <2>2, <3>1
  <2>3. CASE ~proc[p].flushed /\ set(p, [proc[p] EXCEPT !.entries = n]) /\ UNCHANGED session
    <3> HIDE DEF n, next
    <3>1. [proc[p] EXCEPT !.entries = n] \in Memories
      BY <1>1, <2>0 DEF Memories
    <3>2. /\ proc' \in [Procs -> Memories] /\ \A q \in Procs : q # p => proc'[q] = proc[q]
          /\ proc'[p] = [proc[p] EXCEPT !.entries = n]
      BY <2>3, <3>1 DEF set, JournalTypes
    <3> QED
      BY <2>0, <2>3, <3>2 DEF Memories
  <2> QED
    BY <2>1, <2>2, <2>3 DEF AppendEntry
<1> HIDE DEF n, next
<1>4. JournalTypes'
  BY <1>0, <1>1, <1>3, Fields DEF JournalTypes
<1>5. \A q \in Procs : /\ up(q)' <=> up(q)
                       /\ alive(q)' <=> alive(q)
                       /\ proc'[q].id = proc[q].id /\ proc'[q].active = proc[q].active
                       /\ proc'[q].accepted = proc[q].accepted /\ (q # p => proc'[q] = proc[q])
  BY <1>0, <1>3 DEF up, alive
<1>6. JournalSound' /\ AcknowledgedKept' /\ AcceptedOwn' /\ RunsCounted' /\ RecoversOnlyDeadRuns'
  <2>1. JournalSound' /\ AcknowledgedKept'
    BY <1>0 DEF JournalInv, JournalSound, AcknowledgedKept
  <2>2. AcceptedOwn'
    BY <1>5 DEF JournalInv, AcceptedOwn
  <2>3. RunsCounted'
    BY <1>0, <1>5 DEF JournalInv, RunsCounted
  <2>4. RecoversOnlyDeadRuns'
    BY <1>0, <1>5 DEF JournalInv, RecoversOnlyDeadRuns
  <2> QED
    BY <2>1, <2>2, <2>3, <2>4
<1>7. /\ session'.id \in {session.id, proc[p].id} /\ session.entries <= session'.entries
      /\ Wrote => session'.id = proc[p].id /\ session'.entries = n
      /\ ~Wrote => session'.id = session.id /\ session'.entries = session.entries
      /\ session.id # None => session'.id = session.id
  BY <1>0, <1>1, <1>2, <1>3, Fields DEF IdsOwned, NoFile
<1>8. IdsOwned'
  <2>1. session'.id <= boots /\ (session'.id = None => session' = NoFile)
    BY <1>0, <1>1, <1>2, <1>3 DEF IdsOwned
  <2>2. \A k \in DOMAIN journal.lines : journal.lines[k].id <= boots
    BY <1>0 DEF IdsOwned
  <2>3. ASSUME NEW q \in Procs, alive(q), q # p
        PROVE  /\ proc[q].id # None /\ proc[q].id <= boots
               /\ proc[q].flushed => /\ proc[q].id = session'.id /\ proc[q].head.id = session'.id
                                     /\ proc[q].head.entries = proc[q].entries
                                     /\ proc[q].entries <= session'.entries
               /\ ~proc[q].flushed => /\ proc[q].head = NoFile
                                      /\ proc[q].id = session'.id => proc[q].entries <= session'.entries
    <3>1. proc[q].id # None /\ proc[q].id <= boots /\ (~proc[q].flushed => proc[q].head = NoFile)
      BY <1>0, <2>3 DEF IdsOwned
    <3>2. CASE proc[q].flushed
      <4>1. /\ proc[q].id = session.id /\ proc[q].head.id = session.id
            /\ proc[q].head.entries = proc[q].entries /\ proc[q].entries <= session.entries
        BY <1>0, <2>3, <3>2 DEF IdsOwned
      <4>2. session'.entries \in Nat
        BY <1>1, <1>4, <1>7, Fields
      <4> QED
        BY <1>7, <3>1, <3>2, <4>1, <4>2, Fields
    <3>3. CASE ~proc[q].flushed /\ proc[q].id = session'.id
      <4>1. session.id = None => ~proc[p].flushed
        BY <1>2
      <4>2. session.id # None
        BY <1>0, <1>7, <2>3, <3>1, <3>3, <4>1 DEF IdsOwned
      <4>3. proc[q].entries <= session.entries
        BY <1>0, <1>7, <2>3, <3>3, <4>2 DEF IdsOwned
      <4>4. session'.entries \in Nat
        BY <1>1, <1>4, <1>7, Fields
      <4> QED
        BY <1>7, <3>1, <3>3, <4>3, <4>4, Fields
    <3> QED
      BY <3>1, <3>2, <3>3
  <2>4. ASSUME NEW q \in Procs, NEW o \in Procs, alive(q)', alive(o)', ~proc'[q].flushed, ~proc'[o].flushed,
               proc'[o].id = proc'[q].id
        PROVE  o = q
    <3>1. \A x \in Procs : ~proc'[x].flushed => ~proc[x].flushed
      BY <1>3
    <3> QED
      BY <1>0, <1>5, <2>4, <3>1 DEF IdsOwned
  <2>5. proc'[p].flushed => /\ proc'[p].id = session'.id /\ proc'[p].head.id = session'.id
                            /\ proc'[p].head.entries = proc'[p].entries /\ proc'[p].entries <= session'.entries
    <3>1. CASE Wrote /\ Took(TRUE)
      BY <1>1, <3>1
    <3>2. CASE UNCHANGED proc /\ (Wrote \/ Left)
      BY <1>0, <1>1, <1>2, <1>7, <3>2, Fields
    <3> QED
      BY <1>3, <3>1, <3>2
  <2>6. ~proc'[p].flushed => /\ proc'[p].head = NoFile
                             /\ proc'[p].id = session'.id => proc'[p].entries <= session'.entries
    <3>1. CASE UNCHANGED proc /\ (Wrote \/ Left)
      BY <1>0, <1>1, <1>2, <1>7, <3>1, Fields
    <3>2. CASE ~proc[p].flushed /\ UNCHANGED session /\ Took(FALSE)
      BY <1>0, <1>2, <3>2
    <3> QED
      BY <1>3, <3>1, <3>2
  <2> QED
    BY <1>0, <1>2, <1>5, <2>1, <2>2, <2>3, <2>4, <2>5, <2>6 DEF IdsOwned
<1>9. RevisionsBehind'
  <2>1. ASSUME NEW k \in DOMAIN journal.lines, session'.id # None, journal.lines[k].id = session'.id
        PROVE  journal.lines[k].revision <= session'.entries
    <3>1. CASE session.id # None
      <4>1. journal.lines[k].revision <= session.entries /\ session'.entries \in Nat
        BY <1>0, <1>1, <1>7, <2>1, <3>1, Fields DEF RevisionsBehind
      <4> QED
        BY <1>7, <4>1, Fields
    <3>2. CASE session.id = None
      <4>1. Wrote /\ journal.lines[k].id = proc[p].id
        BY <1>7, <2>1, <3>2
      <4>2. journal.lines[k].revision <= proc[p].entries
        BY <1>0, <3>2, <4>1 DEF RevisionsBehind
      <4> QED
        BY <1>1, <1>7, <4>1, <4>2, Fields
    <3> QED
      BY <3>1, <3>2
  <2>2. ASSUME NEW k \in DOMAIN journal.lines, NEW q \in Procs, session'.id = None, alive(q),
               journal.lines[k].id = proc[q].id
        PROVE  journal.lines[k].revision <= proc'[q].entries
    <3>1. session.id = None
      BY <1>7, <2>2
    <3>2. journal.lines[k].revision <= proc[q].entries
      BY <1>0, <2>2, <3>1 DEF RevisionsBehind
    <3>3. proc[q].entries <= proc'[q].entries /\ proc'[q].entries \in Nat
      BY <1>1, <1>3, <1>5, Fields
    <3> QED
      BY <3>2, <3>3, Fields
  <2> QED
    BY <1>0, <1>5, <2>1, <2>2 DEF RevisionsBehind
<1>10. OneSession'
  <2> SUFFICES ASSUME leasing = Procs
               PROVE  /\ \A q \in Procs : alive(q) => lease = q /\ (session'.id # None => proc[q].id = session'.id)
                      /\ \A q \in Procs : up(q) /\ journal.lines # <<>> => journal.lines[1].id = proc[q].id
                      /\ SameSession'
    BY <1>0, <1>5 DEF OneSession
  <2>1. \A q \in Procs : alive(q) => q = p
    BY <1>0 DEF OneSession
  <2>2. session'.id # None => proc[p].id = session'.id
    BY <1>0, <1>7 DEF OneSession
  <2>3. journal.lines # <<>> => journal.lines[1].id = proc[p].id
    BY <1>0 DEF OneSession
  <2>4. SameSession'
    BY <1>0, <2>2, <2>3 DEF SameSession
  <2> QED
    BY <1>0, <2>1, <2>2, <2>4 DEF OneSession
<1> QED
  BY <1>4, <1>6, <1>8, <1>9, <1>10 DEF JournalInv

(* Initially nothing is written and nobody runs. *)
LEMMA JournalInit == Init => JournalTypes /\ JournalInv
<1> SUFFICES ASSUME Init PROVE JournalTypes /\ JournalInv
  OBVIOUS
<1>1. /\ session = NoFile /\ journal = [lines |-> <<>>, torn |-> FALSE, gen |-> 0]
      /\ proc = [p \in Procs |-> Down] /\ lease = "nobody" /\ leasing \in SUBSET Procs
      /\ boots = 0 /\ runs = 0 /\ acked = {}
  BY DEF Init
<1>2. Down \in Memories /\ NoFile \in Files /\ <<>> \in Seq(Records)
  <2>1. <<>> \in Seq(Records)
    OBVIOUS
  <2> QED
    BY <2>1 DEF Memories, Down, NoFile, Files, None
<1>3. journal.lines = <<>> /\ DOMAIN journal.lines = {}
  BY <1>1
<1>4. \A p \in Procs : ~up(p) /\ ~alive(p) /\ proc[p].active = None
  BY <1>1 DEF up, alive, Down
<1>5. JournalTypes
  BY <1>1, <1>2 DEF JournalTypes
<1>6. JournalSound /\ AcknowledgedKept /\ AcceptedOwn
  BY <1>1, <1>3, <1>4 DEF JournalSound, Clean, AcknowledgedKept, AcceptedOwn
<1>7. RunsCounted /\ RecoversOnlyDeadRuns
  BY <1>1, <1>3, <1>4 DEF RunsCounted, RecoversOnlyDeadRuns, None
<1>8. IdsOwned /\ RevisionsBehind
  BY <1>1, <1>3, <1>4 DEF IdsOwned, RevisionsBehind, NoFile, None
<1>9. OneSession
  BY <1>3, <1>4 DEF OneSession, SameSession
<1> QED
  BY <1>5, <1>6, <1>7, <1>8, <1>9 DEF JournalInv

(* No operation, failure or death breaks what the journal relies on. *)
LEMMA JournalNext == JournalTypes /\ JournalInv /\ [Next]_vars => JournalTypes' /\ JournalInv'
<1> SUFFICES ASSUME JournalTypes, JournalInv, [Next]_vars PROVE JournalTypes' /\ JournalInv'
  OBVIOUS
<1>1. CASE UNCHANGED vars
  BY <1>1 DEF vars, JournalTypes, JournalInv, JournalSound, AcknowledgedKept, AcceptedOwn, RunsCounted,
              RecoversOnlyDeadRuns, IdsOwned, RevisionsBehind, OneSession, SameSession, up, alive
<1>2. ASSUME NEW p \in Procs, JournalStep(p), Quiet(p) PROVE JournalTypes' /\ JournalInv'
  <2>1. JournalTypes'
    BY <1>2, Fields DEF JournalTypes, JournalStep, Quiet
  <2> QED
    BY <1>2, <2>1, QuietSound, QuietRuns, QuietIds, QuietOne DEF JournalInv
<1>3. ASSUME NEW p \in Procs,
             OpenJournal(p) \/ AgentStart(p) \/ AgentEnd(p) \/ RuntimeFailure(p) \/ Audit(p) \/ Signal(p)
               \/ Exit(p) \/ Crash(p)
      PROVE  JournalTypes' /\ JournalInv'
  BY <1>2, <1>3, RunStep, OpenStep
<1> QED
  BY <1>1, <1>3, BootStep, AppendStep DEF Next

(* The types and the invariant hold in every reachable state. *)
LEMMA JournalInvariant == Spec => [](JournalTypes /\ JournalInv)
BY JournalInit, JournalNext, PTL DEF Spec

(* Whatever fails, dies or runs at the same time, the journal stays one    *)
(* that every later start accepts.                                         *)
THEOREM JournalStaysSound == Spec => []JournalSound
<1>1. JournalInv => JournalSound
  BY DEF JournalInv
<1> QED
  BY <1>1, JournalInvariant, PTL

(* A record that commit() or open() reported is in the journal for good. *)
THEOREM JournalKeepsAcknowledged == Spec => []AcknowledgedKept
<1>1. JournalInv => AcknowledgedKept
  BY DEF JournalInv
<1> QED
  BY <1>1, JournalInvariant, PTL

(* No run of a live lease owner is declared crashed by another start. *)
THEOREM JournalRecoversOnlyDeadRuns == Spec => []RecoversOnlyDeadRuns
<1>1. JournalInv => RecoversOnlyDeadRuns
  BY DEF JournalInv
<1> QED
  BY <1>1, JournalInvariant, PTL

(* The journal never refuses a store whose journal and session are current *)
(* because of the session's revision.                                      *)
THEOREM JournalRevisionNeverBlocks == Spec => []RevisionNeverBlocks
<1>1. JournalTypes /\ JournalInv => RevisionNeverBlocks
  <2> SUFFICES ASSUME JournalTypes, JournalInv, NEW p \in Procs, up(p), current(p), session = proc[p].head
               PROVE  proc[p].entries >= lastRevision(journal.lines)
    BY DEF RevisionNeverBlocks
  <2>0. alive(p) /\ IdsOwned /\ RevisionsBehind /\ journal.lines = proc[p].accepted
    BY DEF JournalInv, up, alive, current
  <2>1. CASE journal.lines = <<>>
    BY <2>1, Fields DEF lastRevision
  <2>2. CASE journal.lines # <<>>
    <3> DEFINE k == Len(journal.lines)
    <3>1. k \in DOMAIN journal.lines /\ lastRevision(journal.lines) = journal.lines[k].revision
      BY <2>2, SealTypes, Fields DEF Events
    <3>2. journal.lines[k].id = proc[p].id
      BY <2>0, <3>1 DEF JournalInv, AcceptedOwn
    <3> HIDE DEF k
    <3>3. CASE proc[p].flushed
      <4>1. /\ session.id = proc[p].id /\ session.id # None /\ session.entries = proc[p].entries
        BY <2>0, <3>3 DEF IdsOwned
      <4> QED
        BY <2>0, <3>1, <3>2, <4>1, Fields DEF RevisionsBehind
    <3>4. CASE ~proc[p].flushed
      <4>1. session.id = None
        BY <2>0, <3>4 DEF IdsOwned, NoFile
      <4> QED
        BY <2>0, <3>1, <3>2, <4>1, Fields DEF RevisionsBehind
    <3> QED
      BY <3>3, <3>4
  <2> QED
    BY <2>1, <2>2
<1> QED
  BY <1>1, JournalInvariant, PTL

(* If every process takes the owner lease, session file and journal name   *)
(* the same session.                                                       *)
THEOREM JournalNamesSession == Spec => []SameSession
<1>1. JournalInv => SameSession
  BY DEF JournalInv, OneSession, SameSession
<1> QED
  BY <1>1, JournalInvariant, PTL
=============================================================================
