------------------------------ MODULE RunJournal ------------------------------
(***************************************************************************)
(* The run journal of a session and the session file beside it             *)
(* (packages/coding-agent/src/core/run-journal.ts, run-journal-store.ts,   *)
(* session-manager.ts, session-file-persistence.ts, session-owner-lease.ts *)
(* and the run lifecycle of agent-session.ts).  Processes open the same    *)
(* session path, one after the other or at the same time.                  *)
(*                                                                         *)
(* Every operation on a file is done under the file's mutation lock, so an *)
(* operation is a step; it may fail half way, and its process may die.     *)
(* A record's hash is the record with its sequence number and the          *)
(* predecessor it was sealed on; what messages say is left out, so the     *)
(* session is the number of its entries.                                   *)
(***************************************************************************)
EXTENDS Naturals, Sequences, FiniteSets, SequencesExt

CONSTANTS Procs,      \* the processes that open the session
          MaxBoots,   \* bound: process starts
          MaxRuns,    \* bound: runs
          MaxEntries, \* bound: session entries
          MaxAudits,  \* bound: audit records
          MaxFaults   \* bound: writes that fail

ASSUME RunJournalAssumption ==
  /\ MaxBoots \in Nat /\ MaxRuns \in Nat /\ MaxEntries \in Nat /\ MaxAudits \in Nat /\ MaxFaults \in Nat
  /\ "nobody" \notin Procs

None == 0
NoFile == [id |-> None, entries |-> 0, torn |-> FALSE, gen |-> 0]

VARIABLES
  session,  \* the session file: id, complete entries, torn tail, generation
  journal,  \* the journal: its complete lines, torn tail, generation
  proc,     \* proc[p]: what process p holds in memory
  lease,    \* the process with the session owner lease, or "nobody"
  leasing,  \* the processes that take the lease when they open the session
  boots,    \* process starts so far; also the last session id that was made
  runs,     \* runs so far
  faults,   \* failed writes so far
  acked     \* history: the records a store reported as committed

vars == <<session, journal, proc, lease, leasing, boots, runs, faults, acked>>

Down == [status |-> "down", id |-> None, entries |-> 0, flushed |-> FALSE, head |-> NoFile,
         accepted |-> <<>>, gen |-> 0, active |-> None]

Init ==
  /\ session = NoFile /\ journal = [lines |-> <<>>, torn |-> FALSE, gen |-> 0]
  /\ proc = [p \in Procs |-> Down] /\ lease = "nobody" /\ leasing \in SUBSET Procs
  /\ boots = 0 /\ runs = 0 /\ faults = 0 /\ acked = {}

up(p) == proc[p].status = "up"
set(p, r) == proc' = [proc EXCEPT ![p] = r]
alive(p) == proc[p].status # "down"

(***************************************************************************)
(* RunJournal: records and what inspectRunJournal says of them             *)
(***************************************************************************)
Terminals == {"run_finished", "run_recovered"}
(* Audit records neither open nor close a run. *)
unclosed(lines) ==
  { k \in DOMAIN lines : lines[k].event = "run_started"
                         /\ \A j \in DOMAIN lines : j > k => lines[j].event = "audit" }
openRun(lines) ==
  IF unclosed(lines) = {} THEN None ELSE lines[CHOOSE k \in unclosed(lines) : TRUE].run
lastRevision(lines) == IF lines = <<>> THEN 0 ELSE Last(lines).revision
hash(lines) == IF lines = <<>> THEN <<>> ELSE <<Last(lines).seq, Last(lines).event, Last(lines).run>>

seal(lines, event, run, id, revision) ==
  [seq |-> Len(lines), prev |-> hash(lines), event |-> event, run |-> run, id |-> id,
   revision |-> revision]

(* start, finish, recover and audit refuse what would break the journal. *)
Admitted(lines, event, run, revision) ==
  /\ revision >= lastRevision(lines)
  /\ event = "run_started" => openRun(lines) = None /\ ~\E k \in DOMAIN lines : lines[k].run = run
  /\ event \in Terminals => openRun(lines) # None /\ openRun(lines) = run

(* No finding but an open run: numbered and chained without a gap, of one  *)
(* session, revisions never going back, runs opened and closed in turn.    *)
Clean(lines) ==
  \A k \in DOMAIN lines :
    LET before == SubSeq(lines, 1, k - 1) IN
    /\ lines[k].seq = k - 1 /\ lines[k].prev = hash(before)
    /\ lines[k].id = lines[1].id
    /\ Admitted(before, lines[k].event, lines[k].run, lines[k].revision)

(***************************************************************************)
(* RunJournalStore.commit                                                  *)
(***************************************************************************)
(* Mistaken variant: the lease of a live process is taken over. *)
leaseIgnored(p) == lease \in Procs \cup {"nobody"}

(* assertSessionOwnerRecoveryAllowedUnlockedSync: own lease, or none live. *)
leaseAllows(p) == lease \notin {q \in Procs \ {p} : alive(q)}

(* Mistaken variant: the accepted head is not compared with the file's. *)
currentBlind(p) == ~journal.torn

(* readDurableHead and sameDurableHead. *)
current(p) ==
  ~journal.torn /\ journal.lines = proc[p].accepted /\ journal.gen = proc[p].gen

Committable(p, event, run) ==
  leaseAllows(p) /\ current(p) /\ Admitted(proc[p].accepted, event, run, proc[p].entries)

write(lines) == journal' = [journal EXCEPT !.lines = lines]
(* An append that fails leaves part of the line, or all of it. *)
writeFails(rec) ==
  /\ faults < MaxFaults /\ faults' = faults + 1
  /\ \/ journal' = [journal EXCEPT !.torn = TRUE]
     \/ write(Append(journal.lines, rec))

(* Commit a record and go on as r, or fail and go on as r0: refused with   *)
(* nothing written, or failed on the way.                                  *)
Commit(p, event, run, r, r0) ==
  LET rec == seal(proc[p].accepted, event, run, proc[p].id, proc[p].entries) IN
  \/ /\ Committable(p, event, run) /\ write(Append(journal.lines, rec))
     /\ set(p, [r EXCEPT !.accepted = Append(@, rec)])
     /\ acked' = acked \cup {rec} /\ UNCHANGED faults
  \/ /\ Committable(p, event, run) /\ writeFails(rec) /\ set(p, r0) /\ UNCHANGED acked
  \/ ~Committable(p, event, run) /\ set(p, r0) /\ UNCHANGED <<journal, faults, acked>>

(***************************************************************************)
(* SessionManager                                                          *)
(***************************************************************************)
(* setSessionFile: a missing file is a new session that is not yet written; *)
(* an existing one is loaded, and a torn tail quarantined first.           *)
Boot(p) ==
  /\ ~alive(p) /\ boots < MaxBoots /\ boots' = boots + 1 /\ UNCHANGED <<journal, leasing, runs, faults, acked>>
  /\ (p \in leasing \/ session.id # None => leaseAllows(p)) /\ lease' = IF p \in leasing THEN p ELSE lease
  /\ IF session.id = None
     THEN /\ UNCHANGED session
          /\ set(p, [Down EXCEPT !.status = "opening", !.id = boots + 1])
     ELSE /\ session' = IF session.torn THEN [session EXCEPT !.torn = FALSE, !.gen = @ + 1] ELSE session
          /\ set(p, [Down EXCEPT !.status = "opening", !.id = session.id, !.entries = session.entries,
                                 !.flushed = TRUE, !.head = session'])

(* Mistaken variant: memory takes the entry before the file does. *)
AppendEntryFirst(p, assistant) ==
  /\ up(p) /\ proc[p].entries < MaxEntries /\ leaseAllows(p) /\ session = proc[p].head
  /\ UNCHANGED <<journal, lease, leasing, boots, runs, acked>>
  /\ LET n == proc[p].entries + 1
         next == [id |-> proc[p].id, entries |-> n, torn |-> FALSE, gen |-> session.gen] IN
     IF proc[p].flushed \/ assistant
     THEN \/ /\ session' = next /\ set(p, [proc[p] EXCEPT !.entries = n, !.flushed = TRUE, !.head = next])
             /\ UNCHANGED faults
          \/ /\ faults < MaxFaults /\ faults' = faults + 1
             /\ set(p, [proc[p] EXCEPT !.entries = n])
             /\ session' \in {[session EXCEPT !.torn = proc[p].flushed], next}
     ELSE set(p, [proc[p] EXCEPT !.entries = n]) /\ UNCHANGED <<session, faults>>

(* _appendEntry: nothing is written before the first answer; then the      *)
(* whole session in one go, then entry by entry.  Memory takes the entry   *)
(* only when the file has it.                                              *)
AppendEntry(p, assistant) ==
  /\ up(p) /\ proc[p].entries < MaxEntries /\ leaseAllows(p) /\ session = proc[p].head
  /\ UNCHANGED <<journal, lease, leasing, boots, runs, acked>>
  /\ LET n == proc[p].entries + 1
         next == [id |-> proc[p].id, entries |-> n, torn |-> FALSE, gen |-> session.gen] IN
     IF proc[p].flushed \/ assistant
     THEN \/ /\ session' = next /\ set(p, [proc[p] EXCEPT !.entries = n, !.flushed = TRUE, !.head = next])
             /\ UNCHANGED faults
          \/ /\ faults < MaxFaults /\ faults' = faults + 1 /\ UNCHANGED proc
             /\ session' \in {[session EXCEPT !.torn = proc[p].flushed], next}
     ELSE set(p, [proc[p] EXCEPT !.entries = n]) /\ UNCHANGED <<session, faults>>

(***************************************************************************)
(* RunJournalStore.open, in the constructor of AgentSession                *)
(***************************************************************************)
refuse(p) == set(p, [proc[p] EXCEPT !.status = "refused"])

(* Mistaken variant: the last complete line goes with the torn one. *)
repairedShort ==
  IF journal.torn /\ journal.lines # <<>>
  THEN [lines |-> Front(journal.lines), torn |-> FALSE, gen |-> journal.gen + 1] ELSE journal

(* The torn tail is saved elsewhere, then cut off by an atomic rewrite. *)
repaired ==
  IF journal.torn THEN [journal EXCEPT !.torn = FALSE, !.gen = @ + 1] ELSE journal

(* Mistaken variant: only the last record's session is looked at, once     *)
(* there is an entry to compare it with.                                   *)
foreignLast(p) == journal.lines # <<>> /\ proc[p].entries > 0 /\ Last(journal.lines).id # proc[p].id

(* Some record names another session. *)
foreign(p) == \E k \in DOMAIN journal.lines : journal.lines[k].id # proc[p].id

(* Corruption, and records of another session, are refused; a torn tail is *)
(* quarantined; a run left open is recorded as recovered.                  *)
OpenJournal(p) ==
  /\ proc[p].status = "opening" /\ UNCHANGED <<session, lease, leasing, boots, runs>>
  /\ LET j == repaired
         run == openRun(j.lines)
         rec == seal(j.lines, "run_recovered", run, proc[p].id, lastRevision(j.lines))
         opened(lines) == [proc[p] EXCEPT !.status = "up", !.accepted = lines, !.gen = j.gen] IN
     IF ~leaseAllows(p) \/ ~Clean(journal.lines) \/ foreign(p)
     THEN refuse(p) /\ UNCHANGED <<journal, faults, acked>>
     ELSE IF run = None THEN journal' = j /\ set(p, opened(j.lines)) /\ UNCHANGED <<faults, acked>>
     ELSE \/ /\ journal' = [j EXCEPT !.lines = Append(@, rec)] /\ set(p, opened(Append(j.lines, rec)))
             /\ acked' = acked \cup {rec} /\ UNCHANGED faults
          \/ /\ faults < MaxFaults /\ faults' = faults + 1 /\ refuse(p) /\ UNCHANGED acked
             /\ journal' \in {[j EXCEPT !.torn = TRUE], [j EXCEPT !.lines = Append(@, rec)]}

(***************************************************************************)
(* AgentSession: the life of a run                                         *)
(***************************************************************************)
(* agent_start: the run is active from before its record is committed. *)
AgentStart(p) ==
  /\ up(p) /\ proc[p].active = None /\ runs < MaxRuns /\ runs' = runs + 1
  /\ LET r == [proc[p] EXCEPT !.active = runs + 1] IN Commit(p, "run_started", runs + 1, r, r)
  /\ UNCHANGED <<session, lease, leasing, boots>>

(* agent_end: the run stays active if its end cannot be committed. *)
AgentEnd(p) ==
  /\ up(p) /\ proc[p].active # None
  /\ Commit(p, "run_finished", proc[p].active, [proc[p] EXCEPT !.active = None], proc[p])
  /\ UNCHANGED <<session, lease, leasing, boots, runs>>

(* _publishRuntimeFailure: the run is over whether or not its end can be   *)
(* committed.                                                              *)
RuntimeFailure(p) ==
  /\ up(p) /\ proc[p].active # None
  /\ LET r == [proc[p] EXCEPT !.active = None] IN
     IF openRun(proc[p].accepted) = proc[p].active
     THEN Commit(p, "run_finished", proc[p].active, r, r)
     ELSE set(p, r) /\ UNCHANGED <<journal, faults, acked>>
  /\ UNCHANGED <<session, lease, leasing, boots, runs>>

(* _appendRunJournalAudit, for a tool's timeout or late settlement. *)
Audit(p) ==
  /\ up(p) /\ Cardinality({k \in DOMAIN journal.lines : journal.lines[k].event = "audit"}) < MaxAudits
  /\ Commit(p, "audit", openRun(proc[p].accepted), proc[p], proc[p])
  /\ UNCHANGED <<session, lease, leasing, boots, runs>>

down(p) == lease' = IF lease = p THEN "nobody" ELSE lease

(* recordProcessSignal: the active run is finished, then the process ends. *)
Signal(p) ==
  /\ up(p) /\ proc[p].active # None /\ down(p)
  /\ Commit(p, "run_finished", proc[p].active, Down, Down)
  /\ UNCHANGED <<session, leasing, boots, runs>>

Exit(p) ==
  /\ proc[p].status \in {"up", "refused"} /\ proc[p].active = None /\ down(p) /\ set(p, Down)
  /\ UNCHANGED <<session, journal, leasing, boots, runs, faults, acked>>

(* The lease of the dead stays until somebody finds its owner dead. *)
Crash(p) ==
  /\ alive(p) /\ set(p, Down)
  /\ UNCHANGED <<session, journal, lease, leasing, boots, runs, faults, acked>>

Next == \E p \in Procs :
  \/ Boot(p) \/ OpenJournal(p) \/ (\E assistant \in BOOLEAN : AppendEntry(p, assistant))
  \/ AgentStart(p) \/ AgentEnd(p) \/ RuntimeFailure(p) \/ Audit(p) \/ Signal(p) \/ Exit(p) \/ Crash(p)

Spec == Init /\ [][Next]_vars

Symmetry == Permutations(Procs)
--------------------------------------------------------------------------------
(* Whatever fails, dies or runs at the same time, the journal stays one    *)
(* that every later start accepts: its complete lines never show more than *)
(* an open run.                                                            *)
JournalSound == Clean(journal.lines)

(* A record that commit() returned is in the journal for good. *)
AcknowledgedKept == acked \subseteq Range(journal.lines)

(* A run whose process holds the session owner lease is not declared       *)
(* crashed by another process that opens the session meanwhile.            *)
RecoversOnlyDeadRuns ==
  \A p \in Procs : \A k \in DOMAIN journal.lines :
    up(p) /\ lease = p /\ journal.lines[k].run = proc[p].active /\ proc[p].active # None
      => journal.lines[k].event # "run_recovered"

(* The journal never refuses a process because of the session's revision   *)
(* as long as the process's own view of the session is current.            *)
RevisionNeverBlocks ==
  \A p \in Procs :
    up(p) /\ current(p) /\ session = proc[p].head => proc[p].entries >= lastRevision(journal.lines)

(* If every process takes the session owner lease, the session file and    *)
(* the journal beside it name the same session.  (Without leases, two      *)
(* processes that open the same missing path at once each make a session   *)
(* of their own; the file may end up with one's id and the journal with    *)
(* the other's, and every later start is refused.)                         *)
SameSession ==
  leasing = Procs /\ session.id # None /\ journal.lines # <<>> => journal.lines[1].id = session.id
================================================================================
