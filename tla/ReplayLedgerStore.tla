-------------------------- MODULE ReplayLedgerStore --------------------------
(***************************************************************************)
(* The replay ledger's store                                               *)
(* (packages/coding-agent/src/guardrails/replay-ledger-store.ts) and the   *)
(* ReplayLedgerManagers (evidence-system.ts) that append to it: an         *)
(* append-only file of chained events and a head file that commits a       *)
(* prefix of it.  A step is one file-system call that matters after a      *)
(* crash; between any two of them the call may fail, the process may die   *)
(* or the machine may lose power.                                          *)
(*                                                                         *)
(* The ledger's bytes are the halves of its lines, so that a line may be   *)
(* half written.  Every operation holds ReplayLedgerLock from start to     *)
(* end; a lock left by a dead process is reclaimed.                        *)
(***************************************************************************)
EXTENDS Naturals, Sequences, FiniteSets, SequencesExt

CONSTANTS Managers,   \* the managers, each in a process of its own
          MaxEvents,  \* bound: events ever appended
          MaxFaults,  \* bound: failed calls and dead processes
          MaxOutages  \* bound: power failures

ASSUME ReplayLedgerStoreAssumption ==
  {MaxEvents, MaxFaults, MaxOutages} \subseteq Nat /\ "none" \notin Managers

VARIABLES
  dirs,        \* the directory's states since its last fsync, the current one last:
               \* ino (the ledger's inode, 0 if absent), head (the head file)
  data,        \* the ledger's bytes, as processes see them
  synced,      \* the ledger's bytes as of its last fsync
  quarantine,  \* the suffixes saved in quarantine artifacts
  inodes,      \* inodes used so far
  prev,        \* prev[e]: the event that event e is chained to (prevHash)
  committed,   \* committed[m]: the committedHead of manager m, or Closed
  lock,        \* who holds ReplayLedgerLock, or "none"
  op,          \* the holder's operation: at (its next call), event, target (a head)
  acked,       \* history: the events whose append returned
  faults       \* failed calls and dead processes so far, and power failures

vars == <<dirs, data, synced, quarantine, inodes, prev, committed, lock, op, acked, faults>>
disk == <<dirs, data, synced, quarantine, inodes>>

Head0 == [ino |-> 0, size |-> 0, last |-> 0]    \* EMPTY_REPLAY_LEDGER_HEAD
Closed == [ino |-> 0, size |-> 0, last |-> -1]  \* no manager yet
NoOp == [at |-> "none", event |-> 0, target |-> Head0]
dir == Last(dirs)

Init ==
  /\ dirs = <<[ino |-> 0, head |-> Head0]>> /\ data = <<>> /\ synced = <<>>
  /\ quarantine = {} /\ inodes = 0 /\ prev = <<>> /\ acked = {} /\ faults = <<0, 0>>
  /\ committed = [m \in Managers |-> Closed] /\ lock = "none" /\ op = NoOp

(* Events, and the halves of the lines that record them. *)
line(e) == <<[event |-> e, half |-> 1], [event |-> e, half |-> 2]>>

(* parseReplayLedgerBytes accepts whole lines that are chained. *)
intact(d) ==
  /\ Len(d) % 2 = 0
  /\ \A i \in 1..(Len(d) \div 2) :
       /\ SubSeq(d, 2 * i - 1, 2 * i) = line(d[2 * i].event)
       /\ prev[d[2 * i].event] = IF i = 1 THEN 0 ELSE d[2 * i - 2].event
lastOf(d) == IF d = <<>> THEN 0 ELSE Last(d).event

goto(l) == op' = [op EXCEPT !.at = l]
finish == lock' = "none" /\ op' = NoOp
changeDir(d) == dirs' = Append(dirs, d)
fsyncDirectory == dirs' = <<dir>>

-----------------------------------------------------------------------------
(* An operation takes the lock: load() by a new manager ("open"), or by an *)
(* old one that verifies its head ("verify"), or append() of an event      *)
(* chained to the manager's head.                                          *)
begin(m, kind, e) ==
  /\ lock = "none" /\ lock' = m
  /\ op' = [at |-> "read", event |-> e, target |-> committed[m]]
  /\ CASE kind = "open" -> e = -1 /\ UNCHANGED prev
       [] kind = "verify" -> e = 0 /\ committed[m] # Closed /\ UNCHANGED prev
       [] kind = "append" -> /\ committed[m] # Closed /\ e = Len(prev) + 1 /\ e <= MaxEvents
                             /\ prev' = Append(prev, committed[m].last)
  /\ UNCHANGED <<data, synced, quarantine, inodes, committed, acked, faults>>

startUnsynced(m, kind, e) == begin(m, kind, e) /\ UNCHANGED dirs  \* mistaken variant

(* The lock is a link in the ledger's own directory, and tryAcquire syncs  *)
(* that directory before the operation runs.                               *)
start(m, kind, e) == begin(m, kind, e) /\ fsyncDirectory

(* What readVerified throws on: the ledger without its head, or not        *)
(* matching it.  The store never leaves such files (NeverRefusesItself),   *)
(* so the throw is no action of its own.                                   *)
refused ==
  \/ dir.ino # 0 /\ dir.head = Head0 /\ data # <<>>
  \/ dir.ino = 0 /\ dir.head # Head0
  \/ /\ dir.ino # 0 /\ dir.head # Head0
     /\ \/ dir.head.ino # dir.ino \/ dir.head.size > Len(data)
        \/ LET d == SubSeq(data, 1, dir.head.size) IN ~intact(d) \/ lastOf(d) # dir.head.last

(* An empty ledger that was never committed is removed. *)
dropUncommittedFile ==
  /\ op.at = "read" /\ ~refused /\ dir.ino # 0 /\ dir.head = Head0
  /\ changeDir([dir EXCEPT !.ino = 0]) /\ goto("dropSync")
  /\ UNCHANGED <<data, synced, quarantine, inodes, prev, committed, lock, acked, faults>>

dropSync ==
  /\ op.at = "dropSync" /\ fsyncDirectory /\ goto("compare")
  /\ UNCHANGED <<data, synced, quarantine, inodes, prev, committed, lock, acked, faults>>

(* Mistaken variant: the suffix is cut off without being saved. *)
quarantineNothing ==
  /\ op.at = "read" /\ ~refused /\ dir.head # Head0 /\ dir.head.size < Len(data)
  /\ goto("truncate") /\ fsyncDirectory
  /\ UNCHANGED <<data, synced, quarantine, inodes, prev, committed, lock, acked, faults>>

(* quarantineReplayLedgerSuffix: the artifact is durable when it returns.  *)
(* One that is cut short by a fault changes nothing that is read again.    *)
quarantineSuffix ==
  /\ op.at = "read" /\ ~refused /\ dir.head # Head0 /\ dir.head.size < Len(data)
  /\ quarantine' = quarantine \union {SubSeq(data, dir.head.size + 1, Len(data))}
  /\ goto("truncate") /\ fsyncDirectory
  /\ UNCHANGED <<data, synced, inodes, prev, committed, lock, acked, faults>>

truncate ==
  /\ op.at = "truncate" /\ data' = SubSeq(data, 1, dir.head.size) /\ goto("truncateSync")
  /\ UNCHANGED <<dirs, synced, quarantine, inodes, prev, committed, lock, acked, faults>>

truncateSync ==
  /\ op.at = "truncateSync" /\ synced' = data /\ fsyncDirectory /\ goto("compare")
  /\ UNCHANGED <<data, quarantine, inodes, prev, committed, lock, acked, faults>>

readClean ==
  /\ op.at = "read" /\ ~refused
  /\ dir.ino = 0 \/ (dir.head # Head0 /\ dir.head.size = Len(data))
  /\ goto("compare")
  /\ UNCHANGED <<disk, prev, committed, lock, acked, faults>>

(* Mistaken variant: the caller's head is not compared. *)
compareNothing ==
  /\ op.at = "compare"
  /\ \/ op.event <= 0 /\ committed' = [committed EXCEPT ![lock] = dir.head] /\ finish
     \/ /\ op.event > 0 /\ UNCHANGED <<lock, committed>>
        /\ op' = [op EXCEPT !.at = IF dir.head.ino = 0 THEN "create" ELSE "write", !.target = dir.head]
  /\ UNCHANGED <<disk, prev, acked, faults>>

(***************************************************************************)
(* The expected-head CAS.  load() returns here and the manager adopts the  *)
(* head; append() goes on if the committed head is the one its event is    *)
(* chained to, through initializeGenesis if there is no ledger.            *)
(***************************************************************************)
compare ==
  /\ op.at = "compare"
  /\ \/ op.event >= 0 /\ dir.head # op.target /\ finish /\ UNCHANGED committed
     \/ op.event = -1 /\ committed' = [committed EXCEPT ![lock] = dir.head] /\ finish
     \/ op.event = 0 /\ dir.head = op.target /\ finish /\ UNCHANGED committed
     \/ /\ op.event > 0 /\ dir.head = op.target /\ UNCHANGED <<lock, committed>>
        /\ goto(IF dir.head.ino = 0 THEN "create" ELSE "write")
  /\ UNCHANGED <<disk, prev, acked, faults>>

-----------------------------------------------------------------------------
(* initializeGenesis: O_EXCL create, fsync, publish an empty head. *)
createLedger ==
  /\ op.at = "create" /\ inodes' = inodes + 1
  /\ changeDir([dir EXCEPT !.ino = inodes']) /\ data' = <<>> /\ synced' = <<>>
  /\ op' = [op EXCEPT !.at = "publishGenesis", !.target = [ino |-> inodes', size |-> 0, last |-> 0]]
  /\ UNCHANGED <<quarantine, prev, committed, lock, acked, faults>>

(* publishHead: the temporary file is synced before it is renamed. *)
publishHead(from, to) ==
  /\ op.at = from /\ changeDir([dir EXCEPT !.head = op.target]) /\ goto(to)
  /\ UNCHANGED <<data, synced, quarantine, inodes, prev, committed, lock, acked, faults>>

genesisSync ==
  /\ op.at = "genesisSync" /\ fsyncDirectory /\ goto("write")
  /\ UNCHANGED <<data, synced, quarantine, inodes, prev, committed, lock, acked, faults>>

(* writeAll in append(): the line reaches the file in pieces. *)
writeHalf ==
  /\ op.at \in {"write", "write2"}
  /\ data' = Append(data, line(op.event)[IF op.at = "write" THEN 1 ELSE 2])
  /\ op' = (IF op.at = "write" THEN [op EXCEPT !.at = "write2"]
            ELSE [op EXCEPT !.at = "fsync",
                            !.target = [ino |-> dir.ino, size |-> Len(data'), last |-> op.event]])
  /\ UNCHANGED <<dirs, synced, quarantine, inodes, prev, committed, lock, acked, faults>>

(* Mistaken variant: the ledger is not synced before its head is. *)
fsyncLedgerNot ==
  /\ op.at = "fsync" /\ goto("publish")
  /\ UNCHANGED <<disk, prev, committed, lock, acked, faults>>

fsyncLedger ==
  /\ op.at = "fsync" /\ synced' = data /\ goto("publish")
  /\ UNCHANGED <<dirs, data, quarantine, inodes, prev, committed, lock, acked, faults>>

(* The directory is synced and append() returns: the event is acknowledged. *)
publishSync ==
  /\ op.at = "publishSync" /\ fsyncDirectory /\ finish
  /\ committed' = [committed EXCEPT ![lock] = op.target] /\ acked' = acked \union {op.event}
  /\ UNCHANGED <<data, synced, quarantine, inodes, prev, faults>>

-----------------------------------------------------------------------------
(* A file-system call fails, the operation throws and the lock's release   *)
(* syncs the directory; or the process dies and its lock is reclaimed.     *)
fail ==
  /\ lock # "none" /\ faults[1] < MaxFaults /\ faults' = [faults EXCEPT ![1] = @ + 1] /\ finish
  /\ \/ UNCHANGED committed /\ fsyncDirectory
     \/ committed' = [committed EXCEPT ![lock] = Closed] /\ UNCHANGED dirs
  /\ UNCHANGED <<data, synced, quarantine, inodes, prev, acked>>

(* Power fails: the directory is as of some moment since its last fsync,   *)
(* the ledger, if it is still there, has some of the bytes written or cut  *)
(* off since its own.                                                      *)
powerLoss ==
  /\ faults[2] < MaxOutages /\ faults' = [faults EXCEPT ![2] = @ + 1] /\ finish
  /\ committed' = [m \in Managers |-> Closed]
  /\ \E i \in DOMAIN dirs : dirs' = <<dirs[i]>>
  /\ LET longer == IF Len(synced) > Len(data) THEN synced ELSE data
         shorter == IF Len(synced) > Len(data) THEN data ELSE synced
     IN  \E n \in Len(shorter)..Len(longer) :
           data' = IF dirs'[1].ino = 0 THEN <<>> ELSE SubSeq(longer, 1, n)
  /\ synced' = data'
  /\ UNCHANGED <<quarantine, inodes, prev, acked>>

Next ==
  \/ \E m \in Managers, e \in -1..MaxEvents : \E k \in {"open", "verify", "append"} : start(m, k, e)
  \/ dropUncommittedFile \/ dropSync \/ quarantineSuffix \/ truncate \/ truncateSync
  \/ readClean \/ compare
  \/ createLedger \/ publishHead("publishGenesis", "genesisSync") \/ genesisSync
  \/ writeHalf \/ fsyncLedger \/ publishHead("publish", "publishSync") \/ publishSync
  \/ fail \/ powerLoss

Spec == Init /\ [][Next]_vars

-----------------------------------------------------------------------------

(* The events that the head on disk commits. *)
events == {data[i].event : i \in 1..dir.head.size}

(***************************************************************************)
(* An event whose append returned is in the committed prefix of the ledger *)
(* ever after, whatever fails, dies or loses power in the middle of later  *)
(* operations.                                                             *)
(***************************************************************************)
AcknowledgedSurvive == dir.head.size <= Len(data) /\ acked \subseteq events

(***************************************************************************)
(* The store never refuses its own files: after any faults at any calls    *)
(* the next operation can read what the last one left.  It is the lock's   *)
(* directory sync that makes it so: without it a head renamed by a process *)
(* that died may be used by the next one and lost with the power.          *)
(***************************************************************************)
NeverRefusesItself == lock = "none" => ~refused

(***************************************************************************)
(* Managers with stale heads do not fork the chain: no two acknowledged    *)
(* events have the same predecessor.                                       *)
(***************************************************************************)
ChainLinear == \A e, f \in acked : prev[e] = prev[f] => e = f

(***************************************************************************)
(* Bytes leave the ledger only after a quarantine artifact holds them,     *)
(* except by a power failure.                                              *)
(***************************************************************************)
RollbackKeepsEvidence ==
  [][Len(data') < Len(data) /\ faults' = faults =>
       SubSeq(data, Len(data') + 1, Len(data)) \in quarantine]_vars
=============================================================================
