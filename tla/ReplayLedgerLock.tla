--------------------------- MODULE ReplayLedgerLock ---------------------------
(***************************************************************************)
(* The interprocess lock of the replay ledger                              *)
(* (packages/coding-agent/src/guardrails/replay-ledger-lock.ts).  The lock *)
(* is a hard link to an owner record; it is looked at outside the mutation *)
(* gate, and linked, reclaimed and released inside it.  A step is one      *)
(* file-system call; a process may die between any two.                    *)
(*                                                                         *)
(* LockSpec lets processes into the gate at any time; GateExcludes says of *)
(* a state that the gate keeps its promise, one live process inside.  What *)
(* the lock owes to the gate is thus a hypothesis: GatedSpec is LockSpec   *)
(* with a gate that excludes.  MutationGate shows when the code's gate     *)
(* does, and when it does not.                                             *)
(*                                                                         *)
(* An owner record carries a fresh id for every call of run(); here it is  *)
(* the process and its call's number.                                      *)
(*                                                                         *)
(* Names begin with Lock where the store, which runs under this lock, has  *)
(* its own, so that a module can extend both.                              *)
(***************************************************************************)
EXTENDS Naturals, FiniteSets

CONSTANTS Procs,      \* the processes that use the lock
          MaxRuns,    \* bound: calls of run() per process
          MaxCrashes  \* bound: processes that die

ASSUME ReplayLedgerLockAssumption == MaxRuns \in Nat /\ MaxCrashes \in Nat

Owners == [proc : Procs, run : 0..MaxRuns]
NoOwner == [proc |-> "none", run |-> 0]
ASSUME NoOwnerAssumption == "none" \notin Procs

VARIABLES
  linked, \* the owner whose record is linked to the lock's path, or NoOwner
  alive,  \* the processes that have not died
  pc,     \* pc[p]: the next call of process p
  run,    \* run[p]: which call of run() p is in
  seen    \* seen[p]: the lock owner that p found dead

lockVars == <<linked, alive, pc, run, seen>>

Outside == {"idle", "look", "wantLink", "wantReclaim", "locked", "leaked", "dead"}
Inside == {"link", "readback", "recheck", "final", "unlink", "check", "release"}

me(p) == [proc |-> p, run |-> run[p]]

LockInit ==
  /\ linked = NoOwner /\ alive = Procs
  /\ pc = [p \in Procs |-> "idle"] /\ run = [p \in Procs |-> 0] /\ seen = [p \in Procs |-> NoOwner]

lockGoto(p, l) == pc' = [pc EXCEPT ![p] = l]

(* ReplayLedgerMutationGate.run: p is inside from here until the operation *)
(* is over or p dead.                                                      *)
enter(p, from, to) ==
  /\ pc[p] = from /\ lockGoto(p, to)
  /\ UNCHANGED <<linked, alive, run, seen>>

(* The gate excludes: one process at a time is inside. *)
GateExcludes == \A p, q \in Procs : pc[p] \in Inside /\ pc[q] \in Inside => p = q

Run(p) ==
  /\ pc[p] = "idle" /\ run[p] < MaxRuns
  /\ run' = [run EXCEPT ![p] = @ + 1] /\ lockGoto(p, "look")
  /\ UNCHANGED <<linked, alive, seen>>

(* Mistaken variant: a lock that exists is taken to be in use. *)
LookTrusts(p) ==
  /\ pc[p] = "look" /\ linked = NoOwner
  /\ seen' = [seen EXCEPT ![p] = linked] /\ lockGoto(p, "wantLink")
  /\ UNCHANGED <<linked, alive, run>>

(* acquire() reads the lock outside the gate: absent, link; left by the    *)
(* dead, reclaim; otherwise wait and look again.                           *)
Look(p) ==
  /\ pc[p] = "look" /\ (linked = NoOwner \/ linked.proc \notin alive)
  /\ seen' = [seen EXCEPT ![p] = linked]
  /\ lockGoto(p, IF linked = NoOwner THEN "wantLink" ELSE "wantReclaim")
  /\ UNCHANGED <<linked, alive, run>>

(* The attempts are used up, or the gate or a liveness check fails. *)
GiveUp(p) ==
  /\ pc[p] \in {"look", "wantLink", "wantReclaim"} /\ lockGoto(p, "idle")
  /\ UNCHANGED <<linked, alive, run, seen>>

(* Mistaken variant: the lock is overwritten. *)
LinkOverwrites(p) ==
  /\ pc[p] = "link" /\ UNCHANGED <<alive, run, seen>>
  /\ linked' = me(p) /\ lockGoto(p, "readback")

(* tryAcquire: link, then read back what was linked. *)
Link(p) ==
  /\ pc[p] = "link" /\ UNCHANGED <<alive, run, seen>>
  /\ IF linked = NoOwner THEN linked' = me(p) /\ lockGoto(p, "readback")
     ELSE UNCHANGED linked /\ lockGoto(p, "look")

Readback(p) ==
  /\ pc[p] = "readback" /\ lockGoto(p, IF linked = me(p) THEN "locked" ELSE "idle")
  /\ UNCHANGED <<linked, alive, run, seen>>

(* Mistaken variant: the owner observed outside the gate is trusted. *)
RecheckTrusts(p, from, to) ==
  /\ pc[p] = from /\ UNCHANGED <<linked, alive, run, seen>>
  /\ lockGoto(p, to)

(* reclaim: the owner must still be the one that was observed, twice. *)
Recheck(p, from, to) ==
  /\ pc[p] = from /\ UNCHANGED <<linked, alive, run, seen>>
  /\ IF linked = seen[p] THEN lockGoto(p, to) ELSE lockGoto(p, "look")

Unlink(p) ==
  /\ pc[p] = "unlink" /\ linked' = NoOwner /\ lockGoto(p, "look")
  /\ UNCHANGED <<alive, run, seen>>

(* release: the lock is removed if it is still ours. *)
Check(p) ==
  /\ pc[p] = "check" /\ UNCHANGED <<linked, alive, run, seen>>
  /\ IF linked = me(p) THEN lockGoto(p, "release") ELSE lockGoto(p, "idle")

Release(p) ==
  /\ pc[p] = "release" /\ linked' = NoOwner /\ lockGoto(p, "idle")
  /\ UNCHANGED <<alive, run, seen>>

(* The gate is unavailable when run() wants to release: run() throws and   *)
(* the lock stays linked for as long as the process lives.                 *)
ReleaseFails(p) ==
  /\ pc[p] = "locked" /\ lockGoto(p, "leaked")
  /\ UNCHANGED <<linked, alive, run, seen>>

(* Whoever leaked its lock waits for it like everybody else. *)
RunAfterLeak(p) ==
  /\ pc[p] = "leaked" /\ run[p] < MaxRuns
  /\ run' = [run EXCEPT ![p] = @ + 1] /\ lockGoto(p, "look")
  /\ UNCHANGED <<linked, alive, seen>>

Crash(p) ==
  /\ p \in alive /\ Cardinality(Procs \ alive) < MaxCrashes
  /\ alive' = alive \ {p} /\ lockGoto(p, "dead")
  /\ UNCHANGED <<linked, run, seen>>

Work(p) ==
  \/ Run(p) \/ Look(p) \/ enter(p, "wantLink", "link") \/ enter(p, "wantReclaim", "recheck")
  \/ Link(p) \/ Readback(p) \/ Recheck(p, "recheck", "final") \/ Recheck(p, "final", "unlink")
  \/ Unlink(p) \/ enter(p, "locked", "check") \/ Check(p) \/ Release(p)

LockNext == \E p \in Procs : Work(p) \/ GiveUp(p) \/ ReleaseFails(p) \/ RunAfterLeak(p) \/ Crash(p)

LockSpec == LockInit /\ [][LockNext]_lockVars

(* The lock over a gate that lets a process in only when nobody alive is   *)
(* inside.                                                                 *)
GatedSpec == LockInit /\ [][LockNext /\ GateExcludes']_lockVars

(* Live processes are scheduled; their attempts may still be used up. *)
LockFairSpec == GatedSpec /\ \A p \in Procs : WF_lockVars(Work(p) /\ GateExcludes')

-----------------------------------------------------------------------------
TypeOK ==
  /\ linked \in Owners \union {NoOwner} /\ alive \subseteq Procs
  /\ pc \in [Procs -> Outside \union Inside] /\ run \in [Procs -> 0..MaxRuns]
  /\ seen \in [Procs -> Owners \union {NoOwner}]

(***************************************************************************)
(* At most one live process is between acquire() and release().            *)
(***************************************************************************)
holds(p) == pc[p] \in {"locked", "check", "release"}
LockExclusive == \A p, q \in Procs : holds(p) /\ holds(q) => p = q

(***************************************************************************)
(* What makes it so, as long as the gate excludes: the dead are marked, a  *)
(* holder's record is the one that is linked, and a process about to       *)
(* remove a record sees the record it compared.                            *)
(***************************************************************************)
LockInv ==
  /\ \A p \in Procs : p \in alive <=> pc[p] # "dead"
  /\ \A p \in Procs : holds(p) \/ pc[p] = "readback" => linked = me(p)
  /\ \A p \in Procs : pc[p] \in {"wantReclaim", "recheck", "final", "unlink"} =>
       seen[p] # NoOwner /\ seen[p].proc \notin alive
  /\ \A p \in Procs : pc[p] \in {"final", "unlink"} => linked = seen[p]

(***************************************************************************)
(* The lock of a live process is removed by that process only.             *)
(***************************************************************************)
OnlyOwnerReleases ==
  [][linked.proc \in alive /\ linked' # linked => pc[linked.proc] = "release" /\ linked' = NoOwner]_lockVars

(***************************************************************************)
(* Whoever dies, wherever, a process that waits for the lock and does not  *)
(* give up sees it pass to a live process: the locks of the dead are       *)
(* reclaimed.  (A live process whose release failed keeps it.)             *)
(***************************************************************************)
LockProgress ==
  \A p \in Procs : pc[p] = "look" ~> p \notin alive \/ pc[p] = "idle" \/ linked.proc \in alive
=============================================================================
