----------------------------- MODULE MutationGate -----------------------------
(***************************************************************************)
(* The gate that serialises every mutation of the replay ledger's lock     *)
(* file (packages/coding-agent/src/guardrails/                             *)
(* replay-ledger-mutation-gate.ts), shared by processes through hard       *)
(* links: linking an owner record to the gate's path acquires it, a record *)
(* linked to an intent path announces that a dead holder's gate is being   *)
(* reclaimed.                                                              *)
(*                                                                         *)
(* A step is one file-system call.  Reading an owner record and asking     *)
(* whether its process is dead are one step: records never change and the  *)
(* dead stay dead, so a read and a later verdict are a read taken later.   *)
(* Candidate files have unique names and are left out, as are the fsyncs.  *)
(***************************************************************************)
EXTENDS Naturals, FiniteSets

CONSTANTS Procs,      \* the processes that use the gate
          MaxRuns,    \* bound: calls of run() per process
          MaxCrashes  \* bound: processes that die

ASSUME MutationGateAssumption == MaxRuns \in Nat /\ MaxCrashes \in Nat

(* createLockOwner: every call of run() has an owner record of its own. *)
NoOwner == [proc |-> "none", run |-> 0]

VARIABLES
  gate,     \* the owner whose record is linked to the gate's path, or NoOwner
  intents,  \* the owners whose record is linked to an intent path
  alive,    \* the processes that have not died
  pc,       \* pc[p]: the next call of process p
  run,      \* run[p]: which call of run() p is in
  seen,     \* seen[p]: the gate owner that p last found dead
  scan      \* scan[p]: what is left of p's listing of the intents

vars == <<gate, intents, alive, pc, run, seen, scan>>

me(p) == [proc |-> p, run |-> run[p]]
lockOwnerIsDead(o) == o.proc \notin alive

Init ==
  /\ gate = NoOwner /\ intents = {} /\ alive = Procs
  /\ pc = [p \in Procs |-> "idle"] /\ run = [p \in Procs |-> 0]
  /\ seen = [p \in Procs |-> NoOwner] /\ scan = [p \in Procs |-> {}]

goto(p, l) == pc' = [pc EXCEPT ![p] = l]

(* run() begins: a fresh owner, then the attempts of acquire(). *)
Run(p) ==
  /\ pc[p] = "idle" /\ run[p] < MaxRuns
  /\ run' = [run EXCEPT ![p] = @ + 1] /\ goto(p, "attempt")
  /\ UNCHANGED <<gate, intents, alive, seen, scan>>

(* GATE_ATTEMPTS are used up, or an owner's liveness could not be          *)
(* established: acquire() throws.                                          *)
GiveUp(p) ==
  /\ pc[p] = "attempt" /\ goto(p, "idle")
  /\ UNCHANGED <<gate, intents, alive, run, seen, scan>>

-----------------------------------------------------------------------------
(* tryAcquire.  hasLiveIntent lists the intents, then looks at them one by *)
(* one; it is called before the link ("scan1") and after it ("scan2").     *)
ListIntents(p, from, to) ==
  /\ pc[p] = from /\ goto(p, to)
  /\ scan' = [scan EXCEPT ![p] = intents]
  /\ UNCHANGED <<gate, intents, alive, run, seen>>

(* An intent that is gone is passed over, a dead process's is removed. *)
PassIntent(p, o) ==
  /\ pc[p] \in {"scan1", "scan2"} /\ o \in scan[p]
  /\ o \in intents => lockOwnerIsDead(o)
  /\ intents' = intents \ {o}
  /\ scan' = [scan EXCEPT ![p] = @ \ {o}]
  /\ UNCHANGED <<gate, alive, pc, run, seen>>

(* A live intent: give way, handing the gate back if it was linked. *)
LiveIntent(p, o) ==
  /\ o \in scan[p] /\ o \in intents /\ ~lockOwnerIsDead(o)
  /\ \/ pc[p] = "scan1" /\ goto(p, "observe")
     \/ pc[p] = "scan2" /\ goto(p, "handback")
  /\ scan' = [scan EXCEPT ![p] = {}]
  /\ UNCHANGED <<gate, intents, alive, run, seen>>

(* The liveness of an intent's process cannot be established: throw. *)
ScanFails(p) ==
  /\ scan[p] # {}
  /\ \/ pc[p] = "scan1" /\ goto(p, "idle")
     \/ pc[p] = "scan2" /\ goto(p, "abandon")
  /\ scan' = [scan EXCEPT ![p] = {}]
  /\ UNCHANGED <<gate, intents, alive, run, seen>>

(* Mistaken variant: the path is overwritten. *)
LinkOverwrites(p) ==
  /\ pc[p] = "scan1" /\ scan[p] = {}
  /\ gate' = me(p) /\ goto(p, "readback")
  /\ UNCHANGED <<intents, alive, run, seen, scan>>

Link(p) ==
  /\ pc[p] = "scan1" /\ scan[p] = {}
  /\ IF gate = NoOwner THEN gate' = me(p) /\ goto(p, "readback")
     ELSE UNCHANGED gate /\ goto(p, "observe")
  /\ UNCHANGED <<intents, alive, run, seen, scan>>

Readback(p) ==
  /\ pc[p] = "readback"
  /\ goto(p, IF gate = me(p) THEN "list2" ELSE "abandon")
  /\ UNCHANGED <<gate, intents, alive, run, seen, scan>>

Acquired(p) ==
  /\ pc[p] = "scan2" /\ scan[p] = {} /\ goto(p, "held")
  /\ UNCHANGED <<gate, intents, alive, run, seen, scan>>

(* abandon: an error after the link removes the gate if it is still ours. *)
Abandon(p) ==
  /\ pc[p] = "abandon"
  /\ goto(p, IF gate = me(p) THEN "abandonUnlink" ELSE "idle")
  /\ UNCHANGED <<gate, intents, alive, run, seen, scan>>

AbandonUnlink(p) ==
  /\ pc[p] = "abandonUnlink" /\ gate' = NoOwner /\ goto(p, "idle")
  /\ UNCHANGED <<intents, alive, run, seen, scan>>

-----------------------------------------------------------------------------
(* Mistaken variant: the owner of a gate that exists counts as alive. *)
ObserveTrusts(p) ==
  /\ pc[p] = "observe" /\ goto(p, "attempt")
  /\ UNCHANGED <<gate, intents, alive, run, seen, scan>>

(* acquire() looks at the gate it did not get: gone or held by the living, *)
(* try again; held by the dead, reclaim it.                                *)
Observe(p) ==
  /\ pc[p] = "observe"
  /\ IF gate # NoOwner /\ lockOwnerIsDead(gate)
     THEN seen' = [seen EXCEPT ![p] = gate] /\ goto(p, "intent")
     ELSE UNCHANGED seen /\ goto(p, "attempt")
  /\ UNCHANGED <<gate, intents, alive, run, scan>>

(* reclaim: announce, look twice, remove whatever the path then names. *)
LinkIntent(p) ==
  /\ pc[p] = "intent" /\ goto(p, "recheck")
  /\ intents' = intents \union {me(p)}
  /\ UNCHANGED <<gate, alive, run, seen, scan>>

Recheck(p, from, to) ==
  /\ pc[p] = from
  /\ goto(p, IF gate = seen[p] THEN to ELSE "unintent")
  /\ UNCHANGED <<gate, intents, alive, run, seen, scan>>

Remove(p) ==
  /\ pc[p] = "remove" /\ gate' = NoOwner /\ goto(p, "unintent")
  /\ UNCHANGED <<intents, alive, run, seen, scan>>

Unintent(p) ==
  /\ pc[p] = "unintent" /\ goto(p, "attempt")
  /\ intents' = intents \ {me(p)} /\ seen' = [seen EXCEPT ![p] = NoOwner]
  /\ UNCHANGED <<gate, alive, run, scan>>

-----------------------------------------------------------------------------
(* releaseOwned, after the operation ("held") or to give way ("handback"): *)
(* the record is checked, then the path is unlinked.  An error on the way  *)
(* back from tryAcquire goes through abandon.                              *)
CheckOwned(p) ==
  /\ \/ pc[p] = "held" /\ goto(p, IF gate = me(p) THEN "unlink" ELSE "idle")
     \/ pc[p] = "handback" /\ goto(p, IF gate = me(p) THEN "handbackUnlink" ELSE "abandon")
  /\ UNCHANGED <<gate, intents, alive, run, seen, scan>>

Unlink(p) ==
  /\ gate' = NoOwner
  /\ \/ pc[p] = "unlink" /\ goto(p, "idle")
     \/ pc[p] = "handbackUnlink" /\ goto(p, IF gate = NoOwner THEN "abandon" ELSE "observe")
  /\ UNCHANGED <<intents, alive, run, seen, scan>>

(* A process dies; its links stay. *)
Crash(p) ==
  /\ p \in alive /\ Cardinality(Procs \ alive) < MaxCrashes
  /\ alive' = alive \ {p} /\ goto(p, "dead")
  /\ scan' = [scan EXCEPT ![p] = {}] /\ seen' = [seen EXCEPT ![p] = NoOwner]
  /\ UNCHANGED <<gate, intents, run>>

Work(p) ==
  \/ Run(p) \/ ListIntents(p, "attempt", "scan1") \/ ListIntents(p, "list2", "scan2")
  \/ \E o \in scan[p] : PassIntent(p, o) \/ LiveIntent(p, o)
  \/ Link(p) \/ Readback(p) \/ Acquired(p) \/ Abandon(p) \/ AbandonUnlink(p)
  \/ Observe(p) \/ LinkIntent(p) \/ Recheck(p, "recheck", "final") \/ Recheck(p, "final", "remove")
  \/ Remove(p) \/ Unintent(p) \/ CheckOwned(p) \/ Unlink(p)

Next == \E p \in Procs : Work(p) \/ GiveUp(p) \/ ScanFails(p) \/ Crash(p)

Spec == Init /\ [][Next]_vars

(* Every live process is scheduled; its attempts may still be used up. *)
FairSpec == Spec /\ \A p \in Procs : WF_vars(Work(p))

-----------------------------------------------------------------------------
(***************************************************************************)
(* At most one process runs its operation at a time.                       *)
(***************************************************************************)
GateExclusive ==
  \A p, q \in Procs : pc[p] = "held" /\ pc[q] = "held" => p = q

(***************************************************************************)
(* A process that wants the gate and does not give up sees somebody get    *)
(* it, whoever died where: the gates and intents of the dead are cleared,  *)
(* and contenders that give way to each other do not do so forever.        *)
(***************************************************************************)
GateProgress ==
  \A p \in Procs :
    pc[p] = "attempt" ~> p \notin alive \/ pc[p] = "idle" \/ \E q \in Procs : pc[q] = "held"
=============================================================================
