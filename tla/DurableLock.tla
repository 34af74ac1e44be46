------------------------------ MODULE DurableLock ------------------------------
(***************************************************************************)
(* The directory lock behind every durable session write                   *)
(* (packages/coding-agent/src/core/durable-file-lock-storage.ts,           *)
(* durable-file-lock-cleanup.ts, durable-file-lock-owner.ts and the        *)
(* acquire, release and inspect operations of durable-file-identity.ts).   *)
(*                                                                         *)
(* A lock is a directory with an owner file.  A lock whose owner is dead   *)
(* is reclaimed under a reclaim gate named after that owner, which is such *)
(* a lock itself and may be left by the dead in its turn.  A path is       *)
(* therefore the sequence of the dead owners' tokens: <<>> is the lock,    *)
(* Append(path, t) the gate for reclaiming path from the owner with token  *)
(* t.  A step is one file-system call that other processes can tell apart. *)
(*                                                                         *)
(* A token also stands for the directory's inode: both are fresh for every *)
(* mkdir.  One that nothing refers to any more is used again, which keeps  *)
(* the state space finite however often a lock is taken.                   *)
(***************************************************************************)
EXTENDS Naturals, Sequences, FiniteSets, SequencesExt

CONSTANTS Procs,       \* the processes (pids of one host, not used again)
          MaxTokens,   \* bound: tokens in use at one time
          MaxCrashes,  \* bound: processes that die
          MaxFaults    \* bound: file-system calls that fail

ASSUME DurableLockAssumption ==
  MaxTokens \in Nat /\ MaxCrashes \in Nat /\ MaxFaults \in Nat

VARIABLES
  dirs,     \* the lock directories: dirs[path] = [token, pid, written]
  alive,    \* the processes that have not died
  at,       \* at[p] = [op, path, pc, token, result]: where process p is
  retained, \* retained[p]: retryableLocks of p, as path and token
  faults    \* the failures that have happened

vars == <<dirs, alive, at, retained, faults>>

Idle == [op |-> "none", path |-> <<>>, pc |-> "idle", token |-> 0, result |-> "none"]

Init ==
  /\ dirs = [d \in {} |-> 0] /\ alive = Procs /\ faults = 0
  /\ at = [p \in Procs |-> Idle] /\ retained = [p \in Procs |-> {}]

(***************************************************************************)
(* Directories and owners                                                  *)
(***************************************************************************)
exists(path) == path \in DOMAIN dirs
owned(path, token) == exists(path) /\ dirs[path].written /\ dirs[path].token = token
without(path) == [q \in DOMAIN dirs \ {path} |-> dirs[q]]
with(path, d) == [q \in DOMAIN dirs \cup {path} |-> IF q = path THEN d ELSE dirs[q]]

Used ==
  (UNION { {dirs[q].token} \cup Range(q) : q \in DOMAIN dirs })
  \cup (UNION { {at[p].token} \cup Range(at[p].path) : p \in Procs })
  \cup (UNION { {l.token} \cup Range(l.path) : l \in UNION Range(retained) })
Fresh == { t \in 1..MaxTokens : t \notin Used /\ \A u \in 1..(t - 1) : u \in Used }

move(p, r) == at' = [at EXCEPT ![p] = r]
goto(p, pc) == move(p, [at[p] EXCEPT !.pc = pc])
running(p, pc) == p \in alive /\ at[p].pc = pc
(* An error leaves every frame: no caller of acquire catches it. *)
throw(p) == move(p, Idle)
(* What inspectDurableFileLockPathSync found decides how the loop of       *)
(* acquire goes on; a plain inspection ends with it.                       *)
inspected(p, path, result) ==
  IF at[p].op = "inspect" /\ path = <<>> THEN move(p, Idle)
  ELSE move(p, [at[p] EXCEPT !.path = path, !.token = 0, !.result = "none",
                             !.pc = IF result = "absent" THEN "mkdir" ELSE "wait"])

(***************************************************************************)
(* Acquisition                                                             *)
(***************************************************************************)
begin(p, op) == move(p, [Idle EXCEPT !.op = op, !.pc = IF op = "inspect" THEN "inspect" ELSE "mkdir"])

(* acquireDurableFileLockSync and inspectDurableFileLockSync: the locks of *)
(* failed releases come first.                                             *)
Start(p, op) ==
  /\ running(p, "idle")
  /\ IF retained[p] = {} THEN begin(p, op) ELSE move(p, [Idle EXCEPT !.op = op, !.pc = "drain"])
  /\ UNCHANGED <<dirs, alive, retained, faults>>

(* drainRetryableDurableFileLocksSync: remove one, or throw. *)
Drain(p) ==
  /\ running(p, "drain") /\ UNCHANGED <<alive, faults>>
  /\ \E l \in retained[p] :
       IF owned(l.path, l.token)
       THEN /\ dirs' = without(l.path) /\ retained' = [retained EXCEPT ![p] = @ \ {l}]
            /\ IF retained'[p] = {} THEN begin(p, at[p].op) ELSE UNCHANGED at
       ELSE throw(p) /\ UNCHANGED <<dirs, retained>>

(* acquireDurableFileLockPathSync: mkdir decides who creates the lock. *)
Mkdir(p) ==
  /\ running(p, "mkdir") /\ UNCHANGED <<alive, retained, faults>>
  /\ IF exists(at[p].path) THEN goto(p, "inspect") /\ UNCHANGED dirs
     ELSE \E t \in Fresh :
            /\ dirs' = with(at[p].path, [token |-> t, pid |-> p, written |-> FALSE])
            /\ move(p, [at[p] EXCEPT !.token = t, !.pc = "write"])

(* The owner file makes the lock the process's own.  Whoever holds a gate  *)
(* goes on to look at the lock again, the holder of the lock to its work.  *)
WriteOwner(p) ==
  /\ running(p, "write") /\ UNCHANGED <<alive, retained, faults>>
  /\ dirs' = with(at[p].path, [dirs[at[p].path] EXCEPT !.written = TRUE])
  /\ goto(p, IF at[p].path = <<>> THEN "hold" ELSE "reread")

(* Creation fails.  Before the owner file is there the directory is        *)
(* removed, unless that fails too; afterwards the lock is released.        *)
WriteFails(p) ==
  /\ running(p, "write") /\ faults < MaxFaults /\ faults' = faults + 1
  /\ UNCHANGED <<alive, retained>>
  /\ \/ dirs' = without(at[p].path) /\ throw(p)
     \/ UNCHANGED dirs /\ throw(p)
     \/ /\ dirs' = with(at[p].path, [dirs[at[p].path] EXCEPT !.written = TRUE])
        /\ move(p, [at[p] EXCEPT !.pc = "check", !.result = "failed"])

(* Mistaken variant: a gate whose owner is dead is taken to be in use. *)
InspectTrustsGates(p) ==
  /\ running(p, "inspect") /\ UNCHANGED <<dirs, alive, retained, faults>>
  /\ LET path == at[p].path IN
     IF ~exists(path) THEN inspected(p, path, "absent")
     ELSE IF ~dirs[path].written \/ dirs[path].pid \in alive \/ path # <<>>
          THEN inspected(p, path, "unknown")
     ELSE move(p, [at[p] EXCEPT !.path = Append(path, dirs[path].token), !.pc = "mkdir"])

(* ownerObservation and processIsLive: absent, live, unknown (no readable  *)
(* owner), or dead; a dead owner's lock is reclaimed through its gate.     *)
Inspect(p) ==
  /\ running(p, "inspect") /\ UNCHANGED <<dirs, alive, retained, faults>>
  /\ LET path == at[p].path IN
     IF ~exists(path) THEN inspected(p, path, "absent")
     ELSE IF ~dirs[path].written \/ dirs[path].pid \in alive THEN inspected(p, path, "unknown")
     ELSE move(p, [at[p] EXCEPT !.path = Append(path, dirs[path].token), !.pc = "mkdir"])

(* The lock is in use: try again until the deadline. *)
Retry(p) == running(p, "wait") /\ goto(p, "mkdir") /\ UNCHANGED <<dirs, alive, retained, faults>>
Busy(p)  == running(p, "wait") /\ throw(p) /\ UNCHANGED <<dirs, alive, retained, faults>>

(***************************************************************************)
(* Reclaiming, by the holder of the gate                                   *)
(***************************************************************************)
lockPath(p) == Front(at[p].path)
staleToken(p) == Last(at[p].path)
settle(p, result) == move(p, [at[p] EXCEPT !.pc = "check", !.result = result])

(* Mistaken variant: the observation made before the gate is trusted. *)
RereadTrusts(p) ==
  /\ running(p, "reread") /\ goto(p, "retire")
  /\ UNCHANGED <<dirs, alive, retained, faults>>

(* reclaim reads the owner again: the observed one is retired, another one *)
(* is left alone, an absent lock counts as retired, one without an owner   *)
(* file is an error.                                                       *)
Reread(p) ==
  /\ running(p, "reread") /\ UNCHANGED <<dirs, alive, retained, faults>>
  /\ IF owned(lockPath(p), staleToken(p)) THEN goto(p, "retire")
     ELSE settle(p, IF ~exists(lockPath(p)) THEN "absent"
                    ELSE IF dirs[lockPath(p)].written THEN "unknown" ELSE "failed")

(* retireDurableFileLockSync renames whatever directory is at the path;    *)
(* what remains of it is private.                                          *)
Retire(p) ==
  /\ running(p, "retire") /\ dirs' = without(lockPath(p)) /\ settle(p, "absent")
  /\ UNCHANGED <<alive, retained, faults>>

RetireFails(p) ==
  /\ running(p, "retire") /\ faults < MaxFaults /\ faults' = faults + 1
  /\ dirs' \in {dirs, without(lockPath(p))} /\ settle(p, "failed")
  /\ UNCHANGED <<alive, retained>>

(***************************************************************************)
(* Release, of the lock or of a gate                                       *)
(***************************************************************************)
Work(p) ==
  /\ running(p, "hold") /\ goto(p, "check") /\ UNCHANGED <<dirs, alive, retained, faults>>

(* Where a release leaves the process: after a gate, back in the loop of   *)
(* the lock it was for, or out with the error; after the lock, out.        *)
released(p) ==
  IF at[p].path = <<>> \/ at[p].result = "failed" THEN throw(p)
  ELSE inspected(p, lockPath(p), at[p].result)

(* removeOwnedLock: only what is still ours, by token and inode. *)
Check(p) ==
  /\ running(p, "check") /\ UNCHANGED <<dirs, alive, retained, faults>>
  /\ IF owned(at[p].path, at[p].token) THEN goto(p, "rename") ELSE throw(p)

Rename(p) ==
  /\ running(p, "rename") /\ dirs' = without(at[p].path) /\ released(p)
  /\ UNCHANGED <<alive, retained, faults>>

(* Mistaken variant: a retirement that has renamed the lock is kept as if  *)
(* it had not.                                                             *)
RenameFailsForgets(p) ==
  /\ running(p, "rename") /\ faults < MaxFaults /\ faults' = faults + 1
  /\ throw(p) /\ UNCHANGED alive /\ dirs' \in {dirs, without(at[p].path)}
  /\ retained' = [retained EXCEPT ![p] = @ \cup {[path |-> at[p].path, token |-> at[p].token]}]

(* A release that fails before the rename is kept for later; after it only *)
(* private remains are left.                                               *)
RenameFails(p) ==
  /\ running(p, "rename") /\ faults < MaxFaults /\ faults' = faults + 1
  /\ throw(p) /\ UNCHANGED alive
  /\ \/ dirs' = without(at[p].path) /\ UNCHANGED retained
     \/ /\ UNCHANGED dirs
        /\ retained' = [retained EXCEPT ![p] = @ \cup {[path |-> at[p].path, token |-> at[p].token]}]

Crash(p) ==
  /\ p \in alive /\ Cardinality(Procs \ alive) < MaxCrashes
  /\ alive' = alive \ {p} /\ throw(p) /\ retained' = [retained EXCEPT ![p] = {}]
  /\ UNCHANGED <<dirs, faults>>

Step(p) ==
  \/ Start(p, "acquire") \/ Drain(p) \/ Mkdir(p) \/ WriteOwner(p) \/ Inspect(p) \/ Retry(p)
  \/ Reread(p) \/ Retire(p) \/ Work(p) \/ Check(p) \/ Rename(p)
Trouble(p) ==
  \/ Start(p, "inspect") \/ Busy(p) \/ WriteFails(p) \/ RetireFails(p) \/ RenameFails(p) \/ Crash(p)
Next == \E p \in Procs : Step(p) \/ Trouble(p)

(* A process that wants the lock runs on, and asks again after an error. *)
Fairness == \A p \in Procs : WF_vars(Step(p))
Spec == Init /\ [][Next]_vars
FairSpec == Spec /\ Fairness
--------------------------------------------------------------------------------

(* Held by p: its owner file is written and its release has not begun to   *)
(* take effect.                                                            *)
Holds(p) == at[p].pc \in {"reread", "retire", "hold", "check", "rename"}

(* Ownership is never lost: whatever other processes observed, reclaimed   *)
(* or retried, the lock or gate that a live process holds is on disk with  *)
(* its own token until it removes it itself.  Two processes can then never *)
(* hold the same path, and the ownership errors of removeOwnedLock and     *)
(* assertDurableFileLockPathsOwnedSync cannot happen.  The locks a process *)
(* failed to release are still its own when it drains them: retrying a     *)
(* release never takes away somebody else's lock.                          *)
OwnershipNeverLost ==
  \A p \in alive :
    /\ Holds(p) => owned(at[p].path, at[p].token)
    /\ \A l \in retained[p] : owned(l.path, l.token)

(* A directory that nobody can ever claim: no owner file, and its creator  *)
(* is not about to write one.                                              *)
Orphan(path) ==
  exists(path) /\ ~dirs[path].written
  /\ ~\E p \in alive : at[p].pc = "write" /\ at[p].path = path

LeftByTheDead(t) == owned(<<>>, t) /\ dirs[<<>>].pid \notin alive

(* A dead owner never wedges the lock: whoever died holding it, and whoever *)
(* died reclaiming it, the lock is taken from it in the end, unless a       *)
(* directory was left without an owner file by a failure in the middle of   *)
(* its creation, which no inspection can resolve.                           *)
DeadOwnersReclaimed ==
  \A t \in 1..MaxTokens :
    LeftByTheDead(t) ~> (~LeftByTheDead(t) \/ \E q \in DOMAIN dirs : Orphan(q))
================================================================================
