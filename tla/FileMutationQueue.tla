-------------------------- MODULE FileMutationQueue --------------------------
(***************************************************************************)
(* The queue that serialises the edits of one file                         *)
(* (packages/coding-agent/src/core/tools/file-mutation-queue.ts) and the   *)
(* bodies of the two tools that run inside it (core/tools/write.ts and     *)
(* core/tools/edit.ts).  A step runs from one await to the next.           *)
(*                                                                         *)
(* A name is a resolved path, Target the file it leads to.  A file is also *)
(* its own name; any other name reaches it through a symbolic link, of the *)
(* file or of a directory above it.  What is written is left out: what     *)
(* matters is when a mutation reads and writes its file.                   *)
(***************************************************************************)
EXTENDS Naturals, Sequences, FiniteSets

CONSTANTS Ops,    \* the mutations: calls of write and edit
          Names,  \* resolved paths
          Target  \* Target[n]: the file that name n leads to

ASSUME FileMutationQueueAssumption ==
  /\ Ops \subseteq Nat \ {0}
  /\ Target \in [Names -> Names] /\ \A n \in Names : Target[Target[n]] = Target[n]

NoOp == 0

VARIABLES
  stage,         \* stage[i]: where mutation i is
  path,          \* path[i]: the name it was called with
  key,           \* key[i]: the key it is queued under
  waits,         \* waits[i]: the mutation whose chain it awaits, or NoOp
  registrations, \* registrationQueue: the calls that wait to be registered
  tail,          \* fileMutationQueues: tail[k] is the last mutation chained on key k
  existing,      \* the files that exist
  unresolved     \* history: the mutations keyed by a link to a missing file

queueVars == <<stage, path, key, waits, registrations, tail, existing, unresolved>>

QueueInit(files) ==
  /\ stage = [i \in Ops |-> "out"] /\ path \in [Ops -> Names] /\ key = path
  /\ waits = [i \in Ops |-> NoOp] /\ registrations = <<>>
  /\ tail = [k \in Names |-> NoOp] /\ existing \in SUBSET files /\ unresolved = {}

become(i, s) == stage' = [stage EXCEPT ![i] = s]
file(i) == Target[path[i]]

(* withFileMutationQueue: the registrations form one chain of their own. *)
Enter(i) ==
  /\ stage[i] = "out" /\ become(i, "registering") /\ registrations' = Append(registrations, i)
  /\ UNCHANGED <<path, key, waits, tail, existing, unresolved>>

(* Mistaken variant: every call resolves its key as soon as it comes. *)
ResolveKeyAtOnce(i) ==
  /\ stage[i] = "registering" /\ become(i, "resolved")
  /\ key' = [key EXCEPT ![i] = IF file(i) \in existing THEN file(i) ELSE path[i]]
  /\ unresolved' = IF key'[i] = file(i) THEN unresolved ELSE unresolved \cup {i}
  /\ UNCHANGED <<path, waits, registrations, tail, existing>>

(* getMutationQueueKey: the real path, or the path as it is while there is *)
(* nothing at its end.                                                     *)
ResolveKey(i) ==
  /\ stage[i] = "registering" /\ Head(registrations) = i /\ become(i, "resolved")
  /\ key' = [key EXCEPT ![i] = IF file(i) \in existing THEN file(i) ELSE path[i]]
  /\ unresolved' = IF key'[i] = file(i) THEN unresolved ELSE unresolved \cup {i}
  /\ UNCHANGED <<path, waits, registrations, tail, existing>>

(* Mistaken variant: the chain of registrations ends with a rejection. *)
ResolveKeyFailsForAll(i) ==
  /\ stage[i] = "registering" /\ Head(registrations) = i /\ become(i, "settled")
  /\ UNCHANGED <<path, key, waits, registrations, tail, existing, unresolved>>

(* realpath fails for another reason: the call rejects, the chain goes on. *)
ResolveKeyFails(i) ==
  /\ stage[i] = "registering" /\ Head(registrations) = i /\ become(i, "settled")
  /\ registrations' = Tail(registrations)
  /\ UNCHANGED <<path, key, waits, tail, existing, unresolved>>

(* The call awaits the chain of its key and becomes its end; the next      *)
(* registration may go ahead.                                              *)
Register(i) ==
  /\ stage[i] = "resolved" /\ become(i, "queued")
  /\ waits' = [waits EXCEPT ![i] = tail[key[i]]] /\ tail' = [tail EXCEPT ![key[i]] = i]
  /\ registrations' = Tail(registrations)
  /\ UNCHANGED <<path, key, existing, unresolved>>

(* Mistaken variant: the key is forgotten although others are chained on it. *)
leaveForgets(i) == become(i, "settled") /\ tail' = [tail EXCEPT ![key[i]] = NoOp]

(* The end of withFileMutationQueue: release whoever waits, and forget the *)
(* key if nobody does.                                                     *)
leave(i) ==
  /\ become(i, "settled")
  /\ tail' = IF tail[key[i]] = i THEN [tail EXCEPT ![key[i]] = NoOp] ELSE tail

(* Its turn: the body starts, unless the call was cancelled meanwhile. *)
Begin(i, cancelled) ==
  /\ stage[i] = "queued" /\ (waits[i] # NoOp => stage[waits[i]] = "settled")
  /\ IF cancelled THEN leave(i) ELSE become(i, "reading") /\ UNCHANGED tail
  /\ UNCHANGED <<path, key, waits, registrations, existing, unresolved>>

(* write makes the directory, edit reads the file, which must exist; then  *)
(* writeFile opens the file.  A cancelled call gives up before that, and   *)
(* any of these operations may fail.                                       *)
StartWrite(i, tool, cancelled) ==
  /\ stage[i] = "reading" /\ UNCHANGED <<path, key, waits, registrations, unresolved>>
  /\ \/ leave(i) /\ UNCHANGED existing
     \/ /\ ~cancelled /\ (tool = "edit" => file(i) \in existing)
        /\ become(i, "writing") /\ existing' = existing \cup {file(i)} /\ UNCHANGED tail

(* A cancellation does not interrupt the write: the queue is held until it *)
(* is over.                                                                *)
EndWrite(i) ==
  /\ stage[i] = "writing" /\ leave(i)
  /\ UNCHANGED <<path, key, waits, registrations, existing, unresolved>>
--------------------------------------------------------------------------------
Inside(i) == stage[i] \in {"reading", "writing"}
Unfinished(i) == stage[i] \notin {"out", "settled"}

(* Two mutations of one file are never under way together, whichever names *)
(* they use and whatever is cancelled, unless one of them was queued under *)
(* a link to a file that did not exist yet.                                *)
MutationsExclusive ==
  \A i, j \in Ops :
    i # j /\ Inside(i) /\ Inside(j) /\ file(i) = file(j) => {i, j} \cap unresolved # {}

(* Every mutation that asks for its turn leaves the queue in the end, also *)
(* when those before it fail or are cancelled.                             *)
MutationsSettle == \A i \in Ops : stage[i] = "registering" ~> stage[i] = "settled"
================================================================================
