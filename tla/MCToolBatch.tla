----------------------------- MODULE MCToolBatch -----------------------------
(***************************************************************************)
(* Instances of ToolBatch: a write and a read of one file, a write of      *)
(* another and a call that must run alone.                                 *)
(***************************************************************************)
EXTENDS ToolBatch

File(key, access) ==
  Claims({[kind |-> "path", key |-> key, realKey |-> key, inode |-> NoInode, access |-> access]})

WriteX == File(<<"x">>, "write")
ReadX  == File(<<"x">>, "read")
WriteY == File(<<"y">>, "write")

TwoFiles == {WriteX, WriteY}
ThreeClaims == {WriteX, ReadX, WriteY}

(* Bound: at most one call has surprising arguments, and not in a          *)
(* behaviour with faults.                                                  *)
Surprising == {c \in Calls : args[c] # planArgs[c] \/ ~planned[c] \/ ~planArgs[c].plain}
Faulted == signal \/ pc \in {"failed", "closed", "rejected"} \/ \E c \in Calls : term[c]
FewSurprises == Cardinality(Surprising) <= IF Faulted THEN 0 ELSE 1
=============================================================================
