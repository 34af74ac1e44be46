----------------------------- MODULE MCDagLevels -----------------------------
(***************************************************************************)
(* A small catalogue of tool calls for DagLevels: writes and reads of a    *)
(* directory, of a file in it, of a symlink and of a hard link to that     *)
(* file, a custom tool claiming the session and a path, and tools the      *)
(* scheduler may not trust.                                                *)
(***************************************************************************)
EXTENDS DagLevels

Dir      == [key |-> <<"a">>, realKey |-> <<"a">>, inode |-> NoInode]
File     == [key |-> <<"a", "f">>, realKey |-> <<"a", "f">>, inode |-> "n1"]
Symlink  == [key |-> <<"l">>, realKey |-> <<"a", "f">>, inode |-> NoInode]
Hardlink == [key |-> <<"h">>, realKey |-> <<"h">>, inode |-> "n1"]
Other    == [key |-> <<"b">>, realKey |-> <<"b">>, inode |-> NoInode]

Builtin(name, path) ==
  [name |-> name, plain |-> TRUE, path |-> path, policy |-> "none",
   declares |-> "undeclared", raws |-> {}]

Extension(policy, declares, raws) ==
  [name |-> "extension", plain |-> TRUE, path |-> NullPath, policy |-> policy,
   declares |-> declares, raws |-> raws]

Raw(kind, key, inode, access) ==
  [kind |-> kind, key |-> key, realKey |-> key, inode |-> inode, access |-> access]

Catalogue ==
  {Builtin("write", File), Builtin("read", Dir), Builtin("write", Symlink),
   Builtin("read", Hardlink), Builtin("edit", Other), Builtin("write", NullPath),
   Builtin("bash", NullPath),
   Extension("parallel", "undeclared", {}),
   Extension("none", "undeclared", {}),
   Extension("parallel", "claims", {Raw("session", <<"s">>, NoInode, "write"),
                                    Raw("path", <<"b">>, NoInode, "read")}),
   Extension("none", "claims", {Raw("session", <<"s">>, NoInode, "exclusive")}),
   Extension("none", "claims", {Raw("unknown", <<"s">>, NoInode, "read")}),
   Extension("none", "throws", {})}
=============================================================================
