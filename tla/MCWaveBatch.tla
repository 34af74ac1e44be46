------------------------------ MODULE MCWaveBatch ------------------------------
(* A file and a link to it: two calls that change it under either name,    *)
(* and a third that does so too or runs a command.                         *)
EXTENDS WaveBatch

FileAndLink == {"file", "link"}
LinkToFile == [n \in FileAndLink |-> "file"]
Mutations == {[tool |-> "edit", name |-> "file"], [tool |-> "write", name |-> "link"]}
Command == [tool |-> "bash", name |-> "file"]
ThreeCalls == { <<a, b, c>> : a, b \in Mutations, c \in Mutations \cup {Command} }
================================================================================
