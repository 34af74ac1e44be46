------------------------------- MODULE Selection -------------------------------
(***************************************************************************)
(* The loops that push some elements of an array onto another one, as a    *)
(* recursive function.                                                     *)
(***************************************************************************)
EXTENDS Naturals, Sequences

(* The elements of s that are in S, in order. *)
only(s, S) ==
  LET kept[i \in 0..Len(s)] ==
        IF i = 0 THEN <<>> ELSE IF s[i] \in S THEN Append(kept[i - 1], s[i]) ELSE kept[i - 1]
  IN  kept[Len(s)]
================================================================================
