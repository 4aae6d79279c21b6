----------------------------- MODULE MCProduct ------------------------------
(* Two slices that may write the same two files.                            *)
EXTENDS Product

CONSTANTS s1, s2, kept, fresh, old, new

Order      == [s \in Scopes |-> IF s = s1 THEN 1 ELSE IF s = Milestone THEN 3 ELSE 2]
(* One file is there at first, the other is not.                            *)
Committed  == [p \in Paths |-> IF p = kept THEN old ELSE Absent]
Everywhere == [s \in Slices |-> Paths]
=============================================================================
