------------------------------ MODULE AppendOnly ------------------------------
(***************************************************************************)
(* What a log file promises its reader: nothing that was ever in it is     *)
(* changed or lost, and it grows by beginnings of records, by no other     *)
(* text.                                                                   *)
(***************************************************************************)
EXTENDS Sequences, Integers

CONSTANT Records   \* what a writer may append: sequences of units
VARIABLE file

Init == file = <<>>

Beginnings == UNION {{SubSeq(r, 1, n) : n \in 1 .. Len(r)} : r \in Records}

Next == \E f \in {file} : file' \in {f \o b : b \in Beginnings}

Spec == Init /\ [][Next]_file
=============================================================================
