------------------------------ MODULE OrderedList ------------------------------
(***************************************************************************)
(* What the red-black tree of src/common/ds promises, with no tree: its    *)
(* nodes in the order of their keys, and nodes of equal keys in the order  *)
(* in which they were inserted.  RBTree.tla is shown to implement this     *)
(* specification.                                                          *)
(***************************************************************************)
EXTENDS Integers, Sequences, SequencesExt

CONSTANTS Nodes, Key

VARIABLE seq

Init == seq = <<>>

(* After the last of the nodes whose keys are not greater.                 *)
Insert(n) ==
    /\ ~Contains(seq, n)
    /\ \E i \in 1..Len(seq) + 1 :
          /\ \A j \in 1..Len(seq) : j < i <=> Key[seq[j]] <= Key[n]
          /\ seq' = InsertAt(seq, i, n)

Erase(n) == \E i \in 1..Len(seq) : seq[i] = n /\ seq' = RemoveAt(seq, i)

Clear == seq' = <<>>

Next == Clear \/ \E n \in Nodes : Insert(n) \/ Erase(n)

Spec == Init /\ [][Next]_seq
=============================================================================
