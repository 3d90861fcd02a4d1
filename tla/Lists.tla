-------------------------------- MODULE Lists --------------------------------
(***************************************************************************)
(* What dlist.h promises its callers: every list head stands for a         *)
(* sequence of entries, an entry is in at most one list, and an operation  *)
(* changes the lists it is called for and no other.                        *)
(***************************************************************************)
EXTENDS Naturals, Sequences, SequencesExt

CONSTANTS Heads, Entries

VARIABLES
    list,       \* the entries of each head, in order
    stale       \* heads whose entries list_splice has moved away

Held(h) == {list[h][i] : i \in 1..Len(list[h])}
Loose   == Entries \ UNION {Held(h) : h \in Heads}
Usable  == Heads \ stale
Place(e, h) == CHOOSE i \in 1..Len(list[h]) : list[h][i] = e

Init == list = [h \in Heads |-> <<>>] /\ stale = {}

(* The list h becomes s.                                                   *)
Becomes(h, s) == list' = [list EXCEPT ![h] = s]

(* A loose entry goes to any place of a list.                              *)
Insert == \E e \in Loose, h \in Usable : \E i \in 1..(Len(list[h]) + 1) :
    Becomes(h, InsertAt(list[h], i, e)) /\ UNCHANGED stale

(* The lists when e has left the one that it is in, if it is in one.       *)
Without(e) == [h \in Heads |->
    IF e \in Held(h) THEN RemoveAt(list[h], Place(e, h)) ELSE list[h]]

Take == \E e \in Entries \ Loose : list' = Without(e) /\ UNCHANGED stale

(* An entry leaves its list, if it is in one, for either end of a list.    *)
Move == \E e \in Entries, h \in Usable :
    LET rest == Without(e) IN
    /\ \E i \in {1, Len(rest[h]) + 1} :
          list' = [rest EXCEPT ![h] = InsertAt(rest[h], i, e)]
    /\ UNCHANGED stale

Turn == \E h \in Usable : Becomes(h, Reverse(list[h])) /\ UNCHANGED stale

(* All of one list goes to the front of another.                           *)
Join == \E l, h \in Usable :
    /\ l # h
    /\ list' = [list EXCEPT ![h] = list[l] \o @, ![l] = <<>>]
    /\ stale' \in {stale, stale \cup {l}}

Renew == \E h \in stale : stale' = stale \ {h} /\ UNCHANGED list

Next == Insert \/ Take \/ Move \/ Turn \/ Join \/ Renew

Spec == Init /\ [][Next]_<<list, stale>>
=============================================================================
