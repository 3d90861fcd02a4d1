-------------------------------- MODULE DList --------------------------------
(***************************************************************************)
(* The intrusive doubly linked lists of src/common/ds/dlist.h, which hold  *)
(* the pool's jobs and threads and the loop's ready items: rings of nodes, *)
(* each with a head that belongs to no structure.                          *)
(*                                                                         *)
(* The macros and inline functions run without interruption (their users   *)
(* hold a mutex), so that each is one action; the assignments inside keep  *)
(* their order, which matters where two of the nodes are the same one.     *)
(***************************************************************************)
EXTENDS Naturals, Sequences, FiniteSets

CONSTANTS Heads, Entries

NodesAssumption ==
    /\ Heads \cap Entries = {}
    /\ IsFiniteSet(Heads \cup Entries)

Nodes == Heads \cup Entries

VARIABLES
    next, prev, \* the links of every node
    stale       \* heads that list_splice has emptied and left as they were

vars == <<next, prev, stale>>

Init ==
    /\ next = [n \in Nodes |-> n]
    /\ prev = [n \in Nodes |-> n]
    /\ stale = {}

-----------------------------------------------------------------------------
(* Pure operators on the links.                                            *)

Links == [next |-> next, prev |-> prev]
Relink(l) == next' = l.next /\ prev' = l.prev

INIT_LIST_HEAD(l, x) ==
    [next |-> [l.next EXCEPT ![x] = x], prev |-> [l.prev EXCEPT ![x] = x]]

(* Mutant: the new entry does not point back.                              *)
AddOneWay(l, new, before, after) ==
    [next |-> [l.next EXCEPT ![new] = after, ![before] = new],
     prev |-> [l.prev EXCEPT ![after] = new]]

__list_add(l, new, before, after) ==
    [next |-> [l.next EXCEPT ![new] = after, ![before] = new],
     prev |-> [l.prev EXCEPT ![after] = new, ![new] = before]]

__list_del(l, before, after) ==
    [next |-> [l.next EXCEPT ![before] = after], prev |-> [l.prev EXCEPT ![after] = before]]

Unlink(l, e) == __list_del(l, l.prev[e], l.next[e])

(* The entries of l end up between head and what followed it.              *)
__list_splice(l, from, head) ==
    LET first == l.next[from]
        last  == l.prev[from]
        at    == l.next[head]
    IN  [next |-> [l.next EXCEPT ![head] = first, ![last] = at],
         prev |-> [l.prev EXCEPT ![first] = head, ![at] = last]]

list_empty(head) == next[head] = head

(* What list_for_each meets on its way from head back to head: the least   *)
(* set that holds head and the successors of its members.                  *)
Ring(head) ==
    {n \in Nodes : \A S \in SUBSET Nodes :
        (head \in S /\ \A m \in S : next[m] \in S) => n \in S}

list_size(head) == Cardinality(Ring(head) \ {head})

-----------------------------------------------------------------------------
(* Operations.  An entry to be added is in no list: its links are its own. *)

Usable == Heads \ stale
Loose  == {e \in Entries : next[e] = e}
Linked == Usable \cup {e \in Entries : next[e] # e}

list_unshift(e, head) ==
    /\ e \in Loose /\ head \in Usable
    /\ Relink(__list_add(Links, e, head, next[head]))
    /\ UNCHANGED stale

list_push(e, head) ==
    /\ e \in Loose /\ head \in Usable
    /\ Relink(__list_add(Links, e, prev[head], head))
    /\ UNCHANGED stale

list_add_before(e, x) ==
    /\ e \in Loose /\ x \in Linked
    /\ Relink(__list_add(Links, e, prev[x], x))
    /\ UNCHANGED stale

list_add_after(e, x) ==
    /\ e \in Loose /\ x \in Linked
    /\ Relink(__list_add(Links, e, x, next[x]))
    /\ UNCHANGED stale

list_shift(head) ==
    /\ head \in Usable /\ ~list_empty(head)
    /\ Relink(INIT_LIST_HEAD(Unlink(Links, next[head]), next[head]))
    /\ UNCHANGED stale

list_pop(head) ==
    /\ head \in Usable /\ ~list_empty(head)
    /\ Relink(INIT_LIST_HEAD(Unlink(Links, prev[head]), prev[head]))
    /\ UNCHANGED stale

list_del(e) ==
    /\ Relink(INIT_LIST_HEAD(Unlink(Links, e), e))
    /\ UNCHANGED stale

list_move(e, head) ==
    /\ head \in Usable
    /\ LET l == Unlink(Links, e) IN Relink(__list_add(l, e, head, l.next[head]))
    /\ UNCHANGED stale

(* Mutant: the end of the list is looked up before the entry is unlinked.  *)
MoveTailEarly(e, head) ==
    /\ head \in Usable
    /\ Relink(__list_add(Unlink(Links, e), e, prev[head], head))
    /\ UNCHANGED stale

list_move_tail(e, head) ==
    /\ head \in Usable
    /\ LET l == Unlink(Links, e) IN Relink(__list_add(l, e, l.prev[head], head))
    /\ UNCHANGED stale

(* Every node that the loop meets swaps its links, and then the head does; *)
(* "safe" means that the loop has read a node's successor before the swap. *)
list_reverse(head) ==
    /\ head \in Usable
    /\ next' = [n \in Nodes |-> IF n \in Ring(head) THEN prev[n] ELSE next[n]]
    /\ prev' = [n \in Nodes |-> IF n \in Ring(head) THEN next[n] ELSE prev[n]]
    /\ UNCHANGED stale

(* The emptied head still points into the other list.                      *)
list_splice(from, head) ==
    /\ {from, head} \subseteq Usable /\ from # head
    /\ IF list_empty(from)
       THEN UNCHANGED vars
       ELSE Relink(__list_splice(Links, from, head)) /\ stale' = stale \cup {from}

list_splice_init(from, head) ==
    /\ {from, head} \subseteq Usable /\ from # head
    /\ IF list_empty(from)
       THEN UNCHANGED vars
       ELSE /\ Relink(INIT_LIST_HEAD(__list_splice(Links, from, head), from))
            /\ UNCHANGED stale

(* The owner makes a spliced head a list again.                            *)
Reinit(head) ==
    /\ head \in stale /\ stale' = stale \ {head}
    /\ Relink(INIT_LIST_HEAD(Links, head))

Next ==
    \/ \E e \in Entries, head \in Heads :
          list_unshift(e, head) \/ list_push(e, head) \/ list_move(e, head) \/ list_move_tail(e, head)
    \/ \E e \in Entries, x \in Nodes : list_add_before(e, x) \/ list_add_after(e, x)
    \/ \E head \in Heads : list_shift(head) \/ list_pop(head) \/ list_reverse(head) \/ Reinit(head)
    \/ \E e \in Entries : list_del(e)
    \/ \E from, head \in Heads : list_splice(from, head) \/ list_splice_init(from, head)

Spec == Init /\ [][Next]_vars

-----------------------------------------------------------------------------
(* list_contain: look from both ends until the two meet or have passed     *)
(* each other.  (Mutant: the loop ends when the two ends are neighbours    *)
(* one step too early.)                                                    *)
ContainHasty(head, e) ==
    LET scan[x \in Nodes \X Nodes] ==
          LET before == next[x[1]]
              after  == prev[x[2]]
          IN  \/ e \in {x[1], x[2]}
              \/ /\ before # head /\ after # head
                 /\ before # after
                 /\ scan[<<before, after>>]
    IN scan[<<next[head], prev[head]>>]

list_contain(head, e) ==
    LET scan[x \in Nodes \X Nodes] ==
          LET before == next[x[1]]
              after  == prev[x[2]]
          IN  \/ e \in {x[1], x[2]}
              \/ /\ before # head /\ after # head
                 /\ prev[before] # after
                 /\ prev[before] # next[after]
                 /\ scan[<<before, after>>]
    IN scan[<<next[head], prev[head]>>]

(* The entries between head and head along the links f.                    *)
Along(f, head) ==
    LET walk[k \in 0..Cardinality(Nodes)] ==
          [n \in Nodes |->
              IF n = head \/ k = 0 THEN <<>> ELSE <<n>> \o walk[k - 1][f[n]]]
    IN walk[Cardinality(Nodes)][f[head]]

-----------------------------------------------------------------------------
(* Properties                                                              *)

(* next and prev are inverse on every node but a spliced head, and nothing *)
(* points at a spliced head: whatever the operations do to a node's        *)
(* neighbours, the neighbours know.                                        *)
LinksInverse ==
    /\ next \in [Nodes -> Nodes] /\ prev \in [Nodes -> Nodes] /\ stale \subseteq Heads
    /\ \A n \in Nodes \ stale :
          /\ prev[next[n]] = n /\ next[prev[n]] = n
          /\ {next[n], prev[n]} \cap stale = {}

(* The two-ended search and the count say what walking the list says.      *)
ContainAgrees ==
    \A head \in Usable :
        LET entries == Along(next, head) IN
        /\ list_size(head) = Len(entries)
        /\ \A e \in Entries :
              list_contain(head, e) <=> \E i \in 1..Len(entries) : entries[i] = e

(* The list of every head.                                                 *)
ListOf == [h \in Heads |-> IF h \in stale THEN <<>> ELSE Along(next, h)]

L == INSTANCE Lists WITH list <- ListOf

(* The rings are sequences: each operation inserts, takes, moves, turns or *)
(* joins just what its comment says, and leaves the other lists alone.     *)
ImplementsLists == L!Spec
=============================================================================
