----------------------------- MODULE TSearchTree -----------------------------
(***************************************************************************)
(* The ternary search tree of src/common/ds/tsearch_tree.c on the heap:    *)
(* a node has a character and links l, e, r to the subtrees of smaller,    *)
(* equal and bigger characters.  The value of a key sits in a node of its  *)
(* own (a vnode, with the character TCHAR) that is put in front of what    *)
(* followed: its e is the value, its l the rest of the subtree, and its r  *)
(* points back to the node whose e it hangs from.                          *)
(*                                                                         *)
(* One thread uses a tree; each call is one action.                        *)
(***************************************************************************)
EXTENDS Integers, Sequences, FiniteSets, SequencesExt

CONSTANTS
    Keys,       \* sequences of characters: numbers, but not TCHAR
    Values,
    Room,       \* bound: nodes 1..Room
    Below,      \* bound: deletions count key_num down to -Below
    NULL

TCHAR == 0
Ids == 1..Room

ASSUME TreeAssumption ==
    /\ Keys \subseteq Seq(Int \ {TCHAR})
    /\ Room \in Nat /\ Below \in Nat /\ NULL \notin Ids \cup Values

VARIABLES
    head,       \* tstp->head
    node,       \* the allocated nodes
    key_num,
    crashed,    \* NULL has been dereferenced
    dict        \* history: the value that each key was last given, or NULL

treeVars == <<head, node, key_num, crashed, dict>>

NoKeys == [k \in Keys |-> NULL]
TreeInit ==
    head = NULL /\ node = << >> /\ key_num = 0 /\ crashed = FALSE /\ dict = NoKeys

-----------------------------------------------------------------------------
Char(key, i) == IF i \in 1..Len(key) THEN key[i] ELSE TCHAR
isvnode(n) == node[n].c = TCHAR

(* A slot is what headp points to: a link of a node, or the tree's head.   *)
Root == [at |-> NULL, link |-> "head", i |-> 1]
Deref(slot) == IF slot.at = NULL THEN head ELSE node[slot.at][slot.link]

(* Mutant: keys with equal characters go on in the smaller subtree.        *)
BranchOrEqual(c, d) == IF c <= d THEN "l" ELSE "r"

(* Which link of a node with the character d a key goes by.                *)
Branch(c, d) == IF c < d THEN "l" ELSE IF c = d THEN "e" ELSE "r"

(* tst_search_r, insertHeadR and tst_delete_r stop at an empty slot, at    *)
(* the vnode of the key, or at the node in front of which its vnode        *)
(* belongs; from any other slot they go on to one of the node in it.       *)
Stops(key, slot) == Deref(slot) = NULL \/ Char(key, slot.i) = TCHAR

Further(key, slot) ==
    LET n == Deref(slot)
        b == Branch(Char(key, slot.i), node[n].c)
    IN  IF isvnode(n) THEN [at |-> n, link |-> "l", i |-> slot.i]
        ELSE [at |-> n, link |-> b, i |-> IF b = "e" THEN slot.i + 1 ELSE slot.i]

(* The slots that they go through.                                         *)
Descent(key) ==
    LET down[k \in 0..Room] ==
          IF k = 0 THEN <<Root>>
          ELSE LET path == down[k - 1] IN
               IF Stops(key, Last(path)) THEN path ELSE Append(path, Further(key, Last(path)))
    IN down[Room]

tst_search(key) ==
    LET n == Deref(Last(Descent(key))) IN
    IF n # NULL /\ isvnode(n) THEN node[n].e ELSE NULL

-----------------------------------------------------------------------------
(* The tree as a value, so that an operation can be put together.          *)
Tree == [head |-> head, node |-> node]
Store(t, slot, n) ==
    IF slot.at = NULL THEN [t EXCEPT !.head = n] ELSE [t EXCEPT !.node[slot.at][slot.link] = n]
Free(t, n) == [t EXCEPT !.node = [m \in DOMAIN t.node \ {n} |-> t.node[m]]]
Alloc(t, new) ==
    [t EXCEPT !.node = [n \in DOMAIN t.node \cup DOMAIN new |->
                           IF n \in DOMAIN new THEN new[n] ELSE t.node[n]]]
Becomes(t) == head' = t.head /\ node' = t.node

(* malloc: any free nodes will do.                                         *)
Fresh(k) == CHOOSE ids \in [1..k -> Ids \ DOMAIN node] : IsInjective(ids)
Has(k) == Cardinality(Ids \ DOMAIN node) >= k

(* makeNullHead: a chain for the characters from the i-th on, and the      *)
(* vnode, which points back to the last of them, or nowhere.               *)
Chain(key, i, val) ==
    LET m   == Len(key) - i + 2
        ids == Fresh(m)
    IN  [n \in Range(ids) |->
            LET j == CHOOSE j \in 1..m : ids[j] = n IN
            IF j < m THEN [c |-> key[i + j - 1], l |-> NULL, e |-> ids[j + 1], r |-> NULL]
                     ELSE [c |-> TCHAR, l |-> NULL, e |-> val, r |-> IF m = 1 THEN NULL ELSE ids[m - 1]]]

tst_insert(key, val) ==
    LET slot == Last(Descent(key))
        n    == Deref(slot)
        m    == Len(key) - slot.i + 2
    IN  /\ \/ /\ n = NULL /\ Has(m)
              /\ Becomes(Alloc(Store(Tree, slot, Fresh(m)[1]), Chain(key, slot.i, val)))
              /\ key_num' = key_num + 1
           \/ /\ n # NULL /\ isvnode(n)
              /\ Becomes([Tree EXCEPT !.node[n].e = val])
              /\ UNCHANGED key_num
           \/ /\ n # NULL /\ ~isvnode(n) /\ Has(1)
              /\ LET v == Fresh(1)[1] IN
                 Becomes(Alloc(Store(Tree, slot, v),
                               [new \in {v} |-> [c |-> TCHAR, l |-> n, e |-> val, r |-> slot.at]]))
              /\ key_num' = key_num + 1
        /\ dict' = [dict EXCEPT ![key] = val]
        /\ UNCHANGED crashed

(* Mutant: a node without keys of its own is freed, others or not.         *)
PruneEager(slot, t) ==
    LET n == IF slot.at = NULL THEN t.head ELSE t.node[slot.at][slot.link] IN
    IF n # NULL /\ t.node[n].c # TCHAR /\ t.node[n].e = NULL
    THEN Store(Free(t, n), slot, NULL) ELSE t

(* On the way back a node that has no links left is freed.                 *)
Prune(slot, t) ==
    LET n == IF slot.at = NULL THEN t.head ELSE t.node[slot.at][slot.link] IN
    IF n # NULL /\ t.node[n].c # TCHAR /\ {t.node[n][k] : k \in {"l", "e", "r"}} = {NULL}
    THEN Store(Free(t, n), slot, NULL) ELSE t

(* tst_delete_r: the vnode hands its rest to the node it points back to.   *)
(* A deletion that finds nothing counts as one all the same.               *)
tst_delete(key) ==
    LET path == Descent(key)
        v    == Deref(Last(path))
        hit  == v # NULL /\ isvnode(v)
    IN  IF hit /\ node[v].r = NULL
        THEN crashed' = TRUE /\ UNCHANGED <<head, node, key_num, dict>>
        ELSE /\ LET cut == IF hit THEN Free([Tree EXCEPT !.node[node[v].r].e = node[v].l], v) ELSE Tree
                    back[k \in 0..Len(path) - 1] ==
                        IF k = 0 THEN cut ELSE Prune(path[Len(path) - k], back[k - 1])
                IN Becomes(back[Len(path) - 1])
             /\ key_num' = key_num - 1
             /\ dict' = [dict EXCEPT ![key] = NULL]
             /\ UNCHANGED crashed

(* What tst_destroy_r visits; it leaves the e and r of a vnode alone.      *)
Reachable ==
    LET from[n \in DOMAIN node] ==
          {n} \cup UNION {from[node[n][k]] :
                             k \in {k \in IF isvnode(n) THEN {"l"} ELSE {"l", "e", "r"} : node[n][k] # NULL}}
    IN IF head = NULL THEN {} ELSE from[head]

(* tst_destroy takes the tree by value; its owner has to tst_init again.   *)
tst_destroy ==
    /\ node' = [n \in DOMAIN node \ Reachable |-> node[n]]
    /\ head' = NULL /\ key_num' = 0 /\ dict' = NoKeys
    /\ UNCHANGED crashed

TreeNext ==
    /\ ~crashed
    /\ \/ tst_destroy
       \/ \E k \in Keys : key_num > -Below /\ tst_delete(k)
       \/ \E k \in Keys, v \in Values : tst_insert(k, v)

TreeSpec == TreeInit /\ [][TreeNext]_treeVars

-----------------------------------------------------------------------------
(* Properties                                                              *)

(* tst_delete writes through the back pointer of a vnode.  It is never a   *)
(* wrong or a freed node: it is the node whose e the vnode is, or NULL.    *)
(* And no node is lost: all that are allocated can be reached and freed.   *)
BackPointersSound ==
    /\ DOMAIN node = Reachable
    /\ \A v \in DOMAIN node :
          isvnode(v) /\ node[v].r # NULL => node[v].r \in DOMAIN node /\ node[node[v].r].e = v

(* A search finds the value that was last inserted for that key, and no    *)
(* value once it is deleted, whatever was inserted and deleted around it.  *)
SearchAgrees == \A k \in Keys : tst_search(k) = dict[k]

(* tests/tst_test.c:26: key_num is the number of keys.                     *)
KeyNumCounts == key_num = Cardinality({k \in Keys : dict[k] # NULL})
=============================================================================
