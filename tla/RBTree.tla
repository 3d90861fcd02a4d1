-------------------------------- MODULE RBTree --------------------------------
(***************************************************************************)
(* The intrusive red-black tree of src/common/ds/rbtree.c.  rb_insert and  *)
(* rb_erase link or unlink a node in one step and then repair the colours; *)
(* each iteration of their fixup loops is a step, so that what the loops   *)
(* rely on can be stated.                                                  *)
(*                                                                         *)
(* The code has a left and a right version of a rotation and of each       *)
(* branch of the loops, mirror images of each other; here the side is a    *)
(* parameter.                                                              *)
(***************************************************************************)
EXTENDS Integers, FiniteSets, Sequences

CONSTANTS
    RbNodes,
    Key,        \* what the comparison function compares
    NIL         \* the NULL pointer, where no node is

RbAssumption ==
    /\ IsFiniteSet(RbNodes)
    /\ Key \in [RbNodes -> Int]
    /\ NIL \notin RbNodes

RbLinks == RbNodes \cup {NIL}
Sides == {"left", "right"}
Colors == {"RED", "BLACK"}

VARIABLES
    rbt,        \* the tree: its root, and each node's children, parent and color
    pc,         \* "idle", or the fixup that is running
    fixnode,    \* the fixup's insert_node or node
    pnode,      \* rb_delete_fixup's pnode and is_right
    is_right

rbVars == <<rbt, pc, fixnode, pnode, is_right>>

(* A node that is not in a tree is its own parent (RB_MAKE_ORPHAN).  What  *)
(* else an erased node holds is not read before rb_node_init.              *)
Leaf == [s \in Sides |-> NIL]
MakeOrphan(t, n) ==
    [t EXCEPT !.child[n] = Leaf, !.parent[n] = n, !.color[n] = "RED"]
InTree(t) == {n \in RbNodes : t.parent[n] # n}

RbInit ==
    /\ rbt = [root |-> NIL, child |-> [n \in RbNodes |-> Leaf],
              parent |-> [n \in RbNodes |-> n], color |-> [n \in RbNodes |-> "RED"]]
    /\ pc = "idle" /\ fixnode = NIL /\ pnode = NIL /\ is_right = FALSE

-----------------------------------------------------------------------------
(* Helpers on a tree t.  A NULL leaf is black.                             *)

Other(s) == IF s = "left" THEN "right" ELSE "left"
IsRed(t, n) == n # NIL /\ t.color[n] = "RED"
IsRoot(t, n) == n # NIL /\ t.parent[n] = NIL
IsChild(t, n, s) == n # NIL /\ ~IsRoot(t, n) /\ t.child[t.parent[n]][s] = n
SideOf(t, n) == IF IsChild(t, n, "left") THEN "left" ELSE "right"
SetColor(t, n, c) == [t EXCEPT !.color[n] = c]
SetChild(t, n, s, c) == [t EXCEPT !.child[n][s] = c]
SetParent(t, n, p) == IF n = NIL THEN t ELSE [t EXCEPT !.parent[n] = p]

(* rb_transplant: v takes the place of u.                                  *)
Transplant(t, u, v) ==
    SetParent(IF IsRoot(t, u)
              THEN [t EXCEPT !.root = v]
              ELSE SetChild(t, t.parent[u], SideOf(t, u), v),
              v, t.parent[u])

(* rb_left_rotate and rb_right_rotate: root goes down on side s.           *)
Rotate(t, root, s) ==
    LET new == t.child[root][Other(s)]
        mid == t.child[new][s]
        up  == Transplant(t, root, new)
    IN  SetParent(SetParent(SetChild(SetChild(up, root, Other(s), mid), new, s, root),
                            mid, root), root, new)

(* __rb_min and __rb_max of the subtree n: the last node on side s.        *)
Outermost(t, n, s) ==
    LET last[m \in RbNodes] == IF t.child[m][s] = NIL THEN m ELSE last[t.child[m][s]]
    IN  IF n = NIL THEN NIL ELSE last[n]

(* Mutant: rb_next goes up one level only.                                 *)
StepOnce(t, n, s) ==
    IF t.child[n][s] # NIL THEN Outermost(t, t.child[n][s], Other(s)) ELSE t.parent[n]

(* rb_next (s = "right") and rb_prev (s = "left").                         *)
Step(t, n, s) ==
    LET top[m \in RbNodes] == IF IsChild(t, m, s) THEN top[t.parent[m]] ELSE m
    IN  IF t.child[n][s] # NIL
        THEN Outermost(t, t.child[n][s], Other(s))
        ELSE t.parent[top[n]]

(* ev_watch_tree_search, the search of the tree's users.                   *)
Search(t, k) ==
    LET find[m \in RbLinks] ==
            IF m = NIL \/ Key[m] = k THEN m
            ELSE find[t.child[m][IF k < Key[m] THEN "left" ELSE "right"]]
    IN  find[t.root]

-----------------------------------------------------------------------------
(* rb_insert                                                               *)

(* Where a node goes below m.  (Mutant: before its equals.)                *)
SideBefore(n, m) == IF Key[n] <= Key[m] THEN "left" ELSE "right"
SideBelow(n, m) == IF Key[n] < Key[m] THEN "left" ELSE "right"

InsertParent(t, n) ==
    LET last[m \in RbNodes] ==
            LET c == t.child[m][SideBelow(n, m)] IN IF c = NIL THEN m ELSE last[c]
    IN  IF t.root = NIL THEN NIL ELSE last[t.root]

RbInsert(n) ==
    /\ pc = "idle"
    /\ n \notin InTree(rbt)
    /\ LET p == InsertParent(rbt, n)
           t == SetParent(MakeOrphan(rbt, n), n, p)
       IN  rbt' = IF p = NIL THEN [t EXCEPT !.root = n] ELSE SetChild(t, p, SideBelow(n, p), n)
    /\ pc' = "insert" /\ fixnode' = n
    /\ UNCHANGED <<pnode, is_right>>

(* rb_insert_fixup's loop: node and its parent are red.                    *)
Parent == rbt.parent[fixnode]
Grand == rbt.parent[Parent]
ParentSide == SideOf(rbt, Parent)
Uncle == rbt.child[Grand][Other(ParentSide)]

InsertLoop == pc = "insert" /\ IsRed(rbt, Parent)

(* Case 1: the uncle is red.                                               *)
InsertRecolor ==
    /\ InsertLoop
    /\ IsRed(rbt, Uncle)
    /\ rbt' = SetColor(SetColor(SetColor(rbt, Parent, "BLACK"), Uncle, "BLACK"), Grand, "RED")
    /\ fixnode' = Grand
    /\ UNCHANGED <<pc, pnode, is_right>>

(* Cases 2 and 3: the uncle is black.                                      *)
InsertRotate ==
    /\ InsertLoop
    /\ ~IsRed(rbt, Uncle)
    /\ LET s     == ParentSide
           inner == IsChild(rbt, fixnode, Other(s))
           n     == IF inner THEN Parent ELSE fixnode
           t     == IF inner THEN Rotate(rbt, n, s) ELSE rbt
           p     == t.parent[n]
           g     == t.parent[p]
       IN  /\ fixnode' = n
           /\ rbt' = Rotate(SetColor(SetColor(t, p, "BLACK"), g, "RED"), g, Other(s))
    /\ UNCHANGED <<pc, pnode, is_right>>

InsertDone ==
    /\ pc = "insert" /\ ~IsRed(rbt, Parent)
    /\ rbt' = SetColor(rbt, rbt.root, "BLACK")
    /\ pc' = "idle" /\ fixnode' = NIL
    /\ UNCHANGED <<pnode, is_right>>

-----------------------------------------------------------------------------
(* rb_erase                                                                *)

TwoChildren(t, n) == \A s \in Sides : t.child[n][s] # NIL

(* The node whose place in the tree disappears: n, or its successor, which *)
(* takes the place and the color of n.                                     *)
Spliced(t, n) == IF TwoChildren(t, n) THEN Step(t, n, "right") ELSE n

(* del_color.  (Mutant: the color of the node that is erased.)             *)
ErasedColor(t, n) == t.color[n]
DelColor(t, n) == t.color[Spliced(t, n)]

(* Unlink n, which has a NULL child.                                       *)
UnlinkOuter(t, n) ==
    Transplant(t, n, t.child[n][IF t.child[n]["left"] = NIL THEN "right" ELSE "left"])

(* Unlink n, whose place its successor takes.                              *)
UnlinkInner(t, n) ==
    LET d  == Spliced(t, n)
        r  == t.child[n]["right"]
        t1 == IF d = r THEN t
              ELSE SetParent(SetChild(UnlinkOuter(t, d), d, "right", r), r, d)
        l  == t1.child[n]["left"]
    IN  SetColor(SetChild(SetParent(Transplant(t1, n, d), l, d), d, "left", l), d, t.color[n])

(* pdel_node, the parent of the place that disappears, which is never n.   *)
DelParent(t, n) ==
    LET d == Spliced(t, n) IN IF t.parent[d] = n THEN d ELSE t.parent[d]

RbErase(n) ==
    /\ pc = "idle"
    /\ n \in InTree(rbt)
    /\ LET d == Spliced(rbt, n)
           x == rbt.child[d][IF rbt.child[d]["left"] = NIL THEN "right" ELSE "left"]
       IN  /\ rbt' = MakeOrphan(IF d = n THEN UnlinkOuter(rbt, n) ELSE UnlinkInner(rbt, n), n)
           /\ IF DelColor(rbt, n) = "BLACK"
              THEN /\ pc' = "delete" /\ fixnode' = x
                   /\ pnode' = DelParent(rbt, n)
                   /\ is_right' = IsChild(rbt, d, "right")
              ELSE UNCHANGED <<pc, fixnode, pnode, is_right>>

(* rb_delete_fixup's loop: the paths through node lack one black.          *)
DeleteParent == IF fixnode = NIL THEN pnode ELSE rbt.parent[fixnode]
DeleteSide ==
    IF fixnode = NIL THEN (IF is_right THEN "right" ELSE "left") ELSE SideOf(rbt, fixnode)

DeleteLoop ==
    /\ pc = "delete" /\ pnode # NIL
    /\ ~IsRoot(rbt, fixnode) /\ ~IsRed(rbt, fixnode)
    /\ rbt.child[DeleteParent][Other(DeleteSide)] # NIL

(* Case 1: a red sibling is rotated away first.                            *)
AfterCase1 ==
    LET p == DeleteParent
        w == rbt.child[p][Other(DeleteSide)]
    IN  IF IsRed(rbt, w)
        THEN Rotate(SetColor(SetColor(rbt, w, "BLACK"), p, "RED"), p, DeleteSide)
        ELSE rbt

Sibling == AfterCase1.child[DeleteParent][Other(DeleteSide)]
NephewsBlack == \A s \in Sides : ~IsRed(AfterCase1, AfterCase1.child[Sibling][s])

(* Case 2: the sibling's children are black.                               *)
DeleteRecolor ==
    /\ DeleteLoop
    /\ NephewsBlack
    /\ rbt' = SetColor(AfterCase1, Sibling, "RED")
    /\ fixnode' = DeleteParent
    /\ UNCHANGED <<pc, pnode, is_right>>

(* Cases 3 and 4: one of them is red.                                      *)
DeleteRotate ==
    /\ DeleteLoop
    /\ ~NephewsBlack
    /\ LET s  == DeleteSide
           p  == DeleteParent
           w0 == Sibling
           t0 == AfterCase1
           near == ~IsRed(t0, t0.child[w0][Other(s)])
           t  == IF near
                 THEN Rotate(SetColor(SetColor(t0, w0, "RED"), t0.child[w0][s], "BLACK"),
                             w0, Other(s))
                 ELSE t0
           w  == IF near THEN t.parent[w0] ELSE w0
           t1 == SetColor(SetColor(t, w, t.color[p]), p, "BLACK")
           t2 == Rotate(SetColor(t1, t1.child[w][Other(s)], "BLACK"), p, s)
       IN  rbt' = t2 /\ fixnode' = t2.root
    /\ UNCHANGED <<pc, pnode, is_right>>

(* The loop is over, was not entered, or found no sibling.                 *)
DeleteDone ==
    /\ pc = "delete" /\ ~DeleteLoop
    /\ LET n == IF pnode = NIL \/ IsRoot(rbt, fixnode) \/ IsRed(rbt, fixnode)
                THEN fixnode ELSE rbt.root
       IN  rbt' = IF n = NIL THEN rbt ELSE SetColor(rbt, n, "BLACK")
    /\ pc' = "idle" /\ fixnode' = NIL /\ pnode' = NIL /\ is_right' = FALSE

(* rb_destroy frees every node; whoever uses them again calls rb_node_init.*)
RbDestroy ==
    /\ pc = "idle"
    /\ rbt' = [root |-> NIL, child |-> [n \in RbNodes |-> Leaf],
               parent |-> [n \in RbNodes |-> n], color |-> [n \in RbNodes |-> "RED"]]
    /\ UNCHANGED <<pc, fixnode, pnode, is_right>>

-----------------------------------------------------------------------------
RbNext ==
    \/ \E n \in RbNodes : RbInsert(n) \/ RbErase(n)
    \/ RbDestroy
    \/ InsertRecolor \/ InsertRotate \/ InsertDone
    \/ DeleteRecolor \/ DeleteRotate \/ DeleteDone

RbSpec == RbInit /\ [][RbNext]_rbVars

-----------------------------------------------------------------------------
(* Properties                                                              *)

(* Every variable has its type, and a fixup works at nodes of the tree.    *)
Trees == [root : RbLinks, child : [RbNodes -> [Sides -> RbLinks]], parent : [RbNodes -> RbLinks],
          color : [RbNodes -> Colors]]
RbTypeOK ==
    /\ rbt \in Trees
    /\ pc \in {"idle", "insert", "delete"}
    /\ {fixnode, pnode} \subseteq InTree(rbt) \cup {NIL}
    /\ is_right \in BOOLEAN

(* The links of the tree match, at every step of every fixup: a child's    *)
(* parent is the node that holds it, and a node in the tree is the root or *)
(* held by its parent, on one side only.                                   *)
LinksOf(t) ==
    /\ t.root # NIL => t.parent[t.root] = NIL
    /\ \A n \in RbNodes, s \in Sides : t.child[n][s] # NIL => t.parent[t.child[n][s]] = n
    /\ \A n \in InTree(t) :
          IF t.parent[n] = NIL
          THEN t.root = n
          ELSE /\ t.parent[n] \in InTree(t)
               /\ (t.child[t.parent[n]]["left"] = n) # (t.child[t.parent[n]]["right"] = n)
LinksMatch == LinksOf(rbt)

(* Red-black properties 2 and 4 (rbtree.c:9-13) and what the fixups keep   *)
(* of them: between calls the root is black and a red node has black       *)
(* children; while rb_insert_fixup runs, the only red node whose parent    *)
(* is not black is its node; while rb_delete_fixup runs, the only red      *)
(* nodes with red parents are its node and its node's children.            *)
Fixing(n) == pc # "idle" /\ n = fixnode
RedsApart ==
    \A n \in InTree(rbt) : IsRed(rbt, n) /\ ~Fixing(n) =>
        LET p == rbt.parent[n] IN p # NIL /\ (IsRed(rbt, p) => pc = "delete" /\ Fixing(p))

(* Red-black property 5 and what the fixups keep of it: every path from    *)
(* the root to a leaf has the same number of black nodes, where the node   *)
(* that rb_delete_fixup works at, which may be a NULL leaf, counts one     *)
(* more.                                                                   *)
Lacking(n) == IF pc = "delete" /\ n = fixnode THEN 1 ELSE 0
LackingLeaf(n, s) ==
    IF pc = "delete" /\ fixnode = NIL /\ pnode = n /\ (s = "right") = is_right THEN 1 ELSE 0
EvenBlacks ==
    LET blacks[n \in RbNodes] ==
            {k + Lacking(n) + (IF IsRed(rbt, n) THEN 0 ELSE 1) :
                k \in UNION {LET c == rbt.child[n][s]
                             IN IF c = NIL THEN {LackingLeaf(n, s)} ELSE blacks[c] : s \in Sides}}
    IN  rbt.root # NIL => Cardinality(blacks[rbt.root]) = 1

(* All four: what an insertion or erasure in progress must not lose.       *)
RedBlack == RbTypeOK /\ LinksMatch /\ RedsApart /\ EvenBlacks

(* The nodes of a tree from left to right.                                 *)
InOrderOf(t) ==
    LET list[n \in RbLinks] ==
            IF n = NIL THEN <<>>
            ELSE list[t.child[n]["left"]] \o <<n>> \o list[t.child[n]["right"]]
    IN  list[t.root]
InOrder == InOrderOf(rbt)

OL == INSTANCE OrderedList WITH Nodes <- RbNodes, seq <- InOrder

(* The tree is an ordered list of its nodes: a node is inserted after its  *)
(* last equal, erasing a node moves no other, and no rotation changes the  *)
(* order.                                                                  *)
ImplementsOrderedList == OL!Spec

(* Between calls rb_first and rb_next, and rb_last and rb_prev, go through *)
(* all the nodes in order, and a search finds a node of the key if there   *)
(* is one.                                                                 *)
LookupsAgree ==
    pc = "idle" =>
        LET list == InOrder
            At(i) == IF i \in DOMAIN list THEN list[i] ELSE NIL
        IN  /\ Outermost(rbt, rbt.root, "left") = At(1)
            /\ Outermost(rbt, rbt.root, "right") = At(Len(list))
            /\ \A i \in DOMAIN list : /\ Step(rbt, list[i], "right") = At(i + 1)
                                      /\ Step(rbt, list[i], "left") = At(i - 1)
            /\ \A n \in RbNodes :
                  LET m == Search(rbt, Key[n])
                  IN IF m = NIL THEN \A i \in DOMAIN list : Key[list[i]] # Key[n]
                                 ELSE m \in InTree(rbt) /\ Key[m] = Key[n]
=============================================================================
