---------------------------- MODULE RBTreeProofs ----------------------------
(***************************************************************************)
(* Proofs about RBTree, for any finite number of nodes and any keys.       *)
(***************************************************************************)
EXTENDS RBTree, FiniteSetTheorems, SequenceTheorems, TLAPS

(* The fields of t.  They stay unexpanded but in the lemmas on the setters.*)
Top(t) == t.root
Kid(t, n, s) == t.child[n][s]
Up(t, n) == t.parent[n]
Hue(t, n) == t.color[n]

(* Whoever climbs from a node leaves every set of nodes: there is no cycle.*)
Rooted(t) == \A S \in SUBSET InTree(t) : S # {} => \E n \in S : Up(t, n) \notin S

(* Every link has its counterpart, and nothing hangs below an orphan.      *)
Woven(t) ==
    /\ \A n \in RbNodes, s \in Sides : Kid(t, n, s) # NIL =>
          Up(t, Kid(t, n, s)) = n /\ Kid(t, n, Other(s)) # Kid(t, n, s)
    /\ Top(t) # NIL => Up(t, Top(t)) = NIL
    /\ \A n \in RbNodes :
          IF Up(t, n) = NIL THEN Top(t) = n
          ELSE Up(t, n) # n => \E s \in Sides : Kid(t, Up(t, n), s) = n
    /\ \A n \in RbNodes, s \in Sides : Up(t, n) = n => Kid(t, n, s) = NIL

Linked(t) == t \in Trees /\ Woven(t) /\ Rooted(t)

LEMMA SidesTwo ==
    /\ \A s \in Sides : Other(s) \in Sides /\ Other(s) # s /\ Other(Other(s)) = s
    /\ \A s \in Sides, q \in Sides : q # s => q = Other(s)
BY DEF Sides, Other

LEMMA TreeParts ==
    ASSUME NEW t \in Trees
    PROVE  /\ Top(t) \in RbLinks
           /\ \A n \in RbNodes, s \in Sides : Kid(t, n, s) \in RbLinks
           /\ \A n \in RbNodes : Up(t, n) \in RbLinks /\ Hue(t, n) \in Colors
BY DEF Trees, Top, Kid, Up, Hue

LEMMA InTreeIs == \A t : \A n : n \in InTree(t) <=> n \in RbNodes /\ Up(t, n) # n
BY DEF InTree, Up

-----------------------------------------------------------------------------
(* What the setters do to a tree t: u is what comes of it.                 *)

SameKids(u, t) == \A m \in RbNodes, q \in Sides : Kid(u, m, q) = Kid(t, m, q)
SameUps(u, t) == \A m \in RbNodes : Up(u, m) = Up(t, m)
SameHues(u, t) == \A m \in RbNodes : Hue(u, m) = Hue(t, m)

WithChild(u, t, n, s, c) ==
    /\ u \in Trees /\ Top(u) = Top(t) /\ SameUps(u, t) /\ SameHues(u, t)
    /\ \A m \in RbNodes, q \in Sides :
          Kid(u, m, q) = IF m = n /\ q = s THEN c ELSE Kid(t, m, q)

WithParent(u, t, n, p) ==
    /\ u \in Trees /\ Top(u) = Top(t) /\ SameKids(u, t) /\ SameHues(u, t)
    /\ \A m \in RbNodes : Up(u, m) = IF m = n THEN p ELSE Up(t, m)

WithColor(u, t, n, c) ==
    /\ u \in Trees /\ Top(u) = Top(t) /\ SameKids(u, t) /\ SameUps(u, t)
    /\ \A m \in RbNodes : Hue(u, m) = IF m = n THEN c ELSE Hue(t, m)

WithRoot(u, t, v) ==
    u \in Trees /\ Top(u) = v /\ SameKids(u, t) /\ SameUps(u, t) /\ SameHues(u, t)

Orphaned(u, t, n) ==
    /\ u \in Trees /\ Top(u) = Top(t)
    /\ \A m \in RbNodes, q \in Sides : Kid(u, m, q) = IF m = n THEN NIL ELSE Kid(t, m, q)
    /\ \A m \in RbNodes : Up(u, m) = IF m = n THEN n ELSE Up(t, m)
    /\ \A m \in RbNodes : Hue(u, m) = IF m = n THEN "RED" ELSE Hue(t, m)

(* v takes the place of n, whose parent is p.                              *)
Replaced(w, t, n, v, p) ==
    /\ w \in Trees /\ SameHues(w, t)
    /\ Top(w) = IF p = NIL THEN v ELSE Top(t)
    /\ \A m \in RbNodes, q \in Sides :
          Kid(w, m, q) = IF m = p /\ Kid(t, m, q) = n THEN v ELSE Kid(t, m, q)
    /\ \A m \in RbNodes : Up(w, m) = IF m = v THEN p ELSE Up(t, m)

LEMMA SetChildIs ==
    ASSUME NEW t \in Trees, NEW n \in RbNodes, NEW s \in Sides, NEW c \in RbLinks
    PROVE  WithChild(SetChild(t, n, s, c), t, n, s, c)
BY DEF SetChild, Trees, WithChild, SameUps, SameHues, Top, Kid, Up, Hue

LEMMA SetParentIs ==
    ASSUME RbAssumption, NEW t \in Trees, NEW n \in RbLinks, NEW p \in RbLinks
    PROVE  WithParent(SetParent(t, n, p), t, n, p)
BY DEF SetParent, Trees, RbLinks, RbAssumption, WithParent, SameKids, SameHues, Top, Kid, Up, Hue

LEMMA SetColorIs ==
    ASSUME NEW t \in Trees, NEW n \in RbNodes, NEW c \in Colors
    PROVE  WithColor(SetColor(t, n, c), t, n, c)
BY DEF SetColor, Trees, WithColor, SameKids, SameUps, Top, Kid, Up, Hue

LEMMA SetRootIs ==
    ASSUME NEW t \in Trees, NEW v \in RbLinks
    PROVE  WithRoot([t EXCEPT !.root = v], t, v)
BY DEF Trees, WithRoot, SameKids, SameUps, SameHues, Top, Kid, Up, Hue

LEMMA MakeOrphanIs ==
    ASSUME NEW t \in Trees, NEW n \in RbNodes
    PROVE  Orphaned(MakeOrphan(t, n), t, n)
BY DEF MakeOrphan, Trees, RbLinks, Colors, Leaf, Orphaned, Top, Kid, Up, Hue

(* The place of n in t: the root, or one side of its parent.               *)
Held(t, n) ==
    \/ Up(t, n) = NIL
    \/ /\ Up(t, n) \in RbNodes
       /\ \E q \in Sides : Kid(t, Up(t, n), q) = n /\ Kid(t, Up(t, n), Other(q)) # n

LEMMA SideOfHeld ==
    ASSUME RbAssumption, NEW t \in Trees, NEW n \in RbNodes, Held(t, n), Up(t, n) # NIL
    PROVE  /\ Up(t, n) \in RbNodes /\ SideOf(t, n) \in Sides
           /\ \A s \in Sides : Kid(t, Up(t, n), s) = n <=> s = SideOf(t, n)
<1> DEFINE p == Up(t, n)
           s == SideOf(t, n)
<1>1. n # NIL /\ p \in RbNodes
  BY DEF Held, RbAssumption
<1>2. PICK q \in Sides : Kid(t, p, q) = n /\ Kid(t, p, Other(q)) # n
  BY DEF Held
<1>3. s = IF Kid(t, p, "left") = n THEN "left" ELSE "right"
  BY <1>1 DEF SideOf, IsChild, IsRoot, Up, Kid
<1>4. s \in Sides /\ Kid(t, p, s) = n
  BY <1>2, <1>3 DEF Sides
<1> QED BY <1>1, <1>2, <1>4, SidesTwo

LEMMA LinkedHeld ==
    ASSUME RbAssumption, NEW t, Linked(t), NEW n \in InTree(t)
    PROVE  t \in Trees /\ n \in RbNodes /\ Held(t, n)
BY TreeParts, InTreeIs DEF Linked, RbAssumption, Woven, Held, RbLinks

LEMMA TransplantIs ==
    ASSUME RbAssumption, NEW t \in Trees, NEW n \in RbNodes, Held(t, n), NEW v \in RbLinks
    PROVE  Replaced(Transplant(t, n, v), t, n, v, Up(t, n))
<1> DEFINE p == Up(t, n)
           w == Transplant(t, n, v)
<1>1. /\ t \in Trees /\ n \in RbNodes /\ p \in RbLinks /\ n # NIL /\ NIL \notin RbNodes
  BY TreeParts DEF RbAssumption
<1>2. CASE p = NIL
  <2> DEFINE w0 == [t EXCEPT !.root = v]
  <2>1. WithRoot(w0, t, v)
    BY <1>1, SetRootIs
  <2>2. w = SetParent(w0, v, p)
    BY <1>1, <1>2 DEF Transplant, IsRoot, Up
  <2>3. w0 \in Trees
    BY <2>1 DEF WithRoot
  <2> HIDE DEF w0, w
  <2>4. WithParent(w, w0, v, p)
    BY <1>1, <2>2, <2>3, SetParentIs
  <2>5. \A m \in RbNodes : m # p
    BY <1>1, <1>2
  <2> HIDE DEF p
  <2>6. Replaced(w, t, n, v, p)
    BY <1>2, <2>1, <2>4, <2>5 DEF WithParent, WithRoot, Replaced, SameKids, SameUps, SameHues
  <2> QED
    BY <2>6 DEF w, p
<1>3. CASE p # NIL
  <2> DEFINE s == SideOf(t, n)
             w0 == SetChild(t, p, s, v)
  <2>1. p \in RbNodes /\ s \in Sides /\ \A q \in Sides : Kid(t, p, q) = n <=> q = s
    BY <1>3, SideOfHeld
  <2>2. w = SetParent(w0, v, p)
    BY <1>1, <1>3 DEF Transplant, IsRoot, Up
  <2> HIDE DEF s, w
  <2>4. WithChild(w0, t, p, s, v)
    BY <1>1, <2>1, SetChildIs
  <2>5. w0 \in Trees
    BY <2>4 DEF WithChild
  <2> HIDE DEF w0
  <2>6. WithParent(w, w0, v, p)
    BY <1>1, <2>2, <2>5, SetParentIs
  <2> HIDE DEF p
  <2>7. \A m \in RbNodes, q \in Sides :
           Kid(w, m, q) = IF m = p /\ Kid(t, m, q) = n THEN v ELSE Kid(t, m, q)
    BY <2>1, <2>4, <2>6 DEF WithParent, WithChild, SameKids
  <2>8. Replaced(w, t, n, v, p)
    BY <1>3, <2>4, <2>6, <2>7 DEF WithParent, WithChild, Replaced, SameUps, SameHues
  <2> QED
    BY <2>8 DEF w, p
<1> QED
  BY <1>2, <1>3

(* No node is below itself.                                                *)
LEMMA NoTwoCycle ==
    ASSUME RbAssumption, NEW t, Linked(t), NEW n \in InTree(t), Up(t, n) # NIL
    PROVE  /\ Up(t, n) \in InTree(t) /\ Up(t, n) # n
           /\ Up(t, Up(t, n)) # n
<1> DEFINE p == Up(t, n)
<1>1. n \in RbNodes /\ p \in RbNodes /\ p # n
  BY TreeParts, InTreeIs DEF Linked, RbLinks
<1>2. \E s \in Sides : Kid(t, p, s) = n
  BY <1>1 DEF Linked, Woven
<1>3. p \in InTree(t)
  <2>1. NIL \notin RbNodes /\ Woven(t)
    BY DEF RbAssumption, Linked
  <2> QED BY <1>1, <1>2, <2>1, InTreeIs DEF Woven
<1>4. ASSUME Up(t, p) = n PROVE FALSE
  <2>1. {n, p} \in SUBSET InTree(t) /\ {n, p} # {}
    BY <1>3
  <2>2. \E m \in {n, p} : Up(t, m) \notin {n, p}
    BY <2>1 DEF Linked, Rooted
  <2> QED BY <1>4, <2>2
<1> QED
  BY <1>1, <1>3, <1>4

-----------------------------------------------------------------------------
(* A rotation: new, on the other side of r, takes its place.               *)
Rotated(u, t, r, s, new, mid) ==
    /\ u \in Trees
    /\ Top(u) = IF Up(t, r) = NIL THEN new ELSE Top(t)
    /\ \A m \in RbNodes, q \in Sides :
          Kid(u, m, q) = IF m = r /\ q = Other(s) THEN mid
                          ELSE IF m = new /\ q = s THEN r
                          ELSE IF m = Up(t, r) /\ Kid(t, m, q) = r THEN new
                          ELSE Kid(t, m, q)
    /\ \A m \in RbNodes :
          Up(u, m) = IF m = r THEN new ELSE IF m = new THEN Up(t, r)
                        ELSE IF m = mid THEN r ELSE Up(t, m)

(* What is known of the nodes at which t is rotated.                       *)
Rotatable(t, r, s, new, mid) ==
    /\ r \in InTree(t) /\ s \in Sides /\ new \in InTree(t) /\ mid \in RbLinks
    /\ new = Kid(t, r, Other(s)) /\ mid = Kid(t, new, s)
    /\ Up(t, new) = r /\ Up(t, r) # r /\ Up(t, r) # new /\ Up(t, r) \in RbLinks
    /\ new # r /\ mid # new /\ mid # r
    /\ mid # NIL => mid \in InTree(t) /\ Up(t, mid) = new

LEMMA RotatableHere ==
    ASSUME RbAssumption, NEW t, Linked(t), NEW r \in InTree(t), NEW s \in Sides,
           Kid(t, r, Other(s)) # NIL
    PROVE  Rotatable(t, r, s, Kid(t, r, Other(s)), Kid(t, Kid(t, r, Other(s)), s))
<1> DEFINE new == Kid(t, r, Other(s))
           mid == Kid(t, new, s)
<1>1. /\ NIL \notin RbNodes /\ Other(s) \in Sides
      /\ r \in RbNodes /\ new \in RbNodes /\ mid \in RbLinks /\ Up(t, r) \in RbLinks
      /\ Up(t, r) # r
  BY TreeParts, InTreeIs, SidesTwo DEF Linked, RbAssumption, RbLinks
<1>2. Up(t, new) = r /\ (mid # NIL => Up(t, mid) = new)
  BY <1>1 DEF Linked, Woven
<1>3. new # r /\ new \in InTree(t)
  BY <1>1, <1>2, InTreeIs
<1>4. Up(t, r) # new
  BY <1>1, <1>2, <1>3, NoTwoCycle
<1>5. mid # NIL => mid \in InTree(t) /\ mid # new
  BY <1>1, <1>2, <1>3, InTreeIs DEF RbLinks
<1>6. mid # r /\ mid # new
  BY <1>1, <1>2, <1>3, <1>4, <1>5
<1> QED
  BY <1>1, <1>2, <1>3, <1>4, <1>5, <1>6 DEF Rotatable

LEMMA RotateIs ==
    ASSUME RbAssumption, NEW t, Linked(t), NEW r, NEW s, NEW new, NEW mid,
           Rotatable(t, r, s, new, mid)
    PROVE  Rotated(Rotate(t, r, s), t, r, s, new, mid) /\ SameHues(Rotate(t, r, s), t)
<1> DEFINE p  == Up(t, r)
           up == Transplant(t, r, new)
           u1 == SetChild(up, r, Other(s), mid)
           u2 == SetChild(u1, new, s, r)
           u3 == SetParent(u2, mid, r)
           u4 == SetParent(u3, r, new)
<1>1. /\ t \in Trees /\ r \in RbNodes /\ mid \in RbLinks /\ NIL \notin RbNodes /\ r \in RbLinks
      /\ s \in Sides /\ Other(s) \in Sides /\ Other(s) # s /\ new \in RbLinks /\ new \in RbNodes
      /\ r \in InTree(t)
  BY InTreeIs, SidesTwo DEF Linked, RbAssumption, RbLinks, Rotatable
<1>2. new # r /\ mid # r /\ mid # new /\ p # r /\ p # new
  BY DEF Rotatable
<1>3. Rotate(t, r, s) = u4
  BY DEF Rotate, Rotatable, Kid, Up
<1> HIDE DEF u4
<1>4. Replaced(up, t, r, new, p)
  BY <1>1, LinkedHeld, TransplantIs
<1>5. up \in Trees
  BY <1>4 DEF Replaced
<1> HIDE DEF up, p
<1>6. WithChild(u1, up, r, Other(s), mid)
  BY <1>1, <1>5, SetChildIs
<1>7. u1 \in Trees
  BY <1>6 DEF WithChild
<1> HIDE DEF u1
<1>8. WithChild(u2, u1, new, s, r)
  BY <1>1, <1>7, SetChildIs
<1>9. u2 \in Trees
  BY <1>8 DEF WithChild
<1> HIDE DEF u2
<1>10. WithParent(u3, u2, mid, r)
  BY <1>1, <1>9, SetParentIs
<1>11. u3 \in Trees
  BY <1>10 DEF WithParent
<1> HIDE DEF u3
<1>12. WithParent(u4, u3, r, new)
  BY <1>1, <1>11, SetParentIs DEF u4
<1>13. /\ u4 \in Trees /\ SameHues(u4, t)
       /\ Top(u4) = IF p = NIL THEN new ELSE Top(t)
  BY <1>4, <1>6, <1>8, <1>10, <1>12 DEF WithChild, WithParent, Replaced, SameKids, SameUps, SameHues
<1>14. ASSUME NEW m \in RbNodes, NEW q \in Sides
       PROVE  Kid(u4, m, q) = IF m = r /\ q = Other(s) THEN mid
                               ELSE IF m = new /\ q = s THEN r
                               ELSE IF m = p /\ Kid(t, m, q) = r THEN new
                               ELSE Kid(t, m, q)
  BY <1>2, <1>4, <1>6, <1>8, <1>10, <1>12 DEF WithChild, WithParent, Replaced, SameKids, SameUps, SameHues
<1>15. ASSUME NEW m \in RbNodes
       PROVE  Up(u4, m) = IF m = r THEN new ELSE IF m = new THEN p
                             ELSE IF m = mid THEN r ELSE Up(t, m)
  BY <1>2, <1>4, <1>6, <1>8, <1>10, <1>12 DEF WithChild, WithParent, Replaced, SameKids, SameUps, SameHues
<1> QED
  BY <1>3, <1>13, <1>14, <1>15 DEF Rotated, p

LEMMA RotatedLinked ==
    ASSUME RbAssumption, NEW t, Linked(t), NEW u, NEW r, NEW s, NEW new, NEW mid,
           Rotatable(t, r, s, new, mid), Rotated(u, t, r, s, new, mid)
    PROVE  Linked(u) /\ InTree(u) = InTree(t)
<1> DEFINE p == Up(t, r)
           o == Other(s)
<1>1. /\ t \in Trees /\ r \in RbNodes /\ mid \in RbLinks /\ NIL \notin RbNodes /\ p \in RbLinks
      /\ s \in Sides /\ o \in Sides /\ o # s /\ Other(o) = s /\ Other(s) = o
      /\ p = Up(t, r) /\ new \in RbNodes /\ \A q \in Sides : q = s \/ q = o
      /\ new # r /\ mid # r /\ mid # new /\ p # r /\ p # new /\ r # NIL /\ new # NIL
      /\ new = Kid(t, r, o) /\ mid = Kid(t, new, s) /\ Up(t, new) = r
      /\ mid # NIL => mid \in InTree(t) /\ Up(t, mid) = new
  BY InTreeIs, TreeParts, SidesTwo DEF Linked, RbAssumption, Rotatable
<1>2. /\ \A m \in RbNodes, q \in Sides : Kid(t, m, q) # NIL =>
            Up(t, Kid(t, m, q)) = m /\ Kid(t, m, Other(q)) # Kid(t, m, q)
      /\ Top(t) # NIL => Up(t, Top(t)) = NIL
      /\ \A n \in RbNodes : Up(t, n) = NIL => Top(t) = n
      /\ \A n \in RbNodes : Up(t, n) # NIL /\ Up(t, n) # n =>
            \E q \in Sides : Kid(t, Up(t, n), q) = n
      /\ \A n \in RbNodes, q \in Sides : Up(t, n) = n => Kid(t, n, q) = NIL
  BY DEF Linked, Woven
<1>3. /\ \A m \in RbNodes, q \in Sides : Kid(t, m, q) \in RbLinks
      /\ \A m \in RbNodes : Up(t, m) \in RbLinks
  BY <1>1, TreeParts
<1>4. /\ \A m \in RbNodes, q \in Sides :
            Kid(u, m, q) = IF m = r /\ q = o THEN mid
                            ELSE IF m = new /\ q = s THEN r
                            ELSE IF m = p /\ Kid(t, m, q) = r THEN new
                            ELSE Kid(t, m, q)
      /\ \A m \in RbNodes :
            Up(u, m) = IF m = r THEN new ELSE IF m = new THEN p
                          ELSE IF m = mid THEN r ELSE Up(t, m)
      /\ Top(u) = IF p = NIL THEN new ELSE Top(t)
      /\ u \in Trees
  BY DEF Rotated
<1> HIDE DEF p, o
<1>5. InTree(u) = InTree(t)
  <2>1. ASSUME NEW m \in RbNodes PROVE Up(u, m) = m <=> Up(t, m) = m
    BY <1>1, <1>4
  <2> QED BY <2>1, InTreeIs
<1>6. ASSUME NEW m \in RbNodes, NEW q \in Sides, Kid(u, m, q) # NIL
      PROVE  Up(u, Kid(u, m, q)) = m /\ Kid(u, m, Other(q)) # Kid(u, m, q)
  <2>1. CASE m = r /\ q = o
    <3>1. Kid(u, m, q) = mid /\ Kid(u, m, Other(q)) = Kid(t, r, s) /\ mid \in RbNodes
      BY <1>1, <1>4, <1>6, <2>1 DEF RbLinks
    <3>2. Kid(t, r, s) # mid
      BY <1>1, <1>2, <3>1
    <3> QED BY <1>1, <1>4, <2>1, <3>1, <3>2
  <2>2. CASE m = r /\ q = s
    <3>1. Kid(u, m, q) = Kid(t, r, s) /\ Kid(u, m, Other(q)) = mid
      BY <1>1, <1>4, <2>2
    <3>2. Kid(t, r, s) # mid /\ Kid(t, r, s) # new /\ Kid(t, r, s) # r /\ Kid(t, r, s) \in RbNodes
      BY <1>1, <1>2, <1>3, <1>6, <3>1 DEF RbLinks
    <3>3. Up(t, Kid(t, r, s)) = r
      BY <1>1, <1>2, <3>2
    <3> QED BY <1>4, <2>2, <3>1, <3>2, <3>3
  <2>3. CASE m = new /\ q = s
    <3>1. Kid(u, m, q) = r /\ Kid(u, m, Other(q)) = Kid(t, new, o)
      BY <1>1, <1>4, <2>3
    <3>2. Kid(t, new, o) # r
      BY <1>1, <1>2
    <3> QED BY <1>1, <1>4, <2>3, <3>1, <3>2
  <2>4. CASE m = new /\ q = o
    <3>1. Kid(u, m, q) = Kid(t, new, q) /\ Kid(u, m, Other(q)) = r
      BY <1>1, <1>4, <2>4
    <3>2. /\ Kid(t, new, q) # mid /\ Kid(t, new, q) # new /\ Kid(t, new, q) # r
          /\ Kid(t, new, q) \in RbNodes /\ Up(t, Kid(t, new, q)) = new
      BY <1>1, <1>2, <1>3, <1>6, <2>4, <3>1 DEF RbLinks
    <3> QED BY <1>4, <2>4, <3>1, <3>2
  <2>5. CASE m # r /\ m # new
    <3>1. CASE m = p /\ Kid(t, m, q) = r
      <4>1. Kid(u, m, q) = new /\ Up(u, new) = m
        BY <1>1, <1>4, <2>5, <3>1
      <4>2. Kid(t, m, Other(q)) # r /\ Kid(t, m, Other(q)) # new
        BY <1>1, <1>2, <2>5, <3>1
      <4>3. Kid(u, m, Other(q)) = Kid(t, m, Other(q))
        BY <1>1, <1>4, <2>5, <3>1, <4>2
      <4> QED BY <4>1, <4>2, <4>3
    <3>2. CASE ~(m = p /\ Kid(t, m, q) = r)
      <4>1. Kid(u, m, q) = Kid(t, m, q) /\ Kid(t, m, q) \in RbNodes
        BY <1>1, <1>3, <1>4, <1>6, <2>5, <3>2 DEF RbLinks
      <4>2. /\ Up(t, Kid(t, m, q)) = m /\ Kid(t, m, q) # r /\ Kid(t, m, q) # new
            /\ Kid(t, m, q) # mid
        BY <1>1, <1>2, <1>6, <2>5, <3>2, <4>1
      <4>3. Up(u, Kid(t, m, q)) = m
        BY <1>4, <4>1, <4>2
      <4>4. Kid(u, m, Other(q)) # Kid(t, m, q)
        BY <1>1, <1>2, <1>4, <1>6, <2>5, <4>1, <4>2
      <4> QED BY <4>1, <4>3, <4>4
    <3> QED BY <3>1, <3>2
  <2> QED BY <1>1, <2>1, <2>2, <2>3, <2>4, <2>5
<1>7. Top(u) # NIL => Up(u, Top(u)) = NIL
  <2>1. CASE p = NIL
    BY <1>1, <1>4, <2>1
  <2>2. CASE p # NIL /\ Top(t) # NIL
    <3>1. Top(t) \in RbNodes /\ Up(t, Top(t)) = NIL
      BY <1>1, <1>2, <2>2, TreeParts DEF RbLinks
    <3>2. Top(t) # r /\ Top(t) # new /\ Top(t) # mid
      BY <1>1, <2>2, <3>1
    <3> QED BY <1>4, <2>2, <3>1, <3>2
  <2> QED BY <1>4, <2>1, <2>2
<1>8. ASSUME NEW n \in RbNodes
      PROVE  /\ Up(u, n) = NIL => Top(u) = n
             /\ Up(u, n) # NIL /\ Up(u, n) # n => \E q \in Sides : Kid(u, Up(u, n), q) = n
             /\ \A q \in Sides : Up(u, n) = n => Kid(u, n, q) = NIL
  <2>1. CASE n = r
    BY <1>1, <1>4, <2>1
  <2>2. CASE n = new
    <3>1. Up(u, n) = p
      BY <1>1, <1>4, <2>2
    <3>2. CASE p # NIL
      <4>1. PICK q \in Sides : Kid(t, p, q) = r
        BY <1>1, <1>2, <3>2
      <4>2. p \in RbNodes
        BY <1>1, <3>2 DEF RbLinks
      <4>3. Kid(u, p, q) = new
        BY <1>1, <1>4, <4>1, <4>2
      <4> QED BY <1>1, <2>2, <3>1, <3>2, <4>3
    <3> QED BY <1>1, <1>4, <2>2, <3>1, <3>2
  <2>3. CASE n = mid
    <3>1. Up(u, n) = r /\ Kid(u, r, o) = n
      BY <1>1, <1>4, <2>3
    <3> QED BY <1>1, <2>3, <3>1
  <2>4. CASE n # r /\ n # new /\ n # mid
    <3>1. Up(u, n) = Up(t, n)
      BY <1>4, <2>4
    <3>2. CASE Up(t, n) = NIL
      <4>1. Top(t) = n
        BY <1>2, <3>2
      <4>2. p # NIL
        BY <1>1, <1>2, <2>4, <4>1
      <4> QED BY <1>1, <1>4, <3>1, <3>2, <4>1, <4>2
    <3>3. CASE Up(t, n) # NIL /\ Up(t, n) # n
      <4>1. PICK q \in Sides : Kid(t, Up(t, n), q) = n
        BY <1>2, <3>3
      <4>2. Up(t, n) \in RbNodes
        BY <1>3, <3>3 DEF RbLinks
      <4>3. Kid(u, Up(t, n), q) = n
        BY <1>1, <1>4, <2>4, <4>1, <4>2
      <4> QED BY <3>1, <3>3, <4>3
    <3>4. CASE Up(t, n) = n
      <4>1. \A q \in Sides : Kid(t, n, q) = NIL
        BY <1>2, <3>4
      <4>2. \A q \in Sides : Kid(u, n, q) = NIL
        BY <1>1, <1>4, <2>4, <4>1
      <4> QED BY <1>1, <3>1, <3>4, <4>2
    <3> QED BY <3>2, <3>3, <3>4
  <2> QED BY <2>1, <2>2, <2>3, <2>4
<1>9. Woven(u)
  BY <1>6, <1>7, <1>8 DEF Woven
<1>10. ASSUME NEW S \in SUBSET InTree(t), S # {} PROVE \E n \in S : Up(u, n) \notin S
  <2>1. \A T \in SUBSET InTree(t) : T # {} => \E n \in T : Up(t, n) \notin T
    BY DEF Linked, Rooted
  <2>2. S \subseteq RbNodes /\ r \in InTree(t) /\ new \in InTree(t)
    BY InTreeIs DEF Rotatable
  <2>3. CASE r \notin S /\ new \notin S
    <3>1. PICK n \in S : Up(t, n) \notin S
      BY <2>1, <1>10
    <3> QED BY <1>4, <2>2, <2>3, <3>1
  <2>4. CASE r \in S \/ new \in S
    <3>1. PICK n \in S \cup {r, new} : Up(t, n) \notin S \cup {r, new}
      BY <2>1, <2>2
    <3>2. n # new /\ n # mid /\ n \in RbNodes
      BY <1>1, <2>2, <3>1
    <3>3. CASE n # r
      BY <1>4, <3>1, <3>2, <3>3
    <3>4. CASE n = r
      BY <1>1, <1>4, <2>4, <3>1, <3>4
    <3> QED BY <3>3, <3>4
  <2> QED BY <2>3, <2>4
<1>11. Rooted(u)
  BY <1>5, <1>10 DEF Rooted
<1> QED
  BY <1>4, <1>5, <1>9, <1>11 DEF Linked

-----------------------------------------------------------------------------
(* The other changes that keep the links.                                  *)

LEMMA LinkedParts ==
    ASSUME RbAssumption, NEW t, Linked(t)
    PROVE  /\ t \in Trees /\ NIL \notin RbNodes /\ Top(t) \in RbLinks
           /\ \A m \in RbNodes, q \in Sides : Kid(t, m, q) \in RbLinks
           /\ \A m \in RbNodes : Up(t, m) \in RbLinks /\ Hue(t, m) \in Colors
           /\ \A m \in RbNodes, q \in Sides : Kid(t, m, q) # NIL =>
                 Up(t, Kid(t, m, q)) = m /\ Kid(t, m, Other(q)) # Kid(t, m, q)
           /\ Top(t) # NIL => Up(t, Top(t)) = NIL
           /\ \A n \in RbNodes : Up(t, n) = NIL => Top(t) = n
           /\ \A n \in RbNodes : Up(t, n) # NIL /\ Up(t, n) # n =>
                 \E q \in Sides : Kid(t, Up(t, n), q) = n
           /\ \A n \in RbNodes, q \in Sides : Up(t, n) = n => Kid(t, n, q) = NIL
           /\ \A S \in SUBSET InTree(t) : S # {} => \E n \in S : Up(t, n) \notin S
BY TreeParts DEF Linked, Woven, Rooted, RbAssumption

(* Only the colors differ.                                                 *)
Painted(u, t) == u \in Trees /\ Top(u) = Top(t) /\ SameKids(u, t) /\ SameUps(u, t)

LEMMA PaintedLinked ==
    ASSUME RbAssumption, NEW t, Linked(t), NEW u, Painted(u, t)
    PROVE  Linked(u) /\ InTree(u) = InTree(t)
<1>1. InTree(u) = InTree(t)
  BY InTreeIs DEF Painted, SameUps
<1>2. Woven(u)
  BY LinkedParts, SidesTwo DEF Painted, SameKids, SameUps, Woven, RbLinks
<1>3. Rooted(u)
  BY <1>1, LinkedParts, InTreeIs DEF Painted, SameUps, Rooted
<1> QED BY <1>1, <1>2, <1>3 DEF Linked, Painted

(* n becomes the child of p on side s, where nothing was, or the root.     *)
Hung(u, t, n, p, s) ==
    /\ u \in Trees /\ Top(u) = IF p = NIL THEN n ELSE Top(t)
    /\ \A m \in RbNodes, q \in Sides :
          Kid(u, m, q) = IF m = p /\ q = s THEN n ELSE Kid(t, m, q)
    /\ \A m \in RbNodes : Up(u, m) = IF m = n THEN p ELSE Up(t, m)
    /\ \A m \in RbNodes : Hue(u, m) = IF m = n THEN "RED" ELSE Hue(t, m)

LEMMA HungLinked ==
    ASSUME RbAssumption, NEW t, Linked(t), NEW n \in RbNodes, n \notin InTree(t), NEW s \in Sides,
           NEW p, IF p = NIL THEN Top(t) = NIL ELSE p \in InTree(t) /\ Kid(t, p, s) = NIL,
           NEW u, Hung(u, t, n, p, s)
    PROVE  Linked(u) /\ InTree(u) = InTree(t) \cup {n}
<1>1. /\ Up(t, n) = n /\ p # n /\ p \in RbLinks /\ n # NIL /\ NIL \notin RbNodes
      /\ p # NIL => p \in InTree(t) /\ Kid(t, p, s) = NIL /\ p \in RbNodes
      /\ p = NIL => Top(t) = NIL
  BY InTreeIs DEF RbLinks, RbAssumption
<1>2. ASSUME NEW m \in RbNodes
      PROVE  Up(t, m) # n \/ m = n
  BY <1>1, LinkedParts
<1>3. /\ \A m \in RbNodes, q \in Sides :
            Kid(u, m, q) = IF m = p /\ q = s THEN n ELSE Kid(t, m, q)
      /\ \A m \in RbNodes : Up(u, m) = IF m = n THEN p ELSE Up(t, m)
      /\ u \in Trees /\ Top(u) = IF p = NIL THEN n ELSE Top(t)
  BY DEF Hung
<1>4. InTree(u) = InTree(t) \cup {n}
  <2>1. \A m \in RbNodes : Up(u, m) # m <=> Up(t, m) # m \/ m = n
    BY <1>1, <1>3
  <2> QED BY <2>1, InTreeIs
<1>5. ASSUME NEW m \in RbNodes, NEW q \in Sides, Kid(u, m, q) # NIL
      PROVE  Up(u, Kid(u, m, q)) = m /\ Kid(u, m, Other(q)) # Kid(u, m, q)
  <2>1. \A r \in Sides : Kid(t, m, r) # n
    BY <1>1, <1>2, LinkedParts
  <2>2. CASE m = p /\ q = s
    <3>1. Kid(u, m, q) = n
      BY <1>3, <2>2
    <3>2. Kid(u, m, Other(q)) = Kid(t, m, Other(q))
      BY <1>3, <2>2, SidesTwo
    <3> QED BY <1>3, <2>1, <2>2, <3>1, <3>2, SidesTwo
  <2>3. CASE ~(m = p /\ q = s)
    <3>1. Kid(u, m, q) = Kid(t, m, q) /\ Kid(t, m, q) # n /\ Kid(t, m, q) \in RbNodes
      BY <1>3, <1>5, <2>1, <2>3, LinkedParts DEF RbLinks
    <3>2. Up(u, Kid(t, m, q)) = m /\ Kid(t, m, Other(q)) # Kid(t, m, q)
      BY <1>3, <1>5, <3>1, LinkedParts
    <3> QED BY <1>3, <3>1, <3>2, SidesTwo
  <2> QED BY <2>2, <2>3
<1>6. Top(u) # NIL => Up(u, Top(u)) = NIL
  BY <1>1, <1>3, LinkedParts DEF RbLinks
<1>7. ASSUME NEW m \in RbNodes
      PROVE  /\ Up(u, m) = NIL => Top(u) = m
             /\ Up(u, m) # NIL /\ Up(u, m) # m => \E q \in Sides : Kid(u, Up(u, m), q) = m
             /\ \A q \in Sides : Up(u, m) = m => Kid(u, m, q) = NIL
  <2>1. CASE m = n
    BY <1>1, <1>3, <2>1
  <2>2. CASE m # n
    <3>1. Up(u, m) = Up(t, m)
      BY <1>3, <2>2
    <3>2. CASE Up(t, m) = NIL
      BY <1>1, <1>3, <2>2, <3>1, <3>2, LinkedParts
    <3>3. CASE Up(t, m) # NIL /\ Up(t, m) # m
      <4>1. PICK q \in Sides : Kid(t, Up(t, m), q) = m
        BY <3>3, LinkedParts
      <4>2. Up(t, m) \in RbNodes
        BY <3>3, LinkedParts DEF RbLinks
      <4>3. Kid(u, Up(t, m), q) = m
        BY <1>1, <1>3, <4>1, <4>2
      <4> QED BY <3>1, <3>3, <4>3
    <3>4. CASE Up(t, m) = m
      <4>1. m # p
        BY <1>1, <3>4, InTreeIs
      <4> QED BY <1>1, <1>3, <3>1, <3>4, <4>1, LinkedParts
    <3> QED BY <3>2, <3>3, <3>4
  <2> QED BY <2>1, <2>2
<1>8. ASSUME NEW S \in SUBSET InTree(u), S # {} PROVE \E m \in S : Up(u, m) \notin S
  <2>1. CASE S = {n}
    BY <1>1, <1>3, <2>1
  <2>2. CASE S # {n}
    <3>1. S \ {n} \in SUBSET InTree(t) /\ S \ {n} # {}
      BY <1>4, <1>8, <2>2
    <3>2. PICK m \in S \ {n} : Up(t, m) \notin S \ {n}
      BY <3>1, LinkedParts
    <3>3. m \in RbNodes /\ m # n
      BY <3>1, InTreeIs
    <3> QED BY <1>2, <1>3, <3>2, <3>3
  <2> QED BY <2>1, <2>2
<1>9. Woven(u) /\ Rooted(u)
  BY <1>5, <1>6, <1>7, <1>8 DEF Woven, Rooted
<1> QED BY <1>3, <1>4, <1>9 DEF Linked

(* d, which has no child on the other side of x, leaves its place to x.    *)
Cut(u, t, d, x) ==
    /\ u \in Trees /\ Top(u) = IF Up(t, d) = NIL THEN x ELSE Top(t)
    /\ \A m \in RbNodes, q \in Sides :
          Kid(u, m, q) = IF m = d THEN NIL
                         ELSE IF m = Up(t, d) /\ Kid(t, m, q) = d THEN x ELSE Kid(t, m, q)
    /\ \A m \in RbNodes :
          Up(u, m) = IF m = d THEN d ELSE IF m = x THEN Up(t, d) ELSE Up(t, m)
    /\ \A m \in RbNodes : Hue(u, m) = IF m = d THEN "RED" ELSE Hue(t, m)

(* d has one child at most, which is x.                                    *)
Outer(t, d, x) ==
    /\ d \in InTree(t)
    /\ \E e \in Sides : Kid(t, d, e) = x /\ Kid(t, d, Other(e)) = NIL

LEMMA OuterParts ==
    ASSUME RbAssumption, NEW t, Linked(t), NEW d, NEW x, Outer(t, d, x)
    PROVE  /\ d \in RbNodes /\ d # NIL /\ x # d /\ x \in RbLinks
           /\ Up(t, d) # d /\ Up(t, d) \in RbLinks /\ (Up(t, d) # x \/ x = NIL)
           /\ \A q \in Sides : Kid(t, d, q) \in {x, NIL}
           /\ x # NIL => x \in InTree(t) /\ Up(t, x) = d
<1>1. PICK e \in Sides : Kid(t, d, e) = x /\ Kid(t, d, Other(e)) = NIL
  BY DEF Outer
<1>2. d \in RbNodes /\ d # NIL /\ Up(t, d) # d /\ NIL \notin RbNodes /\ d \in InTree(t)
  BY InTreeIs DEF Outer, RbAssumption
<1>3. \A q \in Sides : Kid(t, d, q) \in {x, NIL}
  BY <1>1, SidesTwo
<1>4. x # NIL => x \in RbNodes /\ Up(t, x) = d
  BY <1>1, <1>2, LinkedParts DEF RbLinks
<1>5. x # d
  BY <1>2, <1>4
<1>6. x # NIL => x \in InTree(t)
  BY <1>4, <1>5, InTreeIs
<1>7. Up(t, d) # x \/ x = NIL
  BY <1>2, <1>4, <1>6, NoTwoCycle
<1> QED BY <1>1, <1>2, <1>3, <1>4, <1>5, <1>6, <1>7, LinkedParts DEF RbLinks

LEMMA CutLinked ==
    ASSUME RbAssumption, NEW t, Linked(t), NEW d, NEW x, Outer(t, d, x), NEW u, Cut(u, t, d, x)
    PROVE  Linked(u) /\ InTree(u) = InTree(t) \ {d}
<1> DEFINE p == Up(t, d)
<1>1. /\ d \in RbNodes /\ d # NIL /\ x # d /\ x \in RbLinks /\ NIL \notin RbNodes
      /\ p # d /\ p \in RbLinks /\ (p # x \/ x = NIL) /\ p = Up(t, d)
      /\ \A q \in Sides : Kid(t, d, q) \in {x, NIL}
      /\ x # NIL => x \in InTree(t) /\ Up(t, x) = d /\ x \in RbNodes
  BY OuterParts, InTreeIs DEF RbAssumption
<1>2. /\ \A m \in RbNodes, q \in Sides :
            Kid(u, m, q) = IF m = d THEN NIL
                           ELSE IF m = p /\ Kid(t, m, q) = d THEN x ELSE Kid(t, m, q)
      /\ \A m \in RbNodes :
            Up(u, m) = IF m = d THEN d ELSE IF m = x THEN p ELSE Up(t, m)
      /\ u \in Trees /\ Top(u) = IF p = NIL THEN x ELSE Top(t)
  BY DEF Cut
<1> HIDE DEF p
<1>3. InTree(u) = InTree(t) \ {d}
  <2>1. \A m \in RbNodes : Up(u, m) # m <=> Up(t, m) # m /\ m # d
    BY <1>1, <1>2, InTreeIs
  <2> QED BY <2>1, InTreeIs
<1>4. ASSUME NEW m \in RbNodes, NEW q \in Sides, Kid(t, m, q) = d
      PROVE  m = p /\ Kid(t, m, Other(q)) # d
  BY <1>1, <1>4, LinkedParts
<1>5. ASSUME NEW m \in RbNodes, NEW q \in Sides, Kid(t, m, q) = x, x # NIL
      PROVE  m = d
  BY <1>1, <1>5, LinkedParts
<1>6. ASSUME NEW m \in RbNodes, NEW q \in Sides, Kid(u, m, q) # NIL
      PROVE  Up(u, Kid(u, m, q)) = m /\ Kid(u, m, Other(q)) # Kid(u, m, q)
  <2>1. m # d /\ Other(q) \in Sides
    BY <1>2, <1>6, SidesTwo
  <2>2. CASE Kid(t, m, q) = d
    <3>1. m = p /\ Kid(u, m, q) = x /\ Kid(t, m, Other(q)) # d
      BY <1>2, <1>4, <2>1, <2>2
    <3>2. Kid(u, m, Other(q)) = Kid(t, m, Other(q)) /\ Kid(t, m, Other(q)) # x
      BY <1>2, <1>5, <1>6, <2>1, <3>1
    <3> QED BY <1>1, <1>2, <1>6, <3>1, <3>2
  <2>3. CASE Kid(t, m, q) # d
    <3>1. Kid(u, m, q) = Kid(t, m, q) /\ Kid(t, m, q) \in RbNodes /\ Kid(t, m, q) # x
      BY <1>2, <1>5, <1>6, <2>1, <2>3, LinkedParts DEF RbLinks
    <3>2. Up(u, Kid(t, m, q)) = m /\ Kid(t, m, Other(q)) # Kid(t, m, q)
      BY <1>2, <1>6, <2>3, <3>1, LinkedParts
    <3>3. Kid(u, m, Other(q)) # Kid(t, m, q)
      BY <1>2, <2>1, <3>1, <3>2
    <3> QED BY <3>1, <3>2, <3>3
  <2> QED BY <2>2, <2>3
<1>7. Top(u) # NIL => Up(u, Top(u)) = NIL
  <2>1. CASE p = NIL
    BY <1>1, <1>2, <2>1
  <2>2. CASE p # NIL /\ Top(t) # NIL
    <3>1. Top(t) \in RbNodes /\ Up(t, Top(t)) = NIL
      BY <2>2, LinkedParts DEF RbLinks
    <3>2. Top(t) # d /\ Top(t) # x
      BY <1>1, <2>2, <3>1
    <3> QED BY <1>2, <2>2, <3>1, <3>2
  <2> QED BY <1>2, <2>1, <2>2
<1>8. ASSUME NEW m \in RbNodes
      PROVE  /\ Up(u, m) = NIL => Top(u) = m
             /\ Up(u, m) # NIL /\ Up(u, m) # m => \E q \in Sides : Kid(u, Up(u, m), q) = m
             /\ \A q \in Sides : Up(u, m) = m => Kid(u, m, q) = NIL
  <2>1. CASE m = d
    BY <1>1, <1>2, <2>1
  <2>2. CASE m = x
    <3>1. Up(u, m) = p
      BY <1>1, <1>2, <2>2
    <3>2. CASE p # NIL
      <4>1. PICK q \in Sides : Kid(t, p, q) = d
        BY <1>1, <3>2, LinkedParts
      <4> QED BY <1>1, <1>2, <2>2, <3>1, <3>2, <4>1 DEF RbLinks
    <3> QED BY <1>1, <1>2, <2>2, <3>1, <3>2
  <2>3. CASE m # d /\ m # x
    <3>1. Up(u, m) = Up(t, m)
      BY <1>2, <2>3
    <3>2. CASE Up(t, m) = NIL
      BY <1>1, <1>2, <2>3, <3>1, <3>2, LinkedParts
    <3>3. CASE Up(t, m) # NIL /\ Up(t, m) # m
      <4>1. PICK q \in Sides : Kid(t, Up(t, m), q) = m
        BY <3>3, LinkedParts
      <4>2. Up(t, m) \in RbNodes /\ Up(t, m) # d
        BY <1>1, <2>3, <3>3, <4>1, LinkedParts DEF RbLinks
      <4>3. Kid(u, Up(t, m), q) = m
        BY <1>1, <1>2, <2>3, <4>1, <4>2
      <4> QED BY <3>1, <3>3, <4>3
    <3>4. CASE Up(t, m) = m
      BY <1>1, <1>2, <2>3, <3>1, <3>4, LinkedParts
    <3> QED BY <3>2, <3>3, <3>4
  <2> QED BY <2>1, <2>2, <2>3
<1>9. ASSUME NEW S \in SUBSET InTree(u), S # {} PROVE \E m \in S : Up(u, m) \notin S
  <2>1. S \in SUBSET InTree(t) /\ d \notin S /\ S \subseteq RbNodes
    BY <1>3, InTreeIs
  <2>2. CASE x \notin S
    <3>1. PICK m \in S : Up(t, m) \notin S
      BY <1>9, <2>1, LinkedParts
    <3> QED BY <1>2, <2>1, <2>2, <3>1
  <2>3. CASE x \in S
    <3>1. S \cup {d} \in SUBSET InTree(t) /\ S \cup {d} # {}
      BY <2>1 DEF Outer
    <3>2. PICK m \in S \cup {d} : Up(t, m) \notin S \cup {d}
      BY <3>1, LinkedParts
    <3>3. m # x
      BY <1>1, <2>1, <2>3, <3>2
    <3>4. CASE m = d
      BY <1>1, <1>2, <2>1, <2>3, <3>2, <3>4
    <3>5. CASE m # d
      BY <1>2, <2>1, <3>2, <3>3, <3>5
    <3> QED BY <3>4, <3>5
  <2> QED BY <2>2, <2>3
<1>10. Woven(u) /\ Rooted(u)
  BY <1>6, <1>7, <1>8, <1>9 DEF Woven, Rooted
<1> QED BY <1>2, <1>3, <1>10 DEF Linked

(* d, which is in no tree, takes the place, the links and the color of n.  *)
Renamed(u, t, n, d) ==
    /\ u \in Trees /\ Top(u) = IF Top(t) = n THEN d ELSE Top(t)
    /\ \A m \in RbNodes, q \in Sides :
          Kid(u, m, q) = IF m = n THEN NIL ELSE IF m = d THEN Kid(t, n, q)
                         ELSE IF Kid(t, m, q) = n THEN d ELSE Kid(t, m, q)
    /\ \A m \in RbNodes :
          Up(u, m) = IF m = n THEN n ELSE IF m = d THEN Up(t, n)
                     ELSE IF Up(t, m) = n THEN d ELSE Up(t, m)
    /\ \A m \in RbNodes :
          Hue(u, m) = IF m = n THEN "RED" ELSE IF m = d THEN Hue(t, n) ELSE Hue(t, m)

LEMMA RenamedLinked ==
    ASSUME RbAssumption, NEW t, Linked(t), NEW n \in InTree(t), NEW d \in RbNodes,
           d \notin InTree(t), NEW u, Renamed(u, t, n, d)
    PROVE  Linked(u) /\ InTree(u) = (InTree(t) \ {n}) \cup {d}
<1>1. /\ n \in RbNodes /\ Up(t, n) # n /\ Up(t, d) = d /\ n # d /\ NIL \notin RbNodes
      /\ \A q \in Sides : Kid(t, d, q) = NIL
      /\ \A m \in RbNodes : Up(t, m) = d => m = d
      /\ n # NIL /\ d # NIL /\ Top(t) # d
  BY InTreeIs, LinkedParts DEF RbAssumption
<1>2. \A m \in RbNodes, q \in Sides : Kid(t, m, q) # d
  BY <1>1, LinkedParts
<1>3. /\ \A m \in RbNodes, q \in Sides :
            Kid(u, m, q) = IF m = n THEN NIL ELSE IF m = d THEN Kid(t, n, q)
                           ELSE IF Kid(t, m, q) = n THEN d ELSE Kid(t, m, q)
      /\ \A m \in RbNodes :
            Up(u, m) = IF m = n THEN n ELSE IF m = d THEN Up(t, n)
                       ELSE IF Up(t, m) = n THEN d ELSE Up(t, m)
      /\ u \in Trees /\ Top(u) = IF Top(t) = n THEN d ELSE Top(t)
  BY DEF Renamed
<1>4. InTree(u) = (InTree(t) \ {n}) \cup {d}
  <2>1. \A m \in RbNodes : Up(u, m) # m <=> m # n /\ (Up(t, m) # m \/ m = d)
    BY <1>1, <1>3
  <2> QED BY <1>1, <2>1, InTreeIs
<1>5. ASSUME NEW m \in RbNodes, NEW q \in Sides, Kid(u, m, q) # NIL
      PROVE  Up(u, Kid(u, m, q)) = m /\ Kid(u, m, Other(q)) # Kid(u, m, q)
  <2>1. m # n /\ Other(q) \in Sides
    BY <1>3, <1>5, SidesTwo
  <2>2. CASE m = d
    <3>1. Kid(u, m, q) = Kid(t, n, q) /\ Kid(u, m, Other(q)) = Kid(t, n, Other(q))
      BY <1>1, <1>3, <2>1, <2>2
    <3>2. /\ Kid(t, n, q) \in RbNodes /\ Up(t, Kid(t, n, q)) = n
          /\ Kid(t, n, Other(q)) # Kid(t, n, q)
      BY <1>1, <1>5, <3>1, LinkedParts DEF RbLinks
    <3> QED BY <1>1, <1>2, <1>3, <2>2, <3>1, <3>2
  <2>3. CASE m # d /\ Kid(t, m, q) = n
    <3>1. /\ Kid(u, m, q) = d /\ Up(t, n) = m /\ Kid(t, m, Other(q)) # n
      BY <1>1, <1>3, <2>1, <2>3, LinkedParts
    <3> QED BY <1>1, <1>2, <1>3, <2>1, <2>3, <3>1
  <2>4. CASE m # d /\ Kid(t, m, q) # n
    <3>1. Kid(u, m, q) = Kid(t, m, q) /\ Kid(t, m, q) \in RbNodes /\ Kid(t, m, q) # d
      BY <1>2, <1>3, <1>5, <2>1, <2>4, LinkedParts DEF RbLinks
    <3>2. Up(t, Kid(t, m, q)) = m /\ Kid(t, m, Other(q)) # Kid(t, m, q)
      BY <1>5, <3>1, LinkedParts
    <3> QED BY <1>3, <2>1, <2>4, <3>1, <3>2
  <2> QED BY <2>2, <2>3, <2>4
<1>6. Top(u) # NIL => Up(u, Top(u)) = NIL
  BY <1>1, <1>3, LinkedParts DEF RbLinks
<1>7. ASSUME NEW m \in RbNodes
      PROVE  /\ Up(u, m) = NIL => Top(u) = m
             /\ Up(u, m) # NIL /\ Up(u, m) # m => \E q \in Sides : Kid(u, Up(u, m), q) = m
             /\ \A q \in Sides : Up(u, m) = m => Kid(u, m, q) = NIL
  <2>1. CASE m = n
    BY <1>1, <1>3, <2>1
  <2>2. CASE m = d
    <3>1. Up(u, m) = Up(t, n) /\ Up(t, n) # d
      BY <1>1, <1>3, <2>2
    <3>2. CASE Up(t, n) = NIL
      BY <1>1, <1>3, <2>2, <3>1, <3>2, LinkedParts
    <3>3. CASE Up(t, n) # NIL
      <4>1. PICK q \in Sides : Kid(t, Up(t, n), q) = n
        BY <1>1, <3>3, LinkedParts
      <4>2. Up(t, n) \in RbNodes
        BY <1>1, <3>3, LinkedParts DEF RbLinks
      <4> QED BY <1>1, <1>3, <2>2, <3>1, <3>3, <4>1, <4>2
    <3> QED BY <3>2, <3>3
  <2>3. CASE m # n /\ m # d
    <3>1. CASE Up(t, m) = n
      <4>1. PICK q \in Sides : Kid(t, n, q) = m
        BY <1>1, <2>3, <3>1, LinkedParts
      <4> QED BY <1>1, <1>3, <2>3, <3>1, <4>1
    <3>2. CASE Up(t, m) = NIL
      BY <1>1, <1>3, <2>3, <3>2, LinkedParts
    <3>3. CASE Up(t, m) = m
      BY <1>1, <1>3, <2>3, <3>3, LinkedParts
    <3>4. CASE Up(t, m) # n /\ Up(t, m) # NIL /\ Up(t, m) # m
      <4>1. PICK q \in Sides : Kid(t, Up(t, m), q) = m
        BY <3>4, LinkedParts
      <4>2. Up(t, m) \in RbNodes /\ Up(t, m) # d
        BY <1>1, <2>3, <3>4, LinkedParts DEF RbLinks
      <4> QED BY <1>1, <1>3, <2>3, <3>4, <4>1, <4>2
    <3> QED BY <3>1, <3>2, <3>3, <3>4
  <2> QED BY <2>1, <2>2, <2>3
<1>8. ASSUME NEW S \in SUBSET InTree(u), S # {} PROVE \E m \in S : Up(u, m) \notin S
  <2>1. n \notin S /\ S \subseteq RbNodes
    BY <1>3, InTreeIs
  <2>2. CASE d \notin S
    <3>1. S \in SUBSET InTree(t)
      BY <1>4, <2>2
    <3>2. PICK m \in S : Up(t, m) \notin S
      BY <1>8, <3>1, LinkedParts
    <3> QED BY <1>1, <1>3, <2>1, <2>2, <3>2
  <2>3. CASE d \in S
    <3> DEFINE T == (S \ {d}) \cup {n}
    <3>1. T \in SUBSET InTree(t) /\ T # {}
      BY <1>4
    <3>2. PICK m \in T : Up(t, m) \notin T
      BY <3>1, LinkedParts
    <3>3. CASE m = n
      <4>1. Up(u, d) = Up(t, n) /\ Up(t, n) # d
        BY <1>1, <1>3
      <4>2. Up(u, d) \notin S
        BY <2>1, <3>2, <3>3, <4>1
      <4> QED BY <2>3, <4>2
    <3>4. CASE m # n
      <4>1. m \in S /\ m # d /\ Up(t, m) # n
        BY <3>2, <3>4
      <4>2. Up(u, m) = Up(t, m) /\ Up(t, m) # d
        BY <1>1, <1>3, <2>1, <3>4, <4>1
      <4> QED BY <3>2, <4>1, <4>2
    <3> QED BY <3>3, <3>4
  <2> QED BY <2>2, <2>3
<1>9. Woven(u) /\ Rooted(u)
  BY <1>5, <1>6, <1>7, <1>8 DEF Woven, Rooted
<1> QED BY <1>3, <1>4, <1>9 DEF Linked

-----------------------------------------------------------------------------
(* Ways down the tree.                                                     *)

(* Going down ends, too.                                                   *)
LEMMA Ends ==
    ASSUME RbAssumption, NEW t, Linked(t), NEW S \in SUBSET InTree(t), S # {}
    PROVE  \E n \in S : \A s \in Sides : Kid(t, n, s) \notin S
<1> SUFFICES ASSUME \A n \in S : \E s \in Sides : Kid(t, n, s) \in S PROVE FALSE
  OBVIOUS
<1>1. S \subseteq RbNodes /\ NIL \notin RbNodes /\ IsFiniteSet(RbNodes)
  BY InTreeIs DEF RbAssumption
<1>2. IsFiniteSet(S)
  BY <1>1, FS_Subset
<1> DEFINE g == [n \in S |-> Kid(t, n, CHOOSE s \in Sides : Kid(t, n, s) \in S)]
<1>3. \A n \in S : g[n] \in S /\ Up(t, g[n]) = n
  <2>1. \A n \in S : /\ (CHOOSE s \in Sides : Kid(t, n, s) \in S) \in Sides
                     /\ Kid(t, n, CHOOSE s \in Sides : Kid(t, n, s) \in S) \in S
    OBVIOUS
  <2> QED BY <1>1, <2>1, LinkedParts
<1>4. PICK m \in S : Up(t, m) \notin S
  BY LinkedParts
<1>5. g \in [S -> S \ {m}]
  BY <1>3, <1>4
<1>6. IsFiniteSet(S \ {m}) /\ Cardinality(S \ {m}) = Cardinality(S) - 1 /\ Cardinality(S) \in Nat
  BY <1>2, FS_RemoveElement, FS_CardinalityType
<1>7. Cardinality(S \ {m}) < Cardinality(S)
  BY <1>6
<1> HIDE DEF g
<1>8. \E x, y \in S : x # y /\ g[x] = g[y]
  BY <1>2, <1>5, <1>6, <1>7, FS_PigeonHole
<1> QED BY <1>3, <1>8

(* The nodes of the subtree r: what every set has that holds r and, with a *)
(* node, its children.                                                     *)
Heirs(t, S) == \A m \in S, s \in Sides : Kid(t, m, s) \in S \cup {NIL}
Below(t, r) == {m \in InTree(t) : \A S \in SUBSET InTree(t) : r \in S /\ Heirs(t, S) => m \in S}

LEMMA KidInTree ==
    ASSUME RbAssumption, NEW t, Linked(t), NEW m \in RbNodes, NEW s \in Sides, Kid(t, m, s) # NIL
    PROVE  Kid(t, m, s) \in InTree(t) /\ m \in InTree(t) /\ Kid(t, m, s) # m
<1>1. Kid(t, m, s) \in RbNodes /\ Up(t, Kid(t, m, s)) = m /\ Up(t, m) # m
  BY LinkedParts DEF RbLinks
<1> QED BY <1>1, InTreeIs

LEMMA BelowParts ==
    ASSUME RbAssumption, NEW t, Linked(t), NEW r \in InTree(t)
    PROVE  /\ r \in Below(t, r) /\ Below(t, r) \subseteq InTree(t) /\ Heirs(t, Below(t, r))
           /\ \A m \in Below(t, r) : m = r \/ Up(t, m) \in Below(t, r)
           /\ Up(t, r) \notin Below(t, r)
<1> DEFINE B == Below(t, r)
<1>1. r \in B /\ B \subseteq InTree(t)
  BY DEF Below
<1>2. Heirs(t, B)
  <2> SUFFICES ASSUME NEW m \in B, NEW s \in Sides, Kid(t, m, s) # NIL PROVE Kid(t, m, s) \in B
    BY DEF Heirs
  <2>1. Kid(t, m, s) \in InTree(t)
    BY <1>1, KidInTree, InTreeIs
  <2>2. ASSUME NEW S \in SUBSET InTree(t), r \in S, Heirs(t, S) PROVE Kid(t, m, s) \in S
    <3>1. m \in S
      BY <2>2 DEF Below
    <3> QED BY <2>2, <3>1 DEF Heirs
  <2> QED BY <2>1, <2>2 DEF Below
<1>3. \A m \in B : m = r \/ Up(t, m) \in B
  <2> DEFINE C == {m \in B : m = r \/ Up(t, m) \in B}
  <2>1. C \in SUBSET InTree(t) /\ r \in C
    BY <1>1
  <2>2. Heirs(t, C)
    <3> SUFFICES ASSUME NEW m \in C, NEW s \in Sides, Kid(t, m, s) # NIL PROVE Kid(t, m, s) \in C
      BY DEF Heirs
    <3>1. m \in RbNodes
      BY <1>1, InTreeIs
    <3>2. Kid(t, m, s) \in B
      BY <1>2 DEF Heirs
    <3> QED BY <3>1, <3>2, LinkedParts
  <2> HIDE DEF C
  <2>3. B \subseteq C
    BY <2>1, <2>2 DEF Below
  <2> QED BY <2>3 DEF C
<1>4. Up(t, r) \notin B
  <2>1. B \in SUBSET InTree(t) /\ B # {}
    BY <1>1
  <2>2. \E m \in B : Up(t, m) \notin B
    BY <2>1, LinkedParts
  <2> QED BY <1>3, <2>2
<1> QED BY <1>1, <1>2, <1>3, <1>4

(* A function that leads from a node to one of its children, or nowhere.   *)
Descends(t, c) ==
    \A m \in RbNodes : c[m] = NIL \/ \E s \in Sides : c[m] = Kid(t, m, s)

(* The last node that c leads to, as a recursive function.                 *)
LastOf(c, f) == f = [m \in RbNodes |-> IF c[m] = NIL THEN m ELSE f[c[m]]]

LEMMA LastIsBelow ==
    ASSUME RbAssumption, NEW t, Linked(t), NEW c, Descends(t, c), NEW f, LastOf(c, f),
           NEW n \in InTree(t)
    PROVE  f[n] \in Below(t, n) /\ f[n] \in RbNodes /\ c[f[n]] = NIL
<1> DEFINE B == Below(t, n)
           S == {m \in B : ~(f[m] \in B /\ c[f[m]] = NIL)}
<1>1. B \subseteq InTree(t) /\ Heirs(t, B) /\ n \in B
  BY BelowParts
<1>2. B \subseteq RbNodes
  BY <1>1, InTreeIs
<1>3. \A m \in RbNodes : f[m] = IF c[m] = NIL THEN m ELSE f[c[m]]
  BY DEF LastOf
<1> HIDE DEF B
<1>4. S = {}
  <2> SUFFICES ASSUME S # {} PROVE FALSE
    OBVIOUS
  <2>1. PICK m \in S : \A s \in Sides : Kid(t, m, s) \notin S
    BY <1>1, Ends
  <2>2. m \in RbNodes /\ m \in B /\ c[m] # NIL
    BY <1>2, <1>3
  <2>3. PICK s \in Sides : c[m] = Kid(t, m, s)
    BY <2>2 DEF Descends
  <2>4. c[m] \in B
    BY <1>1, <2>2, <2>3 DEF Heirs
  <2> QED BY <1>3, <2>1, <2>2, <2>3, <2>4
<1> QED BY <1>1, <1>2, <1>4 DEF B

(* There is such a function: of the sets that hold m and where c leads     *)
(* from their members, the least has one node at most that leads nowhere.  *)
LEMMA LastExists ==
    ASSUME RbAssumption, NEW c \in [RbNodes -> RbLinks]
    PROVE  \E f : LastOf(c, f)
<1> DEFINE Led(S) == \A m \in S : c[m] \in S \cup {NIL}
           Way(m) == {x \in RbNodes : \A S \in SUBSET RbNodes : m \in S /\ Led(S) => x \in S}
           End(m) == {x \in Way(m) : c[x] = NIL}
           w == [m \in RbNodes |-> IF c[m] = NIL THEN m ELSE CHOOSE x : x \in End(m)]
<1>1. NIL \notin RbNodes
  BY DEF RbAssumption
<1>2. ASSUME NEW m \in RbNodes, c[m] = NIL
      PROVE  End(m) = {m}
  <2>1. {m} \in SUBSET RbNodes /\ Led({m})
    BY <1>2
  <2> QED BY <1>2, <2>1
<1>3. ASSUME NEW m \in RbNodes, c[m] # NIL
      PROVE  End(m) = End(c[m])
  <2>1. c[m] \in RbNodes
    BY <1>3 DEF RbLinks
  <2>2. Led(Way(m)) /\ Way(m) \in SUBSET RbNodes /\ m \in Way(m)
    <3> SUFFICES ASSUME NEW x \in Way(m), c[x] # NIL PROVE c[x] \in Way(m)
      OBVIOUS
    <3>1. c[x] \in RbNodes
      BY DEF RbLinks
    <3> QED BY <3>1
  <2>3. Led(Way(c[m])) /\ Way(c[m]) \in SUBSET RbNodes /\ c[m] \in Way(c[m])
    <3> SUFFICES ASSUME NEW x \in Way(c[m]), c[x] # NIL PROVE c[x] \in Way(c[m])
      BY <2>1
    <3>1. c[x] \in RbNodes
      BY DEF RbLinks
    <3> QED BY <3>1
  <2>4. c[m] \in Way(m)
    BY <1>3, <2>2
  <2>5. Way(c[m]) \subseteq Way(m)
    BY <2>2, <2>4
  <2>6. Way(m) \subseteq Way(c[m]) \cup {m}
    <3>1. Way(c[m]) \cup {m} \in SUBSET RbNodes /\ Led(Way(c[m]) \cup {m})
      BY <2>3
    <3> QED BY <3>1
  <2> QED BY <1>3, <2>5, <2>6
<1> HIDE DEF End
<1>4. ASSUME NEW m \in RbNodes PROVE w[m] = IF c[m] = NIL THEN m ELSE w[c[m]]
  <2>1. CASE c[m] # NIL
    <3>1. c[m] \in RbNodes
      BY <2>1 DEF RbLinks
    <3>2. CASE c[c[m]] = NIL
      <4>1. End(m) = {c[m]}
        BY <1>2, <1>3, <2>1, <3>1, <3>2
      <4> QED BY <2>1, <3>1, <3>2, <4>1
    <3>3. CASE c[c[m]] # NIL
      BY <1>3, <2>1, <3>1, <3>3
    <3> QED BY <3>2, <3>3
  <2> QED BY <2>1
<1>5. LastOf(c, w)
  <2>1. w = [m \in RbNodes |-> w[m]]
    OBVIOUS
  <2> HIDE DEF w
  <2> QED BY <1>4, <2>1 DEF LastOf
<1> QED BY <1>5

LEMMA OutermostIs ==
    ASSUME RbAssumption, NEW t, Linked(t), NEW n \in InTree(t), NEW s \in Sides
    PROVE  /\ Outermost(t, n, s) \in Below(t, n) /\ Outermost(t, n, s) \in RbNodes
           /\ Kid(t, Outermost(t, n, s), s) = NIL
<1> DEFINE c == [m \in RbNodes |-> t.child[m][s]]
           F(f) == f = [m \in RbNodes |-> IF t.child[m][s] = NIL THEN m ELSE f[t.child[m][s]]]
           last == CHOOSE f : F(f)
<1>1. \A m \in RbNodes : c[m] = Kid(t, m, s)
  BY DEF Kid
<1>2. c \in [RbNodes -> RbLinks]
  BY <1>1, LinkedParts
<1>3. \A f : LastOf(c, f) <=> F(f)
  BY DEF LastOf
<1>4. Descends(t, c)
  BY <1>1 DEF Descends
<1>5. n \in RbNodes /\ n # NIL
  BY InTreeIs DEF RbAssumption
<1>6. Outermost(t, n, s) = last[n]
  BY <1>5 DEF Outermost
<1>7. \E f : F(f)
  BY <1>2, <1>3, LastExists
<1> HIDE DEF F
<1>8. F(last)
  BY <1>7
<1> HIDE DEF c, last
<1>9. LastOf(c, last)
  BY <1>3, <1>8
<1>10. last[n] \in Below(t, n) /\ last[n] \in RbNodes /\ c[last[n]] = NIL
  BY <1>4, <1>9, LastIsBelow
<1> QED BY <1>1, <1>6, <1>10

(* A place for n where nothing is: below the last node on the way down.    *)
LEMMA InsertParentIs ==
    ASSUME RbAssumption, NEW t, Linked(t), NEW n \in RbNodes
    PROVE  IF t.root = NIL THEN InsertParent(t, n) = NIL
           ELSE /\ InsertParent(t, n) \in InTree(t)
                /\ Kid(t, InsertParent(t, n), SideBelow(n, InsertParent(t, n))) = NIL
<1> DEFINE c == [m \in RbNodes |-> t.child[m][SideBelow(n, m)]]
           F(f) == f = [m \in RbNodes |-> IF t.child[m][SideBelow(n, m)] = NIL
                                          THEN m ELSE f[t.child[m][SideBelow(n, m)]]]
           last == CHOOSE f : F(f)
<1>1. \A m \in RbNodes : SideBelow(n, m) \in Sides /\ c[m] = Kid(t, m, SideBelow(n, m))
  BY DEF Kid, SideBelow, Sides
<1>2. c \in [RbNodes -> RbLinks]
  BY <1>1, LinkedParts
<1>3. \A f : LastOf(c, f) <=> F(f)
  BY DEF LastOf
<1>4. Descends(t, c)
  BY <1>1 DEF Descends
<1>5. InsertParent(t, n) = IF t.root = NIL THEN NIL ELSE last[t.root]
  BY DEF InsertParent
<1>7. \E f : F(f)
  BY <1>2, <1>3, LastExists
<1> HIDE DEF F
<1>8. F(last)
  BY <1>7
<1> HIDE DEF c, last
<1>9. LastOf(c, last)
  BY <1>3, <1>8
<1>10. ASSUME t.root # NIL
       PROVE  last[t.root] \in InTree(t) /\ last[t.root] \in RbNodes /\ c[last[t.root]] = NIL
  <2>1. Top(t) = t.root /\ Top(t) \in InTree(t)
    BY <1>10, LinkedParts, InTreeIs DEF Top, RbLinks
  <2>2. last[Top(t)] \in Below(t, Top(t)) /\ last[Top(t)] \in RbNodes /\ c[last[Top(t)]] = NIL
    BY <1>4, <1>9, <2>1, LastIsBelow
  <2> QED BY <2>1, <2>2 DEF Below
<1> QED BY <1>1, <1>5, <1>10

(* What rb_insert makes of the tree.                                       *)
Inserted(t, n) ==
    LET p == InsertParent(t, n)
        u == SetParent(MakeOrphan(t, n), n, p)
    IN  IF p = NIL THEN [u EXCEPT !.root = n] ELSE SetChild(u, p, SideBelow(n, p), n)

LEMMA InsertedIs ==
    ASSUME RbAssumption, NEW t, Linked(t), NEW n \in RbNodes, n \notin InTree(t)
    PROVE  \E p \in RbLinks, s \in Sides :
              /\ IF p = NIL THEN Top(t) = NIL ELSE p \in InTree(t) /\ Kid(t, p, s) = NIL
              /\ p = InsertParent(t, n) /\ (p # NIL => s = SideBelow(n, p))
              /\ Hung(Inserted(t, n), t, n, p, s)
<1> DEFINE p == InsertParent(t, n)
           u0 == MakeOrphan(t, n)
           u == SetParent(u0, n, p)
           s == IF p = NIL THEN "left" ELSE SideBelow(n, p)
           v == Inserted(t, n)
<1>1. /\ IF p = NIL THEN Top(t) = NIL ELSE p \in InTree(t) /\ p \in RbNodes /\ Kid(t, p, s) = NIL
      /\ p \in RbLinks /\ s \in Sides /\ (p # NIL => s = SideBelow(n, p))
      /\ p = InsertParent(t, n)
  <2>1. SideBelow(n, p) \in Sides /\ "left" \in Sides
    BY DEF SideBelow, Sides
  <2>2. \A m \in InTree(t) : m # NIL /\ m \in RbNodes /\ m \in RbLinks
    BY InTreeIs DEF RbAssumption, RbLinks
  <2>3. NIL \in RbLinks
    BY DEF RbLinks
  <2> QED BY <2>1, <2>2, <2>3, InsertParentIs DEF Top
<1>2. t \in Trees /\ Up(t, n) = n /\ (\A q \in Sides : Kid(t, n, q) = NIL) /\ n # NIL /\ n \in RbLinks
  BY LinkedParts, InTreeIs DEF RbLinks, RbAssumption
<1>3. v = IF p = NIL THEN [u EXCEPT !.root = n] ELSE SetChild(u, p, s, n)
  BY <1>1 DEF Inserted
<1> HIDE DEF v, p, s
<1>4. Orphaned(u0, t, n)
  BY <1>2, MakeOrphanIs
<1>5. u0 \in Trees
  BY <1>4 DEF Orphaned
<1> HIDE DEF u0
<1>6. WithParent(u, u0, n, p)
  BY <1>1, <1>2, <1>5, SetParentIs
<1>7. u \in Trees
  BY <1>6 DEF WithParent
<1> HIDE DEF u
<1>8. IF p = NIL THEN WithRoot(v, u, n) ELSE WithChild(v, u, p, s, n)
  BY <1>1, <1>2, <1>3, <1>7, SetRootIs, SetChildIs
<1>9. Hung(v, t, n, p, s)
  <2>1. CASE p = NIL
    <3>1. WithRoot(v, u, n)
      BY <1>8, <2>1
    <3>2. \A m \in RbNodes : m # p
      BY <2>1 DEF RbAssumption
    <3> QED BY <1>2, <1>4, <1>6, <2>1, <3>1, <3>2
            DEF WithRoot, WithParent, Orphaned, Hung, SameKids, SameUps, SameHues
  <2>2. CASE p # NIL
    <3>1. WithChild(v, u, p, s, n)
      BY <1>8, <2>2
    <3> QED BY <1>2, <1>4, <1>6, <2>2, <3>1
            DEF WithChild, WithParent, Orphaned, Hung, SameKids, SameUps, SameHues
  <2> QED BY <2>1, <2>2
<1>10. /\ IF p = NIL THEN Top(t) = NIL ELSE p \in InTree(t) /\ Kid(t, p, s) = NIL
       /\ s \in Sides /\ p \in RbLinks
       /\ p = InsertParent(t, n) /\ (p # NIL => s = SideBelow(n, p))
  BY <1>1
<1> QED BY <1>9, <1>10 DEF v

-----------------------------------------------------------------------------
(* What rb_erase makes of the tree.                                        *)

LEMMA OuterUnlinked ==
    ASSUME RbAssumption, NEW t, Linked(t), NEW d \in InTree(t), NEW x,
           x = Kid(t, d, IF Kid(t, d, "left") = NIL THEN "right" ELSE "left")
    PROVE  /\ Replaced(UnlinkOuter(t, d), t, d, x, Up(t, d))
           /\ ~TwoChildren(t, d) =>
                 Outer(t, d, x) /\ Cut(MakeOrphan(UnlinkOuter(t, d), d), t, d, x)
<1> DEFINE u0 == UnlinkOuter(t, d)
           u == MakeOrphan(u0, d)
<1>1. t \in Trees /\ d \in RbNodes /\ x \in RbLinks /\ Held(t, d)
  BY LinkedHeld, LinkedParts DEF Sides
<1>2. u0 = Transplant(t, d, x)
  BY DEF UnlinkOuter, Kid
<1> HIDE DEF u0
<1>3. Replaced(u0, t, d, x, Up(t, d))
  BY <1>1, <1>2, TransplantIs
<1>4. ASSUME ~TwoChildren(t, d)
      PROVE  Outer(t, d, x) /\ Cut(u, t, d, x)
  <2>1. Outer(t, d, x)
    BY <1>4 DEF TwoChildren, Outer, Sides, Other, Kid
  <2>2. u0 \in Trees
    BY <1>3 DEF Replaced
  <2>3. Orphaned(u, u0, d)
    BY <1>1, <2>2, MakeOrphanIs
  <2> HIDE DEF u
  <2>4. Cut(u, t, d, x)
    BY <1>1, <1>3, <2>1, <2>3, OuterParts DEF Orphaned, Replaced, Cut, SameHues
  <2> QED BY <2>1, <2>4
<1> QED BY <1>3, <1>4 DEF u0

(* The node whose place disappears.                                        *)
LEMMA SplicedIs ==
    ASSUME RbAssumption, NEW t, Linked(t), NEW n \in InTree(t), NEW d, d = Spliced(t, n)
    PROVE  /\ d \in InTree(t) /\ ~TwoChildren(t, d)
           /\ d = n <=> ~TwoChildren(t, n)
           /\ d # n => Kid(t, d, "left") = NIL /\ d \in Below(t, Kid(t, n, "right"))
<1>1. CASE ~TwoChildren(t, n)
  BY <1>1 DEF Spliced
<1>2. CASE TwoChildren(t, n)
  <2> DEFINE r == Kid(t, n, "right")
  <2>1. /\ Kid(t, n, "left") # NIL /\ r # NIL /\ "left" \in Sides /\ "right" \in Sides
        /\ Other("right") = "left"
    BY <1>2 DEF TwoChildren, Kid, Sides, Other
  <2>2. r \in InTree(t)
    BY <2>1, KidInTree, InTreeIs
  <2>3. d = Outermost(t, r, "left")
    BY <1>2, <2>1 DEF Spliced, Step, Kid
  <2> HIDE DEF r
  <2>4. d \in Below(t, r) /\ Kid(t, d, "left") = NIL
    BY <2>1, <2>2, <2>3, OutermostIs
  <2>5. d \in InTree(t) /\ d # n
    BY <2>1, <2>4 DEF Below
  <2>6. ~TwoChildren(t, d)
    BY <2>1, <2>4 DEF TwoChildren, Kid
  <2> QED BY <1>2, <2>4, <2>5, <2>6 DEF r
<1> QED BY <1>1, <1>2

(* Erasing n whose successor is d: d leaves its place to its child x, and  *)
(* takes the place of n.                                                   *)
LEMMA InnerUnlinked ==
    ASSUME RbAssumption, NEW t, Linked(t), NEW n \in InTree(t), NEW d, d = Spliced(t, n), d # n,
           NEW x, x = Kid(t, d, "right"),
           NEW c, Cut(c, t, d, x)
    PROVE  Renamed(MakeOrphan(UnlinkInner(t, n), n), c, n, d) /\ x # n /\ Up(t, d) # NIL
<1> DEFINE r  == Kid(t, n, "right")
           l  == Kid(t, n, "left")
           p  == Up(t, n)
           o  == Up(t, d)
           u0 == UnlinkOuter(t, d)
           v0 == SetChild(u0, d, "right", r)
           w0 == SetParent(v0, r, d)
           t1 == IF d = r THEN t ELSE w0
           t2 == Transplant(t1, n, d)
           t3 == SetParent(t2, l, d)
           t4 == SetChild(t3, d, "left", l)
           t5 == SetColor(t4, d, Hue(t, n))
           t6 == MakeOrphan(t5, n)
<1>1. /\ d \in InTree(t) /\ Kid(t, d, "left") = NIL /\ d \in Below(t, r) /\ TwoChildren(t, n)
      /\ ~TwoChildren(t, d)
  BY SplicedIs
<1>2. /\ "left" \in Sides /\ "right" \in Sides /\ "left" # "right" /\ t \in Trees
      /\ \A q \in Sides : q = "left" \/ q = "right"
      /\ Other("left") = "right" /\ Other("right") = "left"
      /\ n \in RbNodes /\ d \in RbNodes /\ NIL \notin RbNodes /\ x \in RbLinks
      /\ p \in RbLinks /\ o \in RbLinks /\ Hue(t, n) \in Colors /\ p # n /\ o # d
  BY <1>1, LinkedParts, InTreeIs DEF Sides, Other
<1>3. /\ l # NIL /\ r # NIL /\ l \in RbNodes /\ r \in RbNodes /\ l # r /\ l # n /\ r # n
      /\ Up(t, l) = n /\ Up(t, r) = n /\ l \in RbLinks /\ r \in InTree(t)
  <2>1. l # NIL /\ r # NIL
    BY <1>1, <1>2 DEF TwoChildren, Kid
  <2> QED BY <1>2, <2>1, KidInTree, LinkedParts, InTreeIs DEF RbLinks
<1>4. /\ \A m \in Below(t, r) : m # n /\ m # p /\ m # l /\ (m = r \/ Up(t, m) \in Below(t, r))
      /\ Heirs(t, Below(t, r))
  <2>1. /\ n \notin Below(t, r) /\ Heirs(t, Below(t, r)) /\ Below(t, r) \subseteq InTree(t)
        /\ \A m \in Below(t, r) : m = r \/ Up(t, m) \in Below(t, r)
    BY <1>3, BelowParts
  <2>2. l \notin Below(t, r)
    BY <1>3, <2>1
  <2>3. p \notin Below(t, r)
    <3> SUFFICES ASSUME p \in Below(t, r) PROVE FALSE
      OBVIOUS
    <3>1. p \in RbNodes /\ p # NIL
      BY <2>1, InTreeIs DEF RbAssumption
    <3>2. PICK q \in Sides : Kid(t, p, q) = n
      BY <1>2, <3>1, LinkedParts
    <3> QED BY <1>2, <2>1, <3>2 DEF Heirs
  <2> QED BY <2>1, <2>2, <2>3
<1>5. /\ d # l /\ d # p /\ x # n /\ x # d /\ (d = r => o = n)
      /\ (d # r => o # n /\ o # p)
      /\ (x # NIL => Up(t, x) = d /\ x \in RbNodes)
      /\ (x # NIL => x # r /\ x # l)
  <2>1. x \in Below(t, r) \cup {NIL}
    BY <1>1, <1>2, <1>4 DEF Heirs
  <2>2. x # NIL => Up(t, x) = d /\ x \in RbNodes
    BY <1>2, LinkedParts DEF RbLinks
  <2>3. d # r => o \in Below(t, r)
    BY <1>1, <1>4
  <2>4. d # n /\ n # NIL /\ d # NIL
    BY <1>1, <1>2, <1>4
  <2>5. x # d
    BY <1>2, <2>2, <2>4
  <2> QED BY <1>1, <1>2, <1>3, <1>4, <2>1, <2>2, <2>3, <2>4, <2>5
<1>6. Replaced(u0, t, d, x, o)
  <2>1. x = Kid(t, d, IF Kid(t, d, "left") = NIL THEN "right" ELSE "left")
    BY <1>1
  <2> QED BY <1>1, <2>1, OuterUnlinked
(* The successor leaves its place and gets the right subtree.              *)
<1>7. /\ t1 \in Trees /\ SameHues(t1, t)
      /\ Top(t1) = IF d # r /\ o = NIL THEN x ELSE Top(t)
      /\ \A m \in RbNodes, q \in Sides :
            Kid(t1, m, q) = IF d # r /\ m = d /\ q = "right" THEN r
                            ELSE IF d # r /\ m = o /\ Kid(t, m, q) = d THEN x ELSE Kid(t, m, q)
      /\ \A m \in RbNodes :
            Up(t1, m) = IF d # r /\ m = r THEN d ELSE IF d # r /\ m = x THEN o ELSE Up(t, m)
  <2>1. CASE d = r
    BY <1>2, <2>1 DEF SameHues
  <2>2. CASE d # r
    <3>1. u0 \in Trees
      BY <1>6 DEF Replaced
    <3> HIDE DEF u0
    <3>2. WithChild(v0, u0, d, "right", r)
      BY <1>2, <1>3, <3>1, SetChildIs DEF RbLinks
    <3>3. v0 \in Trees
      BY <3>2 DEF WithChild
    <3> HIDE DEF v0
    <3>4. WithParent(w0, v0, r, d)
      BY <1>2, <1>3, <3>3, SetParentIs DEF RbLinks
    <3>5. t1 = w0
      BY <2>2
    <3> HIDE DEF w0, t1, r, o, l, p
    <3> QED BY <1>2, <1>3, <1>5, <1>6, <2>2, <3>2, <3>4, <3>5
            DEF Replaced, WithChild, WithParent, SameUps, SameHues, SameKids
  <2> QED BY <2>1, <2>2
<1>8. /\ UnlinkInner(t, n) = SetColor(SetChild(SetParent(t2, Kid(t1, n, "left"), d), d, "left",
                                                Kid(t1, n, "left")), d, Hue(t, n))
  BY <1>2 DEF UnlinkInner, Kid, Hue
<1> HIDE DEF t1, u0
<1>9. Kid(t1, n, "left") = l /\ Up(t1, n) = p
  BY <1>2, <1>3, <1>5, <1>7
<1>10. UnlinkInner(t, n) = t5
  BY <1>8, <1>9
<1>11. Held(t1, n)
  <2>1. CASE p # NIL
    <3>1. p \in RbNodes
      BY <1>2, <2>1 DEF RbLinks
    <3>2. PICK q \in Sides : Kid(t, p, q) = n
      BY <1>2, <2>1, LinkedParts
    <3>3. Kid(t, p, Other(q)) # n /\ Other(q) \in Sides
      BY <1>2, <3>1, <3>2, LinkedParts
    <3>4. Kid(t1, p, q) = n /\ Kid(t1, p, Other(q)) # n
      BY <1>1, <1>2, <1>5, <1>7, <3>1, <3>2, <3>3
    <3> QED BY <1>9, <3>1, <3>4 DEF Held
  <2> QED BY <1>9, <2>1 DEF Held
<1>12. Replaced(t2, t1, n, d, p)
  <2>1. t1 \in Trees /\ d \in RbLinks
    BY <1>2, <1>7 DEF RbLinks
  <2> QED BY <1>2, <1>9, <1>11, <2>1, TransplantIs
<1>13. t2 \in Trees /\ d \in RbLinks
  BY <1>2, <1>12 DEF Replaced, RbLinks
<1> HIDE DEF t2
<1>14. WithParent(t3, t2, l, d)
  BY <1>3, <1>13, SetParentIs
<1>15. t3 \in Trees
  BY <1>14 DEF WithParent
<1> HIDE DEF t3
<1>16. WithChild(t4, t3, d, "left", l)
  BY <1>2, <1>3, <1>15, SetChildIs
<1>17. t4 \in Trees
  BY <1>16 DEF WithChild
<1> HIDE DEF t4
<1>18. WithColor(t5, t4, d, Hue(t, n))
  BY <1>2, <1>17, SetColorIs
<1>19. t5 \in Trees
  BY <1>18 DEF WithColor
<1> HIDE DEF t5
<1>20. Orphaned(t6, t5, n)
  BY <1>2, <1>19, MakeOrphanIs
<1> HIDE DEF t6
(* All of it, link by link.                                                *)
<1>21. ASSUME NEW m \in RbNodes, NEW q \in Sides
       PROVE  Kid(t6, m, q) = IF m = n THEN NIL ELSE IF m = d /\ q = "left" THEN l
                              ELSE IF m = p /\ Kid(t1, m, q) = n THEN d ELSE Kid(t1, m, q)
  BY <1>12, <1>14, <1>16, <1>18, <1>20
     DEF Replaced, WithParent, WithChild, WithColor, Orphaned, SameKids
<1>22. ASSUME NEW m \in RbNodes
       PROVE  Up(t6, m) = IF m = n THEN n ELSE IF m = l THEN d ELSE IF m = d THEN p ELSE Up(t1, m)
  BY <1>12, <1>14, <1>16, <1>18, <1>20
     DEF Replaced, WithParent, WithChild, WithColor, Orphaned, SameUps
<1>23. ASSUME NEW m \in RbNodes
       PROVE  Hue(t6, m) = IF m = n THEN "RED" ELSE IF m = d THEN Hue(t, n) ELSE Hue(t, m)
  BY <1>7, <1>12, <1>14, <1>16, <1>18, <1>20
     DEF Replaced, WithParent, WithChild, WithColor, Orphaned, SameHues
<1>24. Top(t6) = (IF p = NIL THEN d ELSE Top(t1)) /\ t6 \in Trees
  BY <1>12, <1>14, <1>16, <1>18, <1>20
     DEF Replaced, WithParent, WithChild, WithColor, Orphaned
<1>25. /\ Top(c) = (IF o = NIL THEN x ELSE Top(t))
       /\ \A m \in RbNodes, q \in Sides :
             Kid(c, m, q) = IF m = d THEN NIL
                            ELSE IF m = o /\ Kid(t, m, q) = d THEN x ELSE Kid(t, m, q)
       /\ \A m \in RbNodes :
             Up(c, m) = IF m = d THEN d ELSE IF m = x THEN o ELSE Up(t, m)
       /\ \A m \in RbNodes : Hue(c, m) = IF m = d THEN "RED" ELSE Hue(t, m)
  BY DEF Cut
<1>26. l = Kid(t, n, "left") /\ r = Kid(t, n, "right") /\ p = Up(t, n) /\ o = Up(t, d)
  OBVIOUS
<1> HIDE DEF l, r, p, o
<1>27. ASSUME NEW m \in RbNodes, NEW q \in Sides
       PROVE  Kid(t6, m, q) = IF m = n THEN NIL ELSE IF m = d THEN Kid(c, n, q)
                              ELSE IF Kid(c, m, q) = n THEN d ELSE Kid(c, m, q)
  <2>1. CASE m = d /\ m # n
    <3>1. CASE q = "left"
      BY <1>2, <1>3, <1>5, <1>21, <1>25, <1>26, <2>1, <3>1
    <3>2. CASE q = "right"
      <4>1. Kid(t6, m, q) = Kid(t1, d, q)
        BY <1>2, <1>5, <1>21, <2>1, <3>2
      <4>2. CASE d = r
        BY <1>2, <1>5, <1>7, <1>25, <1>26, <2>1, <3>2, <4>1, <4>2
      <4>3. CASE d # r
        BY <1>2, <1>5, <1>7, <1>25, <1>26, <2>1, <3>2, <4>1, <4>3
      <4> QED BY <4>2, <4>3
    <3> QED BY <1>2, <3>1, <3>2
  <2>2. CASE m # d /\ m # n
    <3>1. Kid(t, m, q) = n => m = p
      BY <1>2, <1>26, LinkedParts
    <3>2. Kid(t, m, q) = d => m = o
      BY <1>2, <1>26, LinkedParts
    <3>3. Kid(t1, m, q) = Kid(c, m, q)
      BY <1>5, <1>7, <1>25, <2>2, <3>2
    <3>4. Kid(c, m, q) = n => m = p
      BY <1>5, <1>25, <2>2, <3>1
    <3> QED BY <1>21, <2>2, <3>3, <3>4
  <2> QED BY <1>21, <2>1, <2>2
<1>28. ASSUME NEW m \in RbNodes
       PROVE  Up(t6, m) = IF m = n THEN n ELSE IF m = d THEN Up(c, n)
                          ELSE IF Up(c, m) = n THEN d ELSE Up(c, m)
  <2>1. CASE m = d /\ m # n
    BY <1>2, <1>5, <1>9, <1>22, <1>25, <1>26, <2>1
  <2>2. CASE m # d /\ m # n
    <3>1. Up(t, m) = n => m = l \/ m = r
      <4>1. Up(t, m) = n => \E q \in Sides : Kid(t, n, q) = m
        BY <1>2, <2>2, LinkedParts
      <4> QED BY <1>2, <1>26, <4>1
    <3>2. CASE m = l
      BY <1>2, <1>3, <1>5, <1>22, <1>25, <2>2, <3>2
    <3>3. CASE m # l /\ d = r
      BY <1>2, <1>3, <1>5, <1>7, <1>22, <1>25, <1>26, <2>2, <3>1, <3>3
    <3>4. CASE m # l /\ d # r
      BY <1>2, <1>3, <1>5, <1>7, <1>22, <1>25, <1>26, <2>2, <3>1, <3>4
    <3> QED BY <3>2, <3>3, <3>4
  <2> QED BY <1>22, <2>1, <2>2
<1>29. o # NIL
  <2>1. CASE d = r
    BY <1>2, <1>5, <2>1
  <2>2. CASE d # r
    BY <1>2, <1>4, <1>1, <1>26, <2>2, InTreeIs DEF Below
  <2> QED BY <2>1, <2>2
<1>t. Top(t6) = IF Top(c) = n THEN d ELSE Top(c)
  <2>1. p = NIL <=> Top(t) = n
    BY <1>2, <1>26, LinkedParts
  <2> QED BY <1>7, <1>24, <1>25, <1>29, <2>1
<1>30. ASSUME NEW m \in RbNodes
       PROVE  Hue(t6, m) = IF m = n THEN "RED" ELSE IF m = d THEN Hue(c, n) ELSE Hue(c, m)
  BY <1>2, <1>4, <1>1, <1>23, <1>25
<1>31. Renamed(t6, c, n, d)
  BY <1>24, <1>27, <1>28, <1>t, <1>30 DEF Renamed
<1> QED BY <1>5, <1>10, <1>26, <1>29, <1>31 DEF t6

Erased(t, n) ==
    MakeOrphan(IF Spliced(t, n) = n THEN UnlinkOuter(t, n) ELSE UnlinkInner(t, n), n)

LEMMA ErasedIs ==
    ASSUME RbAssumption, NEW t, Linked(t), NEW n \in InTree(t), NEW d, d = Spliced(t, n),
           NEW x, x = Kid(t, d, IF Kid(t, d, "left") = NIL THEN "right" ELSE "left")
    PROVE  /\ d \in InTree(t) /\ Outer(t, d, x)
           /\ \E c : /\ Cut(c, t, d, x) /\ Linked(c) /\ InTree(c) = InTree(t) \ {d}
                     /\ IF d = n THEN Erased(t, n) = c
                        ELSE Renamed(Erased(t, n), c, n, d) /\ x # n /\ Up(t, d) # NIL
           /\ Linked(Erased(t, n)) /\ InTree(Erased(t, n)) = InTree(t) \ {n}
<1> DEFINE c == MakeOrphan(UnlinkOuter(t, d), d)
           u == Erased(t, n)
<1>1. d \in InTree(t) /\ ~TwoChildren(t, d) /\ (d # n => Kid(t, d, "left") = NIL)
  BY SplicedIs
<1>2. Outer(t, d, x) /\ Cut(c, t, d, x)
  BY <1>1, OuterUnlinked
<1> HIDE DEF c
<1>3. Linked(c) /\ InTree(c) = InTree(t) \ {d}
  BY <1>2, CutLinked
<1>4. CASE d = n
  <2>1. u = c
    BY <1>4 DEF Erased, c
  <2> QED BY <1>1, <1>2, <1>3, <1>4, <2>1
<1>5. CASE d # n
  <2>1. x = Kid(t, d, "right")
    BY <1>1, <1>5
  <2>2. u = MakeOrphan(UnlinkInner(t, n), n)
    BY <1>5 DEF Erased
  <2>3. Renamed(MakeOrphan(UnlinkInner(t, n), n), c, n, d) /\ x # n /\ Up(t, d) # NIL
    BY <1>2, <1>5, <2>1, InnerUnlinked
  <2>4. Renamed(u, c, n, d)
    BY <2>2, <2>3
  <2> HIDE DEF u
  <2>5. n \in InTree(c) /\ d \in RbNodes /\ d \notin InTree(c)
    BY <1>1, <1>3, <1>5, InTreeIs
  <2>6. Linked(u) /\ InTree(u) = (InTree(c) \ {n}) \cup {d}
    BY <1>3, <2>4, <2>5, RenamedLinked
  <2>7. InTree(u) = InTree(t) \ {n}
    BY <1>1, <1>3, <1>5, <2>6
  <2> QED BY <1>1, <1>2, <1>3, <1>5, <2>3, <2>4, <2>6, <2>7 DEF u
<1> QED BY <1>4, <1>5

(* A rotation of a tree whose colors have been changed.                    *)
LEMMA PaintedRotated ==
    ASSUME RbAssumption, NEW t, Linked(t), NEW v, Painted(v, t), NEW r \in InTree(t),
           NEW s \in Sides, NEW new, new = Kid(t, r, Other(s)), new # NIL,
           NEW mid, mid = Kid(t, new, s)
    PROVE  /\ Rotatable(t, r, s, new, mid) /\ Rotated(Rotate(v, r, s), t, r, s, new, mid)
           /\ SameHues(Rotate(v, r, s), v)
           /\ Linked(Rotate(v, r, s)) /\ InTree(Rotate(v, r, s)) = InTree(t)
<1>1. Rotatable(t, r, s, new, mid)
  BY RotatableHere
<1>2. Linked(v) /\ InTree(v) = InTree(t)
  BY PaintedLinked
<1>3. /\ r \in RbNodes /\ new \in RbNodes /\ Other(s) \in Sides /\ mid \in RbLinks
      /\ \A m \in RbNodes : Up(v, m) = Up(t, m)
      /\ \A m \in RbNodes, q \in Sides : Kid(v, m, q) = Kid(t, m, q)
      /\ Top(v) = Top(t)
  BY <1>1, InTreeIs, SidesTwo DEF Painted, SameKids, SameUps, Rotatable
<1>4. Rotatable(v, r, s, new, mid)
  BY <1>1, <1>2, <1>3 DEF Rotatable, RbLinks
<1>5. Rotated(Rotate(v, r, s), v, r, s, new, mid) /\ SameHues(Rotate(v, r, s), v)
  BY <1>2, <1>4, RotateIs
<1>6. Linked(Rotate(v, r, s)) /\ InTree(Rotate(v, r, s)) = InTree(v)
  BY <1>2, <1>4, <1>5, RotatedLinked
<1>7. Rotated(Rotate(v, r, s), t, r, s, new, mid)
  BY <1>3, <1>5 DEF Rotated
<1> QED BY <1>1, <1>2, <1>5, <1>6, <1>7

-----------------------------------------------------------------------------
(* Black heights.  H[n] is the number of black nodes on every path from n  *)
(* down to a leaf, where node z counts one more, and so does the leaf on   *)
(* side q of p; z or p is NIL when there is none.                          *)

Black(c) == IF c = "RED" THEN 0 ELSE 1
Extra(n, z) == IF n = z THEN 1 ELSE 0
ExtraLeaf(n, s, p, q) == IF n = p /\ s = q THEN 1 ELSE 0
Even(t, H, z, p, q) ==
    /\ H \in [RbNodes -> Nat]
    /\ \A n \in RbNodes, s \in Sides : Kid(t, n, s) = NIL =>
          H[n] = ExtraLeaf(n, s, p, q) + Extra(n, z) + Black(Hue(t, n))
    /\ \A n \in RbNodes, s \in Sides : Kid(t, n, s) # NIL =>
          H[n] = H[Kid(t, n, s)] + Extra(n, z) + Black(Hue(t, n))

LEMMA Numbers ==
    /\ \A n, z : Extra(n, z) \in Nat /\ Extra(n, n) = 1 /\ (n # z => Extra(n, z) = 0)
    /\ \A n, s, p, q : /\ ExtraLeaf(n, s, p, q) \in Nat /\ ExtraLeaf(n, s, n, s) = 1
                       /\ (n # p \/ s # q => ExtraLeaf(n, s, p, q) = 0)
    /\ \A c : Black(c) \in Nat
    /\ Black("RED") = 0 /\ Black("BLACK") = 1
BY DEF Extra, ExtraLeaf, Black

(* Nobody counts what lies above the root.                                 *)
LEMMA EvenRoot ==
    ASSUME RbAssumption, NEW t, Linked(t), NEW H, NEW z, NEW p, NEW q, Even(t, H, z, p, q),
           NEW r \in RbNodes, Up(t, r) = NIL, NEW u, Painted(u, t),
           \A m \in RbNodes : m # r => Hue(u, m) = Hue(t, m),
           NEW y, \A m \in RbNodes : m # r => (m = y <=> m = z)
    PROVE  \E G : Even(u, G, y, p, q)
<1> DEFINE g == H[r] - Extra(r, z) - Black(Hue(t, r)) + Extra(r, y) + Black(Hue(u, r))
           G == [m \in RbNodes |-> IF m = r THEN g ELSE H[m]]
<1>e. /\ \A m \in RbNodes : H[m] \in Nat
      /\ \A m \in RbNodes, s0 \in Sides : Kid(t, m, s0) = NIL =>
            H[m] = ExtraLeaf(m, s0, p, q) + Extra(m, z) + Black(Hue(t, m))
      /\ \A m \in RbNodes, s0 \in Sides : Kid(t, m, s0) # NIL =>
            H[m] = H[Kid(t, m, s0)] + Extra(m, z) + Black(Hue(t, m))
  BY DEF Even
<1>1. \A m \in RbNodes, s \in Sides : Kid(t, m, s) # r
  BY LinkedParts DEF RbAssumption
<1>2. g \in Nat
  <2>1. "left" \in Sides
    BY DEF Sides
  <2>2. H[r] - Extra(r, z) - Black(Hue(t, r)) \in Nat
    <3>1. CASE Kid(t, r, "left") = NIL
      BY <2>1, <3>1, <1>e, Numbers
    <3>2. CASE Kid(t, r, "left") # NIL
      <4>1. Kid(t, r, "left") \in RbNodes
        BY <2>1, <3>2, LinkedParts DEF RbLinks
      <4> QED BY <2>1, <3>2, <4>1, <1>e, Numbers
    <3> QED BY <3>1, <3>2
  <2> QED BY <2>2, Numbers
<1>3. G \in [RbNodes -> Nat] /\ \A m \in RbNodes : G[m] = IF m = r THEN g ELSE H[m]
  BY <1>2, <1>e, Numbers
<1> HIDE DEF G
<1>4. \A m \in RbNodes, s \in Sides : Kid(u, m, s) = Kid(t, m, s)
  BY DEF Painted, SameKids
<1>5. ASSUME NEW m \in RbNodes, NEW s \in Sides, Kid(u, m, s) = NIL
      PROVE  G[m] = ExtraLeaf(m, s, p, q) + Extra(m, y) + Black(Hue(u, m))
  <2>1. H[m] = ExtraLeaf(m, s, p, q) + Extra(m, z) + Black(Hue(t, m))
    BY <1>4, <1>5, <1>e, Numbers
  <2>2. CASE m = r
    BY <1>3, <2>1, <2>2, <1>e, Numbers
  <2>3. CASE m # r
    BY <1>3, <2>1, <2>3 DEF Extra
  <2> QED BY <2>2, <2>3
<1>6. ASSUME NEW m \in RbNodes, NEW s \in Sides, Kid(u, m, s) # NIL
      PROVE  G[m] = G[Kid(u, m, s)] + Extra(m, y) + Black(Hue(u, m))
  <2>1. H[m] = H[Kid(t, m, s)] + Extra(m, z) + Black(Hue(t, m))
    BY <1>4, <1>6, <1>e, Numbers
  <2>2. Kid(t, m, s) \in RbNodes /\ G[Kid(t, m, s)] = H[Kid(t, m, s)]
    BY <1>1, <1>3, <1>4, <1>6, LinkedParts DEF RbLinks
  <2>3. CASE m = r
    BY <1>3, <1>4, <2>1, <2>2, <2>3, <1>e, Numbers
  <2>4. CASE m # r
    BY <1>3, <1>4, <2>1, <2>2, <2>4 DEF Extra
  <2> QED BY <2>3, <2>4
<1>7. Even(u, G, y, p, q)
  BY <1>3, <1>5, <1>6 DEF Even
<1> QED BY <1>7

(* A red node hung where nothing was.                                      *)
LEMMA EvenHung ==
    ASSUME RbAssumption, NEW t, Linked(t), NEW H, NEW q, Even(t, H, NIL, NIL, q),
           NEW n \in RbNodes, n \notin InTree(t), NEW s \in Sides,
           NEW p, IF p = NIL THEN Top(t) = NIL ELSE p \in InTree(t) /\ Kid(t, p, s) = NIL,
           NEW u, Hung(u, t, n, p, s)
    PROVE  \E G : Even(u, G, NIL, NIL, q)
<1> DEFINE G == [m \in RbNodes |-> IF m = n THEN 0 ELSE H[m]]
<1>e. /\ \A m \in RbNodes : H[m] \in Nat
      /\ \A m \in RbNodes, s0 \in Sides : Kid(t, m, s0) = NIL =>
            H[m] = ExtraLeaf(m, s0, NIL, q) + Extra(m, NIL) + Black(Hue(t, m))
      /\ \A m \in RbNodes, s0 \in Sides : Kid(t, m, s0) # NIL =>
            H[m] = H[Kid(t, m, s0)] + Extra(m, NIL) + Black(Hue(t, m))
  BY DEF Even
<1>1. NIL \notin RbNodes /\ Up(t, n) = n /\ (p # NIL => p # n /\ Kid(t, p, s) = NIL)
  BY InTreeIs DEF RbAssumption
<1>2. \A m \in RbNodes, e \in Sides : Kid(t, m, e) # n /\ Kid(t, n, e) = NIL
  BY <1>1, LinkedParts, KidInTree
<1>3. G \in [RbNodes -> Nat] /\ \A m \in RbNodes : G[m] = IF m = n THEN 0 ELSE H[m]
  BY <1>e, Numbers
<1> HIDE DEF G
<1>4. /\ \A m \in RbNodes, e \in Sides :
            Kid(u, m, e) = IF m = p /\ e = s THEN n ELSE Kid(t, m, e)
      /\ \A m \in RbNodes : Hue(u, m) = IF m = n THEN "RED" ELSE Hue(t, m)
  BY DEF Hung
<1>5. ASSUME NEW m \in RbNodes, NEW e \in Sides, Kid(u, m, e) = NIL
      PROVE  G[m] = ExtraLeaf(m, e, NIL, q) + Extra(m, NIL) + Black(Hue(u, m))
  <2>1. CASE m = n
    BY <1>1, <1>3, <1>4, <2>1, <1>e, Numbers
  <2>2. CASE m # n
    <3>1. Kid(t, m, e) = NIL
      BY <1>1, <1>4, <1>5
    <3> QED BY <1>3, <1>4, <2>2, <3>1, <1>e, Numbers
  <2> QED BY <2>1, <2>2
<1>6. ASSUME NEW m \in RbNodes, NEW e \in Sides, Kid(u, m, e) # NIL
      PROVE  G[m] = G[Kid(u, m, e)] + Extra(m, NIL) + Black(Hue(u, m))
  <2>1. CASE m = p /\ e = s
    <3>1. Kid(t, m, e) = NIL /\ Kid(u, m, e) = n /\ m # n /\ m # NIL
      BY <1>1, <1>4, <2>1
    <3>2. H[m] = 0 + 0 + Black(Hue(t, m))
      BY <3>1, <1>e, Numbers
    <3> QED BY <1>3, <1>4, <3>1, <3>2, <1>e, Numbers
  <2>2. CASE ~(m = p /\ e = s)
    <3>1. Kid(u, m, e) = Kid(t, m, e) /\ m # n /\ Kid(t, m, e) # n /\ Kid(t, m, e) \in RbNodes
      BY <1>2, <1>4, <1>6, <2>2, LinkedParts DEF RbLinks
    <3>2. H[m] = H[Kid(t, m, e)] + Extra(m, NIL) + Black(Hue(t, m))
      BY <1>6, <3>1, <1>e, Numbers
    <3> QED BY <1>3, <1>4, <3>1, <3>2
  <2> QED BY <2>1, <2>2
<1>7. Even(u, G, NIL, NIL, q)
  BY <1>3, <1>5, <1>6 DEF Even
<1> QED BY <1>7

(* What takes the place of d lacks d's black.                              *)
LEMMA EvenCut ==
    ASSUME RbAssumption, NEW t, Linked(t), NEW H, NEW o, Even(t, H, NIL, NIL, o),
           NEW d, NEW x, Outer(t, d, x), NEW u, Cut(u, t, d, x),
           NEW q \in Sides, Up(t, d) # NIL => Kid(t, Up(t, d), q) = d,
           NEW z, NEW p,
           IF Hue(t, d) = "BLACK"
           THEN z = x /\ p = IF x = NIL THEN Up(t, d) ELSE NIL
           ELSE z = NIL /\ p = NIL
    PROVE  \E G : Even(u, G, z, p, q)
<1> DEFINE b == Black(Hue(t, d))
           G == [m \in RbNodes |-> IF m = d THEN 0 ELSE IF m = x THEN H[m] + b ELSE H[m]]
           e == Up(t, d)
<1>e. /\ \A m \in RbNodes : H[m] \in Nat
      /\ \A m \in RbNodes, s0 \in Sides : Kid(t, m, s0) = NIL =>
            H[m] = ExtraLeaf(m, s0, NIL, o) + Extra(m, NIL) + Black(Hue(t, m))
      /\ \A m \in RbNodes, s0 \in Sides : Kid(t, m, s0) # NIL =>
            H[m] = H[Kid(t, m, s0)] + Extra(m, NIL) + Black(Hue(t, m))
  BY DEF Even
<1>1. /\ d \in RbNodes /\ d # NIL /\ x # d /\ x \in RbLinks /\ NIL \notin RbNodes
      /\ e # d /\ e \in RbLinks /\ (e # x \/ x = NIL)
      /\ \A r \in Sides : Kid(t, d, r) \in {x, NIL}
      /\ x # NIL => x \in InTree(t) /\ Up(t, x) = d /\ x \in RbNodes
  BY OuterParts, InTreeIs DEF RbAssumption
<1>2. /\ \A m \in RbNodes, r \in Sides :
            Kid(u, m, r) = IF m = d THEN NIL
                           ELSE IF m = e /\ Kid(t, m, r) = d THEN x ELSE Kid(t, m, r)
      /\ \A m \in RbNodes : Hue(u, m) = IF m = d THEN "RED" ELSE Hue(t, m)
  BY DEF Cut
<1>3. b \in {0, 1} /\ Hue(t, d) \in {"RED", "BLACK"} /\ (b = 1 <=> Hue(t, d) = "BLACK")
  BY <1>1, LinkedParts DEF Black, Colors
<1>4. G \in [RbNodes -> Nat]
      /\ \A m \in RbNodes : G[m] = IF m = d THEN 0 ELSE IF m = x THEN H[m] + b ELSE H[m]
  BY <1>3, <1>e, Numbers
<1>5. b = Black(Hue(t, d)) /\ e = Up(t, d)
  OBVIOUS
<1> HIDE DEF G, b, e
<1>6. \A m \in RbNodes, r \in Sides : Kid(t, m, r) = d => m = e /\ r = q
  <2>1. \A m \in RbNodes, r \in Sides : Kid(t, m, r) = d => m = e
    BY <1>1, <1>5, LinkedParts
  <2>2. \A r \in Sides : e # NIL /\ Kid(t, e, r) = d => r = q
    BY <1>1, <1>5, LinkedParts, SidesTwo DEF RbLinks
  <2> QED BY <1>1, <2>1, <2>2
<1>7. \A m \in RbNodes, r \in Sides : Kid(t, m, r) = x /\ x # NIL => m = d
  BY <1>1, LinkedParts
<1>8. H[d] = (IF x = NIL THEN 0 ELSE H[x]) + b
  <2>1. PICK r \in Sides : Kid(t, d, r) = x
    BY DEF Outer
  <2>2. x = NIL => H[d] = 0 + 0 + b
    BY <1>1, <1>5, <2>1, <1>e, Numbers
  <2>3. x # NIL => H[d] = H[x] + 0 + b
    BY <1>1, <1>5, <2>1, <1>e, Numbers
  <2>4. b \in Nat /\ (x # NIL => H[x] \in Nat)
    BY <1>1, <1>3, <1>e, Numbers
  <2> QED BY <2>2, <2>3, <2>4, <1>e, Numbers
<1>9. ASSUME NEW m \in RbNodes, NEW r \in Sides, Kid(u, m, r) = NIL
      PROVE  G[m] = ExtraLeaf(m, r, p, q) + Extra(m, z) + Black(Hue(u, m))
  <2>1. CASE m = d
    <3>1. m # p /\ m # z
      BY <1>1, <1>5, <2>1
    <3> QED BY <1>2, <1>4, <2>1, <3>1, <1>e, Numbers
  <2>2. CASE m # d /\ Kid(t, m, r) = d
    <3>1. m = e /\ r = q /\ x = NIL /\ m # x
      BY <1>1, <1>2, <1>6, <1>9, <2>2
    <3>2. H[m] = b + Extra(m, NIL) + Black(Hue(t, m))
      BY <1>1, <1>3, <1>8, <2>2, <3>1, <1>e, Numbers
    <3>3. G[m] = H[m] /\ Hue(u, m) = Hue(t, m) /\ m # z /\ m # NIL
      BY <1>1, <1>2, <1>4, <2>2, <3>1
    <3>4. ExtraLeaf(m, r, p, q) = b
      <4>1. m = p <=> b = 1
        BY <1>1, <1>3, <1>5, <3>1
      <4> QED BY <1>3, <3>1, <4>1 DEF Extra, ExtraLeaf
    <3> QED BY <3>2, <3>3, <3>4, Numbers
  <2>3. CASE m # d /\ Kid(t, m, r) # d
    <3>1. Kid(t, m, r) = NIL
      BY <1>2, <1>9, <2>3
    <3>2. H[m] = 0 + 0 + Black(Hue(t, m))
      BY <1>1, <3>1, <1>e, Numbers
    <3>3. ~(m = p /\ r = q)
      BY <1>1, <1>5, <2>3
    <3>4. CASE m # x
      <4>1. G[m] = H[m] /\ Hue(u, m) = Hue(t, m) /\ m # z
        BY <1>1, <1>2, <1>4, <2>3, <3>4
      <4> QED BY <3>2, <3>3, <4>1, <1>e, Numbers
    <3>5. CASE m = x
      <4>1. G[m] = H[m] + b /\ Hue(u, m) = Hue(t, m) /\ (m = z <=> b = 1)
        BY <1>1, <1>2, <1>3, <1>4, <2>3, <3>5
      <4>2. Extra(m, z) = b
        BY <1>3, <4>1 DEF Extra, ExtraLeaf
      <4> QED BY <1>3, <3>2, <3>3, <4>1, <4>2, <1>e, Numbers
    <3> QED BY <3>4, <3>5
  <2> QED BY <2>1, <2>2, <2>3
<1>10. ASSUME NEW m \in RbNodes, NEW r \in Sides, Kid(u, m, r) # NIL
       PROVE  G[m] = G[Kid(u, m, r)] + Extra(m, z) + Black(Hue(u, m))
  <2>1. m # d
    BY <1>2, <1>10
  <2>2. CASE Kid(t, m, r) = d
    <3>1. m = e /\ Kid(u, m, r) = x /\ x # NIL /\ m # x /\ m # z /\ m # NIL
      BY <1>1, <1>2, <1>6, <1>10, <2>1, <2>2
    <3>2. H[m] = H[d] + 0 + Black(Hue(t, m))
      BY <1>1, <2>2, <3>1, <1>e, Numbers
    <3>3. G[m] = H[m] /\ G[x] = H[x] + b /\ Hue(u, m) = Hue(t, m)
      BY <1>1, <1>2, <1>4, <2>1, <3>1
    <3> QED BY <1>8, <3>1, <3>2, <3>3, <1>e, Numbers
  <2>3. CASE Kid(t, m, r) # d
    <3>1. Kid(u, m, r) = Kid(t, m, r) /\ Kid(t, m, r) # x /\ Kid(t, m, r) \in RbNodes
      BY <1>1, <1>2, <1>7, <1>10, <2>1, <2>3, LinkedParts DEF RbLinks
    <3>2. H[m] = H[Kid(t, m, r)] + 0 + Black(Hue(t, m))
      BY <1>1, <1>10, <3>1, <1>e, Numbers
    <3>3. G[Kid(t, m, r)] = H[Kid(t, m, r)] /\ Hue(u, m) = Hue(t, m)
      BY <1>2, <1>4, <2>1, <2>3, <3>1
    <3>4. CASE m # x
      <4>1. G[m] = H[m] /\ m # z
        BY <1>1, <1>4, <2>1, <3>4
      <4> QED BY <3>1, <3>2, <3>3, <4>1, <1>e, Numbers
    <3>5. CASE m = x
      <4>1. G[m] = H[m] + b /\ (m = z <=> b = 1)
        BY <1>1, <1>3, <1>4, <2>1, <3>5
      <4>2. Extra(m, z) = b
        BY <1>3, <4>1 DEF Extra, ExtraLeaf
      <4>3. H[Kid(t, m, r)] \in Nat /\ Black(Hue(t, m)) \in Nat
        BY <3>1, <1>e, Numbers
      <4> QED BY <1>3, <3>1, <3>2, <3>3, <4>1, <4>2, <4>3, <1>e, Numbers
    <3> QED BY <3>4, <3>5
  <2> QED BY <2>2, <2>3
<1>11. Even(u, G, z, p, q)
  BY <1>4, <1>9, <1>10 DEF Even
<1> QED BY <1>11

(* d takes the place of n, and what n lacked below.                        *)
LEMMA EvenRenamed ==
    ASSUME RbAssumption, NEW t, Linked(t), NEW H, NEW z, NEW p, NEW q, Even(t, H, z, p, q),
           NEW n \in InTree(t), NEW d \in RbNodes, d \notin InTree(t),
           z # n, z # d, p # d, NEW u, Renamed(u, t, n, d)
    PROVE  \E G : Even(u, G, z, IF p = n THEN d ELSE p, q)
<1> DEFINE G == [m \in RbNodes |-> IF m = n THEN 0 ELSE IF m = d THEN H[n] ELSE H[m]]
           o == IF p = n THEN d ELSE p
<1>e. /\ \A m \in RbNodes : H[m] \in Nat
      /\ \A m \in RbNodes, s \in Sides : Kid(t, m, s) = NIL =>
            H[m] = ExtraLeaf(m, s, p, q) + Extra(m, z) + Black(Hue(t, m))
      /\ \A m \in RbNodes, s \in Sides : Kid(t, m, s) # NIL =>
            H[m] = H[Kid(t, m, s)] + Extra(m, z) + Black(Hue(t, m))
  BY DEF Even
<1>1. /\ n \in RbNodes /\ n # d /\ NIL \notin RbNodes /\ n # NIL /\ d # NIL
      /\ \A m \in RbNodes, s \in Sides : Kid(t, m, s) # d
  BY InTreeIs, KidInTree DEF RbAssumption
<1>2. /\ \A m \in RbNodes, s \in Sides :
            Kid(u, m, s) = IF m = n THEN NIL ELSE IF m = d THEN Kid(t, n, s)
                           ELSE IF Kid(t, m, s) = n THEN d ELSE Kid(t, m, s)
      /\ \A m \in RbNodes :
            Hue(u, m) = IF m = n THEN "RED" ELSE IF m = d THEN Hue(t, n) ELSE Hue(t, m)
  BY DEF Renamed
<1>3. /\ G \in [RbNodes -> Nat]
      /\ \A m \in RbNodes : G[m] = IF m = n THEN 0 ELSE IF m = d THEN H[n] ELSE H[m]
  BY <1>1, <1>e
<1>4. o # n /\ (p = n => o = d) /\ (p # n => o = p)
  BY <1>1
<1> HIDE DEF G, o
<1>5. ASSUME NEW m \in RbNodes, NEW s \in Sides, Kid(u, m, s) = NIL
      PROVE  G[m] = ExtraLeaf(m, s, o, q) + Extra(m, z) + Black(Hue(u, m))
  <2>1. CASE m = n
    BY <1>2, <1>3, <1>4, <2>1, Numbers
  <2>2. CASE m = d
    <3>1. H[n] = ExtraLeaf(n, s, p, q) + Extra(n, z) + Black(Hue(t, n))
      BY <1>1, <1>2, <1>5, <1>e, <2>2
    <3>2. ExtraLeaf(n, s, p, q) = ExtraLeaf(d, s, o, q) /\ Extra(n, z) = Extra(d, z)
      BY <1>4 DEF ExtraLeaf, Extra
    <3> QED BY <1>1, <1>2, <1>3, <2>2, <3>1, <3>2
  <2>3. CASE m # n /\ m # d
    <3>1. Kid(t, m, s) = NIL
      BY <1>1, <1>2, <1>5, <2>3
    <3>2. ExtraLeaf(m, s, p, q) = ExtraLeaf(m, s, o, q)
      BY <1>4, <2>3 DEF ExtraLeaf
    <3> QED BY <1>2, <1>3, <1>e, <2>3, <3>1, <3>2
  <2> QED BY <2>1, <2>2, <2>3
<1>6. ASSUME NEW m \in RbNodes, NEW s \in Sides, Kid(u, m, s) # NIL
      PROVE  G[m] = G[Kid(u, m, s)] + Extra(m, z) + Black(Hue(u, m))
  <2>1. m # n
    BY <1>2, <1>6
  <2>2. CASE m = d
    <3>1. /\ Kid(u, m, s) = Kid(t, n, s) /\ Kid(t, n, s) # n /\ Kid(t, n, s) # d
          /\ Kid(t, n, s) \in RbNodes
      BY <1>1, <1>2, <1>6, <2>1, <2>2, KidInTree, LinkedParts DEF RbLinks
    <3>2. H[n] = H[Kid(t, n, s)] + Extra(n, z) + Black(Hue(t, n))
      BY <1>1, <1>6, <1>e, <3>1
    <3>3. Extra(n, z) = Extra(d, z)
      BY DEF Extra
    <3> QED BY <1>1, <1>2, <1>3, <2>2, <3>1, <3>2, <3>3
  <2>3. CASE m # d /\ Kid(t, m, s) = n
    BY <1>1, <1>2, <1>3, <1>e, <2>1, <2>3
  <2>4. CASE m # d /\ Kid(t, m, s) # n
    <3>1. Kid(u, m, s) = Kid(t, m, s) /\ Kid(t, m, s) \in RbNodes /\ Kid(t, m, s) # d
      BY <1>1, <1>2, <1>6, <2>1, <2>4, LinkedParts DEF RbLinks
    <3> QED BY <1>2, <1>3, <1>6, <1>e, <2>1, <2>4, <3>1
  <2> QED BY <2>2, <2>3, <2>4
<1>7. Even(u, G, z, o, q)
  BY <1>3, <1>5, <1>6 DEF Even
<1> QED BY <1>7 DEF o

(* A rotation by which r and the red node new exchange their colors.       *)
LEMMA EvenRotated ==
    ASSUME RbAssumption, NEW t, Linked(t), NEW H, NEW z, NEW p, NEW q, Even(t, H, z, p, q),
           NEW r, NEW s, NEW new, NEW mid, Rotatable(t, r, s, new, mid),
           NEW u, Rotated(u, t, r, s, new, mid),
           Hue(t, new) = "RED", Hue(u, r) = "RED", Hue(u, new) = Hue(t, r),
           \A m \in RbNodes : m # r /\ m # new => Hue(u, m) = Hue(t, m),
           z # r, z # new, p # new, p = r => q = s
    PROVE  \E G : Even(u, G, z, p, q)
<1> DEFINE G == [m \in RbNodes |-> IF m = r THEN H[new] ELSE IF m = new THEN H[r] ELSE H[m]]
           o == Other(s)
           a == Up(t, r)
<1>e. /\ \A m \in RbNodes : H[m] \in Nat
      /\ \A m \in RbNodes, e \in Sides : Kid(t, m, e) = NIL =>
            H[m] = ExtraLeaf(m, e, p, q) + Extra(m, z) + Black(Hue(t, m))
      /\ \A m \in RbNodes, e \in Sides : Kid(t, m, e) # NIL =>
            H[m] = H[Kid(t, m, e)] + Extra(m, z) + Black(Hue(t, m))
  BY DEF Even
<1>1. /\ r \in RbNodes /\ mid \in RbLinks /\ NIL \notin RbNodes /\ a = Up(t, r) /\ a # r /\ a # new
      /\ s \in Sides /\ o \in Sides /\ o # s /\ new \in RbNodes
      /\ \A e \in Sides : e = s \/ e = o
      /\ new # r /\ mid # r /\ mid # new /\ r # NIL /\ new # NIL
      /\ new = Kid(t, r, o) /\ mid = Kid(t, new, s) /\ Up(t, new) = r
      /\ mid # NIL => mid \in RbNodes /\ Up(t, mid) = new
  BY InTreeIs, SidesTwo DEF RbAssumption, Rotatable
<1>2. \A m \in RbNodes, e \in Sides :
            Kid(u, m, e) = IF m = r /\ e = o THEN mid
                            ELSE IF m = new /\ e = s THEN r
                            ELSE IF m = a /\ Kid(t, m, e) = r THEN new
                            ELSE Kid(t, m, e)
  BY DEF Rotated
<1>3. /\ G \in [RbNodes -> Nat]
      /\ \A m \in RbNodes : G[m] = IF m = r THEN H[new] ELSE IF m = new THEN H[r] ELSE H[m]
  BY <1>1, <1>e
<1> HIDE DEF G, o, a
<1>4. /\ \A m \in RbNodes, e \in Sides : Kid(t, m, e) = r => m = a
      /\ \A m \in RbNodes, e \in Sides : Kid(t, m, e) = new => m = r /\ e = o
      /\ \A m \in RbNodes, e \in Sides : Kid(t, m, e) # NIL => Kid(t, m, e) \in RbNodes
  <2>1. \A m \in RbNodes, e \in Sides : Kid(t, m, e) = new => m = r
    BY <1>1, LinkedParts
  <2>2. Kid(t, r, s) # new
    BY <1>1, LinkedParts DEF o
  <2>3. \A m \in RbNodes, e \in Sides : Kid(t, m, e) # NIL => Kid(t, m, e) \in RbNodes
    BY LinkedParts DEF RbLinks
  <2>4. \A m \in RbNodes, e \in Sides : Kid(t, m, e) = r => m = a
    BY <1>1, LinkedParts
  <2> QED BY <1>1, <2>1, <2>2, <2>3, <2>4
<1>5. H[r] = H[new] + Black(Hue(t, r))
  BY <1>1, <1>e, Numbers
<1>6. (mid = NIL => H[new] = 0) /\ (mid # NIL => H[new] = H[mid])
  BY <1>1, <1>e, Numbers
<1>7. ASSUME NEW m \in RbNodes, NEW e \in Sides, Kid(u, m, e) = NIL
      PROVE  G[m] = ExtraLeaf(m, e, p, q) + Extra(m, z) + Black(Hue(u, m))
  <2>1. CASE m = r /\ e = o
    <3>1. mid = NIL /\ (m # p \/ e # q)
      BY <1>1, <1>2, <1>7, <2>1
    <3> QED BY <1>3, <1>6, <2>1, <3>1, Numbers
  <2>2. CASE m = r /\ e = s
    <3>1. Kid(t, m, e) = NIL
      BY <1>1, <1>2, <1>7, <2>2
    <3>2. H[r] = ExtraLeaf(m, e, p, q) + 0 + Black(Hue(t, r))
      BY <1>e, <2>2, <3>1, Numbers
    <3>3. /\ G[m] = H[new] /\ H[new] \in Nat /\ Black(Hue(t, r)) \in Nat
          /\ ExtraLeaf(m, e, p, q) \in Nat
      BY <1>1, <1>3, <1>e, <2>2, Numbers
    <3>4. H[new] = ExtraLeaf(m, e, p, q)
      BY <1>5, <3>2, <3>3
    <3> QED BY <2>2, <3>3, <3>4, Numbers
  <2>3. CASE m = new
    <3>1. Kid(t, m, e) = NIL /\ m # p /\ m # z
      BY <1>1, <1>2, <1>7, <2>3
    <3>2. H[new] = 0
      BY <1>e, <2>3, <3>1, Numbers
    <3> QED BY <1>1, <1>3, <1>5, <2>3, <3>1, <3>2, Numbers
  <2>4. CASE m # r /\ m # new
    <3>1. Kid(t, m, e) = NIL
      BY <1>1, <1>2, <1>7, <2>4
    <3> QED BY <1>3, <1>e, <2>4, <3>1
  <2> QED BY <1>1, <2>1, <2>2, <2>3, <2>4
<1>8. ASSUME NEW m \in RbNodes, NEW e \in Sides, Kid(u, m, e) # NIL
      PROVE  G[m] = G[Kid(u, m, e)] + Extra(m, z) + Black(Hue(u, m))
  <2>1. CASE m = r /\ e = o
    <3>1. Kid(u, m, e) = mid /\ mid \in RbNodes /\ mid # NIL
      BY <1>1, <1>2, <1>8, <2>1
    <3> QED BY <1>1, <1>3, <1>6, <1>e, <2>1, <3>1, Numbers
  <2>2. CASE m = r /\ e = s
    <3>1. /\ Kid(u, m, e) = Kid(t, m, e) /\ Kid(t, m, e) \in RbNodes /\ Kid(t, m, e) # r
          /\ Kid(t, m, e) # new
      BY <1>1, <1>2, <1>4, <1>8, <2>2
    <3>2. H[r] = H[Kid(t, m, e)] + 0 + Black(Hue(t, r))
      BY <1>8, <1>e, <2>2, <3>1, Numbers
    <3>3. H[Kid(t, m, e)] \in Nat /\ H[new] \in Nat /\ Black(Hue(t, r)) \in Nat
      BY <1>1, <1>e, <3>1, Numbers
    <3>4. H[new] = H[Kid(t, m, e)]
      BY <1>5, <3>2, <3>3
    <3> QED BY <1>3, <2>2, <3>1, <3>3, <3>4, Numbers
  <2>3. CASE m = new /\ e = s
    BY <1>1, <1>2, <1>3, <1>5, <1>e, <2>3, Numbers
  <2>4. CASE m = new /\ e = o
    <3>1. /\ Kid(u, m, e) = Kid(t, m, e) /\ Kid(t, m, e) \in RbNodes /\ Kid(t, m, e) # new
          /\ Kid(t, m, e) # r
      BY <1>1, <1>2, <1>4, <1>8, <2>4
    <3>2. H[new] = H[Kid(t, m, e)]
      BY <1>8, <1>e, <2>4, <3>1, Numbers
    <3> QED BY <1>1, <1>3, <1>5, <1>e, <2>4, <3>1, <3>2, Numbers
  <2>5. CASE m # r /\ m # new /\ Kid(t, m, e) = r
    <3>1. Kid(u, m, e) = new
      BY <1>2, <1>4, <2>5
    <3> QED BY <1>1, <1>3, <1>e, <2>5, <3>1
  <2>6. CASE m # r /\ m # new /\ Kid(t, m, e) # r
    <3>1. Kid(u, m, e) = Kid(t, m, e) /\ Kid(t, m, e) \in RbNodes /\ Kid(t, m, e) # new
      BY <1>2, <1>4, <1>8, <2>6
    <3> QED BY <1>3, <1>8, <1>e, <2>6, <3>1
  <2> QED BY <1>1, <2>1, <2>2, <2>3, <2>4, <2>5, <2>6
<1>9. Even(u, G, z, p, q)
  BY <1>3, <1>7, <1>8 DEF Even
<1> QED BY <1>9

(* What lacks a black is x, the node or leaf on side s of r.               *)
LackingAt(x, r) == IF x = NIL THEN r ELSE NIL

LEMMA EvenFacts ==
    ASSUME NEW t, NEW H, NEW z, NEW p, NEW q, Even(t, H, z, p, q)
    PROVE  /\ \A m \in RbNodes : H[m] \in Nat
           /\ \A m \in RbNodes, e \in Sides : Kid(t, m, e) = NIL =>
                 H[m] = ExtraLeaf(m, e, p, q) + Extra(m, z) + Black(Hue(t, m))
           /\ \A m \in RbNodes, e \in Sides : Kid(t, m, e) # NIL =>
                 H[m] = H[Kid(t, m, e)] + Extra(m, z) + Black(Hue(t, m))
BY DEF Even

(* x's sibling has the height that x should have, and so is there.         *)
LEMMA SiblingHeight ==
    ASSUME RbAssumption, NEW t, Linked(t), NEW r \in RbNodes, NEW s \in Sides,
           NEW x, x = Kid(t, r, s), NEW H, Even(t, H, x, LackingAt(x, r), s)
    PROVE  /\ Kid(t, r, Other(s)) # NIL /\ Kid(t, r, Other(s)) \in RbNodes
           /\ H[r] = H[Kid(t, r, Other(s))] + Black(Hue(t, r))
           /\ x = NIL => H[Kid(t, r, Other(s))] = 1
           /\ x # NIL => /\ H[x] = H[Kid(t, r, Other(s))] /\ x \in RbNodes /\ H[x] - 1 \in Nat
<1> DEFINE o == Other(s)
           w == Kid(t, r, o)
<1>e. /\ \A m \in RbNodes : H[m] \in Nat
      /\ \A m \in RbNodes, e \in Sides : Kid(t, m, e) = NIL =>
            H[m] = ExtraLeaf(m, e, LackingAt(x, r), s) + Extra(m, x) + Black(Hue(t, m))
      /\ \A m \in RbNodes, e \in Sides : Kid(t, m, e) # NIL =>
            H[m] = H[Kid(t, m, e)] + Extra(m, x) + Black(Hue(t, m))
  BY EvenFacts
<1>1. o \in Sides /\ o # s /\ r # NIL /\ NIL \notin RbNodes /\ (x # NIL => x \in RbNodes /\ x # r)
  BY SidesTwo, KidInTree, InTreeIs DEF RbAssumption
<1>2. LackingAt(x, r) = IF x = NIL THEN r ELSE NIL
  BY DEF LackingAt
<1>3. \A m \in RbNodes : Black(Hue(t, m)) \in Nat
  BY Numbers
<1> HIDE DEF o
<1>4. CASE x = NIL
  <2>1. H[r] = 1 + 0 + Black(Hue(t, r))
    <3>1. Kid(t, r, s) = NIL /\ LackingAt(x, r) = r /\ r # x
      BY <1>1, <1>2, <1>4
    <3>2. H[r] = ExtraLeaf(r, s, r, s) + Extra(r, x) + Black(Hue(t, r))
      BY <1>e, <3>1
    <3>3. ExtraLeaf(r, s, r, s) = 1 /\ Extra(r, x) = 0
      BY <3>1, Numbers
    <3> QED BY <3>2, <3>3
  <2>2. CASE w = NIL
    <3>1. H[r] = 0 + 0 + Black(Hue(t, r))
      BY <1>1, <1>2, <1>4, <1>e, <2>2, Numbers
    <3> QED BY <1>3, <2>1, <3>1
  <2>3. CASE w # NIL
    <3>1. H[r] = H[w] + 0 + Black(Hue(t, r)) /\ w \in RbNodes
      BY <1>1, <1>4, <1>e, <2>3, Numbers, LinkedParts DEF RbLinks
    <3>2. H[w] \in Nat /\ Black(Hue(t, r)) \in Nat
      BY <1>3, <1>e, <3>1
    <3> QED BY <1>4, <2>1, <2>3, <3>1, <3>2 DEF o
  <2> QED BY <2>2, <2>3
<1>5. CASE x # NIL
  <2>1. H[r] = H[x] + 0 + Black(Hue(t, r))
    BY <1>1, <1>5, <1>e, Numbers
  <2>2. H[x] \in Nat /\ H[x] - 1 \in Nat
    <3>1. s \in Sides
      OBVIOUS
    <3>2. CASE Kid(t, x, s) = NIL
      <4>1. H[x] = ExtraLeaf(x, s, NIL, s) + 1 + Black(Hue(t, x))
        BY <1>1, <1>2, <1>5, <1>e, <3>2, Numbers
      <4> QED BY <1>1, <1>3, <1>5, <4>1, Numbers
    <3>3. CASE Kid(t, x, s) # NIL
      <4>1. H[x] = H[Kid(t, x, s)] + 1 + Black(Hue(t, x)) /\ Kid(t, x, s) \in RbNodes
        BY <1>1, <1>5, <1>e, <3>3, Numbers, LinkedParts DEF RbLinks
      <4> QED BY <1>1, <1>3, <1>5, <1>e, <4>1
    <3> QED BY <3>2, <3>3
  <2>3. CASE w = NIL
    <3>1. H[r] = 0 + 0 + Black(Hue(t, r))
      BY <1>1, <1>2, <1>5, <1>e, <2>3, Numbers
    <3> QED BY <1>3, <2>1, <2>2, <3>1
  <2>4. CASE w # NIL
    <3>1. H[r] = H[w] + 0 + Black(Hue(t, r)) /\ w \in RbNodes
      BY <1>1, <1>5, <1>e, <2>4, Numbers, LinkedParts DEF RbLinks
    <3>2. H[w] \in Nat /\ Black(Hue(t, r)) \in Nat
      BY <1>3, <1>e, <3>1
    <3> QED BY <1>1, <1>5, <2>1, <2>2, <2>4, <3>1, <3>2 DEF o
  <2> QED BY <2>3, <2>4
<1> QED BY <1>4, <1>5

(* Case 2: a black less on the other side, and the parent lacks it.        *)
LEMMA EvenSibling ==
    ASSUME RbAssumption, NEW t, Linked(t), NEW r \in RbNodes, NEW s \in Sides,
           NEW x, x = Kid(t, r, s), NEW H, Even(t, H, x, LackingAt(x, r), s),
           NEW w, w = Kid(t, r, Other(s)), Hue(t, w) = "BLACK", NEW u, Painted(u, t),
           Hue(u, w) = "RED", \A m \in RbNodes : m # w => Hue(u, m) = Hue(t, m)
    PROVE  \E G : Even(u, G, r, NIL, s)
<1> DEFINE G == [m \in RbNodes |-> IF m = w THEN H[w] - 1 ELSE IF m = x THEN H[x] - 1 ELSE H[m]]
<1>e. /\ \A m \in RbNodes : H[m] \in Nat
      /\ \A m \in RbNodes, e \in Sides : Kid(t, m, e) = NIL =>
            H[m] = ExtraLeaf(m, e, LackingAt(x, r), s) + Extra(m, x) + Black(Hue(t, m))
      /\ \A m \in RbNodes, e \in Sides : Kid(t, m, e) # NIL =>
            H[m] = H[Kid(t, m, e)] + Extra(m, x) + Black(Hue(t, m))
  BY EvenFacts
<1>1. /\ w # NIL /\ w \in RbNodes /\ H[r] = H[w] + Black(Hue(t, r)) /\ (x = NIL => H[w] = 1)
      /\ x # NIL => H[x] = H[w] /\ x \in RbNodes /\ H[x] - 1 \in Nat
  BY SiblingHeight
<1>2. /\ NIL \notin RbNodes /\ r # NIL /\ w # r /\ x # r /\ x # w
      /\ Up(t, w) = r /\ (x # NIL => Up(t, x) = r)
  BY <1>1, SidesTwo, KidInTree, LinkedParts DEF RbAssumption
<1>3. LackingAt(x, r) = IF x = NIL THEN r ELSE NIL
  BY DEF LackingAt
<1>4. H[w] - 1 \in Nat
  BY <1>1
<1>5. /\ G \in [RbNodes -> Nat]
      /\ \A m \in RbNodes : G[m] = IF m = w THEN H[w] - 1 ELSE IF m = x THEN H[x] - 1 ELSE H[m]
  BY <1>1, <1>2, <1>4, <1>e
<1> HIDE DEF G
<1>6. \A m \in RbNodes, e \in Sides : Kid(u, m, e) = Kid(t, m, e)
  BY DEF Painted, SameKids
<1>7. \A m \in RbNodes : Black(Hue(t, m)) \in Nat /\ Black(Hue(u, m)) \in Nat
  BY Numbers
<1>8. \A m \in RbNodes, e \in Sides : Kid(t, m, e) = w \/ (Kid(t, m, e) = x /\ x # NIL) => m = r
  BY <1>1, <1>2, LinkedParts
<1>9. ASSUME NEW m \in RbNodes, NEW e \in Sides, Kid(u, m, e) = NIL
      PROVE  G[m] = ExtraLeaf(m, e, NIL, s) + Extra(m, r) + Black(Hue(u, m))
  <2>1. H[m] = ExtraLeaf(m, e, LackingAt(x, r), s) + Extra(m, x) + Black(Hue(t, m))
    BY <1>6, <1>9, <1>e
  <2>2. CASE m = w
    <3>1. H[w] = 0 + 0 + 1
      BY <1>2, <1>3, <2>1, <2>2, Numbers
    <3> QED BY <1>2, <1>5, <2>2, <3>1, Numbers
  <2>3. CASE m = x
    <3>1. H[x] = 0 + 1 + Black(Hue(t, x)) /\ x # NIL
      BY <1>2, <1>3, <2>1, <2>3, Numbers
    <3> QED BY <1>2, <1>5, <1>7, <2>3, <3>1, Numbers
  <2>4. CASE m = r
    <3>1. x = NIL /\ e = s
      BY <1>1, <1>6, <1>9, <2>4, SidesTwo
    <3> QED BY <1>2, <1>3, <1>5, <1>7, <2>1, <2>4, <3>1, Numbers
  <2>5. CASE m # w /\ m # x /\ m # r
    BY <1>2, <1>3, <1>5, <2>1, <2>5, Numbers
  <2> QED BY <2>2, <2>3, <2>4, <2>5
<1>10. ASSUME NEW m \in RbNodes, NEW e \in Sides, Kid(u, m, e) # NIL
      PROVE  G[m] = G[Kid(u, m, e)] + Extra(m, r) + Black(Hue(u, m))
  <2>1. /\ H[m] = H[Kid(t, m, e)] + Extra(m, x) + Black(Hue(t, m))
        /\ Kid(u, m, e) = Kid(t, m, e) /\ Kid(t, m, e) \in RbNodes
    BY <1>6, <1>10, <1>e, LinkedParts DEF RbLinks
  <2>2. CASE m = r
    <3>1. Kid(t, m, e) = w \/ (Kid(t, m, e) = x /\ x # NIL)
      <4>1. e = s \/ e = Other(s)
        BY SidesTwo
      <4> QED BY <1>6, <1>10, <2>2, <4>1
    <3>2. G[Kid(t, m, e)] = H[w] - 1
      BY <1>1, <1>5, <2>1, <3>1
    <3>3. H[w] \in Nat /\ G[r] = H[r] /\ Hue(u, r) = Hue(t, r)
      BY <1>1, <1>2, <1>5, <1>e
    <3> QED BY <1>1, <1>7, <2>1, <2>2, <3>2, <3>3, Numbers
  <2>3. CASE m # r
    <3>1. G[Kid(t, m, e)] = H[Kid(t, m, e)] /\ H[Kid(t, m, e)] \in Nat
      <4>1. Kid(t, m, e) # w /\ Kid(t, m, e) # x
        BY <1>2, <1>8, <2>1, <2>3
      <4> QED BY <1>5, <1>e, <2>1, <4>1
    <3>2. CASE m = w
      BY <1>2, <1>5, <1>7, <2>1, <3>1, <3>2, Numbers
    <3>3. CASE m = x
      BY <1>2, <1>5, <1>7, <2>1, <3>1, <3>3, Numbers
    <3>4. CASE m # w /\ m # x
      BY <1>5, <2>1, <2>3, <3>1, <3>4, Numbers
    <3> QED BY <3>2, <3>3, <3>4
  <2> QED BY <2>2, <2>3
<1>11. Even(u, G, r, NIL, s)
  BY <1>5, <1>9, <1>10 DEF Even
<1> QED BY <1>11

(* Case 4: the rotation brings x the black that it lacks.                  *)
LEMMA EvenFar ==
    ASSUME RbAssumption, NEW t, Linked(t), NEW r, NEW s, NEW w, NEW mid, Rotatable(t, r, s, w, mid),
           NEW x, x = Kid(t, r, s), NEW H, Even(t, H, x, LackingAt(x, r), s),
           NEW f, f = Kid(t, w, Other(s)), f # NIL, Hue(t, w) = "BLACK", Hue(t, f) = "RED",
           NEW u, Rotated(u, t, r, s, w, mid),
           Hue(u, r) = "BLACK", Hue(u, w) = Hue(t, r), Hue(u, f) = "BLACK",
           \A m \in RbNodes : m # r /\ m # w /\ m # f => Hue(u, m) = Hue(t, m)
    PROVE  \E G : Even(u, G, NIL, NIL, s)
<1> DEFINE G == [m \in RbNodes |-> IF m = r THEN H[w] ELSE IF m = w THEN H[r]
                                   ELSE IF m = f THEN H[f] + 1
                                   ELSE IF m = x THEN H[x] - 1 ELSE H[m]]
           o == Other(s)
           a == Up(t, r)
<1>e. /\ \A m \in RbNodes : H[m] \in Nat
      /\ \A m \in RbNodes, e \in Sides : Kid(t, m, e) = NIL =>
            H[m] = ExtraLeaf(m, e, LackingAt(x, r), s) + Extra(m, x) + Black(Hue(t, m))
      /\ \A m \in RbNodes, e \in Sides : Kid(t, m, e) # NIL =>
            H[m] = H[Kid(t, m, e)] + Extra(m, x) + Black(Hue(t, m))
  BY EvenFacts
<1>1. /\ r \in RbNodes /\ mid \in RbLinks /\ NIL \notin RbNodes /\ a = Up(t, r) /\ a # r /\ a # w
      /\ s \in Sides /\ o \in Sides /\ o # s /\ w \in RbNodes
      /\ \A e \in Sides : e = s \/ e = o
      /\ w # r /\ mid # r /\ mid # w /\ r # NIL /\ w # NIL
      /\ w = Kid(t, r, o) /\ mid = Kid(t, w, s) /\ f = Kid(t, w, o) /\ Up(t, w) = r
      /\ mid # NIL => mid \in RbNodes /\ Up(t, mid) = w
  BY InTreeIs, SidesTwo DEF RbAssumption, Rotatable
<1>2. /\ H[r] = H[w] + Black(Hue(t, r)) /\ (x = NIL => H[w] = 1)
      /\ x # NIL => H[x] = H[w] /\ x \in RbNodes /\ H[x] - 1 \in Nat
  BY <1>1, SiblingHeight
<1>3. LackingAt(x, r) = IF x = NIL THEN r ELSE NIL
  BY DEF LackingAt
<1> HIDE DEF o, a
<1>4. /\ \A m \in RbNodes, e \in Sides : Kid(t, m, e) = r => m = a
      /\ \A m \in RbNodes, e \in Sides : Kid(t, m, e) = w => m = r
      /\ \A m \in RbNodes, e \in Sides : Kid(t, m, e) = f => m = w
      /\ \A m \in RbNodes, e \in Sides : Kid(t, m, e) = x /\ x # NIL => m = r
      /\ \A m \in RbNodes, e \in Sides : Kid(t, m, e) # NIL => Kid(t, m, e) \in RbNodes
  BY <1>1, LinkedParts DEF RbLinks
<1>5. /\ f \in RbNodes /\ f # r /\ f # w /\ f # mid /\ f # x /\ x # r /\ x # w
      /\ (x # NIL => x # mid)
  <2>1. Up(t, f) = w /\ f \in RbNodes /\ f # mid
    BY <1>1, SidesTwo, LinkedParts DEF RbLinks, o
  <2>2. x # NIL => Up(t, x) = r
    BY <1>1, LinkedParts
  <2>3. x # w
    BY <1>1, SidesTwo, LinkedParts DEF o
  <2> QED BY <1>1, <2>1, <2>2, <2>3
<1>6. /\ G \in [RbNodes -> Nat]
      /\ \A m \in RbNodes : G[m] = IF m = r THEN H[w] ELSE IF m = w THEN H[r]
                                   ELSE IF m = f THEN H[f] + 1
                                   ELSE IF m = x THEN H[x] - 1 ELSE H[m]
  BY <1>1, <1>2, <1>5, <1>e
<1> HIDE DEF G
<1>7. \A m \in RbNodes, e \in Sides :
            Kid(u, m, e) = IF m = r /\ e = o THEN mid
                            ELSE IF m = w /\ e = s THEN r
                            ELSE IF m = a /\ Kid(t, m, e) = r THEN w
                            ELSE Kid(t, m, e)
  BY DEF Rotated, o, a
<1>8. \A m \in RbNodes : Black(Hue(t, m)) \in Nat
  BY Numbers
<1>9. H[w] = H[f] + 1 /\ H[f] \in Nat
  <2>1. H[w] = H[f] + 0 + 1
    BY <1>1, <1>5, <1>e, Numbers
  <2> QED BY <1>5, <1>e, <2>1
<1>10. (mid = NIL => H[w] = 1) /\ (mid # NIL => H[w] = H[mid] + 1)
  <2>1. mid = NIL => H[w] = 0 + 0 + 1
    <3>1. ExtraLeaf(w, s, LackingAt(x, r), s) = 0 /\ Extra(w, x) = 0
      BY <1>1, <1>3, <1>5, Numbers
    <3>2. mid = NIL => H[w] = ExtraLeaf(w, s, LackingAt(x, r), s) + Extra(w, x) + Black("BLACK")
      BY <1>1, <1>e
    <3> QED BY <3>1, <3>2, Numbers
  <2>2. mid # NIL => H[w] = H[mid] + 0 + 1 /\ H[mid] \in Nat
    BY <1>1, <1>5, <1>e, Numbers
  <2> QED BY <2>1, <2>2
<1>11. ASSUME NEW m \in RbNodes, NEW e \in Sides, Kid(u, m, e) = NIL
      PROVE  G[m] = ExtraLeaf(m, e, NIL, s) + Extra(m, NIL) + Black(Hue(u, m))
  <2>0. m # NIL /\ ExtraLeaf(m, e, NIL, s) = 0 /\ Extra(m, NIL) = 0
    BY <1>1, Numbers
  <2>1. CASE m = r /\ e = o
    <3>1. mid = NIL
      BY <1>1, <1>7, <1>11, <2>1
    <3> QED BY <1>6, <1>10, <2>0, <2>1, <3>1, Numbers
  <2>2. CASE m = r /\ e = s
    <3>1. x = NIL
      BY <1>1, <1>7, <1>11, <2>2
    <3> QED BY <1>2, <1>6, <2>0, <2>2, <3>1, Numbers
  <2>3. m # w
    BY <1>1, <1>7, <1>11
  <2>4. CASE m # r
    <3>1. Kid(t, m, e) = NIL
      BY <1>1, <1>7, <1>11, <2>3, <2>4
    <3>2. H[m] = 0 + Extra(m, x) + Black(Hue(t, m))
      BY <1>3, <1>e, <2>0, <2>4, <3>1, Numbers
    <3>3. CASE m = f
      BY <1>5, <1>6, <2>0, <3>2, <3>3, Numbers
    <3>4. CASE m = x
      <4>1. H[x] = 1 + Black(Hue(t, x)) /\ Hue(u, x) = Hue(t, x)
        BY <1>5, <3>2, <3>4, Numbers
      <4> QED BY <1>5, <1>6, <1>8, <2>0, <3>4, <4>1
    <3>5. CASE m # f /\ m # x
      BY <1>6, <1>8, <2>0, <2>3, <2>4, <3>2, <3>5, Numbers
    <3> QED BY <3>3, <3>4, <3>5
  <2> QED BY <1>1, <2>1, <2>2, <2>4
<1>12. ASSUME NEW m \in RbNodes, NEW e \in Sides, Kid(u, m, e) # NIL
      PROVE  G[m] = G[Kid(u, m, e)] + Extra(m, NIL) + Black(Hue(u, m))
  <2>0. m # NIL /\ Extra(m, NIL) = 0
    BY <1>1, Numbers
  <2>1. CASE m = r /\ e = o
    <3>1. Kid(u, m, e) = mid /\ mid # NIL /\ mid \in RbNodes /\ G[mid] = H[mid] /\ H[mid] \in Nat
      BY <1>1, <1>5, <1>6, <1>7, <1>12, <1>e, <2>1
    <3> QED BY <1>6, <1>10, <2>0, <2>1, <3>1, Numbers
  <2>2. CASE m = r /\ e = s
    <3>1. Kid(u, m, e) = x /\ x # NIL /\ G[x] = H[x] - 1 /\ H[x] \in Nat
      BY <1>1, <1>2, <1>5, <1>6, <1>7, <1>12, <1>e, <2>2
    <3> QED BY <1>2, <1>6, <2>0, <2>2, <3>1, Numbers
  <2>3. CASE m = w /\ e = s
    <3>1. Kid(u, m, e) = r /\ G[r] = H[w] /\ G[w] = H[r] /\ H[w] \in Nat
      BY <1>1, <1>6, <1>7, <1>e, <2>3
    <3> QED BY <1>1, <1>2, <1>8, <2>0, <2>3, <3>1
  <2>4. CASE m = w /\ e = o
    <3>1. Kid(u, m, e) = f /\ G[f] = H[w] /\ G[w] = H[r] /\ H[w] \in Nat
      BY <1>1, <1>5, <1>6, <1>7, <1>9, <1>e, <2>4
    <3> QED BY <1>1, <1>2, <1>8, <2>0, <2>4, <3>1
  <2>5. CASE m # r /\ m # w /\ Kid(t, m, e) = r
    <3>1. Kid(u, m, e) = w /\ G[w] = H[r] /\ m = a /\ H[r] \in Nat
      BY <1>1, <1>4, <1>6, <1>7, <1>e, <2>5
    <3>2. H[m] = H[r] + Extra(m, x) + Black(Hue(t, m))
      BY <1>1, <1>e, <2>5
    <3>3. m # x /\ m # f
      <4>1. m # x
        <5> SUFFICES ASSUME m = x PROVE FALSE
          OBVIOUS
        <5>1. Up(t, r) = x /\ Up(t, x) = r
          <6>1. a = x /\ x # NIL
            BY <2>0, <3>1
          <6>2. Up(t, Kid(t, r, s)) = r
            BY <1>1, <6>1, LinkedParts
          <6> QED BY <1>1, <6>1, <6>2
        <5> QED BY <1>1, <1>2, <1>5, <2>0, <5>1, NoTwoCycle, InTreeIs
      <4>2. m # f
        <5> SUFFICES ASSUME m = f PROVE FALSE
          OBVIOUS
        <5>1. Up(t, r) = f /\ Up(t, f) = w /\ Up(t, w) = r
          <6>1. Up(t, Kid(t, w, o)) = w
            BY <1>1, LinkedParts
          <6> QED BY <1>1, <3>1, <6>1
        <5>2. {r, w, f} \in SUBSET InTree(t)
          BY <1>1, <1>5, <5>1, InTreeIs
        <5>3. \E n \in {r, w, f} : Up(t, n) \notin {r, w, f}
          BY <5>2, LinkedParts
        <5> QED BY <5>1, <5>3
      <4> QED BY <4>1, <4>2
    <3>4. G[m] = H[m] /\ Hue(u, m) = Hue(t, m) /\ Extra(m, x) = 0
      BY <1>6, <2>5, <3>3, Numbers
    <3> QED BY <1>8, <2>0, <3>1, <3>2, <3>4
  <2>6. CASE m # r /\ m # w /\ Kid(t, m, e) # r
    <3>1. /\ Kid(u, m, e) = Kid(t, m, e) /\ Kid(t, m, e) \in RbNodes /\ Kid(t, m, e) # w
          /\ Kid(t, m, e) # f /\ Kid(t, m, e) # x
      BY <1>4, <1>7, <1>12, <2>6
    <3>2. H[m] = H[Kid(t, m, e)] + Extra(m, x) + Black(Hue(t, m))
      BY <1>12, <1>e, <3>1
    <3>3. G[Kid(t, m, e)] = H[Kid(t, m, e)] /\ H[Kid(t, m, e)] \in Nat
      BY <1>6, <1>e, <2>6, <3>1
    <3>4. CASE m = f
      <4>1. H[f] = H[Kid(t, m, e)] + 0 + 0
        BY <1>5, <3>2, <3>4, Numbers
      <4> QED BY <1>5, <1>6, <2>0, <3>1, <3>3, <3>4, <4>1, Numbers
    <3>5. CASE m = x
      <4>1. H[x] = H[Kid(t, m, e)] + 1 + Black(Hue(t, x)) /\ Hue(u, x) = Hue(t, x)
        BY <1>5, <3>2, <3>5, Numbers
      <4> QED BY <1>5, <1>6, <1>8, <2>0, <3>1, <3>3, <3>5, <4>1
    <3>6. CASE m # f /\ m # x
      BY <1>6, <1>8, <2>0, <2>6, <3>1, <3>2, <3>3, <3>6, Numbers
    <3> QED BY <3>4, <3>5, <3>6
  <2> QED BY <1>1, <2>1, <2>2, <2>3, <2>4, <2>5, <2>6
<1>13. Even(u, G, NIL, NIL, s)
  BY <1>6, <1>11, <1>12 DEF Even
<1> QED BY <1>13

(* A red parent and a red uncle give their parent's black to their own.    *)
LEMMA EvenUncle ==
    ASSUME RbAssumption, NEW t, Linked(t), NEW H, NEW q, Even(t, H, NIL, NIL, q),
           NEW g \in InTree(t), NEW u, Painted(u, t), Hue(t, g) = "BLACK", Hue(u, g) = "RED",
           \A e \in Sides : /\ Kid(t, g, e) # NIL /\ Hue(t, Kid(t, g, e)) = "RED"
                            /\ Hue(u, Kid(t, g, e)) = "BLACK",
           \A m \in RbNodes : m # g /\ (\A e \in Sides : m # Kid(t, g, e)) => Hue(u, m) = Hue(t, m)
    PROVE  \E G : Even(u, G, NIL, NIL, q)
<1> DEFINE G == [m \in RbNodes |-> IF \E e \in Sides : m = Kid(t, g, e) THEN H[m] + 1 ELSE H[m]]
           K == {Kid(t, g, e) : e \in Sides}
<1>e. /\ \A m \in RbNodes : H[m] \in Nat
      /\ \A m \in RbNodes, e \in Sides : Kid(t, m, e) = NIL =>
            H[m] = ExtraLeaf(m, e, NIL, q) + Extra(m, NIL) + Black(Hue(t, m))
      /\ \A m \in RbNodes, e \in Sides : Kid(t, m, e) # NIL =>
            H[m] = H[Kid(t, m, e)] + Extra(m, NIL) + Black(Hue(t, m))
  BY EvenFacts
<1>1. /\ NIL \notin RbNodes /\ g \in RbNodes /\ g \notin K /\ K \subseteq RbNodes
      /\ \A m \in RbNodes, e \in Sides : Kid(t, m, e) \in K => m = g
      /\ \A e \in Sides : Kid(t, g, e) \in K
  <2>1. g \in RbNodes /\ NIL \notin RbNodes
    BY InTreeIs DEF RbAssumption
  <2>2. \A e \in Sides : Kid(t, g, e) \in RbNodes /\ Up(t, Kid(t, g, e)) = g /\ Kid(t, g, e) # g
    BY <2>1, KidInTree, LinkedParts DEF RbLinks
  <2>3. \A m \in RbNodes, e \in Sides : Kid(t, m, e) # NIL => Up(t, Kid(t, m, e)) = m
    BY LinkedParts
  <2> QED BY <2>1, <2>2, <2>3
<1>2. /\ \A m \in K : Hue(t, m) = "RED" /\ Hue(u, m) = "BLACK"
      /\ \A m \in RbNodes : m # g /\ m \notin K => Hue(u, m) = Hue(t, m)
  OBVIOUS
<1>3. /\ G \in [RbNodes -> Nat]
      /\ \A m \in RbNodes : G[m] = IF m \in K THEN H[m] + 1 ELSE H[m]
  BY <1>e
<1> HIDE DEF G, K
<1>4. \A m \in RbNodes, e \in Sides : Kid(u, m, e) = Kid(t, m, e)
  BY DEF Painted, SameKids
<1>5. \A m \in RbNodes, e \in Sides :
         Extra(m, NIL) = 0 /\ ExtraLeaf(m, e, NIL, q) = 0 /\ Black(Hue(t, m)) \in Nat
  BY <1>1, Numbers
<1>6. ASSUME NEW m \in RbNodes, NEW e \in Sides, Kid(u, m, e) = NIL
      PROVE  G[m] = ExtraLeaf(m, e, NIL, q) + Extra(m, NIL) + Black(Hue(u, m))
  <2>1. m # g /\ H[m] = 0 + 0 + Black(Hue(t, m))
    BY <1>4, <1>5, <1>6, <1>e
  <2> QED BY <1>2, <1>3, <1>5, <2>1, Numbers
<1>7. ASSUME NEW m \in RbNodes, NEW e \in Sides, Kid(u, m, e) # NIL
      PROVE  G[m] = G[Kid(u, m, e)] + Extra(m, NIL) + Black(Hue(u, m))
  <2>1. /\ H[m] = H[Kid(t, m, e)] + 0 + Black(Hue(t, m)) /\ Kid(u, m, e) = Kid(t, m, e)
        /\ Kid(t, m, e) \in RbNodes
    BY <1>4, <1>5, <1>7, <1>e, LinkedParts DEF RbLinks
  <2>2. H[Kid(t, m, e)] \in Nat
    BY <1>e, <2>1
  <2>3. CASE m = g
    <3>1. G[Kid(t, m, e)] = H[Kid(t, m, e)] + 1 /\ G[m] = H[m]
      BY <1>1, <1>3, <2>1, <2>3
    <3> QED BY <1>5, <2>1, <2>2, <2>3, <3>1, Numbers
  <2>4. CASE m # g
    <3>1. G[Kid(t, m, e)] = H[Kid(t, m, e)]
      BY <1>1, <1>3, <2>1, <2>4
    <3> QED BY <1>2, <1>3, <1>5, <2>1, <2>2, <2>4, <3>1, Numbers
  <2> QED BY <2>3, <2>4
<1>8. Even(u, G, NIL, NIL, q)
  BY <1>3, <1>6, <1>7 DEF Even
<1> QED BY <1>8

(* A node that lacks a black is red and becomes black.                     *)
LEMMA EvenFixed ==
    ASSUME RbAssumption, NEW t, NEW H, NEW z \in RbNodes, NEW p, NEW q, Even(t, H, z, p, q),
           NEW u, Painted(u, t), Hue(t, z) = "RED", Hue(u, z) = "BLACK",
           \A m \in RbNodes : m # z => Hue(u, m) = Hue(t, m)
    PROVE  Even(u, H, NIL, p, q)
<1>1. /\ \A m \in RbNodes, e \in Sides : Kid(u, m, e) = Kid(t, m, e)
      /\ \A m \in RbNodes : Extra(m, NIL) + Black(Hue(u, m)) = Extra(m, z) + Black(Hue(t, m))
  <2>1. \A m \in RbNodes : Extra(m, NIL) = 0 /\ (m # z => Extra(m, z) = 0) /\ Extra(z, z) = 1
    BY Numbers DEF RbAssumption
  <2>2. ASSUME NEW m \in RbNodes
        PROVE  Extra(m, NIL) + Black(Hue(u, m)) = Extra(m, z) + Black(Hue(t, m))
    BY <2>1, Numbers
  <2> QED BY <2>2 DEF Painted, SameKids
<1>2. \A m \in RbNodes : /\ Extra(m, NIL) \in Nat /\ Black(Hue(u, m)) \in Nat
                         /\ Extra(m, z) \in Nat /\ Black(Hue(t, m)) \in Nat /\ H[m] \in Nat
  BY EvenFacts, Numbers
<1>3. ASSUME NEW m \in RbNodes, NEW e \in Sides, Kid(u, m, e) = NIL
      PROVE  H[m] = ExtraLeaf(m, e, p, q) + Extra(m, NIL) + Black(Hue(u, m))
  <2>1. H[m] = ExtraLeaf(m, e, p, q) + Extra(m, z) + Black(Hue(t, m))
    BY <1>1, <1>3, EvenFacts
  <2> QED BY <1>1, <1>2, <2>1, Numbers
<1>4. ASSUME NEW m \in RbNodes, NEW e \in Sides, Kid(u, m, e) # NIL
      PROVE  H[m] = H[Kid(u, m, e)] + Extra(m, NIL) + Black(Hue(u, m))
  <2>1. /\ H[m] = H[Kid(t, m, e)] + Extra(m, z) + Black(Hue(t, m))
        /\ Kid(u, m, e) = Kid(t, m, e) /\ Kid(u, m, e) \in RbNodes
    BY <1>1, <1>4, EvenFacts, TreeParts DEF Painted, RbLinks
  <2> QED BY <1>1, <1>2, <2>1
<1>5. H \in [RbNodes -> Nat]
  BY DEF Even
<1> QED BY <1>3, <1>4, <1>5 DEF Even

-----------------------------------------------------------------------------
(* The invariant, of a tree t, the place c in the code, the fixup's node x,*)
(* and pnode and is_right.                                                 *)

(* No red node but z is the root, or has a red parent other than w.        *)
Apart(t, z, w) ==
    \A n \in InTree(t) : Hue(t, n) = "RED" /\ n # z =>
        Up(t, n) # NIL /\ (Hue(t, Up(t, n)) = "RED" => Up(t, n) = w)

SideIs(b) == IF b THEN "right" ELSE "left"

Inv(t, c, x, p, b) ==
    /\ Linked(t) /\ c \in {"idle", "insert", "delete"} /\ b \in BOOLEAN
    /\ x \in InTree(t) \cup {NIL} /\ p \in InTree(t) \cup {NIL}
    /\ c = "idle" => x = NIL /\ p = NIL
    /\ c = "insert" => x # NIL /\ Hue(t, x) = "RED" /\ p = NIL
    /\ c = "delete" =>
          IF p = NIL THEN IF x = NIL THEN Top(t) = NIL ELSE Up(t, x) = NIL
          ELSE x = NIL => Kid(t, p, SideIs(b)) = NIL
    /\ Apart(t, x, IF c = "delete" THEN x ELSE NIL)
    /\ \E H : Even(t, H, IF c = "delete" THEN x ELSE NIL,
                   IF c = "delete" THEN LackingAt(x, p) ELSE NIL, SideIs(b))

RbInv == Inv(rbt, pc, fixnode, pnode, is_right)

(* A side that no leaf refers to does not matter.                          *)
LEMMA AnySide ==
    ASSUME RbAssumption, NEW t, NEW H, NEW z, NEW q, Even(t, H, z, NIL, q), NEW s
    PROVE  Even(t, H, z, NIL, s)
<1>1. \A m \in RbNodes, e \in Sides : ExtraLeaf(m, e, NIL, q) = ExtraLeaf(m, e, NIL, s)
  BY DEF ExtraLeaf, RbAssumption
<1> QED BY <1>1 DEF Even

LEMMA EmptyInv ==
    ASSUME RbAssumption, NEW t, NEW b \in BOOLEAN,
           t = [root |-> NIL, child |-> [n \in RbNodes |-> Leaf],
                parent |-> [n \in RbNodes |-> n], color |-> [n \in RbNodes |-> "RED"]]
    PROVE  Inv(t, "idle", NIL, NIL, b)
<1>1. /\ t \in Trees /\ Top(t) = NIL
      /\ \A n \in RbNodes : Up(t, n) = n /\ Hue(t, n) = "RED"
      /\ \A n \in RbNodes, s \in Sides : Kid(t, n, s) = NIL
  BY DEF Trees, Top, Up, Hue, Kid, Leaf, RbLinks, Colors
<1>2. InTree(t) = {} /\ NIL \notin RbNodes
  BY <1>1, InTreeIs DEF RbAssumption
<1>3. Linked(t)
  BY <1>1, <1>2 DEF Linked, Woven, Rooted
<1> DEFINE H == [n \in RbNodes |-> 0]
<1>4. \A n \in RbNodes, s \in Sides : H[n] = ExtraLeaf(n, s, NIL, SideIs(b)) + Extra(n, NIL) + Black(Hue(t, n))
  BY <1>1, <1>2, Numbers
<1>5. H \in [RbNodes -> Nat]
  OBVIOUS
<1> HIDE DEF H
<1>6. Even(t, H, NIL, NIL, SideIs(b))
  BY <1>1, <1>4, <1>5 DEF Even
<1>7. Apart(t, NIL, NIL)
  BY <1>2 DEF Apart
<1> QED BY <1>3, <1>6, <1>7 DEF Inv

LEMMA InsertInv ==
    ASSUME RbAssumption, RbInv, NEW n \in RbNodes, RbInsert(n)
    PROVE  RbInv'
<1> DEFINE u == Inserted(rbt, n)
<1>1. /\ pc = "idle" /\ n \notin InTree(rbt) /\ rbt' = u /\ pc' = "insert" /\ fixnode' = n
      /\ pnode' = pnode /\ is_right' = is_right
  BY DEF RbInsert, Inserted
<1>2. /\ Linked(rbt) /\ pnode = NIL /\ is_right \in BOOLEAN /\ fixnode = NIL
      /\ Apart(rbt, NIL, NIL)
  BY <1>1 DEF RbInv, Inv
<1>3. PICK H : Even(rbt, H, NIL, NIL, SideIs(is_right))
  BY <1>1 DEF RbInv, Inv
<1>4. PICK p \in RbLinks, s \in Sides :
              /\ IF p = NIL THEN Top(rbt) = NIL ELSE p \in InTree(rbt) /\ Kid(rbt, p, s) = NIL
              /\ Hung(u, rbt, n, p, s)
  BY <1>1, <1>2, InsertedIs
<1> HIDE DEF u
<1>5. Linked(u) /\ InTree(u) = InTree(rbt) \cup {n}
  BY <1>1, <1>2, <1>4, HungLinked
<1>6. \E G : Even(u, G, NIL, NIL, SideIs(is_right))
  BY <1>1, <1>2, <1>3, <1>4, EvenHung
<1>7. /\ \A m \in RbNodes : m # n => Up(u, m) = Up(rbt, m) /\ Hue(u, m) = Hue(rbt, m)
      /\ Hue(u, n) = "RED"
  BY <1>4 DEF Hung
<1>8. Apart(u, n, NIL)
  <2> SUFFICES ASSUME NEW m \in InTree(rbt), Hue(rbt, m) = "RED", m # n
               PROVE  Up(rbt, m) # NIL /\ Hue(u, Up(rbt, m)) # "RED"
    BY <1>5, <1>7, InTreeIs DEF Apart
  <2>1. m \in RbNodes /\ Up(rbt, m) # m /\ m # NIL
    BY InTreeIs DEF RbAssumption
  <2>2. Up(rbt, m) # NIL /\ Hue(rbt, Up(rbt, m)) # "RED"
    BY <1>2, <2>1 DEF Apart
  <2>3. Up(rbt, m) \in InTree(rbt)
    BY <1>2, <2>1, <2>2, NoTwoCycle
  <2>4. Up(rbt, m) \in RbNodes /\ Up(rbt, m) # n
    BY <1>1, <2>3, InTreeIs
  <2> QED BY <1>7, <2>2, <2>4
<1>9. n \in InTree(u) /\ n # NIL
  BY <1>5 DEF RbAssumption
<1>10. Inv(u, "insert", n, NIL, is_right)
  BY <1>2, <1>5, <1>6, <1>7, <1>8, <1>9 DEF Inv
<1> QED BY <1>1, <1>2, <1>10 DEF RbInv

-----------------------------------------------------------------------------
(* rb_insert_fixup                                                         *)

LEMMA RedIs == \A t, n : IsRed(t, n) <=> n # NIL /\ Hue(t, n) = "RED"
BY DEF IsRed, Hue

LEMMA PaintOne ==
    ASSUME NEW t, NEW v, Painted(v, t), NEW n \in RbNodes, NEW c \in Colors
    PROVE  /\ Painted(SetColor(v, n, c), t)
           /\ \A m \in RbNodes : Hue(SetColor(v, n, c), m) = IF m = n THEN c ELSE Hue(v, m)
<1>1. v \in Trees
  BY DEF Painted
<1>2. WithColor(SetColor(v, n, c), v, n, c)
  BY <1>1, SetColorIs
<1> QED BY <1>2 DEF WithColor, Painted, SameKids, SameUps

LEMMA PaintNone == ASSUME NEW t \in Trees PROVE Painted(t, t)
BY DEF Painted, SameKids, SameUps

LEMMA TopIs ==
    ASSUME RbAssumption, NEW t, Linked(t), NEW n \in InTree(t)
    PROVE  Top(t) \in InTree(t) /\ Up(t, Top(t)) = NIL /\ (n # Top(t) => Up(t, n) # NIL)
<1>1. PICK m \in InTree(t) : Up(t, m) \notin InTree(t)
  BY LinkedParts
<1>2. Up(t, m) = NIL
  BY <1>1, NoTwoCycle
<1> QED BY <1>1, <1>2, LinkedParts, InTreeIs

(* Who is neither red nor an exception.                                    *)
LEMMA ApartIs ==
    ASSUME RbAssumption, NEW t, Linked(t), NEW z, NEW w, Apart(t, z, w),
           NEW m \in InTree(t), Hue(t, m) = "RED", m # z
    PROVE  /\ m \in RbNodes /\ Up(t, m) \in InTree(t) /\ Up(t, m) \in RbNodes
           /\ Up(t, m) # m /\ (Hue(t, Up(t, m)) = "RED" => Up(t, m) = w)
<1>1. Up(t, m) # NIL /\ (Hue(t, Up(t, m)) = "RED" => Up(t, m) = w)
  BY DEF Apart
<1> QED BY <1>1, NoTwoCycle, InTreeIs

LEMMA InsertSpot ==
    ASSUME RbAssumption, RbInv, InsertLoop, NEW n, n = fixnode, NEW p, p = Up(rbt, n),
           NEW g, g = Up(rbt, p), NEW s, s = SideOf(rbt, p)
    PROVE  /\ Linked(rbt) /\ pc = "insert" /\ pnode = NIL /\ is_right \in BOOLEAN
           /\ n \in InTree(rbt) /\ p \in InTree(rbt) /\ g \in InTree(rbt)
           /\ Hue(rbt, n) = "RED" /\ Hue(rbt, p) = "RED" /\ Hue(rbt, g) = "BLACK"
           /\ s \in Sides /\ \A q \in Sides : Kid(rbt, g, q) = p <=> q = s
           /\ n # p /\ n # g /\ p # g
           /\ Apart(rbt, n, NIL)
           /\ \E H : Even(rbt, H, NIL, NIL, SideIs(is_right))
<1>1. /\ Linked(rbt) /\ pc = "insert" /\ pnode = NIL /\ is_right \in BOOLEAN
      /\ n \in InTree(rbt) /\ Hue(rbt, n) = "RED" /\ Apart(rbt, n, NIL)
      /\ \E H : Even(rbt, H, NIL, NIL, SideIs(is_right))
  BY DEF RbInv, Inv, InsertLoop
<1>2. p # NIL /\ Hue(rbt, p) = "RED"
  BY RedIs DEF InsertLoop, Parent, Up
<1>3. p \in InTree(rbt) /\ p # n /\ Up(rbt, p) # n
  BY <1>1, <1>2, NoTwoCycle
<1>4. g \in InTree(rbt) /\ g \in RbNodes /\ g # p /\ Hue(rbt, g) # "RED"
  BY <1>1, <1>2, <1>3, ApartIs DEF RbAssumption
<1>5. Hue(rbt, g) = "BLACK"
  BY <1>1, <1>4, LinkedParts DEF Colors
<1>6. /\ s \in Sides /\ \A q \in Sides : Kid(rbt, g, q) = p <=> q = s
  BY <1>1, <1>3, <1>4, LinkedHeld, SideOfHeld DEF RbAssumption
<1> QED BY <1>1, <1>2, <1>3, <1>4, <1>5, <1>6

LEMMA RecolorInv ==
    ASSUME RbAssumption, RbInv, InsertRecolor
    PROVE  RbInv'
<1> DEFINE t == rbt
           n == fixnode
           p == Up(t, n)
           g == Up(t, p)
           s == SideOf(t, p)
           k == Kid(t, g, Other(s))
           u1 == SetColor(t, p, "BLACK")
           u2 == SetColor(u1, k, "BLACK")
           u == SetColor(u2, g, "RED")
<1>1. /\ InsertLoop /\ IsRed(t, k) /\ rbt' = u /\ fixnode' = g
      /\ pc' = pc /\ pnode' = pnode /\ is_right' = is_right
  BY DEF InsertRecolor, Parent, Grand, ParentSide, Uncle, Up, Kid
<1>2. /\ Linked(t) /\ pc = "insert" /\ pnode = NIL /\ is_right \in BOOLEAN
      /\ n \in InTree(t) /\ p \in InTree(t) /\ g \in InTree(t)
      /\ Hue(t, n) = "RED" /\ Hue(t, p) = "RED" /\ Hue(t, g) = "BLACK"
      /\ s \in Sides /\ \A q \in Sides : Kid(t, g, q) = p <=> q = s
      /\ n # p /\ n # g /\ p # g
      /\ Apart(t, n, NIL)
      /\ \E H : Even(t, H, NIL, NIL, SideIs(is_right))
  BY <1>1, InsertSpot
<1>3. k # NIL /\ Hue(t, k) = "RED"
  BY <1>1, RedIs
<1>4. Up(t, n) = p /\ Kid(t, g, s) = p /\ Kid(t, g, Other(s)) = k
  BY <1>2
<1> HIDE DEF t, n, p, g, s, k
<1>5. /\ p \in RbNodes /\ g \in RbNodes /\ k \in RbNodes /\ k # g /\ n \in RbNodes
      /\ t \in Trees /\ NIL \notin RbNodes /\ {"RED", "BLACK"} \subseteq Colors
      /\ Other(s) \in Sides /\ \A q \in Sides : q = s \/ q = Other(s)
  BY <1>2, <1>3, <1>4, InTreeIs, KidInTree, SidesTwo DEF Linked, RbAssumption, Colors
<1>6. Painted(t, t)
  BY <1>5, PaintNone
<1>7. Painted(u1, t) /\ \A m \in RbNodes : Hue(u1, m) = IF m = p THEN "BLACK" ELSE Hue(t, m)
  BY <1>5, <1>6, PaintOne
<1> HIDE DEF u1
<1>8. Painted(u2, t) /\ \A m \in RbNodes : Hue(u2, m) = IF m = k THEN "BLACK" ELSE Hue(u1, m)
  BY <1>5, <1>7, PaintOne
<1> HIDE DEF u2
<1>9. Painted(u, t) /\ \A m \in RbNodes : Hue(u, m) = IF m = g THEN "RED" ELSE Hue(u2, m)
  BY <1>5, <1>8, PaintOne
<1> HIDE DEF u
<1>10. \A m \in RbNodes : Hue(u, m) = IF m = g THEN "RED"
                                      ELSE IF m = p \/ m = k THEN "BLACK" ELSE Hue(t, m)
  BY <1>7, <1>8, <1>9
<1>11. Linked(u) /\ InTree(u) = InTree(t)
  BY <1>2, <1>9, PaintedLinked
<1>12. \E G : Even(u, G, NIL, NIL, SideIs(is_right))
  <2>1. PICK H : Even(t, H, NIL, NIL, SideIs(is_right))
    BY <1>2
  <2>2. \A e \in Sides : Kid(t, g, e) = p \/ Kid(t, g, e) = k
    BY <1>4, <1>5
  <2>3. /\ Hue(u, g) = "RED" /\ Hue(u, p) = "BLACK" /\ Hue(u, k) = "BLACK"
        /\ p # NIL /\ k # NIL
        /\ \A m \in RbNodes : m # g /\ m # p /\ m # k => Hue(u, m) = Hue(t, m)
    BY <1>2, <1>3, <1>5, <1>10
  <2>4. /\ \A e \in Sides : /\ Kid(t, g, e) # NIL /\ Hue(t, Kid(t, g, e)) = "RED"
                            /\ Hue(u, Kid(t, g, e)) = "BLACK"
        /\ \A m \in RbNodes : m # g /\ (\A e \in Sides : m # Kid(t, g, e)) => Hue(u, m) = Hue(t, m)
    BY <1>2, <1>3, <1>4, <1>5, <2>2, <2>3
  <2> QED BY <1>2, <1>9, <2>1, <2>3, <2>4, EvenUncle
<1>13. Apart(u, g, NIL)
  <2> SUFFICES ASSUME NEW m \in InTree(u), Hue(u, m) = "RED", m # g
               PROVE  Up(u, m) # NIL /\ Hue(u, Up(u, m)) # "RED"
    BY DEF Apart
  <2>1. m \in InTree(t) /\ m \in RbNodes /\ m # p /\ m # k /\ Hue(t, m) = "RED"
    BY <1>5, <1>10, <1>11, InTreeIs
  <2>2. Up(u, m) = Up(t, m)
    BY <1>9, <2>1 DEF Painted, SameUps
  <2>3. CASE m = n
    BY <1>4, <1>2, <1>5, <1>10, <2>2, <2>3
  <2>4. CASE m # n
    <3>1. /\ Up(t, m) \in RbNodes /\ Hue(t, Up(t, m)) # "RED" /\ Up(t, m) # NIL /\ Up(t, m) # m
      BY <1>2, <1>5, <2>1, <2>4, ApartIs
    <3>2. Up(t, m) # g
      <4>1. \E q \in Sides : Kid(t, Up(t, m), q) = m
        BY <1>2, <2>1, <3>1, LinkedParts
      <4> QED BY <1>4, <1>5, <2>1, <4>1
    <3> QED BY <1>10, <2>2, <3>1, <3>2
  <2> QED BY <2>3, <2>4
<1>14. Inv(u, "insert", g, NIL, is_right)
  BY <1>2, <1>5, <1>10, <1>11, <1>12, <1>13 DEF Inv
<1> QED BY <1>1, <1>2, <1>14 DEF RbInv

(* The last rotation: n is on the same side as its parent.                 *)
LEMMA InsertOuter ==
    ASSUME RbAssumption, NEW t, Linked(t), NEW g \in InTree(t), NEW s \in Sides,
           NEW p, p = Kid(t, g, s), p # NIL, NEW n, n = Kid(t, p, s), n # NIL,
           Hue(t, n) = "RED", Hue(t, p) = "RED", Hue(t, g) = "BLACK",
           ~IsRed(t, Kid(t, g, Other(s))), Apart(t, n, NIL), NEW b \in BOOLEAN,
           \E H : Even(t, H, NIL, NIL, SideIs(b)),
           NEW u, u = Rotate(SetColor(SetColor(t, p, "BLACK"), g, "RED"), g, Other(s))
    PROVE  Inv(u, "insert", n, NIL, b)
<1> DEFINE o == Other(s)
           mid == Kid(t, p, o)
           v1 == SetColor(t, p, "BLACK")
           v == SetColor(v1, g, "RED")
<1>1. /\ p \in InTree(t) /\ n \in InTree(t) /\ p # g /\ n # p /\ Up(t, p) = g /\ Up(t, n) = p
      /\ p \in RbNodes /\ g \in RbNodes /\ n \in RbNodes /\ NIL \notin RbNodes /\ t \in Trees
      /\ o \in Sides /\ o # s /\ Other(o) = s /\ {"RED", "BLACK"} \subseteq Colors
      /\ \A q \in Sides : q = s \/ q = o
  BY KidInTree, InTreeIs, LinkedParts, SidesTwo DEF Linked, RbAssumption, Colors
<1>2. n # g
  BY <1>1, NoTwoCycle, InTreeIs DEF RbAssumption
<1>3. mid = Kid(t, p, o) /\ u = Rotate(v, g, o) /\ ~IsRed(t, Kid(t, g, o))
  OBVIOUS
<1> HIDE DEF o, mid
<1>4. Painted(t, t)
  BY <1>1, PaintNone
<1>5. Painted(v1, t) /\ \A m \in RbNodes : Hue(v1, m) = IF m = p THEN "BLACK" ELSE Hue(t, m)
  BY <1>1, <1>4, PaintOne
<1> HIDE DEF v1
<1>6. Painted(v, t) /\ \A m \in RbNodes : Hue(v, m) = IF m = g THEN "RED" ELSE Hue(v1, m)
  BY <1>1, <1>5, PaintOne
<1> HIDE DEF v
<1>7. /\ Rotatable(t, g, o, p, mid) /\ Rotated(u, t, g, o, p, mid) /\ SameHues(u, v)
      /\ Linked(u) /\ InTree(u) = InTree(t)
  BY <1>1, <1>3, <1>6, PaintedRotated
<1>8. \A m \in RbNodes : Hue(u, m) = IF m = g THEN "RED" ELSE IF m = p THEN "BLACK" ELSE Hue(t, m)
  BY <1>5, <1>6, <1>7 DEF SameHues
<1>9. \A m \in RbNodes : Up(u, m) = IF m = g THEN p ELSE IF m = p THEN Up(t, g)
                                    ELSE IF m = mid THEN g ELSE Up(t, m)
  BY <1>7 DEF Rotated
<1>10. \E G : Even(u, G, NIL, NIL, SideIs(b))
  <2>1. PICK H : Even(t, H, NIL, NIL, SideIs(b))
    OBVIOUS
  <2>2. /\ Hue(u, g) = "RED" /\ Hue(u, p) = Hue(t, g)
        /\ \A m \in RbNodes : m # g /\ m # p => Hue(u, m) = Hue(t, m)
        /\ NIL # g /\ NIL # p
    BY <1>1, <1>8
  <2> QED BY <1>7, <2>1, <2>2, EvenRotated
<1>11. Apart(u, n, NIL)
  <2> SUFFICES ASSUME NEW m \in InTree(u), Hue(u, m) = "RED", m # n
               PROVE  Up(u, m) # NIL /\ Hue(u, Up(u, m)) # "RED"
    BY DEF Apart
  <2>1. m \in InTree(t) /\ m \in RbNodes /\ m # p
    BY <1>1, <1>7, <1>8, InTreeIs
  <2>2. CASE m = g
    BY <1>1, <1>8, <1>9, <2>2
  <2>3. CASE m # g
    <3>1. Hue(t, m) = "RED"
      BY <1>8, <2>1, <2>3
    <3>2. Up(t, m) \in RbNodes /\ Up(t, m) # m /\ Hue(t, Up(t, m)) # "RED" /\ Up(t, m) # NIL
      BY <1>1, <2>1, <3>1, ApartIs
    <3>3. m # mid
      BY <1>1, <1>3, <2>1, <3>2, LinkedParts
    <3>4. Up(t, m) # g
      <4>1. \E q \in Sides : Kid(t, Up(t, m), q) = m
        BY <2>1, <3>2, LinkedParts
      <4>2. m # NIL /\ Kid(t, g, o) # m /\ Kid(t, g, s) # m
        BY <1>1, <1>3, <2>1, <3>1, RedIs
      <4> QED BY <1>1, <4>1, <4>2
    <3> QED BY <1>8, <1>9, <2>1, <2>3, <3>2, <3>3, <3>4
  <2> QED BY <2>2, <2>3
<1>12. Hue(u, n) = "RED"
  BY <1>1, <1>2, <1>8
<1> QED BY <1>1, <1>7, <1>10, <1>11, <1>12 DEF Inv

LEMMA RotateInv ==
    ASSUME RbAssumption, RbInv, InsertRotate
    PROVE  RbInv'
<1> DEFINE t == rbt
           n == fixnode
           p == Up(t, n)
           g == Up(t, p)
           s == SideOf(t, p)
           o == Other(s)
           k == Kid(t, g, o)
           u == Rotate(t, p, s)
           inner == IsChild(t, n, o)
           mid == Kid(t, n, s)
<1>1. InsertLoop /\ ~IsRed(t, k) /\ pc' = pc /\ pnode' = pnode /\ is_right' = is_right
  BY DEF InsertRotate, Parent, Grand, ParentSide, Uncle, Up, Kid
<1>2. /\ Linked(t) /\ pc = "insert" /\ pnode = NIL /\ is_right \in BOOLEAN
      /\ n \in InTree(t) /\ p \in InTree(t) /\ g \in InTree(t)
      /\ Hue(t, n) = "RED" /\ Hue(t, p) = "RED" /\ Hue(t, g) = "BLACK"
      /\ s \in Sides /\ \A q \in Sides : Kid(t, g, q) = p <=> q = s
      /\ n # p /\ n # g /\ p # g
      /\ Apart(t, n, NIL)
      /\ \E H : Even(t, H, NIL, NIL, SideIs(is_right))
  BY <1>1, InsertSpot
<1>3. /\ p \in RbNodes /\ g \in RbNodes /\ n \in RbNodes /\ NIL \notin RbNodes /\ t \in Trees
      /\ o \in Sides /\ o # s /\ Other(o) = s
      /\ \A q \in Sides : q = s \/ q = o
  BY <1>2, InTreeIs, SidesTwo DEF Linked, RbAssumption
<1>4. inner <=> Kid(t, p, o) = n
  BY <1>2, <1>3 DEF IsChild, IsRoot, Kid, Up
<1>5. \E q \in Sides : Kid(t, p, q) = n
  BY <1>2, <1>3, LinkedParts
<1>6. CASE ~inner
  <2>1. fixnode' = n /\ rbt' = Rotate(SetColor(SetColor(t, p, "BLACK"), g, "RED"), g, o)
    BY <1>6 DEF InsertRotate, Parent, ParentSide, Up
  <2>2. Kid(t, p, s) = n
    BY <1>3, <1>4, <1>5, <1>6
  <2>3. Kid(t, g, s) = p /\ p # NIL /\ n # NIL
    BY <1>2, <1>3
  <2> HIDE DEF t, n, p, g, s
  <2>4. Inv(rbt', "insert", n, NIL, is_right)
    BY <1>1, <1>2, <2>1, <2>2, <2>3, InsertOuter
  <2> QED BY <1>1, <1>2, <2>1, <2>4 DEF RbInv
<1>7. CASE inner
  <2>1. /\ fixnode' = p
        /\ rbt' = Rotate(SetColor(SetColor(u, Up(u, p), "BLACK"), Up(u, Up(u, p)), "RED"),
                         Up(u, Up(u, p)), o)
    BY <1>7 DEF InsertRotate, Parent, ParentSide, Up
  <2>2. /\ Kid(t, p, o) = n /\ Kid(t, g, s) = p /\ n # NIL /\ p # NIL /\ Up(t, n) = p /\ Up(t, p) = g
        /\ k = Kid(t, g, o) /\ mid = Kid(t, n, s)
    BY <1>2, <1>3, <1>4, <1>7
  <2> HIDE DEF t, n, p, g, s, o, k, mid
  <2>3. Painted(t, t)
    BY <1>3, PaintNone
  <2>4. /\ Rotatable(t, p, s, n, mid) /\ Rotated(u, t, p, s, n, mid) /\ SameHues(u, t)
        /\ Linked(u) /\ InTree(u) = InTree(t)
    BY <1>2, <2>2, <2>3, PaintedRotated DEF o
  <2> HIDE DEF u
  <2>5. /\ \A m \in RbNodes : Hue(u, m) = Hue(t, m)
        /\ \A m \in RbNodes : Up(u, m) = IF m = p THEN n ELSE IF m = n THEN g
                                         ELSE IF m = mid THEN p ELSE Up(t, m)
        /\ \A m \in RbNodes, q \in Sides :
              Kid(u, m, q) = IF m = p /\ q = o THEN mid
                             ELSE IF m = n /\ q = s THEN p
                             ELSE IF m = g /\ Kid(t, m, q) = p THEN n
                             ELSE Kid(t, m, q)
    BY <2>2, <2>4 DEF SameHues, Rotated, o
  <2>6. Up(u, p) = n /\ Up(u, n) = g
    BY <1>2, <1>3, <2>5
  <2>7. Kid(u, n, s) = p /\ Kid(u, g, s) = n /\ Kid(u, g, o) = k
    BY <1>2, <1>3, <2>2, <2>5
  <2>8. \E G : Even(u, G, NIL, NIL, SideIs(is_right))
    <3>1. PICK H : Even(t, H, NIL, NIL, SideIs(is_right))
      BY <1>2
    <3>2. /\ Hue(u, p) = "RED" /\ Hue(u, n) = Hue(t, p) /\ NIL # p /\ NIL # n
          /\ \A m \in RbNodes : m # p /\ m # n => Hue(u, m) = Hue(t, m)
      BY <1>2, <1>3, <2>5
    <3> QED BY <1>2, <2>4, <3>1, <3>2, EvenRotated
  <2>9. Apart(u, p, NIL)
    <3> SUFFICES ASSUME NEW m \in InTree(u), Hue(u, m) = "RED", m # p
                 PROVE  Up(u, m) # NIL /\ Hue(u, Up(u, m)) # "RED"
      BY DEF Apart
    <3>1. m \in InTree(t) /\ m \in RbNodes /\ Hue(t, m) = "RED"
      BY <2>4, <2>5, InTreeIs
    <3>2. CASE m = n
      BY <1>2, <1>3, <2>5, <2>6, <3>2
    <3>3. CASE m # n
      <4>1. Up(t, m) \in RbNodes /\ Hue(t, Up(t, m)) # "RED" /\ Up(t, m) # NIL
        BY <1>2, <1>3, <3>1, <3>3, ApartIs
      <4>2. m # mid
        BY <1>2, <1>3, <2>2, <3>1, <4>1, LinkedParts
      <4> QED BY <2>5, <3>1, <3>3, <4>1, <4>2
    <3> QED BY <3>2, <3>3
  <2>10. ~IsRed(u, Kid(u, g, o))
    BY <1>1, <1>2, <1>3, <2>2, <2>5, <2>7, RedIs, LinkedParts DEF RbLinks
  <2>11. g \in InTree(u) /\ Hue(u, p) = "RED" /\ Hue(u, n) = "RED" /\ Hue(u, g) = "BLACK"
    BY <1>2, <1>3, <2>4, <2>5
  <2>12. rbt' = Rotate(SetColor(SetColor(u, n, "BLACK"), g, "RED"), g, Other(s))
    BY <2>1, <2>6 DEF o
  <2>13. Inv(rbt', "insert", p, NIL, is_right)
    BY <1>2, <2>2, <2>4, <2>7, <2>8, <2>9, <2>10, <2>11, <2>12, InsertOuter DEF o
  <2> QED BY <1>1, <1>2, <2>1, <2>13 DEF RbInv
<1> QED BY <1>6, <1>7

LEMMA DoneInv ==
    ASSUME RbAssumption, RbInv, InsertDone
    PROVE  RbInv'
<1> DEFINE t == rbt
           n == fixnode
           r == Top(t)
           u == SetColor(t, r, "BLACK")
<1>1. /\ pc = "insert" /\ ~IsRed(t, Up(t, n)) /\ rbt' = u /\ pc' = "idle" /\ fixnode' = NIL
      /\ pnode' = pnode /\ is_right' = is_right
  BY DEF InsertDone, Parent, Up, Top
<1>2. /\ Linked(t) /\ pnode = NIL /\ is_right \in BOOLEAN
      /\ n \in InTree(t) /\ Apart(t, n, NIL)
      /\ \E H : Even(t, H, NIL, NIL, SideIs(is_right))
  BY <1>1 DEF RbInv, Inv
<1> HIDE DEF t, n
<1>3. r \in InTree(t) /\ r \in RbNodes /\ Up(t, r) = NIL /\ t \in Trees /\ n \in RbNodes
  BY <1>2, TopIs, InTreeIs DEF Linked
<1> HIDE DEF r
<1>4. Painted(t, t) /\ "BLACK" \in Colors
  BY <1>3, PaintNone DEF Colors
<1>5. Painted(u, t) /\ \A m \in RbNodes : Hue(u, m) = IF m = r THEN "BLACK" ELSE Hue(t, m)
  BY <1>3, <1>4, PaintOne
<1> HIDE DEF u
<1>6. Linked(u) /\ InTree(u) = InTree(t)
  BY <1>2, <1>5, PaintedLinked
<1>7. \E G : Even(u, G, NIL, NIL, SideIs(is_right))
  <2>1. PICK H : Even(t, H, NIL, NIL, SideIs(is_right))
    BY <1>2
  <2>2. \A m \in RbNodes : m # r => Hue(u, m) = Hue(t, m)
    BY <1>5
  <2> QED BY <1>2, <1>3, <1>5, <2>1, <2>2, EvenRoot
<1>8. Apart(u, NIL, NIL)
  <2> SUFFICES ASSUME NEW m \in InTree(u), Hue(u, m) = "RED"
               PROVE  Up(u, m) # NIL /\ Hue(u, Up(u, m)) # "RED"
    BY DEF Apart
  <2>1. m \in InTree(t) /\ m \in RbNodes /\ m # r /\ Hue(t, m) = "RED" /\ Up(u, m) = Up(t, m)
    BY <1>5, <1>6, InTreeIs DEF Painted, SameUps
  <2>2. Up(t, m) # NIL /\ Hue(t, Up(t, m)) # "RED"
    <3>1. CASE m = n
      BY <1>1, <1>2, <2>1, <3>1, TopIs, RedIs DEF r
    <3>2. CASE m # n
      BY <1>2, <2>1, <3>2, ApartIs DEF RbAssumption
    <3> QED BY <3>1, <3>2
  <2>3. Up(t, m) \in RbNodes
    BY <1>2, <2>1, <2>2, LinkedParts DEF RbLinks
  <2> QED BY <1>5, <2>1, <2>2, <2>3
<1>9. Inv(u, "idle", NIL, NIL, is_right)
  BY <1>2, <1>6, <1>7, <1>8 DEF Inv
<1> QED BY <1>1, <1>2, <1>9 DEF RbInv

-----------------------------------------------------------------------------
(* rb_erase                                                                *)

LEMMA ApartCut ==
    ASSUME RbAssumption, NEW t, Linked(t), Apart(t, NIL, NIL), NEW d, NEW x, Outer(t, d, x),
           NEW c, Cut(c, t, d, x), InTree(c) = InTree(t) \ {d},
           NEW y, Hue(t, d) = "BLACK" => y = x
    PROVE  Apart(c, y, NIL)
<1>1. /\ d \in RbNodes /\ d # NIL /\ NIL \notin RbNodes
      /\ \A q \in Sides : Kid(t, d, q) \in {x, NIL}
      /\ x # NIL => Up(t, x) = d
      /\ Hue(t, d) \in {"RED", "BLACK"}
  BY OuterParts, LinkedParts DEF RbAssumption, Colors
<1>2. /\ \A m \in RbNodes : Up(c, m) = IF m = d THEN d ELSE IF m = x THEN Up(t, d) ELSE Up(t, m)
      /\ \A m \in RbNodes : Hue(c, m) = IF m = d THEN "RED" ELSE Hue(t, m)
  BY DEF Cut
<1>3. ASSUME NEW m \in InTree(c), Hue(c, m) = "RED", m # y
      PROVE  Up(c, m) # NIL /\ Hue(c, Up(c, m)) # "RED"
  <2>1. m \in InTree(t) /\ m # d /\ m \in RbNodes /\ m # NIL
    BY <1>1, <1>3, InTreeIs
  <2>2. Hue(t, m) = "RED"
    BY <1>2, <1>3, <2>1
  <2>3. Up(t, m) \in RbNodes /\ Up(t, m) # m /\ Hue(t, Up(t, m)) # "RED" /\ Up(t, m) # NIL
    BY <1>1, <2>1, <2>2, ApartIs
  <2>4. m # x
    BY <1>1, <1>3, <2>1, <2>3
  <2>5. Up(t, m) # d
    BY <1>1, <2>1, <2>3, <2>4, LinkedParts
  <2> QED BY <1>2, <2>1, <2>3, <2>4, <2>5
<1> QED BY <1>3 DEF Apart

LEMMA ApartRenamed ==
    ASSUME RbAssumption, NEW t, Linked(t), NEW y, Apart(t, y, NIL), NEW n \in InTree(t), n # y,
           NEW d \in RbNodes, d \notin InTree(t), NEW u, Renamed(u, t, n, d), Linked(u),
           InTree(u) = (InTree(t) \ {n}) \cup {d}
    PROVE  Apart(u, y, NIL)
<1>1. /\ \A m \in RbNodes : Up(u, m) = IF m = n THEN n ELSE IF m = d THEN Up(t, n)
                                       ELSE IF Up(t, m) = n THEN d ELSE Up(t, m)
      /\ \A m \in RbNodes : Hue(u, m) = IF m = n THEN "RED" ELSE IF m = d THEN Hue(t, n)
                                        ELSE Hue(t, m)
  BY DEF Renamed
<1>2. n \in RbNodes /\ n # d /\ NIL \notin RbNodes /\ n # NIL
  BY InTreeIs DEF RbAssumption
<1>3. ASSUME NEW m \in InTree(u), Hue(u, m) = "RED", m # y
      PROVE  Up(u, m) # NIL /\ Hue(u, Up(u, m)) # "RED"
  <2>1. CASE m = d
    <3>1. Hue(t, n) = "RED"
      BY <1>1, <1>2, <1>3, <2>1
    <3>2. /\ Up(t, n) \in RbNodes /\ Up(t, n) \in InTree(t) /\ Up(t, n) # n
          /\ Hue(t, Up(t, n)) # "RED" /\ Up(t, n) # NIL
      BY <1>2, <3>1, ApartIs
    <3> QED BY <1>1, <1>2, <2>1, <3>2
  <2>2. CASE m # d
    <3>1. m \in InTree(t) /\ m # n /\ m \in RbNodes
      BY <1>3, <2>2, InTreeIs
    <3>2. Hue(t, m) = "RED"
      BY <1>1, <1>3, <2>2, <3>1
    <3>3. /\ Up(t, m) \in RbNodes /\ Up(t, m) \in InTree(t) /\ Up(t, m) # m
          /\ Hue(t, Up(t, m)) # "RED" /\ Up(t, m) # NIL
      BY <1>2, <1>3, <3>1, <3>2, ApartIs
    <3> QED BY <1>1, <1>2, <2>2, <3>1, <3>3
  <2> QED BY <2>1, <2>2
<1> QED BY <1>3 DEF Apart

(* The tree that rb_erase leaves to rb_delete_fixup, if d is black: what   *)
(* takes the place of d, the node x or the leaf on side q of e, lacks a    *)
(* black.                                                                  *)
LEMMA ErasedInv ==
    ASSUME RbAssumption, NEW t, Linked(t), Apart(t, NIL, NIL), NEW H, NEW o, Even(t, H, NIL, NIL, o),
           NEW n \in InTree(t), NEW d, d = Spliced(t, n),
           NEW x, x = Kid(t, d, IF Kid(t, d, "left") = NIL THEN "right" ELSE "left"),
           NEW e, e = DelParent(t, n), NEW b \in BOOLEAN, b = IsChild(t, d, "right"),
           NEW u, u = Erased(t, n)
    PROVE  /\ Hue(t, d) = "BLACK" => Inv(u, "delete", x, e, b)
           /\ Hue(t, d) # "BLACK" => Inv(u, "idle", NIL, NIL, o = "right")
<1> DEFINE p == Up(t, d)
           q == SideIs(b)
           black == Hue(t, d) = "BLACK"
           z == IF black THEN x ELSE NIL
           f == IF black /\ x = NIL THEN p ELSE NIL
<1>1. /\ d \in InTree(t) /\ Outer(t, d, x) /\ Linked(u) /\ InTree(u) = InTree(t) \ {n}
      /\ \E c : /\ Cut(c, t, d, x) /\ Linked(c) /\ InTree(c) = InTree(t) \ {d}
                /\ IF d = n THEN u = c ELSE Renamed(u, c, n, d) /\ x # n /\ p # NIL
  BY ErasedIs
<1>2. PICK c : /\ Cut(c, t, d, x) /\ Linked(c) /\ InTree(c) = InTree(t) \ {d}
               /\ IF d = n THEN u = c ELSE Renamed(u, c, n, d) /\ x # n /\ p # NIL
  BY <1>1
<1>3. /\ d \in RbNodes /\ d # NIL /\ x # d /\ x \in RbLinks /\ NIL \notin RbNodes
      /\ p # d /\ p \in RbLinks /\ (p # x \/ x = NIL) /\ p = Up(t, d)
      /\ x # NIL => x \in InTree(t) /\ Up(t, x) = d /\ x \in RbNodes
      /\ n \in RbNodes /\ n # NIL
  BY <1>1, OuterParts, InTreeIs DEF RbAssumption
<1>4. q \in Sides /\ (p # NIL => Kid(t, p, q) = d /\ p \in InTree(t) /\ p \in RbNodes)
  <2>1. q \in Sides
    BY DEF SideIs, Sides
  <2>2. ASSUME p # NIL
        PROVE  Kid(t, p, q) = d /\ p \in InTree(t) /\ p \in RbNodes
    <3>1. p \in InTree(t) /\ p \in RbNodes
      BY <1>1, <1>3, <2>2, NoTwoCycle DEF RbLinks
    <3>2. PICK s \in Sides : Kid(t, p, s) = d
      BY <1>3, <2>2, LinkedParts
    <3>3. b <=> Kid(t, p, "right") = d
      BY <1>3, <2>2 DEF IsChild, IsRoot, Up, Kid
    <3>4. q = IF b THEN "right" ELSE "left"
      BY DEF SideIs
    <3> HIDE DEF p, q
    <3> QED BY <3>1, <3>2, <3>3, <3>4 DEF Sides
  <2> QED BY <2>1, <2>2
<1>5. e = IF p = n THEN d ELSE p
  BY DEF DelParent, Up
<1>6. /\ black => z = x /\ f = IF x = NIL THEN p ELSE NIL
      /\ ~black => z = NIL /\ f = NIL
      /\ f # d /\ z # d /\ (d # n => z # n)
  BY <1>2, <1>3
<1>7. \E G : Even(c, G, z, f, q)
  BY <1>1, <1>2, <1>3, <1>4, <1>6, EvenCut
<1>8. Apart(c, z, NIL)
  BY <1>1, <1>2, <1>6, ApartCut
<1> HIDE DEF p, q, z, f
<1>9. d # n => n \in InTree(c) /\ d \notin InTree(c)
  BY <1>2
<1>10. \E G : Even(u, G, z, IF d # n /\ f = n THEN d ELSE f, q)
  <2>1. CASE d = n
    BY <1>2, <1>7, <2>1
  <2>2. CASE d # n
    BY <1>2, <1>3, <1>6, <1>7, <1>9, <2>2, EvenRenamed
  <2> QED BY <2>1, <2>2
<1>11. Apart(u, z, NIL)
  <2>1. CASE d = n
    BY <1>2, <1>8, <2>1
  <2>2. CASE d # n
    <3>1. InTree(u) = (InTree(c) \ {n}) \cup {d}
      BY <1>1, <1>2, <2>2
    <3> QED BY <1>1, <1>2, <1>3, <1>6, <1>8, <1>9, <2>2, <3>1, ApartRenamed
  <2> QED BY <2>1, <2>2
<1>12. ASSUME ~black
       PROVE  Inv(u, "idle", NIL, NIL, o = "right")
  <2>1. z = NIL /\ f = NIL
    BY <1>6, <1>12
  <2>2. PICK G : Even(u, G, NIL, NIL, q)
    BY <1>3, <1>10, <2>1
  <2>3. Even(u, G, NIL, NIL, SideIs(o = "right"))
    BY <2>2, AnySide
  <2> QED BY <1>1, <1>11, <2>1, <2>3 DEF Inv
<1>13. ASSUME black
       PROVE  Inv(u, "delete", x, e, b)
  <2>1. z = x /\ f = IF x = NIL THEN p ELSE NIL
    BY <1>6, <1>13
  <2>2. LackingAt(x, e) = IF d # n /\ f = n THEN d ELSE f
    <3>1. p = n => d # n
      BY <1>3
    <3> QED BY <1>3, <1>5, <2>1, <3>1 DEF LackingAt
  <2>3. x \in InTree(u) \cup {NIL}
    BY <1>1, <1>2, <1>3
  <2>4. e \in InTree(u) \cup {NIL}
    BY <1>1, <1>3, <1>4, <1>5
  <2>5. /\ Top(c) = IF p = NIL THEN x ELSE Top(t)
        /\ \A m \in RbNodes, s \in Sides :
              Kid(c, m, s) = IF m = d THEN NIL
                             ELSE IF m = p /\ Kid(t, m, s) = d THEN x ELSE Kid(t, m, s)
        /\ \A m \in RbNodes : Up(c, m) = IF m = d THEN d ELSE IF m = x THEN p ELSE Up(t, m)
    BY <1>2 DEF Cut, p
  <2>6. e = NIL => IF x = NIL THEN Top(u) = NIL ELSE Up(u, x) = NIL
    <3> SUFFICES ASSUME e = NIL PROVE IF x = NIL THEN Top(u) = NIL ELSE Up(u, x) = NIL
      OBVIOUS
    <3>1. p = NIL /\ d = n /\ u = c
      BY <1>2, <1>3, <1>5
    <3> QED BY <1>3, <2>5, <3>1
  <2>7. e # NIL /\ x = NIL => Kid(u, e, q) = NIL
    <3> SUFFICES ASSUME e # NIL, x = NIL PROVE Kid(u, e, q) = NIL
      OBVIOUS
    <3>1. p # NIL
      BY <1>3, <1>5
    <3>2. Kid(t, p, q) = d /\ p \in RbNodes
      BY <1>4, <3>1
    <3>3. Kid(c, p, q) = NIL
      BY <1>3, <1>4, <2>5, <3>2
    <3>4. CASE d = n
      BY <1>2, <1>3, <1>5, <3>3, <3>4
    <3>5. CASE d # n
      <4>1. \A m \in RbNodes, s \in Sides :
              Kid(u, m, s) = IF m = n THEN NIL ELSE IF m = d THEN Kid(c, n, s)
                             ELSE IF Kid(c, m, s) = n THEN d ELSE Kid(c, m, s)
        BY <1>2, <3>5 DEF Renamed
      <4> QED BY <1>3, <1>4, <1>5, <3>2, <3>3, <3>5, <4>1
    <3> QED BY <3>4, <3>5
  <2>8. Apart(u, x, x)
    BY <1>3, <1>11, <2>1 DEF Apart
  <2>9. \E G : Even(u, G, x, LackingAt(x, e), q)
    BY <1>10, <2>1, <2>2
  <2> QED BY <1>1, <2>3, <2>4, <2>6, <2>7, <2>8, <2>9 DEF Inv, q
<1> QED BY <1>12, <1>13

LEMMA EraseInv ==
    ASSUME RbAssumption, RbInv, NEW n \in RbNodes, RbErase(n)
    PROVE  RbInv'
<1> DEFINE t == rbt
           d == Spliced(t, n)
           x == Kid(t, d, IF Kid(t, d, "left") = NIL THEN "right" ELSE "left")
           u == Erased(t, n)
           b == IsChild(t, d, "right")
           e == DelParent(t, n)
<1>1. /\ pc = "idle" /\ n \in InTree(t) /\ rbt' = u
      /\ IF Hue(t, d) = "BLACK"
         THEN pc' = "delete" /\ fixnode' = x /\ pnode' = e /\ is_right' = b
         ELSE pc' = pc /\ fixnode' = fixnode /\ pnode' = pnode /\ is_right' = is_right
  BY DEF RbErase, Erased, DelColor, Hue, Kid
<1>2. /\ Linked(t) /\ fixnode = NIL /\ pnode = NIL /\ is_right \in BOOLEAN
      /\ Apart(t, NIL, NIL)
  BY <1>1 DEF RbInv, Inv
<1>3. PICK H : Even(t, H, NIL, NIL, SideIs(is_right))
  BY <1>1 DEF RbInv, Inv
<1>4. b \in BOOLEAN
  BY DEF IsChild
<1>5. is_right <=> SideIs(is_right) = "right"
  BY DEF SideIs
<1>6. /\ Hue(t, d) = "BLACK" => Inv(u, "delete", x, e, b)
      /\ Hue(t, d) # "BLACK" => Inv(u, "idle", NIL, NIL, SideIs(is_right) = "right")
  <2> HIDE DEF t, u, e, b
  <2>1. /\ u = Erased(t, n) /\ e = DelParent(t, n) /\ b = IsChild(t, d, "right")
    BY DEF u, e, b
  <2> HIDE DEF x, d
  <2>2. d = Spliced(t, n) /\ x = Kid(t, d, IF Kid(t, d, "left") = NIL THEN "right" ELSE "left")
    BY DEF x, d
  <2> QED BY <1>1, <1>2, <1>3, <1>4, <2>1, <2>2, ErasedInv
<1> HIDE DEF t, d, x, u, b, e
<1>7. CASE Hue(t, d) = "BLACK"
  BY <1>1, <1>6, <1>7 DEF RbInv
<1>8. CASE Hue(t, d) # "BLACK"
  <2>1. is_right = (SideIs(is_right) = "right")
    BY <1>2, <1>5
  <2>2. Inv(u, "idle", NIL, NIL, is_right)
    BY <1>6, <1>8, <2>1
  <2> QED BY <1>1, <1>2, <1>8, <2>2 DEF RbInv
<1> QED BY <1>7, <1>8

-----------------------------------------------------------------------------
(* rb_delete_fixup                                                         *)

(* Where its loop works: x, the node or leaf on side s of r, is not red    *)
(* and lacks a black.                                                      *)
DeleteSpot(t, x, r, s) ==
    /\ Linked(t) /\ r \in InTree(t) /\ s \in Sides /\ Kid(t, r, s) = x
    /\ x # NIL => Hue(t, x) # "RED"
    /\ Apart(t, x, x)
    /\ \E H : Even(t, H, x, LackingAt(x, r), s)

LEMMA DeleteSpotIs ==
    ASSUME RbAssumption, RbInv, pc = "delete", pnode # NIL,
           ~IsRoot(rbt, fixnode), ~IsRed(rbt, fixnode)
    PROVE  DeleteSpot(rbt, fixnode, DeleteParent, DeleteSide)
<1> DEFINE t == rbt
           x == fixnode
<1>1. /\ Linked(t) /\ x \in InTree(t) \cup {NIL} /\ pnode \in InTree(t) /\ is_right \in BOOLEAN
      /\ x = NIL => Kid(t, pnode, SideIs(is_right)) = NIL
      /\ Apart(t, x, x)
      /\ \E H : Even(t, H, x, LackingAt(x, pnode), SideIs(is_right))
  BY DEF RbInv, Inv
<1>2. x # NIL => Hue(t, x) # "RED" /\ Up(t, x) # NIL
  BY RedIs DEF IsRoot, Up
<1>3. CASE x = NIL
  <2>1. DeleteParent = pnode /\ DeleteSide = SideIs(is_right) /\ SideIs(is_right) \in Sides
    BY <1>3 DEF DeleteParent, DeleteSide, SideIs, Sides
  <2> QED BY <1>1, <1>3, <2>1 DEF DeleteSpot
<1>4. CASE x # NIL
  <2>1. DeleteParent = Up(t, x) /\ DeleteSide = SideOf(t, x)
    BY <1>4 DEF DeleteParent, DeleteSide, Up
  <2>2. x \in InTree(t) /\ Up(t, x) \in InTree(t)
    BY <1>1, <1>2, <1>4, NoTwoCycle
  <2>3. SideOf(t, x) \in Sides /\ Kid(t, Up(t, x), SideOf(t, x)) = x
    BY <1>1, <1>2, <1>4, <2>2, LinkedHeld, SideOfHeld
  <2>4. PICK H : Even(t, H, x, NIL, SideIs(is_right))
    BY <1>1, <1>4 DEF LackingAt
  <2>5. Even(t, H, x, LackingAt(x, DeleteParent), DeleteSide)
    BY <1>4, <2>4, AnySide DEF LackingAt
  <2> QED BY <1>1, <1>2, <2>1, <2>2, <2>3, <2>5 DEF DeleteSpot
<1> QED BY <1>3, <1>4

(* What is known of the nodes at such a place.                             *)
LEMMA SpotNodes ==
    ASSUME RbAssumption, NEW t, NEW x, NEW r, NEW s, DeleteSpot(t, x, r, s),
           NEW o, o = Other(s), NEW w, w = Kid(t, r, o)
    PROVE  /\ Linked(t) /\ t \in Trees /\ r \in InTree(t) /\ r \in RbNodes /\ NIL \notin RbNodes
           /\ s \in Sides /\ o \in Sides /\ o # s /\ Other(o) = s /\ \A q \in Sides : q = s \/ q = o
           /\ w \in InTree(t) /\ w \in RbNodes /\ Up(t, w) = r /\ w # r /\ Up(t, r) # w
           /\ x = Kid(t, r, s) /\ x # r /\ x # w /\ (x # NIL => x \in RbNodes /\ Up(t, x) = r)
           /\ {"RED", "BLACK"} \subseteq Colors
<1>1. /\ Linked(t) /\ t \in Trees /\ r \in InTree(t) /\ r \in RbNodes /\ NIL \notin RbNodes
      /\ s \in Sides /\ o \in Sides /\ o # s /\ Other(o) = s /\ \A q \in Sides : q = s \/ q = o
      /\ x = Kid(t, r, s) /\ {"RED", "BLACK"} \subseteq Colors
  BY SidesTwo, InTreeIs DEF DeleteSpot, Linked, RbAssumption, Colors
<1>2. w # NIL /\ w \in RbNodes
  BY <1>1, SiblingHeight DEF DeleteSpot
<1>3. w \in InTree(t) /\ Up(t, w) = r /\ w # r /\ x # w
  BY <1>1, <1>2, KidInTree, LinkedParts
<1>4. Up(t, r) # w
  BY <1>1, <1>3, NoTwoCycle
<1>5. x # r /\ (x # NIL => x \in RbNodes /\ Up(t, x) = r)
  BY <1>1, KidInTree, LinkedParts DEF RbLinks
<1> QED BY <1>1, <1>2, <1>3, <1>4, <1>5

(* Case 1: the sibling is red; afterwards there is a black one.            *)
LEMMA Case1 ==
    ASSUME RbAssumption, NEW t, NEW x, NEW r, NEW s, DeleteSpot(t, x, r, s),
           NEW o, o = Other(s), NEW w, w = Kid(t, r, o), IsRed(t, w),
           NEW u, u = Rotate(SetColor(SetColor(t, w, "BLACK"), r, "RED"), r, s)
    PROVE  DeleteSpot(u, x, r, s) /\ InTree(u) = InTree(t) /\ ~IsRed(u, Kid(u, r, o))
<1> DEFINE mid == Kid(t, w, s)
           v1 == SetColor(t, w, "BLACK")
           v == SetColor(v1, r, "RED")
<1>1. /\ Linked(t) /\ t \in Trees /\ r \in InTree(t) /\ r \in RbNodes /\ NIL \notin RbNodes
      /\ s \in Sides /\ o \in Sides /\ o # s /\ Other(o) = s /\ \A q \in Sides : q = s \/ q = o
      /\ w \in InTree(t) /\ w \in RbNodes /\ Up(t, w) = r /\ w # r /\ Up(t, r) # w
      /\ x = Kid(t, r, s) /\ x # r /\ x # w /\ (x # NIL => x \in RbNodes /\ Up(t, x) = r)
      /\ {"RED", "BLACK"} \subseteq Colors
  BY SpotNodes
<1>2. /\ Apart(t, x, x) /\ Hue(t, w) = "RED" /\ (x # NIL => Hue(t, x) # "RED")
      /\ \E H : Even(t, H, x, LackingAt(x, r), s)
  BY RedIs DEF DeleteSpot
<1>3. mid = Kid(t, w, s) /\ u = Rotate(v, r, s)
  OBVIOUS
<1> HIDE DEF mid
<1>4. Painted(t, t)
  BY <1>1, PaintNone
<1>5. Painted(v1, t) /\ \A m \in RbNodes : Hue(v1, m) = IF m = w THEN "BLACK" ELSE Hue(t, m)
  BY <1>1, <1>4, PaintOne
<1> HIDE DEF v1
<1>6. Painted(v, t) /\ \A m \in RbNodes : Hue(v, m) = IF m = r THEN "RED" ELSE Hue(v1, m)
  BY <1>1, <1>5, PaintOne
<1> HIDE DEF v
<1>7. /\ Rotatable(t, r, s, w, mid) /\ Rotated(u, t, r, s, w, mid) /\ SameHues(u, v)
      /\ Linked(u) /\ InTree(u) = InTree(t)
  BY <1>1, <1>3, <1>6, PaintedRotated
<1>8. /\ \A m \in RbNodes : Hue(u, m) = IF m = r THEN "RED" ELSE IF m = w THEN "BLACK" ELSE Hue(t, m)
      /\ \A m \in RbNodes : Up(u, m) = IF m = r THEN w ELSE IF m = w THEN Up(t, r)
                                       ELSE IF m = mid THEN r ELSE Up(t, m)
      /\ Kid(u, r, o) = mid /\ Kid(u, r, s) = x
  <2>1. \A m \in RbNodes : Hue(u, m) = IF m = r THEN "RED" ELSE IF m = w THEN "BLACK" ELSE Hue(t, m)
    BY <1>5, <1>6, <1>7 DEF SameHues
  <2>2. Up(t, r) # r
    BY <1>1, InTreeIs
  <2> QED BY <1>1, <1>7, <2>1, <2>2 DEF Rotated
<1>9. Hue(t, r) = "BLACK"
  <2>1. Hue(t, r) # "RED"
    BY <1>1, <1>2, ApartIs
  <2> QED BY <1>1, <2>1, LinkedParts DEF Colors
<1>10. mid # NIL => mid \in RbNodes /\ mid # r /\ mid # w /\ Hue(t, mid) # "RED"
  <2> SUFFICES ASSUME mid # NIL PROVE mid \in RbNodes /\ mid # r /\ mid # w /\ Hue(t, mid) # "RED"
    OBVIOUS
  <2>1. mid \in InTree(t) /\ Up(t, mid) = w /\ mid # w /\ mid # r /\ mid \in RbNodes
    BY <1>7, InTreeIs DEF Rotatable
  <2>2. mid # x
    BY <1>1, <2>1
  <2> QED BY <1>1, <1>2, <2>1, <2>2, ApartIs
<1>11. \E G : Even(u, G, x, LackingAt(x, r), s)
  <2>1. PICK H : Even(t, H, x, LackingAt(x, r), s)
    BY <1>2
  <2>2. /\ Hue(u, r) = "RED" /\ Hue(u, w) = Hue(t, r)
        /\ \A m \in RbNodes : m # r /\ m # w => Hue(u, m) = Hue(t, m)
    BY <1>1, <1>8, <1>9
  <2>3. LackingAt(x, r) # w
    BY <1>1 DEF LackingAt
  <2> QED BY <1>1, <1>2, <1>7, <2>1, <2>2, <2>3, EvenRotated
<1>12. Apart(u, x, x)
  <2> SUFFICES ASSUME NEW m \in InTree(u), Hue(u, m) = "RED", m # x
               PROVE  Up(u, m) # NIL /\ (Hue(u, Up(u, m)) = "RED" => Up(u, m) = x)
    BY DEF Apart
  <2>1. m \in InTree(t) /\ m \in RbNodes /\ m # w
    BY <1>1, <1>7, <1>8, InTreeIs
  <2>2. CASE m = r
    BY <1>1, <1>8, <2>2
  <2>3. CASE m # r
    <3>1. Hue(t, m) = "RED"
      BY <1>8, <2>1, <2>3
    <3>2. Up(t, m) \in RbNodes /\ Up(t, m) # m /\ (Hue(t, Up(t, m)) = "RED" => Up(t, m) = x)
      BY <1>1, <1>2, <2>1, <3>1, ApartIs
    <3>3. m # mid /\ Up(t, m) # w
      BY <1>1, <1>2, <1>10, <2>1, <3>1, <3>2
    <3>4. Up(t, m) # r
      <4>1. \E q \in Sides : Kid(t, Up(t, m), q) = m
        BY <1>1, <2>1, <3>2, LinkedParts
      <4> QED BY <1>1, <2>1, <4>1
    <3> QED BY <1>1, <1>8, <2>1, <2>3, <3>2, <3>3, <3>4
  <2> QED BY <2>2, <2>3
<1>13. x # NIL => Hue(u, x) # "RED"
  BY <1>1, <1>2, <1>8
<1>14. ~IsRed(u, Kid(u, r, o))
  BY <1>8, <1>10, RedIs
<1> QED BY <1>1, <1>7, <1>8, <1>11, <1>12, <1>13, <1>14 DEF DeleteSpot

(* What case 1 leaves to the others.                                       *)
LEMMA AfterCase1Is ==
    ASSUME RbAssumption, RbInv, DeleteLoop, NEW x, x = fixnode, NEW r, r = DeleteParent,
           NEW s, s = DeleteSide, NEW t, t = AfterCase1, NEW w, w = Sibling
    PROVE  /\ DeleteSpot(t, x, r, s) /\ InTree(t) = InTree(rbt) /\ w = Kid(t, r, Other(s))
           /\ Hue(t, w) = "BLACK" /\ pnode \in InTree(rbt) /\ pnode # NIL /\ is_right \in BOOLEAN
<1>1. DeleteSpot(rbt, x, r, s)
  BY DeleteSpotIs DEF DeleteLoop
<1>2. w = Kid(t, r, Other(s))
  BY DEF Sibling, Kid
<1>3. DeleteSpot(t, x, r, s) /\ InTree(t) = InTree(rbt) /\ ~IsRed(t, w)
  <2> DEFINE w0 == Kid(rbt, r, Other(s))
  <2>1. AfterCase1 = IF IsRed(rbt, w0)
                     THEN Rotate(SetColor(SetColor(rbt, w0, "BLACK"), r, "RED"), r, s)
                     ELSE rbt
    BY DEF AfterCase1, Kid
  <2>2. CASE IsRed(rbt, w0)
    <3>1. t = Rotate(SetColor(SetColor(rbt, w0, "BLACK"), r, "RED"), r, s)
      BY <2>1, <2>2
    <3> QED BY <1>1, <1>2, <2>2, <3>1, Case1
  <2>3. CASE ~IsRed(rbt, w0)
    BY <1>1, <1>2, <2>1, <2>3
  <2> QED BY <2>2, <2>3
<1>4. w \in RbNodes /\ Linked(t) /\ NIL \notin RbNodes
  BY <1>2, <1>3, SpotNodes
<1>5. Hue(t, w) = "BLACK"
  BY <1>3, <1>4, RedIs, LinkedParts DEF Colors
<1>6. pnode \in InTree(rbt) /\ pnode # NIL /\ is_right \in BOOLEAN
  BY DEF RbInv, Inv, DeleteLoop
<1> QED BY <1>2, <1>3, <1>5, <1>6

LEMMA DeleteRecolorInv ==
    ASSUME RbAssumption, RbInv, DeleteRecolor
    PROVE  RbInv'
<1> DEFINE t == AfterCase1
           x == fixnode
           r == DeleteParent
           s == DeleteSide
           w == Sibling
           u == SetColor(t, w, "RED")
<1>1. /\ DeleteLoop /\ rbt' = u /\ fixnode' = r /\ pc' = "delete" /\ pnode' = pnode
      /\ is_right' = is_right
      /\ \A q \in Sides : ~IsRed(t, Kid(t, w, q))
  BY DEF DeleteRecolor, DeleteLoop, NephewsBlack, Kid
<1>2. /\ DeleteSpot(t, x, r, s) /\ InTree(t) = InTree(rbt) /\ w = Kid(t, r, Other(s))
      /\ Hue(t, w) = "BLACK" /\ pnode \in InTree(rbt) /\ pnode # NIL /\ is_right \in BOOLEAN
  BY <1>1, AfterCase1Is
<1> HIDE DEF t, x, r, s, w
<1>3. /\ Linked(t) /\ t \in Trees /\ r \in InTree(t) /\ r \in RbNodes /\ NIL \notin RbNodes
      /\ s \in Sides /\ w \in RbNodes /\ Up(t, w) = r /\ w # r
      /\ x = Kid(t, r, s) /\ x # w /\ {"RED", "BLACK"} \subseteq Colors
  BY <1>2, SpotNodes
<1>4. Apart(t, x, x) /\ (x # NIL => Hue(t, x) # "RED")
  BY <1>2 DEF DeleteSpot
<1>5. Painted(t, t)
  BY <1>3, PaintNone
<1>6. Painted(u, t) /\ \A m \in RbNodes : Hue(u, m) = IF m = w THEN "RED" ELSE Hue(t, m)
  BY <1>3, <1>5, PaintOne
<1> HIDE DEF u
<1>7. Linked(u) /\ InTree(u) = InTree(t) /\ \A m \in RbNodes : Up(u, m) = Up(t, m)
  BY <1>3, <1>6, PaintedLinked DEF Painted, SameUps
<1>8. \E G : Even(u, G, r, LackingAt(r, pnode), SideIs(is_right))
  <2>1. PICK H : Even(t, H, x, LackingAt(x, r), s)
    BY <1>2 DEF DeleteSpot
  <2>2. Hue(u, w) = "RED" /\ \A m \in RbNodes : m # w => Hue(u, m) = Hue(t, m)
    BY <1>3, <1>6
  <2>3. PICK G : Even(u, G, r, NIL, s)
    BY <1>2, <1>3, <1>6, <2>1, <2>2, EvenSibling
  <2>4. Even(u, G, r, NIL, SideIs(is_right))
    BY <2>3, AnySide
  <2>5. LackingAt(r, pnode) = NIL
    BY <1>3 DEF LackingAt
  <2> QED BY <2>4, <2>5
<1>9. Apart(u, r, r)
  <2> SUFFICES ASSUME NEW m \in InTree(u), Hue(u, m) = "RED", m # r
               PROVE  Up(u, m) # NIL /\ (Hue(u, Up(u, m)) = "RED" => Up(u, m) = r)
    BY DEF Apart
  <2>1. m \in InTree(t) /\ m \in RbNodes /\ Up(u, m) = Up(t, m)
    BY <1>7, InTreeIs
  <2>2. CASE m = w
    BY <1>3, <2>1, <2>2
  <2>3. CASE m # w
    <3>1. Hue(t, m) = "RED" /\ m # x
      BY <1>3, <1>4, <1>6, <2>1, <2>3
    <3>2. /\ Up(t, m) \in RbNodes /\ Up(t, m) # m /\ Up(t, m) # NIL
          /\ Hue(t, Up(t, m)) = "RED" => Up(t, m) = x
      BY <1>3, <1>4, <2>1, <3>1, ApartIs
    <3>3. Hue(t, Up(t, m)) # "RED"
      BY <1>4, <3>2
    <3>4. Up(t, m) # w
      <4>1. \E q \in Sides : Kid(t, Up(t, m), q) = m
        BY <1>3, <2>1, <3>2, LinkedParts
      <4>2. IsRed(t, m)
        BY <1>3, <2>1, <3>1, RedIs
      <4> QED BY <1>1, <4>1, <4>2
    <3> QED BY <1>6, <2>1, <3>2, <3>3, <3>4
  <2> QED BY <2>2, <2>3
<1>10. Inv(u, "delete", r, pnode, is_right)
  BY <1>2, <1>3, <1>7, <1>8, <1>9 DEF Inv
<1> QED BY <1>1, <1>10 DEF RbInv

(* Case 3: only the sibling's near child is red; it becomes the sibling.   *)
LEMMA Case3 ==
    ASSUME RbAssumption, NEW t, NEW x, NEW r, NEW s, DeleteSpot(t, x, r, s),
           NEW o, o = Other(s), NEW w, w = Kid(t, r, o), Hue(t, w) = "BLACK",
           ~IsRed(t, Kid(t, w, o)), NEW k, k = Kid(t, w, s), IsRed(t, k),
           NEW u, u = Rotate(SetColor(SetColor(t, w, "RED"), k, "BLACK"), w, o)
    PROVE  /\ DeleteSpot(u, x, r, s) /\ InTree(u) = InTree(t) /\ Up(u, w) = k
           /\ Kid(u, r, o) = k /\ Hue(u, k) = "BLACK" /\ Kid(u, k, o) = w /\ Hue(u, w) = "RED"
<1> DEFINE mid == Kid(t, k, o)
           v1 == SetColor(t, w, "RED")
           v == SetColor(v1, k, "BLACK")
<1>1. /\ Linked(t) /\ t \in Trees /\ r \in InTree(t) /\ r \in RbNodes /\ NIL \notin RbNodes
      /\ s \in Sides /\ o \in Sides /\ o # s /\ Other(o) = s /\ \A q \in Sides : q = s \/ q = o
      /\ w \in InTree(t) /\ w \in RbNodes /\ Up(t, w) = r /\ w # r /\ Up(t, r) # w
      /\ x = Kid(t, r, s) /\ x # r /\ x # w /\ (x # NIL => x \in RbNodes /\ Up(t, x) = r)
      /\ {"RED", "BLACK"} \subseteq Colors
  BY SpotNodes
<1>2. /\ Apart(t, x, x) /\ k # NIL /\ Hue(t, k) = "RED" /\ (x # NIL => Hue(t, x) # "RED")
      /\ \E H : Even(t, H, x, LackingAt(x, r), s)
  BY RedIs DEF DeleteSpot
<1>3. mid = Kid(t, k, o) /\ u = Rotate(v, w, o)
  OBVIOUS
<1>4. /\ k \in InTree(t) /\ k \in RbNodes /\ Up(t, k) = w /\ k # w /\ k # r /\ k # x
  <2>1. k \in InTree(t) /\ k \in RbNodes /\ Up(t, k) = w /\ k # w
    BY <1>1, <1>2, KidInTree, InTreeIs, LinkedParts
  <2> QED BY <1>1, <2>1
<1> HIDE DEF mid
<1>5. Painted(t, t)
  BY <1>1, PaintNone
<1>6. Painted(v1, t) /\ \A m \in RbNodes : Hue(v1, m) = IF m = w THEN "RED" ELSE Hue(t, m)
  BY <1>1, <1>5, PaintOne
<1> HIDE DEF v1
<1>7. Painted(v, t) /\ \A m \in RbNodes : Hue(v, m) = IF m = k THEN "BLACK" ELSE Hue(v1, m)
  BY <1>1, <1>4, <1>6, PaintOne
<1> HIDE DEF v
<1>8. /\ Rotatable(t, w, o, k, mid) /\ Rotated(u, t, w, o, k, mid) /\ SameHues(u, v)
      /\ Linked(u) /\ InTree(u) = InTree(t)
  BY <1>1, <1>2, <1>3, <1>7, PaintedRotated
<1>9. /\ \A m \in RbNodes : Hue(u, m) = IF m = w THEN "RED" ELSE IF m = k THEN "BLACK" ELSE Hue(t, m)
      /\ \A m \in RbNodes : Up(u, m) = IF m = w THEN k ELSE IF m = k THEN r
                                       ELSE IF m = mid THEN w ELSE Up(t, m)
      /\ Kid(u, r, o) = k /\ Kid(u, r, s) = x /\ Kid(u, k, o) = w
  <2>1. \A m \in RbNodes : Hue(u, m) = IF m = w THEN "RED" ELSE IF m = k THEN "BLACK" ELSE Hue(t, m)
    BY <1>4, <1>6, <1>7, <1>8 DEF SameHues
  <2> QED BY <1>1, <1>4, <1>8, <2>1 DEF Rotated
<1>10. mid # NIL => mid \in RbNodes /\ mid # w /\ mid # k /\ Hue(t, mid) # "RED"
  <2> SUFFICES ASSUME mid # NIL PROVE mid \in RbNodes /\ mid # w /\ mid # k /\ Hue(t, mid) # "RED"
    OBVIOUS
  <2>1. mid \in InTree(t) /\ Up(t, mid) = k /\ mid # w /\ mid # k /\ mid \in RbNodes
    BY <1>8, InTreeIs DEF Rotatable
  <2>2. mid # x
    BY <1>1, <1>4, <2>1
  <2> QED BY <1>1, <1>2, <1>4, <2>1, <2>2, ApartIs
<1>11. \E G : Even(u, G, x, LackingAt(x, r), s)
  <2>1. PICK H : Even(t, H, x, LackingAt(x, r), s)
    BY <1>2
  <2>2. /\ Hue(u, w) = "RED" /\ Hue(u, k) = Hue(t, w)
        /\ \A m \in RbNodes : m # w /\ m # k => Hue(u, m) = Hue(t, m)
    BY <1>1, <1>4, <1>9
  <2>3. LackingAt(x, r) # w /\ LackingAt(x, r) # k
    BY <1>1, <1>2, <1>4 DEF LackingAt
  <2> QED BY <1>1, <1>2, <1>4, <1>8, <2>1, <2>2, <2>3, EvenRotated
<1>12. Apart(u, x, x)
  <2> SUFFICES ASSUME NEW m \in InTree(u), Hue(u, m) = "RED", m # x
               PROVE  Up(u, m) # NIL /\ (Hue(u, Up(u, m)) = "RED" => Up(u, m) = x)
    BY DEF Apart
  <2>1. m \in InTree(t) /\ m \in RbNodes /\ m # k
    BY <1>1, <1>4, <1>8, <1>9, InTreeIs
  <2>2. CASE m = w
    BY <1>2, <1>4, <1>9, <2>1, <2>2
  <2>3. CASE m # w
    <3>1. Hue(t, m) = "RED"
      BY <1>9, <2>1, <2>3
    <3>2. Up(t, m) \in RbNodes /\ Up(t, m) # m /\ (Hue(t, Up(t, m)) = "RED" => Up(t, m) = x)
      BY <1>1, <1>2, <2>1, <3>1, ApartIs
    <3>3. m # mid /\ Up(t, m) # k
      BY <1>1, <1>2, <1>4, <1>10, <2>1, <3>1, <3>2
    <3>4. Up(t, m) # w
      <4>1. \E q \in Sides : Kid(t, Up(t, m), q) = m
        BY <1>1, <2>1, <3>2, LinkedParts
      <4>2. Kid(t, w, o) # m /\ Kid(t, w, s) # m
        BY <1>1, <2>1, <3>1, RedIs
      <4> QED BY <1>1, <4>1, <4>2
    <3> QED BY <1>1, <1>9, <2>1, <2>3, <3>2, <3>3, <3>4
  <2> QED BY <2>2, <2>3
<1>13. (x # NIL => Hue(u, x) # "RED") /\ Hue(u, k) = "BLACK" /\ Hue(u, w) = "RED" /\ Up(u, w) = k
  BY <1>1, <1>2, <1>4, <1>9
<1> QED BY <1>1, <1>8, <1>9, <1>11, <1>12, <1>13 DEF DeleteSpot

(* Case 4: the sibling's far child is red; nothing lacks a black any more. *)
LEMMA Case4 ==
    ASSUME RbAssumption, NEW t, NEW x, NEW r, NEW s, DeleteSpot(t, x, r, s),
           NEW o, o = Other(s), NEW w, w = Kid(t, r, o), Hue(t, w) = "BLACK",
           NEW f, f = Kid(t, w, o), IsRed(t, f),
           NEW u, u = Rotate(SetColor(SetColor(SetColor(t, w, Hue(t, r)), r, "BLACK"), f, "BLACK"),
                             r, s),
           NEW p \in InTree(t), NEW b \in BOOLEAN
    PROVE  Inv(u, "delete", Top(u), p, b)
<1> DEFINE mid == Kid(t, w, s)
           v1 == SetColor(t, w, Hue(t, r))
           v2 == SetColor(v1, r, "BLACK")
           v == SetColor(v2, f, "BLACK")
<1>1. /\ Linked(t) /\ t \in Trees /\ r \in InTree(t) /\ r \in RbNodes /\ NIL \notin RbNodes
      /\ s \in Sides /\ o \in Sides /\ o # s /\ Other(o) = s /\ \A q \in Sides : q = s \/ q = o
      /\ w \in InTree(t) /\ w \in RbNodes /\ Up(t, w) = r /\ w # r /\ Up(t, r) # w
      /\ x = Kid(t, r, s) /\ x # r /\ x # w /\ (x # NIL => x \in RbNodes /\ Up(t, x) = r)
      /\ {"RED", "BLACK"} \subseteq Colors
  BY SpotNodes
<1>2. /\ Apart(t, x, x) /\ f # NIL /\ Hue(t, f) = "RED" /\ (x # NIL => Hue(t, x) # "RED")
      /\ \E H : Even(t, H, x, LackingAt(x, r), s)
  BY RedIs DEF DeleteSpot
<1>3. mid = Kid(t, w, s) /\ u = Rotate(v, r, s)
  OBVIOUS
<1>4. f \in RbNodes /\ Up(t, f) = w /\ f # w /\ f # r /\ Hue(t, r) \in Colors
  <2>1. f \in InTree(t) /\ f \in RbNodes /\ Up(t, f) = w /\ f # w
    BY <1>1, <1>2, KidInTree, InTreeIs, LinkedParts
  <2> QED BY <1>1, <2>1, LinkedParts
<1> HIDE DEF mid
<1>5. Painted(t, t)
  BY <1>1, PaintNone
<1>6. Painted(v1, t) /\ \A m \in RbNodes : Hue(v1, m) = IF m = w THEN Hue(t, r) ELSE Hue(t, m)
  BY <1>1, <1>4, <1>5, PaintOne
<1> HIDE DEF v1
<1>7. Painted(v2, t) /\ \A m \in RbNodes : Hue(v2, m) = IF m = r THEN "BLACK" ELSE Hue(v1, m)
  BY <1>1, <1>6, PaintOne
<1> HIDE DEF v2
<1>8. Painted(v, t) /\ \A m \in RbNodes : Hue(v, m) = IF m = f THEN "BLACK" ELSE Hue(v2, m)
  BY <1>1, <1>4, <1>7, PaintOne
<1> HIDE DEF v
<1>9. /\ Rotatable(t, r, s, w, mid) /\ Rotated(u, t, r, s, w, mid) /\ SameHues(u, v)
      /\ Linked(u) /\ InTree(u) = InTree(t)
  BY <1>1, <1>3, <1>8, PaintedRotated
<1>10. /\ \A m \in RbNodes : Hue(u, m) = IF m = r \/ m = f THEN "BLACK"
                                        ELSE IF m = w THEN Hue(t, r) ELSE Hue(t, m)
       /\ \A m \in RbNodes : Up(u, m) = IF m = r THEN w ELSE IF m = w THEN Up(t, r)
                                        ELSE IF m = mid THEN r ELSE Up(t, m)
  <2>1. \A m \in RbNodes : Hue(u, m) = IF m = r \/ m = f THEN "BLACK"
                                        ELSE IF m = w THEN Hue(t, r) ELSE Hue(t, m)
    BY <1>4, <1>6, <1>7, <1>8, <1>9 DEF SameHues
  <2> QED BY <1>9, <2>1 DEF Rotated
<1>11. Top(u) \in InTree(u) /\ Top(u) \in RbNodes /\ Up(u, Top(u)) = NIL /\ u \in Trees
  BY <1>1, <1>9, TopIs, InTreeIs DEF Linked
<1>12. \E G : Even(u, G, Top(u), LackingAt(Top(u), p), SideIs(b))
  <2>1. PICK H : Even(t, H, x, LackingAt(x, r), s)
    BY <1>2
  <2>2. /\ Hue(u, r) = "BLACK" /\ Hue(u, w) = Hue(t, r) /\ Hue(u, f) = "BLACK"
        /\ \A m \in RbNodes : m # r /\ m # w /\ m # f => Hue(u, m) = Hue(t, m)
    BY <1>1, <1>4, <1>10
  <2>3. f = Kid(t, w, Other(s))
    OBVIOUS
  <2>4. PICK G : Even(u, G, NIL, NIL, s)
    BY <1>1, <1>2, <1>9, <2>1, <2>2, <2>3, EvenFar
  <2>5. Painted(u, u)
    BY <1>11, PaintNone
  <2>6. \A m \in RbNodes : m # Top(u) => (m = Top(u) <=> m = NIL)
    BY <1>1
  <2>7. PICK F : Even(u, F, Top(u), NIL, s)
    BY <1>9, <1>11, <2>4, <2>5, <2>6, EvenRoot
  <2>8. Even(u, F, Top(u), NIL, SideIs(b))
    BY <2>7, AnySide
  <2>9. LackingAt(Top(u), p) = NIL
    BY <1>1, <1>11 DEF LackingAt
  <2> QED BY <2>8, <2>9
<1>13. Apart(u, Top(u), Top(u))
  <2> SUFFICES ASSUME NEW m \in InTree(u), Hue(u, m) = "RED", m # Top(u)
               PROVE  Up(u, m) # NIL /\ Hue(u, Up(u, m)) # "RED"
    BY DEF Apart
  <2>1. m \in InTree(t) /\ m \in RbNodes /\ m # r /\ m # f
    BY <1>1, <1>4, <1>9, <1>10, InTreeIs
  <2>2. CASE m = w
    <3>1. Hue(t, r) = "RED"
      BY <1>4, <1>10, <2>1, <2>2
    <3>2. Up(t, r) \in RbNodes /\ Up(t, r) # r /\ (Hue(t, Up(t, r)) = "RED" => Up(t, r) = x)
      BY <1>1, <1>2, <3>1, ApartIs
    <3>3. Hue(t, Up(t, r)) # "RED" /\ Up(t, r) # NIL
      BY <1>1, <1>2, <3>2
    <3> QED BY <1>1, <1>10, <2>1, <2>2, <3>2, <3>3
  <2>3. CASE m # w
    <3>1. Hue(t, m) = "RED" /\ m # x
      BY <1>1, <1>2, <1>10, <2>1, <2>3
    <3>2. Up(t, m) \in RbNodes /\ Up(t, m) # m /\ (Hue(t, Up(t, m)) = "RED" => Up(t, m) = x)
      BY <1>1, <1>2, <2>1, <3>1, ApartIs
    <3>3. Hue(t, Up(t, m)) # "RED" /\ Up(t, m) # NIL
      BY <1>1, <1>2, <3>2
    <3>4. CASE m = mid
      BY <1>1, <1>10, <2>1, <2>3, <3>4
    <3>5. CASE m # mid
      <4>1. Up(t, m) # w
        <5>1. \E q \in Sides : Kid(t, Up(t, m), q) = m
          BY <1>1, <2>1, <3>2, LinkedParts
        <5> QED BY <1>1, <1>3, <2>1, <3>5, <5>1
      <4> QED BY <1>1, <1>10, <2>1, <2>3, <3>2, <3>3, <3>5, <4>1
    <3> QED BY <3>4, <3>5
  <2> QED BY <2>2, <2>3
<1>14. p \in InTree(u) /\ p # NIL /\ Top(u) # NIL
  BY <1>1, <1>9, <1>11, InTreeIs
<1> QED BY <1>9, <1>11, <1>12, <1>13, <1>14 DEF Inv

LEMMA DeleteRotateInv ==
    ASSUME RbAssumption, RbInv, DeleteRotate
    PROVE  RbInv'
<1> DEFINE t0 == AfterCase1
           x == fixnode
           r == DeleteParent
           s == DeleteSide
           o == Other(s)
           w0 == Sibling
           k == Kid(t0, w0, s)
           near == ~IsRed(t0, Kid(t0, w0, o))
           t3 == Rotate(SetColor(SetColor(t0, w0, "RED"), k, "BLACK"), w0, o)
           t == IF near THEN t3 ELSE t0
           w == IF near THEN Up(t, w0) ELSE w0
           v2 == SetColor(SetColor(t, w, Hue(t, r)), r, "BLACK")
           u == Rotate(SetColor(v2, Kid(v2, w, o), "BLACK"), r, s)
<1>1. /\ DeleteLoop /\ rbt' = u /\ fixnode' = Top(u) /\ pc' = "delete" /\ pnode' = pnode
      /\ is_right' = is_right
      /\ \E q \in Sides : IsRed(t0, Kid(t0, w0, q))
  BY DEF DeleteRotate, DeleteLoop, NephewsBlack, Kid, Up, Hue, Top
<1>2. /\ DeleteSpot(t0, x, r, s) /\ InTree(t0) = InTree(rbt) /\ w0 = Kid(t0, r, o)
      /\ Hue(t0, w0) = "BLACK" /\ pnode \in InTree(rbt) /\ pnode # NIL /\ is_right \in BOOLEAN
  BY <1>1, AfterCase1Is
<1> HIDE DEF t0, x, r, s, w0
<1>3. /\ r \in RbNodes /\ s \in Sides /\ o \in Sides /\ \A q \in Sides : q = s \/ q = o
  BY <1>2, SpotNodes
<1>4. near => IsRed(t0, k)
  BY <1>1, <1>3
<1>5. /\ DeleteSpot(t, x, r, s) /\ InTree(t) = InTree(rbt) /\ w = Kid(t, r, o)
      /\ Hue(t, w) = "BLACK" /\ IsRed(t, Kid(t, w, o))
  <2>1. CASE near
    <3>1. /\ DeleteSpot(t3, x, r, s) /\ InTree(t3) = InTree(t0) /\ Up(t3, w0) = k
          /\ Kid(t3, r, o) = k /\ Hue(t3, k) = "BLACK" /\ Kid(t3, k, o) = w0 /\ Hue(t3, w0) = "RED"
      BY <1>2, <1>4, <2>1, Case3
    <3>2. w0 # NIL
      BY <1>2, SpotNodes
    <3>3. t = t3 /\ w = k
      BY <2>1, <3>1
    <3> HIDE DEF t, w, t3, k
    <3> QED BY <1>2, <3>1, <3>2, <3>3, RedIs
  <2>2. CASE ~near
    BY <1>2, <2>2
  <2> QED BY <2>1, <2>2
<1> HIDE DEF t, w, t3, k
<1>6. Kid(v2, w, o) = Kid(t, w, o)
  <2>1. t \in Trees /\ w \in RbNodes /\ Hue(t, r) \in Colors /\ "BLACK" \in Colors
    BY <1>3, <1>5, SpotNodes, LinkedParts
  <2>2. Painted(t, t)
    BY <2>1, PaintNone
  <2>3. Painted(SetColor(t, w, Hue(t, r)), t)
    BY <2>1, <2>2, PaintOne
  <2>4. Painted(v2, t)
    BY <1>3, <2>1, <2>3, PaintOne
  <2> QED BY <1>3, <2>1, <2>4 DEF Painted, SameKids
<1>7. u = Rotate(SetColor(v2, Kid(t, w, o), "BLACK"), r, s)
  BY <1>6
<1>8. Inv(u, "delete", Top(u), pnode, is_right)
  BY <1>2, <1>5, <1>7, Case4
<1> QED BY <1>1, <1>8 DEF RbInv

LEMMA DeleteDoneInv ==
    ASSUME RbAssumption, RbInv, DeleteDone
    PROVE  RbInv'
<1> DEFINE t == rbt
           x == fixnode
           u == SetColor(t, x, "BLACK")
<1>1. /\ pc = "delete" /\ ~DeleteLoop /\ pc' = "idle" /\ fixnode' = NIL /\ pnode' = NIL
      /\ is_right' = FALSE
  BY DEF DeleteDone
<1>2. /\ Linked(t) /\ x \in InTree(t) \cup {NIL} /\ Apart(t, x, x)
      /\ pnode = NIL => IF x = NIL THEN Top(t) = NIL ELSE Up(t, x) = NIL
      /\ \E H : Even(t, H, x, LackingAt(x, pnode), SideIs(is_right))
  BY <1>1 DEF RbInv, Inv
<1>3. CASE ~(pnode = NIL \/ IsRoot(t, x) \/ IsRed(t, x))
  <2>1. DeleteSpot(t, x, DeleteParent, DeleteSide)
    BY <1>1, <1>3, DeleteSpotIs
  <2>2. Kid(t, DeleteParent, Other(DeleteSide)) \in RbNodes /\ NIL \notin RbNodes
    BY <2>1, SpotNodes
  <2> QED BY <1>1, <1>3, <2>2 DEF DeleteLoop, Kid
<1>4. CASE (pnode = NIL \/ IsRoot(t, x) \/ IsRed(t, x)) /\ x = NIL
  <2>1. rbt' = t /\ pnode = NIL
    BY <1>4, RedIs DEF DeleteDone, IsRoot
  <2>2. PICK H : Even(t, H, NIL, NIL, SideIs(is_right))
    BY <1>2, <1>4, <2>1 DEF LackingAt
  <2>3. Even(t, H, NIL, NIL, SideIs(FALSE))
    BY <2>2, AnySide
  <2>4. Inv(t, "idle", NIL, NIL, FALSE)
    BY <1>2, <1>4, <2>3 DEF Inv
  <2> QED BY <1>1, <2>1, <2>4 DEF RbInv
<1>5. CASE (pnode = NIL \/ IsRoot(t, x) \/ IsRed(t, x)) /\ x # NIL
  <2>1. rbt' = u
    BY <1>5 DEF DeleteDone
  <2>2. Up(t, x) = NIL \/ Hue(t, x) = "RED"
    BY <1>2, <1>5, RedIs DEF IsRoot, Up
  <2> HIDE DEF t, x
  <2>3. x \in InTree(t) /\ x \in RbNodes /\ t \in Trees /\ "BLACK" \in Colors /\ NIL \notin RbNodes
    BY <1>2, <1>5, InTreeIs DEF Linked, Colors, RbAssumption
  <2>4. Painted(t, t)
    BY <2>3, PaintNone
  <2>5. Painted(u, t) /\ \A m \in RbNodes : Hue(u, m) = IF m = x THEN "BLACK" ELSE Hue(t, m)
    BY <2>3, <2>4, PaintOne
  <2> HIDE DEF u
  <2>6. Linked(u) /\ InTree(u) = InTree(t) /\ \A m \in RbNodes : Up(u, m) = Up(t, m)
    BY <1>2, <2>5, PaintedLinked DEF Painted, SameUps
  <2>7. PICK H : Even(t, H, x, NIL, SideIs(is_right))
    BY <1>2, <1>5 DEF LackingAt
  <2>8. \E G : Even(u, G, NIL, NIL, SideIs(is_right))
    <3>1. Hue(u, x) = "BLACK" /\ \A m \in RbNodes : m # x => Hue(u, m) = Hue(t, m)
      BY <2>3, <2>5
    <3>2. CASE Up(t, x) = NIL
      <4>1. \A m \in RbNodes : m # x => (m = NIL <=> m = x)
        BY <2>3
      <4> QED BY <1>2, <2>3, <2>5, <2>7, <3>1, <3>2, <4>1, EvenRoot
    <3>3. CASE Hue(t, x) = "RED"
      BY <2>3, <2>5, <2>7, <3>1, <3>3, EvenFixed
    <3> QED BY <2>2, <3>2, <3>3
  <2>9. \E G : Even(u, G, NIL, NIL, SideIs(FALSE))
    BY <2>8, AnySide
  <2>10. Apart(u, NIL, NIL)
    <3> SUFFICES ASSUME NEW m \in InTree(u), Hue(u, m) = "RED"
                 PROVE  Up(u, m) # NIL /\ Hue(u, Up(u, m)) # "RED"
      BY DEF Apart
    <3>1. m \in InTree(t) /\ m \in RbNodes /\ m # x /\ Up(u, m) = Up(t, m) /\ Hue(t, m) = "RED"
      BY <2>3, <2>5, <2>6, InTreeIs
    <3>2. Up(t, m) \in RbNodes /\ Up(t, m) # m /\ (Hue(t, Up(t, m)) = "RED" => Up(t, m) = x)
      BY <1>2, <3>1, ApartIs
    <3> QED BY <2>3, <2>5, <3>1, <3>2
  <2>11. Inv(u, "idle", NIL, NIL, FALSE)
    BY <2>6, <2>9, <2>10 DEF Inv
  <2> QED BY <1>1, <2>1, <2>11 DEF RbInv
<1> QED BY <1>3, <1>4, <1>5

-----------------------------------------------------------------------------
(* The invariant holds, and is what RedBlack says and more.                *)

(* Every step of RbSpec keeps the invariant.                               *)
LEMMA RbInvariance == RbAssumption => (RbSpec => []RbInv)
<1> SUFFICES ASSUME RbAssumption PROVE RbSpec => []RbInv
  OBVIOUS
<1>1. RbInit => RbInv
  BY EmptyInv DEF RbInit, RbInv
<1>2. RbInv /\ [RbNext]_rbVars => RbInv'
  <2> SUFFICES ASSUME RbInv, [RbNext]_rbVars PROVE RbInv'
    OBVIOUS
  <2>1. ASSUME NEW n \in RbNodes, RbInsert(n) PROVE RbInv'
    BY <2>1, InsertInv
  <2>2. ASSUME NEW n \in RbNodes, RbErase(n) PROVE RbInv'
    BY <2>2, EraseInv
  <2>3. CASE RbDestroy
    <3>1. is_right \in BOOLEAN /\ fixnode = NIL /\ pnode = NIL /\ pc = "idle"
      BY <2>3 DEF RbInv, Inv, RbDestroy
    <3>2. Inv(rbt', "idle", NIL, NIL, is_right)
      BY <2>3, <3>1, EmptyInv DEF RbDestroy
    <3> QED BY <2>3, <3>1, <3>2 DEF RbInv, RbDestroy
  <2>4. CASE InsertRecolor
    BY <2>4, RecolorInv
  <2>5. CASE InsertRotate
    BY <2>5, RotateInv
  <2>6. CASE InsertDone
    BY <2>6, DoneInv
  <2>7. CASE DeleteRecolor
    BY <2>7, DeleteRecolorInv
  <2>8. CASE DeleteRotate
    BY <2>8, DeleteRotateInv
  <2>9. CASE DeleteDone
    BY <2>9, DeleteDoneInv
  <2>10. CASE UNCHANGED rbVars
    BY <2>10 DEF RbInv, rbVars
  <2> QED BY <2>1, <2>2, <2>3, <2>4, <2>5, <2>6, <2>7, <2>8, <2>9, <2>10 DEF RbNext
<1> QED BY <1>1, <1>2, PTL DEF RbSpec

LEMMA LinkedMatches ==
    ASSUME RbAssumption, NEW t, Linked(t)
    PROVE  LinksOf(t)
<1>1. t.root # NIL => t.parent[t.root] = NIL
  BY LinkedParts DEF Top, Up
<1>2. ASSUME NEW n \in RbNodes, NEW s \in Sides, t.child[n][s] # NIL
      PROVE  t.parent[t.child[n][s]] = n
  <2>1. Kid(t, n, s) # NIL
    BY <1>2 DEF Kid
  <2>2. Up(t, Kid(t, n, s)) = n
    BY <2>1, LinkedParts
  <2> QED BY <2>2 DEF Kid, Up
<1>3. ASSUME NEW n \in InTree(t)
      PROVE  IF Up(t, n) = NIL THEN Top(t) = n
             ELSE /\ Up(t, n) \in InTree(t)
                  /\ (Kid(t, Up(t, n), "left") = n) # (Kid(t, Up(t, n), "right") = n)
  <2>1. n \in RbNodes /\ n # NIL
    BY InTreeIs DEF RbAssumption
  <2>2. CASE Up(t, n) = NIL
    BY <2>1, <2>2, LinkedParts
  <2>3. CASE Up(t, n) # NIL
    <3>1. Up(t, n) \in InTree(t) /\ Up(t, n) \in RbNodes
      BY <2>3, NoTwoCycle, InTreeIs
    <3>2. PICK q \in Sides : Kid(t, Up(t, n), q) = n /\ Kid(t, Up(t, n), Other(q)) # n
      BY <2>1, <2>3, LinkedHeld, SideOfHeld, SidesTwo
    <3>3. (Kid(t, Up(t, n), "left") = n) <=> ~(Kid(t, Up(t, n), "right") = n)
      BY <3>2 DEF Sides, Other
    <3> QED BY <2>3, <3>1, <3>3
  <2> QED BY <2>2, <2>3
<1>4. \A n \in InTree(t) :
         IF t.parent[n] = NIL THEN t.root = n
         ELSE /\ t.parent[n] \in InTree(t)
              /\ (t.child[t.parent[n]]["left"] = n) # (t.child[t.parent[n]]["right"] = n)
  BY <1>3 DEF Up, Top, Kid
<1> QED BY <1>1, <1>2, <1>4 DEF LinksOf

(* The heights are what EvenBlacks computes.                               *)
LEMMA EvenHeights ==
    ASSUME RbAssumption, RbInv
    PROVE  EvenBlacks
<1> DEFINE t == rbt
           z == IF pc = "delete" THEN fixnode ELSE NIL
           p == IF pc = "delete" THEN LackingAt(fixnode, pnode) ELSE NIL
           q == SideIs(is_right)
           Counts(n, f) ==
              {k + Lacking(n) + (IF IsRed(rbt, n) THEN 0 ELSE 1) :
                 k \in UNION {LET c == rbt.child[n][s]
                              IN IF c = NIL THEN {LackingLeaf(n, s)} ELSE f[c] : s \in Sides}}
           F(f) == f = [n \in RbNodes |-> Counts(n, f)]
           blacks == CHOOSE f : F(f)
<1>1. PICK H : Even(t, H, z, p, q)
  BY DEF RbInv, Inv
<1>e. /\ \A m \in RbNodes : H[m] \in Nat
      /\ \A m \in RbNodes, e \in Sides : Kid(t, m, e) = NIL =>
            H[m] = ExtraLeaf(m, e, p, q) + Extra(m, z) + Black(Hue(t, m))
      /\ \A m \in RbNodes, e \in Sides : Kid(t, m, e) # NIL =>
            H[m] = H[Kid(t, m, e)] + Extra(m, z) + Black(Hue(t, m))
  BY <1>1, EvenFacts
<1>2. Linked(t) /\ NIL \notin RbNodes /\ is_right \in BOOLEAN
  BY DEF RbInv, Inv, RbAssumption
<1>3. \A n \in RbNodes : Lacking(n) = Extra(n, z)
  BY <1>2 DEF Lacking, Extra
<1>4. \A n \in RbNodes : (IF IsRed(rbt, n) THEN 0 ELSE 1) = Black(Hue(t, n))
  BY <1>2, RedIs DEF Black
<1>5. \A n \in RbNodes, s \in Sides : LackingLeaf(n, s) = ExtraLeaf(n, s, p, q)
  BY <1>2 DEF LackingLeaf, ExtraLeaf, LackingAt, SideIs, Sides
<1>6. ASSUME NEW f, NEW n \in RbNodes
      PROVE  Counts(n, f) = {k + Extra(n, z) + Black(Hue(t, n)) :
                               k \in UNION {IF Kid(t, n, s) = NIL THEN {ExtraLeaf(n, s, p, q)}
                                            ELSE f[Kid(t, n, s)] : s \in Sides}}
  <2>1. UNION {LET c == rbt.child[n][s]
               IN IF c = NIL THEN {LackingLeaf(n, s)} ELSE f[c] : s \in Sides}
        = UNION {IF Kid(t, n, s) = NIL THEN {ExtraLeaf(n, s, p, q)}
                 ELSE f[Kid(t, n, s)] : s \in Sides}
    BY <1>5 DEF Kid
  <2> QED BY <1>3, <1>4, <2>1
<1> HIDE DEF Counts, z, p, q, t
(* What one step of the recursion makes of the heights.                    *)
<1>7. ASSUME NEW f, NEW n \in RbNodes,
             \A s \in Sides : Kid(t, n, s) # NIL => f[Kid(t, n, s)] = {H[Kid(t, n, s)]}
      PROVE  Counts(n, f) = {H[n]}
  <2> DEFINE K(s) == IF Kid(t, n, s) = NIL THEN {ExtraLeaf(n, s, p, q)} ELSE f[Kid(t, n, s)]
             h == H[n] - Extra(n, z) - Black(Hue(t, n))
  <2>1. ASSUME NEW s \in Sides
        PROVE  K(s) = {h}
    <3>0. Extra(n, z) \in Nat /\ Black(Hue(t, n)) \in Nat /\ ExtraLeaf(n, s, p, q) \in Nat
      BY Numbers
    <3>1. CASE Kid(t, n, s) = NIL
      <4>1. H[n] = ExtraLeaf(n, s, p, q) + Extra(n, z) + Black(Hue(t, n))
        BY <1>e, <3>1
      <4>2. h = ExtraLeaf(n, s, p, q)
        BY <3>0, <4>1
      <4> QED BY <3>1, <4>2
    <3>2. CASE Kid(t, n, s) # NIL
      <4>1. /\ H[n] = H[Kid(t, n, s)] + Extra(n, z) + Black(Hue(t, n))
            /\ H[Kid(t, n, s)] \in Nat
        BY <1>2, <1>e, <3>2, LinkedParts DEF RbLinks
      <4>2. h = H[Kid(t, n, s)]
        BY <3>0, <4>1
      <4> QED BY <1>7, <3>2, <4>2
    <3> QED BY <3>1, <3>2
  <2> HIDE DEF K
  <2>2. UNION {K(s) : s \in Sides} = {h}
    BY <2>1 DEF Sides
  <2>3. h + Extra(n, z) + Black(Hue(t, n)) = H[n]
    BY <1>e, Numbers
  <2> HIDE DEF h
  <2>4. Counts(n, f) = {k + Extra(n, z) + Black(Hue(t, n)) : k \in UNION {K(s) : s \in Sides}}
    BY <1>6 DEF K
  <2>5. Counts(n, f) = {k + Extra(n, z) + Black(Hue(t, n)) : k \in {h}}
    BY <2>2, <2>4
  <2> QED BY <2>3, <2>5
<1>8. F([n \in RbNodes |-> {H[n]}])
  <2> DEFINE f == [n \in RbNodes |-> {H[n]}]
  <2>1. ASSUME NEW n \in RbNodes
        PROVE  Counts(n, f) = {H[n]}
    <3>1. \A s \in Sides : Kid(t, n, s) # NIL => f[Kid(t, n, s)] = {H[Kid(t, n, s)]}
      BY <1>2, LinkedParts DEF RbLinks
    <3> HIDE DEF f
    <3> QED BY <1>7, <3>1
  <2>2. f = [n \in RbNodes |-> Counts(n, f)]
    BY <2>1
  <2> QED BY <2>2
<1>9. F(blacks)
  BY <1>8
<1>10. \A n \in RbNodes : blacks[n] = Counts(n, blacks)
  BY <1>9
<1> HIDE DEF blacks, F
<1> DEFINE S == {n \in InTree(t) : blacks[n] # {H[n]}}
<1>11. S = {}
  <2> SUFFICES ASSUME S # {} PROVE FALSE
    OBVIOUS
  <2>1. S \in SUBSET InTree(t)
    OBVIOUS
  <2>2. PICK n \in S : \A s \in Sides : Kid(t, n, s) \notin S
    BY <1>2, <2>1, Ends
  <2>3. n \in RbNodes
    BY <2>2, InTreeIs
  <2>4. \A s \in Sides : Kid(t, n, s) # NIL => blacks[Kid(t, n, s)] = {H[Kid(t, n, s)]}
    BY <1>2, <2>2, <2>3, KidInTree
  <2>5. blacks[n] = {H[n]}
    BY <1>7, <1>10, <2>3, <2>4
  <2> QED BY <2>2, <2>5
<1>12. rbt.root # NIL => Cardinality(blacks[rbt.root]) = 1
  <2> SUFFICES ASSUME rbt.root # NIL PROVE Cardinality(blacks[rbt.root]) = 1
    OBVIOUS
  <2>1. Top(t) \in RbNodes /\ Top(t) = rbt.root /\ Up(t, Top(t)) = NIL
    <3>1. Top(t) = rbt.root
      BY DEF Top, t
    <3> QED BY <1>2, <3>1, LinkedParts DEF RbLinks
  <2>2. rbt.root \in InTree(t)
    BY <1>2, <2>1, InTreeIs
  <2>3. blacks[rbt.root] = {H[rbt.root]}
    BY <1>11, <2>2
  <2> QED BY <2>3, FS_Singleton
<1> QED BY <1>12 DEF EvenBlacks, blacks, F, Counts

LEMMA ApartReds ==
    ASSUME RbAssumption, RbInv
    PROVE  RedsApart
<1> SUFFICES ASSUME NEW n \in InTree(rbt), IsRed(rbt, n), ~Fixing(n)
             PROVE  /\ Up(rbt, n) # NIL
                    /\ IsRed(rbt, Up(rbt, n)) => pc = "delete" /\ Fixing(Up(rbt, n))
  BY DEF RedsApart, Up
<1>1. /\ Apart(rbt, fixnode, IF pc = "delete" THEN fixnode ELSE NIL)
      /\ pc = "idle" => fixnode = NIL
  BY DEF RbInv, Inv
<1>2. n # NIL /\ Hue(rbt, n) = "RED" /\ n # fixnode
  BY <1>1, RedIs DEF Fixing
<1>3. /\ Up(rbt, n) # NIL
      /\ Hue(rbt, Up(rbt, n)) = "RED" =>
            Up(rbt, n) = IF pc = "delete" THEN fixnode ELSE NIL
  BY <1>1, <1>2 DEF Apart
<1> QED BY <1>3, RedIs DEF Fixing

(* At every step of every insertion and erasure the tree is a red-black    *)
(* tree but where the fixup works, for any finite number of nodes.         *)
THEOREM RbTreeSound == RbAssumption => (RbSpec => []RedBlack)
<1> SUFFICES ASSUME RbAssumption PROVE RbSpec => []RedBlack
  OBVIOUS
<1>1. RbInv => RedBlack
  <2> SUFFICES ASSUME RbInv PROVE RedBlack
    OBVIOUS
  <2>1. RbTypeOK
    BY DEF RbInv, Inv, Linked, RbTypeOK
  <2>2. LinksMatch
    BY LinkedMatches DEF RbInv, Inv, LinksMatch
  <2> QED BY <2>1, <2>2, ApartReds, EvenHeights DEF RedBlack
<1> QED BY <1>1, RbInvariance, PTL

-----------------------------------------------------------------------------
(* The order of the nodes.                                                 *)

(* The way that a side lies on the line of the nodes.                     *)
Dir(s) == IF s = "left" THEN -1 ELSE 1

(* L has the nodes of t from left to right: n is at c[n], and the subtree  *)
(* of n is from e[n]["left"] to e[n]["right"].                             *)
Spread(t, L, c, e) ==
    /\ L \in Seq(RbNodes)
    /\ \A i \in 1..Len(L) : L[i] \in InTree(t) /\ c[L[i]] = i
    /\ \A n \in InTree(t) :
          /\ c[n] \in 1..Len(L) /\ L[c[n]] = n
          /\ e[n]["left"] \in 1..c[n] /\ e[n]["right"] \in c[n]..Len(L)
    /\ \A n \in InTree(t), s \in Sides :
          IF Kid(t, n, s) = NIL THEN e[n][s] = c[n]
          ELSE e[Kid(t, n, s)][s] = e[n][s] /\ e[Kid(t, n, s)][Other(s)] = c[n] + Dir(s)
    /\ Top(t) # NIL => e[Top(t)]["left"] = 1 /\ e[Top(t)]["right"] = Len(L)

(* L is the order from left to right of the nodes of t.                   *)
Lists(t, L) == \E c, e : Spread(t, L, c, e)

(* The sides by name, and their ways.                                     *)
LEMMA SideNames ==
    /\ "left" \in Sides /\ "right" \in Sides /\ \A s \in Sides : s = "left" \/ s = "right"
    /\ Other("left") = "right" /\ Other("right") = "left"
    /\ Dir("left") = -1 /\ Dir("right") = 1
    /\ \A s \in Sides : Dir(s) \in Int /\ Dir(Other(s)) = 0 - Dir(s)
<1>1. /\ "left" \in Sides /\ "right" \in Sides /\ \A s \in Sides : s = "left" \/ s = "right"
      /\ Other("left") = "right" /\ Other("right") = "left"
  BY DEF Sides, Other
<1>2. Dir("left") = -1 /\ Dir("right") = 1
  BY DEF Dir
<1>3. -1 \in Int /\ 1 \in Int /\ 0 - (-1) = 1 /\ 0 - 1 = -1
  OBVIOUS
<1>4. ASSUME NEW s \in Sides PROVE Dir(s) \in Int /\ Dir(Other(s)) = 0 - Dir(s)
  <2>1. CASE s = "left"
    BY <1>1, <1>2, <1>3, <2>1
  <2>2. CASE s = "right"
    BY <1>1, <1>2, <1>3, <2>2
  <2> QED BY <1>1, <2>1, <2>2
<1> QED BY <1>1, <1>2, <1>4

(* What Spread says, one fact at a time.                                  *)
LEMMA SpreadParts ==
    ASSUME NEW t, NEW L, NEW c, NEW e, Spread(t, L, c, e)
    PROVE  /\ L \in Seq(RbNodes) /\ Len(L) \in Nat
           /\ \A n \in InTree(t) : /\ c[n] \in 1..Len(L) /\ L[c[n]] = n
                                   /\ e[n]["left"] \in 1..c[n] /\ e[n]["right"] \in c[n]..Len(L)
           /\ \A n \in InTree(t), s \in Sides : Kid(t, n, s) = NIL => e[n][s] = c[n]
           /\ \A n \in InTree(t), s \in Sides : Kid(t, n, s) # NIL =>
                 e[Kid(t, n, s)][s] = e[n][s] /\ e[Kid(t, n, s)][Other(s)] = c[n] + Dir(s)
<1>1. L \in Seq(RbNodes) /\ Len(L) \in Nat
  BY DEF Spread
<1>2. \A n \in InTree(t) : /\ c[n] \in 1..Len(L) /\ L[c[n]] = n
                            /\ e[n]["left"] \in 1..c[n] /\ e[n]["right"] \in c[n]..Len(L)
  BY DEF Spread
<1>3. \A n \in InTree(t), s \in Sides :
          IF Kid(t, n, s) = NIL THEN e[n][s] = c[n]
          ELSE e[Kid(t, n, s)][s] = e[n][s] /\ e[Kid(t, n, s)][Other(s)] = c[n] + Dir(s)
  BY DEF Spread
<1> QED BY <1>1, <1>2, <1>3

(* A colour does not move a node.                                         *)
LEMMA PaintedLists ==
    ASSUME RbAssumption, NEW t, Linked(t), NEW u, Painted(u, t), NEW L, Lists(t, L)
    PROVE  Lists(u, L)
<1>1. PICK c, e : Spread(t, L, c, e)
  BY DEF Lists
<1>2. InTree(u) = InTree(t)
  BY PaintedLinked
<1>3. Top(u) = Top(t) /\ \A m \in InTree(t), q \in Sides : Kid(u, m, q) = Kid(t, m, q)
  BY InTreeIs DEF Painted, SameKids
<1>4. Spread(u, L, c, e)
  BY <1>1, <1>2, <1>3 DEF Spread
<1> QED BY <1>4 DEF Lists

(* rb_rotate keeps the order: only the spans of the two nodes change.     *)
LEMMA RotatedLists ==
    ASSUME RbAssumption, NEW t, Linked(t), NEW r, NEW s, NEW new, NEW mid,
           Rotatable(t, r, s, new, mid), NEW u, Rotated(u, t, r, s, new, mid),
           NEW L, Lists(t, L)
    PROVE  Lists(u, L)
<1>1. PICK c, e : Spread(t, L, c, e)
  BY DEF Lists
<1> DEFINE o == Other(s)
           e2 == [m \in RbNodes |-> [q \in Sides |->
                    IF m = new THEN e[r][q]
                    ELSE IF m = r /\ q = o THEN c[new] + Dir(s) ELSE e[m][q]]]
<1>2. /\ r \in InTree(t) /\ r \in RbNodes /\ new \in InTree(t) /\ new \in RbNodes /\ r # new
      /\ s \in Sides /\ o \in Sides /\ o # s /\ Other(o) = s /\ o = Other(s)
      /\ \A q \in Sides : q = s \/ q = o
      /\ Kid(t, r, o) = new /\ Kid(t, new, s) = mid /\ mid # r /\ mid # new /\ new # NIL
      /\ Up(t, new) = r /\ Up(t, r) # r /\ Up(t, r) # new
      /\ mid # NIL => mid \in InTree(t) /\ Up(t, mid) = new
      /\ Dir(s) \in Int /\ Dir(o) = 0 - Dir(s)
  BY InTreeIs, SidesTwo, SideNames DEF Rotatable, RbAssumption
<1>3. InTree(u) = InTree(t)
  BY RotatedLinked
<1>4. /\ Top(u) = IF Up(t, r) = NIL THEN new ELSE Top(t)
      /\ \A m \in RbNodes, q \in Sides :
          Kid(u, m, q) = IF m = r /\ q = o THEN mid
                          ELSE IF m = new /\ q = s THEN r
                          ELSE IF m = Up(t, r) /\ Kid(t, m, q) = r THEN new
                          ELSE Kid(t, m, q)
  BY DEF Rotated
<1>5. /\ \A q \in Sides : e2[new][q] = e[r][q]
      /\ e2[r][o] = c[new] + Dir(s) /\ e2[r][s] = e[r][s]
      /\ \A m \in RbNodes, q \in Sides : m # new /\ (m # r \/ q # o) => e2[m][q] = e[m][q]
  BY <1>2
<1> HIDE DEF e2, o
<1>6. /\ L \in Seq(RbNodes) /\ Len(L) \in Nat
      /\ \A n \in InTree(t) : /\ c[n] \in 1..Len(L) /\ L[c[n]] = n
                              /\ e[n]["left"] \in 1..c[n] /\ e[n]["right"] \in c[n]..Len(L)
      /\ \A n \in InTree(t), q \in Sides : Kid(t, n, q) = NIL => e[n][q] = c[n]
      /\ \A n \in InTree(t), q \in Sides : Kid(t, n, q) # NIL =>
            e[Kid(t, n, q)][q] = e[n][q] /\ e[Kid(t, n, q)][Other(q)] = c[n] + Dir(q)
  BY <1>1, SpreadParts
<1>7. /\ e[new][o] = e[r][o] /\ e[new][s] = c[r] + Dir(o)
      /\ mid = NIL => e[new][s] = c[new]
      /\ mid # NIL => e[mid][s] = e[new][s] /\ e[mid][o] = c[new] + Dir(s)
  BY <1>2, <1>6
<1>8. ASSUME NEW m \in InTree(t)
      PROVE  e2[m]["left"] \in 1..c[m] /\ e2[m]["right"] \in c[m]..Len(L)
  <2>1. m \in RbNodes
    BY InTreeIs
  <2>2. CASE m # new /\ m # r
    BY <1>5, <1>6, <2>1, <2>2, SideNames
  <2>3. CASE s = "left"
    <3>1. o = "right" /\ Dir(s) = -1 /\ Dir(o) = 1
      BY <2>3, SideNames DEF o
    <3>2. /\ e2[new]["left"] = e[r]["left"] /\ e2[new]["right"] = e[new]["right"]
          /\ e2[r]["left"] = e[r]["left"] /\ e2[r]["right"] = c[new] - 1
          /\ e[new]["left"] = c[r] + 1
      BY <1>2, <1>5, <1>6, <1>7, <2>3, <3>1
    <3>3. c[r] + 1 <= c[new] /\ c[r] \in 1..Len(L) /\ c[new] \in 1..Len(L) /\ e[r]["left"] \in 1..c[r]
          /\ e[new]["right"] \in c[new]..Len(L)
      BY <1>2, <1>6, <3>2
    <3> QED BY <1>6, <2>2, <3>2, <3>3, SMTT(30)
  <2>4. CASE s = "right"
    <3>1. o = "left" /\ Dir(s) = 1 /\ Dir(o) = -1
      BY <2>4, SideNames DEF o
    <3>2. /\ e2[new]["right"] = e[r]["right"] /\ e2[new]["left"] = e[new]["left"]
          /\ e2[r]["right"] = e[r]["right"] /\ e2[r]["left"] = c[new] + 1
          /\ e[new]["right"] = c[r] - 1
      BY <1>2, <1>5, <1>6, <1>7, <2>4, <3>1
    <3>3. c[new] <= c[r] - 1 /\ c[r] \in 1..Len(L) /\ c[new] \in 1..Len(L)
          /\ e[r]["right"] \in c[r]..Len(L) /\ e[new]["left"] \in 1..c[new]
      BY <1>2, <1>6, <3>2
    <3> QED BY <1>6, <2>2, <3>2, <3>3
  <2> QED BY <1>2, <2>3, <2>4, SideNames
<1>9. ASSUME NEW m \in InTree(t), NEW q \in Sides
      PROVE  IF Kid(u, m, q) = NIL THEN e2[m][q] = c[m]
             ELSE e2[Kid(u, m, q)][q] = e2[m][q] /\ e2[Kid(u, m, q)][Other(q)] = c[m] + Dir(q)
  <2>1. m \in RbNodes /\ Kid(t, m, q) \in RbLinks /\ Other(q) \in Sides /\ Other(q) # q
        /\ (mid # NIL => mid \in RbNodes) /\ NIL \notin RbNodes
    BY InTreeIs, LinkedParts, SidesTwo, <1>2
  <2>2. CASE m = r /\ q = o
    <3>1. Kid(u, m, q) = mid
      BY <1>4, <2>1, <2>2
    <3>2. CASE mid = NIL
      BY <1>2, <1>5, <1>6, <1>7, <2>2, <3>1, <3>2
    <3>3. CASE mid # NIL
      <4>1. e2[mid][o] = e[mid][o] /\ e2[mid][s] = e[mid][s]
        BY <1>2, <1>5, <2>1, <3>3
      <4> QED BY <1>2, <1>5, <1>6, <1>7, <2>2, <3>1, <3>3, <4>1
    <3> QED BY <3>2, <3>3
  <2>3. CASE m = new /\ q = s
    <3>1. Kid(u, m, q) = r /\ r # NIL
      BY <1>2, <1>4, <2>1, <2>3
    <3> QED BY <1>2, <1>5, <2>1, <2>3, <3>1 DEF o
  <2>4. CASE m = new /\ q = o
    <3>1. Kid(u, m, q) = Kid(t, m, q)
      BY <1>2, <1>4, <2>1, <2>4
    <3>2. CASE Kid(t, m, q) = NIL
      BY <1>2, <1>5, <1>6, <1>7, <2>4, <3>1, <3>2
    <3>3. CASE Kid(t, m, q) # NIL
      <4>1. Kid(t, m, q) \in RbNodes /\ Up(t, Kid(t, m, q)) = new
        BY <2>1, <2>4, <3>3, LinkedParts DEF RbLinks
      <4>2. Kid(t, m, q) # r /\ Kid(t, m, q) # new
        BY <1>2, <4>1
      <4>3. \A p \in Sides : e2[Kid(t, m, q)][p] = e[Kid(t, m, q)][p]
        BY <1>5, <4>1, <4>2
      <4> QED BY <1>5, <1>6, <1>7, <2>1, <2>4, <3>1, <3>3, <4>3
    <3> QED BY <3>2, <3>3
  <2>5. CASE m = Up(t, r) /\ Kid(t, m, q) = r
    <3>1. Kid(u, m, q) = new /\ m # r /\ m # new
      BY <1>2, <1>4, <2>1, <2>5
    <3>2. e[r][q] = e[m][q] /\ e[r][Other(q)] = c[m] + Dir(q)
      BY <1>2, <1>6, <2>1, <2>5
    <3> QED BY <1>2, <1>5, <2>1, <3>1, <3>2
  <2>6. CASE m # new /\ ~(m = r /\ q = o) /\ ~(m = Up(t, r) /\ Kid(t, m, q) = r)
    <3>1. Kid(u, m, q) = Kid(t, m, q) /\ e2[m][q] = e[m][q]
      BY <1>4, <1>5, <2>1, <2>6
    <3>2. CASE Kid(t, m, q) # NIL
      <4>1. Kid(t, m, q) \in RbNodes /\ Up(t, Kid(t, m, q)) = m
        BY <2>1, <3>2, LinkedParts DEF RbLinks
      <4>2. Kid(t, m, q) # r
        BY <2>6, <4>1
      <4>3. Kid(t, m, q) # new
        BY <1>2, <2>1, <2>6, <4>1, LinkedParts
      <4>4. \A p \in Sides : e2[Kid(t, m, q)][p] = e[Kid(t, m, q)][p]
        BY <1>5, <4>1, <4>2, <4>3
      <4> QED BY <1>6, <2>1, <3>1, <3>2, <4>4
    <3> QED BY <1>6, <3>1, <3>2
  <2> QED BY <1>2, <2>2, <2>3, <2>4, <2>5, <2>6
<1>10. Top(u) # NIL => e2[Top(u)]["left"] = 1 /\ e2[Top(u)]["right"] = Len(L)
  <2>1. Top(t) \in InTree(t) /\ Up(t, Top(t)) = NIL /\ (r # Top(t) => Up(t, r) # NIL)
    BY <1>2, TopIs
  <2>2. Top(t) # new /\ NIL \notin RbNodes /\ Top(t) \in RbNodes /\ Top(t) # NIL
    BY <1>2, <2>1, InTreeIs DEF RbAssumption
  <2>3. e[Top(t)]["left"] = 1 /\ e[Top(t)]["right"] = Len(L)
    BY <1>1, <2>2 DEF Spread
  <2>4. CASE Up(t, r) = NIL
    BY <1>4, <1>5, <2>1, <2>3, <2>4, SideNames
  <2>5. CASE Up(t, r) # NIL
    <3>1. Top(t) # r
      BY <2>1, <2>5
    <3> QED BY <1>4, <1>5, <2>2, <2>3, <2>5, <3>1, SideNames
  <2> QED BY <2>4, <2>5
<1>11. Spread(u, L, c, e2)
  BY <1>1, <1>3, <1>8, <1>9, <1>10 DEF Spread
<1> QED BY <1>11 DEF Lists

-----------------------------------------------------------------------------
(* InsertAt of SequencesExt, element by element.                          *)
LEMMA Placed ==
    ASSUME NEW S, NEW L \in Seq(S), NEW n \in S, NEW k \in 1..Len(L) + 1, NEW M,
           M = OL!InsertAt(L, k, n)
    PROVE  /\ M \in Seq(S) /\ Len(M) = Len(L) + 1
           /\ \A i \in 1..Len(M) :
                 M[i] = IF i < k THEN L[i] ELSE IF i = k THEN n ELSE L[i - 1]
<1> DEFINE A == SubSeq(L, 1, k - 1)
           B == SubSeq(L, k, Len(L))
<1>1. Len(L) \in Nat /\ k \in Int /\ k - 1 \in Int /\ M = (A \o <<n>>) \o B
  BY DEF OL!InsertAt
<1>2. A \in Seq(S) /\ Len(A) = k - 1 /\ \A i \in 1..k - 1 : A[i] = L[i]
  OBVIOUS
<1>3. B \in Seq(S) /\ Len(B) = Len(L) + 1 - k /\ \A i \in 1..Len(L) + 1 - k : B[i] = L[k + i - 1]
  OBVIOUS
<1> HIDE DEF A, B
<1>4. /\ A \o <<n>> \in Seq(S) /\ Len(A \o <<n>>) = k
      /\ \A i \in 1..k : (A \o <<n>>)[i] = IF i < k THEN L[i] ELSE n
  BY <1>2, SMTT(30)
<1> DEFINE C == A \o <<n>>
<1> HIDE DEF C
<1>5. M \in Seq(S) /\ Len(M) = Len(L) + 1
  <2>1. M = C \o B /\ C \in Seq(S) /\ Len(C) = k /\ B \in Seq(S) /\ Len(B) = Len(L) + 1 - k
    BY <1>1, <1>3, <1>4 DEF C
  <2>2. M \in Seq(S) /\ Len(M) = Len(C) + Len(B)
    BY <2>1
  <2> QED BY <1>1, <2>1, <2>2
<1>6. ASSUME NEW i \in 1..Len(M)
      PROVE  M[i] = IF i < k THEN L[i] ELSE IF i = k THEN n ELSE L[i - 1]
  <2>1. CASE i <= k
    BY <1>1, <1>3, <1>4, <1>5, <2>1 DEF C
  <2>2. CASE i > k
    <3>1. i - k \in 1..Len(B) /\ k + (i - k) - 1 = i - 1
      BY <1>1, <1>3, <1>5, <2>2
    <3>2. M[i] = B[i - k]
      BY <1>1, <1>3, <1>4, <1>5, <2>2 DEF C
    <3> QED BY <1>3, <2>2, <3>1, <3>2, SMTT(30)
  <2> QED BY <1>1, <2>1, <2>2
<1> QED BY <1>5, <1>6

(* RemoveAt of SequencesExt, element by element.                          *)
LEMMA Dropped ==
    ASSUME NEW S, NEW L \in Seq(S), NEW k \in 1..Len(L), NEW M, M = OL!RemoveAt(L, k)
    PROVE  /\ M \in Seq(S) /\ Len(M) = Len(L) - 1
           /\ \A i \in 1..Len(M) : M[i] = IF i < k THEN L[i] ELSE L[i + 1]
<1> DEFINE A == SubSeq(L, 1, k - 1)
           B == SubSeq(L, k + 1, Len(L))
<1>1. Len(L) \in Nat /\ k \in Int /\ k - 1 \in Int /\ M = A \o B
  BY DEF OL!RemoveAt
<1>2. A \in Seq(S) /\ Len(A) = k - 1 /\ \A i \in 1..k - 1 : A[i] = L[i]
  OBVIOUS
<1>3. B \in Seq(S) /\ Len(B) = Len(L) - k /\ \A i \in 1..Len(L) - k : B[i] = L[k + i]
  OBVIOUS
<1> HIDE DEF A, B
<1>4. M \in Seq(S) /\ Len(M) = Len(L) - 1
  BY <1>1, <1>2, <1>3
<1>5. ASSUME NEW i \in 1..Len(M) PROVE M[i] = IF i < k THEN L[i] ELSE L[i + 1]
  <2>1. CASE i < k
    BY <1>1, <1>2, <1>3, <1>4, <2>1
  <2>2. CASE i >= k
    <3>1. i - (k - 1) \in 1..Len(B) /\ k + (i - (k - 1)) = i + 1
      BY <1>1, <1>3, <1>4, <2>2
    <3>2. M[i] = B[i - (k - 1)]
      BY <1>1, <1>2, <1>3, <1>4, <2>2
    <3> QED BY <1>3, <2>2, <3>1, <3>2
  <2> QED BY <1>1, <2>1, <2>2
<1> QED BY <1>4, <1>5

(* A new leaf stands next to its parent, on the side that it hangs from.  *)
LEMMA HungLists ==
    ASSUME RbAssumption, NEW t, Linked(t), NEW n \in RbNodes, n \notin InTree(t), NEW s \in Sides,
           NEW p, IF p = NIL THEN Top(t) = NIL ELSE p \in InTree(t) /\ Kid(t, p, s) = NIL,
           NEW u, Hung(u, t, n, p, s), NEW L, NEW c, NEW e, Spread(t, L, c, e),
           NEW k, k = IF p = NIL THEN 1 ELSE IF s = "left" THEN c[p] ELSE c[p] + 1
    PROVE  k \in 1..Len(L) + 1 /\ Lists(u, OL!InsertAt(L, k, n))
<1> DEFINE M == OL!InsertAt(L, k, n)
           P == c[p]
           CC(x) == IF x >= k THEN x + 1 ELSE x
           End(q, x) == IF q = "left" THEN (IF x > P THEN x + 1 ELSE x)
                        ELSE (IF x >= P THEN x + 1 ELSE x)
           c2 == [m \in RbNodes |-> IF m = n THEN k ELSE CC(c[m])]
           e2 == [m \in RbNodes |-> [q \in Sides |-> IF m = n THEN k ELSE End(q, e[m][q])]]
<1>1. /\ InTree(u) = InTree(t) \cup {n} /\ NIL \notin RbNodes /\ n # NIL
      /\ \A m \in InTree(t) : m \in RbNodes /\ m # n /\ m # NIL
      /\ \A m \in RbNodes, q \in Sides : Kid(t, m, q) # NIL => Kid(t, m, q) \in InTree(t)
      /\ \A q \in Sides : Kid(t, n, q) = NIL
      /\ \A q \in Sides : Other(q) \in Sides /\ Other(q) # q
  BY HungLinked, InTreeIs, KidInTree, LinkedParts, SidesTwo DEF RbAssumption
<1>2. /\ L \in Seq(RbNodes) /\ Len(L) \in Nat
      /\ \A m \in InTree(t) : /\ c[m] \in 1..Len(L) /\ L[c[m]] = m
                              /\ e[m]["left"] \in 1..c[m] /\ e[m]["right"] \in c[m]..Len(L)
      /\ \A m \in InTree(t), q \in Sides : Kid(t, m, q) = NIL => e[m][q] = c[m]
      /\ \A m \in InTree(t), q \in Sides : Kid(t, m, q) # NIL =>
            e[Kid(t, m, q)][q] = e[m][q] /\ e[Kid(t, m, q)][Other(q)] = c[m] + Dir(q)
  BY SpreadParts
<1>3. /\ \A i \in 1..Len(L) : L[i] \in InTree(t) /\ c[L[i]] = i
      /\ Top(t) # NIL => e[Top(t)]["left"] = 1 /\ e[Top(t)]["right"] = Len(L)
  BY DEF Spread
<1>4. /\ Top(u) = IF p = NIL THEN n ELSE Top(t)
      /\ \A m \in RbNodes, q \in Sides :
            Kid(u, m, q) = IF m = p /\ q = s THEN n ELSE Kid(t, m, q)
  BY DEF Hung
<1>5. ASSUME p # NIL PROVE p \in InTree(t) /\ p \in RbNodes /\ Kid(t, p, s) = NIL /\ P \in 1..Len(L)
  BY <1>1, <1>2, <1>5
<1>6. p = NIL => InTree(t) = {} /\ Len(L) = 0
  <2> SUFFICES ASSUME p = NIL PROVE InTree(t) = {} /\ Len(L) = 0
    OBVIOUS
  <2>1. InTree(t) = {}
    <3> SUFFICES ASSUME NEW m \in InTree(t) PROVE FALSE
      OBVIOUS
    <3>1. Top(t) \in InTree(t)
      BY TopIs
    <3> QED BY <1>1, <3>1
  <2>2. ASSUME Len(L) # 0 PROVE FALSE
    <3>1. 1 \in 1..Len(L)
      BY <1>2, <2>2
    <3> QED BY <1>3, <2>1, <3>1
  <2> QED BY <2>1, <2>2
<1>7. k \in 1..Len(L) + 1
  BY <1>2, <1>5, <1>6
<1>8. /\ M \in Seq(RbNodes) /\ Len(M) = Len(L) + 1
      /\ \A i \in 1..Len(M) :
            M[i] = IF i < k THEN L[i] ELSE IF i = k THEN n ELSE L[i - 1]
  BY <1>2, <1>7, Placed
<1>9. /\ c2[n] = k /\ e2[n]["left"] = k /\ e2[n]["right"] = k
      /\ \A m \in InTree(t) : c2[m] = CC(c[m])
      /\ \A m \in InTree(t), q \in Sides : e2[m][q] = End(q, e[m][q])
  BY <1>1, SideNames
<1> HIDE DEF c2, e2, M
<1>10. ASSUME NEW i \in 1..Len(M) PROVE M[i] \in InTree(u) /\ c2[M[i]] = i
  <2>1. CASE i < k
    <3>1. i \in 1..Len(L) /\ M[i] = L[i]
      BY <1>2, <1>7, <1>8, <2>1
    <3> QED BY <1>1, <1>3, <1>9, <2>1, <3>1
  <2>2. CASE i = k
    BY <1>1, <1>8, <1>9, <2>2
  <2>3. CASE i > k
    <3>1. i - 1 \in 1..Len(L) /\ M[i] = L[i - 1] /\ i - 1 >= k
      BY <1>2, <1>7, <1>8, <2>3
    <3> QED BY <1>1, <1>3, <1>9, <3>1
  <2> QED BY <1>7, <2>1, <2>2, <2>3
<1>11. ASSUME NEW m \in InTree(u)
       PROVE  /\ c2[m] \in 1..Len(M) /\ M[c2[m]] = m
              /\ e2[m]["left"] \in 1..c2[m] /\ e2[m]["right"] \in c2[m]..Len(M)
  <2>1. CASE m = n
    BY <1>2, <1>7, <1>8, <1>9, <2>1
  <2>2. CASE m # n
    <3>1. m \in InTree(t) /\ p # NIL
      BY <1>1, <1>6, <2>2
    <3>2. /\ c[m] \in 1..Len(L) /\ L[c[m]] = m
          /\ e[m]["left"] \in 1..c[m] /\ e[m]["right"] \in c[m]..Len(L)
          /\ c2[m] = CC(c[m]) /\ e2[m]["left"] = End("left", e[m]["left"])
          /\ e2[m]["right"] = End("right", e[m]["right"])
      BY <1>2, <1>9, <3>1, SideNames
    <3>3. c2[m] \in 1..Len(M) /\ M[c2[m]] = m
      <4>1. CASE c[m] >= k
        <5>1. c2[m] = c[m] + 1 /\ c2[m] \in 1..Len(M) /\ c2[m] > k /\ c2[m] - 1 = c[m]
          BY <1>2, <1>7, <1>8, <3>2, <4>1, SMTT(30)
        <5> QED BY <1>7, <1>8, <3>2, <5>1
      <4>2. CASE c[m] < k
        <5>1. c2[m] = c[m] /\ c2[m] \in 1..Len(M)
          BY <1>2, <1>7, <1>8, <3>2, <4>2
        <5> QED BY <1>7, <1>8, <3>2, <4>2, <5>1
      <4> QED BY <1>7, <3>2, <4>1, <4>2
    <3>4. k = P \/ k = P + 1
      BY <3>1
    <3>5. P \in 1..Len(L)
      BY <1>5, <3>1
    <3>6. s = "left" => k = P
      BY <3>1
    <3>7. e2[m]["left"] \in 1..c2[m]
      BY <3>2, <3>4, <3>5
    <3>8. e2[m]["right"] \in c2[m]..Len(M)
      BY <1>2, <1>8, <3>2, <3>4, <3>5, SMTT(30)
    <3> QED BY <3>3, <3>7, <3>8
  <2> QED BY <2>1, <2>2
<1>12. ASSUME NEW m \in InTree(u), NEW q \in Sides
       PROVE  IF Kid(u, m, q) = NIL THEN e2[m][q] = c2[m]
              ELSE e2[Kid(u, m, q)][q] = e2[m][q] /\ e2[Kid(u, m, q)][Other(q)] = c2[m] + Dir(q)
  <2>1. CASE m = n
    <3>1. m # p /\ Kid(u, m, q) = NIL
      BY <1>1, <1>4, <1>5, <2>1
    <3> QED BY <1>9, <2>1, <3>1, SideNames
  <2>2. CASE m # n
    <3>1. m \in InTree(t) /\ m \in RbNodes /\ p # NIL
      BY <1>1, <1>6, <2>2
    <3>2. /\ k = IF s = "left" THEN P ELSE P + 1
          /\ P \in 1..Len(L) /\ P \in Int /\ c[m] \in Int /\ p \in InTree(t)
          /\ m # p => c[m] # P
      BY <1>2, <1>5, <3>1
    <3>3. c2[m] = CC(c[m]) /\ e2[m][q] = End(q, e[m][q])
      BY <1>9, <3>1
    <3>4. CASE m = p /\ q = s
      <4>1. Kid(u, m, q) = n /\ e[m][q] = c[m] /\ c[m] = P
        BY <1>2, <1>4, <1>5, <3>1, <3>4
      <4>2. e2[n][q] = k /\ e2[n][Other(q)] = k
        BY <1>9, SideNames
      <4>3. CASE q = "left"
        BY <1>1, <3>2, <3>3, <3>4, <4>1, <4>2, <4>3, SideNames
      <4>4. CASE q = "right"
        BY <1>1, <3>2, <3>3, <3>4, <4>1, <4>2, <4>4, SideNames
      <4> QED BY <4>3, <4>4, SideNames
    <3>5. CASE ~(m = p /\ q = s)
      <4>1. Kid(u, m, q) = Kid(t, m, q)
        BY <1>4, <3>1, <3>5
      <4>2. CASE Kid(t, m, q) = NIL
        <5>1. e[m][q] = c[m]
          BY <1>2, <3>1, <4>2
        <5> QED BY <3>2, <3>3, <3>5, <4>1, <4>2, <5>1, SideNames, SMTT(30)
      <4>3. CASE Kid(t, m, q) # NIL
        <5>1. /\ e[Kid(t, m, q)][q] = e[m][q] /\ e[Kid(t, m, q)][Other(q)] = c[m] + Dir(q)
              /\ Kid(t, m, q) \in InTree(t)
          BY <1>1, <1>2, <3>1, <4>3
        <5>2. /\ e2[Kid(t, m, q)][q] = End(q, e[m][q])
              /\ e2[Kid(t, m, q)][Other(q)] = End(Other(q), c[m] + Dir(q))
          BY <1>1, <1>9, <5>1
        <5>3. m = p => q # s
          BY <3>5
        <5>4. CASE q = "left"
          BY <3>2, <3>3, <4>1, <4>3, <5>2, <5>3, <5>4, SideNames
        <5>5. CASE q = "right"
          BY <3>2, <3>3, <4>1, <4>3, <5>2, <5>3, <5>5, SideNames
        <5> QED BY <5>4, <5>5, SideNames
      <4> QED BY <4>2, <4>3
    <3> QED BY <3>4, <3>5
  <2> QED BY <2>1, <2>2
<1>13. Top(u) # NIL => e2[Top(u)]["left"] = 1 /\ e2[Top(u)]["right"] = Len(M)
  <2>1. CASE p = NIL
    BY <1>4, <1>6, <1>8, <1>9, <2>1
  <2>2. CASE p # NIL
    <3>1. Top(u) = Top(t) /\ Top(t) \in InTree(t) /\ Top(t) # NIL
      BY <1>1, <1>4, <1>5, <2>2, TopIs
    <3>2. e2[Top(t)]["left"] = End("left", 1) /\ e2[Top(t)]["right"] = End("right", Len(L))
      BY <1>3, <1>9, <3>1, SideNames
    <3>3. P \in 1..Len(L)
      BY <1>5, <2>2
    <3> QED BY <1>2, <1>8, <3>1, <3>2, <3>3
  <2> QED BY <2>1, <2>2
<1>14. Spread(u, M, c2, e2)
  BY <1>8, <1>10, <1>11, <1>12, <1>13 DEF Spread
<1> QED BY <1>7, <1>14 DEF Lists, M

(* A node with one child at most is cut out of the order.                 *)
LEMMA CutLists ==
    ASSUME RbAssumption, NEW t, Linked(t), NEW d, NEW x, Outer(t, d, x), NEW u, Cut(u, t, d, x),
           NEW L, NEW c, NEW e, Spread(t, L, c, e)
    PROVE  Lists(u, OL!RemoveAt(L, c[d]))
<1> DEFINE P == c[d]
           M == OL!RemoveAt(L, P)
           CC(y) == IF y > P THEN y - 1 ELSE y
           End(q, y) == IF q = "left" THEN (IF y > P THEN y - 1 ELSE y)
                        ELSE (IF y >= P THEN y - 1 ELSE y)
           c2 == [m \in RbNodes |-> CC(c[m])]
           e2 == [m \in RbNodes |-> [q \in Sides |-> End(q, e[m][q])]]
<1>1. /\ InTree(u) = InTree(t) \ {d} /\ NIL \notin RbNodes /\ d \in InTree(t) /\ d # NIL /\ x # d
      /\ x # NIL => x \in InTree(t)
      /\ \A m \in InTree(t) : m \in RbNodes /\ m # NIL /\ Up(t, m) # m
      /\ \A m \in RbNodes, q \in Sides : Kid(t, m, q) # NIL =>
            Kid(t, m, q) \in InTree(t) /\ Up(t, Kid(t, m, q)) = m
      /\ \A q \in Sides : Other(q) \in Sides /\ Other(q) # q /\ Other(Other(q)) = q
  BY CutLinked, OuterParts, InTreeIs, KidInTree, LinkedParts, SidesTwo DEF RbAssumption
<1>2. /\ L \in Seq(RbNodes) /\ Len(L) \in Nat
      /\ \A m \in InTree(t) : /\ c[m] \in 1..Len(L) /\ L[c[m]] = m
                              /\ e[m]["left"] \in 1..c[m] /\ e[m]["right"] \in c[m]..Len(L)
      /\ \A m \in InTree(t), q \in Sides : Kid(t, m, q) = NIL => e[m][q] = c[m]
      /\ \A m \in InTree(t), q \in Sides : Kid(t, m, q) # NIL =>
            e[Kid(t, m, q)][q] = e[m][q] /\ e[Kid(t, m, q)][Other(q)] = c[m] + Dir(q)
  BY SpreadParts
<1>3. /\ \A i \in 1..Len(L) : L[i] \in InTree(t) /\ c[L[i]] = i
      /\ Top(t) # NIL => e[Top(t)]["left"] = 1 /\ e[Top(t)]["right"] = Len(L)
  BY DEF Spread
<1>4. /\ Top(u) = IF Up(t, d) = NIL THEN x ELSE Top(t)
      /\ \A m \in RbNodes, q \in Sides :
            Kid(u, m, q) = IF m = d THEN NIL
                           ELSE IF m = Up(t, d) /\ Kid(t, m, q) = d THEN x ELSE Kid(t, m, q)
  BY DEF Cut
<1>5. PICK f \in Sides : Kid(t, d, f) = x /\ Kid(t, d, Other(f)) = NIL
  BY DEF Outer
<1>6. /\ P \in 1..Len(L) /\ P \in Int /\ L[P] = d
      /\ \A m \in InTree(t) : m # d => c[m] # P /\ c[m] \in Int
  BY <1>1, <1>2
<1>7. /\ M \in Seq(RbNodes) /\ Len(M) = Len(L) - 1
      /\ \A i \in 1..Len(M) : M[i] = IF i < P THEN L[i] ELSE L[i + 1]
  BY <1>2, <1>6, Dropped
<1>8. /\ \A m \in InTree(t) : c2[m] = CC(c[m])
      /\ \A m \in InTree(t), q \in Sides : e2[m][q] = End(q, e[m][q])
  BY <1>1
<1>9. /\ e[d][Other(f)] = P
      /\ x = NIL => e[d][f] = P
      /\ x # NIL => e[x][f] = e[d][f] /\ e[x][Other(f)] = P + Dir(f)
  BY <1>1, <1>2, <1>5
<1> HIDE DEF c2, e2, M
<1>10. ASSUME NEW i \in 1..Len(M) PROVE M[i] \in InTree(u) /\ c2[M[i]] = i
  <2>1. CASE i < P
    <3>1. i \in 1..Len(L) /\ M[i] = L[i]
      BY <1>2, <1>6, <1>7, <2>1
    <3> QED BY <1>1, <1>3, <1>6, <1>8, <2>1, <3>1
  <2>2. CASE i >= P
    <3>1. i + 1 \in 1..Len(L) /\ M[i] = L[i + 1] /\ i + 1 > P /\ i + 1 - 1 = i
      BY <1>2, <1>6, <1>7, <2>2
    <3> QED BY <1>1, <1>3, <1>6, <1>8, <3>1
  <2> QED BY <1>6, <2>1, <2>2
<1>11. ASSUME NEW m \in InTree(u)
       PROVE  /\ c2[m] \in 1..Len(M) /\ M[c2[m]] = m
              /\ e2[m]["left"] \in 1..c2[m] /\ e2[m]["right"] \in c2[m]..Len(M)
  <2>1. m \in InTree(t) /\ m # d
    BY <1>1
  <2>2. /\ c[m] \in 1..Len(L) /\ L[c[m]] = m /\ c[m] # P
        /\ e[m]["left"] \in 1..c[m] /\ e[m]["right"] \in c[m]..Len(L)
        /\ c2[m] = CC(c[m]) /\ e2[m]["left"] = End("left", e[m]["left"])
        /\ e2[m]["right"] = End("right", e[m]["right"])
    BY <1>2, <1>6, <1>8, <2>1, SideNames
  <2>3. c2[m] \in 1..Len(M) /\ M[c2[m]] = m
    <3>1. CASE c[m] > P
      <4>1. c2[m] = c[m] - 1 /\ c2[m] \in 1..Len(M) /\ ~(c2[m] < P) /\ c2[m] + 1 = c[m]
        <5>1. c[m] \in Int /\ c[m] <= Len(L) /\ P \in Int /\ P >= 1 /\ Len(L) \in Int
          BY <1>2, <1>6, <2>2
        <5>2. c2[m] = c[m] - 1
          BY <2>2, <3>1
        <5> QED BY <1>7, <3>1, <5>1, <5>2
      <4>2. M[c2[m]] = L[c2[m] + 1]
        BY <1>6, <1>7, <4>1
      <4> QED BY <2>2, <4>1, <4>2
    <3>2. CASE c[m] < P
      <4>1. c2[m] = c[m] /\ c2[m] \in 1..Len(M)
        BY <1>2, <1>6, <1>7, <2>2, <3>2
      <4> QED BY <1>7, <2>2, <3>2, <4>1
    <3> QED BY <1>6, <2>2, <3>1, <3>2
  <2>4. e2[m]["left"] \in 1..c2[m]
    BY <1>6, <2>2
  <2>5. e2[m]["right"] \in c2[m]..Len(M)
    BY <1>2, <1>6, <1>7, <2>2, SMTT(30)
  <2> QED BY <2>3, <2>4, <2>5
<1>12. ASSUME NEW m \in InTree(u), NEW q \in Sides
       PROVE  IF Kid(u, m, q) = NIL THEN e2[m][q] = c2[m]
              ELSE e2[Kid(u, m, q)][q] = e2[m][q] /\ e2[Kid(u, m, q)][Other(q)] = c2[m] + Dir(q)
  <2>1. /\ m \in InTree(t) /\ m # d /\ m \in RbNodes /\ c[m] \in Int /\ c[m] # P
        /\ c2[m] = CC(c[m]) /\ e2[m][q] = End(q, e[m][q])
    BY <1>1, <1>6, <1>8
  <2>2. CASE Kid(t, m, q) = d
    <3>1. Kid(u, m, q) = x
      BY <1>1, <1>4, <2>1, <2>2
    <3>2. e[d][q] = e[m][q] /\ e[d][Other(q)] = c[m] + Dir(q)
      BY <1>1, <1>2, <2>1, <2>2
    <3>3. f = q \/ f = Other(q)
      BY <1>5, SidesTwo
    <3>4. CASE x = NIL
      <4>1. e[m][q] = P /\ c[m] + Dir(q) = P
        BY <1>9, <3>2, <3>3, <3>4, <1>1
      <4>2. CASE q = "left"
        BY <1>6, <2>1, <3>1, <3>4, <4>1, <4>2, SideNames
      <4>3. CASE q = "right"
        BY <1>6, <2>1, <3>1, <3>4, <4>1, <4>3, SideNames
      <4> QED BY <4>2, <4>3, SideNames
    <3>5. CASE x # NIL
      <4>1. e2[x][q] = End(q, e[x][q]) /\ e2[x][Other(q)] = End(Other(q), e[x][Other(q)])
        BY <1>1, <1>8, <3>5
      <4>2. CASE f = q
        <5>1. /\ e[x][q] = e[m][q] /\ e[x][Other(q)] = P + Dir(q)
              /\ P = c[m] + Dir(q)
          BY <1>9, <3>2, <3>5, <4>2
        <5>2. CASE q = "left"
          BY <1>6, <2>1, <3>1, <3>5, <4>1, <5>1, <5>2, SideNames
        <5>3. CASE q = "right"
          BY <1>6, <2>1, <3>1, <3>5, <4>1, <5>1, <5>3, SideNames
        <5> QED BY <5>2, <5>3, SideNames
      <4>3. CASE f = Other(q)
        <5>1. /\ e[m][q] = P /\ e[x][q] = P - Dir(q)
              /\ e[x][Other(q)] = c[m] + Dir(q)
          <6>1. e[m][q] = P /\ e[x][q] = P + Dir(Other(q)) /\ e[x][Other(q)] = c[m] + Dir(q)
            BY <1>1, <1>9, <3>2, <3>5, <4>3
          <6> QED BY <1>6, <6>1, SideNames
        <5>2. CASE q = "left"
          BY <1>6, <2>1, <3>1, <3>5, <4>1, <5>1, <5>2, SideNames
        <5>3. CASE q = "right"
          BY <1>6, <2>1, <3>1, <3>5, <4>1, <5>1, <5>3, SideNames
        <5> QED BY <5>2, <5>3, SideNames
      <4> QED BY <3>3, <4>2, <4>3
    <3> QED BY <3>4, <3>5
  <2>3. CASE Kid(t, m, q) # d
    <3>1. Kid(u, m, q) = Kid(t, m, q)
      BY <1>4, <2>1, <2>3
    <3>2. CASE Kid(t, m, q) = NIL
      <4>1. e[m][q] = c[m]
        BY <1>2, <2>1, <3>2
      <4> QED BY <1>6, <2>1, <3>1, <3>2, <4>1, SideNames
    <3>3. CASE Kid(t, m, q) # NIL
      <4>1. /\ e[Kid(t, m, q)][q] = e[m][q] /\ e[Kid(t, m, q)][Other(q)] = c[m] + Dir(q)
            /\ Kid(t, m, q) \in InTree(t)
        BY <1>1, <1>2, <2>1, <3>3
      <4>2. /\ e2[Kid(t, m, q)][q] = End(q, e[m][q])
            /\ e2[Kid(t, m, q)][Other(q)] = End(Other(q), c[m] + Dir(q))
        BY <1>1, <1>8, <4>1
      <4>3. CASE q = "left"
        BY <1>6, <2>1, <3>1, <3>3, <4>2, <4>3, SideNames
      <4>4. CASE q = "right"
        BY <1>6, <2>1, <3>1, <3>3, <4>2, <4>4, SideNames
      <4> QED BY <4>3, <4>4, SideNames
    <3> QED BY <3>2, <3>3
  <2> QED BY <2>2, <2>3
<1>13. Top(u) # NIL => e2[Top(u)]["left"] = 1 /\ e2[Top(u)]["right"] = Len(M)
  <2>1. /\ Top(t) \in InTree(t) /\ Top(t) # NIL /\ (d # Top(t) => Up(t, d) # NIL)
        /\ Up(t, Top(t)) = NIL
    BY <1>1, TopIs
  <2>2. e[Top(t)]["left"] = 1 /\ e[Top(t)]["right"] = Len(L)
    BY <1>3, <2>1
  <2>3. CASE d # Top(t)
    <3>1. Top(u) = Top(t)
      BY <1>4, <2>1, <2>3
    <3>2. e2[Top(t)]["left"] = End("left", 1) /\ e2[Top(t)]["right"] = End("right", Len(L))
      BY <1>8, <2>1, <2>2, SideNames
    <3> QED BY <1>2, <1>6, <1>7, <3>1, <3>2
  <2>4. CASE d = Top(t)
    <3>1. Top(u) = x
      BY <1>4, <2>1, <2>4
    <3> SUFFICES ASSUME x # NIL PROVE e2[x]["left"] = 1 /\ e2[x]["right"] = Len(M)
      BY <3>1
    <3>2. e2[x]["left"] = End("left", e[x]["left"]) /\ e2[x]["right"] = End("right", e[x]["right"])
      BY <1>1, <1>8, SideNames
    <3>3. CASE f = "left"
      <4>1. e[x]["left"] = 1 /\ e[x]["right"] = P - 1 /\ P = Len(L)
        BY <1>6, <1>9, <2>2, <2>4, <3>3, SideNames
      <4> QED BY <1>2, <1>6, <1>7, <3>2, <4>1
    <3>4. CASE f = "right"
      <4>1. e[x]["left"] = P + 1 /\ e[x]["right"] = Len(L) /\ P = 1
        BY <1>6, <1>9, <2>2, <2>4, <3>4, SideNames
      <4> QED BY <1>2, <1>6, <1>7, <3>2, <4>1
    <3> QED BY <3>3, <3>4, SideNames
  <2> QED BY <2>3, <2>4
<1>14. Spread(u, M, c2, e2)
  BY <1>7, <1>10, <1>11, <1>12, <1>13 DEF Spread
<1> QED BY <1>14 DEF Lists, M

(* The node that takes the place of another takes its position.           *)
LEMMA RenamedLists ==
    ASSUME RbAssumption, NEW t, Linked(t), NEW n \in InTree(t), NEW d \in RbNodes,
           d \notin InTree(t), NEW u, Renamed(u, t, n, d), NEW L, Lists(t, L)
    PROVE  Lists(u, [i \in 1..Len(L) |-> IF L[i] = n THEN d ELSE L[i]])
<1>1. PICK c, e : Spread(t, L, c, e)
  BY DEF Lists
<1> DEFINE M == [i \in 1..Len(L) |-> IF L[i] = n THEN d ELSE L[i]]
           Old(m) == IF m = d THEN n ELSE m
           c2 == [m \in RbNodes |-> c[Old(m)]]
           e2 == [m \in RbNodes |-> e[Old(m)]]
<1>2. /\ InTree(u) = (InTree(t) \ {n}) \cup {d} /\ NIL \notin RbNodes /\ d # NIL /\ n # d /\ n # NIL
      /\ \A m \in InTree(t) : m \in RbNodes /\ m # NIL /\ m # d
      /\ n \in RbNodes
      /\ \A m \in RbNodes, q \in Sides : Kid(t, m, q) # NIL =>
            Kid(t, m, q) \in InTree(t) /\ Kid(t, m, q) # m
      /\ \A q \in Sides : Other(q) \in Sides /\ Other(q) # q /\ Other(Other(q)) = q
  BY RenamedLinked, InTreeIs, KidInTree, SidesTwo DEF RbAssumption
<1>3. /\ L \in Seq(RbNodes) /\ Len(L) \in Nat
      /\ \A m \in InTree(t) : /\ c[m] \in 1..Len(L) /\ L[c[m]] = m
                              /\ e[m]["left"] \in 1..c[m] /\ e[m]["right"] \in c[m]..Len(L)
      /\ \A m \in InTree(t), q \in Sides : Kid(t, m, q) = NIL => e[m][q] = c[m]
      /\ \A m \in InTree(t), q \in Sides : Kid(t, m, q) # NIL =>
            e[Kid(t, m, q)][q] = e[m][q] /\ e[Kid(t, m, q)][Other(q)] = c[m] + Dir(q)
  BY <1>1, SpreadParts
<1>4. /\ \A i \in 1..Len(L) : L[i] \in InTree(t) /\ c[L[i]] = i
      /\ Top(t) # NIL => e[Top(t)]["left"] = 1 /\ e[Top(t)]["right"] = Len(L)
  BY <1>1 DEF Spread
<1>5. /\ Top(u) = IF Top(t) = n THEN d ELSE Top(t)
      /\ \A m \in RbNodes, q \in Sides :
            Kid(u, m, q) = IF m = n THEN NIL ELSE IF m = d THEN Kid(t, n, q)
                           ELSE IF Kid(t, m, q) = n THEN d ELSE Kid(t, m, q)
  BY DEF Renamed
<1>6. M \in Seq(RbNodes) /\ Len(M) = Len(L) /\ \A i \in 1..Len(L) : M[i] = IF L[i] = n THEN d ELSE L[i]
  BY <1>2, <1>3, <1>4
<1>7. /\ c2[d] = c[n] /\ e2[d] = e[n]
      /\ \A m \in InTree(t) : c2[m] = c[m] /\ e2[m] = e[m]
  BY <1>2
<1> HIDE DEF M, c2, e2
<1>8. ASSUME NEW i \in 1..Len(M) PROVE M[i] \in InTree(u) /\ c2[M[i]] = i
  BY <1>2, <1>4, <1>6, <1>7
<1>9. ASSUME NEW m \in InTree(u)
      PROVE  /\ c2[m] \in 1..Len(M) /\ M[c2[m]] = m
             /\ e2[m]["left"] \in 1..c2[m] /\ e2[m]["right"] \in c2[m]..Len(M)
  BY <1>2, <1>3, <1>6, <1>7, SMTT(30)
<1>10. ASSUME NEW m \in InTree(u), NEW q \in Sides
       PROVE  IF Kid(u, m, q) = NIL THEN e2[m][q] = c2[m]
              ELSE e2[Kid(u, m, q)][q] = e2[m][q] /\ e2[Kid(u, m, q)][Other(q)] = c2[m] + Dir(q)
  <2> DEFINE o == Old(m)
             k == Kid(t, o, q)
  <2>1. o \in InTree(t) /\ o \in RbNodes /\ c2[m] = c[o] /\ e2[m] = e[o] /\ m \in RbNodes
    BY <1>2, <1>7
  <2>2. Kid(u, m, q) = IF k = n THEN d ELSE k
    BY <1>2, <1>5, <2>1
  <2> HIDE DEF o
  <2>3. CASE k = NIL
    BY <1>2, <1>3, <2>1, <2>2, <2>3
  <2>4. CASE k # NIL
    <3>1. k \in InTree(t) /\ e[k][q] = e[o][q] /\ e[k][Other(q)] = c[o] + Dir(q)
      BY <1>2, <1>3, <2>1, <2>4
    <3>2. e2[Kid(u, m, q)] = e[k] /\ Kid(u, m, q) # NIL
      BY <1>2, <1>7, <2>2, <2>4, <3>1
    <3> QED BY <2>1, <3>1, <3>2
  <2> QED BY <2>3, <2>4
<1>11. Top(u) # NIL => e2[Top(u)]["left"] = 1 /\ e2[Top(u)]["right"] = Len(M)
  <2>1. Top(t) \in InTree(t) /\ Top(t) # NIL
    BY <1>2, TopIs
  <2> QED BY <1>4, <1>5, <1>6, <1>7, <2>1
<1>12. Spread(u, M, c2, e2)
  BY <1>6, <1>8, <1>9, <1>10, <1>11 DEF Spread
<1> QED BY <1>12 DEF Lists, M

-----------------------------------------------------------------------------
(* A sequence is what comes before a position, what is there, what follows.*)
LEMMA Around ==
    ASSUME NEW S, NEW L \in Seq(S), NEW a \in Int, NEW k \in Int, NEW b \in Int,
           1 <= a, a <= k, k <= b, b <= Len(L)
    PROVE  SubSeq(L, a, k - 1) \o <<L[k]>> \o SubSeq(L, k + 1, b) = SubSeq(L, a, b)
<1> DEFINE A == SubSeq(L, a, k - 1)
           B == SubSeq(L, k + 1, b)
           C == SubSeq(L, a, b)
           D == A \o <<L[k]>>
<1>1. A \in Seq(S) /\ Len(A) = k - a /\ \A i \in 1..k - a : A[i] = L[a + i - 1]
  OBVIOUS
<1>2. B \in Seq(S) /\ Len(B) = b - k /\ \A i \in 1..b - k : B[i] = L[k + i]
  OBVIOUS
<1>3. C \in Seq(S) /\ Len(C) = b + 1 - a /\ \A i \in 1..b + 1 - a : C[i] = L[a + i - 1]
  OBVIOUS
<1>4. L[k] \in S
  OBVIOUS
<1> HIDE DEF A, B, C
<1>5. D \in Seq(S) /\ Len(D) = k + 1 - a /\ \A i \in 1..k + 1 - a : D[i] = L[a + i - 1]
  BY <1>1, <1>4
<1> HIDE DEF D
<1>6. D \o B \in Seq(S) /\ Len(D \o B) = b + 1 - a
  <2>1. D \in Seq(S) /\ B \in Seq(S) /\ Len(D) = k + 1 - a /\ Len(B) = b - k
    BY <1>2, <1>5
  <2>2. D \o B \in Seq(S) /\ Len(D \o B) = Len(D) + Len(B)
    BY <2>1, ConcatProperties
  <2> QED BY <2>1, <2>2
<1>7. ASSUME NEW i \in 1..b + 1 - a PROVE (D \o B)[i] = L[a + i - 1]
  <2>1. CASE i <= k + 1 - a
    BY <1>2, <1>5, <2>1
  <2>2. CASE ~(i <= k + 1 - a)
    <3>1. (D \o B)[i] = B[i - (k + 1 - a)]
      BY <1>2, <1>5, <2>2, SMTT(30)
    <3>2. i - (k + 1 - a) \in 1..b - k /\ k + (i - (k + 1 - a)) = a + i - 1
      BY <2>2
    <3> QED BY <1>2, <3>1, <3>2
  <2> QED BY <2>1, <2>2
<1>8. D \o B = C
  BY <1>3, <1>6, <1>7, SeqEqual
<1> QED BY <1>8 DEF A, B, C, D

(* InOrderOf computes the order.                                          *)
LEMMA ListsIs ==
    ASSUME RbAssumption, NEW t, Linked(t), NEW L, Lists(t, L)
    PROVE  InOrderOf(t) = L
<1>1. PICK c, e : Spread(t, L, c, e)
  BY DEF Lists
<1> DEFINE Join(f, n) == f[Kid(t, n, "left")] \o <<n>> \o f[Kid(t, n, "right")]
           F(f) == f = [n \in RbLinks |-> IF n = NIL THEN <<>>
                          ELSE f[t.child[n]["left"]] \o <<n>> \o f[t.child[n]["right"]]]
           w == [n \in RbLinks |-> IF n \in InTree(t) THEN SubSeq(L, e[n]["left"], e[n]["right"])
                                   ELSE IF n = NIL THEN <<>> ELSE <<n>>]
           g == CHOOSE f : F(f)
<1>2. /\ NIL \notin RbNodes /\ NIL \in RbLinks /\ "left" \in Sides /\ "right" \in Sides
      /\ \A m \in InTree(t) : m \in RbNodes /\ m # NIL /\ m \in RbLinks
      /\ \A m \in RbLinks : m # NIL => m \in RbNodes
      /\ \A m \in RbNodes, q \in Sides : Kid(t, m, q) # NIL => Kid(t, m, q) \in InTree(t)
      /\ \A m \in RbNodes, q \in Sides : m \notin InTree(t) => Kid(t, m, q) = NIL
  BY InTreeIs, KidInTree, LinkedParts, SideNames DEF RbAssumption, RbLinks
<1>3. /\ L \in Seq(RbNodes) /\ Len(L) \in Nat
      /\ \A m \in InTree(t) : /\ c[m] \in 1..Len(L) /\ L[c[m]] = m
                              /\ e[m]["left"] \in 1..c[m] /\ e[m]["right"] \in c[m]..Len(L)
      /\ \A m \in InTree(t), q \in Sides : Kid(t, m, q) = NIL => e[m][q] = c[m]
      /\ \A m \in InTree(t), q \in Sides : Kid(t, m, q) # NIL =>
            e[Kid(t, m, q)][q] = e[m][q] /\ e[Kid(t, m, q)][Other(q)] = c[m] + Dir(q)
  BY <1>1, SpreadParts
<1>4. /\ \A i \in 1..Len(L) : L[i] \in InTree(t)
      /\ Top(t) # NIL => e[Top(t)]["left"] = 1 /\ e[Top(t)]["right"] = Len(L)
  BY <1>1 DEF Spread
<1>5. \A f : F(f) <=> f = [n \in RbLinks |-> IF n = NIL THEN <<>> ELSE Join(f, n)]
  BY DEF Kid
<1>6. InOrderOf(t) = g[Top(t)]
  BY DEF InOrderOf, Top
<1> HIDE DEF F
<1>7. /\ w[NIL] = <<>> /\ \A m \in RbNodes : m \notin InTree(t) => w[m] = <<m>>
      /\ \A m \in InTree(t) : w[m] = SubSeq(L, e[m]["left"], e[m]["right"])
      /\ w = [n \in RbLinks |-> w[n]]
  <2>1. \A m \in RbLinks : w[m] = IF m \in InTree(t) THEN SubSeq(L, e[m]["left"], e[m]["right"])
                                   ELSE IF m = NIL THEN <<>> ELSE <<m>>
    OBVIOUS
  <2>2. w = [n \in RbLinks |-> w[n]]
    OBVIOUS
  <2>3. \A m \in RbNodes : m \in RbLinks /\ m # NIL
    BY <1>2 DEF RbLinks
  <2> HIDE DEF w
  <2> QED BY <1>2, <2>1, <2>2, <2>3
<1> HIDE DEF w
<1>8. ASSUME NEW n \in RbNodes PROVE w[n] = Join(w, n)
  <2>1. CASE n \in InTree(t)
    <3> DEFINE k == c[n]
               a == e[n]["left"]
               b == e[n]["right"]
    <3>1. k \in 1..Len(L) /\ L[k] = n /\ a \in 1..k /\ b \in k..Len(L)
      BY <1>3, <2>1
    <3>2. w[Kid(t, n, "left")] = SubSeq(L, a, k - 1)
      <4>1. CASE Kid(t, n, "left") = NIL
        <5>1. a = k /\ w[Kid(t, n, "left")] = <<>>
          BY <1>2, <1>3, <1>7, <2>1, <4>1
        <5>2. SubSeq(L, k, k - 1) = <<>>
          BY <1>3, <3>1
        <5> QED BY <5>1, <5>2
      <4>2. CASE Kid(t, n, "left") # NIL
        <5>1. /\ Kid(t, n, "left") \in InTree(t)
              /\ e[Kid(t, n, "left")]["left"] = a
              /\ e[Kid(t, n, "left")]["right"] = k + Dir("left")
          BY <1>2, <1>3, <2>1, <4>2, SideNames
        <5>2. k + Dir("left") = k - 1
          BY <3>1, SideNames
        <5> QED BY <1>7, <5>1, <5>2
      <4> QED BY <4>1, <4>2
    <3>3. w[Kid(t, n, "right")] = SubSeq(L, k + 1, b)
      <4>1. CASE Kid(t, n, "right") = NIL
        <5>1. b = k /\ w[Kid(t, n, "right")] = <<>>
          BY <1>2, <1>3, <1>7, <2>1, <4>1
        <5>2. SubSeq(L, k + 1, k) = <<>>
          BY <1>3, <3>1
        <5> QED BY <5>1, <5>2
      <4>2. CASE Kid(t, n, "right") # NIL
        <5>1. /\ Kid(t, n, "right") \in InTree(t)
              /\ e[Kid(t, n, "right")]["right"] = b
              /\ e[Kid(t, n, "right")]["left"] = k + Dir("right")
          BY <1>2, <1>3, <2>1, <4>2, SideNames
        <5>2. k + Dir("right") = k + 1
          BY <3>1, SideNames
        <5> QED BY <1>7, <5>1, <5>2
      <4> QED BY <4>1, <4>2
    <3>4. w[n] = SubSeq(L, a, b)
      BY <1>7, <2>1
    <3>5. SubSeq(L, a, k - 1) \o <<L[k]>> \o SubSeq(L, k + 1, b) = SubSeq(L, a, b)
      <4>1. k \in Int /\ a \in Int /\ b \in Int /\ 1 <= a /\ a <= k /\ k <= b /\ b <= Len(L)
        BY <1>3, <3>1
      <4> HIDE DEF a, b, k
      <4> QED BY <1>3, <4>1, Around
    <3> HIDE DEF a, b, k
    <3> QED BY <3>1, <3>2, <3>3, <3>4, <3>5
  <2>2. CASE n \notin InTree(t)
    <3>1. w[n] = <<n>> /\ w[Kid(t, n, "left")] = <<>> /\ w[Kid(t, n, "right")] = <<>>
      BY <1>2, <1>7, <2>2
    <3>2. <<>> \o <<n>> \o <<>> = <<n>>
      OBVIOUS
    <3> QED BY <3>1, <3>2
  <2> QED BY <2>1, <2>2
<1> HIDE DEF Join
<1>9. F(w)
  BY <1>2, <1>5, <1>7, <1>8
<1>10. F(g)
  BY <1>9
<1> HIDE DEF g
<1>11. g[NIL] = <<>> /\ \A m \in RbNodes : g[m] = Join(g, m)
  <2>1. g = [n \in RbLinks |-> IF n = NIL THEN <<>> ELSE Join(g, n)]
    BY <1>5, <1>10
  <2>2. \A m \in RbNodes : m \in RbLinks /\ m # NIL
    BY <1>2 DEF RbLinks
  <2> QED BY <1>2, <2>1, <2>2
<1>12. ASSUME NEW m \in RbNodes, m \notin InTree(t) PROVE g[m] = w[m]
  <2>1. Kid(t, m, "left") = NIL /\ Kid(t, m, "right") = NIL
    BY <1>2, <1>12
  <2>2. g[NIL] = w[NIL]
    BY <1>7, <1>11
  <2>3. Join(g, m) = Join(w, m)
    BY <2>1, <2>2 DEF Join
  <2> QED BY <1>8, <1>11, <2>3
<1>13. {m \in InTree(t) : g[m] # w[m]} = {}
  <2> DEFINE S == {m \in InTree(t) : g[m] # w[m]}
  <2> SUFFICES ASSUME S # {} PROVE FALSE
    OBVIOUS
  <2>1. PICK m \in S : \A s \in Sides : Kid(t, m, s) \notin S
    BY Ends
  <2>2. m \in RbNodes /\ g[m] # w[m]
    BY <1>2, <2>1
  <2>3. \A s \in Sides : g[Kid(t, m, s)] = w[Kid(t, m, s)]
    BY <1>2, <1>7, <1>11, <2>1, <2>2
  <2>4. Join(g, m) = Join(w, m)
    BY <1>2, <2>3 DEF Join
  <2> QED BY <1>8, <1>11, <2>2, <2>4
<1>14. CASE Top(t) = NIL
  <2>1. Len(L) = 0
    <3> SUFFICES ASSUME Len(L) # 0 PROVE FALSE
      OBVIOUS
    <3>1. 1 \in 1..Len(L)
      BY <1>3
    <3>2. Top(t) \in InTree(t)
      BY <1>4, <3>1, TopIs
    <3> QED BY <1>2, <1>14, <3>2
  <2>2. L = <<>>
    BY <1>3, <2>1, EmptySeq
  <2> QED BY <1>6, <1>11, <1>14, <2>2
<1>15. CASE Top(t) # NIL
  <2>1. Top(t) \in InTree(t)
    BY <1>2, <1>15, LinkedParts, InTreeIs DEF RbLinks
  <2>2. g[Top(t)] = SubSeq(L, 1, Len(L))
    BY <1>4, <1>7, <1>13, <1>15, <2>1
  <2>3. SubSeq(L, 1, Len(L)) = L
    BY <1>3, SubSeqFull
  <2> QED BY <1>6, <2>2, <2>3
<1> QED BY <1>14, <1>15

-----------------------------------------------------------------------------
(* What holds of n and, with a node, of the next one that c leads to holds *)
(* of the last.                                                            *)
LEMMA LastStays ==
    ASSUME NEW c, NEW f, LastOf(c, f), NEW D \in SUBSET RbNodes,
           \A S \in SUBSET D : S # {} => \E m \in S : c[m] \notin S,
           NEW G \in SUBSET D, \A m \in G : c[m] = NIL \/ c[m] \in G, NEW n \in G
    PROVE  f[n] \in G /\ c[f[n]] = NIL
<1> DEFINE S == {m \in G : ~(f[m] \in G /\ c[f[m]] = NIL)}
<1>1. \A m \in RbNodes : f[m] = IF c[m] = NIL THEN m ELSE f[c[m]]
  BY DEF LastOf
<1>2. S = {}
  <2> SUFFICES ASSUME S # {} PROVE FALSE
    OBVIOUS
  <2>1. PICK m \in S : c[m] \notin S
    OBVIOUS
  <2>2. m \in RbNodes /\ m \in G
    OBVIOUS
  <2> QED BY <1>1, <2>1, <2>2
<1> QED BY <1>2

(* rb_first and rb_last of a subtree: where it begins and ends.            *)
LEMMA OutermostAt ==
    ASSUME RbAssumption, NEW t, Linked(t), NEW L, NEW c, NEW e, Spread(t, L, c, e),
           NEW n \in InTree(t), NEW s \in Sides
    PROVE  e[n][s] \in 1..Len(L) /\ Outermost(t, n, s) = L[e[n][s]]
<1> DEFINE d == [m \in RbNodes |-> t.child[m][s]]
           F(f) == f = [m \in RbNodes |-> IF t.child[m][s] = NIL THEN m ELSE f[t.child[m][s]]]
           last == CHOOSE f : F(f)
           G == {m \in InTree(t) : e[m][s] = e[n][s]}
<1>1. \A m \in RbNodes : d[m] = Kid(t, m, s)
  BY DEF Kid
<1>2. d \in [RbNodes -> RbLinks]
  BY <1>1, LinkedParts
<1>3. \A f : LastOf(d, f) <=> F(f)
  BY DEF LastOf
<1>5. n \in RbNodes /\ n # NIL
  BY InTreeIs DEF RbAssumption
<1>6. Outermost(t, n, s) = last[n]
  BY <1>5 DEF Outermost
<1>7. \E f : F(f)
  BY <1>2, <1>3, LastExists
<1> HIDE DEF F
<1>8. F(last)
  BY <1>7
<1> HIDE DEF d, last
<1>9. LastOf(d, last)
  BY <1>3, <1>8
<1>10. /\ \A m \in InTree(t) : c[m] \in 1..Len(L) /\ L[c[m]] = m
       /\ \A m \in InTree(t) : Kid(t, m, s) = NIL => e[m][s] = c[m]
       /\ \A m \in InTree(t) : Kid(t, m, s) # NIL => e[Kid(t, m, s)][s] = e[m][s]
  BY SpreadParts
<1>11. \A m \in InTree(t) : m \in RbNodes
  BY InTreeIs
<1>12. \A S \in SUBSET InTree(t) : S # {} => \E m \in S : d[m] \notin S
  <2> SUFFICES ASSUME NEW S \in SUBSET InTree(t), S # {} PROVE \E m \in S : d[m] \notin S
    OBVIOUS
  <2>1. PICK m \in S : \A q \in Sides : Kid(t, m, q) \notin S
    BY Ends
  <2> QED BY <1>1, <1>11, <2>1
<1>13. \A m \in G : d[m] = NIL \/ d[m] \in G
  BY <1>1, <1>10, <1>11, KidInTree
<1>14. G \in SUBSET InTree(t) /\ n \in G /\ InTree(t) \in SUBSET RbNodes
  BY <1>11
<1> HIDE DEF G
<1>15. last[n] \in G /\ d[last[n]] = NIL
  BY <1>9, <1>12, <1>13, <1>14, LastStays, SMTT(30)
<1>16. last[n] \in InTree(t) /\ e[last[n]][s] = e[n][s]
  BY <1>15 DEF G
<1> QED BY <1>1, <1>6, <1>10, <1>11, <1>15, <1>16

(* rb_next and rb_prev: the node at the position after or before.          *)
LEMMA StepAt ==
    ASSUME RbAssumption, NEW t, Linked(t), NEW L, NEW c, NEW e, Spread(t, L, c, e),
           NEW n \in InTree(t), NEW s \in Sides
    PROVE  Step(t, n, s) = IF c[n] + Dir(s) \in 1..Len(L) THEN L[c[n] + Dir(s)] ELSE NIL
<1> DEFINE d == [m \in RbNodes |-> IF IsChild(t, m, s) THEN t.parent[m] ELSE NIL]
           F(f) == f = [m \in RbNodes |-> IF IsChild(t, m, s) THEN f[t.parent[m]] ELSE m]
           top == CHOOSE f : F(f)
           G == {m \in InTree(t) : e[m][s] = c[n]}
           a == top[n]
<1>1. /\ NIL \notin RbNodes /\ \A m \in InTree(t) : m \in RbNodes /\ m # NIL /\ Up(t, m) # m
      /\ \A m \in RbNodes, q \in Sides : Kid(t, m, q) # NIL =>
            Kid(t, m, q) \in InTree(t) /\ Up(t, Kid(t, m, q)) = m
      /\ \A m \in RbNodes, q \in Sides : Kid(t, m, q) # NIL => m \in InTree(t)
      /\ \A q \in Sides : Other(q) \in Sides /\ Other(q) # q /\ Other(Other(q)) = q
      /\ \A q \in Sides, r \in Sides : r # q => r = Other(q)
      /\ \A m \in RbNodes : Up(t, m) \in RbLinks
      /\ \A m \in RbNodes : Up(t, m) # NIL /\ Up(t, m) # m => \E q \in Sides : Kid(t, Up(t, m), q) = m
  BY InTreeIs, KidInTree, LinkedParts, SidesTwo DEF RbAssumption
<1>2. /\ L \in Seq(RbNodes) /\ Len(L) \in Nat
      /\ \A m \in InTree(t) : /\ c[m] \in 1..Len(L) /\ L[c[m]] = m
                              /\ e[m]["left"] \in 1..c[m] /\ e[m]["right"] \in c[m]..Len(L)
      /\ \A m \in InTree(t), q \in Sides : Kid(t, m, q) = NIL => e[m][q] = c[m]
      /\ \A m \in InTree(t), q \in Sides : Kid(t, m, q) # NIL =>
            e[Kid(t, m, q)][q] = e[m][q] /\ e[Kid(t, m, q)][Other(q)] = c[m] + Dir(q)
  BY SpreadParts
<1>3. n \in RbNodes /\ Dir(s) \in Int /\ Dir(Other(s)) = 0 - Dir(s) /\ c[n] \in Int
  BY <1>1, <1>2, SideNames
<1>4. Step(t, n, s) = IF Kid(t, n, s) # NIL THEN Outermost(t, Kid(t, n, s), Other(s))
                      ELSE t.parent[a]
  BY DEF Step, Kid
<1>5. CASE Kid(t, n, s) # NIL
  <2>1. Kid(t, n, s) \in InTree(t) /\ e[Kid(t, n, s)][Other(s)] = c[n] + Dir(s) /\ Other(s) \in Sides
    BY <1>1, <1>2, <1>3, <1>5
  <2>2. /\ e[Kid(t, n, s)][Other(s)] \in 1..Len(L)
        /\ Outermost(t, Kid(t, n, s), Other(s)) = L[e[Kid(t, n, s)][Other(s)]]
    BY <2>1, OutermostAt
  <2> QED BY <1>4, <1>5, <2>1, <2>2
<1>6. CASE Kid(t, n, s) = NIL
  <2>1. \A m \in RbNodes : IsChild(t, m, s) <=> Up(t, m) # NIL /\ Kid(t, Up(t, m), s) = m
    BY <1>1 DEF IsChild, IsRoot, Up, Kid
  <2>2. \A m \in RbNodes : d[m] = IF IsChild(t, m, s) THEN Up(t, m) ELSE NIL
    BY DEF Up
  <2>3. d \in [RbNodes -> RbLinks]
    BY <1>1, <2>2 DEF RbLinks
  <2>4. \A f : LastOf(d, f) <=> F(f)
    <3> SUFFICES ASSUME NEW f PROVE LastOf(d, f) <=> F(f)
      OBVIOUS
    <3>1. \A m \in RbNodes : (IF d[m] = NIL THEN m ELSE f[d[m]])
                             = (IF IsChild(t, m, s) THEN f[t.parent[m]] ELSE m)
      BY <2>1, <2>2 DEF Up
    <3>2. [m \in RbNodes |-> IF d[m] = NIL THEN m ELSE f[d[m]]]
          = [m \in RbNodes |-> IF IsChild(t, m, s) THEN f[t.parent[m]] ELSE m]
      <4> HIDE DEF d
      <4> QED BY <3>1
    <3> QED BY <3>2 DEF LastOf
  <2>5. \E f : F(f)
    BY <2>3, <2>4, LastExists
  <2> HIDE DEF F
  <2>6. F(top)
    BY <2>5
  <2> HIDE DEF top, d
  <2>7. LastOf(d, top)
    BY <2>4, <2>6
  <2>8. \A S \in SUBSET InTree(t) : S # {} => \E m \in S : d[m] \notin S
    <3> SUFFICES ASSUME NEW S \in SUBSET InTree(t), S # {} PROVE \E m \in S : d[m] \notin S
      OBVIOUS
    <3>1. PICK m \in S : Up(t, m) \notin S
      BY LinkedParts
    <3>2. m \in RbNodes /\ NIL \notin S
      BY <1>1
    <3> QED BY <2>2, <3>1, <3>2
  <2>9. \A m \in G : d[m] = NIL \/ d[m] \in G
    <3> SUFFICES ASSUME NEW m \in G, d[m] # NIL PROVE d[m] \in G
      OBVIOUS
    <3>1. m \in RbNodes /\ m # NIL /\ d[m] = Up(t, m) /\ d[m] # NIL /\ Kid(t, d[m], s) = m
      BY <1>1, <2>1, <2>2
    <3>2. d[m] \in InTree(t)
      BY <1>1, <3>1 DEF RbLinks
    <3> QED BY <1>2, <3>1, <3>2
  <2>10. G \in SUBSET InTree(t) /\ n \in G /\ InTree(t) \in SUBSET RbNodes
    BY <1>1, <1>2, <1>6
  <2> HIDE DEF G
  <2>11. a \in G /\ d[a] = NIL
    BY <2>7, <2>8, <2>9, <2>10, LastStays
  <2>12. a \in InTree(t) /\ a \in RbNodes /\ a # NIL /\ e[a][s] = c[n]
    BY <1>1, <2>11 DEF G
  <2> HIDE DEF a
  <2>13. Step(t, n, s) = Up(t, a)
    BY <1>4, <1>6 DEF Up
  <2>14. CASE Up(t, a) = NIL
    <3>1. a = Top(t) /\ Top(t) # NIL
      BY <2>12, <2>14, LinkedParts
    <3>2. e[a]["left"] = 1 /\ e[a]["right"] = Len(L)
      BY <3>1 DEF Spread
    <3>3. c[n] + Dir(s) \notin 1..Len(L)
      BY <1>2, <2>12, <3>2, SideNames
    <3> QED BY <2>13, <2>14, <3>3
  <2>15. CASE Up(t, a) # NIL
    <3> DEFINE p == Up(t, a)
    <3>1. p \in RbNodes /\ p # NIL /\ Kid(t, p, s) # a
      BY <1>1, <2>1, <2>2, <2>11, <2>12, <2>15 DEF RbLinks
    <3>2. Kid(t, p, Other(s)) = a
      BY <1>1, <2>12, <3>1
    <3>3. p \in InTree(t)
      BY <1>1, <2>12, <3>1, <3>2
    <3>4. e[a][s] = c[p] + Dir(Other(s))
      BY <1>1, <1>2, <2>12, <3>2, <3>3
    <3>5. c[p] \in 1..Len(L) /\ L[c[p]] = p
      BY <1>2, <3>3
    <3> HIDE DEF p
    <3>6. c[p] = c[n] + Dir(s)
      <4>1. c[n] = c[p] + (0 - Dir(s))
        BY <1>3, <2>12, <3>4
      <4>2. c[p] \in Int
        BY <3>5
      <4> QED BY <1>3, <4>1, <4>2
    <3> QED BY <2>13, <3>5, <3>6 DEF p
  <2> QED BY <2>14, <2>15
<1> QED BY <1>5, <1>6

-----------------------------------------------------------------------------
(* The keys along L do not decrease.                                       *)
Ordered(L) == \A i, j \in 1..Len(L) : i <= j => Key[L[i]] <= Key[L[j]]

(* The nodes of t from left to right do not decrease.                     *)
Sorted(t) == \E L : Lists(t, L) /\ Ordered(L)

(* What is outside the subtree that the search for a place enters is on    *)
(* the right side of n.                                                    *)
LEMMA InsertPlace ==
    ASSUME RbAssumption, NEW t, Linked(t), NEW L, NEW c, NEW e, Spread(t, L, c, e), Ordered(L),
           NEW n \in RbNodes, NEW p, p = InsertParent(t, n), p # NIL,
           NEW k, k = IF SideBelow(n, p) = "left" THEN c[p] ELSE c[p] + 1
    PROVE  \A j \in 1..Len(L) : j < k <=> Key[L[j]] <= Key[n]
<1> DEFINE d == [m \in RbNodes |-> t.child[m][SideBelow(n, m)]]
           F(f) == f = [m \in RbNodes |-> IF t.child[m][SideBelow(n, m)] = NIL
                                          THEN m ELSE f[t.child[m][SideBelow(n, m)]]]
           last == CHOOSE f : F(f)
           Out(m) == \A j \in 1..Len(L) :
                        /\ j < e[m]["left"] => Key[L[j]] <= Key[n]
                        /\ j > e[m]["right"] => Key[L[j]] > Key[n]
           G == {m \in InTree(t) : Out(m)}
<1>1. \A m \in RbNodes : SideBelow(n, m) \in Sides /\ d[m] = Kid(t, m, SideBelow(n, m))
  BY DEF Kid, SideBelow, Sides
<1>2. d \in [RbNodes -> RbLinks]
  BY <1>1, LinkedParts
<1>3. \A f : LastOf(d, f) <=> F(f)
  BY DEF LastOf
<1>4. p = last[Top(t)] /\ Top(t) # NIL
  BY DEF InsertParent, Top
<1>5. \E f : F(f)
  BY <1>2, <1>3, LastExists
<1> HIDE DEF F
<1>6. F(last)
  BY <1>5
<1> HIDE DEF d, last
<1>7. LastOf(d, last)
  BY <1>3, <1>6
<1>8. /\ L \in Seq(RbNodes) /\ Len(L) \in Nat
      /\ \A m \in InTree(t) : /\ c[m] \in 1..Len(L) /\ L[c[m]] = m
                              /\ e[m]["left"] \in 1..c[m] /\ e[m]["right"] \in c[m]..Len(L)
      /\ \A m \in InTree(t), q \in Sides : Kid(t, m, q) = NIL => e[m][q] = c[m]
      /\ \A m \in InTree(t), q \in Sides : Kid(t, m, q) # NIL =>
            e[Kid(t, m, q)][q] = e[m][q] /\ e[Kid(t, m, q)][Other(q)] = c[m] + Dir(q)
  BY SpreadParts
<1>9. /\ \A m \in InTree(t) : m \in RbNodes /\ m # NIL
      /\ \A m \in RbNodes, q \in Sides : Kid(t, m, q) # NIL => Kid(t, m, q) \in InTree(t)
      /\ \A m \in RbNodes : Key[m] \in Int
      /\ \A j \in 1..Len(L) : L[j] \in RbNodes
  BY <1>8, InTreeIs, KidInTree DEF RbAssumption
<1>10. \A i, j \in 1..Len(L) : i <= j => Key[L[i]] <= Key[L[j]]
  BY DEF Ordered
<1>11. Top(t) \in G
  <2>1. Top(t) \in InTree(t) /\ e[Top(t)]["left"] = 1 /\ e[Top(t)]["right"] = Len(L)
    BY <1>4, LinkedParts, InTreeIs DEF Spread, RbLinks
  <2> QED BY <1>8, <2>1
<1>12. \A S \in SUBSET InTree(t) : S # {} => \E m \in S : d[m] \notin S
  <2> SUFFICES ASSUME NEW S \in SUBSET InTree(t), S # {} PROVE \E m \in S : d[m] \notin S
    OBVIOUS
  <2>1. PICK m \in S : \A q \in Sides : Kid(t, m, q) \notin S
    BY Ends
  <2> QED BY <1>1, <1>9, <2>1
<1>13. ASSUME NEW m \in G, d[m] # NIL PROVE d[m] \in G
  <2> DEFINE q == SideBelow(n, m)
             h == Kid(t, m, q)
  <2>1. m \in InTree(t) /\ m \in RbNodes /\ Out(m) /\ q \in Sides /\ d[m] = h
    BY <1>1, <1>9
  <2>2. h \in InTree(t) /\ e[h][q] = e[m][q] /\ e[h][Other(q)] = c[m] + Dir(q)
    BY <1>8, <1>9, <1>13, <2>1
  <2>3. c[m] \in 1..Len(L) /\ L[c[m]] = m /\ Key[m] \in Int /\ Key[n] \in Int
    BY <1>8, <1>9, <2>1
  <2>4. q = IF Key[n] < Key[m] THEN "left" ELSE "right"
    BY DEF SideBelow
  <2> HIDE DEF q, h
  <2>5. ASSUME NEW j \in 1..Len(L)
        PROVE  /\ j < e[h]["left"] => Key[L[j]] <= Key[n]
               /\ j > e[h]["right"] => Key[L[j]] > Key[n]
    <3>1. Key[L[j]] \in Int /\ (j <= c[m] => Key[L[j]] <= Key[m]) /\ (c[m] <= j => Key[m] <= Key[L[j]])
      BY <1>9, <1>10, <2>3
    <3>2. CASE Key[n] < Key[m]
      <4>1. e[h]["left"] = e[m]["left"] /\ e[h]["right"] = c[m] - 1
        BY <2>2, <2>3, <2>4, <3>2, SideNames
      <4> QED BY <2>1, <2>3, <3>1, <3>2, <4>1
    <3>3. CASE ~(Key[n] < Key[m])
      <4>1. e[h]["right"] = e[m]["right"] /\ e[h]["left"] = c[m] + 1
        BY <2>2, <2>3, <2>4, <3>3, SideNames
      <4> QED BY <2>1, <2>3, <3>1, <3>3, <4>1
    <3> QED BY <3>2, <3>3
  <2> QED BY <2>1, <2>2, <2>5
<1>14. G \in SUBSET InTree(t) /\ InTree(t) \in SUBSET RbNodes
  BY <1>9
<1> HIDE DEF G
<1>15. p \in G /\ d[p] = NIL
  BY <1>4, <1>7, <1>11, <1>12, <1>13, <1>14, LastStays
<1>16. p \in InTree(t) /\ Out(p) /\ p \in RbNodes
  BY <1>9, <1>15 DEF G
<1>17. /\ e[p][SideBelow(n, p)] = c[p] /\ c[p] \in 1..Len(L) /\ L[c[p]] = p
       /\ Key[p] \in Int /\ Key[n] \in Int
  BY <1>1, <1>8, <1>9, <1>15, <1>16
<1> SUFFICES ASSUME NEW j \in 1..Len(L) PROVE j < k <=> Key[L[j]] <= Key[n]
  OBVIOUS
<1>18. /\ Key[L[j]] \in Int /\ (j <= c[p] => Key[L[j]] <= Key[p])
       /\ (c[p] <= j => Key[p] <= Key[L[j]])
  BY <1>9, <1>10, <1>17
<1>19. CASE Key[n] < Key[p]
  <2>1. k = c[p] /\ e[p]["left"] = c[p]
    BY <1>17, <1>19 DEF SideBelow
  <2> QED BY <1>16, <1>17, <1>18, <1>19, <2>1
<1>20. CASE ~(Key[n] < Key[p])
  <2>1. k = c[p] + 1 /\ e[p]["right"] = c[p]
    BY <1>17, <1>20 DEF SideBelow
  <2> QED BY <1>16, <1>17, <1>18, <1>20, <2>1
<1> QED BY <1>19, <1>20

(* An insertion is one of the ordered list.                                *)
LEMMA InsertSorted ==
    ASSUME RbAssumption, NEW t, Linked(t), NEW L, Lists(t, L), Ordered(L),
           NEW n \in RbNodes, n \notin InTree(t), NEW u, u = Inserted(t, n)
    PROVE  \E k \in 1..Len(L) + 1 :
              /\ \A j \in 1..Len(L) : j < k <=> Key[L[j]] <= Key[n]
              /\ Lists(u, OL!InsertAt(L, k, n)) /\ Ordered(OL!InsertAt(L, k, n))
<1>1. PICK c, e : Spread(t, L, c, e)
  BY DEF Lists
<1>2. PICK p \in RbLinks, s \in Sides :
              /\ IF p = NIL THEN Top(t) = NIL ELSE p \in InTree(t) /\ Kid(t, p, s) = NIL
              /\ p = InsertParent(t, n) /\ (p # NIL => s = SideBelow(n, p))
              /\ Hung(u, t, n, p, s)
  BY InsertedIs
<1> DEFINE k == IF p = NIL THEN 1 ELSE IF s = "left" THEN c[p] ELSE c[p] + 1
           M == OL!InsertAt(L, k, n)
<1>3. k \in 1..Len(L) + 1 /\ Lists(u, M)
  BY <1>1, <1>2, HungLists
<1>4. L \in Seq(RbNodes) /\ Len(L) \in Nat
  BY <1>1, SpreadParts
<1>5. \A j \in 1..Len(L) : j < k <=> Key[L[j]] <= Key[n]
  <2>1. CASE p = NIL
    <3>1. InTree(t) = {}
      <4> SUFFICES ASSUME NEW m \in InTree(t) PROVE FALSE
        OBVIOUS
      <4>1. Top(t) \in InTree(t) /\ Top(t) = NIL
        BY <1>2, <2>1, TopIs
      <4> QED BY <4>1, InTreeIs DEF RbAssumption
    <3>2. \A j \in 1..Len(L) : L[j] \in InTree(t)
      BY <1>1 DEF Spread
    <3> QED BY <3>1, <3>2
  <2>2. CASE p # NIL
    <3>1. k = IF SideBelow(n, p) = "left" THEN c[p] ELSE c[p] + 1
      BY <1>2, <2>2
    <3> HIDE DEF k
    <3> QED BY <1>1, <1>2, <2>2, <3>1, InsertPlace
  <2> QED BY <2>1, <2>2
<1> HIDE DEF k
<1>6. /\ M \in Seq(RbNodes) /\ Len(M) = Len(L) + 1
      /\ \A i \in 1..Len(M) : M[i] = IF i < k THEN L[i] ELSE IF i = k THEN n ELSE L[i - 1]
  BY <1>3, <1>4, Placed
<1>7. /\ \A i, j \in 1..Len(L) : i <= j => Key[L[i]] <= Key[L[j]]
      /\ \A j \in 1..Len(L) : Key[L[j]] \in Int
      /\ Key[n] \in Int /\ Key[n] <= Key[n]
  BY <1>4 DEF Ordered, RbAssumption
<1> HIDE DEF M
<1>8. Ordered(M)
  <2> SUFFICES ASSUME NEW i \in 1..Len(M), NEW j \in 1..Len(M), i <= j
               PROVE  Key[M[i]] <= Key[M[j]]
    BY DEF Ordered
  <2>1. i \in Int /\ j \in Int /\ k \in Int /\ 1 <= k /\ i <= Len(L) + 1 /\ j <= Len(L) + 1 /\ 1 <= i
    BY <1>3, <1>4, <1>6
  <2>2. CASE i < k
    <3>1. M[i] = L[i] /\ i \in 1..Len(L) /\ Key[L[i]] <= Key[n]
      BY <1>3, <1>4, <1>5, <1>6, <2>1, <2>2
    <3>2. CASE j < k
      BY <1>4, <1>3, <1>6, <1>7, <2>1, <3>1, <3>2
    <3>3. CASE j = k
      BY <1>6, <3>1, <3>3
    <3>4. CASE j > k
      <4>1. M[j] = L[j - 1] /\ j - 1 \in 1..Len(L) /\ i <= j - 1
        BY <1>4, <1>6, <2>1, <2>2, <3>4
      <4> QED BY <1>7, <3>1, <4>1
    <3> QED BY <2>1, <3>2, <3>3, <3>4
  <2>3. CASE i = k
    <3>1. M[i] = n
      BY <1>6, <2>1, <2>3
    <3>2. CASE j = k
      BY <1>7, <2>3, <3>1, <3>2
    <3>3. CASE j > k
      <4>1. M[j] = L[j - 1] /\ j - 1 \in 1..Len(L) /\ ~(j - 1 < k)
        BY <1>4, <1>6, <2>1, <3>3
      <4>2. Key[L[j - 1]] \in Int /\ ~(Key[L[j - 1]] <= Key[n])
        BY <1>5, <1>7, <4>1
      <4> QED BY <1>7, <3>1, <4>1, <4>2
    <3> QED BY <2>1, <2>3, <3>2, <3>3
  <2>4. CASE i > k
    <3>1. /\ M[i] = L[i - 1] /\ i - 1 \in 1..Len(L) /\ M[j] = L[j - 1] /\ j - 1 \in 1..Len(L)
          /\ i - 1 <= j - 1
      BY <1>4, <1>6, <2>1, <2>4
    <3> QED BY <1>7, <3>1
  <2> QED BY <2>1, <2>2, <2>3, <2>4
<1> QED BY <1>3, <1>5, <1>8 DEF M

(* And an erasure: the successor that takes the place of n comes next.     *)
LEMMA EraseSorted ==
    ASSUME RbAssumption, NEW t, Linked(t), NEW L, Lists(t, L), Ordered(L),
           NEW n \in InTree(t), NEW u, u = Erased(t, n)
    PROVE  \E k \in 1..Len(L) : /\ L[k] = n /\ Lists(u, OL!RemoveAt(L, k))
                                /\ Ordered(OL!RemoveAt(L, k))
<1>1. PICK c, e : Spread(t, L, c, e)
  BY DEF Lists
<1> DEFINE d == Spliced(t, n)
           x == Kid(t, d, IF Kid(t, d, "left") = NIL THEN "right" ELSE "left")
           k == c[n]
           M == OL!RemoveAt(L, k)
           M1 == OL!RemoveAt(L, c[d])
<1>2. /\ d \in InTree(t) /\ Outer(t, d, x)
      /\ \E v : /\ Cut(v, t, d, x) /\ Linked(v) /\ InTree(v) = InTree(t) \ {d}
                /\ IF d = n THEN u = v ELSE Renamed(u, v, n, d)
  BY ErasedIs
<1>3. PICK v : /\ Cut(v, t, d, x) /\ Linked(v) /\ InTree(v) = InTree(t) \ {d}
               /\ IF d = n THEN u = v ELSE Renamed(u, v, n, d)
  BY <1>2
<1>4. /\ L \in Seq(RbNodes) /\ Len(L) \in Nat
      /\ \A m \in InTree(t) : c[m] \in 1..Len(L) /\ L[c[m]] = m
      /\ \A i \in 1..Len(L) : c[L[i]] = i
      /\ \A m \in InTree(t) : m \in RbNodes
  BY <1>1, SpreadParts, InTreeIs DEF Spread
<1>5. k \in 1..Len(L) /\ L[k] = n
  BY <1>4
<1>6. /\ M \in Seq(RbNodes) /\ Len(M) = Len(L) - 1
      /\ \A i \in 1..Len(M) : M[i] = IF i < k THEN L[i] ELSE L[i + 1]
  BY <1>4, <1>5, Dropped
<1> HIDE DEF x
<1>7. Lists(v, M1)
  BY <1>1, <1>2, <1>3, CutLists
<1>8. Lists(u, M)
  <2>1. CASE d = n
    BY <1>3, <1>7, <2>1
  <2>2. CASE d # n
    <3>1. d = Step(t, n, "right")
      BY <2>2 DEF Spliced
    <3>2. d # NIL /\ "right" \in Sides /\ Dir("right") = 1
      BY <1>2, InTreeIs, SideNames DEF RbAssumption
    <3>3. d = L[k + 1] /\ k + 1 \in 1..Len(L)
      BY <1>1, <3>1, <3>2, StepAt
    <3>4. c[d] = k + 1
      BY <1>4, <3>3
    <3>5. /\ M1 \in Seq(RbNodes) /\ Len(M1) = Len(L) - 1
          /\ \A i \in 1..Len(M1) : M1[i] = IF i < k + 1 THEN L[i] ELSE L[i + 1]
      BY <1>4, <3>3, <3>4, Dropped
    <3> DEFINE M2 == [i \in 1..Len(M1) |-> IF M1[i] = n THEN d ELSE M1[i]]
    <3> HIDE DEF M1, M, d
    <3>6. n \in InTree(v) /\ d \in RbNodes /\ d \notin InTree(v) /\ Renamed(u, v, n, d)
      BY <1>2, <1>3, <1>4, <2>2
    <3>7. Lists(u, M2)
      BY <1>3, <1>7, <3>6, RenamedLists
    <3>8. M2 = M
      <4>1. \A i \in 1..Len(M1) : M1[i] \in RbNodes
        BY <3>5
      <4>2. M2 \in Seq(RbNodes) /\ Len(M2) = Len(M)
        BY <1>4, <1>6, <3>5, <3>6, <4>1
      <4>3. ASSUME NEW i \in 1..Len(M2) PROVE M2[i] = M[i]
        <5>1. i \in Int /\ 1 <= i /\ i <= Len(L) - 1 /\ k \in Int /\ i \in 1..Len(M1) /\ i \in 1..Len(M)
          BY <1>4, <1>5, <1>6, <3>5, <4>2
        <5>2. M2[i] = IF M1[i] = n THEN d ELSE M1[i]
          BY <5>1
        <5> HIDE DEF M2, k
        <5>3. CASE i < k
          <6>1. M1[i] = L[i] /\ M[i] = L[i] /\ i \in 1..Len(L)
            BY <1>4, <1>6, <3>5, <5>1, <5>3, SMTT(30)
          <6>2. L[i] # n
            BY <1>4, <5>1, <5>3, <6>1 DEF k
          <6> QED BY <5>2, <6>1, <6>2
        <5>4. CASE i = k
          <6>1. M1[i] = n /\ M[i] = L[k + 1]
            BY <1>5, <1>6, <3>5, <5>1, <5>4
          <6> QED BY <3>3, <5>2, <6>1
        <5>5. CASE i > k
          <6>1. M1[i] = L[i + 1] /\ M[i] = L[i + 1] /\ i + 1 \in 1..Len(L) /\ i + 1 # k
            BY <1>4, <1>6, <3>5, <5>1, <5>5
          <6>2. L[i + 1] # n
            BY <1>4, <6>1 DEF k
          <6> QED BY <5>2, <6>1, <6>2
        <5> QED BY <5>1, <5>3, <5>4, <5>5
      <4> QED BY <1>6, <4>2, <4>3, SeqEqual
    <3> QED BY <3>7, <3>8
  <2> QED BY <2>1, <2>2
<1>9. Ordered(M)
  <2>1. \A i, j \in 1..Len(L) : i <= j => Key[L[i]] <= Key[L[j]]
    BY DEF Ordered
  <2> HIDE DEF M
  <2> SUFFICES ASSUME NEW i \in 1..Len(M), NEW j \in 1..Len(M), i <= j
               PROVE  Key[M[i]] <= Key[M[j]]
    BY DEF Ordered
  <2> DEFINE a == IF i < k THEN i ELSE i + 1
             b == IF j < k THEN j ELSE j + 1
  <2>2. a \in 1..Len(L) /\ b \in 1..Len(L) /\ a <= b
    BY <1>4, <1>5, <1>6
  <2>3. M[i] = L[a] /\ M[j] = L[b]
    BY <1>6
  <2> HIDE DEF a, b
  <2> QED BY <2>1, <2>2, <2>3
<1> QED BY <1>5, <1>8, <1>9

-----------------------------------------------------------------------------
(* The fixups keep the order.                                              *)
LEMMA TurnLists ==
    ASSUME RbAssumption, NEW t, Linked(t), NEW v, Painted(v, t), NEW r \in InTree(t),
           NEW s \in Sides, NEW o, o = Other(s), Kid(t, r, o) # NIL, NEW L, Lists(t, L)
    PROVE  Linked(Rotate(v, r, s)) /\ Lists(Rotate(v, r, s), L)
<1> DEFINE new == Kid(t, r, o)
           mid == Kid(t, new, s)
           u == Rotate(v, r, s)
<1> HIDE DEF u
<1>1. Rotatable(t, r, s, new, mid) /\ Rotated(u, t, r, s, new, mid) /\ Linked(u)
  BY PaintedRotated DEF u
<1> HIDE DEF new, mid
<1> QED BY <1>1, RotatedLists DEF u

(* Those of rb_insert_fixup,                                              *)
LEMMA InsertRotateLists ==
    ASSUME RbAssumption, RbInv, InsertRotate, NEW L, Lists(rbt, L)
    PROVE  Lists(rbt', L)
<1> DEFINE t == rbt
           n == fixnode
           p == Up(t, n)
           g == Up(t, p)
           s == SideOf(t, p)
           o == Other(s)
           u == Rotate(t, p, s)
           inner == IsChild(t, n, o)
<1>1. /\ Linked(t) /\ t \in Trees /\ n \in InTree(t) /\ p \in InTree(t) /\ g \in InTree(t)
      /\ p \in RbNodes /\ g \in RbNodes /\ n \in RbNodes /\ NIL \notin RbNodes
      /\ s \in Sides /\ (\A q \in Sides : Kid(t, g, q) = p <=> q = s) /\ p # g
      /\ o \in Sides /\ o # s /\ Other(o) = s /\ {"RED", "BLACK"} \subseteq Colors
      /\ n # p /\ n # g
  BY InsertSpot, InTreeIs, SidesTwo DEF InsertRotate, Linked, RbAssumption, Colors
<1>2. inner => Kid(t, p, o) = n
  BY <1>1 DEF IsChild, IsRoot, Kid, Up
<1>3. Painted(t, t)
  BY <1>1, PaintNone
<1>4. CASE ~inner
  <2> DEFINE v == SetColor(SetColor(t, p, "BLACK"), g, "RED")
  <2>1. rbt' = Rotate(v, g, o)
    BY <1>4 DEF InsertRotate, Parent, ParentSide, Up
  <2>2. Kid(t, g, s) # NIL
    BY <1>1
  <2> HIDE DEF t, n, p, g, s, o
  <2>3. Painted(v, t)
    BY <1>1, <1>3, PaintOne
  <2> HIDE DEF v
  <2>4. Lists(t, L)
    BY DEF t
  <2> QED BY <1>1, <2>1, <2>2, <2>3, <2>4, TurnLists
<1>5. CASE inner
  <2>1. rbt' = Rotate(SetColor(SetColor(u, Up(u, p), "BLACK"), Up(u, Up(u, p)), "RED"),
                      Up(u, Up(u, p)), o)
    BY <1>5 DEF InsertRotate, Parent, ParentSide, Up
  <2>2. Kid(t, p, o) = n /\ Kid(t, g, s) = p /\ n # NIL /\ g = Up(t, p) /\ Lists(t, L) /\ o = Other(s)
    BY <1>1, <1>2, <1>5
  <2> HIDE DEF t, n, p, g, s, o
  <2> DEFINE mid == Kid(t, n, s)
  <2>3. Linked(u) /\ Lists(u, L)
    BY <1>1, <1>3, <2>2, TurnLists
  <2>4. Rotated(u, t, p, s, n, mid) /\ InTree(u) = InTree(t) /\ Rotatable(t, p, s, n, mid)
    BY <1>1, <1>3, <2>2, PaintedRotated
  <2> HIDE DEF u
  <2>5. Up(u, p) = n /\ Up(u, n) = g /\ Kid(u, g, s) = n
    BY <1>1, <2>2, <2>4 DEF Rotated
  <2> DEFINE v == SetColor(SetColor(u, n, "BLACK"), g, "RED")
  <2>6. rbt' = Rotate(v, g, o)
    BY <2>1, <2>5
  <2>7. Painted(v, u)
    <3>1. Painted(u, u)
      BY <2>3, PaintNone DEF Linked
    <3> QED BY <1>1, <3>1, PaintOne
  <2> HIDE DEF v
  <2> QED BY <1>1, <2>2, <2>3, <2>4, <2>5, <2>6, <2>7, TurnLists
<1> QED BY <1>4, <1>5

(* of the first case of rb_delete_fixup,                                  *)
LEMMA AfterCase1Lists ==
    ASSUME RbAssumption, RbInv, DeleteLoop, NEW L, Lists(rbt, L)
    PROVE  Lists(AfterCase1, L)
<1> DEFINE t == rbt
           r == DeleteParent
           s == DeleteSide
           w == Kid(t, r, Other(s))
           v == SetColor(SetColor(t, w, "BLACK"), r, "RED")
<1>1. DeleteSpot(t, fixnode, r, s) /\ Lists(t, L)
  BY DeleteSpotIs DEF DeleteLoop
<1>2. AfterCase1 = IF IsRed(t, w) THEN Rotate(v, r, s) ELSE t
  BY DEF AfterCase1, Kid
<1> HIDE DEF t, r, s
<1>3. /\ Linked(t) /\ t \in Trees /\ r \in InTree(t) /\ r \in RbNodes /\ NIL \notin RbNodes
      /\ s \in Sides /\ w \in RbNodes /\ {"RED", "BLACK"} \subseteq Colors
  BY <1>1, SpotNodes
<1>4. Painted(t, t)
  BY <1>3, PaintNone
<1>5. Painted(v, t)
  BY <1>3, <1>4, PaintOne
<1>6. w # NIL
  BY <1>3
<1> HIDE DEF v
<1>7. Lists(Rotate(v, r, s), L)
  BY <1>1, <1>3, <1>5, <1>6, TurnLists
<1> QED BY <1>1, <1>2, <1>7

(* of its last case,                                                      *)
LEMMA DeleteRotateLists ==
    ASSUME RbAssumption, RbInv, DeleteRotate, NEW L, Lists(rbt, L)
    PROVE  Lists(rbt', L)
<1> DEFINE t0 == AfterCase1
           x == fixnode
           r == DeleteParent
           s == DeleteSide
           o == Other(s)
           w0 == Sibling
           k == Kid(t0, w0, s)
           near == ~IsRed(t0, Kid(t0, w0, o))
           v3 == SetColor(SetColor(t0, w0, "RED"), k, "BLACK")
           t3 == Rotate(v3, w0, o)
           t == IF near THEN t3 ELSE t0
           w == IF near THEN Up(t, w0) ELSE w0
           v2 == SetColor(SetColor(t, w, Hue(t, r)), r, "BLACK")
           v == SetColor(v2, Kid(v2, w, o), "BLACK")
<1>1. /\ DeleteLoop /\ rbt' = Rotate(v, r, s)
      /\ \E q \in Sides : IsRed(t0, Kid(t0, w0, q))
  BY DEF DeleteRotate, NephewsBlack, Kid, Up, Hue, Top
<1>2. /\ DeleteSpot(t0, x, r, s) /\ w0 = Kid(t0, r, o) /\ Hue(t0, w0) = "BLACK" /\ Lists(t0, L)
  BY <1>1, AfterCase1Is, AfterCase1Lists
<1> HIDE DEF t0, x, r, s, w0
<1>3. /\ r \in RbNodes /\ s \in Sides /\ o \in Sides /\ \A q \in Sides : q = s \/ q = o
      /\ Linked(t0) /\ t0 \in Trees /\ w0 \in InTree(t0) /\ w0 \in RbNodes /\ Other(o) = s
      /\ {"RED", "BLACK"} \subseteq Colors
  BY <1>2, SpotNodes
<1>4. near => IsRed(t0, k)
  BY <1>1, <1>3
<1>5. /\ DeleteSpot(t, x, r, s) /\ w = Kid(t, r, o) /\ Lists(t, L) /\ IsRed(t, Kid(t, w, o))
  <2>1. CASE near
    <3>1. /\ DeleteSpot(t3, x, r, s) /\ Up(t3, w0) = k
          /\ Kid(t3, r, o) = k /\ Kid(t3, k, o) = w0 /\ Hue(t3, w0) = "RED"
      BY <1>2, <1>4, <2>1, Case3
    <3>2. k # NIL /\ k \in RbNodes /\ w0 # NIL
      BY <1>3, <1>4, <2>1, RedIs, LinkedParts DEF RbLinks
    <3>3. Painted(v3, t0)
      <4> HIDE DEF k
      <4>1. Painted(t0, t0)
        BY <1>3, PaintNone
      <4> QED BY <1>3, <3>2, <4>1, PaintOne
    <3>4. Lists(t3, L)
      <4> HIDE DEF v3
      <4> QED BY <1>2, <1>3, <3>2, <3>3, TurnLists
    <3>5. t = t3 /\ w = k
      BY <2>1, <3>1
    <3> HIDE DEF t, w, t3, k
    <3> QED BY <3>1, <3>2, <3>4, <3>5, RedIs
  <2>2. CASE ~near
    BY <1>2, <2>2
  <2> QED BY <2>1, <2>2
<1> HIDE DEF t, w, t3, k
<1>6. /\ t \in Trees /\ w \in RbNodes /\ Hue(t, r) \in Colors /\ "BLACK" \in Colors
      /\ Linked(t) /\ r \in InTree(t) /\ w # NIL
  BY <1>3, <1>5, SpotNodes, LinkedParts
<1>7. Painted(v, t)
  <2>1. Painted(t, t)
    BY <1>6, PaintNone
  <2>2. Painted(SetColor(t, w, Hue(t, r)), t)
    BY <1>6, <2>1, PaintOne
  <2>3. Painted(v2, t)
    BY <1>3, <1>6, <2>2, PaintOne
  <2>4. Kid(v2, w, o) = Kid(t, w, o)
    BY <1>3, <1>6, <2>3 DEF Painted, SameKids
  <2>5. Kid(t, w, o) \in RbNodes
    BY <1>3, <1>5, <1>6, RedIs, LinkedParts DEF RbLinks
  <2> HIDE DEF v2
  <2> QED BY <1>6, <2>3, <2>4, <2>5, PaintOne
<1> HIDE DEF v
<1> QED BY <1>1, <1>3, <1>5, <1>6, <1>7, TurnLists

(* and so of all that a fixup does.                                        *)
LEMMA FixupLists ==
    ASSUME RbAssumption, RbInv, NEW L, Lists(rbt, L),
           \/ InsertRecolor \/ InsertRotate \/ InsertDone
           \/ DeleteRecolor \/ DeleteRotate \/ DeleteDone
    PROVE  Lists(rbt', L)
<1>1. Linked(rbt) /\ rbt \in Trees /\ Painted(rbt, rbt) /\ {"RED", "BLACK"} \subseteq Colors
  BY PaintNone DEF RbInv, Inv, Linked, Colors
<1>2. CASE InsertRecolor
  <2> DEFINE p == Up(rbt, fixnode)
             g == Up(rbt, p)
             k == Kid(rbt, g, Other(SideOf(rbt, p)))
             v == SetColor(SetColor(rbt, p, "BLACK"), k, "BLACK")
  <2>1. rbt' = SetColor(v, g, "RED") /\ InsertLoop /\ IsRed(rbt, k)
    BY <1>2 DEF InsertRecolor, Parent, Grand, ParentSide, Uncle, Up, Kid
  <2>2. p \in RbNodes /\ g \in RbNodes /\ SideOf(rbt, p) \in Sides
    BY <2>1, InsertSpot, InTreeIs
  <2>3. k \in RbNodes
    BY <1>1, <2>1, <2>2, RedIs, LinkedParts, SidesTwo DEF RbLinks
  <2> HIDE DEF p, g, k
  <2>4. Painted(SetColor(rbt, p, "BLACK"), rbt)
    BY <1>1, <2>2, PaintOne
  <2>5. Painted(v, rbt)
    BY <1>1, <2>3, <2>4, PaintOne
  <2> HIDE DEF v
  <2>6. Painted(rbt', rbt)
    BY <1>1, <2>1, <2>2, <2>5, PaintOne
  <2> QED BY <1>1, <2>6, PaintedLists
<1>3. CASE InsertRotate
  BY <1>3, InsertRotateLists
<1>4. CASE InsertDone
  <2>1. fixnode \in InTree(rbt) /\ rbt' = SetColor(rbt, Top(rbt), "BLACK")
    BY <1>4 DEF RbInv, Inv, InsertDone, Top
  <2>2. Top(rbt) \in RbNodes
    BY <1>1, <2>1, TopIs, InTreeIs
  <2>3. Painted(rbt', rbt)
    BY <1>1, <2>1, <2>2, PaintOne
  <2> QED BY <1>1, <2>3, PaintedLists
<1>5. CASE DeleteRecolor
  <2> DEFINE t == AfterCase1
             w == Sibling
  <2>1. DeleteLoop /\ rbt' = SetColor(t, w, "RED")
    BY <1>5 DEF DeleteRecolor
  <2>2. DeleteSpot(t, fixnode, DeleteParent, DeleteSide) /\ w = Kid(t, DeleteParent, Other(DeleteSide))
    BY <2>1, AfterCase1Is
  <2>3. Lists(t, L)
    BY <2>1, AfterCase1Lists
  <2> HIDE DEF t, w
  <2>4. Linked(t) /\ t \in Trees /\ w \in RbNodes
    BY <2>2, SpotNodes
  <2>5. Painted(t, t)
    BY <2>4, PaintNone
  <2>6. Painted(rbt', t)
    BY <1>1, <2>1, <2>4, <2>5, PaintOne
  <2> QED BY <2>3, <2>4, <2>6, PaintedLists
<1>6. CASE DeleteRotate
  BY <1>6, DeleteRotateLists
<1>7. CASE DeleteDone
  <2>1. rbt' = rbt \/ \E n \in RbNodes : rbt' = SetColor(rbt, n, "BLACK")
    <3>1. fixnode \in RbLinks /\ Top(rbt) \in RbLinks
      BY <1>1, LinkedParts, InTreeIs DEF RbInv, Inv, RbLinks
    <3> QED BY <1>7, <3>1 DEF DeleteDone, Top, RbLinks
  <2>2. Painted(rbt', rbt)
    BY <1>1, <2>1, PaintOne
  <2> QED BY <1>1, <2>2, PaintedLists
<1> QED BY <1>2, <1>3, <1>4, <1>5, <1>6, <1>7

-----------------------------------------------------------------------------
(* The tree of rb_init lists nothing.                                     *)
LEMMA EmptySorted ==
    ASSUME RbAssumption, NEW t, Linked(t), Top(t) = NIL
    PROVE  Lists(t, <<>>) /\ Ordered(<<>>)
<1>1. InTree(t) = {}
  <2> SUFFICES ASSUME NEW m \in InTree(t) PROVE FALSE
    OBVIOUS
  <2>1. Top(t) \in InTree(t)
    BY TopIs
  <2> QED BY <2>1, InTreeIs DEF RbAssumption
<1>2. <<>> \in Seq(RbNodes) /\ Len(<<>>) = 0
  OBVIOUS
<1>3. Spread(t, <<>>, NIL, NIL)
  BY <1>1, <1>2 DEF Spread
<1> QED BY <1>2, <1>3 DEF Lists, Ordered

(* A step is one of the ordered list, or leaves the order as it is.       *)
LEMMA SortedStep ==
    ASSUME RbAssumption, RbInv, RbInv', Sorted(rbt), [RbNext]_rbVars
    PROVE  Sorted(rbt)' /\ [OL!Next]_InOrder
<1>1. PICK L : Lists(rbt, L) /\ Ordered(L)
  BY DEF Sorted
<1>2. Linked(rbt) /\ Linked(rbt')
  BY DEF RbInv, Inv
<1>3. InOrder = L
  BY <1>1, <1>2, ListsIs DEF InOrder
<1>4. ASSUME NEW M, Lists(rbt', M) PROVE InOrder' = M
  BY <1>2, <1>4, ListsIs DEF InOrder
<1>5. ASSUME NEW n \in RbNodes, RbInsert(n) PROVE Sorted(rbt)' /\ OL!Next
  <2>1. n \notin InTree(rbt) /\ rbt' = Inserted(rbt, n)
    BY <1>5 DEF RbInsert, Inserted
  <2>2. PICK k \in 1..Len(L) + 1 :
              /\ \A j \in 1..Len(L) : j < k <=> Key[L[j]] <= Key[n]
              /\ Lists(rbt', OL!InsertAt(L, k, n)) /\ Ordered(OL!InsertAt(L, k, n))
    BY <1>1, <1>2, <2>1, InsertSorted
  <2>3. InOrder' = OL!InsertAt(L, k, n)
    BY <1>4, <2>2
  <2>4. \A i \in 1..Len(L) : L[i] # n
    BY <1>1, <2>1 DEF Lists, Spread
  <2>5. OL!Insert(n)
    <3>1. ~OL!Contains(L, n)
      BY <2>4 DEF OL!Contains
    <3> HIDE DEF InOrder
    <3> QED BY <1>3, <2>2, <2>3, <3>1 DEF OL!Insert
  <2> QED BY <2>2, <2>5 DEF OL!Next, Sorted
<1>6. ASSUME NEW n \in RbNodes, RbErase(n) PROVE Sorted(rbt)' /\ OL!Next
  <2>1. n \in InTree(rbt) /\ rbt' = Erased(rbt, n)
    BY <1>6 DEF RbErase, Erased
  <2>2. PICK k \in 1..Len(L) : /\ L[k] = n /\ Lists(rbt', OL!RemoveAt(L, k))
                              /\ Ordered(OL!RemoveAt(L, k))
    BY <1>1, <1>2, <2>1, EraseSorted
  <2>3. InOrder' = OL!RemoveAt(L, k)
    BY <1>4, <2>2
  <2>4. OL!Erase(n)
    BY <1>3, <2>2, <2>3 DEF OL!Erase
  <2> QED BY <2>2, <2>4 DEF OL!Next, Sorted
<1>7. CASE RbDestroy
  <2>1. Top(rbt') = NIL
    BY <1>7 DEF RbDestroy, Top
  <2>2. Lists(rbt', <<>>) /\ Ordered(<<>>)
    BY <1>2, <2>1, EmptySorted
  <2>3. OL!Clear
    BY <1>4, <2>2 DEF OL!Clear
  <2> QED BY <2>2, <2>3 DEF OL!Next, Sorted
<1>8. CASE \/ InsertRecolor \/ InsertRotate \/ InsertDone
           \/ DeleteRecolor \/ DeleteRotate \/ DeleteDone
  <2>1. Lists(rbt', L)
    BY <1>1, <1>8, FixupLists
  <2> QED BY <1>1, <1>3, <1>4, <2>1 DEF Sorted
<1>9. CASE UNCHANGED rbVars
  <2>1. Lists(rbt', L)
    BY <1>1, <1>9 DEF rbVars
  <2> QED BY <1>1, <1>3, <1>4, <2>1 DEF Sorted
<1> QED BY <1>5, <1>6, <1>7, <1>8, <1>9 DEF RbNext

(* The invariant of the order, and the refinement that it carries.        *)
LEMMA SortedInvariance == RbAssumption => (RbSpec => []Sorted(rbt) /\ ImplementsOrderedList)
<1> SUFFICES ASSUME RbAssumption PROVE RbSpec => []Sorted(rbt) /\ ImplementsOrderedList
  OBVIOUS
<1>1. RbInit /\ RbInv => Sorted(rbt) /\ OL!Init
  <2> SUFFICES ASSUME RbInit, RbInv PROVE Sorted(rbt) /\ OL!Init
    OBVIOUS
  <2>1. Linked(rbt) /\ Top(rbt) = NIL
    BY DEF RbInv, Inv, RbInit, Top
  <2>2. Lists(rbt, <<>>) /\ Ordered(<<>>)
    BY <2>1, EmptySorted
  <2>3. InOrder = <<>>
    BY <2>1, <2>2, ListsIs DEF InOrder
  <2> QED BY <2>2, <2>3 DEF Sorted, OL!Init
<1>2. RbInv /\ RbInv' /\ Sorted(rbt) /\ [RbNext]_rbVars => Sorted(rbt)' /\ [OL!Next]_InOrder
  BY SortedStep
<1> QED BY <1>1, <1>2, RbInvariance, PTL DEF RbSpec, ImplementsOrderedList, OL!Spec

(* The tree is an ordered list of its nodes, whatever the keys.            *)
THEOREM RbTreeOrdered == RbAssumption => (RbSpec => ImplementsOrderedList)
BY SortedInvariance

-----------------------------------------------------------------------------
(* A search ends at a node of the key; what is outside a subtree that it   *)
(* enters has other keys.                                                  *)
LEMMA SearchIs ==
    ASSUME RbAssumption, NEW t, Linked(t), NEW L, Lists(t, L), Ordered(L), NEW k \in Int
    PROVE  IF Search(t, k) = NIL THEN \A i \in 1..Len(L) : Key[L[i]] # k
           ELSE Search(t, k) \in InTree(t) /\ Key[Search(t, k)] = k
<1>1. PICK c, e : Spread(t, L, c, e)
  BY DEF Lists
<1> DEFINE side(m) == IF k < Key[m] THEN "left" ELSE "right"
           F(f) == f = [m \in RbLinks |-> IF m = NIL \/ Key[m] = k THEN m
                                          ELSE f[t.child[m][side(m)]]]
           find == CHOOSE f : F(f)
           d == [m \in RbNodes |-> IF Key[m] = k THEN NIL ELSE Kid(t, m, side(m))]
           Out(m) == \A j \in 1..Len(L) :
                        j < e[m]["left"] \/ j > e[m]["right"] => Key[L[j]] # k
           Found(m) == IF m = NIL THEN \A i \in 1..Len(L) : Key[L[i]] # k
                       ELSE m \in InTree(t) /\ Key[m] = k
           S == {m \in InTree(t) : Out(m) /\ ~Found(find[m])}
<1>2. /\ L \in Seq(RbNodes) /\ Len(L) \in Nat
      /\ \A m \in InTree(t) : /\ c[m] \in 1..Len(L) /\ L[c[m]] = m
                              /\ e[m]["left"] \in 1..c[m] /\ e[m]["right"] \in c[m]..Len(L)
      /\ \A m \in InTree(t), q \in Sides : Kid(t, m, q) = NIL => e[m][q] = c[m]
      /\ \A m \in InTree(t), q \in Sides : Kid(t, m, q) # NIL =>
            e[Kid(t, m, q)][q] = e[m][q] /\ e[Kid(t, m, q)][Other(q)] = c[m] + Dir(q)
  BY <1>1, SpreadParts
<1>3. /\ NIL \notin RbNodes /\ \A m \in InTree(t) : m \in RbNodes /\ m # NIL
      /\ \A m \in RbNodes, q \in Sides : Kid(t, m, q) # NIL => Kid(t, m, q) \in InTree(t)
      /\ \A m \in RbNodes : Key[m] \in Int /\ m \in RbLinks
      /\ \A m \in RbLinks : m # NIL => m \in RbNodes
      /\ NIL \in RbLinks
      /\ \A m \in RbNodes, q \in Sides : Kid(t, m, q) \in RbLinks
      /\ \A j \in 1..Len(L) : L[j] \in RbNodes
  BY <1>2, InTreeIs, KidInTree, LinkedParts DEF RbAssumption, RbLinks
<1>4. \A m : side(m) \in Sides
  BY DEF Sides
<1>5. /\ \A i, j \in 1..Len(L) : i <= j => Key[L[i]] <= Key[L[j]]
      /\ Top(t) # NIL => e[Top(t)]["left"] = 1 /\ e[Top(t)]["right"] = Len(L)
      /\ \A i \in 1..Len(L) : L[i] \in InTree(t)
  BY <1>1 DEF Ordered, Spread
<1>6. Search(t, k) = find[Top(t)]
  BY DEF Search, Top
<1>7. \E f : F(f)
  <2>1. d \in [RbNodes -> RbLinks]
    BY <1>3, <1>4
  <2>2. PICK f : LastOf(d, f)
    BY <2>1, LastExists
  <2> DEFINE w == [m \in RbLinks |-> IF m # NIL /\ Key[f[m]] = k THEN f[m] ELSE NIL]
  <2>3. \A m \in RbNodes : f[m] = IF d[m] = NIL THEN m ELSE f[d[m]]
    BY <2>2 DEF LastOf
  <2>4. \A m \in RbNodes : d[m] = IF Key[m] = k THEN NIL ELSE Kid(t, m, side(m))
    OBVIOUS
  <2>5. /\ w[NIL] = NIL /\ \A m \in RbNodes : w[m] = IF Key[f[m]] = k THEN f[m] ELSE NIL
        /\ w = [m \in RbLinks |-> w[m]]
    BY <1>3
  <2> HIDE DEF w, d, side
  <2>6. ASSUME NEW m \in RbNodes PROVE w[m] = IF Key[m] = k THEN m ELSE w[Kid(t, m, side(m))]
    <3>1. CASE Key[m] = k
      BY <1>3, <2>3, <2>4, <2>5, <3>1
    <3>2. CASE Key[m] # k
      <4>1. CASE Kid(t, m, side(m)) = NIL
        BY <2>3, <2>4, <2>5, <3>2, <4>1
      <4>2. CASE Kid(t, m, side(m)) # NIL
        <5>1. Kid(t, m, side(m)) \in RbNodes /\ f[m] = f[Kid(t, m, side(m))]
          BY <1>3, <1>4, <2>3, <2>4, <3>2, <4>2
        <5> QED BY <2>5, <3>2, <5>1
      <4> QED BY <4>1, <4>2
    <3> QED BY <3>1, <3>2
  <2>7. \A m \in RbLinks : w[m] = IF m = NIL \/ Key[m] = k THEN m ELSE w[t.child[m][side(m)]]
    BY <1>3, <2>5, <2>6 DEF Kid
  <2>8. F(w)
    BY <2>5, <2>7
  <2> QED BY <2>8
<1> HIDE DEF F
<1>8. F(find)
  BY <1>7
<1> HIDE DEF find
<1>9. \A m \in RbLinks : find[m] = IF m = NIL \/ Key[m] = k THEN m ELSE find[Kid(t, m, side(m))]
  BY <1>8 DEF F, Kid
<1>10. find[NIL] = NIL
  BY <1>3, <1>9
<1>11. S = {}
  <2> SUFFICES ASSUME S # {} PROVE FALSE
    OBVIOUS
  <2>1. PICK m \in S : \A q \in Sides : Kid(t, m, q) \notin S
    BY Ends
  <2> DEFINE q == side(m)
             h == Kid(t, m, q)
  <2>2. m \in InTree(t) /\ m \in RbNodes /\ Out(m) /\ ~Found(find[m]) /\ q \in Sides /\ m # NIL
    BY <1>3, <1>4, <2>1
  <2>3. Key[m] # k /\ find[m] = find[h]
    BY <1>3, <1>9, <2>2
  <2>4. c[m] \in 1..Len(L) /\ L[c[m]] = m /\ Key[m] \in Int
    BY <1>2, <1>3, <2>2
  <2>5. ASSUME NEW j \in 1..Len(L), IF k < Key[m] THEN j >= c[m] ELSE j <= c[m]
        PROVE  Key[L[j]] # k
    <3>1. /\ Key[L[j]] \in Int /\ (j <= c[m] => Key[L[j]] <= Key[m])
          /\ (c[m] <= j => Key[m] <= Key[L[j]])
      BY <1>3, <1>5, <2>4
    <3> QED BY <2>3, <2>4, <2>5, <3>1
  <2>6. CASE h = NIL
    <3>1. e[m][q] = c[m] /\ find[m] = NIL
      BY <1>2, <1>10, <2>2, <2>3, <2>6
    <3>2. \A j \in 1..Len(L) : Key[L[j]] # k
      <4> SUFFICES ASSUME NEW j \in 1..Len(L) PROVE Key[L[j]] # k
        OBVIOUS
      <4>1. CASE k < Key[m]
        <5>1. e[m]["left"] = c[m]
          BY <3>1, <4>1
        <5>2. j < c[m] \/ j >= c[m]
          BY <2>4
        <5> QED BY <2>2, <2>5, <4>1, <5>1, <5>2
      <4>2. CASE ~(k < Key[m])
        <5>1. e[m]["right"] = c[m]
          BY <3>1, <4>2
        <5>2. j > c[m] \/ j <= c[m]
          BY <2>4
        <5> QED BY <2>2, <2>5, <4>2, <5>1, <5>2
      <4> QED BY <4>1, <4>2
    <3> QED BY <2>2, <3>1, <3>2
  <2>7. CASE h # NIL
    <3>1. h \in InTree(t) /\ e[h][q] = e[m][q] /\ e[h][Other(q)] = c[m] + Dir(q)
      BY <1>2, <1>3, <2>2, <2>7
    <3>2. Out(h)
      <4> SUFFICES ASSUME NEW j \in 1..Len(L), j < e[h]["left"] \/ j > e[h]["right"]
                   PROVE  Key[L[j]] # k
        OBVIOUS
      <4>1. CASE k < Key[m]
        <5>1. e[h]["left"] = e[m]["left"] /\ e[h]["right"] = c[m] - 1
          BY <2>4, <3>1, <4>1, SideNames
        <5>2. j < e[m]["left"] \/ j >= c[m]
          BY <2>4, <5>1
        <5> QED BY <2>2, <2>5, <4>1, <5>2
      <4>2. CASE ~(k < Key[m])
        <5>1. e[h]["right"] = e[m]["right"] /\ e[h]["left"] = c[m] + 1
          BY <2>4, <3>1, <4>2, SideNames
        <5>2. j > e[m]["right"] \/ j <= c[m]
          BY <2>4, <5>1
        <5> QED BY <2>2, <2>5, <4>2, <5>2
      <4> QED BY <4>1, <4>2
    <3>3. h \notin S
      BY <2>1, <2>2
    <3> QED BY <2>2, <2>3, <3>1, <3>2, <3>3
  <2> QED BY <2>6, <2>7
<1>12. CASE Top(t) = NIL
  <2>1. InTree(t) = {}
    <3> SUFFICES ASSUME NEW m \in InTree(t) PROVE FALSE
      OBVIOUS
    <3> QED BY <1>3, <1>12, TopIs
  <2> QED BY <1>5, <1>6, <1>10, <1>12, <2>1
<1>13. CASE Top(t) # NIL
  <2>1. Top(t) \in InTree(t)
    BY <1>13, LinkedParts, InTreeIs DEF RbLinks
  <2>2. Out(Top(t))
    BY <1>2, <1>5, <1>13
  <2>3. Found(find[Top(t)])
    BY <1>11, <2>1, <2>2
  <2> QED BY <1>6, <2>3
<1> QED BY <1>12, <1>13

(* In a sorted tree the lookups answer as a list would.                   *)
LEMMA SortedLookups ==
    ASSUME RbAssumption, RbInv, Sorted(rbt)
    PROVE  LookupsAgree
<1>1. PICK L : Lists(rbt, L) /\ Ordered(L)
  BY DEF Sorted
<1>2. PICK c, e : Spread(rbt, L, c, e)
  BY <1>1 DEF Lists
<1>3. Linked(rbt)
  BY DEF RbInv, Inv
<1>4. InOrder = L
  BY <1>1, <1>3, ListsIs DEF InOrder
<1> DEFINE At(i) == IF i \in DOMAIN L THEN L[i] ELSE NIL
<1>5. /\ L \in Seq(RbNodes) /\ Len(L) \in Nat /\ DOMAIN L = 1..Len(L)
      /\ \A i \in 1..Len(L) : L[i] \in InTree(rbt) /\ c[L[i]] = i
      /\ Top(rbt) # NIL => e[Top(rbt)]["left"] = 1 /\ e[Top(rbt)]["right"] = Len(L)
  BY <1>2 DEF Spread
<1>6. ASSUME NEW s \in Sides
      PROVE  Outermost(rbt, rbt.root, s) = IF s = "left" THEN At(1) ELSE At(Len(L))
  <2>1. CASE Top(rbt) = NIL
    <3>1. Outermost(rbt, rbt.root, s) = NIL
      BY <2>1 DEF Outermost, Top
    <3>2. Len(L) = 0
      <4>1. Len(L) # 0 => 1 \in 1..Len(L)
        BY <1>5
      <4>2. InTree(rbt) = {}
        <5> SUFFICES ASSUME NEW m \in InTree(rbt) PROVE FALSE
          OBVIOUS
        <5>1. Top(rbt) \in InTree(rbt)
          BY <1>3, TopIs
        <5> QED BY <2>1, <5>1, InTreeIs DEF RbAssumption
      <4> QED BY <1>5, <4>1, <4>2
    <3> QED BY <1>5, <3>1, <3>2
  <2>2. CASE Top(rbt) # NIL
    <3>1. Top(rbt) \in InTree(rbt) /\ Top(rbt) = rbt.root
      BY <1>3, <2>2, LinkedParts, InTreeIs DEF RbLinks, Top
    <3>2. e[Top(rbt)][s] \in 1..Len(L) /\ Outermost(rbt, Top(rbt), s) = L[e[Top(rbt)][s]]
      BY <1>2, <1>3, <3>1, OutermostAt
    <3> QED BY <1>5, <2>2, <3>1, <3>2, SideNames
  <2> QED BY <2>1, <2>2
<1>7. ASSUME NEW i \in 1..Len(L), NEW s \in Sides
      PROVE  Step(rbt, L[i], s) = IF s = "right" THEN At(i + 1) ELSE At(i - 1)
  <2>1. Step(rbt, L[i], s) = IF i + Dir(s) \in 1..Len(L) THEN L[i + Dir(s)] ELSE NIL
    <3>1. L[i] \in InTree(rbt) /\ c[L[i]] = i
      BY <1>5
    <3>2. Step(rbt, L[i], s) = IF c[L[i]] + Dir(s) \in 1..Len(L) THEN L[c[L[i]] + Dir(s)] ELSE NIL
      BY <1>2, <1>3, <3>1, StepAt
    <3> QED BY <3>1, <3>2
  <2>2. CASE s = "right"
    BY <1>5, <2>1, <2>2, SideNames
  <2>3. CASE s = "left"
    <3>1. i + Dir(s) = i - 1
      BY <2>3, SideNames
    <3> QED BY <1>5, <2>1, <2>3, <3>1
  <2> QED BY <2>2, <2>3, SideNames
<1>8. ASSUME NEW n \in RbNodes
      PROVE  IF Search(rbt, Key[n]) = NIL THEN \A i \in DOMAIN L : Key[L[i]] # Key[n]
             ELSE Search(rbt, Key[n]) \in InTree(rbt) /\ Key[Search(rbt, Key[n])] = Key[n]
  <2>1. Key[n] \in Int
    BY DEF RbAssumption
  <2> QED BY <1>1, <1>3, <1>5, <2>1, SearchIs
<1> HIDE DEF At
<1>9. "left" \in Sides /\ "right" \in Sides /\ "left" # "right"
  BY SideNames
<1>10. /\ Outermost(rbt, rbt.root, "left") = At(1)
       /\ Outermost(rbt, rbt.root, "right") = At(Len(L))
       /\ \A i \in DOMAIN L : /\ Step(rbt, L[i], "right") = At(i + 1)
                              /\ Step(rbt, L[i], "left") = At(i - 1)
  BY <1>5, <1>6, <1>7, <1>9
<1> QED BY <1>4, <1>8, <1>10 DEF LookupsAgree, At

(* rb_search finds a node of every key in the tree and of no other, and    *)
(* rb_first, rb_last, rb_next and rb_prev walk the nodes in order.         *)
THEOREM RbLookups == RbAssumption => (RbSpec => []LookupsAgree)
<1> SUFFICES ASSUME RbAssumption PROVE RbSpec => []LookupsAgree
  OBVIOUS
<1>1. RbInv /\ Sorted(rbt) => LookupsAgree
  BY SortedLookups
<1> QED BY <1>1, RbInvariance, SortedInvariance, PTL
=============================================================================
