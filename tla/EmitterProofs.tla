---------------------------- MODULE EmitterProofs ----------------------------
(***************************************************************************)
(* What the search tree and the event emitter promise, for every set of    *)
(* names and callbacks and every depth of nested emissions.  The tree has  *)
(* no dangling back pointers and loses no node, and a search finds what    *)
(* was last inserted.  The emitter keeps its entries in such a tree:       *)
(* callbacks given with on stay, and callbacks given with once do not come *)
(* back.                                                                   *)
(***************************************************************************)
EXTENDS EvEmitter, SequenceTheorems, FiniteSetTheorems, WellFoundedInduction, TLAPS

-----------------------------------------------------------------------------
(* The invariant of the search tree.  A place is a link of a node of the   *)
(* tree t, or the head of t, which is the link of no node.                 *)
LinksOf(t, a) == IF a = NULL THEN {"head"} ELSE IF t.node[a].c = TCHAR THEN {"l"} ELSE {"l", "e", "r"}
Holds(t, a, b) == IF a = NULL THEN t.head ELSE t.node[a][b]
Spots(t) == DOMAIN t.node \cup {NULL}

Cell == [c : Int, l : Ids \cup {NULL}, e : Ids \cup Values \cup {NULL}, r : Ids \cup {NULL}]

(* Trees, sound or not.                                                    *)
Shaped(t) ==
    /\ t \in [head : Ids \cup {NULL}, node : UNION {[S -> Cell] : S \in SUBSET Ids}]
    /\ \A n \in DOMAIN t.node : t.node[n].c = TCHAR => t.node[n].e \in Values

(* A node can be labelled with the one place where it is (up and side),    *)
(* its height over the leaves, at most top (high), the characters that     *)
(* lead to it (pre), and the keys whose search comes by (via).             *)
Placed(t, g) ==
    /\ \A n \in DOMAIN t.node :
          /\ g.up[n] \in Spots(t) /\ g.side[n] \in LinksOf(t, g.up[n])
          /\ Holds(t, g.up[n], g.side[n]) = n
    /\ \A a \in Spots(t) : \A b \in LinksOf(t, a) : Holds(t, a, b) # NULL =>
          /\ Holds(t, a, b) \in DOMAIN t.node
          /\ g.up[Holds(t, a, b)] = a /\ g.side[Holds(t, a, b)] = b

Ranked(t, g) ==
    /\ g.top \in Nat
    /\ \A n \in DOMAIN t.node :
          /\ g.high[n] \in 0..g.top
          /\ g.up[n] # NULL => g.high[n] < g.high[g.up[n]]

(* The characters that lead to a place, and the keys that go by it.        *)
Prefix(t, g, a, b) ==
    IF a = NULL THEN <<>>
    ELSE IF b = "e" THEN Append(g.pre[a], t.node[a].c) ELSE g.pre[a]

Sent(t, g, a, b) ==
    IF a = NULL THEN Keys
    ELSE {k \in g.via[a] :
             LET c == Char(k, Len(g.pre[a]) + 1) IN
             c # TCHAR /\ (t.node[a].c = TCHAR \/ Branch(c, t.node[a].c) = b)}

(* The key k begins with s.                                                *)
Begins(k, s) == Len(s) <= Len(k) /\ \A i \in 1..Len(s) : k[i] = s[i]

Routed(t, g) ==
    \A n \in DOMAIN t.node :
        /\ g.pre[n] \in Seq(Int) /\ g.via[n] \in SUBSET Keys
        /\ g.pre[n] = Prefix(t, g, g.up[n], g.side[n])
        /\ g.via[n] = Sent(t, g, g.up[n], g.side[n])
        /\ \A k \in g.via[n] : Begins(k, g.pre[n])

(* A vnode is the e of a node, or the head, and points back to that node   *)
(* or nowhere.                                                             *)
Backed(t, g) ==
    \A n \in DOMAIN t.node : t.node[n].c = TCHAR =>
        /\ g.side[n] \in {"head", "e"}
        /\ g.up[n] # NULL => t.node[g.up[n]].c # TCHAR
        /\ t.node[n].r # NULL => g.up[n] = t.node[n].r

(* The vnodes are the keys of d, each where its search comes by.           *)
Spelled(t, g, d) ==
    /\ \A n \in DOMAIN t.node : t.node[n].c = TCHAR =>
          g.pre[n] \in g.via[n] /\ d[g.pre[n]] = t.node[n].e
    /\ \A k \in Keys : d[k] # NULL =>
          \E n \in DOMAIN t.node : t.node[n].c = TCHAR /\ g.pre[n] = k

Sound(t, g) == Shaped(t) /\ Placed(t, g) /\ Ranked(t, g) /\ Routed(t, g) /\ Backed(t, g)

(* The invariant: there are such labels.                                   *)
Kept(t, d) == \E g : Sound(t, g) /\ Spelled(t, g, d)

(* What is at a place is a node, of the keys that go by the place.         *)
LEMMA PlaceHolds ==
    ASSUME NEW t, NEW g, Sound(t, g), NEW a \in Spots(t), NEW b \in LinksOf(t, a),
           Holds(t, a, b) # NULL, NEW n, n = Holds(t, a, b)
    PROVE  /\ n \in DOMAIN t.node /\ g.up[n] = a /\ g.side[n] = b
           /\ g.pre[n] = Prefix(t, g, a, b) /\ g.via[n] = Sent(t, g, a, b)
           /\ a # NULL => g.high[n] < g.high[a]
<1>1. n \in DOMAIN t.node /\ g.up[n] = a /\ g.side[n] = b
  BY DEF Sound, Placed
<1> QED BY <1>1 DEF Sound, Routed, Ranked

(* What the tree is made of.                                               *)
LEMMA Parts ==
    ASSUME NEW t, NEW g, Sound(t, g)
    PROVE  /\ DOMAIN t.node \in SUBSET Ids /\ t.head \in Ids \cup {NULL}
           /\ t.node \in [DOMAIN t.node -> Cell]
           /\ \A n \in DOMAIN t.node : /\ t.node[n] \in Cell /\ n # NULL /\ n \in Int
                                       /\ t.node[n].c \in Int
BY TreeAssumption DEF Sound, Shaped, TreeAssumption, Ids, Cell

(* A key is a sequence of characters, and is followed by TCHAR.            *)
LEMMA KeyIs ==
    ASSUME NEW k \in Keys
    PROVE  /\ k \in Seq(Int \ {TCHAR}) /\ k \in Seq(Int) /\ Len(k) \in Nat
           /\ \A i \in Nat : Char(k, i) \in Int /\ (Char(k, i) = TCHAR <=> i \notin 1..Len(k))
           /\ \A i \in 1..Len(k) : Char(k, i) = k[i]
<1>1. k \in Seq(Int \ {TCHAR})
  BY TreeAssumption DEF TreeAssumption
<1>2. k \in Seq(Int) /\ Len(k) \in Nat /\ \A i \in 1..Len(k) : k[i] \in Int \ {TCHAR}
  BY <1>1
<1> QED BY <1>1, <1>2 DEF Char, TCHAR

(* A key that goes by a place begins with the characters that lead there.  *)
(* Where it ends it can only be at the head or at the e of a node.         *)
LEMMA PlaceSends ==
    ASSUME NEW t, NEW g, Sound(t, g), NEW a \in Spots(t), NEW b \in LinksOf(t, a),
           NEW k \in Sent(t, g, a, b)
    PROVE  /\ k \in Keys /\ Prefix(t, g, a, b) \in Seq(Int)
           /\ Begins(k, Prefix(t, g, a, b))
           /\ Char(k, Len(Prefix(t, g, a, b)) + 1) = TCHAR =>
                 b \in {"head", "e"} /\ (a # NULL => t.node[a].c # TCHAR)
<1>1. CASE a = NULL
  <2>1. k \in Keys /\ Prefix(t, g, a, b) = <<>> /\ b = "head"
    BY <1>1 DEF Sent, Prefix, LinksOf
  <2> QED BY <1>1, <2>1, KeyIs DEF Begins
<1>2. CASE a # NULL
  <2> DEFINE p == g.pre[a]
             c == Char(k, Len(p) + 1)
  <2>1. a \in DOMAIN t.node
    BY <1>2 DEF Spots
  <2>2. k \in g.via[a] /\ c # TCHAR /\ (t.node[a].c = TCHAR \/ Branch(c, t.node[a].c) = b)
    BY <1>2 DEF Sent
  <2>3. p \in Seq(Int) /\ k \in Keys /\ Begins(k, p)
    BY <2>1, <2>2 DEF Sound, Routed
  <2>4. /\ p \in Seq(Int) /\ Len(p) \in Nat /\ k \in g.via[a] /\ k \in Keys /\ Begins(k, p)
        /\ c # TCHAR /\ (t.node[a].c = TCHAR \/ Branch(c, t.node[a].c) = b)
        /\ t.node[a].c \in Int
    BY <2>1, <2>2, <2>3, Parts
  <2>5. Len(p) + 1 \in Nat /\ Len(p) + 1 \in 1..Len(k) /\ c = k[Len(p) + 1]
    <3>1. /\ \A i \in Nat : Char(k, i) = TCHAR <=> i \notin 1..Len(k)
          /\ \A i \in 1..Len(k) : Char(k, i) = k[i]
      BY <2>4, KeyIs
    <3>2. Len(p) + 1 \in Nat
      BY <2>4
    <3>3. Len(p) + 1 \in 1..Len(k)
      BY <2>4, <3>1, <3>2
    <3> QED BY <3>1, <3>2, <3>3
  <2>6. CASE b # "e" \/ t.node[a].c = TCHAR
    <3>1. b # "e"
      BY <1>2, <2>6 DEF LinksOf
    <3>2. Prefix(t, g, a, b) = p
      BY <1>2, <3>1 DEF Prefix
    <3> QED BY <2>4, <3>2
  <2>7. CASE b = "e" /\ t.node[a].c # TCHAR
    <3>1. c \in Int
      BY <2>4, <2>5, KeyIs
    <3>2. c = t.node[a].c
      BY <2>4, <2>7 DEF Branch
    <3>3. Prefix(t, g, a, b) = Append(p, c)
      BY <1>2, <2>7, <3>2 DEF Prefix
    <3>4. Append(p, c) \in Seq(Int) /\ Len(Append(p, c)) = Len(p) + 1
          /\ \A i \in 1..Len(p) + 1 : Append(p, c)[i] = IF i = Len(p) + 1 THEN c ELSE p[i]
      BY <2>4, <3>1
    <3>5. Begins(k, Append(p, c))
      BY <2>4, <2>5, <3>4 DEF Begins
    <3> QED BY <2>4, <2>7, <3>3, <3>4, <3>5
  <2> QED BY <2>6, <2>7
<1> QED BY <1>1, <1>2

-----------------------------------------------------------------------------
(* The way down.                                                           *)

Slot == [at : Ids \cup {NULL}, link : {"head", "l", "e", "r"}, i : Nat]

(* A slot that k may go through: i is the character that it has come to.   *)
On(k, s, g) ==
    /\ s \in Slot /\ s.at \in Spots(Tree) /\ s.link \in LinksOf(Tree, s.at)
    /\ k \in Sent(Tree, g, s.at, s.link)
    /\ s.i = Len(Prefix(Tree, g, s.at, s.link)) + 1

(* p goes down for k, if not to the end.                                   *)
Downward(k, p, g) ==
    /\ p \in Seq(Slot) /\ Len(p) \in Nat \ {0} /\ p[1] = Root
    /\ \A j \in 1..Len(p) : On(k, p[j], g)
    /\ \A j \in 1..Len(p) - 1 : ~Stops(k, p[j]) /\ p[j + 1] = Further(k, p[j])

(* The tree as a value is the tree.                                        *)
LEMMA DerefIs ==
    /\ \A s : Deref(s) = Holds(Tree, s.at, s.link)
    /\ \A n : isvnode(n) <=> Tree.node[n].c = TCHAR
    /\ Tree.node = node /\ Tree.head = head
BY DEF Deref, Holds, Tree, isvnode

(* Every key starts at the head.                                           *)
LEMMA RootOn ==
    ASSUME NEW g, NEW k \in Keys
    PROVE  On(k, Root, g)
<1>1. Root.at = NULL /\ Root.link = "head" /\ Root.i = 1 /\ Root \in Slot
  BY DEF Root, Slot
<1> QED BY <1>1 DEF On, Spots, LinksOf, Sent, Prefix

(* From a slot with a node in it k goes on to a lower one.                 *)
LEMMA StepDown ==
    ASSUME NEW g, Sound(Tree, g), NEW k \in Keys, NEW s, On(k, s, g), ~Stops(k, s),
           NEW n, n = Deref(s)
    PROVE  /\ n \in DOMAIN node /\ Further(k, s).at = n /\ On(k, Further(k, s), g)
           /\ s.at # NULL => g.high[n] < g.high[s.at]
<1> DEFINE a == s.at
           b == s.link
           c == Char(k, s.i)
           f == Further(k, s)
<1>1. /\ s \in Slot /\ a \in Spots(Tree) /\ b \in LinksOf(Tree, a) /\ k \in Sent(Tree, g, a, b)
      /\ s.i = Len(Prefix(Tree, g, a, b)) + 1
  BY DEF On
<1>2. n # NULL /\ c # TCHAR /\ n = Holds(Tree, a, b)
  BY DerefIs DEF Stops
<1>3. /\ n \in DOMAIN node /\ g.pre[n] = Prefix(Tree, g, a, b) /\ g.via[n] = Sent(Tree, g, a, b)
      /\ a # NULL => g.high[n] < g.high[a]
  BY <1>1, <1>2, PlaceHolds, DerefIs
<1>4. s.i = Len(g.pre[n]) + 1 /\ k \in g.via[n] /\ Len(g.pre[n]) \in Nat /\ s.i \in Nat
      /\ g.pre[n] \in Seq(Int)
  <2>1. g.pre[n] \in Seq(Int)
    BY <1>3, DerefIs DEF Sound, Routed
  <2> QED BY <1>1, <1>3, <2>1
<1>5. n \in Ids /\ Tree.node[n] = node[n] /\ node[n].c \in Int
  BY <1>3, Parts, DerefIs
<1>6. CASE isvnode(n)
  <2>1. f = [at |-> n, link |-> "l", i |-> s.i]
    BY <1>6 DEF Further
  <2>2. f.at = n /\ f.link = "l" /\ f.i = s.i /\ f \in Slot
    BY <1>4, <1>5, <2>1 DEF Slot
  <2>3. "l" \in LinksOf(Tree, n)
    BY <1>2, <1>6, DerefIs DEF LinksOf
  <2>4. k \in Sent(Tree, g, n, "l")
    BY <1>2, <1>4, <1>6, DerefIs DEF Sent
  <2>5. Prefix(Tree, g, n, "l") = g.pre[n]
    BY <1>2 DEF Prefix
  <2>6. On(k, f, g)
    BY <1>3, <1>4, <2>2, <2>3, <2>4, <2>5, DerefIs DEF On, Spots
  <2> QED BY <1>3, <2>2, <2>6
<1>7. CASE ~isvnode(n)
  <2> DEFINE d == Branch(c, node[n].c)
  <2>1. f = [at |-> n, link |-> d, i |-> IF d = "e" THEN s.i + 1 ELSE s.i]
    BY <1>7 DEF Further
  <2>2. d \in {"l", "e", "r"}
    BY DEF Branch
  <2> HIDE DEF d
  <2>3. f.at = n /\ f.link = d /\ f.i = (IF d = "e" THEN s.i + 1 ELSE s.i) /\ f \in Slot
    BY <1>4, <1>5, <2>2, <2>1 DEF Slot
  <2>4. d \in LinksOf(Tree, n)
    BY <1>2, <1>7, <2>2, DerefIs DEF LinksOf
  <2>5. k \in Sent(Tree, g, n, d)
    BY <1>2, <1>4, <1>7, DerefIs DEF Sent, d
  <2>6. f.i = Len(Prefix(Tree, g, n, d)) + 1
    <3>1. CASE d = "e"
      <4>1. Prefix(Tree, g, n, d) = Append(g.pre[n], node[n].c)
        BY <1>2, <3>1, DerefIs DEF Prefix
      <4> QED BY <1>4, <1>5, <2>3, <3>1, <4>1
    <3>2. CASE d # "e"
      BY <1>2, <1>4, <2>3, <3>2 DEF Prefix
    <3> QED BY <3>1, <3>2
  <2>7. On(k, f, g)
    BY <1>3, <2>3, <2>4, <2>5, <2>6, DerefIs DEF On, Spots
  <2> QED BY <1>3, <2>3, <2>7
<1> QED BY <1>6, <1>7

(* A set of natural numbers that is not empty has a least element.         *)
LEMMA LeastElement ==
    ASSUME NEW S \in SUBSET Nat, S # {}
    PROVE  \E m \in S : \A k \in S : ~(k < m)
<1>1. PICK m \in S : \A k \in S : ~(<<k, m>> \in OpToRel(<, Nat))
  BY NatLessThanWellFounded, WFMin, Zenon
<1>2. ASSUME NEW k \in S, k < m PROVE <<k, m>> \in OpToRel(<, Nat)
  <2>1. k \in Nat /\ m \in Nat
    OBVIOUS
  <2>2. <<k, m>> \in {ss \in Nat \X Nat : ss[1] < ss[2]}
    BY <1>2, <2>1
  <2> QED
    BY <2>2 DEF OpToRel
<1> QED
  BY <1>1, <1>2

(* Going down the nodes are ever lower, so that none is met twice, and the *)
(* way is no longer than there are nodes.                                  *)
LEMMA DownwardLowers ==
    ASSUME NEW g, Sound(Tree, g), NEW k \in Keys, NEW p, Downward(k, p, g),
           NEW j \in 1..Len(p), ~Stops(k, p[j])
    PROVE  /\ Deref(p[j]) \in DOMAIN node /\ g.high[Deref(p[j])] \in Nat
           /\ \A i \in 1..j - 1 : /\ p[i + 1].at = Deref(p[i]) /\ Deref(p[i]) \in DOMAIN node
                                  /\ g.high[Deref(p[j])] < g.high[Deref(p[i])]
<1>1. \A i \in 1..j : /\ ~Stops(k, p[i]) /\ Deref(p[i]) \in DOMAIN node
                      /\ On(k, p[i], g)
                      /\ g.high[Deref(p[i])] \in Nat /\ g.top \in Nat
                      /\ p[i].at # NULL => g.high[Deref(p[i])] < g.high[p[i].at]
  <2>1. SUFFICES ASSUME NEW i \in 1..j
                 PROVE  /\ ~Stops(k, p[i]) /\ Deref(p[i]) \in DOMAIN node
                        /\ On(k, p[i], g)
                        /\ g.high[Deref(p[i])] \in Nat /\ g.top \in Nat
                        /\ p[i].at # NULL => g.high[Deref(p[i])] < g.high[p[i].at]
    OBVIOUS
  <2>2. i \in 1..Len(p) /\ (i # j => i \in 1..Len(p) - 1)
    BY DEF Downward
  <2>3. On(k, p[i], g) /\ ~Stops(k, p[i])
    BY <2>2 DEF Downward
  <2>4. Deref(p[i]) \in DOMAIN node
        /\ (p[i].at # NULL => g.high[Deref(p[i])] < g.high[p[i].at])
    BY <2>3, StepDown
  <2>5. g.high[Deref(p[i])] \in 0..g.top /\ g.top \in Nat
    BY <2>4, DerefIs DEF Sound, Ranked
  <2> QED BY <2>3, <2>4, <2>5
<1>2. \A i \in 1..j - 1 : p[i + 1] = Further(k, p[i]) /\ i \in 1..j /\ i + 1 \in 1..j
  BY DEF Downward
<1>3. \A i \in 1..j - 1 : p[i + 1].at = Deref(p[i])
  BY <1>1, <1>2, StepDown
<1>4. \A i \in 1..j - 1 : g.high[Deref(p[i + 1])] < g.high[Deref(p[i])]
  <2>1. SUFFICES ASSUME NEW i \in 1..j - 1 PROVE g.high[Deref(p[i + 1])] < g.high[Deref(p[i])]
    OBVIOUS
  <2>2. p[i + 1].at = Deref(p[i]) /\ Deref(p[i]) \in DOMAIN node /\ i + 1 \in 1..j
    BY <1>1, <1>2, <1>3
  <2>3. p[i + 1].at # NULL
    BY <2>2, Parts, DerefIs
  <2> QED BY <1>1, <2>2, <2>3
<1> DEFINE h(i) == g.high[Deref(p[i])]
<1>5. \A i \in 1..j : h(i) \in Nat
  BY <1>1
<1>6. \A i \in 1..j - 1 : h(i + 1) < h(i)
  BY <1>4
<1>7. \A i \in 1..j - 1 : h(j) < h(i)
  <2> HIDE DEF h
  <2> DEFINE Bad == {d \in Nat : d + 1 \in 1..j - 1 /\ ~(h(j) < h(j - (d + 1)))}
  <2>1. SUFFICES ASSUME Bad # {} PROVE FALSE
    <3>1. ASSUME NEW i \in 1..j - 1 PROVE h(j) < h(i)
      <4>1. j \in Int /\ j - i - 1 \in Nat /\ (j - i - 1) + 1 \in 1..j - 1 /\ j - ((j - i - 1) + 1) = i
        BY DEF Downward
      <4>2. j - i - 1 \notin Bad
        BY <2>1
      <4> QED BY <4>1, <4>2
    <3> QED BY <3>1
  <2>2. PICK d \in Bad : \A x \in Bad : ~(x < d)
    <3>1. Bad \in SUBSET Nat
      OBVIOUS
    <3> HIDE DEF Bad
    <3> QED BY <2>1, <3>1, LeastElement
  <2>3. j \in Int /\ d \in Nat /\ d + 1 \in 1..j - 1 /\ ~(h(j) < h(j - (d + 1)))
    BY <2>2 DEF Downward
  <2>4. CASE d = 0
    <3>1. j - 1 \in 1..j - 1 /\ j - (d + 1) = j - 1 /\ (j - 1) + 1 = j
      BY <2>3, <2>4
    <3>2. h((j - 1) + 1) < h(j - 1)
      BY <1>6, <3>1
    <3> QED BY <2>3, <3>1, <3>2
  <2>5. CASE d # 0
    <3>1. d - 1 \in Nat /\ (d - 1) + 1 \in 1..j - 1 /\ d - 1 < d
      BY <2>3, <2>5
    <3>2. h(j) < h(j - ((d - 1) + 1))
      BY <2>2, <3>1
    <3>3. j - ((d - 1) + 1) = (j - (d + 1)) + 1 /\ j - (d + 1) \in 1..j - 1 /\ (j - (d + 1)) + 1 \in 1..j /\ j \in 1..j
      BY <2>3, <2>5
    <3>4. h((j - (d + 1)) + 1) < h(j - (d + 1))
      BY <1>6, <3>3
    <3>5. h(j) < h((j - (d + 1)) + 1)
      BY <3>2, <3>3
    <3>6. h(j) \in Nat /\ h(j - (d + 1)) \in Nat /\ h((j - (d + 1)) + 1) \in Nat
      BY <1>5, <3>3
    <3> QED BY <2>3, <3>4, <3>5, <3>6
  <2> QED BY <2>4, <2>5
<1>8. j \in 1..j /\ \A i \in 1..j - 1 : i \in 1..j
  BY DEF Downward
<1> QED BY <1>1, <1>3, <1>7, <1>8

(* What Descent makes in at most K steps.                                  *)
DownOf(k, K, w) ==
    w = [j \in 0..K |-> IF j = 0 THEN <<Root>>
                        ELSE LET path == w[j - 1] IN
                             IF Stops(k, Last(path)) THEN path
                             ELSE Append(path, Further(k, Last(path)))]

(* There is such a function.                                               *)
LEMMA DownExists ==
    ASSUME NEW k, NEW K \in Nat
    PROVE  \E w : DownOf(k, K, w)
<1> DEFINE Bad == {m \in Nat : ~\E w : DownOf(k, m, w)}
           Next1(path) == IF Stops(k, Last(path)) THEN path
                          ELSE Append(path, Further(k, Last(path)))
<1>1. Bad = {}
  <2> SUFFICES ASSUME Bad # {} PROVE FALSE
    OBVIOUS
  <2>1. PICK m \in Bad : \A j \in Bad : ~(j < m)
    <3>1. Bad \in SUBSET Nat
      OBVIOUS
    <3> HIDE DEF Bad
    <3> QED BY <3>1, LeastElement
  <2>2. CASE m = 0
    <3> DEFINE w == [j \in 0..0 |-> <<Root>>]
    <3>1. w = [j \in 0..0 |-> IF j = 0 THEN <<Root>> ELSE Next1(w[j - 1])]
      <4>1. \A j \in 0..0 : j = 0
        OBVIOUS
      <4> HIDE DEF Next1
      <4> QED BY <4>1
    <3> HIDE DEF w
    <3>2. DownOf(k, 0, w)
      BY <3>1 DEF DownOf
    <3> QED BY <2>1, <2>2, <3>2
  <2>3. CASE m # 0
    <3>1. m - 1 \in Nat /\ m - 1 < m
      BY <2>3
    <3>2. PICK v : DownOf(k, m - 1, v)
      BY <2>1, <3>1
    <3>3. v = [j \in 0..m - 1 |-> IF j = 0 THEN <<Root>> ELSE Next1(v[j - 1])]
      BY <3>2 DEF DownOf
    <3> HIDE DEF Next1
    <3> DEFINE u(j) == IF j = m THEN Next1(v[m - 1]) ELSE v[j]
               w == [j \in 0..m |-> u(j)]
    <3>4. ASSUME NEW j \in 0..m
          PROVE  w[j] = IF j = 0 THEN <<Root>> ELSE Next1(w[j - 1])
      <4>1. CASE j = m
        <5>1. m - 1 \in 0..m /\ m - 1 # m
          BY <3>1
        <5>2. w[m - 1] = v[m - 1]
          BY <5>1
        <5>3. w[j] = Next1(v[m - 1])
          BY <4>1
        <5> HIDE DEF w
        <5> QED BY <2>3, <4>1, <5>2, <5>3
      <4>2. CASE j # m
        <5>1. j \in 0..m - 1
          BY <3>1, <4>2
        <5>2. w[j] = v[j]
          BY <4>2
        <5>3. j # 0 => w[j - 1] = v[j - 1]
          BY <3>1, <5>1
        <5>4. v[j] = IF j = 0 THEN <<Root>> ELSE Next1(v[j - 1])
          BY <3>3, <5>1
        <5> HIDE DEF w
        <5> QED BY <5>2, <5>3, <5>4
      <4> QED BY <4>1, <4>2
    <3>5. w = [j \in 0..m |-> w[j]]
      OBVIOUS
    <3> HIDE DEF w
    <3>6. w = [j \in 0..m |-> IF j = 0 THEN <<Root>> ELSE Next1(w[j - 1])]
      BY <3>4, <3>5
    <3>7. DownOf(k, m, w)
      BY <3>6 DEF DownOf, Next1
    <3> QED BY <2>1, <3>7
  <2> QED BY <2>2, <2>3
<1> QED BY <1>1

(* A way down that has not ended has met a new node with every slot, of    *)
(* which there are no more than Room.                                      *)
LEMMA DownwardEnds ==
    ASSUME NEW g, Sound(Tree, g), NEW k \in Keys, NEW p, Downward(k, p, g),
           Len(p) = Room + 1
    PROVE  Stops(k, p[Room + 1])
<1> SUFFICES ASSUME ~Stops(k, p[Room + 1]) PROVE FALSE
  OBVIOUS
<1>1. Room \in Nat /\ Ids = 1..Room
  BY TreeAssumption DEF TreeAssumption, Ids
<1>2. \A j \in 1..Room + 1 : ~Stops(k, p[j]) /\ j \in 1..Len(p)
  BY <1>1 DEF Downward
<1>3. \A j \in 1..Room + 1 :
          /\ Deref(p[j]) \in DOMAIN node /\ g.high[Deref(p[j])] \in Nat
          /\ \A i \in 1..j - 1 : g.high[Deref(p[j])] < g.high[Deref(p[i])]
  BY <1>2, DownwardLowers
<1>4. DOMAIN node \in SUBSET Ids
  BY Parts, DerefIs
<1> DEFINE f == [j \in 1..Room + 1 |-> Deref(p[j])]
<1>5. f \in [1..Room + 1 -> 1..Room]
  BY <1>1, <1>3, <1>4
<1>6. \A x, y \in 1..Room + 1 : x # y => f[x] # f[y]
  <2>1. SUFFICES ASSUME NEW x \in 1..Room + 1, NEW y \in 1..Room + 1, x # y, f[x] = f[y]
                 PROVE  FALSE
    OBVIOUS
  <2>2. Deref(p[x]) = Deref(p[y])
    BY <2>1
  <2>3. CASE x < y
    <3>1. x \in 1..y - 1
      BY <1>1, <2>3
    <3> QED BY <1>3, <2>2, <3>1
  <2>4. CASE y < x
    <3>1. y \in 1..x - 1
      BY <1>1, <2>4
    <3> QED BY <1>3, <2>2, <3>1
  <2> QED BY <1>1, <2>1, <2>3, <2>4
<1> HIDE DEF f
<1>7. /\ IsFiniteSet(1..Room + 1) /\ Cardinality(1..Room + 1) = Room + 1
      /\ IsFiniteSet(1..Room) /\ Cardinality(1..Room) = Room
  <2>1. 1 \in Int /\ Room \in Int /\ Room + 1 \in Int
    BY <1>1
  <2> QED BY <1>1, <2>1, FS_Interval
<1>8. Cardinality(1..Room) < Cardinality(1..Room + 1)
  BY <1>1, <1>7
<1>9. \E x, y \in 1..Room + 1 : x # y /\ f[x] = f[y]
  BY <1>5, <1>7, <1>8, FS_PigeonHole
<1> QED BY <1>6, <1>9

(* Descent(k) goes down for k to the end.                                  *)
LEMMA DescentIs ==
    ASSUME NEW g, Sound(Tree, g), NEW k \in Keys
    PROVE  /\ Downward(k, Descent(k), g)
           /\ Stops(k, Descent(k)[Len(Descent(k))])
<1>1. Room \in Nat
  BY TreeAssumption DEF TreeAssumption
<1>2. PICK w : Descent(k) = w[Room] /\ DownOf(k, Room, w)
  <2>1. \E w : DownOf(k, Room, w)
    BY <1>1, DownExists
  <2> DEFINE v == CHOOSE w : DownOf(k, Room, w)
  <2>2. DownOf(k, Room, v)
    BY <2>1
  <2>3. Descent(k) = v[Room]
    BY DEF Descent, DownOf
  <2> HIDE DEF v
  <2> QED BY <2>2, <2>3
<1>3. /\ w[0] = <<Root>>
      /\ \A j \in 1..Room : w[j] = IF Stops(k, w[j - 1][Len(w[j - 1])]) THEN w[j - 1]
                                   ELSE Append(w[j - 1], Further(k, w[j - 1][Len(w[j - 1])]))
  <2>1. w = [j \in 0..Room |-> IF j = 0 THEN <<Root>>
                               ELSE IF Stops(k, w[j - 1][Len(w[j - 1])]) THEN w[j - 1]
                                    ELSE Append(w[j - 1], Further(k, w[j - 1][Len(w[j - 1])]))]
    BY <1>2, Zenon DEF DownOf, Last
  <2> DEFINE W(j) == IF Stops(k, w[j - 1][Len(w[j - 1])]) THEN w[j - 1]
                     ELSE Append(w[j - 1], Further(k, w[j - 1][Len(w[j - 1])]))
  <2>2. w = [j \in 0..Room |-> IF j = 0 THEN <<Root>> ELSE W(j)]
    BY <2>1
  <2> HIDE DEF W
  <2>3. 0 \in 0..Room /\ \A j \in 1..Room : j \in 0..Room /\ j # 0
    BY <1>1
  <2>4. w[0] = <<Root>>
    BY <2>2, <2>3
  <2>5. \A j \in 1..Room : w[j] = W(j)
    BY <2>2, <2>3
  <2> QED BY <2>4, <2>5 DEF W
<1> DEFINE Good(j) == /\ Downward(k, w[j], g)
                      /\ Len(w[j]) = j + 1 \/ Stops(k, w[j][Len(w[j])])
<1>4. Good(0)
  <2>1. Root \in Slot /\ On(k, Root, g)
    BY RootOn DEF On
  <2>2. <<Root>> \in Seq(Slot) /\ Len(<<Root>>) = 1 /\ <<Root>>[1] = Root
    BY <2>1
  <2> QED BY <1>3, <2>1, <2>2 DEF Downward
<1>5. ASSUME NEW j \in 1..Room, Good(j - 1) PROVE Good(j)
  <2> DEFINE p == w[j - 1]
             s == p[Len(p)]
  <2>1. Downward(k, p, g) /\ (Len(p) = j \/ Stops(k, s))
    BY <1>5
  <2>2. CASE Stops(k, s)
    <3>1. w[j] = p
      BY <1>3, <2>2
    <3> QED BY <2>1, <2>2, <3>1
  <2>3. CASE ~Stops(k, s)
    <3> DEFINE f == Further(k, s)
    <3>1. w[j] = Append(p, f) /\ Len(p) = j
      BY <1>3, <2>1, <2>3
    <3>2. On(k, s, g) /\ p \in Seq(Slot) /\ Len(p) \in Nat \ {0}
      BY <2>1 DEF Downward
    <3>3. On(k, f, g)
      BY <2>3, <3>2, StepDown
    <3>4. f \in Slot
      BY <3>3 DEF On
    <3> HIDE DEF f, p
    <3>5. Append(p, f) \in Seq(Slot) /\ Len(Append(p, f)) = Len(p) + 1
          /\ \A i \in 1..Len(p) + 1 : Append(p, f)[i] = IF i = Len(p) + 1 THEN f ELSE p[i]
      BY <3>2, <3>4
    <3> DEFINE q == w[j]
    <3>6. /\ q \in Seq(Slot) /\ Len(q) = Len(p) + 1 /\ q[Len(p) + 1] = f
          /\ \A i \in 1..Len(p) : q[i] = p[i] /\ i \in 1..Len(q)
          /\ \A i \in 1..Len(q) : i \in 1..Len(p) \/ i = Len(p) + 1
      BY <3>1, <3>2, <3>5
    <3> HIDE DEF q
    <3>7. q[1] = Root /\ Len(q) \in Nat \ {0}
      BY <2>1, <3>2, <3>6 DEF Downward
    <3>8. \A i \in 1..Len(q) : On(k, q[i], g)
      BY <2>1, <3>3, <3>6 DEF Downward
    <3>9. ASSUME NEW i \in 1..Len(q) - 1
          PROVE  ~Stops(k, q[i]) /\ q[i + 1] = Further(k, q[i])
      <4>1. i \in 1..Len(p) /\ q[i] = p[i]
        BY <3>2, <3>6
      <4>2. CASE i = Len(p)
        BY <2>3, <3>6, <4>1, <4>2 DEF f
      <4>3. CASE i # Len(p)
        <5>1. i \in 1..Len(p) - 1 /\ i + 1 \in 1..Len(p)
          BY <3>2, <4>1, <4>3
        <5> QED BY <2>1, <3>6, <4>1, <5>1 DEF Downward
      <4> QED BY <4>2, <4>3
    <3>10. Downward(k, q, g)
      BY <3>6, <3>7, <3>8, <3>9 DEF Downward
    <3> QED BY <3>1, <3>6, <3>10 DEF q
  <2> QED BY <2>2, <2>3
<1>6. Good(Room)
  <2> HIDE DEF Good
  <2> DEFINE Bad == {j \in Nat : j <= Room /\ ~Good(j)}
  <2>1. Bad = {}
    <3> SUFFICES ASSUME Bad # {} PROVE FALSE
      OBVIOUS
    <3>1. PICK j \in Bad : \A i \in Bad : ~(i < j)
      <4>1. Bad \in SUBSET Nat
        OBVIOUS
      <4> HIDE DEF Bad
      <4> QED BY <4>1, LeastElement
    <3>2. j # 0
      BY <1>4, <3>1
    <3>3. j \in 1..Room /\ j - 1 \in Nat /\ j - 1 <= Room /\ j - 1 < j
      BY <1>1, <3>1, <3>2
    <3>4. Good(j - 1)
      BY <3>1, <3>3
    <3> QED BY <1>5, <3>1, <3>3, <3>4
  <2> QED BY <1>1, <2>1
<1>7. CASE Len(w[Room]) = Room + 1
  BY <1>2, <1>6, <1>7, DownwardEnds
<1> QED BY <1>2, <1>6, <1>7

(* The way of a key that goes by a node meets that node.                   *)
LEMMA WayMeets ==
    ASSUME NEW g, Sound(Tree, g), NEW k \in Keys, NEW p, Downward(k, p, g), Stops(k, p[Len(p)]),
           NEW v \in DOMAIN node, k \in g.via[v]
    PROVE  \E j \in 1..Len(p) : Deref(p[j]) = v
<1> DEFINE Missed == {n \in DOMAIN node : k \in g.via[n] /\ ~\E j \in 1..Len(p) : Deref(p[j]) = n}
           Depths == {g.top - g.high[n] : n \in Missed}
<1>0. g.top \in Nat /\ \A n \in DOMAIN node : g.high[n] \in 0..g.top
  BY DerefIs DEF Sound, Ranked
<1> SUFFICES ASSUME Missed # {} PROVE FALSE
  OBVIOUS
<1>1. PICK n \in Missed : \A x \in Missed : ~(g.high[n] < g.high[x])
  <2>1. Depths \in SUBSET Nat
    BY <1>0
  <2>2. PICK d \in Depths : \A x \in Depths : ~(x < d)
    <3> HIDE DEF Depths
    <3>1. Depths # {}
      BY DEF Depths
    <3> QED BY <2>1, <3>1, LeastElement
  <2>3. PICK n \in Missed : d = g.top - g.high[n]
    BY <2>2
  <2>4. ASSUME NEW x \in Missed PROVE ~(g.high[n] < g.high[x])
    <3>1. ~(g.top - g.high[x] < d)
      BY <2>2
    <3> QED BY <1>0, <2>3, <3>1
  <2> QED BY <2>4
<1> DEFINE a == g.up[n]
           b == g.side[n]
<1>2. /\ n \in DOMAIN node /\ k \in g.via[n] /\ \A j \in 1..Len(p) : Deref(p[j]) # n
  BY <1>1
<1>3. /\ a \in Spots(Tree) /\ b \in LinksOf(Tree, a) /\ Holds(Tree, a, b) = n
      /\ k \in Sent(Tree, g, a, b) /\ (a # NULL => g.high[n] < g.high[a])
  BY <1>2, DerefIs DEF Sound, Placed, Routed, Ranked
<1>4. p[1] = Root /\ 1 \in 1..Len(p) /\ Len(p) \in Nat
  BY DEF Downward
<1>5. CASE a = NULL
  <2>1. Deref(p[1]) = n
    BY <1>3, <1>4, <1>5, DerefIs DEF Holds, Root
  <2> QED BY <1>2, <1>4, <2>1
<1>6. CASE a # NULL
  <2>1. a \in DOMAIN node /\ k \in g.via[a]
    BY <1>3, <1>6, DerefIs DEF Spots, Sent
  <2>2. a \notin Missed
    BY <1>1, <1>3, <1>6
  <2>3. PICK j \in 1..Len(p) : Deref(p[j]) = a
    BY <2>1, <2>2
  <2> DEFINE s == p[j]
  <2>4. On(k, s, g)
    BY DEF Downward
  <2>5. s.i = Len(g.pre[a]) + 1
    <3>1. Deref(s) # NULL /\ Deref(s) = Holds(Tree, s.at, s.link)
      BY <1>6, <2>3, DerefIs
    <3>2. g.pre[a] = Prefix(Tree, g, s.at, s.link)
      BY <2>3, <2>4, <3>1, PlaceHolds DEF On
    <3> QED BY <2>4, <3>2 DEF On
  <2>6. Char(k, s.i) # TCHAR /\ (isvnode(a) \/ Branch(Char(k, s.i), node[a].c) = b)
    BY <1>3, <1>6, <2>5, DerefIs DEF Sent
  <2>7. ~Stops(k, s)
    BY <1>6, <2>3, <2>6 DEF Stops
  <2>8. j \in 1..Len(p) - 1 /\ j + 1 \in 1..Len(p)
    <3>1. j # Len(p)
      BY <2>7
    <3> QED BY <1>4, <3>1
  <2>9. p[j + 1] = Further(k, s)
    BY <2>8 DEF Downward
  <2>10. Further(k, s).at = a /\ Further(k, s).link = b
    <3>1. CASE isvnode(a)
      <4>1. b = "l"
        BY <1>3, <1>6, <3>1, DerefIs DEF LinksOf
      <4> QED BY <2>3, <3>1, <4>1 DEF Further
    <3>2. CASE ~isvnode(a)
      BY <2>3, <2>6, <3>2 DEF Further
    <3> QED BY <3>1, <3>2
  <2>11. Deref(p[j + 1]) = n
    BY <1>3, <2>9, <2>10, DerefIs
  <2> QED BY <1>2, <2>8, <2>11
<1> QED BY <1>5, <1>6

(* Two sequences of the same length with the same elements.                *)
LEMMA BeginsAll ==
    ASSUME NEW k \in Keys, NEW s \in Seq(Int), Begins(k, s), Char(k, Len(s) + 1) = TCHAR
    PROVE  k = s
<1>1. k \in Seq(Int) /\ Len(k) \in Nat /\ Len(s) \in Nat /\ Len(s) + 1 \notin 1..Len(k)
  BY KeyIs
<1>2. Len(k) = Len(s)
  BY <1>1 DEF Begins
<1> QED BY <1>1, <1>2, SeqEqual DEF Begins

(* What the slot where the way of k ends holds, if anything: the node to   *)
(* which just the characters of k lead.                                    *)
LEMMA WayEnds ==
    ASSUME NEW g, Sound(Tree, g), NEW k \in Keys, NEW s, s = Last(Descent(k)),
           NEW n, n = Deref(s), n # NULL
    PROVE  n \in DOMAIN node /\ g.pre[n] = k /\ k \in g.via[n]
<1>1. On(k, s, g) /\ Stops(k, s)
  BY DescentIs DEF Downward, Last
<1>2. /\ n \in DOMAIN node /\ g.pre[n] = Prefix(Tree, g, s.at, s.link) /\ k \in g.via[n]
  BY <1>1, PlaceHolds, DerefIs DEF On
<1>3. Char(k, Len(g.pre[n]) + 1) = TCHAR
  BY <1>1, <1>2 DEF On, Stops
<1>4. g.pre[n] \in Seq(Int) /\ Begins(k, g.pre[n])
  BY <1>2, DerefIs DEF Sound, Routed
<1> QED BY <1>2, <1>3, <1>4, BeginsAll

(* Where the way of k ends is the vnode of k, if there is one.             *)
LEMMA WayFinds ==
    ASSUME NEW g, Sound(Tree, g), NEW v \in DOMAIN node, isvnode(v),
           g.pre[v] \in g.via[v]
    PROVE  Deref(Last(Descent(g.pre[v]))) = v
<1> DEFINE k == g.pre[v]
           p == Descent(k)
<1>1. k \in Keys /\ k \in Seq(Int)
  BY DerefIs DEF Sound, Routed
<1>2. Downward(k, p, g) /\ Stops(k, p[Len(p)])
  BY <1>1, DescentIs
<1>3. PICK j \in 1..Len(p) : Deref(p[j]) = v
  BY <1>1, <1>2, WayMeets
<1>4. v # NULL
  BY Parts, DerefIs
<1>5. On(k, p[j], g)
  BY <1>2 DEF Downward
<1>6. p[j].i = Len(k) + 1
  <2>1. k = Prefix(Tree, g, p[j].at, p[j].link)
    BY <1>3, <1>4, <1>5, PlaceHolds, DerefIs DEF On
  <2> QED BY <1>5, <2>1 DEF On
<1>7. Stops(k, p[j])
  BY <1>1, <1>6, KeyIs DEF Stops
<1>8. j = Len(p)
  <2>1. j \notin 1..Len(p) - 1
    BY <1>2, <1>7 DEF Downward
  <2>2. Len(p) \in Nat
    BY <1>2 DEF Downward
  <2> QED BY <2>1, <2>2
<1> QED BY <1>3, <1>8 DEF Last

(* A search finds what the vnodes spell.                                   *)
LEMMA SearchIs ==
    ASSUME NEW g, Sound(Tree, g), Spelled(Tree, g, dict)
    PROVE  SearchAgrees
<1> SUFFICES ASSUME NEW k \in Keys PROVE tst_search(k) = dict[k]
  BY DEF SearchAgrees
<1> DEFINE n == Deref(Last(Descent(k)))
<1>1. CASE n # NULL /\ isvnode(n)
  <2>1. n \in DOMAIN node /\ g.pre[n] = k /\ k \in g.via[n]
    BY <1>1, WayEnds
  <2>2. dict[k] = node[n].e
    BY <1>1, <2>1, DerefIs DEF Spelled
  <2> QED BY <1>1, <2>2 DEF tst_search
<1>2. CASE ~(n # NULL /\ isvnode(n))
  <2>1. tst_search(k) = NULL
    BY <1>2 DEF tst_search
  <2>2. ASSUME dict[k] # NULL PROVE FALSE
    <3>1. PICK v \in DOMAIN node : isvnode(v) /\ g.pre[v] = k
      BY <2>2, DerefIs DEF Spelled
    <3>2. g.pre[v] \in g.via[v]
      BY <3>1, DerefIs DEF Spelled
    <3>3. n = v
      BY <3>1, <3>2, WayFinds
    <3>4. v # NULL
      BY Parts, DerefIs
    <3> QED BY <1>2, <3>1, <3>3, <3>4
  <2> QED BY <2>1, <2>2
<1> QED BY <1>1, <1>2

(* What Reachable makes.                                                   *)
FromOf(w) ==
    w = [n \in DOMAIN node |->
            {n} \cup UNION {w[node[n][k]] :
                               k \in {k \in IF isvnode(n) THEN {"l"} ELSE {"l", "e", "r"} : node[n][k] # NULL}}]

(* There is such a function: the nodes that must be in every set that has  *)
(* n and what its members have below them.                                 *)
LEMMA FromExists ==
    ASSUME NEW g, Sound(Tree, g)
    PROVE  \E w : FromOf(w)
<1> DEFINE D == DOMAIN node
           Below1(n) == {node[n][k] : k \in {k \in LinksOf(Tree, n) : node[n][k] # NULL}}
           Closed(S) == \A n \in S : Below1(n) \subseteq S
           From(n) == {m \in D : \A S \in SUBSET D : n \in S /\ Closed(S) => m \in S}
           w == [n \in D |-> From(n)]
<1>1. ASSUME NEW n \in D PROVE Below1(n) \subseteq D
  <2>1. n # NULL /\ n \in Spots(Tree)
    BY Parts, DerefIs DEF Spots
  <2>2. \A k \in LinksOf(Tree, n) : node[n][k] # NULL => node[n][k] \in D
    BY <2>1, PlaceHolds, DerefIs DEF Holds
  <2> QED BY <2>2
<1> HIDE DEF Below1
<1>2. ASSUME NEW n \in D
      PROVE  From(n) = {n} \cup UNION {From(m) : m \in Below1(n)}
  <2> DEFINE U == {n} \cup UNION {From(m) : m \in Below1(n)}
  <2>1. U \subseteq From(n)
    <3>1. n \in From(n)
      OBVIOUS
    <3>2. ASSUME NEW m \in Below1(n), NEW x \in From(m) PROVE x \in From(n)
      <4>1. \A S \in SUBSET D : n \in S /\ Closed(S) => m \in S
        BY <1>1
      <4> QED BY <4>1
    <3> QED BY <3>1, <3>2
  <2>2. Closed(U) /\ U \in SUBSET D
    <3>1. U \in SUBSET D
      BY <1>1
    <3>2. \A m \in D : m \in From(m)
      OBVIOUS
    <3>3. ASSUME NEW x \in U PROVE Below1(x) \subseteq U
      <4>1. CASE x = n
        BY <1>1, <3>2, <4>1
      <4>2. CASE x # n
        <5>1. PICK m \in Below1(n) : x \in From(m)
          BY <4>2
        <5>2. Below1(x) \subseteq From(m)
          <6>1. ASSUME NEW y \in Below1(x) PROVE y \in From(m)
            <7>1. x \in D /\ y \in D
              BY <1>1, <5>1
            <7>2. ASSUME NEW S \in SUBSET D, m \in S, Closed(S) PROVE y \in S
              BY <5>1, <7>2
            <7> QED BY <7>1, <7>2
          <6> QED BY <6>1
        <5> QED BY <5>2
      <4> QED BY <4>1, <4>2
    <3> QED BY <3>1, <3>3
  <2>3. From(n) \subseteq U
    BY <2>2
  <2> QED BY <2>1, <2>3
<1>3. ASSUME NEW n \in D
      PROVE  w[n] = {n} \cup UNION {w[m] : m \in Below1(n)}
  <2>1. \A m \in Below1(n) : w[m] = From(m)
    BY <1>1
  <2>2. w[n] = From(n)
    OBVIOUS
  <2> HIDE DEF w, From
  <2> QED BY <1>2, <2>1, <2>2
<1>4. w = [n \in D |-> w[n]]
  OBVIOUS
<1> HIDE DEF w
<1>5. ASSUME NEW n \in D
      PROVE  w[n] = {n} \cup UNION {w[node[n][k]] :
                       k \in {k \in IF isvnode(n) THEN {"l"} ELSE {"l", "e", "r"} : node[n][k] # NULL}}
  <2>1. LinksOf(Tree, n) = IF isvnode(n) THEN {"l"} ELSE {"l", "e", "r"}
    BY Parts, DerefIs DEF LinksOf
  <2>2. {w[m] : m \in Below1(n)} = {w[node[n][k]] : k \in {k \in LinksOf(Tree, n) : node[n][k] # NULL}}
    BY DEF Below1
  <2> QED BY <1>3, <2>1, <2>2
<1>6. FromOf(w)
  BY <1>4, <1>5 DEF FromOf
<1> QED BY <1>6

(* Every node can be reached.                                              *)
LEMMA ReachableIs ==
    ASSUME NEW g, Sound(Tree, g)
    PROVE  Reachable = DOMAIN node
<1>1. PICK w : Reachable = (IF head = NULL THEN {} ELSE w[head]) /\ FromOf(w)
  <2>1. \E w : FromOf(w)
    BY FromExists
  <2> DEFINE v == CHOOSE w : FromOf(w)
  <2>2. FromOf(v)
    BY <2>1
  <2>3. Reachable = IF head = NULL THEN {} ELSE v[head]
    BY DEF Reachable, FromOf
  <2> HIDE DEF v
  <2> QED BY <2>2, <2>3
<1>2. g.top \in Nat /\ \A n \in DOMAIN node : g.high[n] \in 0..g.top /\ g.high[n] \in Nat
  BY DerefIs DEF Sound, Ranked
<1>3. ASSUME NEW n \in DOMAIN node
      PROVE  /\ n \in w[n]
             /\ \A k \in LinksOf(Tree, n) : node[n][k] # NULL =>
                   /\ w[node[n][k]] \subseteq w[n] /\ node[n][k] \in DOMAIN node
                   /\ g.high[node[n][k]] < g.high[n]
             /\ \A x \in w[n] : x = n \/ \E k \in LinksOf(Tree, n) : node[n][k] # NULL /\ x \in w[node[n][k]]
  <2>1. LinksOf(Tree, n) = (IF isvnode(n) THEN {"l"} ELSE {"l", "e", "r"}) /\ n # NULL /\ n \in Spots(Tree)
    BY Parts, DerefIs DEF LinksOf, Spots
  <2>2. w[n] = {n} \cup UNION {w[node[n][k]] : k \in {k \in LinksOf(Tree, n) : node[n][k] # NULL}}
    BY <1>1, <2>1 DEF FromOf
  <2>3. \A k \in LinksOf(Tree, n) : node[n][k] # NULL =>
           node[n][k] \in DOMAIN node /\ g.high[node[n][k]] < g.high[n]
    BY <2>1, PlaceHolds, DerefIs DEF Holds
  <2> HIDE DEF FromOf
  <2> QED BY <2>2, <2>3
<1>4. ASSUME NEW n \in DOMAIN node PROVE w[n] \subseteq DOMAIN node
  <2> DEFINE Bad == {x \in DOMAIN node : ~(w[x] \subseteq DOMAIN node)}
             Heights == {g.high[x] : x \in Bad}
  <2> SUFFICES ASSUME Bad # {} PROVE FALSE
    OBVIOUS
  <2>1. PICK d \in Heights : \A x \in Heights : ~(x < d)
    <3>1. Heights \in SUBSET Nat /\ Heights # {}
      BY <1>2
    <3> HIDE DEF Heights
    <3> QED BY <3>1, LeastElement
  <2>2. PICK x \in Bad : d = g.high[x]
    BY <2>1
  <2>3. \A y \in DOMAIN node : g.high[y] < g.high[x] => w[y] \subseteq DOMAIN node
    BY <2>1, <2>2
  <2> QED BY <1>3, <2>2, <2>3
<1>5. ASSUME head # NULL, NEW n \in DOMAIN node PROVE w[n] \subseteq w[head]
  <2> DEFINE Bad == {x \in DOMAIN node : ~(w[x] \subseteq w[head])}
             Depths == {g.top - g.high[x] : x \in Bad}
  <2> SUFFICES ASSUME Bad # {} PROVE FALSE
    OBVIOUS
  <2>1. PICK d \in Depths : \A x \in Depths : ~(x < d)
    <3>1. Depths \in SUBSET Nat /\ Depths # {}
      BY <1>2
    <3> HIDE DEF Depths
    <3> QED BY <3>1, LeastElement
  <2>2. PICK x \in Bad : d = g.top - g.high[x]
    BY <2>1
  <2>3. ASSUME NEW y \in DOMAIN node, g.high[x] < g.high[y] PROVE w[y] \subseteq w[head]
    <3>1. g.top - g.high[y] < d
      BY <1>2, <2>2, <2>3
    <3> QED BY <2>1, <2>3, <3>1
  <2> DEFINE a == g.up[x]
             b == g.side[x]
  <2>4. a \in Spots(Tree) /\ b \in LinksOf(Tree, a) /\ Holds(Tree, a, b) = x /\ x # NULL
    BY Parts, DerefIs DEF Sound, Placed
  <2>5. CASE a = NULL
    BY <2>4, <2>5, DerefIs DEF Holds
  <2>6. CASE a # NULL
    <3>1. a \in DOMAIN node /\ node[a][b] = x
      BY <2>4, <2>6, DerefIs DEF Spots, Holds
    <3>2. w[x] \subseteq w[a] /\ g.high[x] < g.high[a]
      BY <1>3, <2>4, <3>1
    <3> QED BY <2>3, <3>1, <3>2
  <2> QED BY <2>5, <2>6
<1>6. CASE head = NULL
  <2>1. ASSUME NEW n \in DOMAIN node PROVE FALSE
    <3> DEFINE Depths == {g.top - g.high[x] : x \in DOMAIN node}
    <3>1. PICK d \in Depths : \A x \in Depths : ~(x < d)
      <4>1. Depths \in SUBSET Nat /\ Depths # {}
        BY <1>2
      <4> HIDE DEF Depths
      <4> QED BY <4>1, LeastElement
    <3>2. PICK x \in DOMAIN node : d = g.top - g.high[x]
      BY <3>1
    <3> DEFINE a == g.up[x]
               b == g.side[x]
    <3>3. a \in Spots(Tree) /\ b \in LinksOf(Tree, a) /\ Holds(Tree, a, b) = x /\ x # NULL
          /\ (a # NULL => g.high[x] < g.high[a])
      BY Parts, DerefIs DEF Sound, Placed, Ranked
    <3>4. a # NULL
      BY <1>6, <3>3, DerefIs DEF Holds
    <3>5. a \in DOMAIN node
      BY <3>3, <3>4, DerefIs DEF Spots
    <3>6. g.top - g.high[a] < d
      BY <1>2, <3>2, <3>3, <3>4, <3>5
    <3> QED BY <3>1, <3>5, <3>6
  <2> QED BY <1>1, <1>6, <2>1
<1>7. CASE head # NULL
  <2>1. head \in DOMAIN node
    BY <1>7, PlaceHolds, DerefIs DEF Spots, LinksOf, Holds
  <2>2. DOMAIN node \subseteq w[head]
    BY <1>3, <1>5, <1>7
  <2> QED BY <1>1, <1>4, <1>7, <2>1, <2>2
<1> QED BY <1>6, <1>7

(* Back pointers lead to the node whose e the vnode is.                    *)
LEMMA BackPointersAre ==
    ASSUME NEW g, Sound(Tree, g)
    PROVE  BackPointersSound
<1>1. ASSUME NEW v \in DOMAIN node, isvnode(v), node[v].r # NULL
      PROVE  node[v].r \in DOMAIN node /\ node[node[v].r].e = v
  <2> DEFINE a == node[v].r
  <2>1. g.up[v] = a /\ g.side[v] \in {"head", "e"}
    BY <1>1, DerefIs DEF Sound, Backed
  <2>2. a \in Spots(Tree) /\ g.side[v] \in LinksOf(Tree, a) /\ Holds(Tree, a, g.side[v]) = v
    BY <2>1, DerefIs DEF Sound, Placed
  <2>3. a \in DOMAIN node
    BY <1>1, <2>2, DerefIs DEF Spots
  <2>4. g.side[v] = "e"
    BY <1>1, <2>1, <2>2 DEF LinksOf
  <2> QED BY <1>1, <2>2, <2>3, <2>4, DerefIs DEF Holds
<1> QED BY <1>1, ReachableIs DEF BackPointersSound

-----------------------------------------------------------------------------
(* What the operations are put together from.                              *)

(* Storing in a place changes what is there and nothing else.              *)
LEMMA StoreIs ==
    ASSUME NEW t, Shaped(t), NEW s, s.at \in Spots(t), s.link \in LinksOf(t, s.at),
           NEW x \in Ids \cup {NULL}, NEW u, u = Store(t, s, x)
    PROVE  /\ Shaped(u) /\ DOMAIN u.node = DOMAIN t.node
           /\ u.head = IF s.at = NULL THEN x ELSE t.head
           /\ \A n \in DOMAIN t.node : \A f \in {"c", "l", "e", "r"} :
                 u.node[n][f] = IF n = s.at /\ f = s.link THEN x ELSE t.node[n][f]
<1>1. /\ t \in [head : Ids \cup {NULL}, node : UNION {[S -> Cell] : S \in SUBSET Ids}]
      /\ \A n \in DOMAIN t.node : t.node[n].c = TCHAR => t.node[n].e \in Values
  BY DEF Shaped
<1>2. DOMAIN t.node \in SUBSET Ids /\ t.node \in [DOMAIN t.node -> Cell] /\ t.head \in Ids \cup {NULL}
  BY <1>1
<1>3. NULL \notin DOMAIN t.node
  BY <1>2, TreeAssumption DEF TreeAssumption
<1>4. CASE s.at = NULL
  <2>1. u = [t EXCEPT !.head = x]
    BY <1>4 DEF Store
  <2>2. u.head = x /\ u.node = t.node /\ u \in [head : Ids \cup {NULL}, node : UNION {[S -> Cell] : S \in SUBSET Ids}]
    BY <1>1, <2>1
  <2>3. \A n \in DOMAIN t.node : n # s.at
    BY <1>3, <1>4
  <2> QED BY <1>1, <1>4, <2>2, <2>3 DEF Shaped
<1>5. CASE s.at # NULL
  <2> DEFINE a == s.at
             b == s.link
             cell == [t.node[a] EXCEPT ![b] = x]
  <2>1. a \in DOMAIN t.node /\ b \in {"l", "e", "r"} /\ t.node[a] \in Cell
        /\ (t.node[a].c = TCHAR => b = "l")
    BY <1>2, <1>5 DEF Spots, LinksOf
  <2>2. u = [t EXCEPT !.node[a][b] = x]
    BY <1>5 DEF Store
  <2>3. u.head = t.head /\ u.node = [t.node EXCEPT ![a] = cell]
    BY <1>1, <2>1, <2>2
  <2>4. /\ cell \in Cell
        /\ \A f \in {"c", "l", "e", "r"} : cell[f] = IF f = b THEN x ELSE t.node[a][f]
    <3>1. t.node[a] = [c |-> t.node[a].c, l |-> t.node[a].l, e |-> t.node[a].e, r |-> t.node[a].r]
      BY <2>1 DEF Cell
    <3>2. CASE b = "l"
      BY <2>1, <3>2 DEF Cell
    <3>3. CASE b = "e"
      BY <2>1, <3>3 DEF Cell
    <3>4. CASE b = "r"
      BY <2>1, <3>4 DEF Cell
    <3> QED BY <2>1, <3>2, <3>3, <3>4
  <2> HIDE DEF cell
  <2>5. DOMAIN u.node = DOMAIN t.node /\ u.node \in [DOMAIN t.node -> Cell]
        /\ \A n \in DOMAIN t.node : u.node[n] = IF n = a THEN cell ELSE t.node[n]
    BY <1>2, <2>3, <2>4
  <2>6. u \in [head : Ids \cup {NULL}, node : UNION {[S -> Cell] : S \in SUBSET Ids}]
    <3>1. u = [head |-> u.head, node |-> u.node]
      BY <1>1, <2>2
    <3>2. u.node \in UNION {[S -> Cell] : S \in SUBSET Ids}
      BY <1>2, <2>5
    <3> QED BY <1>2, <2>3, <3>1, <3>2
  <2>7. \A n \in DOMAIN t.node : \A f \in {"c", "l", "e", "r"} :
           u.node[n][f] = IF n = a /\ f = b THEN x ELSE t.node[n][f]
    BY <2>4, <2>5
  <2>8. ASSUME NEW n \in DOMAIN u.node, u.node[n].c = TCHAR PROVE u.node[n].e \in Values
    <3>1. u.node[n].c = t.node[n].c /\ n \in DOMAIN t.node
      BY <2>1, <2>5, <2>7
    <3>2. u.node[n].e = t.node[n].e
      BY <2>1, <2>7, <2>8, <3>1
    <3> QED BY <1>1, <2>8, <3>1, <3>2
  <2> QED BY <1>5, <2>3, <2>5, <2>6, <2>7, <2>8 DEF Shaped
<1> QED BY <1>4, <1>5

(* Nodes of their own are added.                                           *)
LEMMA AllocIs ==
    ASSUME NEW t, Shaped(t), NEW new, NEW u, u = Alloc(t, new),
           DOMAIN new \in SUBSET (Ids \ DOMAIN t.node), new \in [DOMAIN new -> Cell],
           \A n \in DOMAIN new : new[n].c = TCHAR => new[n].e \in Values
    PROVE  /\ Shaped(u) /\ DOMAIN u.node = DOMAIN t.node \cup DOMAIN new /\ u.head = t.head
           /\ \A n \in DOMAIN t.node : u.node[n] = t.node[n]
           /\ \A n \in DOMAIN new : u.node[n] = new[n]
<1>1. /\ t \in [head : Ids \cup {NULL}, node : UNION {[S -> Cell] : S \in SUBSET Ids}]
      /\ \A n \in DOMAIN t.node : t.node[n].c = TCHAR => t.node[n].e \in Values
  BY DEF Shaped
<1>2. DOMAIN t.node \in SUBSET Ids /\ t.node \in [DOMAIN t.node -> Cell] /\ t.head \in Ids \cup {NULL}
  BY <1>1
<1> DEFINE f == [n \in DOMAIN t.node \cup DOMAIN new |-> IF n \in DOMAIN new THEN new[n] ELSE t.node[n]]
<1>3. u = [t EXCEPT !.node = f]
  BY DEF Alloc
<1>4. /\ f \in [DOMAIN t.node \cup DOMAIN new -> Cell] /\ DOMAIN f = DOMAIN t.node \cup DOMAIN new
      /\ \A n \in DOMAIN t.node : f[n] = t.node[n]
      /\ \A n \in DOMAIN new : f[n] = new[n]
  BY <1>2
<1> HIDE DEF f
<1>5. u = [head |-> t.head, node |-> f]
  BY <1>1, <1>3
<1>6. u.head = t.head /\ u.node = f
  BY <1>5
<1>7. f \in UNION {[S -> Cell] : S \in SUBSET Ids}
  <2>1. DOMAIN t.node \cup DOMAIN new \in SUBSET Ids
    BY <1>2
  <2> QED BY <1>4, <2>1
<1>8. u \in [head : Ids \cup {NULL}, node : UNION {[S -> Cell] : S \in SUBSET Ids}]
  BY <1>2, <1>5, <1>7
<1>9. \A n \in DOMAIN u.node : u.node[n].c = TCHAR => u.node[n].e \in Values
  BY <1>1, <1>4, <1>6
<1> QED BY <1>4, <1>6, <1>8, <1>9 DEF Shaped

(* A node is taken away.                                                   *)
LEMMA FreeIs ==
    ASSUME NEW t, Shaped(t), NEW x, NEW u, u = Free(t, x)
    PROVE  /\ Shaped(u) /\ DOMAIN u.node = DOMAIN t.node \ {x} /\ u.head = t.head
           /\ \A n \in DOMAIN t.node \ {x} : u.node[n] = t.node[n]
<1>1. /\ t \in [head : Ids \cup {NULL}, node : UNION {[S -> Cell] : S \in SUBSET Ids}]
      /\ \A n \in DOMAIN t.node : t.node[n].c = TCHAR => t.node[n].e \in Values
  BY DEF Shaped
<1>2. DOMAIN t.node \in SUBSET Ids /\ t.node \in [DOMAIN t.node -> Cell] /\ t.head \in Ids \cup {NULL}
  BY <1>1
<1> DEFINE f == [n \in DOMAIN t.node \ {x} |-> t.node[n]]
<1>3. u = [t EXCEPT !.node = f]
  BY DEF Free
<1>4. /\ f \in [DOMAIN t.node \ {x} -> Cell] /\ DOMAIN f = DOMAIN t.node \ {x}
      /\ \A n \in DOMAIN t.node \ {x} : f[n] = t.node[n]
  BY <1>2
<1> HIDE DEF f
<1>5. u = [head |-> t.head, node |-> f]
  BY <1>1, <1>3
<1>6. u.head = t.head /\ u.node = f
  BY <1>5
<1>7. f \in UNION {[S -> Cell] : S \in SUBSET Ids}
  <2>1. DOMAIN t.node \ {x} \in SUBSET Ids
    BY <1>2
  <2> QED BY <1>4, <2>1
<1>8. u \in [head : Ids \cup {NULL}, node : UNION {[S -> Cell] : S \in SUBSET Ids}]
  BY <1>2, <1>5, <1>7
<1>9. \A n \in DOMAIN u.node : u.node[n].c = TCHAR => u.node[n].e \in Values
  BY <1>1, <1>4, <1>6
<1> QED BY <1>4, <1>6, <1>8, <1>9 DEF Shaped

(* u is t with the nodes of new added, and x stored in the place s.        *)
Grown(t, s, x, new, u) ==
    /\ Shaped(u) /\ DOMAIN u.node = DOMAIN t.node \cup DOMAIN new
    /\ DOMAIN t.node \in SUBSET Ids /\ NULL \notin DOMAIN u.node
    /\ \A n \in DOMAIN new : u.node[n] = new[n] /\ n \notin DOMAIN t.node
    /\ \A n \in DOMAIN t.node : u.node[n].c = t.node[n].c
    /\ \A n \in DOMAIN t.node : t.node[n].c = TCHAR =>
          u.node[n].e = t.node[n].e /\ u.node[n].r = t.node[n].r
    /\ \A a \in Spots(t) : LinksOf(u, a) = LinksOf(t, a)
    /\ \A a \in Spots(t) : \A b \in LinksOf(t, a) :
          Holds(u, a, b) = IF a = s.at /\ b = s.link THEN x ELSE Holds(t, a, b)

(* What is stored is one of the nodes that are added.                      *)
LEMMA GrownIs ==
    ASSUME NEW t, Shaped(t), NEW s, s.at \in Spots(t), s.link \in LinksOf(t, s.at),
           NEW new, DOMAIN new \in SUBSET (Ids \ DOMAIN t.node), new \in [DOMAIN new -> Cell],
           \A n \in DOMAIN new : new[n].c = TCHAR => new[n].e \in Values,
           NEW x \in DOMAIN new, NEW u, u = Alloc(Store(t, s, x), new)
    PROVE  Grown(t, s, x, new, u)
<1> DEFINE w == Store(t, s, x)
<1>1. /\ Shaped(w) /\ DOMAIN w.node = DOMAIN t.node
      /\ w.head = IF s.at = NULL THEN x ELSE t.head
      /\ \A n \in DOMAIN t.node : \A f \in {"c", "l", "e", "r"} :
            w.node[n][f] = IF n = s.at /\ f = s.link THEN x ELSE t.node[n][f]
  BY StoreIs
<1>2. DOMAIN new \in SUBSET (Ids \ DOMAIN w.node) /\ u = Alloc(w, new)
  BY <1>1
<1> HIDE DEF w
<1>3. /\ Shaped(u) /\ DOMAIN u.node = DOMAIN w.node \cup DOMAIN new /\ u.head = w.head
      /\ \A n \in DOMAIN w.node : u.node[n] = w.node[n]
      /\ \A n \in DOMAIN new : u.node[n] = new[n]
  BY <1>1, <1>2, AllocIs
<1>4. DOMAIN t.node \in SUBSET Ids
  BY DEF Shaped
<1>5. NULL \notin DOMAIN u.node
  BY <1>1, <1>3, <1>4, TreeAssumption DEF TreeAssumption
<1>6. \A n \in DOMAIN t.node : \A f \in {"c", "l", "e", "r"} :
         u.node[n][f] = IF n = s.at /\ f = s.link THEN x ELSE t.node[n][f]
  BY <1>1, <1>3
<1>7. s.link # "c" /\ \A n \in DOMAIN t.node : n = s.at /\ t.node[n].c = TCHAR => s.link = "l"
  BY <1>1, <1>3, <1>5 DEF LinksOf
<1>8. \A n \in DOMAIN t.node : u.node[n].c = t.node[n].c
  BY <1>6, <1>7
<1>9. ASSUME NEW n \in DOMAIN t.node, t.node[n].c = TCHAR
      PROVE  u.node[n].e = t.node[n].e /\ u.node[n].r = t.node[n].r
  BY <1>6, <1>7, <1>9
<1>10. \A a \in Spots(t) : LinksOf(u, a) = LinksOf(t, a)
  BY <1>8 DEF LinksOf, Spots
<1>11. ASSUME NEW a \in Spots(t), NEW b \in LinksOf(t, a)
       PROVE  Holds(u, a, b) = IF a = s.at /\ b = s.link THEN x ELSE Holds(t, a, b)
  <2>1. CASE a = NULL
    <3>1. b = "head" /\ (s.at = NULL => s.link = "head")
      BY <2>1 DEF LinksOf
    <3> QED BY <1>1, <1>3, <2>1, <3>1 DEF Holds
  <2>2. CASE a # NULL
    <3>1. a \in DOMAIN t.node /\ b \in {"l", "e", "r"}
      BY <2>2 DEF Spots, LinksOf
    <3> QED BY <1>6, <2>2, <3>1 DEF Holds
  <2> QED BY <2>1, <2>2
<1> QED BY <1>1, <1>3, <1>4, <1>5, <1>8, <1>9, <1>10, <1>11 DEF Grown

(* u is t with a vnode v of the value val in front of the node n.         *)
Fronted(t, s, n, val, v, u) ==
    /\ Shaped(u) /\ DOMAIN u.node = DOMAIN t.node \cup {v} /\ NULL \notin DOMAIN u.node
    /\ u.node[v].c = TCHAR /\ u.node[v].e = val /\ u.node[v].l = n /\ u.node[v].r = s.at
    /\ \A x \in DOMAIN t.node : u.node[x].c = t.node[x].c
    /\ \A x \in DOMAIN t.node : t.node[x].c = TCHAR =>
          u.node[x].e = t.node[x].e /\ u.node[x].r = t.node[x].r
    /\ \A p \in Spots(t) : LinksOf(u, p) = LinksOf(t, p)
    /\ \A p \in Spots(t) : \A q \in LinksOf(t, p) :
          Holds(u, p, q) = IF p = s.at /\ q = s.link THEN v ELSE Holds(t, p, q)

(* What the third case of tst_insert stores is such a tree.                *)
LEMMA FrontIs ==
    ASSUME NEW t, Shaped(t), NEW s, s.at \in Spots(t), s.link \in LinksOf(t, s.at),
           NEW n \in DOMAIN t.node, NEW val \in Values, NEW v \in Ids \ DOMAIN t.node,
           NEW new, DOMAIN new = {v}, new \in [DOMAIN new -> Cell],
           new[v] = [c |-> TCHAR, l |-> n, e |-> val, r |-> s.at],
           NEW u, u = Alloc(Store(t, s, v), new)
    PROVE  Fronted(t, s, n, val, v, u)
<1>1. DOMAIN t.node \in SUBSET Ids /\ s.at \in Ids \cup {NULL}
  BY DEF Shaped, Spots
<1>2. new[v].c = TCHAR /\ new[v].e = val /\ new[v].l = n /\ new[v].r = s.at
  OBVIOUS
<1>3. /\ DOMAIN new \in SUBSET (Ids \ DOMAIN t.node) /\ v \in DOMAIN new
      /\ \A x \in DOMAIN new : new[x].c = TCHAR => new[x].e \in Values
  BY <1>2
<1>4. SUFFICES /\ Shaped(u) /\ DOMAIN u.node = DOMAIN t.node \cup DOMAIN new
               /\ NULL \notin DOMAIN u.node /\ u.node[v] = new[v]
               /\ \A x \in DOMAIN t.node : u.node[x].c = t.node[x].c
               /\ \A x \in DOMAIN t.node : t.node[x].c = TCHAR =>
                     u.node[x].e = t.node[x].e /\ u.node[x].r = t.node[x].r
               /\ \A p \in Spots(t) : LinksOf(u, p) = LinksOf(t, p)
               /\ \A p \in Spots(t) : \A q \in LinksOf(t, p) :
                     Holds(u, p, q) = IF p = s.at /\ q = s.link THEN v ELSE Holds(t, p, q)
  BY <1>2, <1>3 DEF Fronted
<1>5. Grown(t, s, v, new, u)
  BY <1>3, GrownIs
<1> QED BY <1>3, <1>5 DEF Grown

(* tst_insert puts a vnode in front of the node n, where the way of key    *)
(* ends: n gets below it, and the keys that go on from there come by both. *)
LEMMA FrontSound ==
    ASSUME NEW t, NEW g, Sound(t, g), NEW d \in [Keys -> Values \cup {NULL}], Spelled(t, g, d),
           NEW s, s.at \in Spots(t), s.link \in LinksOf(t, s.at),
           NEW n, n = Holds(t, s.at, s.link), n # NULL, t.node[n].c # TCHAR,
           NEW key \in Keys, key \in Sent(t, g, s.at, s.link),
           Len(key) = Len(Prefix(t, g, s.at, s.link)),
           \A x \in DOMAIN t.node : t.node[x].c = TCHAR => g.pre[x] # key,
           NEW val \in Values, NEW v \in Ids \ DOMAIN t.node,
           NEW u, Fronted(t, s, n, val, v, u)
    PROVE  Kept(u, [d EXCEPT ![key] = val])
<1> DEFINE a == s.at
           b == s.link
           D == DOMAIN t.node
           high(x) == IF x = v THEN g.high[n] + 1
                      ELSE IF g.high[n] < g.high[x] THEN g.high[x] + 1 ELSE g.high[x]
           via(x) == IF x = v THEN g.via[n]
                     ELSE IF x = n THEN {k \in g.via[n] : Char(k, Len(g.pre[n]) + 1) # TCHAR}
                     ELSE g.via[x]
           h == [top |-> g.top + 1,
                 high |-> [x \in D \cup {v} |-> high(x)],
                 up |-> [x \in D \cup {v} |-> IF x = v THEN a ELSE IF x = n THEN v ELSE g.up[x]],
                 side |-> [x \in D \cup {v} |-> IF x = v THEN b ELSE IF x = n THEN "l" ELSE g.side[x]],
                 pre |-> [x \in D \cup {v} |-> IF x = v THEN g.pre[n] ELSE g.pre[x]],
                 via |-> [x \in D \cup {v} |-> via(x)]]
<1>1. /\ h.top = g.top + 1
      /\ h.up[v] = a /\ h.side[v] = b /\ h.pre[v] = g.pre[n] /\ h.via[v] = g.via[n]
      /\ h.high[v] = g.high[n] + 1
      /\ \A x \in D \ {v} : /\ h.high[x] = IF g.high[n] < g.high[x] THEN g.high[x] + 1 ELSE g.high[x]
                            /\ h.pre[x] = g.pre[x]
                            /\ x # n => h.up[x] = g.up[x] /\ h.side[x] = g.side[x] /\ h.via[x] = g.via[x]
  OBVIOUS
<1>2. n \in D \ {v} => h.up[n] = v /\ h.side[n] = "l" /\ h.via[n] = {k \in g.via[n] : Char(k, Len(g.pre[n]) + 1) # TCHAR}
  OBVIOUS
<1> HIDE DEF h
<1>3. /\ n \in D /\ g.up[n] = a /\ g.side[n] = b /\ v \notin D
      /\ g.pre[n] = Prefix(t, g, a, b) /\ g.via[n] = Sent(t, g, a, b)
      /\ a # NULL => g.high[n] < g.high[a]
  BY PlaceHolds
<1>4. /\ Shaped(t) /\ D \in SUBSET Ids /\ NULL \notin D /\ v # NULL /\ v \in Ids
      /\ \A x \in D : t.node[x].c \in Int
      /\ a \in Ids \cup {NULL}
  BY Parts, TreeAssumption DEF Sound, TreeAssumption, Spots
<1>5. /\ Shaped(u) /\ DOMAIN u.node = D \cup {v} /\ NULL \notin DOMAIN u.node
      /\ u.node[v].c = TCHAR /\ u.node[v].e = val /\ u.node[v].l = n /\ u.node[v].r = a
      /\ \A x \in D : u.node[x].c = t.node[x].c
      /\ \A x \in D : t.node[x].c = TCHAR => u.node[x].e = t.node[x].e /\ u.node[x].r = t.node[x].r
      /\ \A p \in Spots(t) : LinksOf(u, p) = LinksOf(t, p)
      /\ \A p \in Spots(t) : \A q \in LinksOf(t, p) :
            Holds(u, p, q) = IF p = a /\ q = b THEN v ELSE Holds(t, p, q)
  BY DEF Fronted
<1>6. /\ Spots(u) = Spots(t) \cup {v} /\ v \notin Spots(t) /\ n \in Spots(t) /\ a # v /\ a # n
      /\ LinksOf(u, v) = {"l"} /\ Holds(u, v, "l") = n
      /\ \A p \in Spots(t) : p # NULL => p \in D
  <2>1. a # n
    <3>1. a = NULL => a # n
      BY <1>3, <1>4
    <3>2. a # NULL => g.high[n] < g.high[a] /\ g.high[n] \in Nat
      BY <1>3 DEF Sound, Ranked
    <3> QED BY <3>1, <3>2
  <2>2. Spots(u) = Spots(t) \cup {v} /\ v \notin Spots(t) /\ n \in Spots(t) /\ a # v
        /\ \A p \in Spots(t) : p # NULL => p \in D
    BY <1>3, <1>4, <1>5 DEF Spots
  <2>3. LinksOf(u, v) = {"l"} /\ Holds(u, v, "l") = n
    BY <1>4, <1>5 DEF LinksOf, Holds
  <2> QED BY <2>1, <2>2, <2>3
<1>7. Placed(u, h)
  <2>1. ASSUME NEW x \in DOMAIN u.node
        PROVE  /\ h.up[x] \in Spots(u) /\ h.side[x] \in LinksOf(u, h.up[x])
               /\ Holds(u, h.up[x], h.side[x]) = x
    <3>1. CASE x = v
      BY <1>1, <1>5, <1>6, <3>1
    <3>2. CASE x = n
      BY <1>2, <1>3, <1>6, <3>2
    <3>3. CASE x # v /\ x # n
      <4>1. x \in D /\ h.up[x] = g.up[x] /\ h.side[x] = g.side[x]
        BY <1>1, <1>5, <3>3
      <4>2. g.up[x] \in Spots(t) /\ g.side[x] \in LinksOf(t, g.up[x]) /\ Holds(t, g.up[x], g.side[x]) = x
        BY <4>1 DEF Sound, Placed
      <4>3. ~(g.up[x] = a /\ g.side[x] = b)
        BY <3>3, <4>2
      <4> QED BY <1>5, <1>6, <4>1, <4>2, <4>3
    <3> QED BY <3>1, <3>2, <3>3
  <2>2. ASSUME NEW p \in Spots(u), NEW q \in LinksOf(u, p), Holds(u, p, q) # NULL
        PROVE  /\ Holds(u, p, q) \in DOMAIN u.node
               /\ h.up[Holds(u, p, q)] = p /\ h.side[Holds(u, p, q)] = q
    <3>1. CASE p = v
      BY <1>2, <1>3, <1>5, <1>6, <3>1
    <3>2. CASE p # v
      <4>1. p \in Spots(t) /\ q \in LinksOf(t, p)
        BY <1>5, <1>6, <3>2
      <4>2. CASE p = a /\ q = b
        BY <1>1, <1>5, <4>1, <4>2
      <4>3. CASE ~(p = a /\ q = b)
        <5> DEFINE y == Holds(t, p, q)
        <5>1. Holds(u, p, q) = y /\ y # NULL
          BY <1>5, <2>2, <4>1, <4>3
        <5>2. y \in D /\ g.up[y] = p /\ g.side[y] = q
          BY <4>1, <5>1, PlaceHolds
        <5>3. y # n /\ y # v
          BY <1>3, <4>3, <5>2
        <5> HIDE DEF y
        <5> QED BY <1>1, <1>5, <5>1, <5>2, <5>3
      <4> QED BY <4>2, <4>3
    <3> QED BY <3>1, <3>2
  <2> QED BY <2>1, <2>2 DEF Placed
<1>8. Ranked(u, h)
  <2>1. g.top \in Nat /\ \A x \in D : g.high[x] \in 0..g.top /\ (g.up[x] # NULL => g.high[x] < g.high[g.up[x]])
        /\ (g.up[x] # NULL => g.up[x] \in D)
    BY <1>6 DEF Sound, Ranked, Placed
  <2>2. h.top \in Nat
    BY <1>1, <2>1
  <2>3. ASSUME NEW x \in DOMAIN u.node
        PROVE  h.high[x] \in 0..h.top /\ (h.up[x] # NULL => h.high[x] < h.high[h.up[x]])
    <3>1. CASE x = v
      <4>1. h.high[x] = g.high[n] + 1 /\ g.high[n] \in 0..g.top /\ h.up[x] = a
        BY <1>1, <1>3, <2>1, <3>1
      <4>2. CASE a # NULL
        <5>1. a \in D \ {v} /\ g.high[n] < g.high[a] /\ g.high[a] \in Nat
          BY <1>3, <1>6, <2>1, <4>2
        <5>2. h.high[a] = g.high[a] + 1
          BY <1>1, <5>1
        <5> QED BY <1>1, <2>1, <4>1, <5>1, <5>2, SMTT(30)
      <4> QED BY <1>1, <2>1, <4>1, <4>2
    <3>2. CASE x = n
      <4>1. h.high[n] = g.high[n] /\ h.high[v] = g.high[n] + 1 /\ h.up[n] = v /\ g.high[n] \in 0..g.top
        BY <1>1, <1>2, <1>3, <2>1
      <4> QED BY <1>1, <2>1, <3>2, <4>1
    <3>3. CASE x # v /\ x # n
      <4>1. x \in D \ {v} /\ h.up[x] = g.up[x] /\ g.high[x] \in 0..g.top
        BY <1>1, <1>5, <2>1, <3>3
      <4>2. h.high[x] = IF g.high[n] < g.high[x] THEN g.high[x] + 1 ELSE g.high[x]
        BY <1>1, <4>1
      <4>3. g.high[n] \in 0..g.top
        BY <1>3, <2>1
      <4>4. h.high[x] \in 0..h.top
        BY <1>1, <2>1, <4>1, <4>2
      <4>5. ASSUME g.up[x] # NULL PROVE h.high[x] < h.high[g.up[x]]
        <5>1. g.up[x] \in D \ {v} /\ g.high[x] < g.high[g.up[x]]
          BY <1>3, <2>1, <4>1, <4>5
        <5>2. h.high[g.up[x]] = IF g.high[n] < g.high[g.up[x]] THEN g.high[g.up[x]] + 1 ELSE g.high[g.up[x]]
          BY <1>1, <5>1
        <5>3. g.high[g.up[x]] \in 0..g.top
          BY <2>1, <5>1
        <5> QED BY <2>1, <4>1, <4>2, <4>3, <5>1, <5>2, <5>3
      <4> QED BY <4>1, <4>4, <4>5
    <3> QED BY <3>1, <3>2, <3>3
  <2> QED BY <2>2, <2>3 DEF Ranked
<1>9. ASSUME NEW p \in Spots(t), NEW q \in LinksOf(t, p)
      PROVE  Prefix(u, h, p, q) = Prefix(t, g, p, q) /\ Sent(u, h, p, q) = Sent(t, g, p, q)
  <2>1. CASE p = NULL
    BY <2>1 DEF Prefix, Sent
  <2>2. CASE p # NULL
    <3>1. p \in D \ {v} /\ h.pre[p] = g.pre[p] /\ u.node[p].c = t.node[p].c
      BY <1>1, <1>5, <1>6, <2>2
    <3>2. Prefix(u, h, p, q) = Prefix(t, g, p, q)
      BY <2>2, <3>1 DEF Prefix
    <3>3. \A k : k \in h.via[p] /\ Char(k, Len(g.pre[p]) + 1) # TCHAR
                   <=> k \in g.via[p] /\ Char(k, Len(g.pre[p]) + 1) # TCHAR
      <4>1. CASE p = n
        BY <1>2, <3>1, <4>1
      <4>2. CASE p # n
        BY <1>1, <3>1, <4>2
      <4> QED BY <4>1, <4>2
    <3>4. Sent(u, h, p, q) = Sent(t, g, p, q)
      BY <2>2, <3>1, <3>3 DEF Sent
    <3> QED BY <3>2, <3>4
  <2> QED BY <2>1, <2>2
<1>10. Routed(u, h)
  <2>1. \A x \in D : /\ g.pre[x] \in Seq(Int) /\ g.via[x] \in SUBSET Keys
                     /\ g.pre[x] = Prefix(t, g, g.up[x], g.side[x])
                     /\ g.via[x] = Sent(t, g, g.up[x], g.side[x])
                     /\ \A k \in g.via[x] : Begins(k, g.pre[x])
                     /\ g.up[x] \in Spots(t) /\ g.side[x] \in LinksOf(t, g.up[x])
    BY DEF Sound, Routed, Placed
  <2>2. ASSUME NEW x \in DOMAIN u.node
        PROVE  /\ h.pre[x] \in Seq(Int) /\ h.via[x] \in SUBSET Keys
               /\ h.pre[x] = Prefix(u, h, h.up[x], h.side[x])
               /\ h.via[x] = Sent(u, h, h.up[x], h.side[x])
               /\ \A k \in h.via[x] : Begins(k, h.pre[x])
    <3>1. CASE x = v
      BY <1>1, <1>3, <1>9, <2>1, <3>1
    <3>2. CASE x = n
      <4>1. h.pre[n] = g.pre[n] /\ h.via[n] \subseteq g.via[n] /\ h.up[n] = v /\ h.side[n] = "l"
        BY <1>1, <1>2, <1>3
      <4>2. Prefix(u, h, v, "l") = g.pre[n]
        BY <1>1, <1>4 DEF Prefix
      <4>3. Sent(u, h, v, "l") = {k \in g.via[n] : Char(k, Len(g.pre[n]) + 1) # TCHAR}
        BY <1>1, <1>4, <1>5 DEF Sent
      <4> QED BY <1>2, <1>3, <2>1, <3>2, <4>1, <4>2, <4>3
    <3>3. CASE x # v /\ x # n
      <4>1. x \in D /\ h.up[x] = g.up[x] /\ h.side[x] = g.side[x] /\ h.pre[x] = g.pre[x] /\ h.via[x] = g.via[x]
        BY <1>1, <1>5, <3>3
      <4> QED BY <1>9, <2>1, <4>1
    <3> QED BY <3>1, <3>2, <3>3
  <2> QED BY <2>2 DEF Routed
<1>11. key = g.pre[n] /\ key \in g.via[n] /\ b \in {"head", "e"} /\ (a # NULL => t.node[a].c # TCHAR)
  <2>1. Char(key, Len(Prefix(t, g, a, b)) + 1) = TCHAR
    BY KeyIs
  <2>2. Prefix(t, g, a, b) \in Seq(Int) /\ Begins(key, Prefix(t, g, a, b))
        /\ b \in {"head", "e"} /\ (a # NULL => t.node[a].c # TCHAR)
    BY <2>1, PlaceSends
  <2> QED BY <1>3, <2>1, <2>2, BeginsAll
<1>12. Backed(u, h)
  <2>1. ASSUME NEW x \in DOMAIN u.node, u.node[x].c = TCHAR
        PROVE  /\ h.side[x] \in {"head", "e"}
               /\ h.up[x] # NULL => u.node[h.up[x]].c # TCHAR
               /\ u.node[x].r # NULL => h.up[x] = u.node[x].r
    <3>1. CASE x = v
      <4>1. a # NULL => u.node[a].c = t.node[a].c
        BY <1>5, <1>6
      <4> QED BY <1>1, <1>5, <1>11, <3>1, <4>1
    <3>2. CASE x # v
      <4>1. x \in D /\ t.node[x].c = TCHAR /\ x # n /\ u.node[x].r = t.node[x].r
        BY <1>5, <2>1, <3>2
      <4>2. h.up[x] = g.up[x] /\ h.side[x] = g.side[x]
        BY <1>1, <3>2, <4>1
      <4>3. /\ g.side[x] \in {"head", "e"}
            /\ g.up[x] # NULL => t.node[g.up[x]].c # TCHAR
            /\ t.node[x].r # NULL => g.up[x] = t.node[x].r
            /\ g.up[x] \in Spots(t)
        BY <4>1 DEF Sound, Backed, Placed
      <4>4. g.up[x] # NULL => u.node[g.up[x]].c = t.node[g.up[x]].c
        BY <1>5, <1>6, <4>3
      <4> QED BY <4>1, <4>2, <4>3, <4>4
    <3> QED BY <3>1, <3>2
  <2> QED BY <2>1 DEF Backed
<1>13. Spelled(u, h, [d EXCEPT ![key] = val])
  <2> DEFINE e == [d EXCEPT ![key] = val]
  <2>1. e[key] = val /\ \A k \in Keys \ {key} : e[k] = d[k]
    OBVIOUS
  <2> HIDE DEF e
  <2>2. ASSUME NEW x \in DOMAIN u.node, u.node[x].c = TCHAR
        PROVE  h.pre[x] \in h.via[x] /\ e[h.pre[x]] = u.node[x].e
    <3>1. CASE x = v
      BY <1>1, <1>5, <1>11, <2>1, <3>1
    <3>2. CASE x # v
      <4>1. x \in D /\ t.node[x].c = TCHAR /\ x # n /\ u.node[x].e = t.node[x].e
        BY <1>5, <2>2, <3>2
      <4>2. h.pre[x] = g.pre[x] /\ h.via[x] = g.via[x] /\ g.pre[x] # key
        BY <1>1, <3>2, <4>1
      <4>3. g.pre[x] \in g.via[x] /\ d[g.pre[x]] = t.node[x].e /\ g.via[x] \subseteq Keys
        BY <4>1 DEF Spelled, Sound, Routed
      <4> QED BY <2>1, <4>1, <4>2, <4>3
    <3> QED BY <3>1, <3>2
  <2>3. ASSUME NEW k \in Keys, e[k] # NULL
        PROVE  \E x \in DOMAIN u.node : u.node[x].c = TCHAR /\ h.pre[x] = k
    <3>1. CASE k = key
      BY <1>1, <1>5, <1>11, <3>1
    <3>2. CASE k # key
      <4>1. PICK x \in D : t.node[x].c = TCHAR /\ g.pre[x] = k
        BY <2>1, <2>3, <3>2 DEF Spelled
      <4>2. x # v
        BY <1>3
      <4> QED BY <1>1, <1>5, <4>1, <4>2
    <3> QED BY <3>1, <3>2
  <2>4. Spelled(u, h, e)
    BY <2>2, <2>3 DEF Spelled
  <2> QED BY <2>4 DEF e
<1> QED BY <1>5, <1>7, <1>8, <1>10, <1>12, <1>13 DEF Sound, Kept

(* Trees with the same links and characters have the same labels.          *)
LEMMA SameSound ==
    ASSUME NEW t, NEW g, Sound(t, g), NEW u, Shaped(u), DOMAIN u.node = DOMAIN t.node,
           \A x \in DOMAIN t.node : u.node[x].c = t.node[x].c,
           \A x \in DOMAIN t.node : t.node[x].c = TCHAR => u.node[x].r = t.node[x].r,
           \A p \in Spots(t) : LinksOf(u, p) = LinksOf(t, p),
           \A p \in Spots(t) : \A q \in LinksOf(t, p) : Holds(u, p, q) = Holds(t, p, q)
    PROVE  Sound(u, g)
<1>1. Spots(u) = Spots(t) /\ \A p \in Spots(t) : p # NULL => p \in DOMAIN t.node
  BY DEF Spots
<1>2. Placed(t, g) /\ Ranked(t, g) /\ Routed(t, g) /\ Backed(t, g)
  BY DEF Sound
<1>3. Placed(u, g)
  BY <1>1, <1>2 DEF Placed
<1>4. Ranked(u, g)
  BY <1>2 DEF Ranked
<1>5. \A p \in Spots(t) : \A q \in LinksOf(t, p) :
         Prefix(u, g, p, q) = Prefix(t, g, p, q) /\ Sent(u, g, p, q) = Sent(t, g, p, q)
  BY <1>1 DEF Prefix, Sent
<1>6. \A x \in DOMAIN t.node : g.up[x] \in Spots(t) /\ g.side[x] \in LinksOf(t, g.up[x])
  BY <1>2 DEF Placed
<1>7. Routed(u, g)
  BY <1>2, <1>5, <1>6 DEF Routed
<1>8. Backed(u, g)
  BY <1>1, <1>2, <1>6 DEF Backed
<1> QED BY <1>3, <1>4, <1>7, <1>8 DEF Sound

(* tst_insert gives the vnode n of key another value.                      *)
LEMMA OverwriteSound ==
    ASSUME NEW t, NEW g, Sound(t, g), NEW d \in [Keys -> Values \cup {NULL}], Spelled(t, g, d),
           NEW key \in Keys, NEW n \in DOMAIN t.node, t.node[n].c = TCHAR, g.pre[n] = key,
           \A x \in DOMAIN t.node : t.node[x].c = TCHAR /\ x # n => g.pre[x] # key,
           NEW val \in Values, NEW u, u = [t EXCEPT !.node[n].e = val]
    PROVE  Kept(u, [d EXCEPT ![key] = val])
<1> DEFINE D == DOMAIN t.node
           cell == [t.node[n] EXCEPT !.e = val]
<1>1. /\ t \in [head : Ids \cup {NULL}, node : UNION {[S -> Cell] : S \in SUBSET Ids}]
      /\ \A x \in D : t.node[x].c = TCHAR => t.node[x].e \in Values
  BY DEF Sound, Shaped
<1>2. D \in SUBSET Ids /\ t.node \in [D -> Cell] /\ t.head \in Ids \cup {NULL}
  BY <1>1
<1>3. NULL \notin D
  BY <1>2, TreeAssumption DEF TreeAssumption
<1>4. /\ cell \in Cell /\ cell.e = val
      /\ \A f \in {"c", "l", "r"} : cell[f] = t.node[n][f]
  <2>1. t.node[n] \in Cell
    BY <1>2
  <2> QED BY <2>1 DEF Cell
<1>5. u = [t EXCEPT !.node = [t.node EXCEPT ![n] = cell]]
  BY <1>1
<1> HIDE DEF cell
<1>6. u.head = t.head /\ u.node = [t.node EXCEPT ![n] = cell]
  BY <1>1, <1>5
<1>7. DOMAIN u.node = D /\ u.node \in [D -> Cell]
      /\ \A x \in D : u.node[x] = IF x = n THEN cell ELSE t.node[x]
  BY <1>2, <1>4, <1>6
<1>8. u \in [head : Ids \cup {NULL}, node : UNION {[S -> Cell] : S \in SUBSET Ids}]
  <2>1. u = [head |-> u.head, node |-> u.node]
    BY <1>1, <1>5
  <2>2. u.node \in UNION {[S -> Cell] : S \in SUBSET Ids}
    BY <1>2, <1>7
  <2> QED BY <1>2, <1>6, <2>1, <2>2
<1>9. Shaped(u)
  BY <1>1, <1>4, <1>7, <1>8 DEF Shaped
<1>10. /\ \A x \in D : u.node[x].c = t.node[x].c
       /\ \A x \in D : t.node[x].c = TCHAR => u.node[x].r = t.node[x].r
       /\ \A x \in D : x # n => u.node[x] = t.node[x]
  BY <1>4, <1>7
<1>11. \A p \in Spots(t) : LinksOf(u, p) = LinksOf(t, p)
  BY <1>10 DEF LinksOf, Spots
<1>12. ASSUME NEW p \in Spots(t), NEW q \in LinksOf(t, p) PROVE Holds(u, p, q) = Holds(t, p, q)
  <2>1. CASE p = NULL
    BY <1>6, <2>1 DEF Holds
  <2>2. CASE p # NULL /\ p # n
    BY <1>10, <2>2 DEF Holds, Spots
  <2>3. CASE p = n
    <3>1. q = "l" /\ p # NULL
      BY <1>3, <2>3 DEF LinksOf
    <3>2. u.node[n].l = t.node[n].l
      BY <1>4, <1>7
    <3> QED BY <2>3, <3>1, <3>2 DEF Holds
  <2> QED BY <2>1, <2>2, <2>3
<1>13. Sound(u, g)
  BY <1>7, <1>9, <1>10, <1>11, <1>12, SameSound
<1>14. Spelled(u, g, [d EXCEPT ![key] = val])
  <2> DEFINE e == [d EXCEPT ![key] = val]
  <2>1. e[key] = val /\ \A k \in Keys \ {key} : e[k] = d[k]
    OBVIOUS
  <2> HIDE DEF e
  <2>2. ASSUME NEW x \in DOMAIN u.node, u.node[x].c = TCHAR
        PROVE  g.pre[x] \in g.via[x] /\ e[g.pre[x]] = u.node[x].e
    <3>1. x \in D /\ t.node[x].c = TCHAR
      BY <1>7, <1>10, <2>2
    <3>2. g.pre[x] \in g.via[x] /\ d[g.pre[x]] = t.node[x].e /\ g.via[x] \subseteq Keys
      BY <3>1 DEF Spelled, Sound, Routed
    <3>3. CASE x = n
      BY <1>4, <1>7, <2>1, <3>2, <3>3
    <3>4. CASE x # n
      BY <1>10, <2>1, <3>1, <3>2, <3>4
    <3> QED BY <3>3, <3>4
  <2>3. ASSUME NEW k \in Keys, e[k] # NULL
        PROVE  \E x \in DOMAIN u.node : u.node[x].c = TCHAR /\ g.pre[x] = k
    <3>1. CASE k = key
      BY <1>7, <1>10, <3>1
    <3>2. CASE k # key
      <4>1. PICK x \in D : t.node[x].c = TCHAR /\ g.pre[x] = k
        BY <2>1, <2>3, <3>2 DEF Spelled
      <4> QED BY <1>7, <1>10, <4>1
    <3> QED BY <3>1, <3>2
  <2>4. Spelled(u, g, e)
    BY <2>2, <2>3 DEF Spelled
  <2> QED BY <2>4 DEF e
<1> QED BY <1>13, <1>14 DEF Kept

(* The place s is valid: a tree may have it.                               *)
Valid(t, s) == s.at \in Spots(t) /\ s.link \in LinksOf(t, s.at)

(* Prune takes a leaf away or nothing, and nothing of what is above it.    *)
LEMMA PruneSound ==
    ASSUME NEW t, NEW g, Sound(t, g), NEW d, Spelled(t, g, d),
           NEW s, Valid(t, s), NEW u, u = Prune(s, t)
    PROVE  /\ Sound(u, g) /\ Spelled(u, g, d)
           /\ \A q : /\ Valid(t, q)
                     /\ q.at # NULL => /\ s.at # NULL
                                       /\ q.at = s.at \/ g.high[s.at] < g.high[q.at]
                     => Valid(u, q)
<1> DEFINE a == s.at
           b == s.link
           D == DOMAIN t.node
           n == Holds(t, a, b)
<1>0. a \in Spots(t) /\ b \in LinksOf(t, a)
  BY DEF Valid
<1>1. n = IF s.at = NULL THEN t.head ELSE t.node[s.at][s.link]
  BY DEF Holds
<1> DEFINE leaf == n # NULL /\ t.node[n].c # TCHAR /\ {t.node[n][k] : k \in {"l", "e", "r"}} = {NULL}
<1>2. u = IF leaf THEN Store(Free(t, n), s, NULL) ELSE t
  BY <1>1, Zenon DEF Prune
<1>3. CASE ~leaf
  <2> HIDE DEF leaf
  <2>1. u = t
    BY <1>2, <1>3
  <2> QED BY <2>1
<1>4. CASE leaf
  <2>1. u = Store(Free(t, n), s, NULL)
    <3> HIDE DEF leaf
    <3> QED BY <1>2, <1>4
  <2>2. n # NULL /\ t.node[n].c # TCHAR /\ \A k \in {"l", "e", "r"} : t.node[n][k] = NULL
    BY <1>4
  <2>3. n \in D /\ g.up[n] = a /\ g.side[n] = b /\ (a # NULL => g.high[n] < g.high[a])
    BY <1>0, <1>4, PlaceHolds
  <2> HIDE DEF n
  <2>4. D \in SUBSET Ids /\ NULL \notin D /\ Shaped(t) /\ (\A p \in Spots(t) : p # NULL => p \in D)
    BY Parts, TreeAssumption DEF TreeAssumption, Sound, Spots
  <2>5. /\ g.top \in Nat
        /\ \A x \in D : g.high[x] \in 0..g.top /\ (g.up[x] # NULL => g.high[x] < g.high[g.up[x]])
    BY DEF Sound, Ranked
  <2>6. a # n /\ a \in Spots(t) \ {n}
    <3>1. CASE a = NULL
      BY <1>0, <2>3, <2>4, <3>1
    <3>2. CASE a # NULL
      <4>1. a \in D /\ g.high[n] < g.high[a] /\ g.high[n] \in Nat /\ g.high[a] \in Nat
        BY <1>0, <2>3, <2>4, <2>5, <3>2
      <4>2. a # n
        BY <4>1
      <4> QED BY <1>0, <4>2
    <3> QED BY <3>1, <3>2
  <2> DEFINE w == Free(t, n)
  <2>7. /\ Shaped(w) /\ DOMAIN w.node = D \ {n} /\ w.head = t.head
        /\ \A x \in D \ {n} : w.node[x] = t.node[x]
    BY <2>4, FreeIs
  <2>8. Spots(w) = Spots(t) \ {n} /\ \A p \in Spots(w) : LinksOf(w, p) = LinksOf(t, p)
    <3>1. n # NULL
      BY <2>3, <2>4
    <3>2. Spots(w) = Spots(t) \ {n}
      BY <2>7, <3>1 DEF Spots
    <3>3. \A p \in Spots(w) : p # NULL => p \in D \ {n}
      BY <2>7 DEF Spots
    <3> QED BY <2>7, <3>2, <3>3 DEF LinksOf
  <2>9. \A p \in Spots(w) : \A q \in LinksOf(w, p) : Holds(w, p, q) = Holds(t, p, q)
    <3>1. \A p \in Spots(w) : p # NULL => p \in D \ {n}
      BY <2>7 DEF Spots
    <3> QED BY <2>7, <3>1 DEF Holds
  <2> HIDE DEF w
  <2>10. s.at \in Spots(w) /\ s.link \in LinksOf(w, s.at)
    BY <1>0, <2>6, <2>8
  <2>11. u = Store(w, s, NULL)
    BY <2>1 DEF w
  <2>12. /\ Shaped(u) /\ DOMAIN u.node = DOMAIN w.node
         /\ u.head = IF s.at = NULL THEN NULL ELSE w.head
         /\ \A x \in DOMAIN w.node : \A f \in {"c", "l", "e", "r"} :
               u.node[x][f] = IF x = s.at /\ f = s.link THEN NULL ELSE w.node[x][f]
    BY <2>7, <2>10, <2>11, StoreIs
  <2>13. DOMAIN u.node = D \ {n}
    BY <2>7, <2>12
  <2>14. s.link # "c" /\ \A x \in D \ {n} : x = s.at /\ w.node[x].c = TCHAR => s.link = "l"
    BY <2>7, <2>10, <2>4 DEF LinksOf
  <2>15. /\ \A x \in D \ {n} : u.node[x].c = t.node[x].c
         /\ \A x \in D \ {n} : t.node[x].c = TCHAR => u.node[x].e = t.node[x].e /\ u.node[x].r = t.node[x].r
    <3>1. \A x \in D \ {n} : u.node[x].c = w.node[x].c
      BY <2>7, <2>12, <2>14
    <3>2. ASSUME NEW x \in D \ {n}, t.node[x].c = TCHAR
          PROVE  u.node[x].e = w.node[x].e /\ u.node[x].r = w.node[x].r
      <4>1. x \in DOMAIN w.node /\ (x = s.at => s.link = "l")
        BY <2>7, <2>14, <3>2
      <4> QED BY <2>12, <4>1
    <3> QED BY <2>7, <3>1, <3>2
  <2>16. /\ Spots(u) = Spots(t) \ {n}
         /\ \A p \in Spots(u) : LinksOf(u, p) = LinksOf(t, p)
         /\ \A p \in Spots(u) : p # NULL => p \in D \ {n}
    <3>1. Spots(u) = Spots(t) \ {n}
      BY <2>3, <2>4, <2>13 DEF Spots
    <3>2. \A p \in Spots(u) : p # NULL => p \in D \ {n}
      BY <2>13 DEF Spots
    <3> QED BY <2>15, <3>1, <3>2 DEF LinksOf
  <2>17. ASSUME NEW p \in Spots(u), NEW q \in LinksOf(u, p)
         PROVE  Holds(u, p, q) = IF p = a /\ q = b THEN NULL ELSE Holds(t, p, q)
    <3>0. p \in Spots(w) /\ q \in LinksOf(w, p) /\ Holds(w, p, q) = Holds(t, p, q)
      BY <2>8, <2>9, <2>16
    <3>1. CASE p = NULL
      <4>1. q = "head" /\ (s.at = NULL => s.link = "head")
        BY <1>0, <3>1 DEF LinksOf
      <4> QED BY <2>12, <3>0, <3>1, <4>1 DEF Holds
    <3>2. CASE p # NULL
      <4>1. p \in DOMAIN w.node /\ q \in {"l", "e", "r"}
        BY <2>7, <2>16, <3>2 DEF LinksOf
      <4> QED BY <2>12, <3>0, <3>2, <4>1 DEF Holds
    <3> QED BY <3>1, <3>2
  <2>18. \A x \in D \ {n} : /\ g.up[x] \in Spots(t) \ {n} /\ g.side[x] \in LinksOf(t, g.up[x])
                            /\ Holds(t, g.up[x], g.side[x]) = x
                            /\ ~(g.up[x] = a /\ g.side[x] = b)
    <3> SUFFICES ASSUME NEW x \in D \ {n}
                 PROVE  /\ g.up[x] \in Spots(t) \ {n} /\ g.side[x] \in LinksOf(t, g.up[x])
                        /\ Holds(t, g.up[x], g.side[x]) = x
                        /\ ~(g.up[x] = a /\ g.side[x] = b)
      OBVIOUS
    <3>1. /\ g.up[x] \in Spots(t) /\ g.side[x] \in LinksOf(t, g.up[x])
          /\ Holds(t, g.up[x], g.side[x]) = x
      BY DEF Sound, Placed
    <3>2. ASSUME g.up[x] = n PROVE FALSE
      <4>1. g.side[x] \in {"l", "e", "r"}
        BY <2>3, <2>4, <3>1, <3>2 DEF LinksOf
      <4>2. x = NULL
        BY <2>2, <2>3, <2>4, <3>1, <3>2, <4>1 DEF Holds
      <4> QED BY <2>4, <4>2
    <3> QED BY <3>1, <3>2 DEF n
  <2>19. Placed(u, g)
    <3>1. \A x \in DOMAIN u.node : /\ g.up[x] \in Spots(u) /\ g.side[x] \in LinksOf(u, g.up[x])
                                   /\ Holds(u, g.up[x], g.side[x]) = x
      BY <2>13, <2>16, <2>17, <2>18
    <3>2. ASSUME NEW p \in Spots(u), NEW q \in LinksOf(u, p), Holds(u, p, q) # NULL
          PROVE  /\ Holds(u, p, q) \in DOMAIN u.node
                 /\ g.up[Holds(u, p, q)] = p /\ g.side[Holds(u, p, q)] = q
      <4>1. ~(p = a /\ q = b) /\ Holds(u, p, q) = Holds(t, p, q) /\ p \in Spots(t) /\ q \in LinksOf(t, p)
        BY <2>16, <2>17, <3>2
      <4> DEFINE y == Holds(t, p, q)
      <4>2. y \in D /\ g.up[y] = p /\ g.side[y] = q
        BY <3>2, <4>1, PlaceHolds
      <4>3. y # n
        BY <2>3, <4>1, <4>2
      <4> QED BY <2>13, <4>1, <4>2, <4>3
    <3> QED BY <3>1, <3>2 DEF Placed
  <2>20. Ranked(u, g)
    BY <2>5, <2>13 DEF Ranked
  <2>21. \A p \in Spots(u) : \A q : Prefix(u, g, p, q) = Prefix(t, g, p, q)
                                    /\ Sent(u, g, p, q) = Sent(t, g, p, q)
    BY <2>15, <2>16 DEF Prefix, Sent
  <2>22. Routed(u, g)
    <3>1. \A x \in D : /\ g.pre[x] \in Seq(Int) /\ g.via[x] \in SUBSET Keys
                       /\ g.pre[x] = Prefix(t, g, g.up[x], g.side[x])
                       /\ g.via[x] = Sent(t, g, g.up[x], g.side[x])
                       /\ \A k \in g.via[x] : Begins(k, g.pre[x])
      BY DEF Sound, Routed
    <3> QED BY <2>13, <2>16, <2>18, <2>21, <3>1 DEF Routed
  <2>23. Backed(u, g)
    <3>1. \A x \in D : t.node[x].c = TCHAR =>
            /\ g.side[x] \in {"head", "e"}
            /\ g.up[x] # NULL => t.node[g.up[x]].c # TCHAR
            /\ t.node[x].r # NULL => g.up[x] = t.node[x].r
      BY DEF Sound, Backed
    <3> QED BY <2>13, <2>15, <2>16, <2>18, <3>1 DEF Backed
  <2>24. Spelled(u, g, d)
    <3>1. \A x \in DOMAIN u.node : u.node[x].c = TCHAR =>
             g.pre[x] \in g.via[x] /\ d[g.pre[x]] = u.node[x].e
      BY <2>13, <2>15 DEF Spelled
    <3>2. ASSUME NEW k \in Keys, d[k] # NULL
          PROVE  \E x \in DOMAIN u.node : u.node[x].c = TCHAR /\ g.pre[x] = k
      <4>1. PICK x \in D : t.node[x].c = TCHAR /\ g.pre[x] = k
        BY <3>2 DEF Spelled
      <4>2. x # n
        BY <1>4, <4>1 DEF n
      <4> QED BY <2>13, <2>15, <4>1, <4>2
    <3> QED BY <3>1, <3>2 DEF Spelled
  <2>25. ASSUME NEW q, Valid(t, q),
                q.at # NULL => s.at # NULL /\ (q.at = s.at \/ g.high[s.at] < g.high[q.at])
         PROVE  Valid(u, q)
    <3>1. q.at \in Spots(t) /\ q.link \in LinksOf(t, q.at)
      BY <2>25 DEF Valid
    <3>2. q.at # n
      <4>1. CASE q.at = NULL
        BY <2>3, <2>4, <4>1
      <4>2. CASE q.at # NULL
        <5>1. a \in D /\ q.at \in D /\ g.high[a] \in Nat /\ g.high[n] \in Nat /\ g.high[q.at] \in Nat
              /\ g.high[n] < g.high[a] /\ (q.at = a \/ g.high[a] < g.high[q.at])
          BY <1>0, <2>3, <2>4, <2>5, <2>25, <3>1, <4>2
        <5>2. q.at = n => FALSE
          BY <5>1
        <5> QED BY <5>2
      <4> QED BY <4>1, <4>2
    <3> QED BY <2>16, <3>1, <3>2 DEF Valid
  <2> QED BY <2>12, <2>19, <2>20, <2>22, <2>23, <2>24, <2>25 DEF Sound
<1> QED BY <1>3, <1>4

(* u is t without the vnode v, whose l is now the e of the node a.         *)
CutOff(t, v, a, u) ==
    /\ Shaped(u) /\ DOMAIN u.node = DOMAIN t.node \ {v} /\ NULL \notin DOMAIN t.node
    /\ \A x \in DOMAIN u.node : u.node[x].c = t.node[x].c
    /\ \A x \in DOMAIN u.node : t.node[x].c = TCHAR =>
          u.node[x].e = t.node[x].e /\ u.node[x].r = t.node[x].r
    /\ \A p \in Spots(u) : LinksOf(u, p) = LinksOf(t, p)
    /\ \A p \in Spots(u) : \A q \in LinksOf(t, p) :
          Holds(u, p, q) = IF p = a /\ q = "e" THEN t.node[v].l ELSE Holds(t, p, q)

(* What tst_delete makes of the tree before it prunes is such a tree.      *)
LEMMA CutIs ==
    ASSUME NEW t, Shaped(t), NEW v \in DOMAIN t.node, NEW a \in DOMAIN t.node, a # v,
           t.node[a].c # TCHAR,
           NEW s, s.at = a, s.link = "e", NEW w, w = Store(t, s, t.node[v].l),
           NEW u, u = Free(w, v)
    PROVE  CutOff(t, v, a, u)
<1> DEFINE D == DOMAIN t.node
           x0 == t.node[v].l
<1>1. D \in SUBSET Ids /\ t.node \in [D -> Cell] /\ NULL \notin D
  <2>1. D \in SUBSET Ids /\ t.node \in [D -> Cell]
    BY DEF Shaped
  <2> QED BY <2>1, TreeAssumption DEF TreeAssumption
<1>2. x0 \in Ids \cup {NULL} /\ a # NULL
  BY <1>1 DEF Cell
<1>3. s.at \in Spots(t) /\ s.link \in LinksOf(t, s.at) /\ w = Store(t, s, x0)
  BY <1>2 DEF Spots, LinksOf
<1> HIDE DEF x0
<1>4. /\ Shaped(w) /\ DOMAIN w.node = D
      /\ w.head = IF s.at = NULL THEN x0 ELSE t.head
      /\ \A n \in D : \A f \in {"c", "l", "e", "r"} :
            w.node[n][f] = IF n = s.at /\ f = s.link THEN x0 ELSE t.node[n][f]
  BY <1>2, <1>3, StoreIs
<1>5. /\ Shaped(u) /\ DOMAIN u.node = D \ {v} /\ u.head = w.head
      /\ \A n \in D \ {v} : u.node[n] = w.node[n]
  <2>1. Shaped(w) /\ DOMAIN w.node = D
    BY <1>4
  <2>2. /\ Shaped(u) /\ DOMAIN u.node = DOMAIN w.node \ {v} /\ u.head = w.head
        /\ \A n \in DOMAIN w.node \ {v} : u.node[n] = w.node[n]
    BY <2>1, FreeIs
  <2> QED BY <2>1, <2>2
<1>6. u.head = t.head /\ \A n \in D \ {v} : \A f \in {"c", "l", "e", "r"} :
         u.node[n][f] = IF n = a /\ f = "e" THEN x0 ELSE t.node[n][f]
  <2>1. u.head = t.head
    BY <1>2, <1>4, <1>5
  <2>2. ASSUME NEW n \in D \ {v}, NEW f \in {"c", "l", "e", "r"}
        PROVE  u.node[n][f] = IF n = a /\ f = "e" THEN x0 ELSE t.node[n][f]
    <3>1. u.node[n] = w.node[n]
      BY <1>5
    <3>2. w.node[n][f] = IF n = a /\ f = "e" THEN x0 ELSE t.node[n][f]
      BY <1>4
    <3> QED BY <3>1, <3>2
  <2> QED BY <2>1, <2>2
<1>7. \A x \in D \ {v} : u.node[x].c = t.node[x].c
  BY <1>6
<1>8. ASSUME NEW x \in D \ {v}, t.node[x].c = TCHAR
       PROVE  u.node[x].e = t.node[x].e /\ u.node[x].r = t.node[x].r
  BY <1>6, <1>8
<1>9. /\ \A p \in Spots(u) : p # NULL => p \in D \ {v}
      /\ \A p \in Spots(u) : LinksOf(u, p) = LinksOf(t, p)
  BY <1>5, <1>7 DEF Spots, LinksOf
<1>10. ASSUME NEW p \in Spots(u), NEW q \in LinksOf(t, p)
       PROVE  Holds(u, p, q) = IF p = a /\ q = "e" THEN x0 ELSE Holds(t, p, q)
  <2>1. CASE p = NULL
    BY <1>2, <1>6, <2>1 DEF Holds
  <2>2. CASE p # NULL
    <3>1. p \in D \ {v} /\ q \in {"l", "e", "r"}
      BY <1>9, <2>2 DEF LinksOf
    <3> QED BY <1>6, <2>2, <3>1 DEF Holds
  <2> QED BY <2>1, <2>2
<1>11. /\ \A x \in DOMAIN u.node : u.node[x].c = t.node[x].c
       /\ \A x \in DOMAIN u.node : t.node[x].c = TCHAR =>
             u.node[x].e = t.node[x].e /\ u.node[x].r = t.node[x].r
  BY <1>5, <1>7, <1>8
<1> QED BY <1>1, <1>5, <1>9, <1>10, <1>11 DEF CutOff, x0

(* The vnode v is the only one that spells key.                            *)
Lone(t, g, v, key) ==
    /\ v \in DOMAIN t.node /\ t.node[v].c = TCHAR /\ g.pre[v] = key
    /\ \A x \in DOMAIN t.node : t.node[x].c = TCHAR /\ x # v => g.pre[x] # key

(* u has the keys of d but for key, and its nodes the heights of t.        *)
Lowered(t, g, d, key, u) ==
    \E h : /\ Sound(u, h) /\ Spelled(u, h, [d EXCEPT ![key] = NULL])
           /\ \A x \in DOMAIN u.node : h.high[x] = g.high[x]

(* tst_delete takes the vnode v of key away: what was below it is now      *)
(* where it was, and nothing gets higher.                                  *)
LEMMA CutSound ==
    ASSUME NEW t, NEW g, Sound(t, g), NEW d \in [Keys -> Values \cup {NULL}], Spelled(t, g, d),
           NEW v, NEW key \in Keys, Lone(t, g, v, key),
           NEW a, a = t.node[v].r, a # NULL,
           NEW u, CutOff(t, v, a, u)
    PROVE  Lowered(t, g, d, key, u)
<1>0. /\ v \in DOMAIN t.node /\ t.node[v].c = TCHAR /\ g.pre[v] = key
      /\ \A x \in DOMAIN t.node : t.node[x].c = TCHAR /\ x # v => g.pre[x] # key
  BY DEF Lone
<1> USE <1>0
<1> DEFINE D == DOMAIN t.node
           w == t.node[v].l
           h == [top |-> g.top, high |-> g.high, pre |-> g.pre,
                 up |-> [x \in D |-> IF x = w THEN a ELSE g.up[x]],
                 side |-> [x \in D |-> IF x = w THEN "e" ELSE g.side[x]],
                 via |-> [x \in D |-> IF x = w THEN g.via[v] ELSE g.via[x]]]
<1>1. /\ h.top = g.top /\ h.high = g.high /\ h.pre = g.pre
      /\ \A x \in D : x = w => h.up[x] = a /\ h.side[x] = "e" /\ h.via[x] = g.via[v]
      /\ \A x \in D : x # w => h.up[x] = g.up[x] /\ h.side[x] = g.side[x] /\ h.via[x] = g.via[x]
  OBVIOUS
<1> HIDE DEF h
<1>2. /\ Shaped(u) /\ DOMAIN u.node = D \ {v} /\ NULL \notin D
      /\ \A x \in D \ {v} : u.node[x].c = t.node[x].c
      /\ \A x \in D \ {v} : t.node[x].c = TCHAR => u.node[x].e = t.node[x].e /\ u.node[x].r = t.node[x].r
      /\ \A p \in Spots(u) : LinksOf(u, p) = LinksOf(t, p)
      /\ \A p \in Spots(u) : \A q \in LinksOf(t, p) :
            Holds(u, p, q) = IF p = a /\ q = "e" THEN w ELSE Holds(t, p, q)
  BY DEF CutOff
<1>3. /\ Placed(t, g) /\ Ranked(t, g) /\ Routed(t, g) /\ Backed(t, g)
  BY DEF Sound
<1>4. Spots(u) = Spots(t) \ {v} /\ Spots(t) = D \cup {NULL}
  BY <1>2 DEF Spots
(* The node v is the e of a, and above w.                                  *)
<1>5. a = g.up[v] /\ g.side[v] = "e" /\ a \in D /\ t.node[a].c # TCHAR /\ Holds(t, a, "e") = v
      /\ g.high[v] < g.high[a]
  <2>1. a = g.up[v] /\ g.side[v] \in {"head", "e"} /\ t.node[a].c # TCHAR
    BY <1>3 DEF Backed
  <2>2. g.up[v] \in Spots(t) /\ g.side[v] \in LinksOf(t, a) /\ Holds(t, a, g.side[v]) = v
    BY <1>3, <2>1 DEF Placed
  <2>3. a \in D /\ g.side[v] = "e"
    BY <1>4, <2>1, <2>2 DEF LinksOf
  <2> QED BY <1>3, <2>1, <2>2, <2>3 DEF Ranked
<1>6. v \in Spots(t) /\ v # NULL /\ LinksOf(t, v) = {"l"} /\ Holds(t, v, "l") = w
  BY <1>2, <1>4 DEF LinksOf, Holds
<1>7. w # NULL => /\ w \in D /\ g.up[w] = v /\ g.side[w] = "l"
                  /\ g.pre[w] = Prefix(t, g, v, "l") /\ g.via[w] = Sent(t, g, v, "l")
                  /\ g.high[w] < g.high[v]
  <2>1. ASSUME w # NULL PROVE /\ w \in D /\ g.up[w] = v /\ g.side[w] = "l"
                              /\ g.pre[w] = Prefix(t, g, v, "l") /\ g.via[w] = Sent(t, g, v, "l")
                              /\ g.high[w] < g.high[v]
    <3> HIDE DEF w
    <3> QED BY <1>6, <2>1, PlaceHolds
  <2> QED BY <2>1
<1>8. /\ g.top \in Nat
      /\ \A x \in D : g.high[x] \in 0..g.top /\ (g.up[x] # NULL => g.high[x] < g.high[g.up[x]])
      /\ \A x \in D : /\ g.up[x] \in D \cup {NULL} /\ g.side[x] \in LinksOf(t, g.up[x])
                      /\ Holds(t, g.up[x], g.side[x]) = x
  BY <1>3, <1>4 DEF Ranked, Placed
<1>9. a # v /\ a \in Spots(u) /\ "e" \in LinksOf(t, a) /\ w # v
  <2>1. a # v /\ w # v
    <3>1. g.high[v] \in Nat /\ g.high[a] \in Nat
      BY <1>5, <1>8
    <3>2. a # v
      BY <1>5, <3>1
    <3>3. w # v
      BY <1>2, <1>7, <3>1
    <3> QED BY <3>2, <3>3
  <2> QED BY <1>2, <1>4, <1>5, <2>1 DEF LinksOf
(* Nothing but w hangs from v.                                             *)
<1>10. ASSUME NEW x \in D, x # v, x # w
       PROVE  g.up[x] \in Spots(u) /\ ~(g.up[x] = a /\ g.side[x] = "e")
  <2>1. g.up[x] # v
    BY <1>6, <1>8, <1>10
  <2>2. ~(g.up[x] = a /\ g.side[x] = "e")
    BY <1>5, <1>8, <1>10
  <2> QED BY <1>4, <1>8, <2>1, <2>2
<1> HIDE DEF w
<1>11. Placed(u, h)
  <2>1. ASSUME NEW x \in DOMAIN u.node
        PROVE  /\ h.up[x] \in Spots(u) /\ h.side[x] \in LinksOf(u, h.up[x])
               /\ Holds(u, h.up[x], h.side[x]) = x
    <3>1. x \in D /\ x # v
      BY <1>2
    <3>2. CASE x = w
      BY <1>1, <1>2, <1>9, <3>1, <3>2
    <3>3. CASE x # w
      BY <1>1, <1>2, <1>8, <1>10, <3>1, <3>3
    <3> QED BY <3>2, <3>3
  <2>2. ASSUME NEW p \in Spots(u), NEW q \in LinksOf(u, p), Holds(u, p, q) # NULL
        PROVE  /\ Holds(u, p, q) \in DOMAIN u.node
               /\ h.up[Holds(u, p, q)] = p /\ h.side[Holds(u, p, q)] = q
    <3>1. p \in Spots(t) /\ q \in LinksOf(t, p) /\ p # v
      BY <1>2, <1>4
    <3>2. CASE p = a /\ q = "e"
      BY <1>1, <1>2, <1>7, <1>9, <2>2, <3>1, <3>2
    <3>3. CASE ~(p = a /\ q = "e")
      <4> DEFINE y == Holds(t, p, q)
      <4>1. Holds(u, p, q) = y /\ y # NULL
        BY <1>2, <2>2, <3>1, <3>3
      <4>2. y \in D /\ g.up[y] = p /\ g.side[y] = q
        BY <3>1, <4>1, PlaceHolds
      <4>3. y # v /\ y # w
        BY <1>2, <1>5, <1>7, <3>1, <3>3, <4>1, <4>2
      <4> HIDE DEF y
      <4> QED BY <1>1, <1>2, <4>1, <4>2, <4>3
    <3> QED BY <3>2, <3>3
  <2> QED BY <2>1, <2>2 DEF Placed
<1>12. Ranked(u, h)
  <2>1. ASSUME NEW x \in DOMAIN u.node
        PROVE  h.high[x] \in 0..h.top /\ (h.up[x] # NULL => h.high[x] < h.high[h.up[x]])
    <3>1. x \in D
      BY <1>2
    <3>2. CASE x = w
      <4>1. g.high[w] < g.high[v] /\ g.high[v] < g.high[a] /\ h.up[w] = a /\ w \in D
        BY <1>1, <1>2, <1>5, <1>7, <3>1, <3>2
      <4>2. g.high[w] \in 0..g.top /\ g.high[v] \in Nat /\ g.high[a] \in Nat
        BY <1>5, <1>8, <4>1
      <4> QED BY <1>1, <1>8, <3>2, <4>1, <4>2
    <3>3. CASE x # w
      BY <1>1, <1>8, <3>1, <3>3
    <3> QED BY <3>2, <3>3
  <2> QED BY <1>1, <1>8, <2>1 DEF Ranked
<1>13. ASSUME NEW p \in Spots(u), NEW q \in LinksOf(t, p)
       PROVE  Prefix(u, h, p, q) = Prefix(t, g, p, q) /\ Sent(u, h, p, q) = Sent(t, g, p, q)
  <2>1. CASE p = NULL
    BY <2>1 DEF Prefix, Sent
  <2>2. CASE p # NULL
    <3>1. p \in D /\ p # v /\ h.pre[p] = g.pre[p] /\ u.node[p].c = t.node[p].c
      BY <1>1, <1>2, <1>4, <2>2
    <3>2. Prefix(u, h, p, q) = Prefix(t, g, p, q)
      BY <2>2, <3>1 DEF Prefix
    <3>3. \A k : k \in h.via[p] /\ Char(k, Len(g.pre[p]) + 1) # TCHAR
                   <=> k \in g.via[p] /\ Char(k, Len(g.pre[p]) + 1) # TCHAR
      <4>1. CASE p = w
        <5>1. h.via[w] = g.via[v] /\ g.pre[w] = g.pre[v]
          BY <1>1, <1>2, <1>6, <1>7, <3>1, <4>1 DEF Prefix
        <5>2. g.via[w] = {k \in g.via[v] : Char(k, Len(g.pre[v]) + 1) # TCHAR}
          BY <1>2, <1>6, <1>7, <3>1, <4>1 DEF Sent
        <5> QED BY <4>1, <5>1, <5>2
      <4>2. CASE p # w
        BY <1>1, <3>1, <4>2
      <4> QED BY <4>1, <4>2
    <3>4. Sent(u, h, p, q) = Sent(t, g, p, q)
      BY <2>2, <3>1, <3>3 DEF Sent
    <3> QED BY <3>2, <3>4
  <2> QED BY <2>1, <2>2
<1>14. Routed(u, h)
  <2>1. \A x \in D : /\ g.pre[x] \in Seq(Int) /\ g.via[x] \in SUBSET Keys
                     /\ g.pre[x] = Prefix(t, g, g.up[x], g.side[x])
                     /\ g.via[x] = Sent(t, g, g.up[x], g.side[x])
                     /\ \A k \in g.via[x] : Begins(k, g.pre[x])
    BY <1>3 DEF Routed
  <2>2. ASSUME NEW x \in DOMAIN u.node
        PROVE  /\ h.pre[x] \in Seq(Int) /\ h.via[x] \in SUBSET Keys
               /\ h.pre[x] = Prefix(u, h, h.up[x], h.side[x])
               /\ h.via[x] = Sent(u, h, h.up[x], h.side[x])
               /\ \A k \in h.via[x] : Begins(k, h.pre[x])
    <3>1. x \in D /\ x # v
      BY <1>2
    <3>2. CASE x = w
      <4>1. h.up[w] = a /\ h.side[w] = "e" /\ h.via[w] = g.via[v] /\ h.pre[w] = g.pre[w]
        BY <1>1, <3>1, <3>2
      <4>2. g.pre[w] = g.pre[v]
        BY <1>2, <1>7, <3>1, <3>2 DEF Prefix
      <4>3. g.pre[v] = Prefix(u, h, a, "e") /\ g.via[v] = Sent(u, h, a, "e")
        BY <1>5, <1>9, <1>13, <2>1
      <4> QED BY <2>1, <3>2, <4>1, <4>2, <4>3
    <3>3. CASE x # w
      <4>1. h.up[x] = g.up[x] /\ h.side[x] = g.side[x] /\ h.pre[x] = g.pre[x] /\ h.via[x] = g.via[x]
        BY <1>1, <3>1, <3>3
      <4>2. g.up[x] \in Spots(u) /\ g.side[x] \in LinksOf(t, g.up[x])
        BY <1>8, <1>10, <3>1, <3>3
      <4> QED BY <1>13, <2>1, <3>1, <4>1, <4>2
    <3> QED BY <3>2, <3>3
  <2> QED BY <2>2 DEF Routed
(* A vnode is not below another.                                           *)
<1>15. \A x \in D : t.node[x].c = TCHAR => x # w
  BY <1>2, <1>3, <1>7 DEF Backed
<1>16. Backed(u, h)
  <2>1. ASSUME NEW x \in DOMAIN u.node, u.node[x].c = TCHAR
        PROVE  /\ h.side[x] \in {"head", "e"}
               /\ h.up[x] # NULL => u.node[h.up[x]].c # TCHAR
               /\ u.node[x].r # NULL => h.up[x] = u.node[x].r
    <3>1. x \in D /\ x # v /\ t.node[x].c = TCHAR /\ x # w /\ u.node[x].r = t.node[x].r
      BY <1>2, <1>15, <2>1
    <3>2. h.up[x] = g.up[x] /\ h.side[x] = g.side[x] /\ g.up[x] \in Spots(u)
      BY <1>1, <1>10, <3>1
    <3>3. /\ g.side[x] \in {"head", "e"}
          /\ g.up[x] # NULL => t.node[g.up[x]].c # TCHAR
          /\ t.node[x].r # NULL => g.up[x] = t.node[x].r
      BY <1>3, <3>1 DEF Backed
    <3>4. g.up[x] # NULL => u.node[g.up[x]].c = t.node[g.up[x]].c
      BY <1>2, <1>4, <3>2
    <3> QED BY <3>1, <3>2, <3>3, <3>4
  <2> QED BY <2>1 DEF Backed
<1>17. Spelled(u, h, [d EXCEPT ![key] = NULL])
  <2> DEFINE e == [d EXCEPT ![key] = NULL]
  <2>1. e[key] = NULL /\ \A k \in Keys \ {key} : e[k] = d[k]
    OBVIOUS
  <2> HIDE DEF e
  <2>2. ASSUME NEW x \in DOMAIN u.node, u.node[x].c = TCHAR
        PROVE  h.pre[x] \in h.via[x] /\ e[h.pre[x]] = u.node[x].e
    <3>1. x \in D /\ x # v /\ t.node[x].c = TCHAR /\ x # w /\ u.node[x].e = t.node[x].e
      BY <1>2, <1>15, <2>2
    <3>2. h.pre[x] = g.pre[x] /\ h.via[x] = g.via[x] /\ g.pre[x] # key
      BY <1>1, <3>1
    <3>3. g.pre[x] \in g.via[x] /\ d[g.pre[x]] = t.node[x].e /\ g.via[x] \subseteq Keys
      BY <1>3, <3>1 DEF Spelled, Routed
    <3> QED BY <2>1, <3>1, <3>2, <3>3
  <2>3. ASSUME NEW k \in Keys, e[k] # NULL
        PROVE  \E x \in DOMAIN u.node : u.node[x].c = TCHAR /\ h.pre[x] = k
    <3>1. k # key
      BY <2>1, <2>3
    <3>2. PICK x \in D : t.node[x].c = TCHAR /\ g.pre[x] = k
      BY <2>1, <2>3, <3>1 DEF Spelled
    <3>3. x # v
      BY <3>1, <3>2
    <3> QED BY <1>1, <1>2, <3>2, <3>3
  <2>4. Spelled(u, h, e)
    BY <2>2, <2>3 DEF Spelled
  <2> QED BY <2>4 DEF e
<1>18. Sound(u, h)
  BY <1>2, <1>11, <1>12, <1>14, <1>16 DEF Sound
<1>19. \A x \in DOMAIN u.node : h.high[x] = g.high[x]
  BY <1>1
<1> QED BY <1>17, <1>18, <1>19 DEF Lowered

(* The first n characters of a key.                                        *)
First(key, n) == [x \in 1..n |-> key[x]]

(* They are the beginning of the key, one character after the other.       *)
LEMMA FirstIs ==
    ASSUME NEW key \in Keys, NEW n \in Nat, n <= Len(key)
    PROVE  /\ First(key, n) \in Seq(Int) /\ Len(First(key, n)) = n /\ Begins(key, First(key, n))
           /\ n = Len(key) => First(key, n) = key
           /\ n < Len(key) => /\ First(key, n + 1) = Append(First(key, n), key[n + 1])
                              /\ \A k \in Keys : Begins(k, First(key, n + 1)) <=>
                                    Begins(k, First(key, n)) /\ Char(k, n + 1) = key[n + 1]
           /\ \A s \in Seq(Int) : Begins(key, s) /\ Len(s) = n => s = First(key, n)
<1> DEFINE f == First(key, n)
<1>1. key \in Seq(Int) /\ Len(key) \in Nat /\ \A x \in 1..Len(key) : key[x] \in Int \ {TCHAR}
  BY KeyIs
<1>2. f \in Seq(Int) /\ Len(f) = n /\ \A x \in 1..n : f[x] = key[x]
  BY <1>1 DEF First
<1>3. Begins(key, f)
  BY <1>1, <1>2 DEF Begins
<1>4. ASSUME n = Len(key) PROVE f = key
  <2>1. key = [x \in 1..Len(key) |-> key[x]]
    BY <1>1
  <2> QED BY <1>4, <2>1 DEF First
<1>5. ASSUME n < Len(key)
      PROVE  /\ First(key, n + 1) = Append(First(key, n), key[n + 1])
             /\ \A k \in Keys : Begins(k, First(key, n + 1)) <=>
                   Begins(k, First(key, n)) /\ Char(k, n + 1) = key[n + 1]
  <2> DEFINE c == key[n + 1]
             e == First(key, n + 1)
  <2>1. n + 1 \in 1..Len(key) /\ c \in Int \ {TCHAR}
    BY <1>1, <1>5
  <2>2. e \in Seq(Int) /\ Len(e) = n + 1 /\ e[n + 1] = c /\ (\A x \in 1..n : e[x] = f[x])
        /\ \A x \in 1..n + 1 : e[x] = key[x]
    BY <1>1, <1>2, <2>1 DEF First
  <2>3. Append(f, c) \in Seq(Int) /\ Len(Append(f, c)) = n + 1
        /\ \A x \in 1..n + 1 : Append(f, c)[x] = IF x = n + 1 THEN c ELSE f[x]
    BY <1>2, <2>1
  <2>4. e = Append(f, c)
    <3> HIDE DEF e, f, c
    <3>1. \A x \in 1..n + 1 : x = n + 1 \/ x \in 1..n
      OBVIOUS
    <3>2. \A x \in 1..n + 1 : e[x] = Append(f, c)[x]
      BY <2>2, <2>3, <3>1
    <3> QED BY <2>2, <2>3, <3>2, SeqEqual
  <2> HIDE DEF e, f, c
  <2>5. ASSUME NEW k \in Keys
        PROVE  Begins(k, e) <=> Begins(k, f) /\ Char(k, n + 1) = c
    <3>1. Len(k) \in Nat /\ \A x \in Nat : Char(k, x) \in Int /\ (Char(k, x) = TCHAR <=> x \notin 1..Len(k))
      BY KeyIs
    <3>2. \A x \in 1..Len(k) : Char(k, x) = k[x]
      BY KeyIs
    <3>3. (\A x \in 1..n : x \in 1..n + 1) /\ n + 1 \in 1..n + 1 /\ \A x \in 1..n + 1 : x = n + 1 \/ x \in 1..n
      OBVIOUS
    <3>4. ASSUME Begins(k, e) PROVE Begins(k, f) /\ Char(k, n + 1) = c
      <4>1. n + 1 <= Len(k) /\ \A x \in 1..n + 1 : k[x] = e[x]
        BY <2>2, <3>4 DEF Begins
      <4>2. n <= Len(k) /\ \A x \in 1..n : k[x] = f[x]
        <5>1. n <= Len(k)
          BY <3>1, <4>1
        <5>2. ASSUME NEW x \in 1..n PROVE k[x] = f[x]
          BY <2>2, <3>3, <4>1
        <5> QED BY <5>1, <5>2
      <4>3. n + 1 \in 1..Len(k)
        BY <3>1, <4>1
      <4>4. Begins(k, f)
        BY <1>2, <4>2 DEF Begins
      <4>5. k[n + 1] = c
        BY <2>2, <3>3, <4>1
      <4> QED BY <3>2, <4>3, <4>4, <4>5
    <3>5. ASSUME Begins(k, f), Char(k, n + 1) = c PROVE Begins(k, e)
      <4>0. Char(k, n + 1) # TCHAR /\ n + 1 \in Nat
        BY <2>1, <3>5
      <4>1. n + 1 \in 1..Len(k) /\ k[n + 1] = c
        <5>1. n + 1 \in 1..Len(k)
          BY <3>1, <4>0
        <5> QED BY <3>2, <3>5, <5>1
      <4>2. \A x \in 1..n : k[x] = f[x]
        BY <1>2, <3>5 DEF Begins
      <4>3. \A x \in 1..n + 1 : k[x] = e[x]
        BY <2>2, <3>3, <4>1, <4>2
      <4>4. n + 1 <= Len(k)
        BY <3>1, <4>1
      <4>5. Len(e) <= Len(k) /\ \A x \in 1..Len(e) : k[x] = e[x]
        BY <2>2, <4>3, <4>4
      <4> QED BY <4>5 DEF Begins
    <3> QED BY <3>4, <3>5
  <2> QED BY <2>4, <2>5 DEF e, f, c
<1>6. ASSUME NEW s \in Seq(Int), Begins(key, s), Len(s) = n PROVE s = f
  <2>1. \A x \in 1..n : s[x] = f[x]
    BY <1>2, <1>6 DEF Begins
  <2> HIDE DEF f
  <2> QED BY <1>2, <1>6, <2>1, SeqEqual
<1> QED BY <1>2, <1>3, <1>4, <1>5, <1>6

(* u is t with a chain of nodes ids, m of them, for the characters of key  *)
(* from the i-th on, and a vnode with val at the end of it, in the place s.*)
Chained(t, s, key, i, val, ids, m, u) ==
    /\ Shaped(u) /\ NULL \notin DOMAIN u.node
    /\ DOMAIN u.node = DOMAIN t.node \cup {ids[j] : j \in 1..m}
    /\ \A x \in DOMAIN t.node : u.node[x].c = t.node[x].c
    /\ \A x \in DOMAIN t.node : t.node[x].c = TCHAR =>
          u.node[x].e = t.node[x].e /\ u.node[x].r = t.node[x].r
    /\ \A p \in Spots(t) : LinksOf(u, p) = LinksOf(t, p)
    /\ \A p \in Spots(t) : \A q \in LinksOf(t, p) :
          Holds(u, p, q) = IF p = s.at /\ q = s.link THEN ids[1] ELSE Holds(t, p, q)
    /\ \A j \in 1..m : ids[j] \notin DOMAIN t.node
    /\ \A j \in 1..m - 1 : u.node[ids[j]] = [c |-> key[i + j - 1], l |-> NULL, e |-> ids[j + 1], r |-> NULL]
    /\ u.node[ids[m]] = [c |-> TCHAR, l |-> NULL, e |-> val, r |-> IF m = 1 THEN NULL ELSE ids[m - 1]]

(* The cells of the chain are those that Chain makes.                      *)
IsMap(f) == f = [x \in DOMAIN f |-> f[x]]

Links(key, i, val, ids, m, new) ==
    /\ DOMAIN new = {ids[j] : j \in 1..m} /\ IsMap(new)
    /\ \A j \in 1..m - 1 :
          new[ids[j]] = [c |-> key[i + j - 1], l |-> NULL, e |-> ids[j + 1], r |-> NULL]
    /\ new[ids[m]] = [c |-> TCHAR, l |-> NULL, e |-> val, r |-> IF m = 1 THEN NULL ELSE ids[m - 1]]

(* What the first case of tst_insert stores is such a tree.                *)
LEMMA ChainIs ==
    ASSUME NEW t, Shaped(t), NEW s, s.at \in Spots(t), s.link \in LinksOf(t, s.at),
           NEW key \in Keys, NEW i \in Nat \ {0}, i <= Len(key) + 1, NEW val \in Values,
           NEW m \in Nat \ {0}, m = Len(key) - i + 2,
           NEW ids \in [1..m -> Ids \ DOMAIN t.node],
           NEW new, Links(key, i, val, ids, m, new),
           NEW u, u = Alloc(Store(t, s, ids[1]), new)
    PROVE  Chained(t, s, key, i, val, ids, m, u)
<1>1. /\ DOMAIN new = {ids[j] : j \in 1..m} /\ IsMap(new)
      /\ \A j \in 1..m - 1 :
            new[ids[j]] = [c |-> key[i + j - 1], l |-> NULL, e |-> ids[j + 1], r |-> NULL]
      /\ new[ids[m]] = [c |-> TCHAR, l |-> NULL, e |-> val, r |-> IF m = 1 THEN NULL ELSE ids[m - 1]]
  BY DEF Links
<1>2. key \in Seq(Int \ {TCHAR}) /\ Len(key) \in Nat /\ \A x \in 1..Len(key) : key[x] \in Int /\ key[x] # TCHAR
  <2>1. key \in Seq(Int \ {TCHAR})
    BY KeyIs
  <2> QED BY <2>1
<1>3. ASSUME NEW j \in 1..m - 1
      PROVE  /\ j \in 1..m /\ j + 1 \in 1..m
             /\ key[i + j - 1] \in Int /\ key[i + j - 1] # TCHAR
  <2>1. j \in 1..m /\ j + 1 \in 1..m /\ i + j - 1 \in 1..Len(key)
    BY <1>2
  <2> QED BY <1>2, <2>1
<1>4. m \in 1..m /\ 1 \in 1..m /\ (m # 1 => m - 1 \in 1..m) /\ \A j \in 1..m : j = m \/ j \in 1..m - 1
  OBVIOUS
<1>5. \A j \in 1..m : ids[j] \in Ids /\ ids[j] \notin DOMAIN t.node
  OBVIOUS
<1>6. ASSUME NEW j \in 1..m
      PROVE  new[ids[j]] \in Cell /\ (new[ids[j]].c = TCHAR => new[ids[j]].e \in Values)
  <2>1. CASE j = m
    <3>1. TCHAR \in Nat
      BY DEF TCHAR
    <3> DEFINE back == IF m = 1 THEN NULL ELSE ids[m - 1]
    <3>2. back \in Ids \cup {NULL}
      BY <1>4, <1>5
    <3> HIDE DEF back
    <3>3. new[ids[j]] = [c |-> TCHAR, l |-> NULL, e |-> val, r |-> back]
      BY <1>1, <2>1 DEF back
    <3> QED BY <3>1, <3>2, <3>3 DEF Cell
  <2>2. CASE j \in 1..m - 1
    <3>1. key[i + j - 1] \in Int /\ key[i + j - 1] # TCHAR /\ ids[j + 1] \in Ids
      BY <1>3, <1>5, <2>2
    <3>2. new[ids[j]] = [c |-> key[i + j - 1], l |-> NULL, e |-> ids[j + 1], r |-> NULL]
      BY <1>1, <2>2
    <3> QED BY <3>1, <3>2 DEF Cell
  <2> QED BY <1>4, <2>1, <2>2
<1>7. ASSUME NEW x \in DOMAIN new
      PROVE  new[x] \in Cell /\ (new[x].c = TCHAR => new[x].e \in Values)
  <2>1. PICK j \in 1..m : x = ids[j]
    BY <1>1
  <2> QED BY <1>6, <2>1
<1>8. new \in [DOMAIN new -> Cell] /\ DOMAIN new \in SUBSET (Ids \ DOMAIN t.node) /\ ids[1] \in DOMAIN new
  <2>1. new \in [DOMAIN new -> Cell]
    BY <1>1, <1>7 DEF IsMap
  <2>2. DOMAIN new \in SUBSET (Ids \ DOMAIN t.node)
    BY <1>1, <1>5
  <2>3. ids[1] \in DOMAIN new
    BY <1>1, <1>4
  <2> QED BY <2>1, <2>2, <2>3
<1>9. /\ Shaped(u) /\ DOMAIN u.node = DOMAIN t.node \cup DOMAIN new
      /\ NULL \notin DOMAIN u.node
      /\ \A n \in DOMAIN new : u.node[n] = new[n]
      /\ \A n \in DOMAIN t.node : u.node[n].c = t.node[n].c
      /\ \A n \in DOMAIN t.node : t.node[n].c = TCHAR =>
            u.node[n].e = t.node[n].e /\ u.node[n].r = t.node[n].r
      /\ \A a \in Spots(t) : LinksOf(u, a) = LinksOf(t, a)
      /\ \A a \in Spots(t) : \A b \in LinksOf(t, a) :
            Holds(u, a, b) = IF a = s.at /\ b = s.link THEN ids[1] ELSE Holds(t, a, b)
  <2>1. \A n \in DOMAIN new : new[n].c = TCHAR => new[n].e \in Values
    BY <1>7
  <2>2. Grown(t, s, ids[1], new, u)
    BY <1>8, <2>1, GrownIs
  <2> QED BY <2>2 DEF Grown
<1>10. \A j \in 1..m : u.node[ids[j]] = new[ids[j]]
  BY <1>1, <1>9
<1>11. /\ \A j \in 1..m - 1 : u.node[ids[j]] = [c |-> key[i + j - 1], l |-> NULL, e |-> ids[j + 1], r |-> NULL]
       /\ u.node[ids[m]] = [c |-> TCHAR, l |-> NULL, e |-> val, r |-> IF m = 1 THEN NULL ELSE ids[m - 1]]
  BY <1>1, <1>3, <1>4, <1>10
<1> QED BY <1>1, <1>5, <1>9, <1>11 DEF Chained

(* tst_insert hangs a chain for the rest of key, and its vnode, where the  *)
(* way of key ends with nothing.                                           *)
LEMMA ChainSound ==
    ASSUME NEW t, NEW g, Sound(t, g), NEW d \in [Keys -> Values \cup {NULL}], Spelled(t, g, d),
           NEW s, s.at \in Spots(t), s.link \in LinksOf(t, s.at), Holds(t, s.at, s.link) = NULL,
           NEW key \in Keys, key \in Sent(t, g, s.at, s.link),
           NEW i \in Nat \ {0}, i = Len(Prefix(t, g, s.at, s.link)) + 1,
           NEW m \in Nat \ {0}, m = Len(key) - i + 2,
           \A x \in DOMAIN t.node : t.node[x].c = TCHAR => g.pre[x] # key,
           NEW val \in Values, NEW ids \in [1..m -> Ids \ DOMAIN t.node],
           \A j, k \in 1..m : ids[j] = ids[k] => j = k,
           NEW u, Chained(t, s, key, i, val, ids, m, u)
    PROVE  Kept(u, [d EXCEPT ![key] = val])
<1> DEFINE a == s.at
           b == s.link
           D == DOMAIN t.node
           New == {ids[j] : j \in 1..m}
           pos(x) == CHOOSE j \in 1..m : ids[j] = x
           far(j) == First(key, i + j - 2)
           at(j) == i + j - 1
           ch(j) == key[at(j)]
           h == [top |-> g.top + m,
                 high |-> [x \in D \cup New |-> IF x \in New THEN m - pos(x) ELSE g.high[x] + m],
                 up |-> [x \in D \cup New |-> IF x \in New THEN IF pos(x) = 1 THEN a ELSE ids[pos(x) - 1]
                                              ELSE g.up[x]],
                 side |-> [x \in D \cup New |-> IF x \in New THEN IF pos(x) = 1 THEN b ELSE "e"
                                                ELSE g.side[x]],
                 pre |-> [x \in D \cup New |-> IF x \in New THEN far(pos(x)) ELSE g.pre[x]],
                 via |-> [x \in D \cup New |-> IF x \in New
                                               THEN {k \in Sent(t, g, a, b) : Begins(k, far(pos(x)))}
                                               ELSE g.via[x]]]
<1>1. \A j \in 1..m : pos(ids[j]) = j /\ ids[j] \in New /\ ids[j] \in Ids /\ ids[j] \notin D
  <2>1. ASSUME NEW j \in 1..m PROVE pos(ids[j]) = j
    <3>1. \E k \in 1..m : ids[k] = ids[j]
      OBVIOUS
    <3>2. pos(ids[j]) \in 1..m /\ ids[pos(ids[j])] = ids[j]
      BY <3>1
    <3> QED BY <3>2
  <2>2. \A j \in 1..m : ids[j] \in New /\ ids[j] \in Ids /\ ids[j] \notin D
    OBVIOUS
  <2> QED BY <2>1, <2>2
<1> HIDE DEF pos, far, at, ch
<1>2. /\ h.top = g.top + m
      /\ \A x \in D : x \notin New => /\ h.high[x] = g.high[x] + m /\ h.up[x] = g.up[x] /\ h.side[x] = g.side[x]
                                      /\ h.pre[x] = g.pre[x] /\ h.via[x] = g.via[x]
  OBVIOUS
<1>3. \A x \in New : /\ h.high[x] = m - pos(x)
                     /\ h.up[x] = IF pos(x) = 1 THEN a ELSE ids[pos(x) - 1]
                     /\ h.side[x] = IF pos(x) = 1 THEN b ELSE "e"
                     /\ h.pre[x] = far(pos(x))
                     /\ h.via[x] = {k \in Sent(t, g, a, b) : Begins(k, far(pos(x)))}
  OBVIOUS
<1> HIDE DEF h
<1>4. New \cap D = {} /\ \A x \in New : \E j \in 1..m : x = ids[j]
  BY <1>1
(* The labels of the chain and of the old nodes.                           *)
<1>5. \A j \in 1..m : /\ h.high[ids[j]] = m - j
                      /\ h.up[ids[j]] = IF j = 1 THEN a ELSE ids[j - 1]
                      /\ h.side[ids[j]] = IF j = 1 THEN b ELSE "e"
                      /\ h.pre[ids[j]] = far(j)
                      /\ h.via[ids[j]] = {k \in Sent(t, g, a, b) : Begins(k, far(j))}
  BY <1>1, <1>3
<1>6. ASSUME NEW j \in 1..m - 1
      PROVE  /\ j \in 1..m /\ j + 1 \in 1..m /\ j + 1 # 1
             /\ h.up[ids[j + 1]] = ids[j] /\ h.side[ids[j + 1]] = "e"
  <2>1. j \in 1..m /\ j + 1 \in 1..m /\ j + 1 # 1 /\ (j + 1) - 1 = j
    OBVIOUS
  <2> QED BY <1>5, <2>1
<1>7. /\ h.top = g.top + m
      /\ \A x \in D : /\ h.high[x] = g.high[x] + m /\ h.up[x] = g.up[x] /\ h.side[x] = g.side[x]
                      /\ h.pre[x] = g.pre[x] /\ h.via[x] = g.via[x]
  BY <1>2, <1>4
(* The tree.                                                               *)
<1>8. /\ Shaped(u) /\ NULL \notin DOMAIN u.node /\ DOMAIN u.node = D \cup New
      /\ \A x \in D : u.node[x].c = t.node[x].c
      /\ \A x \in D : t.node[x].c = TCHAR => u.node[x].e = t.node[x].e /\ u.node[x].r = t.node[x].r
      /\ \A p \in Spots(t) : LinksOf(u, p) = LinksOf(t, p)
      /\ \A p \in Spots(t) : \A q \in LinksOf(t, p) :
            Holds(u, p, q) = IF p = a /\ q = b THEN ids[1] ELSE Holds(t, p, q)
      /\ \A j \in 1..m - 1 : u.node[ids[j]] = [c |-> ch(j), l |-> NULL, e |-> ids[j + 1], r |-> NULL]
      /\ u.node[ids[m]] = [c |-> TCHAR, l |-> NULL, e |-> val, r |-> IF m = 1 THEN NULL ELSE ids[m - 1]]
  BY DEF Chained, ch, at
<1> HIDE DEF New
<1>9. /\ Spots(u) = Spots(t) \cup New /\ Spots(t) = D \cup {NULL} /\ NULL \notin D /\ NULL \notin New
      /\ a \in Spots(t) /\ b \in LinksOf(t, a) /\ a \notin New
  BY <1>4, <1>8 DEF Spots
<1>10. /\ \A j \in 1..m - 1 : j \in 1..m /\ j + 1 \in 1..m
       /\ 1 \in 1..m /\ m \in 1..m /\ \A j \in 1..m : j = m \/ j \in 1..m - 1
  OBVIOUS
<1>11. /\ Len(key) \in Nat /\ i <= Len(key) + 1
       /\ \A x \in 1..Len(key) : key[x] \in Int /\ key[x] # TCHAR
       /\ Prefix(t, g, a, b) \in Seq(Int) /\ Begins(key, Prefix(t, g, a, b))
       /\ \A k \in Sent(t, g, a, b) : k \in Keys /\ Begins(k, Prefix(t, g, a, b))
       /\ (m = 1 => b \in {"head", "e"} /\ (a # NULL => t.node[a].c # TCHAR))
  <2>1. /\ Prefix(t, g, a, b) \in Seq(Int) /\ Begins(key, Prefix(t, g, a, b))
        /\ \A k \in Sent(t, g, a, b) : k \in Keys /\ Begins(k, Prefix(t, g, a, b))
    BY PlaceSends
  <2>2. Len(key) \in Nat /\ \A x \in 1..Len(key) : key[x] \in Int /\ key[x] # TCHAR
    <3>1. key \in Seq(Int \ {TCHAR})
      BY KeyIs
    <3> QED BY <3>1
  <2>3. i <= Len(key) + 1
    BY <2>1, <2>2 DEF Begins
  <2>4. ASSUME m = 1 PROVE b \in {"head", "e"} /\ (a # NULL => t.node[a].c # TCHAR)
    <3>1. i = Len(key) + 1
      BY <2>2, <2>4
    <3>2. Char(key, i) = TCHAR
      BY <2>2, <3>1, KeyIs
    <3> QED BY <3>2, PlaceSends
  <2> QED BY <2>1, <2>2, <2>3, <2>4
(* The characters that lead to the nodes of the chain.                     *)
<1>12. \A j \in 1..m : /\ i + j - 2 \in Nat /\ i + j - 2 <= Len(key)
                       /\ far(j) \in Seq(Int) /\ Len(far(j)) = i + j - 2 /\ Begins(key, far(j))
  <2>1. \A j \in 1..m : i + j - 2 \in Nat /\ i + j - 2 <= Len(key)
    BY <1>11
  <2> QED BY <2>1, FirstIs, ZenonT(40) DEF far
<1>13. far(1) = Prefix(t, g, a, b) /\ far(m) = key
  <2>1. i + 1 - 2 = Len(Prefix(t, g, a, b)) /\ i + m - 2 = Len(key)
    BY <1>11
  <2>2. i + 1 - 2 \in Nat /\ i + 1 - 2 <= Len(key)
    BY <1>10, <1>12
  <2>3. Prefix(t, g, a, b) = First(key, i + 1 - 2)
    BY <1>11, <2>1, <2>2, FirstIs
  <2>4. key = First(key, i + m - 2)
    BY <1>11, <2>1, FirstIs
  <2> QED BY <2>3, <2>4 DEF far
<1>14. ASSUME NEW j \in 1..m - 1
       PROVE  /\ far(j + 1) = Append(far(j), ch(j)) /\ at(j) = Len(far(j)) + 1 /\ at(j) \in Nat
              /\ \A k \in Keys : Begins(k, far(j + 1)) <=> Begins(k, far(j)) /\ Char(k, at(j)) = ch(j)
              /\ ch(j) \in Int /\ ch(j) # TCHAR
  <2> DEFINE n == i + j - 2
  <2>1. n \in Nat /\ n < Len(key) /\ n <= Len(key) /\ at(j) = n + 1 /\ n + 1 = i + (j + 1) - 2
        /\ at(j) \in 1..Len(key)
    BY <1>11 DEF at
  <2>2. key[at(j)] \in Int /\ key[at(j)] # TCHAR
    BY <1>11, <2>1
  <2>3. far(j) = First(key, n) /\ far(j + 1) = First(key, n + 1)
    BY <2>1 DEF far
  <2> HIDE DEF n
  <2>4. /\ First(key, n + 1) = Append(First(key, n), key[n + 1]) /\ Len(First(key, n)) = n
        /\ \A k \in Keys : Begins(k, First(key, n + 1)) <=> Begins(k, First(key, n)) /\ Char(k, n + 1) = key[n + 1]
    BY <2>1, FirstIs
  <2>5. ch(j) \in Int /\ ch(j) # TCHAR
    BY <2>2 DEF ch
  <2>6. ch(j) = key[n + 1]
    BY <2>1 DEF ch
  <2> QED BY <2>1, <2>3, <2>4, <2>5, <2>6, SMTT(30)
(* The nodes of the chain, and their links.                                *)
<1>15. /\ \A j \in 1..m - 1 : /\ u.node[ids[j]].c = ch(j) /\ u.node[ids[j]].c # TCHAR
                              /\ LinksOf(u, ids[j]) = {"l", "e", "r"}
                              /\ Holds(u, ids[j], "l") = NULL /\ Holds(u, ids[j], "r") = NULL
                              /\ Holds(u, ids[j], "e") = ids[j + 1]
       /\ u.node[ids[m]].c = TCHAR /\ u.node[ids[m]].e = val
       /\ u.node[ids[m]].r = IF m = 1 THEN NULL ELSE ids[m - 1]
       /\ LinksOf(u, ids[m]) = {"l"} /\ Holds(u, ids[m], "l") = NULL
  <2>1. ASSUME NEW j \in 1..m - 1
        PROVE  /\ u.node[ids[j]].c = ch(j) /\ u.node[ids[j]].c # TCHAR
               /\ LinksOf(u, ids[j]) = {"l", "e", "r"}
               /\ Holds(u, ids[j], "l") = NULL /\ Holds(u, ids[j], "r") = NULL
               /\ Holds(u, ids[j], "e") = ids[j + 1]
    <3> DEFINE x == ids[j]
               y == ids[j + 1]
    <3>1. u.node[x] = [c |-> ch(j), l |-> NULL, e |-> y, r |-> NULL]
      BY <1>8
    <3>2. x # NULL
      BY <1>1, <1>9, <1>10
    <3>3. ch(j) # TCHAR
      BY <1>14
    <3> HIDE DEF x, y
    <3>4. u.node[x].c = ch(j) /\ u.node[x].l = NULL /\ u.node[x].e = y /\ u.node[x].r = NULL
      BY <3>1
    <3>5. LinksOf(u, x) = {"l", "e", "r"}
      BY <3>2, <3>3, <3>4 DEF LinksOf
    <3>6. Holds(u, x, "l") = NULL /\ Holds(u, x, "r") = NULL /\ Holds(u, x, "e") = y
      BY <3>2, <3>4 DEF Holds
    <3> QED BY <3>3, <3>4, <3>5, <3>6 DEF x, y
  <2>2. /\ u.node[ids[m]].c = TCHAR /\ u.node[ids[m]].e = val
        /\ u.node[ids[m]].r = IF m = 1 THEN NULL ELSE ids[m - 1]
        /\ LinksOf(u, ids[m]) = {"l"} /\ Holds(u, ids[m], "l") = NULL
    <3>1. u.node[ids[m]] = [c |-> TCHAR, l |-> NULL, e |-> val, r |-> IF m = 1 THEN NULL ELSE ids[m - 1]]
      BY <1>8
    <3>2. ids[m] # NULL
      BY <1>1, <1>9, <1>10
    <3> QED BY <3>1, <3>2 DEF LinksOf, Holds
  <2> QED BY <2>1, <2>2
<1>16. Placed(u, h)
  <2>1. ASSUME NEW x \in DOMAIN u.node
        PROVE  /\ h.up[x] \in Spots(u) /\ h.side[x] \in LinksOf(u, h.up[x])
               /\ Holds(u, h.up[x], h.side[x]) = x
    <3>1. CASE x \in D
      <4>1. g.up[x] \in Spots(t) /\ g.side[x] \in LinksOf(t, g.up[x]) /\ Holds(t, g.up[x], g.side[x]) = x
        BY <3>1 DEF Sound, Placed
      <4>2. ~(g.up[x] = a /\ g.side[x] = b)
        BY <1>9, <3>1, <4>1
      <4> QED BY <1>7, <1>8, <1>9, <3>1, <4>1, <4>2
    <3>2. CASE x \in New
      <4>1. PICK j \in 1..m : x = ids[j]
        BY <1>4, <3>2
      <4>2. CASE j = 1
        BY <1>5, <1>8, <1>9, <1>10, <4>1, <4>2
      <4>3. CASE j # 1
        <5>1. j - 1 \in 1..m - 1 /\ (j - 1) + 1 = j
          BY <4>3
        <5>2. h.up[x] = ids[j - 1] /\ h.side[x] = "e"
          BY <1>5, <4>1, <4>3
        <5>3. ids[j - 1] \in New
          BY <1>1, <1>10, <5>1
        <5>4. LinksOf(u, ids[j - 1]) = {"l", "e", "r"} /\ Holds(u, ids[j - 1], "e") = ids[j]
          BY <1>15, <5>1
        <5> QED BY <1>9, <4>1, <5>2, <5>3, <5>4
      <4> QED BY <4>2, <4>3
    <3> QED BY <1>8, <3>1, <3>2
  <2>2. ASSUME NEW p \in Spots(u), NEW q \in LinksOf(u, p), Holds(u, p, q) # NULL
        PROVE  /\ Holds(u, p, q) \in DOMAIN u.node
               /\ h.up[Holds(u, p, q)] = p /\ h.side[Holds(u, p, q)] = q
    <3>1. CASE p \in New
      <4>1. PICK j \in 1..m : p = ids[j]
        BY <1>4, <3>1
      <4>2. CASE j = m
        BY <1>15, <2>2, <4>1, <4>2
      <4>3. CASE j # m
        <5>1. j \in 1..m - 1
          BY <1>10, <4>3
        <5>2. q = "e" /\ Holds(u, p, q) = ids[j + 1]
          <6>1. q \in {"l", "e", "r"}
            BY <1>15, <4>1, <5>1
          <6>2. q # "l" /\ q # "r"
            BY <1>15, <2>2, <4>1, <5>1
          <6> QED BY <1>15, <4>1, <5>1, <6>1, <6>2
        <5>3. h.up[ids[j + 1]] = ids[j] /\ h.side[ids[j + 1]] = "e" /\ ids[j + 1] \in New
          BY <1>1, <1>6, <5>1
        <5> QED BY <1>8, <4>1, <5>2, <5>3
      <4> QED BY <4>2, <4>3
    <3>2. CASE p \in Spots(t)
      <4>1. q \in LinksOf(t, p)
        BY <1>8, <3>2
      <4>2. CASE p = a /\ q = b
        BY <1>1, <1>5, <1>8, <1>10, <3>2, <4>1, <4>2
      <4>3. CASE ~(p = a /\ q = b)
        <5> DEFINE y == Holds(t, p, q)
        <5>1. Holds(u, p, q) = y /\ y # NULL
          BY <1>8, <2>2, <3>2, <4>1, <4>3
        <5>2. y \in D /\ g.up[y] = p /\ g.side[y] = q
          BY <3>2, <4>1, <5>1, PlaceHolds
        <5> HIDE DEF y
        <5> QED BY <1>7, <1>8, <5>1, <5>2
      <4> QED BY <4>2, <4>3
    <3> QED BY <1>9, <3>1, <3>2
  <2> QED BY <2>1, <2>2 DEF Placed
<1>17. Ranked(u, h)
  <2>1. g.top \in Nat /\ \A x \in D : g.high[x] \in 0..g.top /\ (g.up[x] # NULL => g.high[x] < g.high[g.up[x]])
        /\ (g.up[x] # NULL => g.up[x] \in D)
    BY <1>9 DEF Sound, Ranked, Placed
  <2>2. ASSUME NEW x \in DOMAIN u.node
        PROVE  h.high[x] \in 0..h.top /\ (h.up[x] # NULL => h.high[x] < h.high[h.up[x]])
    <3>1. CASE x \in D
      <4>1. g.high[x] \in 0..g.top /\ h.high[x] = g.high[x] + m /\ h.up[x] = g.up[x] /\ h.top = g.top + m
        BY <1>7, <2>1, <3>1
      <4>2. ASSUME g.up[x] # NULL PROVE h.high[x] < h.high[g.up[x]]
        <5>1. g.up[x] \in D /\ g.high[x] < g.high[g.up[x]] /\ g.high[g.up[x]] \in 0..g.top
          BY <2>1, <3>1, <4>2
        <5>2. h.high[g.up[x]] = g.high[g.up[x]] + m
          BY <1>7, <5>1
        <5> QED BY <2>1, <4>1, <5>1, <5>2
      <4> QED BY <2>1, <4>1, <4>2
    <3>2. CASE x \in New
      <4>1. PICK j \in 1..m : x = ids[j]
        BY <1>4, <3>2
      <4>2. h.high[x] = m - j /\ h.up[x] = IF j = 1 THEN a ELSE ids[j - 1]
        BY <1>5, <4>1
      <4>3. h.high[x] \in 0..h.top
        BY <1>7, <2>1, <4>2
      <4>4. CASE j = 1
        <5>1. ASSUME a # NULL PROVE h.high[x] < h.high[a]
          <6>1. a \in D /\ g.high[a] \in Nat
            BY <1>9, <2>1, <5>1
          <6>2. h.high[a] = g.high[a] + m
            BY <1>7, <6>1
          <6> QED BY <4>2, <4>4, <6>1, <6>2
        <5> QED BY <4>2, <4>3, <4>4, <5>1
      <4>5. CASE j # 1
        <5>1. j - 1 \in 1..m
          BY <4>5
        <5>2. h.high[ids[j - 1]] = m - (j - 1)
          BY <1>5, <5>1
        <5> QED BY <4>2, <4>3, <4>5, <5>2
      <4> QED BY <4>4, <4>5
    <3> QED BY <1>8, <3>1, <3>2
  <2> QED BY <1>7, <2>1, <2>2 DEF Ranked
<1>18. ASSUME NEW p \in Spots(t), NEW q \in LinksOf(t, p)
       PROVE  Prefix(u, h, p, q) = Prefix(t, g, p, q) /\ Sent(u, h, p, q) = Sent(t, g, p, q)
  <2>1. CASE p = NULL
    BY <2>1 DEF Prefix, Sent
  <2>2. CASE p # NULL
    <3>1. h.pre[p] = g.pre[p] /\ h.via[p] = g.via[p] /\ u.node[p].c = t.node[p].c
      BY <1>7, <1>8, <1>9, <2>2
    <3> QED BY <2>2, <3>1 DEF Prefix, Sent
  <2> QED BY <2>1, <2>2
<1>19. Routed(u, h)
  <2>1. \A x \in D : /\ g.pre[x] \in Seq(Int) /\ g.via[x] \in SUBSET Keys
                     /\ g.pre[x] = Prefix(t, g, g.up[x], g.side[x])
                     /\ g.via[x] = Sent(t, g, g.up[x], g.side[x])
                     /\ \A k \in g.via[x] : Begins(k, g.pre[x])
                     /\ g.up[x] \in Spots(t) /\ g.side[x] \in LinksOf(t, g.up[x])
    BY DEF Sound, Routed, Placed
  <2>2. ASSUME NEW x \in DOMAIN u.node
        PROVE  /\ h.pre[x] \in Seq(Int) /\ h.via[x] \in SUBSET Keys
               /\ h.pre[x] = Prefix(u, h, h.up[x], h.side[x])
               /\ h.via[x] = Sent(u, h, h.up[x], h.side[x])
               /\ \A k \in h.via[x] : Begins(k, h.pre[x])
    <3>1. CASE x \in D
      <4>1. /\ h.pre[x] = g.pre[x] /\ h.via[x] = g.via[x] /\ h.up[x] = g.up[x] /\ h.side[x] = g.side[x]
        BY <1>7, <3>1
      <4>2. g.up[x] \in Spots(t) /\ g.side[x] \in LinksOf(t, g.up[x])
        BY <2>1, <3>1
      <4>3. /\ Prefix(u, h, g.up[x], g.side[x]) = g.pre[x]
            /\ Sent(u, h, g.up[x], g.side[x]) = g.via[x]
        BY <1>18, <2>1, <3>1, <4>2
      <4> QED BY <2>1, <3>1, <4>1, <4>3
    <3>2. CASE x \in New
      <4>1. PICK j \in 1..m : x = ids[j]
        BY <1>4, <3>2
      <4>2. /\ h.up[x] = IF j = 1 THEN a ELSE ids[j - 1]
            /\ h.side[x] = IF j = 1 THEN b ELSE "e"
            /\ h.pre[x] = far(j) /\ h.via[x] = {k \in Sent(t, g, a, b) : Begins(k, far(j))}
        BY <1>5, <4>1
      <4>3. h.pre[x] \in Seq(Int) /\ h.via[x] \in SUBSET Keys /\ \A k \in h.via[x] : Begins(k, h.pre[x])
        BY <1>11, <1>12, <4>2
      <4>4. CASE j = 1
        <5>1. Prefix(u, h, a, b) = far(1) /\ Sent(u, h, a, b) = Sent(t, g, a, b)
          BY <1>9, <1>13, <1>18
        <5>2. {k \in Sent(t, g, a, b) : Begins(k, far(1))} = Sent(t, g, a, b)
          BY <1>11, <1>13
        <5> QED BY <4>2, <4>3, <4>4, <5>1, <5>2
      <4>5. CASE j # 1
        <5>1. PICK n \in 1..m - 1 : j = n + 1
          <6>1. j - 1 \in 1..m - 1 /\ j = (j - 1) + 1
            BY <4>5
          <6> QED BY <6>1
        <5> DEFINE y == ids[n]
                   c == ch(n)
        <5>2. h.pre[y] = far(n) /\ h.via[y] = {k \in Sent(t, g, a, b) : Begins(k, far(n))}
          BY <1>5, <1>10
        <5>3. u.node[y].c = c /\ c # TCHAR /\ c \in Int /\ y # NULL
          <6>1. c # TCHAR /\ c \in Int
            BY <1>14
          <6>2. u.node[y].c = c
            BY <1>15
          <6>3. n \in 1..m /\ y \in New
            BY <1>1, <1>10
          <6>4. y # NULL
            BY <1>9, <6>3
          <6> QED BY <6>1, <6>2, <6>4
        <5>4. /\ far(j) = Append(far(n), c) /\ at(n) = Len(far(n)) + 1 /\ at(n) \in Nat
              /\ \A k \in Keys : Begins(k, far(j)) <=> Begins(k, far(n)) /\ Char(k, at(n)) = c
          BY <1>14, <5>1
        <5>5. h.up[x] = y /\ h.side[x] = "e" /\ h.pre[x] = far(j)
          BY <1>6, <4>1, <4>2, <5>1
        <5> HIDE DEF y, c
        <5>6. Prefix(u, h, y, "e") = far(j)
          BY <5>2, <5>3, <5>4 DEF Prefix
        <5>7. Sent(u, h, y, "e") = h.via[x]
          <6>1. Sent(u, h, y, "e") =
                   {k \in h.via[y] : Char(k, at(n)) # TCHAR /\ (c = TCHAR \/ Branch(Char(k, at(n)), c) = "e")}
            BY <5>2, <5>3, <5>4 DEF Sent
          <6>2. ASSUME NEW k \in Keys
                PROVE  (Char(k, at(n)) # TCHAR /\ (c = TCHAR \/ Branch(Char(k, at(n)), c) = "e"))
                          <=> Char(k, at(n)) = c
            <7> DEFINE x0 == Char(k, at(n))
            <7>1. x0 \in Int
              BY <5>4, KeyIs
            <7> HIDE DEF x0
            <7>2. Branch(x0, c) = "e" <=> x0 = c
              BY <5>3, <7>1 DEF Branch
            <7>3. (x0 # TCHAR /\ (c = TCHAR \/ Branch(x0, c) = "e")) <=> x0 = c
              BY <5>3, <7>2
            <7> QED BY <7>3 DEF x0
          <6>3. h.via[y] \in SUBSET Keys
            BY <1>11, <5>2
          <6>4. Sent(u, h, y, "e") = {k \in h.via[y] : Char(k, at(n)) = c}
            BY <6>1, <6>2, <6>3
          <6> QED BY <1>11, <4>2, <5>2, <5>4, <6>4
        <5> QED BY <4>3, <5>5, <5>6, <5>7
      <4> QED BY <4>4, <4>5
    <3> QED BY <1>8, <3>1, <3>2
  <2> QED BY <2>2 DEF Routed
<1>20. Backed(u, h)
  <2>1. ASSUME NEW x \in DOMAIN u.node, u.node[x].c = TCHAR
        PROVE  /\ h.side[x] \in {"head", "e"}
               /\ h.up[x] # NULL => u.node[h.up[x]].c # TCHAR
               /\ u.node[x].r # NULL => h.up[x] = u.node[x].r
    <3>1. CASE x \in D
      <4>1. t.node[x].c = TCHAR /\ u.node[x].r = t.node[x].r /\ h.up[x] = g.up[x] /\ h.side[x] = g.side[x]
        BY <1>7, <1>8, <2>1, <3>1
      <4>2. /\ g.side[x] \in {"head", "e"}
            /\ g.up[x] # NULL => t.node[g.up[x]].c # TCHAR
            /\ t.node[x].r # NULL => g.up[x] = t.node[x].r
            /\ g.up[x] \in Spots(t)
        BY <3>1, <4>1 DEF Sound, Backed, Placed
      <4>3. g.up[x] # NULL => u.node[g.up[x]].c = t.node[g.up[x]].c
        BY <1>8, <1>9, <4>2
      <4> QED BY <4>1, <4>2, <4>3
    <3>2. CASE x \in New
      <4>1. PICK j \in 1..m : x = ids[j]
        BY <1>4, <3>2
      <4>2. j = m
        BY <1>10, <1>15, <2>1, <4>1
      <4>3. CASE m = 1
        <5>1. h.up[x] = a /\ h.side[x] = b /\ u.node[x].r = NULL
          BY <1>5, <1>15, <4>1, <4>2, <4>3
        <5>2. a # NULL => u.node[a].c = t.node[a].c
          BY <1>8, <1>9
        <5> QED BY <1>11, <4>3, <5>1, <5>2
      <4>4. CASE m # 1
        <5>1. m - 1 \in 1..m - 1
          BY <4>4
        <5>2. h.up[x] = ids[m - 1] /\ h.side[x] = "e" /\ u.node[x].r = ids[m - 1]
          BY <1>5, <1>15, <4>1, <4>2, <4>4
        <5> QED BY <1>15, <5>1, <5>2
      <4> QED BY <4>3, <4>4
    <3> QED BY <1>8, <3>1, <3>2
  <2> QED BY <2>1 DEF Backed
<1>21. Spelled(u, h, [d EXCEPT ![key] = val])
  <2> DEFINE e == [d EXCEPT ![key] = val]
  <2>1. e[key] = val /\ \A k \in Keys \ {key} : e[k] = d[k]
    OBVIOUS
  <2> HIDE DEF e
  <2>2. ids[m] \in DOMAIN u.node /\ h.pre[ids[m]] = key /\ key \in h.via[ids[m]]
    <3>1. ids[m] \in DOMAIN u.node
      BY <1>1, <1>8, <1>10
    <3>2. h.pre[ids[m]] = key
      BY <1>5, <1>10, <1>13
    <3>3. key \in h.via[ids[m]]
      BY <1>5, <1>10, <1>12
    <3> QED BY <3>1, <3>2, <3>3
  <2>3. ASSUME NEW x \in DOMAIN u.node, u.node[x].c = TCHAR
        PROVE  h.pre[x] \in h.via[x] /\ e[h.pre[x]] = u.node[x].e
    <3>1. CASE x \in D
      <4>1. t.node[x].c = TCHAR /\ u.node[x].e = t.node[x].e /\ h.pre[x] = g.pre[x] /\ h.via[x] = g.via[x]
        BY <1>7, <1>8, <2>3, <3>1
      <4>2. g.pre[x] \in g.via[x] /\ d[g.pre[x]] = t.node[x].e /\ g.via[x] \subseteq Keys /\ g.pre[x] # key
        BY <3>1, <4>1 DEF Spelled, Sound, Routed
      <4> QED BY <2>1, <4>1, <4>2
    <3>2. CASE x \in New
      <4>1. PICK j \in 1..m : x = ids[j]
        BY <1>4, <3>2
      <4>2. j = m
        BY <1>10, <1>15, <2>3, <4>1
      <4> QED BY <1>15, <2>1, <2>2, <4>1, <4>2
    <3> QED BY <1>8, <3>1, <3>2
  <2>4. ASSUME NEW k \in Keys, e[k] # NULL
        PROVE  \E x \in DOMAIN u.node : u.node[x].c = TCHAR /\ h.pre[x] = k
    <3>1. CASE k = key
      BY <1>15, <2>2, <3>1
    <3>2. CASE k # key
      <4>1. PICK x \in D : t.node[x].c = TCHAR /\ g.pre[x] = k
        BY <2>1, <2>4, <3>2 DEF Spelled
      <4> QED BY <1>7, <1>8, <4>1, ZenonT(40)
    <3> QED BY <3>1, <3>2
  <2>5. Spelled(u, h, e)
    BY <2>3, <2>4 DEF Spelled
  <2> QED BY <2>5 DEF e
<1> QED BY <1>8, <1>16, <1>17, <1>19, <1>20, <1>21 DEF Sound, Kept

(* malloc gives different nodes that are free.                             *)
LEMMA FreshIs ==
    ASSUME NEW k \in Nat, Has(k)
    PROVE  /\ Fresh(k) \in [1..k -> Ids \ DOMAIN node]
           /\ \A i, j \in 1..k : Fresh(k)[i] = Fresh(k)[j] => i = j
<1> DEFINE S == Ids \ DOMAIN node
           n == Cardinality(S)
<1>1. IsFiniteSet(S)
  <2>1. IsFiniteSet(1..Room)
    BY FS_Interval, TreeAssumption DEF TreeAssumption
  <2> QED BY <2>1, FS_Subset DEF Ids
<1>2. n \in Nat /\ ExistsBijection(1..n, S) /\ k <= n
  BY <1>1, FS_CardinalityType DEF Has
<1> HIDE DEF n
<1>3. PICK f \in [1..n -> S] : \A i, j \in 1..n : f[i] = f[j] => i = j
  BY <1>2 DEF ExistsBijection, Bijection, Injection, IsInjective
<1> HIDE DEF S
<1> DEFINE e == [i \in 1..k |-> f[i]]
<1>4. \A i \in 1..k : i \in 1..n /\ e[i] = f[i]
  BY <1>2
<1>5. e \in [1..k -> S] /\ \A i, j \in 1..k : e[i] = e[j] => i = j
  BY <1>3, <1>4
<1>6. e \in [1..k -> S] /\ IsInjective(e)
  BY <1>5 DEF IsInjective
<1> HIDE DEF e
<1>7. Fresh(k) \in [1..k -> S] /\ IsInjective(Fresh(k))
  BY <1>6 DEF Fresh, S
<1> QED BY <1>7 DEF IsInjective, S

(* What makeNullHead makes.                                                *)
LEMMA ChainCells ==
    ASSUME NEW key, NEW i \in Nat, NEW val, NEW m \in Nat \ {0}, m = Len(key) - i + 2,
           NEW ids, ids = Fresh(m), DOMAIN ids = 1..m,
           \A j, k \in 1..m : ids[j] = ids[k] => j = k
    PROVE  Links(key, i, val, ids, m, Chain(key, i, val))
<1> DEFINE pos(n) == CHOOSE j \in 1..m : ids[j] = n
           cell(j) == IF j < m THEN [c |-> key[i + j - 1], l |-> NULL, e |-> ids[j + 1], r |-> NULL]
                      ELSE [c |-> TCHAR, l |-> NULL, e |-> val, r |-> IF m = 1 THEN NULL ELSE ids[m - 1]]
           new == [n \in Range(ids) |-> cell(pos(n))]
<1>1. Chain(key, i, val) = new
  BY DEF Chain
<1>2. Range(ids) = {ids[j] : j \in 1..m}
  BY DEF Range
<1>3. ASSUME NEW j \in 1..m PROVE pos(ids[j]) = j
  <2>1. pos(ids[j]) \in 1..m /\ ids[pos(ids[j])] = ids[j]
    OBVIOUS
  <2> QED BY <2>1
<1> HIDE DEF pos, cell
<1>4. DOMAIN new = {ids[j] : j \in 1..m} /\ new = [n \in DOMAIN new |-> new[n]]
  BY <1>2
<1>5. \A j \in 1..m : new[ids[j]] = cell(j)
  BY <1>2, <1>3
<1> HIDE DEF new
<1>6. \A j \in 1..m - 1 : j \in 1..m /\ j < m
  OBVIOUS
<1>7. \A j \in 1..m - 1 : new[ids[j]] = [c |-> key[i + j - 1], l |-> NULL, e |-> ids[j + 1], r |-> NULL]
  BY <1>5, <1>6 DEF cell
<1>8. new[ids[m]] = [c |-> TCHAR, l |-> NULL, e |-> val, r |-> IF m = 1 THEN NULL ELSE ids[m - 1]]
  <2>1. m \in 1..m /\ ~(m < m)
    OBVIOUS
  <2> QED BY <1>5, <2>1 DEF cell
<1> QED BY <1>1, <1>4, <1>7, <1>8 DEF Links, IsMap

(* The invariant of the tree: its vnodes spell what dict remembers.        *)
TreeInv == dict \in [Keys -> Values \cup {NULL}] /\ Kept(Tree, dict)

(* A step that leaves a sound tree with the keys of dict keeps the         *)
(* invariant.                                                              *)
LEMMA BecomesIs ==
    ASSUME NEW u, Becomes(u), NEW e \in [Keys -> Values \cup {NULL}], dict' = e, Kept(u, e)
    PROVE  TreeInv'
<1>1. Shaped(u)
  BY DEF Kept, Sound
<1>2. u = [head |-> u.head, node |-> u.node]
  BY <1>1 DEF Shaped
<1>3. Tree' = u
  BY <1>2 DEF Becomes, Tree
<1> QED BY <1>3 DEF TreeInv

(* Only the vnode of key spells key, and a search finds it.                *)
LEMMA VnodeOf ==
    ASSUME NEW g, Sound(Tree, g), NEW d, Spelled(Tree, g, d), NEW key \in Keys,
           NEW s, s = Last(Descent(key)), NEW n, n = Deref(s)
    PROVE  /\ s.at \in Spots(Tree) /\ s.link \in LinksOf(Tree, s.at) /\ n = Holds(Tree, s.at, s.link)
           /\ key \in Sent(Tree, g, s.at, s.link)
           /\ s.i = Len(Prefix(Tree, g, s.at, s.link)) + 1 /\ s.i \in Nat \ {0}
           /\ Len(Prefix(Tree, g, s.at, s.link)) <= Len(key)
           /\ n = NULL \/ Char(key, s.i) = TCHAR
           /\ n # NULL => n \in DOMAIN node /\ g.pre[n] = key
           /\ \A x \in DOMAIN node : node[x].c = TCHAR /\ g.pre[x] = key => x = n
<1>1. Downward(key, Descent(key), g) /\ Stops(key, s)
  BY DescentIs DEF Last
<1>2. On(key, s, g)
  <2>1. Len(Descent(key)) \in 1..Len(Descent(key))
    BY <1>1 DEF Downward
  <2> QED BY <1>1, <2>1 DEF Downward, Last
<1>3. /\ s.at \in Spots(Tree) /\ s.link \in LinksOf(Tree, s.at)
      /\ key \in Sent(Tree, g, s.at, s.link)
      /\ s.i = Len(Prefix(Tree, g, s.at, s.link)) + 1
  BY <1>2 DEF On
<1>4. /\ s.i \in Nat \ {0}
      /\ Len(Prefix(Tree, g, s.at, s.link)) <= Len(key)
  <2>1. Prefix(Tree, g, s.at, s.link) \in Seq(Int) /\ Begins(key, Prefix(Tree, g, s.at, s.link))
    BY <1>3, PlaceSends
  <2> QED BY <1>3, <2>1 DEF Begins
<1>5. n = Holds(Tree, s.at, s.link) /\ (n = NULL \/ Char(key, s.i) = TCHAR)
  BY <1>1, DerefIs DEF Stops
<1>6. n # NULL => n \in DOMAIN node /\ g.pre[n] = key
  BY WayEnds
<1>7. ASSUME NEW x \in DOMAIN node, node[x].c = TCHAR, g.pre[x] = key PROVE x = n
  <2>1. g.pre[x] \in g.via[x]
    BY <1>7, DerefIs DEF Spelled
  <2>2. isvnode(x)
    BY <1>7 DEF isvnode
  <2>3. Deref(Last(Descent(g.pre[x]))) = x
    BY <2>1, <2>2, WayFinds
  <2> QED BY <1>7, <2>3
<1> QED BY <1>3, <1>4, <1>5, <1>6, <1>7

(* tst_insert keeps the invariant: it hangs a chain where there is         *)
(* nothing, writes over the value of a vnode that is there, or puts a new  *)
(* vnode in front of a node.                                               *)
LEMMA InsertKeeps ==
    ASSUME TreeInv, NEW key \in Keys, NEW val \in Values, tst_insert(key, val)
    PROVE  TreeInv'
<1> DEFINE s == Last(Descent(key))
           n == Deref(s)
           m == Len(key) - s.i + 2
           e == [dict EXCEPT ![key] = val]
<1>1. dict \in [Keys -> Values \cup {NULL}] /\ dict' = e /\ e \in [Keys -> Values \cup {NULL}]
  BY DEF TreeInv, tst_insert
<1>2. PICK g : Sound(Tree, g) /\ Spelled(Tree, g, dict)
  BY DEF TreeInv, Kept
<1>3. /\ s.at \in Spots(Tree) /\ s.link \in LinksOf(Tree, s.at) /\ n = Holds(Tree, s.at, s.link)
      /\ key \in Sent(Tree, g, s.at, s.link)
      /\ s.i = Len(Prefix(Tree, g, s.at, s.link)) + 1 /\ s.i \in Nat \ {0}
      /\ Len(Prefix(Tree, g, s.at, s.link)) <= Len(key)
      /\ n = NULL \/ Char(key, s.i) = TCHAR
      /\ n # NULL => n \in DOMAIN node /\ g.pre[n] = key
      /\ \A x \in DOMAIN node : node[x].c = TCHAR /\ g.pre[x] = key => x = n
  BY <1>2, VnodeOf
<1>4. Tree.node = node /\ Shaped(Tree) /\ NULL \notin DOMAIN node /\ Len(key) \in Nat
      /\ Prefix(Tree, g, s.at, s.link) \in Seq(Int)
  <2>1. Tree.node = node /\ Shaped(Tree)
    BY <1>2, DerefIs DEF Sound
  <2>2. NULL \notin DOMAIN node
    BY <1>2, <2>1, Parts, TreeAssumption DEF TreeAssumption
  <2>3. Prefix(Tree, g, s.at, s.link) \in Seq(Int)
    BY <1>2, <1>3, PlaceSends
  <2> QED BY <2>1, <2>2, <2>3, KeyIs
<1>5. \/ /\ n = NULL /\ Has(m)
         /\ Becomes(Alloc(Store(Tree, s, Fresh(m)[1]), Chain(key, s.i, val)))
      \/ n # NULL /\ isvnode(n) /\ Becomes([Tree EXCEPT !.node[n].e = val])
      \/ /\ n # NULL /\ ~isvnode(n) /\ Has(1)
         /\ Becomes(Alloc(Store(Tree, s, Fresh(1)[1]),
                          [new \in {Fresh(1)[1]} |-> [c |-> TCHAR, l |-> n, e |-> val, r |-> s.at]]))
  BY DEF tst_insert
<1> SUFFICES \E u : Becomes(u) /\ Kept(u, e)
  BY <1>1, BecomesIs
<1> HIDE DEF s, n, m, e
(* Nothing is there: a chain.                                              *)
<1>6. CASE /\ n = NULL /\ Has(m)
           /\ Becomes(Alloc(Store(Tree, s, Fresh(m)[1]), Chain(key, s.i, val)))
  <2> DEFINE ids == Fresh(m)
             new == Chain(key, s.i, val)
             u == Alloc(Store(Tree, s, ids[1]), new)
  <2>1. m \in Nat \ {0} /\ m = Len(key) - s.i + 2 /\ s.i <= Len(key) + 1
    BY <1>3, <1>4 DEF m
  <2>2. ids \in [1..m -> Ids \ DOMAIN node] /\ \A j, k \in 1..m : ids[j] = ids[k] => j = k
    BY <1>6, <2>1, FreshIs
  <2>3. DOMAIN ids = 1..m /\ ids = Fresh(m)
    BY <2>2
  <2> HIDE DEF ids
  <2>4. Links(key, s.i, val, ids, m, new)
    BY <1>3, <2>1, <2>2, <2>3, ChainCells
  <2> HIDE DEF new
  <2>5. Chained(Tree, s, key, s.i, val, ids, m, u)
    <3>1. u = Alloc(Store(Tree, s, ids[1]), new)
      OBVIOUS
    <3> HIDE DEF u
    <3> QED BY <1>3, <1>4, <2>1, <2>2, <2>4, <3>1, ChainIs
  <2>6. Becomes(u)
    BY <1>6, <2>3 DEF new
  <2> HIDE DEF u
  <2>7. \A x \in DOMAIN Tree.node : Tree.node[x].c = TCHAR => g.pre[x] # key
    BY <1>3, <1>4, <1>6
  <2>8. Kept(u, e)
    <3>1. Holds(Tree, s.at, s.link) = NULL
      BY <1>3, <1>6
    <3>2. Kept(u, [dict EXCEPT ![key] = val])
      BY <1>1, <1>2, <1>3, <1>4, <2>1, <2>2, <2>5, <2>7, <3>1, ChainSound
    <3> QED BY <3>2 DEF e
  <2> QED BY <2>6, <2>8
(* The vnode of key is there.                                              *)
<1>7. CASE n # NULL /\ isvnode(n) /\ Becomes([Tree EXCEPT !.node[n].e = val])
  <2>1. n \in DOMAIN Tree.node /\ Tree.node[n].c = TCHAR /\ g.pre[n] = key
    BY <1>3, <1>4, <1>7 DEF isvnode
  <2>2. \A x \in DOMAIN Tree.node : Tree.node[x].c = TCHAR /\ x # n => g.pre[x] # key
    BY <1>3, <1>4
  <2> DEFINE u == [Tree EXCEPT !.node[n].e = val]
  <2>3. u = [Tree EXCEPT !.node[n].e = val] /\ Becomes(u)
    BY <1>7
  <2> HIDE DEF u
  <2>4. Kept(u, [dict EXCEPT ![key] = val])
    BY <1>1, <1>2, <2>1, <2>2, <2>3, OverwriteSound
  <2> QED BY <2>3, <2>4 DEF e
(* A node is there: a vnode in front of it.                                *)
<1>8. CASE /\ n # NULL /\ ~isvnode(n) /\ Has(1)
           /\ Becomes(Alloc(Store(Tree, s, Fresh(1)[1]),
                            [new \in {Fresh(1)[1]} |-> [c |-> TCHAR, l |-> n, e |-> val, r |-> s.at]]))
  <2> DEFINE v == Fresh(1)[1]
             new == [x \in {v} |-> [c |-> TCHAR, l |-> n, e |-> val, r |-> s.at]]
             u == Alloc(Store(Tree, s, v), new)
  <2>1. v \in Ids \ DOMAIN Tree.node
    <3>1. Has(1) /\ 1 \in Nat
      BY <1>8
    <3>2. Fresh(1) \in [1..1 -> Ids \ DOMAIN node] /\ 1 \in 1..1
      BY <3>1, FreshIs
    <3> QED BY <1>4, <3>2
  <2>2. Becomes(u)
    BY <1>8
  <2> HIDE DEF v
  <2>3. DOMAIN new = {v} /\ new[v] = [c |-> TCHAR, l |-> n, e |-> val, r |-> s.at]
    OBVIOUS
  <2>4. n \in DOMAIN Tree.node /\ g.pre[n] = key /\ Tree.node[n].c # TCHAR
    BY <1>3, <1>4, <1>8 DEF isvnode
  <2>5. new \in [DOMAIN new -> Cell]
    <3>1. TCHAR \in Nat /\ n \in Ids /\ s.at \in Ids \cup {NULL}
      BY <1>2, <1>3, <2>4, Parts DEF TCHAR, Spots
    <3> QED BY <3>1 DEF Cell
  <2>6. Fronted(Tree, s, n, val, v, u)
    <3>1. u = Alloc(Store(Tree, s, v), new)
      OBVIOUS
    <3> HIDE DEF u, new
    <3> QED BY <1>3, <1>4, <2>1, <2>3, <2>4, <2>5, <3>1, FrontIs
  <2>7. Becomes(u)
    BY <2>2
  <2> HIDE DEF u, new
  <2>8. \A x \in DOMAIN Tree.node : Tree.node[x].c = TCHAR => g.pre[x] # key
    BY <1>3, <1>4, <2>4
  <2>9. Len(key) = Len(Prefix(Tree, g, s.at, s.link))
    <3>1. Char(key, s.i) = TCHAR
      BY <1>3, <1>8
    <3>2. s.i \notin 1..Len(key)
      BY <1>3, <3>1, KeyIs
    <3>3. Len(Prefix(Tree, g, s.at, s.link)) \in Nat
      BY <1>4
    <3> QED BY <1>3, <1>4, <3>2, <3>3
  <2>10. Kept(u, [dict EXCEPT ![key] = val])
    <3>1. n = Holds(Tree, s.at, s.link) /\ n # NULL
      BY <1>3, <1>8
    <3> QED BY <1>1, <1>2, <1>3, <2>1, <2>4, <2>6, <2>8, <2>9, <3>1, FrontSound, ZenonT(40)
  <2> QED BY <2>10, <2>7 DEF e
<1> QED BY <1>5, <1>6, <1>7, <1>8

(* What tst_delete makes on the way back, at most K steps from t.          *)
BackOf(p, t, K, w) ==
    w = [k \in 0..K |-> IF k = 0 THEN t ELSE Prune(p[Len(p) - k], w[k - 1])]

(* There is such a function.                                               *)
LEMMA BackExists ==
    ASSUME NEW p, NEW t, NEW K \in Nat
    PROVE  \E w : BackOf(p, t, K, w)
<1> DEFINE Bad == {m \in Nat : ~\E w : BackOf(p, t, m, w)}
           After(k, x) == Prune(p[Len(p) - k], x)
<1>1. Bad = {}
  <2> SUFFICES ASSUME Bad # {} PROVE FALSE
    OBVIOUS
  <2>1. PICK m \in Bad : \A j \in Bad : ~(j < m)
    <3>1. Bad \in SUBSET Nat
      OBVIOUS
    <3> HIDE DEF Bad
    <3> QED BY <3>1, LeastElement
  <2>2. CASE m = 0
    <3> DEFINE w == [j \in 0..0 |-> t]
    <3>1. w = [j \in 0..0 |-> IF j = 0 THEN t ELSE After(j, w[j - 1])]
      <4>1. \A j \in 0..0 : j = 0
        OBVIOUS
      <4> HIDE DEF After
      <4> QED BY <4>1
    <3> HIDE DEF w
    <3>2. BackOf(p, t, 0, w)
      BY <3>1 DEF BackOf
    <3> QED BY <2>1, <2>2, <3>2
  <2>3. CASE m # 0
    <3>1. m - 1 \in Nat /\ m - 1 < m
      BY <2>3
    <3>2. PICK v : BackOf(p, t, m - 1, v)
      BY <2>1, <3>1
    <3>3. v = [j \in 0..m - 1 |-> IF j = 0 THEN t ELSE After(j, v[j - 1])]
      BY <3>2 DEF BackOf
    <3> HIDE DEF After
    <3> DEFINE u(j) == IF j = m THEN After(m, v[m - 1]) ELSE v[j]
               w == [j \in 0..m |-> u(j)]
    <3>4. ASSUME NEW j \in 0..m
          PROVE  w[j] = IF j = 0 THEN t ELSE After(j, w[j - 1])
      <4>1. CASE j = m
        <5>1. m - 1 \in 0..m /\ m - 1 # m
          BY <3>1
        <5>2. w[m - 1] = v[m - 1]
          BY <5>1
        <5>3. w[j] = After(m, v[m - 1])
          BY <4>1
        <5> HIDE DEF w
        <5> QED BY <2>3, <4>1, <5>2, <5>3
      <4>2. CASE j # m
        <5>1. j \in 0..m - 1
          BY <3>1, <4>2
        <5>2. w[j] = v[j]
          BY <4>2
        <5>3. j # 0 => w[j - 1] = v[j - 1]
          BY <3>1, <5>1
        <5>4. v[j] = IF j = 0 THEN t ELSE After(j, v[j - 1])
          BY <3>3, <5>1
        <5> HIDE DEF w
        <5> QED BY <5>2, <5>3, <5>4
      <4> QED BY <4>1, <4>2
    <3>5. w = [j \in 0..m |-> w[j]]
      OBVIOUS
    <3> HIDE DEF w
    <3>6. w = [j \in 0..m |-> IF j = 0 THEN t ELSE After(j, w[j - 1])]
      BY <3>4, <3>5
    <3>7. BackOf(p, t, m, w)
      BY <3>6 DEF BackOf, After
    <3> QED BY <2>1, <3>7
  <2> QED BY <2>2, <2>3
<1> QED BY <1>1

(* The slots of p, but the last, are places of t, each below the one       *)
(* before it.                                                              *)
Ladder(t, g, p) ==
    /\ \A j \in 1..Len(p) - 1 : Valid(t, p[j])
    /\ \A i, j \in 1..Len(p) - 1 : i < j /\ p[i].at # NULL =>
          p[j].at # NULL /\ g.high[p[j].at] < g.high[p[i].at]

(* The way back prunes what can go, and leaves a tree.                     *)
LEMMA BackKeeps ==
    ASSUME NEW t, NEW g, Sound(t, g), NEW d, Spelled(t, g, d),
           NEW p, Len(p) \in Nat \ {0}, Ladder(t, g, p),
           NEW w, BackOf(p, t, Len(p) - 1, w)
    PROVE  Kept(w[Len(p) - 1], d)
<1> DEFINE L == Len(p)
           Good(k) == /\ Sound(w[k], g) /\ Spelled(w[k], g, d)
                      /\ \A j \in 1..L - 1 : j <= L - 1 - k => Valid(w[k], p[j])
<1>1. L - 1 \in Nat /\ 0 \in 0..L - 1 /\ \A k \in 1..L - 1 : k \in 0..L - 1 /\ k # 0
  OBVIOUS
<1>2. w[0] = t /\ \A k \in 1..L - 1 : w[k] = Prune(p[L - k], w[k - 1])
  <2> DEFINE W(k) == Prune(p[L - k], w[k - 1])
  <2>1. w = [k \in 0..L - 1 |-> IF k = 0 THEN t ELSE W(k)]
    BY DEF BackOf
  <2> HIDE DEF W
  <2>2. w[0] = t /\ \A k \in 1..L - 1 : w[k] = W(k)
    BY <1>1, <2>1
  <2> QED BY <2>2 DEF W
<1>3. Good(0)
  BY <1>2 DEF Ladder
<1>4. ASSUME NEW k \in 1..L - 1, Good(k - 1) PROVE Good(k)
  <2> DEFINE s == p[L - k]
             x == w[k - 1]
  <2>1. L - k \in 1..L - 1 /\ L - k <= L - 1 - (k - 1)
    OBVIOUS
  <2>2. Sound(x, g) /\ Spelled(x, g, d) /\ Valid(x, s)
    BY <1>4, <2>1
  <2>3. w[k] = Prune(s, x)
    BY <1>2
  <2> HIDE DEF x, s
  <2>4. /\ Sound(w[k], g) /\ Spelled(w[k], g, d)
        /\ \A q : /\ Valid(x, q)
                  /\ q.at # NULL => /\ s.at # NULL
                                    /\ q.at = s.at \/ g.high[s.at] < g.high[q.at]
                  => Valid(w[k], q)
    BY <2>2, <2>3, PruneSound
  <2>5. ASSUME NEW j \in 1..L - 1, j <= L - 1 - k PROVE Valid(w[k], p[j])
    <3>1. j <= L - 1 - (k - 1) /\ j < L - k
      BY <2>5
    <3>2. Valid(x, p[j])
      BY <1>4, <3>1 DEF x
    <3>3. p[j].at # NULL => s.at # NULL /\ g.high[s.at] < g.high[p[j].at]
      BY <2>1, <3>1 DEF Ladder, s
    <3> QED BY <2>4, <3>2, <3>3
  <2> QED BY <2>4, <2>5
<1>5. Good(L - 1)
  <2> HIDE DEF Good, L
  <2> DEFINE Bad == {k \in Nat : k <= L - 1 /\ ~Good(k)}
  <2>1. Bad = {}
    <3> SUFFICES ASSUME Bad # {} PROVE FALSE
      OBVIOUS
    <3>1. PICK k \in Bad : \A i \in Bad : ~(i < k)
      <4>1. Bad \in SUBSET Nat
        OBVIOUS
      <4> HIDE DEF Bad
      <4> QED BY <4>1, LeastElement
    <3>2. k # 0
      BY <1>3, <3>1
    <3>3. k \in 1..L - 1 /\ k - 1 \in Nat /\ k - 1 <= L - 1 /\ k - 1 < k
      BY <1>1, <3>1, <3>2
    <3>4. Good(k - 1)
      BY <3>1, <3>3
    <3> QED BY <1>4, <3>1, <3>3, <3>4
  <2> QED BY <1>1, <2>1
<1> QED BY <1>5 DEF Kept

(* The slots that a key goes through are such a ladder, and what the last  *)
(* holds is below all of them.                                             *)
LEMMA DescentLadder ==
    ASSUME NEW g, Sound(Tree, g), NEW key \in Keys,
           NEW p, p = Descent(key), NEW v, v = Deref(Last(p))
    PROVE  /\ Len(p) \in Nat \ {0} /\ Ladder(Tree, g, p)
           /\ v # NULL => \A j \in 1..Len(p) : p[j].at # NULL => g.high[v] < g.high[p[j].at]
<1>1. Downward(key, p, g)
  BY DescentIs
<1>2. Len(p) \in Nat \ {0} /\ p[1] = Root
  BY <1>1 DEF Downward
<1>3. \A j \in 1..Len(p) : Valid(Tree, p[j])
  BY <1>1 DEF Downward, On, Valid
<1>4. /\ g.top \in Nat
      /\ \A x \in DOMAIN node : g.high[x] \in Nat
  BY DerefIs DEF Sound, Ranked
<1>5. /\ \A j \in 1..Len(p) - 1 : p[j + 1].at = Deref(p[j]) /\ Deref(p[j]) \in DOMAIN node
      /\ \A i, j \in 1..Len(p) - 1 : i < j => g.high[Deref(p[j])] < g.high[Deref(p[i])]
  <2>1. ASSUME NEW j \in 1..Len(p) - 1
        PROVE  /\ p[j + 1].at = Deref(p[j]) /\ Deref(p[j]) \in DOMAIN node
               /\ \A i \in 1..j - 1 : g.high[Deref(p[j])] < g.high[Deref(p[i])]
    <3>1. j \in 1..Len(p) /\ ~Stops(key, p[j])
      BY <1>1, <1>2 DEF Downward
    <3>2. On(key, p[j], g) /\ p[j + 1] = Further(key, p[j])
      BY <1>1, <3>1 DEF Downward
    <3>3. p[j + 1].at = Deref(p[j])
      BY <3>1, <3>2, StepDown
    <3> QED BY <1>1, <3>1, <3>3, DownwardLowers
  <2>2. \A i, j \in 1..Len(p) - 1 : i < j => i \in 1..j - 1
    BY <1>2
  <2> QED BY <2>1, <2>2
<1>6. \A j \in 1..Len(p) : p[j].at # NULL => j - 1 \in 1..Len(p) - 1 /\ p[j].at = Deref(p[j - 1])
  <2> SUFFICES ASSUME NEW j \in 1..Len(p), p[j].at # NULL
               PROVE  j - 1 \in 1..Len(p) - 1 /\ p[j].at = Deref(p[j - 1])
    OBVIOUS
  <2>1. j # 1
    BY <1>2 DEF Root
  <2>2. j - 1 \in 1..Len(p) - 1 /\ (j - 1) + 1 = j
    BY <1>2, <2>1
  <2> QED BY <1>5, <2>2
<1>7. ASSUME NEW i \in 1..Len(p), NEW j \in 1..Len(p), i < j, p[i].at # NULL
      PROVE  p[j].at # NULL /\ g.high[p[j].at] < g.high[p[i].at]
  <2>1. i - 1 \in 1..Len(p) - 1 /\ p[i].at = Deref(p[i - 1])
    BY <1>6, <1>7
  <2>2. j - 1 \in 1..Len(p) - 1 /\ (j - 1) + 1 = j /\ i - 1 < j - 1
    BY <1>2, <1>7, <2>1
  <2>3. p[j].at = Deref(p[j - 1]) /\ p[j].at \in DOMAIN node
    BY <1>5, <2>2
  <2>4. g.high[Deref(p[j - 1])] < g.high[Deref(p[i - 1])]
    BY <1>5, <2>1, <2>2
  <2>5. NULL \notin DOMAIN node
    BY Parts, DerefIs
  <2> QED BY <2>1, <2>3, <2>4, <2>5
<1>8. Ladder(Tree, g, p)
  <2>1. \A j \in 1..Len(p) - 1 : j \in 1..Len(p)
    BY <1>2
  <2> QED BY <1>3, <1>7, <2>1 DEF Ladder
<1>9. ASSUME v # NULL, NEW j \in 1..Len(p), p[j].at # NULL PROVE g.high[v] < g.high[p[j].at]
  <2> DEFINE L == Len(p)
  <2>1. L \in 1..L
    BY <1>2
  <2>2. p[L].at \in Spots(Tree) /\ p[L].link \in LinksOf(Tree, p[L].at) /\ v = Holds(Tree, p[L].at, p[L].link)
    BY <1>3, <2>1, DerefIs DEF Valid, Last
  <2>3. v \in DOMAIN node /\ (p[L].at # NULL => g.high[v] < g.high[p[L].at])
    BY <1>9, <2>2, DerefIs, PlaceHolds
  <2>4. CASE j = L
    BY <1>9, <2>3, <2>4
  <2>5. CASE j # L
    <3>1. j < L
      BY <1>2, <2>5
    <3>2. p[L].at # NULL /\ g.high[p[L].at] < g.high[p[j].at]
      BY <1>7, <1>9, <2>1, <3>1
    <3>3. p[L].at \in DOMAIN node /\ p[j].at \in DOMAIN node
      BY <1>3, <1>9, <2>1, <3>2, DerefIs DEF Valid, Spots
    <3>4. g.high[v] \in Nat /\ g.high[p[L].at] \in Nat /\ g.high[p[j].at] \in Nat
      BY <1>4, <2>3, <3>3
    <3> QED BY <2>3, <3>2, <3>4
  <2> QED BY <2>4, <2>5
<1> QED BY <1>2, <1>8, <1>9

(* The tree that tst_delete goes back through.                             *)
Cut(v) == IF v # NULL /\ isvnode(v) THEN Free([Tree EXCEPT !.node[node[v].r].e = node[v].l], v) ELSE Tree

(* Taking the vnode of a key away leaves a tree of the other keys, and the *)
(* slots of the way back are still a ladder of it.                         *)
LEMMA CutKeeps ==
    ASSUME NEW g, Sound(Tree, g), dict \in [Keys -> Values \cup {NULL}], Spelled(Tree, g, dict),
           NEW key \in Keys, NEW p, p = Descent(key), NEW v, v = Deref(Last(p)),
           ~(v # NULL /\ isvnode(v) /\ node[v].r = NULL)
    PROVE  \E h : /\ Sound(Cut(v), h) /\ Spelled(Cut(v), h, [dict EXCEPT ![key] = NULL])
                  /\ Ladder(Cut(v), h, p)
<1> DEFINE s == Last(p)
<1>1. /\ v # NULL => v \in DOMAIN node /\ g.pre[v] = key
      /\ \A x \in DOMAIN node : node[x].c = TCHAR /\ g.pre[x] = key => x = v
  BY VnodeOf
<1>2. /\ Len(p) \in Nat \ {0} /\ Ladder(Tree, g, p)
      /\ v # NULL => \A j \in 1..Len(p) : p[j].at # NULL => g.high[v] < g.high[p[j].at]
  BY DescentLadder
<1>3. Tree.node = node
  BY DerefIs
<1>4. CASE ~(v # NULL /\ isvnode(v))
  <2>1. Cut(v) = Tree
    BY <1>4 DEF Cut
  <2>2. dict[key] = NULL
    <3> SUFFICES ASSUME dict[key] # NULL PROVE FALSE
      OBVIOUS
    <3>1. PICK x \in DOMAIN node : node[x].c = TCHAR /\ g.pre[x] = key
      BY <1>3 DEF Spelled
    <3>2. x = v /\ v # NULL
      <4>1. NULL \notin DOMAIN node
        BY <1>3, Parts
      <4> QED BY <1>1, <3>1, <4>1
    <3> QED BY <1>4, <3>1, <3>2 DEF isvnode
  <2>3. [dict EXCEPT ![key] = NULL] = dict
    BY <2>2
  <2> QED BY <1>2, <2>1, <2>3
<1>5. CASE v # NULL /\ isvnode(v)
  <2> DEFINE a == node[v].r
             w == node[v].l
             u == Cut(v)
             q == [at |-> a, link |-> "e"]
  <2>1. v \in DOMAIN node /\ node[v].c = TCHAR /\ g.pre[v] = key /\ a # NULL
    BY <1>1, <1>5 DEF isvnode
  <2>2. a = g.up[v] /\ a \in DOMAIN node /\ node[a].c # TCHAR /\ a # v
    <3>1. a = g.up[v] /\ node[g.up[v]].c # TCHAR
      BY <1>3, <2>1 DEF Sound, Backed
    <3>2. g.up[v] \in Spots(Tree)
      BY <1>3, <2>1 DEF Sound, Placed
    <3>3. a \in DOMAIN node
      BY <1>3, <2>1, <3>1, <3>2 DEF Spots
    <3> QED BY <2>1, <3>1, <3>3
  <2>3. q.at = a /\ q.link = "e"
    OBVIOUS
  <2> HIDE DEF q
  <2>4. Store(Tree, q, w) = [Tree EXCEPT !.node[a].e = w]
    BY <2>1, <2>3 DEF Store
  <2>5. u = Free([Tree EXCEPT !.node[a].e = w], v)
    BY <1>5 DEF Cut
  <2>6. u = Free(Store(Tree, q, w), v)
    BY <2>4, <2>5
  <2> HIDE DEF u
  <2>7. CutOff(Tree, v, a, u)
    <3>1. Shaped(Tree) /\ w = Tree.node[v].l
      BY <1>3 DEF Sound
    <3> HIDE DEF a, w
    <3> QED BY <1>3, <2>1, <2>2, <2>3, <2>6, <3>1, CutIs
  <2>8. Lone(Tree, g, v, key) /\ a = Tree.node[v].r
    BY <1>1, <1>3, <2>1 DEF Lone
  <2>9. PICK h : /\ Sound(u, h) /\ Spelled(u, h, [dict EXCEPT ![key] = NULL])
                 /\ \A x \in DOMAIN u.node : h.high[x] = g.high[x]
    <3> HIDE DEF a, w
    <3>1. Lowered(Tree, g, dict, key, u)
      BY <2>1, <2>7, <2>8, CutSound
    <3> QED BY <3>1 DEF Lowered
  <2>10. DOMAIN u.node = DOMAIN node \ {v} /\ \A x \in Spots(u) : LinksOf(u, x) = LinksOf(Tree, x)
    BY <1>3, <2>7 DEF CutOff
  <2>11. \A j \in 1..Len(p) - 1 : p[j].at # v /\ Valid(Tree, p[j]) /\ (p[j].at # NULL => p[j].at \in DOMAIN u.node)
    <3> SUFFICES ASSUME NEW j \in 1..Len(p) - 1
                 PROVE  p[j].at # v /\ Valid(Tree, p[j]) /\ (p[j].at # NULL => p[j].at \in DOMAIN u.node)
      OBVIOUS
    <3>1. Valid(Tree, p[j])
      BY <1>2 DEF Ladder
    <3>2. j \in 1..Len(p)
      BY <1>2
    <3>3. g.high[v] \in Nat
      BY <1>3, <2>1 DEF Sound, Ranked
    <3>4. p[j].at # NULL => g.high[v] < g.high[p[j].at]
      BY <1>2, <1>5, <3>2
    <3>5. p[j].at # v
      BY <1>5, <3>3, <3>4
    <3>6. p[j].at # NULL => p[j].at \in DOMAIN node
      BY <1>3, <3>1 DEF Valid, Spots
    <3> QED BY <2>10, <3>1, <3>5, <3>6
  <2>12. Ladder(u, h, p)
    <3>1. \A j \in 1..Len(p) - 1 : Valid(u, p[j])
      BY <2>10, <2>11 DEF Valid, Spots
    <3>2. ASSUME NEW i \in 1..Len(p) - 1, NEW j \in 1..Len(p) - 1, i < j, p[i].at # NULL
          PROVE  p[j].at # NULL /\ h.high[p[j].at] < h.high[p[i].at]
      <4>1. p[j].at # NULL /\ g.high[p[j].at] < g.high[p[i].at]
        BY <1>2, <3>2 DEF Ladder
      <4> QED BY <2>9, <2>11, <3>2, <4>1
    <3> QED BY <3>1, <3>2 DEF Ladder
  <2>13. u = Cut(v)
    BY DEF u
  <2> HIDE DEF w, a
  <2> QED BY <2>9, <2>12, <2>13
<1> QED BY <1>4, <1>5

(* tst_delete keeps the invariant: it fails and changes nothing, or cuts   *)
(* the vnode off, if there is one, and prunes on the way back.             *)
LEMMA DeleteKeeps ==
    ASSUME TreeInv, NEW key \in Keys, tst_delete(key)
    PROVE  TreeInv'
<1> DEFINE p == Descent(key)
           v == Deref(Last(p))
           e == [dict EXCEPT ![key] = NULL]
           K == Len(p) - 1
<1>1. dict \in [Keys -> Values \cup {NULL}]
  BY DEF TreeInv
<1>2. PICK g : Sound(Tree, g) /\ Spelled(Tree, g, dict)
  BY DEF TreeInv, Kept
<1>3. CASE v # NULL /\ isvnode(v) /\ node[v].r = NULL
  <2>1. UNCHANGED <<head, node, dict>>
    BY <1>3 DEF tst_delete
  <2> QED BY <2>1 DEF TreeInv, Tree
<1>4. CASE ~(v # NULL /\ isvnode(v) /\ node[v].r = NULL)
  <2> DEFINE w == CHOOSE w : BackOf(p, Cut(v), K, w)
  <2>1. Becomes(w[K]) /\ dict' = e
    BY <1>4 DEF tst_delete, BackOf, Cut
  <2> HIDE DEF p, v
  <2>2. PICK h : Sound(Cut(v), h) /\ Spelled(Cut(v), h, e) /\ Ladder(Cut(v), h, p)
    BY <1>1, <1>2, <1>4, CutKeeps DEF p, v
  <2>3. Len(p) \in Nat \ {0} /\ K \in Nat
    BY <1>2, DescentLadder DEF p
  <2>4. BackOf(p, Cut(v), K, w)
    BY <2>3, BackExists
  <2> HIDE DEF w, e
  <2>5. Kept(w[K], e)
    BY <2>2, <2>3, <2>4, BackKeeps
  <2>6. e \in [Keys -> Values \cup {NULL}]
    BY <1>1 DEF e
  <2> QED BY <2>1, <2>5, <2>6, BecomesIs
<1> QED BY <1>3, <1>4

(* An empty tree spells nothing.                                           *)
LEMMA EmptyKept ==
    ASSUME NEW t, t = [head |-> NULL, node |-> t.node], t.node \in [{} -> Cell]
    PROVE  Kept(t, NoKeys)
<1> DEFINE g == [top |-> 0, high |-> t.node, up |-> t.node, side |-> t.node, pre |-> t.node, via |-> t.node]
<1>1. DOMAIN t.node = {} /\ t.head = NULL /\ g.top = 0
  OBVIOUS
<1> HIDE DEF g
<1>2. Shaped(t)
  <2>1. t.node \in UNION {[S -> Cell] : S \in SUBSET Ids}
    OBVIOUS
  <2> QED BY <1>1, <2>1 DEF Shaped
<1>3. Placed(t, g)
  BY <1>1 DEF Placed, Spots, LinksOf, Holds
<1>4. Ranked(t, g) /\ Routed(t, g) /\ Backed(t, g)
  BY <1>1 DEF Ranked, Routed, Backed
<1>5. Spelled(t, g, NoKeys)
  BY <1>1 DEF Spelled, NoKeys
<1> QED BY <1>2, <1>3, <1>4, <1>5 DEF Sound, Kept

(* tst_destroy keeps the invariant: it frees what can be reached, which is *)
(* every node.                                                             *)
LEMMA ClearKeeps ==
    ASSUME TreeInv, tst_destroy
    PROVE  TreeInv'
<1>1. PICK g : Sound(Tree, g) /\ Spelled(Tree, g, dict)
  BY DEF TreeInv, Kept
<1>2. Reachable = DOMAIN node
  BY <1>1, ReachableIs
<1>3. node' = [n \in {} |-> node[n]] /\ head' = NULL /\ dict' = NoKeys
  BY <1>2 DEF tst_destroy
<1> DEFINE u == [head |-> NULL, node |-> node']
<1>4. Kept(u, NoKeys)
  <2>1. u = [head |-> NULL, node |-> u.node] /\ u.node \in [{} -> Cell]
    BY <1>3
  <2> HIDE DEF u
  <2> QED BY <2>1, EmptyKept
<1>5. Becomes(u) /\ NoKeys \in [Keys -> Values \cup {NULL}]
  BY <1>3 DEF Becomes, NoKeys
<1> HIDE DEF u
<1> QED BY <1>3, <1>4, <1>5, BecomesIs

(* The empty tree that tst_init makes.                                     *)
LEMMA TreeStarts ==
    ASSUME TreeInit
    PROVE  TreeInv
<1>1. dict = NoKeys /\ Tree = [head |-> NULL, node |-> << >>] /\ Tree.node = << >>
  BY DEF TreeInit, Tree
<1>2. Tree.node \in [{} -> Cell] /\ Tree = [head |-> NULL, node |-> Tree.node]
  BY <1>1
<1>3. Kept(Tree, NoKeys)
  BY <1>2, EmptyKept
<1> QED BY <1>1, <1>3 DEF TreeInv, NoKeys

(* What leaves the tree alone keeps the invariant.                         *)
LEMMA TreeStutters ==
    ASSUME TreeInv, UNCHANGED treeVars
    PROVE  TreeInv'
BY DEF TreeInv, treeVars, Tree

(* Whatever is inserted and deleted, the vnodes of the tree spell the keys *)
(* that have a value, and no others.                                       *)
THEOREM TreeKeeps == TreeSpec => []TreeInv
<1>1. TreeInit => TreeInv
  BY TreeStarts
<1>2. TreeInv /\ [TreeNext]_treeVars => TreeInv'
  <2> SUFFICES ASSUME TreeInv, [TreeNext]_treeVars PROVE TreeInv'
    OBVIOUS
  <2>1. CASE UNCHANGED treeVars
    BY <2>1, TreeStutters
  <2>2. CASE tst_destroy
    BY <2>2, ClearKeeps
  <2>3. ASSUME NEW k \in Keys, tst_delete(k) PROVE TreeInv'
    BY <2>3, DeleteKeeps
  <2>4. ASSUME NEW k \in Keys, NEW v \in Values, tst_insert(k, v) PROVE TreeInv'
    BY <2>4, InsertKeeps
  <2> QED BY <2>1, <2>2, <2>3, <2>4 DEF TreeNext
<1> QED BY <1>1, <1>2, PTL DEF TreeSpec

(* The invariant says what the properties ask for.                         *)
LEMMA TreeInvMeans ==
    ASSUME TreeInv
    PROVE  BackPointersSound /\ SearchAgrees
<1>1. PICK g : Sound(Tree, g) /\ Spelled(Tree, g, dict)
  BY DEF TreeInv, Kept
<1> QED BY <1>1, BackPointersAre, SearchIs

(* No node of tsearch_tree.c is lost, and the back pointer that tst_delete *)
(* writes through leads to the node whose e the vnode is, for any keys and *)
(* any values.                                                             *)
THEOREM TreeIsSound == TreeSpec => []BackPointersSound
<1>1. TreeInv => BackPointersSound
  BY TreeInvMeans
<1> QED BY <1>1, TreeKeeps, PTL

(* tst_search finds what was last inserted for a key, and nothing once     *)
(* that is deleted, whatever keys share characters with it.                *)
THEOREM TreeSearches == TreeSpec => []SearchAgrees
<1>1. TreeInv => SearchAgrees
  BY TreeInvMeans
<1> QED BY <1>1, TreeKeeps, PTL

-----------------------------------------------------------------------------
(* The emitter.                                                            *)

Named == {ev \in Keys : dict[ev] # NULL}
Entry == [cb : Callbacks \cup {NULL}, once : BOOLEAN]

EmitterTypeOK ==
    /\ dict \in [Keys -> Values \cup {NULL}]
    /\ entry \in [DOMAIN entry -> Entry] /\ DOMAIN entry \subseteq Values
    /\ calls \in Seq(Values)
    /\ want \in [Keys -> Callbacks \cup {NULL}]
    /\ spent \subseteq Keys

(* Each name in the tree has an entry of its own, and an emission that is  *)
(* under way has an entry that is allocated.                               *)
EntriesOwned ==
    /\ \A ev \in Named : dict[ev] \in DOMAIN entry
    /\ \A ev, other \in Named : dict[ev] = dict[other] => ev = other
    /\ \A i \in 1..Len(calls) : calls[i] \in DOMAIN entry

Emitting(p) == \E i \in 1..Len(calls) : calls[i] = p

(* What a name wants is what its entry has, for good: without once.        *)
WantsKept ==
    \A ev \in Keys : want[ev] # NULL =>
        ev \in Named /\ entry[dict[ev]] = [cb |-> want[ev], once |-> FALSE]

(* A once callback that was called is gone, or some emission that has not  *)
(* returned will see the flag and take it away.                            *)
SpentGoes ==
    \A ev \in spent : /\ ev \in Named
                      /\ \/ entry[dict[ev]].cb = NULL
                         \/ entry[dict[ev]].once /\ Emitting(dict[ev])

EmitterInv == EmitterTypeOK /\ EntriesOwned /\ WantsKept /\ SpentGoes

(* What Register does to the entries: the name has one afterwards, nobody  *)
(* else's is touched, and none is taken away.                              *)
Registered(ev, cb, once) ==
    /\ dict' \in [Keys -> Values \cup {NULL}]
    /\ entry' \in [DOMAIN entry' -> Entry]
    /\ DOMAIN entry \subseteq DOMAIN entry' /\ DOMAIN entry' \subseteq Values
    /\ dict'[ev] # NULL /\ dict'[ev] \in DOMAIN entry'
    /\ entry'[dict'[ev]] = [cb |-> cb, once |-> once]
    /\ \A other \in Keys \ {ev} : /\ dict'[other] = dict[other]
                                  /\ dict[other] # NULL => dict'[ev] # dict[other]
    /\ \A p \in DOMAIN entry : p # dict'[ev] => entry'[p] = entry[p]

LEMMA RegisterEffect ==
    ASSUME EmitterTypeOK, EntriesOwned, SearchAgrees,
           NEW ev \in Keys, NEW cb \in Callbacks, NEW once \in BOOLEAN,
           Register(ev, cb, once)
    PROVE  Registered(ev, cb, once)
<1>1. tst_search(ev) = dict[ev]
  BY DEF SearchAgrees
<1>2. [cb |-> cb, once |-> once] \in Entry
  BY DEF Entry
<1>3. CASE dict[ev] # NULL
  <2>1. entry' = [entry EXCEPT ![dict[ev]] = [cb |-> cb, once |-> once]] /\ dict' = dict
    BY <1>1, <1>3 DEF Register, treeVars
  <2>2. dict[ev] \in DOMAIN entry
    BY <1>3 DEF EntriesOwned, Named
  <2>3. DOMAIN entry' = DOMAIN entry
    BY <2>1
  <2>4. \A p \in DOMAIN entry : entry'[p] = IF p = dict[ev] THEN [cb |-> cb, once |-> once] ELSE entry[p]
    BY <2>1
  <2>5. entry' \in [DOMAIN entry' -> Entry]
    BY <1>2, <2>1, <2>3 DEF EmitterTypeOK
  <2>6. \A other \in Keys \ {ev} : dict[other] # NULL => dict[ev] # dict[other]
    BY <1>3 DEF EntriesOwned, Named
  <2> QED
    BY <1>3, <2>1, <2>2, <2>3, <2>4, <2>5, <2>6 DEF Registered, EmitterTypeOK
<1>4. CASE dict[ev] = NULL
  <2>1. PICK new \in Values \ DOMAIN entry :
           /\ NewEntry(new, [cb |-> cb, once |-> once])
           /\ tst_insert(ev, new)
    BY <1>1, <1>4 DEF Register
  <2>2. dict' = [dict EXCEPT ![ev] = new]
    BY <2>1 DEF tst_insert
  <2>3. /\ DOMAIN entry' = DOMAIN entry \cup {new}
        /\ \A p \in DOMAIN entry' : entry'[p] = IF p = new THEN [cb |-> cb, once |-> once] ELSE entry[p]
        /\ entry' = [p \in DOMAIN entry' |-> entry'[p]]
    BY <2>1 DEF NewEntry
  <2>4. new # NULL
    BY TreeAssumption DEF TreeAssumption
  <2>5. dict'[ev] = new /\ \A other \in Keys \ {ev} : dict'[other] = dict[other]
    BY <2>2 DEF EmitterTypeOK
  <2>6. dict' \in [Keys -> Values \cup {NULL}]
    BY <2>2 DEF EmitterTypeOK
  <2>7. \A p \in DOMAIN entry' : entry'[p] \in Entry
    BY <1>2, <2>3 DEF EmitterTypeOK
  <2>8. entry' \in [DOMAIN entry' -> Entry]
    BY <2>3, <2>7
  <2>9. \A other \in Keys \ {ev} : dict[other] # NULL => new # dict[other]
    BY DEF EntriesOwned, Named
  <2> QED
    BY <2>3, <2>4, <2>5, <2>6, <2>8, <2>9 DEF Registered, EmitterTypeOK
<1> QED
  BY <1>3, <1>4

(* A name's entry is found by its name alone.                              *)
LEMMA RegisterOwned ==
    ASSUME EmitterTypeOK, EntriesOwned, SearchAgrees,
           NEW ev \in Keys, NEW cb \in Callbacks, NEW once \in BOOLEAN,
           Register(ev, cb, once), calls' = calls
    PROVE  EntriesOwned'
<1>0. Registered(ev, cb, once)
  BY RegisterEffect
<1>1. DOMAIN entry \subseteq DOMAIN entry' /\ dict'[ev] \in DOMAIN entry' /\ dict'[ev] # NULL
  BY <1>0 DEF Registered
<1>2. \A other \in Keys \ {ev} : /\ dict'[other] = dict[other]
                                 /\ dict[other] # NULL => dict'[ev] # dict[other]
  BY <1>0 DEF Registered
<1>3. ASSUME NEW e \in Keys, dict'[e] # NULL
      PROVE  dict'[e] \in DOMAIN entry'
  <2>1. CASE e = ev
    BY <1>1, <2>1
  <2>2. CASE e # ev
    <3>1. dict'[e] = dict[e] /\ e \in Named
      BY <1>2, <1>3, <2>2 DEF Named
    <3> QED
      BY <1>1, <3>1 DEF EntriesOwned
  <2> QED
    BY <2>1, <2>2
<1>4. ASSUME NEW e \in Keys, NEW other \in Keys, dict'[e] # NULL, dict'[e] = dict'[other]
      PROVE  e = other
  <2>1. CASE e # ev /\ other # ev
    <3>1. dict'[e] = dict[e] /\ dict'[other] = dict[other]
      BY <1>2, <2>1
    <3> QED
      BY <1>4, <3>1 DEF EntriesOwned, Named
  <2>2. CASE e = ev \/ other = ev
    BY <1>1, <1>2, <1>4, <2>2
  <2> QED
    BY <2>1, <2>2
<1>5. \A i \in 1..Len(calls') : calls'[i] \in DOMAIN entry'
  BY <1>1 DEF EntriesOwned
<1> QED
  BY <1>3, <1>4, <1>5 DEF EntriesOwned, Named

(* on and once, which differ in the flag and in what the name then wants.  *)
LEMMA RegisterKeeps ==
    ASSUME EmitterInv, SearchAgrees,
           NEW ev \in Keys, NEW cb \in Callbacks, NEW once \in BOOLEAN,
           Register(ev, cb, once), calls' = calls, spent' = spent \ {ev},
           want' = [want EXCEPT ![ev] = IF once THEN NULL ELSE cb]
    PROVE  EmitterInv'
<1> USE DEF EmitterInv
<1>0. Registered(ev, cb, once)
  BY RegisterEffect
<1>1. EntriesOwned'
  BY RegisterOwned
<1>2. /\ dict' \in [Keys -> Values \cup {NULL}]
      /\ entry' \in [DOMAIN entry' -> Entry] /\ DOMAIN entry' \subseteq Values
  BY <1>0 DEF Registered
<1>3. want' \in [Keys -> Callbacks \cup {NULL}]
  BY DEF EmitterTypeOK
<1>4. EmitterTypeOK'
  BY <1>2, <1>3 DEF EmitterTypeOK
<1>5. ev \in Named' /\ entry'[dict'[ev]] = [cb |-> cb, once |-> once]
  BY <1>0 DEF Registered, Named
<1>6. \A other \in Named \ {ev} : /\ other \in Named' /\ dict'[other] = dict[other]
                                  /\ entry'[dict'[other]] = entry[dict[other]]
  <2>1. SUFFICES ASSUME NEW other \in Named \ {ev}
                 PROVE  /\ other \in Named' /\ dict'[other] = dict[other]
                        /\ entry'[dict'[other]] = entry[dict[other]]
    OBVIOUS
  <2>2. dict'[other] = dict[other] /\ dict[other] # NULL /\ dict'[ev] # dict[other]
    BY <1>0 DEF Registered, Named
  <2>3. dict[other] \in DOMAIN entry
    BY DEF EntriesOwned
  <2>4. entry'[dict[other]] = entry[dict[other]]
    BY <2>2, <2>3, <1>0 DEF Registered
  <2> QED
    BY <2>2, <2>4 DEF Named
<1>7. WantsKept'
  <2>1. SUFFICES ASSUME NEW e \in Keys, want'[e] # NULL
                 PROVE  e \in Named' /\ entry'[dict'[e]] = [cb |-> want'[e], once |-> FALSE]
    BY DEF WantsKept
  <2>2. CASE e = ev
    <3>1. want'[e] = (IF once THEN NULL ELSE cb)
      BY <2>2 DEF EmitterTypeOK
    <3>2. ~once /\ want'[e] = cb
      BY <2>1, <3>1, Zenon
    <3>3. once = FALSE
      BY <3>2
    <3> QED
      BY <1>5, <2>2, <3>2, <3>3
  <2>3. CASE e # ev
    <3>1. want'[e] = want[e]
      BY <2>3 DEF EmitterTypeOK
    <3> QED
      BY <1>6, <2>1, <2>3, <3>1 DEF WantsKept
  <2> QED
    BY <2>2, <2>3
<1>8. SpentGoes'
  <2>1. SUFFICES ASSUME NEW e \in spent \ {ev}
                 PROVE  /\ e \in Named'
                        /\ \/ entry'[dict'[e]].cb = NULL
                           \/ entry'[dict'[e]].once /\ Emitting(dict'[e])
    BY Zenon DEF SpentGoes, Emitting
  <2>2. e \in Named /\ (entry[dict[e]].cb = NULL \/ (entry[dict[e]].once /\ Emitting(dict[e])))
    BY DEF SpentGoes
  <2>3. e \in Named' /\ dict'[e] = dict[e] /\ entry'[dict'[e]] = entry[dict[e]]
    BY <1>6, <2>2
  <2> QED
    BY <2>2, <2>3, Zenon
<1> QED
  BY <1>1, <1>4, <1>7, <1>8

(* The callback of p's entry goes, its flag and all other entries stay: of *)
(* off, and of an emission that finds the flag.                            *)
Dropped(p) == entry' = [entry EXCEPT ![p].cb = NULL]

LEMMA DropEffect ==
    ASSUME EmitterTypeOK, NEW p \in DOMAIN entry, Dropped(p)
    PROVE  /\ DOMAIN entry' = DOMAIN entry
           /\ entry' \in [DOMAIN entry' -> Entry]
           /\ entry'[p].cb = NULL
           /\ \A q \in DOMAIN entry : q # p => entry'[q] = entry[q]
<1>1. entry' = [entry EXCEPT ![p] = [entry[p] EXCEPT !.cb = NULL]]
  BY DEF Dropped
<1>2. entry[p] \in Entry
  BY DEF EmitterTypeOK
<1>3. [entry[p] EXCEPT !.cb = NULL] \in Entry /\ [entry[p] EXCEPT !.cb = NULL].cb = NULL
  BY <1>2 DEF Entry
<1>4. DOMAIN entry' = DOMAIN entry
  BY <1>1
<1>5. entry'[p].cb = NULL
  BY <1>1, <1>3
<1>6. entry' \in [DOMAIN entry' -> Entry]
  BY <1>1, <1>3, <1>4 DEF EmitterTypeOK
<1> QED
  BY <1>1, <1>4, <1>5, <1>6

(* off: the name wants nothing any more.                                   *)
LEMMA OffKeeps ==
    ASSUME EmitterInv, SearchAgrees, NEW ev \in Keys, ev_emitter_off(ev)
    PROVE  EmitterInv'
<1> USE DEF EmitterInv
<1>1. tst_search(ev) = dict[ev]
  BY DEF SearchAgrees
<1>2. /\ entry' = IF dict[ev] = NULL THEN entry ELSE [entry EXCEPT ![dict[ev]].cb = NULL]
      /\ want' = [want EXCEPT ![ev] = NULL]
      /\ dict' = dict /\ calls' = calls /\ spent' = spent
  BY <1>1 DEF ev_emitter_off, treeVars
<1>3. want' \in [Keys -> Callbacks \cup {NULL}]
  BY <1>2 DEF EmitterTypeOK
<1>4. want'[ev] = NULL /\ \A e \in Keys \ {ev} : want'[e] = want[e]
  BY <1>2 DEF EmitterTypeOK
<1>5. Named' = Named
  BY <1>2 DEF Named
<1>6. CASE dict[ev] = NULL
  <2>1. entry' = entry /\ ev \notin Named
    BY <1>2, <1>6 DEF Named
  <2>2. EmitterTypeOK'
    BY <1>2, <1>3, <2>1 DEF EmitterTypeOK
  <2>3. EntriesOwned'
    BY <1>2, <1>5, <2>1 DEF EntriesOwned
  <2>4. WantsKept'
    BY <1>2, <1>4, <1>5, <2>1 DEF WantsKept
  <2>5. SpentGoes'
    BY <1>2, <1>5, <2>1 DEF SpentGoes, Emitting
  <2> QED
    BY <2>2, <2>3, <2>4, <2>5
<1>7. CASE dict[ev] # NULL
  <2>1. ev \in Named /\ dict[ev] \in DOMAIN entry /\ Dropped(dict[ev])
    BY <1>2, <1>7 DEF EntriesOwned, Named, Dropped
  <2>2. /\ DOMAIN entry' = DOMAIN entry
        /\ entry' \in [DOMAIN entry' -> Entry]
        /\ entry'[dict[ev]].cb = NULL
        /\ \A q \in DOMAIN entry : q # dict[ev] => entry'[q] = entry[q]
    BY <2>1, DropEffect
  <2>3. \A e \in Named \ {ev} : entry'[dict[e]] = entry[dict[e]]
    BY <2>1, <2>2 DEF EntriesOwned
  <2>4. EmitterTypeOK'
    BY <1>2, <1>3, <2>2 DEF EmitterTypeOK
  <2>5. EntriesOwned'
    BY <1>2, <1>5, <2>2 DEF EntriesOwned
  <2>6. WantsKept'
    BY <1>2, <1>4, <1>5, <2>3 DEF WantsKept
  <2>7. SpentGoes'
    BY <1>2, <1>5, <2>2, <2>3 DEF SpentGoes, Emitting
  <2> QED
    BY <2>4, <2>5, <2>6, <2>7
<1> QED
  BY <1>6, <1>7

(* emit: the name is spent if its entry has the flag, and from then on an  *)
(* emission of that entry is under way.                                    *)
LEMMA EmitKeeps ==
    ASSUME EmitterInv, SearchAgrees, NEW ev \in Keys, ev_emitter_emit_f(ev)
    PROVE  EmitterInv'
<1> USE DEF EmitterInv
<1> DEFINE p == dict[ev]
<1>1. tst_search(ev) = p
  BY DEF SearchAgrees
<1>2. /\ p # NULL
      /\ calls' = Append(calls, p)
      /\ spent' = IF entry[p].once THEN spent \cup {ev} ELSE spent
      /\ dict' = dict /\ entry' = entry /\ want' = want
  BY <1>1 DEF ev_emitter_emit_f, treeVars
<1>3. ev \in Named /\ p \in DOMAIN entry /\ p \in Values
  BY <1>2 DEF EntriesOwned, Named, EmitterTypeOK
<1>4. Named' = Named
  BY <1>2 DEF Named
<1>5. /\ Len(calls) \in Nat /\ Len(calls') = Len(calls) + 1
      /\ calls' \in Seq(Values) /\ calls'[Len(calls) + 1] = p
      /\ \A i \in 1..Len(calls) : calls'[i] = calls[i]
  BY <1>2, <1>3 DEF EmitterTypeOK
<1>6. \E i \in 1..Len(calls') : calls'[i] = p
  BY <1>5
<1>7. spent' \subseteq Keys
  BY <1>2 DEF EmitterTypeOK
<1>8. EmitterTypeOK'
  BY <1>2, <1>5, <1>7 DEF EmitterTypeOK
<1>9. EntriesOwned'
  <2>1. \A i \in 1..Len(calls') : calls'[i] \in DOMAIN entry'
    BY <1>2, <1>3, <1>5 DEF EntriesOwned
  <2> QED
    BY <1>2, <1>4, <2>1 DEF EntriesOwned
<1>10. WantsKept'
  BY <1>2, <1>4 DEF WantsKept
<1>11. SpentGoes'
  <2>1. SUFFICES ASSUME NEW e \in spent'
                 PROVE  /\ e \in Named
                        /\ entry[dict[e]].cb = NULL \/ (entry[dict[e]].once /\ \E i \in 1..Len(calls') : calls'[i] = dict[e])
    BY <1>2, <1>4, Zenon DEF SpentGoes, Emitting
  <2>2. CASE e \in spent
    BY <1>2, <1>5, <2>2 DEF SpentGoes, Emitting
  <2>3. CASE e \notin spent
    BY <1>2, <1>3, <1>6, <2>1, <2>3
  <2> QED
    BY <2>2, <2>3
<1> QED
  BY <1>8, <1>9, <1>10, <1>11

(* A callback returns: if its entry has the flag the callback goes, so an  *)
(* entry that stays spent without an emission has no callback.             *)
LEMMA ReturnKeeps ==
    ASSUME EmitterInv, CallbackReturns
    PROVE  EmitterInv'
<1> USE DEF EmitterInv
<1> DEFINE p == calls[Len(calls)]
<1>1. /\ calls # <<>>
      /\ entry' = IF entry[p].once THEN [entry EXCEPT ![p].cb = NULL] ELSE entry
      /\ calls' = SubSeq(calls, 1, Len(calls) - 1)
      /\ dict' = dict /\ want' = want /\ spent' = spent
  BY DEF CallbackReturns, treeVars
<1>2. Len(calls) \in Nat \ {0}
  BY <1>1 DEF EmitterTypeOK
<1>3. /\ calls' \in Seq(Values) /\ Len(calls') = Len(calls) - 1
      /\ \A i \in 1..(Len(calls) - 1) : calls'[i] = calls[i]
  <2> DEFINE n == Len(calls) - 1
  <2>1. n \in Nat /\ \A i \in 1..n : calls[i] \in Values
    BY <1>2 DEF EmitterTypeOK
  <2>2. /\ SubSeq(calls, 1, n) \in Seq(Values)
        /\ Len(SubSeq(calls, 1, n)) = IF 1 <= n THEN n - 1 + 1 ELSE 0
        /\ \A i \in 1..(n - 1 + 1) : SubSeq(calls, 1, n)[i] = calls[1 + i - 1]
    BY <2>1, SubSeqProperties
  <2>3. calls' = SubSeq(calls, 1, n)
    BY <1>1
  <2> HIDE DEF n
  <2>4. calls' \in Seq(Values) /\ Len(calls') = n
    BY <2>1, <2>2, <2>3
  <2>5. \A i \in 1..n : calls'[i] = calls[i]
    BY <2>1, <2>2, <2>3
  <2> QED
    BY <2>4, <2>5 DEF n
<1>4. p \in DOMAIN entry
  BY <1>2 DEF EntriesOwned
<1>5. \A i \in 1..Len(calls) : calls[i] = p \/ \E j \in 1..Len(calls') : calls'[j] = calls[i]
  BY <1>2, <1>3
<1>6. Named' = Named
  BY <1>1 DEF Named
<1>7. \A i \in 1..Len(calls') : calls'[i] \in DOMAIN entry
  BY <1>2, <1>3 DEF EntriesOwned
<1>8. CASE entry[p].once
  <2>1. Dropped(p)
    BY <1>1, <1>8 DEF Dropped
  <2>2. /\ DOMAIN entry' = DOMAIN entry
        /\ entry' \in [DOMAIN entry' -> Entry]
        /\ entry'[p].cb = NULL
        /\ \A q \in DOMAIN entry : q # p => entry'[q] = entry[q]
    BY <1>4, <2>1, DropEffect
  <2>3. EmitterTypeOK'
    BY <1>1, <1>3, <2>2 DEF EmitterTypeOK
  <2>4. EntriesOwned'
    BY <1>1, <1>6, <1>7, <2>2 DEF EntriesOwned
  <2>5. WantsKept'
    <3>1. \A ev \in Keys : want[ev] # NULL => dict[ev] \in DOMAIN entry /\ dict[ev] # p
      <4>1. SUFFICES ASSUME NEW ev \in Keys, want[ev] # NULL
                     PROVE  dict[ev] \in DOMAIN entry /\ dict[ev] # p
        OBVIOUS
      <4>2. ev \in Named /\ entry[dict[ev]] = [cb |-> want[ev], once |-> FALSE]
        BY <4>1 DEF WantsKept
      <4>3. ~entry[dict[ev]].once
        BY <4>2
      <4> QED
        BY <1>8, <4>2, <4>3, Zenon DEF EntriesOwned
    <3> QED
      BY <1>1, <1>6, <2>2, <3>1 DEF WantsKept
  <2>6. SpentGoes'
    <3>1. SUFFICES ASSUME NEW ev \in spent
                   PROVE  /\ ev \in Named
                          /\ \/ entry'[dict[ev]].cb = NULL
                             \/ /\ entry'[dict[ev]].once
                                /\ \E j \in 1..Len(calls') : calls'[j] = dict[ev]
      BY <1>1, <1>6, Zenon DEF SpentGoes, Emitting
    <3>2. ev \in Named /\ dict[ev] \in DOMAIN entry
      BY DEF SpentGoes, EntriesOwned
    <3>3. CASE dict[ev] = p
      BY <2>2, <3>2, <3>3
    <3>4. CASE dict[ev] # p
      BY <1>5, <2>2, <3>2, <3>4 DEF SpentGoes, Emitting
    <3> QED
      BY <3>3, <3>4
  <2> QED
    BY <2>3, <2>4, <2>5, <2>6
<1>9. CASE ~entry[p].once
  <2>1. entry' = entry
    BY <1>1, <1>9
  <2>2. EmitterTypeOK' /\ EntriesOwned' /\ WantsKept'
    BY <1>1, <1>3, <1>6, <1>7, <2>1 DEF EmitterTypeOK, EntriesOwned, WantsKept
  <2>3. SpentGoes'
    BY <1>1, <1>5, <1>6, <1>9, <2>1 DEF SpentGoes, Emitting
  <2> QED
    BY <2>2, <2>3
<1> QED
  BY <1>8, <1>9

(* An emitter that has just been made or destroyed knows no name.          *)
LEMMA EmptyHolds ==
    ASSUME dict = NoKeys, want = NoKeys, entry = << >>, calls = <<>>, spent = {}
    PROVE  EmitterInv
<1>1. Named = {}
  BY DEF Named, NoKeys
<1>2. EmitterTypeOK
  BY DEF EmitterTypeOK, NoKeys
<1>3. EntriesOwned
  BY <1>1 DEF EntriesOwned
<1>4. WantsKept /\ SpentGoes
  BY DEF WantsKept, SpentGoes, NoKeys
<1> QED
  BY <1>2, <1>3, <1>4 DEF EmitterInv

LEMMA DestroyKeeps ==
    ASSUME ev_emitter_destroy
    PROVE  EmitterInv'
<1>1. dict' = NoKeys /\ want' = NoKeys /\ entry' = << >> /\ calls' = <<>> /\ spent' = {}
  BY DEF ev_emitter_destroy, tst_destroy
<1>2. Named' = {}
  BY <1>1 DEF Named, NoKeys
<1>3. EmitterTypeOK'
  BY <1>1 DEF EmitterTypeOK, NoKeys
<1>4. EntriesOwned'
  BY <1>1, <1>2 DEF EntriesOwned
<1>5. WantsKept' /\ SpentGoes'
  BY <1>1 DEF WantsKept, SpentGoes, NoKeys
<1> QED
  BY <1>3, <1>4, <1>5 DEF EmitterInv

(* The invariant: one step per operation.                                  *)
LEMMA EmitterStep ==
    ASSUME EmitterInv, SearchAgrees, [EmitterNext]_<<treeVars, emitterVars>>
    PROVE  EmitterInv'
<1>1. ASSUME NEW ev \in Keys, NEW cb \in Callbacks, ev_emitter_on(ev, cb)
      PROVE  EmitterInv'
  <2>1. want' = [want EXCEPT ![ev] = IF FALSE THEN NULL ELSE cb]
    BY <1>1 DEF ev_emitter_on
  <2> QED
    BY <1>1, <2>1, RegisterKeeps DEF ev_emitter_on
<1>2. ASSUME NEW ev \in Keys, NEW cb \in Callbacks, ev_emitter_once(ev, cb)
      PROVE  EmitterInv'
  <2>1. want' = [want EXCEPT ![ev] = IF TRUE THEN NULL ELSE cb]
    BY <1>2 DEF ev_emitter_once
  <2> QED
    BY <1>2, <2>1, RegisterKeeps DEF ev_emitter_once
<1>3. ASSUME NEW ev \in Keys, ev_emitter_off(ev) \/ ev_emitter_emit_f(ev)
      PROVE  EmitterInv'
  BY <1>3, OffKeeps, EmitKeeps
<1>4. CASE CallbackReturns
  BY <1>4, ReturnKeeps
<1>5. CASE ev_emitter_destroy
  BY <1>5, DestroyKeeps
<1>6. CASE UNCHANGED <<treeVars, emitterVars>>
  <2>1. dict' = dict /\ want' = want /\ entry' = entry /\ calls' = calls /\ spent' = spent
    BY <1>6 DEF treeVars, emitterVars
  <2>2. Named' = Named
    BY <2>1 DEF Named
  <2> QED
    BY <2>1, <2>2 DEF EmitterInv, EmitterTypeOK, EntriesOwned, WantsKept, SpentGoes, Emitting
<1> QED
  BY <1>1, <1>2, <1>3, <1>4, <1>5, <1>6 DEF EmitterNext

(* The emitter uses its tree as a tree may be used: it inserts a name with *)
(* an entry that is a value, or destroys the tree, or leaves it alone.     *)
LEMMA EmitterTreeStep ==
    ASSUME TreeInv, [EmitterNext]_<<treeVars, emitterVars>>
    PROVE  TreeInv'
<1>1. ASSUME NEW ev \in Keys, NEW cb, NEW once, Register(ev, cb, once)
      PROVE  TreeInv'
  <2>1. CASE tst_search(ev) # NULL
    BY <1>1, <2>1, TreeStutters DEF Register
  <2>2. CASE tst_search(ev) = NULL
    <3>1. PICK new \in Values : tst_insert(ev, new)
      BY <1>1, <2>2 DEF Register
    <3> QED BY <3>1, InsertKeeps
  <2> QED BY <2>1, <2>2
<1>2. ASSUME NEW ev \in Keys, NEW cb, ev_emitter_on(ev, cb) \/ ev_emitter_once(ev, cb)
      PROVE  TreeInv'
  BY <1>1, <1>2 DEF ev_emitter_on, ev_emitter_once
<1>3. ASSUME NEW ev \in Keys, ev_emitter_off(ev) \/ ev_emitter_emit_f(ev)
      PROVE  TreeInv'
  BY <1>3, TreeStutters DEF ev_emitter_off, ev_emitter_emit_f
<1>4. CASE CallbackReturns
  BY <1>4, TreeStutters DEF CallbackReturns
<1>5. CASE ev_emitter_destroy
  BY <1>5, ClearKeeps DEF ev_emitter_destroy
<1>6. CASE UNCHANGED <<treeVars, emitterVars>>
  BY <1>6, TreeStutters
<1> QED BY <1>2, <1>3, <1>4, <1>5, <1>6 DEF EmitterNext

(* Searches find the entries of the emitter, however emissions are nested. *)
THEOREM EmitterTree == EmitterSpec => []TreeInv
<1>1. EmitterInit => TreeInv
  BY TreeStarts DEF EmitterInit
<1>2. TreeInv /\ [EmitterNext]_<<treeVars, emitterVars>> => TreeInv'
  BY EmitterTreeStep
<1> QED BY <1>1, <1>2, PTL DEF EmitterSpec

(* The invariant of the emitter, whose tree searches as it should.         *)
LEMMA EmitterInvariant == EmitterSpec => [](EmitterInv /\ SearchAgrees)
<1>1. EmitterInit => EmitterInv
  BY EmptyHolds DEF EmitterInit, TreeInit
<1>2. EmitterInv /\ SearchAgrees /\ [EmitterNext]_<<treeVars, emitterVars>> => EmitterInv'
  BY EmitterStep
<1>3. TreeInv => SearchAgrees
  BY TreeInvMeans
<1> QED
  BY <1>1, <1>2, <1>3, EmitterTree, PTL DEF EmitterSpec

(* A callback given with on stays until it is taken off or replaced, also  *)
(* when it replaces a once callback in the middle of that one's emission.  *)
THEOREM OnCallbackStays == EmitterSpec => []OnStays
<1>1. EmitterInv /\ SearchAgrees => OnStays
  BY DEF EmitterInv, EntriesOwned, WantsKept, SearchAgrees, OnStays
<1> QED
  BY <1>1, EmitterInvariant, PTL

(* When no emission is under way, a once callback that has been called is  *)
(* gone, for any nesting of emissions and registrations before that.       *)
THEOREM OnceCallbackGoes == EmitterSpec => []OnceSpent
<1>1. ASSUME EmitterInv, SearchAgrees, calls = <<>>, NEW ev \in spent
      PROVE  entry[tst_search(ev)].cb = NULL
  <2>1. ev \in Named /\ ~Emitting(dict[ev])
    BY <1>1 DEF EmitterInv, SpentGoes, Emitting
  <2>2. tst_search(ev) = dict[ev]
    BY <1>1, <2>1 DEF SearchAgrees, Named
  <2> QED
    BY <1>1, <2>1, <2>2 DEF EmitterInv, SpentGoes
<1>2. EmitterInv /\ SearchAgrees => OnceSpent
  BY <1>1 DEF OnceSpent
<1> QED
  BY <1>2, EmitterInvariant, PTL

=============================================================================
