----------------------------- MODULE DListProofs -----------------------------
(***************************************************************************)
(* Proofs about DList, for any finite number of list heads and entries.    *)
(***************************************************************************)
EXTENDS DList, FiniteSetTheorems, SequenceTheorems, WellFoundedInduction, TLAPS

(* The links l are inverse on every node that is not dead, and nothing     *)
(* that is not dead points at one that is.                                 *)
WellLinked(l, dead) ==
    /\ l.next \in [Nodes -> Nodes] /\ l.prev \in [Nodes -> Nodes]
    /\ \A n \in Nodes \ dead :
          /\ l.prev[l.next[n]] = n /\ l.next[l.prev[n]] = n
          /\ l.next[n] \notin dead /\ l.prev[n] \notin dead

(* Whose ring a node is in: colours go along the links, and every usable   *)
(* head has a colour of its own.  No ring holds two heads, therefore,      *)
(* which list_splice relies on.                                            *)
Coloured(c, f, dead) ==
    /\ c \in [Nodes -> Nodes]
    /\ \A n \in Nodes \ dead : c[f[n]] = c[n]
    /\ \A h \in Heads \ dead : c[h] = h

DInv ==
    /\ stale \subseteq Heads
    /\ WellLinked(Links, stale)
    /\ \E c : Coloured(c, next, stale)

LEMMA InitInv == NodesAssumption /\ Init => DInv
<1> SUFFICES ASSUME NodesAssumption, Init PROVE DInv
  OBVIOUS
<1>1. WellLinked(Links, stale)
  BY DEF Init, WellLinked, Links
<1>2. Coloured([n \in Nodes |-> n], next, stale)
  BY DEF Init, Coloured, Nodes
<1> QED BY <1>1, <1>2 DEF Init, DInv

LEMMA DInvLinks == DInv => LinksInverse
BY DEF DInv, WellLinked, Links, LinksInverse

(* A loose entry between two neighbours.                                   *)
LEMMA AddKeeps ==
    ASSUME NEW dead \in SUBSET Nodes, NEW l, WellLinked(l, dead),
           NEW e \in Nodes \ dead, l.next[e] = e,
           NEW x \in Nodes \ dead, x # e,
           NEW y \in Nodes \ dead, l.next[x] = y
    PROVE  WellLinked(__list_add(l, e, x, y), dead)
<1> DEFINE m == __list_add(l, e, x, y)
<1>1. y # e /\ l.prev[y] = x /\ l.prev[e] = e
  BY DEF WellLinked
<1>2. m.next = [l.next EXCEPT ![e] = y, ![x] = e] /\ m.prev = [l.prev EXCEPT ![y] = e, ![e] = x]
  BY DEF __list_add
<1>3. m.next \in [Nodes -> Nodes] /\ m.prev \in [Nodes -> Nodes]
  BY <1>2 DEF WellLinked
<1> HIDE DEF m
<1>4. ASSUME NEW n \in Nodes \ dead
      PROVE  /\ m.prev[m.next[n]] = n /\ m.next[m.prev[n]] = n
             /\ m.next[n] \notin dead /\ m.prev[n] \notin dead
  BY <1>1, <1>2, <1>4 DEF WellLinked
<1> QED BY <1>3, <1>4 DEF WellLinked, m

(* An entry out of its ring, and made a ring of its own.                   *)
LEMMA UnlinkKeeps ==
    ASSUME NEW dead \in SUBSET Nodes, NEW l, WellLinked(l, dead),
           NEW e \in Nodes \ dead,
           NEW m, m = INIT_LIST_HEAD(Unlink(l, e), e)
    PROVE  WellLinked(m, dead) /\ m.next[e] = e
<1>1. l.next \in [Nodes -> Nodes] /\ l.prev \in [Nodes -> Nodes]
  BY DEF WellLinked
<1>2. /\ m.next = [[l.next EXCEPT ![l.prev[e]] = l.next[e]] EXCEPT ![e] = e]
      /\ m.prev = [[l.prev EXCEPT ![l.next[e]] = l.prev[e]] EXCEPT ![e] = e]
  BY DEF INIT_LIST_HEAD, Unlink, __list_del
<1>3. m.next = [n \in Nodes |-> IF n = e THEN e
                                ELSE IF n = l.prev[e] THEN l.next[e] ELSE l.next[n]]
  BY <1>1, <1>2
<1>4. m.prev = [n \in Nodes |-> IF n = e THEN e
                                ELSE IF n = l.next[e] THEN l.prev[e] ELSE l.prev[n]]
  BY <1>1, <1>2
<1>5. m.next \in [Nodes -> Nodes] /\ m.prev \in [Nodes -> Nodes]
  BY <1>1, <1>3, <1>4
<1>6. ASSUME NEW n \in Nodes \ dead
      PROVE  /\ m.prev[m.next[n]] = n /\ m.next[m.prev[n]] = n
             /\ m.next[n] \notin dead /\ m.prev[n] \notin dead
  BY <1>1, <1>3, <1>4, <1>6 DEF WellLinked
<1> QED BY <1>3, <1>5, <1>6 DEF WellLinked

(* An entry from its ring to a place between two nodes that are neighbours *)
(* when it has left.                                                       *)
LEMMA MoveKeeps ==
    ASSUME NEW dead \in SUBSET Nodes, NEW l, WellLinked(l, dead),
           NEW e \in Nodes \ dead, NEW x \in Nodes \ dead, NEW y \in Nodes \ dead,
           x # e, y # e,
           NEW u, u = INIT_LIST_HEAD(Unlink(l, e), e), u.next[x] = y
    PROVE  /\ __list_add(Unlink(l, e), e, x, y) = __list_add(u, e, x, y)
           /\ WellLinked(__list_add(u, e, x, y), dead)
<1> DEFINE w == Unlink(l, e)
<1>1. /\ w.next = [l.next EXCEPT ![l.prev[e]] = l.next[e]]
      /\ w.prev = [l.prev EXCEPT ![l.next[e]] = l.prev[e]]
      /\ w.next \in [Nodes -> Nodes] /\ w.prev \in [Nodes -> Nodes]
  BY DEF Unlink, __list_del, WellLinked
<1>2. u.next = [w.next EXCEPT ![e] = e] /\ u.prev = [w.prev EXCEPT ![e] = e]
  BY DEF INIT_LIST_HEAD
<1> HIDE DEF w
<1>3. /\ [w.next EXCEPT ![e] = y, ![x] = e] = [u.next EXCEPT ![e] = y, ![x] = e]
      /\ [w.prev EXCEPT ![y] = e, ![e] = x] = [u.prev EXCEPT ![y] = e, ![e] = x]
  BY <1>1, <1>2
<1>4. __list_add(w, e, x, y) = __list_add(u, e, x, y)
  BY ONLY <1>3, Zenon DEF __list_add
<1>5. WellLinked(u, dead) /\ u.next[e] = e
  <2>1. /\ dead \in SUBSET Nodes /\ WellLinked(l, dead) /\ e \in Nodes \ dead
        /\ u = INIT_LIST_HEAD(Unlink(l, e), e)
    OBVIOUS
  <2> QED BY ONLY <2>1, UnlinkKeeps
<1>6. WellLinked(__list_add(u, e, x, y), dead)
  BY <1>5, AddKeeps
<1> QED BY <1>4, <1>6 DEF w

(* A dead head becomes a ring of its own.                                  *)
LEMMA InitKeeps ==
    ASSUME NEW dead \in SUBSET Nodes, NEW l, WellLinked(l, dead),
           NEW h \in dead
    PROVE  WellLinked(INIT_LIST_HEAD(l, h), dead \ {h})
BY DEF INIT_LIST_HEAD, WellLinked

(* The ring of one head joins that of another, and its head is dead.       *)
LEMMA SpliceKeeps ==
    ASSUME NEW dead \in SUBSET Nodes, NEW l, WellLinked(l, dead),
           NEW c, Coloured(c, l.next, dead),
           NEW from \in Heads \ dead, NEW head \in Heads \ dead, from # head,
           l.next[from] # from,
           NEW m, m = __list_splice(l, from, head)
    PROVE  /\ WellLinked(m, dead \cup {from})
           /\ \E k : Coloured(k, m.next, dead \cup {from})
<1> DEFINE first == l.next[from]
           last  == l.prev[from]
           at    == l.next[head]
           k     == [n \in Nodes |-> IF c[n] = from THEN head ELSE c[n]]
<1>1. /\ from \in Nodes /\ head \in Nodes
      /\ l.next \in [Nodes -> Nodes] /\ l.prev \in [Nodes -> Nodes]
  BY DEF Nodes, WellLinked
<1>2. /\ m.next = [l.next EXCEPT ![head] = first, ![last] = at]
      /\ m.prev = [l.prev EXCEPT ![first] = head, ![at] = last]
  BY DEF __list_splice
<1>3. /\ first \in Nodes \ dead /\ last \in Nodes \ dead /\ at \in Nodes \ dead
      /\ l.prev[first] = from /\ l.next[last] = from /\ l.prev[at] = head
      /\ first # from /\ last # from
  BY <1>1 DEF WellLinked
<1>4. /\ c[from] = from /\ c[head] = head /\ c[first] = from /\ c[last] = from /\ c[at] = head
  BY <1>1, <1>3 DEF Coloured
<1>5. head # last /\ at # from /\ first # at
  BY <1>4
<1>6. /\ m.next = [n \in Nodes |-> IF n = last THEN at ELSE IF n = head THEN first ELSE l.next[n]]
      /\ m.prev = [n \in Nodes |-> IF n = at THEN last ELSE IF n = first THEN head ELSE l.prev[n]]
  BY <1>1, <1>2, <1>3
<1>7. m.next \in [Nodes -> Nodes] /\ m.prev \in [Nodes -> Nodes]
  BY <1>1, <1>3, <1>6
<1> HIDE DEF first, last, at
<1>8. ASSUME NEW n \in Nodes \ (dead \cup {from})
      PROVE  /\ m.prev[m.next[n]] = n /\ m.next[m.prev[n]] = n
             /\ m.next[n] \notin dead \cup {from} /\ m.prev[n] \notin dead \cup {from}
  <2>1. /\ l.prev[l.next[n]] = n /\ l.next[l.prev[n]] = n
        /\ l.next[n] \in Nodes \ dead /\ l.prev[n] \in Nodes \ dead
    BY <1>1 DEF WellLinked
  <2>2. l.next[n] = from => n = last
    BY <2>1, <1>3 DEF last
  <2>3. l.prev[n] = from => n = first
    BY <2>1, <1>3 DEF first
  <2>4. l.next[n] = at => n = head
    BY <2>1, <1>3
  <2>5. l.prev[n] = head => n = at
    BY <2>1, <1>3 DEF at
  <2>6. l.prev[n] = last => n = from
    BY <2>1, <1>3
  <2>7. l.next[n] = first => n = from
    BY <2>1, <1>3
  <2>8. m.prev[m.next[n]] = n /\ m.next[n] \notin dead \cup {from}
    BY <1>1, <1>3, <1>5, <1>6, <1>8, <2>1, <2>2, <2>4, <2>7
  <2>9. m.next[m.prev[n]] = n /\ m.prev[n] \notin dead \cup {from}
    BY <1>1, <1>3, <1>5, <1>6, <1>8, <2>1, <2>3, <2>5, <2>6
  <2> QED BY <2>8, <2>9
<1>9. Coloured(k, m.next, dead \cup {from})
  <2>1. k \in [Nodes -> Nodes]
    BY <1>1 DEF Coloured
  <2>2. ASSUME NEW n \in Nodes \ (dead \cup {from}) PROVE k[m.next[n]] = k[n]
    <3>1. c[l.next[n]] = c[n] /\ l.next[n] \in Nodes
      BY <1>1 DEF Coloured
    <3>2. CASE n = last
      <4>1. m.next[n] = at
        BY <1>6, <3>2
      <4> QED BY <1>3, <1>4, <3>2, <4>1
    <3>3. CASE n = head
      <4>1. m.next[n] = first
        BY <1>5, <1>6, <3>3
      <4> QED BY <1>3, <1>4, <3>3, <4>1
    <3>4. CASE n # last /\ n # head
      <4>1. m.next[n] = l.next[n]
        BY <1>6, <3>4
      <4> QED BY <3>1, <4>1
    <3> QED BY <3>2, <3>3, <3>4
  <2>3. ASSUME NEW h \in Heads \ (dead \cup {from}) PROVE k[h] = h
    BY DEF Coloured, Nodes
  <2> HIDE DEF k
  <2> QED BY <2>1, <2>2, <2>3 DEF Coloured
<1> QED BY <1>7, <1>8, <1>9 DEF WellLinked

(* A ring can be gone round both ways: next is one to one on it, and so    *)
(* nothing in it is left without a predecessor in it.                      *)
LEMMA RingCloses ==
    ASSUME NodesAssumption, WellLinked(Links, stale), NEW head \in Nodes \ stale
    PROVE  /\ Ring(head) \subseteq Nodes \ stale
           /\ head \in Ring(head)
           /\ \A n \in Ring(head) : next[n] \in Ring(head) /\ prev[n] \in Ring(head)
<1> DEFINE S == Ring(head)
<1>1. /\ next \in [Nodes -> Nodes] /\ prev \in [Nodes -> Nodes]
      /\ \A n \in Nodes \ stale :
            /\ prev[next[n]] = n /\ next[prev[n]] = n
            /\ next[n] \notin stale /\ prev[n] \notin stale
  BY DEF WellLinked, Links
<1>2. S \subseteq Nodes \ stale
  <2>1. head \in Nodes \ stale /\ \A m \in Nodes \ stale : next[m] \in Nodes \ stale
    BY <1>1
  <2>2. Nodes \ stale \in SUBSET Nodes
    OBVIOUS
  <2> QED BY <2>1, <2>2 DEF Ring
<1>3. head \in S
  BY DEF Ring
<1>4. \A n \in S : next[n] \in S
  BY <1>1 DEF Ring
<1> HIDE DEF S
<1>5. ASSUME NEW n \in S PROVE prev[n] \in S
  <2> SUFFICES ASSUME prev[n] \notin S PROVE FALSE
    OBVIOUS
  <2> DEFINE T == S \ {n}
             f == [m \in S |-> next[m]]
  <2>1. IsFiniteSet(S)
    BY <1>2, FS_Subset DEF NodesAssumption, Nodes
  <2>2. IsFiniteSet(T) /\ Cardinality(T) < Cardinality(S)
    <3>1. /\ IsFiniteSet(T) /\ Cardinality(T) = Cardinality(S) - 1
          /\ Cardinality(S) \in Nat
      <4>1. n \in S
        OBVIOUS
      <4> QED BY ONLY <2>1, <4>1, FS_RemoveElement, FS_CardinalityType
    <3> HIDE DEF T
    <3> QED BY <3>1
  <2>3. ASSUME NEW m \in S PROVE next[m] \in T
    BY <1>1, <1>2, <1>4
  <2>4. f \in [S -> T]
    BY <2>3
  <2> HIDE DEF T
  <2>5. PICK x, y \in S : x # y /\ next[x] = next[y]
    <3> HIDE DEF f
    <3>1. \E x, y \in S : x # y /\ f[x] = f[y]
      BY ONLY <2>1, <2>2, <2>4, FS_PigeonHole
    <3> QED BY <3>1 DEF f
  <2> QED BY <1>1, <1>2, <2>5
<1> QED BY <1>2, <1>3, <1>4, <1>5 DEF S

(* What the operations do to the colours: an entry takes that of the ring  *)
(* it comes into, and keeps its own when it leaves.                        *)
LEMMA AddColours ==
    ASSUME NodesAssumption, NEW dead \in SUBSET Heads, NEW l, WellLinked(l, dead),
           NEW c, Coloured(c, l.next, dead),
           NEW e \in Entries, l.next[e] = e,
           NEW x \in Nodes \ dead, x # e,
           NEW y \in Nodes \ dead, l.next[x] = y
    PROVE  \E k : Coloured(k, __list_add(l, e, x, y).next, dead)
<1> DEFINE k == [c EXCEPT ![e] = c[x]]
           f == [l.next EXCEPT ![e] = y, ![x] = e]
<1>1. /\ e \in Nodes \ dead /\ e \notin Heads
      /\ l.next \in [Nodes -> Nodes] /\ c \in [Nodes -> Nodes] /\ c[y] = c[x] /\ y # e
      /\ \A n \in Nodes \ dead : c[l.next[n]] = c[n] /\ l.prev[l.next[n]] = n
  BY DEF NodesAssumption, Nodes, WellLinked, Coloured
<1>2. \A n \in Nodes : k[n] = IF n = e THEN c[x] ELSE c[n]
  BY <1>1
<1>3. \A n \in Nodes : f[n] = IF n = x THEN e ELSE IF n = e THEN y ELSE l.next[n]
  BY <1>1
<1>4. k \in [Nodes -> Nodes]
  BY <1>1
<1> HIDE DEF k, f
<1>5. ASSUME NEW n \in Nodes \ dead PROVE k[f[n]] = k[n]
  <2>1. CASE n = x
    BY <1>1, <1>2, <1>3, <2>1
  <2>2. CASE n = e
    BY <1>1, <1>2, <1>3, <2>2
  <2>3. CASE n # x /\ n # e
    <3>1. f[n] = l.next[n] /\ l.next[n] # e /\ l.next[n] \in Nodes
      BY <1>1, <1>3, <2>3
    <3> QED BY <1>1, <1>2, <2>3, <3>1
  <2> QED BY <2>1, <2>2, <2>3
<1>6. \A h \in Heads \ dead : k[h] = h
  BY <1>1, <1>2 DEF Coloured, Nodes
<1>7. Coloured(k, f, dead)
  BY <1>4, <1>5, <1>6 DEF Coloured
<1>8. __list_add(l, e, x, y).next = f
  BY DEF __list_add, f
<1> QED BY <1>7, <1>8

LEMMA UnlinkColours ==
    ASSUME NEW dead \in SUBSET Nodes, NEW l, WellLinked(l, dead),
           NEW c, Coloured(c, l.next, dead),
           NEW e \in Nodes \ dead,
           NEW m, m = INIT_LIST_HEAD(Unlink(l, e), e)
    PROVE  Coloured(c, m.next, dead)
<1>1. /\ m.next[e] = e
      /\ \A n \in Nodes \ {e} :
            m.next[n] = IF n = l.prev[e] THEN l.next[e] ELSE l.next[n]
  <2>1. l.next \in [Nodes -> Nodes] /\ l.prev \in [Nodes -> Nodes]
    BY DEF WellLinked
  <2>2. m.next = [[l.next EXCEPT ![l.prev[e]] = l.next[e]] EXCEPT ![e] = e]
    BY DEF INIT_LIST_HEAD, Unlink, __list_del
  <2> QED BY <2>1, <2>2
<1>2. /\ c[l.next[e]] = c[e] /\ l.next[l.prev[e]] = e
      /\ \A n \in Nodes \ dead : c[l.next[n]] = c[n]
  BY DEF WellLinked, Coloured
<1>3. ASSUME NEW n \in Nodes \ dead PROVE c[m.next[n]] = c[n]
  BY <1>1, <1>2
<1> QED BY <1>3 DEF Coloured

LEMMA InitColours ==
    ASSUME NEW dead \in SUBSET Heads, NEW l, WellLinked(l, dead),
           NEW c, Coloured(c, l.next, dead),
           NEW h \in dead
    PROVE  \E k : Coloured(k, INIT_LIST_HEAD(l, h).next, dead \ {h})
<1> DEFINE k == [c EXCEPT ![h] = h]
           f == [l.next EXCEPT ![h] = h]
<1>1. /\ h \in Nodes /\ l.next \in [Nodes -> Nodes] /\ c \in [Nodes -> Nodes]
      /\ \A n \in Nodes \ dead : c[l.next[n]] = c[n] /\ l.next[n] \notin dead
  BY DEF Nodes, WellLinked, Coloured
<1>2. k \in [Nodes -> Nodes]
  BY <1>1
<1>3. ASSUME NEW n \in Nodes \ (dead \ {h}) PROVE k[f[n]] = k[n]
  BY <1>1
<1>4. \A x \in Heads \ (dead \ {h}) : k[x] = x
  BY <1>1 DEF Coloured, Nodes
<1>5. INIT_LIST_HEAD(l, h).next = f
  BY DEF INIT_LIST_HEAD
<1> HIDE DEF k, f
<1>6. Coloured(k, f, dead \ {h})
  BY <1>2, <1>3, <1>4 DEF Coloured
<1> QED BY <1>5, <1>6

-----------------------------------------------------------------------------
(* Every operation keeps the invariant.                                    *)

LEMMA RelinkInv ==
    ASSUME NEW l, Relink(l), stale' \subseteq Heads,
           WellLinked(l, stale'), \E c : Coloured(c, l.next, stale')
    PROVE  DInv'
<1>1. next' = l.next /\ prev' = l.prev
  BY DEF Relink
<1>2. WellLinked(Links, stale)'
  BY <1>1 DEF WellLinked, Links
<1>3. \E c : Coloured(c, next', stale')
  BY <1>1
<1> QED BY <1>2, <1>3 DEF DInv, Coloured

(* A loose entry before or after a node that is in a list.                 *)
LEMMA AddInv ==
    ASSUME NodesAssumption, DInv, NEW e \in Loose, NEW x \in Linked, UNCHANGED stale,
           \/ Relink(__list_add(Links, e, prev[x], x))
           \/ Relink(__list_add(Links, e, x, next[x]))
    PROVE  DInv'
<1>1. /\ e \in Entries /\ e \in Nodes \ stale /\ next[e] = e
      /\ x \in Nodes \ stale
      /\ stale \in SUBSET Nodes /\ stale \in SUBSET Heads
  BY DEF Loose, Linked, Usable, Nodes, NodesAssumption, DInv
<1>2. WellLinked(Links, stale) /\ Links.next = next /\ Links.prev = prev
  BY DEF DInv, Links
<1>3. PICK c : Coloured(c, next, stale)
  BY DEF DInv
<1>4. x # e
  BY <1>1, <1>2 DEF Loose, Linked, NodesAssumption, Usable
<1>5. /\ prev[x] \in Nodes \ stale /\ next[x] \in Nodes \ stale /\ next[prev[x]] = x
      /\ prev[x] # e
  BY <1>1, <1>2, <1>4 DEF WellLinked
<1>6. CASE Relink(__list_add(Links, e, prev[x], x))
  <2>1. WellLinked(__list_add(Links, e, prev[x], x), stale)
    BY <1>1, <1>2, <1>4, <1>5, AddKeeps
  <2>2. \E k : Coloured(k, __list_add(Links, e, prev[x], x).next, stale)
    BY <1>1, <1>2, <1>3, <1>4, <1>5, AddColours
  <2> QED BY <1>1, <1>6, <2>1, <2>2, RelinkInv
<1>7. CASE Relink(__list_add(Links, e, x, next[x]))
  <2>1. WellLinked(__list_add(Links, e, x, next[x]), stale)
    BY <1>1, <1>2, <1>4, <1>5, AddKeeps
  <2>2. \E k : Coloured(k, __list_add(Links, e, x, next[x]).next, stale)
    BY <1>1, <1>2, <1>3, <1>4, <1>5, AddColours
  <2> QED BY <1>1, <1>7, <2>1, <2>2, RelinkInv
<1> QED BY <1>6, <1>7

(* A node out of its list.                                                 *)
LEMMA UnlinkInv ==
    ASSUME DInv, NEW x \in Nodes \ stale, UNCHANGED stale,
           Relink(INIT_LIST_HEAD(Unlink(Links, x), x))
    PROVE  DInv'
<1> DEFINE m == INIT_LIST_HEAD(Unlink(Links, x), x)
<1>1. /\ WellLinked(Links, stale) /\ Links.next = next /\ Links.prev = prev
      /\ stale \in SUBSET Nodes /\ stale \in SUBSET Heads
  BY DEF DInv, Links, Nodes
<1>2. PICK c : Coloured(c, Links.next, stale)
  BY <1>1 DEF DInv
<1>3. m = INIT_LIST_HEAD(Unlink(Links, x), x) /\ Relink(m)
  OBVIOUS
<1> HIDE DEF m
<1>4. WellLinked(m, stale)
  BY ONLY <1>1, <1>3, x \in Nodes \ stale, UnlinkKeeps
<1>5. Coloured(c, m.next, stale)
  BY ONLY <1>1, <1>2, <1>3, x \in Nodes \ stale, UnlinkColours
<1> QED BY <1>1, <1>3, <1>4, <1>5, RelinkInv

(* An entry, wherever it is, to one end of a list.                         *)
LEMMA MoveInv ==
    ASSUME NodesAssumption, DInv, NEW e \in Entries, NEW head \in Usable, UNCHANGED stale,
           LET l == Unlink(Links, e) IN
           \/ Relink(__list_add(l, e, head, l.next[head]))
           \/ Relink(__list_add(l, e, l.prev[head], head))
    PROVE  DInv'
<1> DEFINE w == Unlink(Links, e)
           u == INIT_LIST_HEAD(w, e)
<1>1. /\ WellLinked(Links, stale) /\ Links.next = next /\ Links.prev = prev
      /\ stale \in SUBSET Nodes /\ stale \in SUBSET Heads
      /\ e \in Nodes \ stale /\ head \in Nodes \ stale /\ head # e
  BY DEF DInv, Links, Nodes, Usable, NodesAssumption
<1>2. PICK c : Coloured(c, Links.next, stale)
  BY <1>1 DEF DInv
<1>3. u = INIT_LIST_HEAD(Unlink(Links, e), e)
  OBVIOUS
<1>4. w.next \in [Nodes -> Nodes] /\ w.prev \in [Nodes -> Nodes]
  BY <1>1 DEF Unlink, __list_del, WellLinked
<1>5. u.next[head] = w.next[head] /\ u.prev[head] = w.prev[head]
  <2> HIDE DEF w
  <2> QED BY <1>1, <1>4 DEF INIT_LIST_HEAD
<1>6. \/ Relink(__list_add(w, e, head, w.next[head]))
      \/ Relink(__list_add(w, e, w.prev[head], head))
  OBVIOUS
<1> HIDE DEF u
<1>7. WellLinked(u, stale) /\ u.next[e] = e
  BY ONLY <1>1, <1>3, UnlinkKeeps
<1>8. Coloured(c, u.next, stale)
  BY ONLY <1>1, <1>2, <1>3, UnlinkColours
<1>9. /\ u.next[head] \in Nodes \ stale /\ u.prev[head] \in Nodes \ stale
      /\ u.next[head] # e /\ u.prev[head] # e
      /\ u.next[u.prev[head]] = head
  BY <1>1, <1>7 DEF WellLinked
<1>10. ASSUME NEW x \in Nodes \ stale, NEW y \in Nodes \ stale,
              x # e, y # e, u.next[x] = y, Relink(__list_add(w, e, x, y))
       PROVE  DInv'
  <2>1. /\ __list_add(w, e, x, y) = __list_add(u, e, x, y)
        /\ WellLinked(__list_add(u, e, x, y), stale)
    BY <1>1, <1>3, <1>10, MoveKeeps
  <2> HIDE DEF w
  <2>2. \E k : Coloured(k, __list_add(u, e, x, y).next, stale)
    BY <1>1, <1>7, <1>8, <1>10, AddColours
  <2> QED BY <1>1, <1>10, <2>1, <2>2, RelinkInv
<1> HIDE DEF w
<1> QED BY <1>1, <1>5, <1>6, <1>9, <1>10

(* The whole ring turned round.                                            *)
LEMMA ReverseInv ==
    ASSUME NodesAssumption, DInv, NEW head \in Heads, list_reverse(head)
    PROVE  DInv'
<1> DEFINE S == Ring(head)
<1>1. /\ WellLinked(Links, stale) /\ stale \subseteq Heads
      /\ head \in Nodes \ stale /\ stale' = stale
      /\ next \in [Nodes -> Nodes] /\ prev \in [Nodes -> Nodes]
      /\ \A n \in Nodes \ stale :
            /\ prev[next[n]] = n /\ next[prev[n]] = n
            /\ next[n] \notin stale /\ prev[n] \notin stale
  BY DEF DInv, list_reverse, Usable, Nodes, WellLinked, Links
<1>2. /\ S \subseteq Nodes \ stale
      /\ \A n \in S : next[n] \in S /\ prev[n] \in S
  BY <1>1, RingCloses
<1>3. /\ next' = [n \in Nodes |-> IF n \in S THEN prev[n] ELSE next[n]]
      /\ prev' = [n \in Nodes |-> IF n \in S THEN next[n] ELSE prev[n]]
  BY DEF list_reverse
<1> HIDE DEF S
<1>4. ASSUME NEW n \in Nodes \ stale, n \notin S PROVE next[n] \notin S /\ prev[n] \notin S
  BY <1>1, <1>2, <1>4
<1>5. next' \in [Nodes -> Nodes] /\ prev' \in [Nodes -> Nodes]
  BY <1>1, <1>3
<1>6. ASSUME NEW n \in Nodes \ stale
      PROVE  /\ prev'[next'[n]] = n /\ next'[prev'[n]] = n
             /\ next'[n] \notin stale /\ prev'[n] \notin stale
  <2>1. CASE n \in S
    BY <1>1, <1>2, <1>3, <2>1
  <2>2. CASE n \notin S
    BY <1>1, <1>3, <1>4, <2>2
  <2> QED BY <2>1, <2>2
<1>7. WellLinked(Links, stale)'
  BY <1>1, <1>5, <1>6 DEF WellLinked, Links
<1>8. PICK c : Coloured(c, next, stale)
  BY DEF DInv
<1>9. Coloured(c, next', stale')
  <2>1. ASSUME NEW n \in Nodes \ stale PROVE c[next'[n]] = c[n]
    <3>1. c[next[n]] = c[n] /\ c[next[prev[n]]] = c[prev[n]] /\ next[prev[n]] = n
      BY <1>1, <1>8 DEF Coloured
    <3>2. next'[n] \in {prev[n], next[n]}
      BY <1>3
    <3> QED BY <3>1, <3>2
  <2> QED BY <1>1, <1>8, <2>1 DEF Coloured
<1>10. \E k : Coloured(k, next', stale')
  BY <1>9
<1> QED BY <1>1, <1>7, <1>10 DEF DInv, Coloured

(* One list's entries to the front of another.                             *)
LEMMA SpliceInv ==
    ASSUME DInv, NEW from \in Usable, NEW head \in Usable, from # head, ~list_empty(from),
           \/ /\ Relink(__list_splice(Links, from, head))
              /\ stale' = stale \cup {from}
           \/ /\ Relink(INIT_LIST_HEAD(__list_splice(Links, from, head), from))
              /\ stale' = stale
    PROVE  DInv'
<1> DEFINE m == __list_splice(Links, from, head)
           dead == stale \cup {from}
<1>1. /\ WellLinked(Links, stale) /\ Links.next = next /\ Links.prev = prev
      /\ stale \in SUBSET Nodes /\ stale \in SUBSET Heads
      /\ from \in Heads \ stale /\ head \in Heads \ stale /\ next[from] # from
  BY DEF DInv, Links, Nodes, Usable, list_empty
<1>2. PICK c : Coloured(c, Links.next, stale)
  BY <1>1 DEF DInv
<1>3. /\ \/ Relink(m) /\ stale' = dead
         \/ Relink(INIT_LIST_HEAD(m, from)) /\ stale' = stale
      /\ m = __list_splice(Links, from, head)
  OBVIOUS
<1>4. dead \in SUBSET Nodes /\ dead \in SUBSET Heads /\ from \in dead /\ dead \ {from} = stale
  BY <1>1 DEF Nodes
<1> HIDE DEF m
<1>5. WellLinked(m, dead) /\ \E k : Coloured(k, m.next, dead)
  BY <1>1, <1>2, <1>3, SpliceKeeps
<1>6. PICK k : Coloured(k, m.next, dead)
  BY <1>5
<1> HIDE DEF dead
<1>7. CASE Relink(m) /\ stale' = dead
  BY <1>4, <1>5, <1>7, RelinkInv
<1>8. CASE Relink(INIT_LIST_HEAD(m, from)) /\ stale' = stale
  <2>1. WellLinked(INIT_LIST_HEAD(m, from), dead \ {from})
    BY <1>4, <1>5, InitKeeps
  <2>2. \E q : Coloured(q, INIT_LIST_HEAD(m, from).next, dead \ {from})
    BY <1>4, <1>5, <1>6, InitColours
  <2> QED BY <1>1, <1>4, <1>8, <2>1, <2>2, RelinkInv
<1> QED BY <1>3, <1>7, <1>8

LEMMA ReinitInv ==
    ASSUME DInv, NEW head \in Heads, Reinit(head)
    PROVE  DInv'
<1>1. /\ WellLinked(Links, stale) /\ Links.next = next
      /\ stale \in SUBSET Nodes /\ stale \in SUBSET Heads /\ head \in stale
      /\ stale' = stale \ {head} /\ Relink(INIT_LIST_HEAD(Links, head))
  BY DEF DInv, Links, Nodes, Reinit
<1>2. PICK c : Coloured(c, Links.next, stale)
  BY <1>1 DEF DInv
<1>3. WellLinked(INIT_LIST_HEAD(Links, head), stale \ {head})
  BY <1>1, InitKeeps
<1>4. \E k : Coloured(k, INIT_LIST_HEAD(Links, head).next, stale \ {head})
  BY <1>1, <1>2, InitColours
<1> QED BY <1>1, <1>3, <1>4, RelinkInv

LEMMA StepInv == NodesAssumption /\ DInv /\ [Next]_vars => DInv'
<1> SUFFICES ASSUME NodesAssumption, DInv, [Next]_vars PROVE DInv'
  OBVIOUS
<1>1. /\ stale \subseteq Heads
      /\ next \in [Nodes -> Nodes] /\ prev \in [Nodes -> Nodes]
      /\ \A n \in Nodes \ stale : next[n] \in Nodes \ stale /\ prev[n] \in Nodes \ stale
      /\ Usable \subseteq Nodes \ stale /\ Entries \subseteq Nodes \ stale
      /\ Usable \subseteq Linked
      /\ Heads \cap Entries = {}
  BY DEF DInv, WellLinked, Links, Usable, Linked, Nodes, NodesAssumption
<1>2. ASSUME NEW e \in Entries, NEW head \in Heads, list_unshift(e, head) \/ list_push(e, head)
      PROVE  DInv'
  BY <1>1, <1>2, AddInv DEF list_unshift, list_push
<1>3. ASSUME NEW e \in Entries, NEW head \in Heads, list_move(e, head) \/ list_move_tail(e, head)
      PROVE  DInv'
  BY <1>3, MoveInv DEF list_move, list_move_tail
<1>4. ASSUME NEW e \in Entries, NEW x \in Nodes, list_add_before(e, x) \/ list_add_after(e, x)
      PROVE  DInv'
  BY <1>4, AddInv DEF list_add_before, list_add_after
<1>5. ASSUME NEW head \in Heads, list_shift(head) \/ list_pop(head) PROVE DInv'
  BY <1>1, <1>5, UnlinkInv DEF list_shift, list_pop
<1>6. ASSUME NEW head \in Heads, list_reverse(head) \/ Reinit(head) PROVE DInv'
  BY <1>6, ReverseInv, ReinitInv
<1>7. ASSUME NEW e \in Entries, list_del(e) PROVE DInv'
  BY <1>1, <1>7, UnlinkInv DEF list_del
<1>8. ASSUME UNCHANGED vars PROVE DInv'
  BY <1>8 DEF vars, DInv, WellLinked, Links, Coloured
<1>9. ASSUME NEW from \in Heads, NEW head \in Heads,
             list_splice(from, head) \/ list_splice_init(from, head)
      PROVE  DInv'
  BY <1>8, <1>9, SpliceInv DEF list_splice, list_splice_init
<1> QED
  BY <1>2, <1>3, <1>4, <1>5, <1>6, <1>7, <1>8, <1>9 DEF Next

THEOREM Invariance == NodesAssumption => (Spec => []DInv)
<1> SUFFICES ASSUME NodesAssumption PROVE Spec => []DInv
  OBVIOUS
<1>1. Init => DInv
  BY InitInv
<1>2. DInv /\ [Next]_vars => DInv'
  BY StepInv
<1> QED BY <1>1, <1>2, PTL DEF Spec

(* Whatever is called, and however short the lists are, the neighbours of  *)
(* a node know it, and nothing points at a head that list_splice has left. *)
THEOREM NeighboursKnow == NodesAssumption => (Spec => []LinksInverse)
<1>1. DInv => LinksInverse
  BY DInvLinks
<1> QED BY <1>1, Invariance, PTL

(* No ring holds two heads that are in use: an entry is in one list, and   *)
(* a loop over it comes back to the head that it started from.             *)
HeadsApart == \A g, h \in Usable : g # h => g \notin Ring(h)

THEOREM OneHeadPerRing == NodesAssumption => (Spec => []HeadsApart)
<1>1. DInv => HeadsApart
  <2> SUFFICES ASSUME DInv, NEW g \in Usable, NEW h \in Usable, g # h, g \in Ring(h)
               PROVE  FALSE
    BY DEF HeadsApart
  <2>1. PICK c : Coloured(c, next, stale)
    BY DEF DInv
  <2> DEFINE S == {n \in Nodes \ stale : c[n] = h}
  <2>2. h \in S /\ g \notin S
    BY <2>1 DEF Coloured, Usable, Nodes
  <2>3. \A n \in S : next[n] \in S
    BY <2>1 DEF DInv, WellLinked, Links, Coloured
  <2>4. S \in SUBSET Nodes
    OBVIOUS
  <2> HIDE DEF S
  <2> QED BY <2>2, <2>3, <2>4 DEF Ring
<1> QED BY <1>1, Invariance, PTL
-----------------------------------------------------------------------------
(* The lists that the links make.                                          *)

(* The ring of h: h is before the first entry and after the last.          *)
At(ls, h, i) == IF i \in 1..Len(ls[h]) THEN ls[h][i] ELSE h

(* Along f the heads that are not dead have the entries ls, each entry is  *)
(* in one place at most, and one that is in none is a ring of its own.     *)
Threads(f, dead, ls) ==
    /\ ls \in [Heads -> Seq(Entries)]
    /\ \A h \in dead : ls[h] = <<>>
    /\ \A h \in Heads \ dead : \A i \in 0..Len(ls[h]) : f[At(ls, h, i)] = At(ls, h, i + 1)
    /\ \A g, h \in Heads : \A i \in 1..Len(ls[g]), j \in 1..Len(ls[h]) :
          ls[g][i] = ls[h][j] => g = h /\ i = j
    /\ \A e \in Entries : f[e] = e \/ \E h \in Heads : \E i \in 1..Len(ls[h]) : ls[h][i] = e

(* What that says of the places: two of them are the same only if they are *)
(* one.                                                                    *)
Spots(ls, dead) ==
    /\ \A h \in Heads : /\ Len(ls[h]) \in Nat /\ ls[h] \in Seq(Entries)
                        /\ At(ls, h, 0) = h /\ At(ls, h, Len(ls[h]) + 1) = h
    /\ \A h \in Heads : \A i \in 1..Len(ls[h]) :
          At(ls, h, i) = ls[h][i] /\ ls[h][i] \in Entries /\ h \notin dead
    /\ \A h \in Heads : \A i \in Int : At(ls, h, i) \in Nodes
    /\ \A g, h \in Heads : \A i \in 0..Len(ls[g]), j \in 0..Len(ls[h]) :
          At(ls, g, i) = At(ls, h, j) => g = h /\ i = j

(* Places of lists are nodes, and different places different nodes.        *)
LEMMA AtApart ==
    ASSUME NodesAssumption, NEW f, NEW dead \in SUBSET Heads, NEW ls, Threads(f, dead, ls)
    PROVE  Spots(ls, dead)
<1>1. ASSUME NEW h \in Heads
      PROVE  /\ Len(ls[h]) \in Nat /\ ls[h] \in Seq(Entries)
             /\ At(ls, h, 0) = h /\ At(ls, h, Len(ls[h]) + 1) = h
  <2>1. ls[h] \in Seq(Entries)
    BY DEF Threads
  <2>2. Len(ls[h]) \in Nat
    BY <2>1
  <2> QED BY <2>1, <2>2 DEF At
<1>2. ASSUME NEW h \in Heads, NEW i \in 1..Len(ls[h])
      PROVE  At(ls, h, i) = ls[h][i] /\ ls[h][i] \in Entries /\ h \notin dead
  <2>1. h \notin dead
    <3> SUFFICES ASSUME h \in dead PROVE FALSE
      OBVIOUS
    <3>1. ls[h] = <<>>
      BY DEF Threads
    <3> QED BY <3>1
  <2> QED BY <1>1, <2>1 DEF At
<1>3. ASSUME NEW h \in Heads, NEW i \in Int PROVE At(ls, h, i) \in Nodes
  BY <1>2 DEF At, Nodes
<1>4. ASSUME NEW g \in Heads, NEW h \in Heads, NEW i \in 0..Len(ls[g]), NEW j \in 0..Len(ls[h]),
             At(ls, g, i) = At(ls, h, j)
      PROVE  g = h /\ i = j
  <2>1. Heads \cap Entries = {}
    BY DEF NodesAssumption
  <2>2. CASE i = 0
    <3>1. j = 0
      BY <1>1, <1>2, <1>4, <2>1, <2>2
    <3> QED BY <1>1, <1>4, <2>2, <3>1
  <2>3. CASE j = 0
    <3>1. i = 0
      BY <1>1, <1>2, <1>4, <2>1, <2>3
    <3> QED BY <1>1, <1>4, <2>3, <3>1
  <2>4. CASE i # 0 /\ j # 0
    <3>1. i \in 1..Len(ls[g]) /\ j \in 1..Len(ls[h])
      BY <1>1, <2>4
    <3>2. ls[g][i] = ls[h][j]
      BY <1>2, <1>4, <3>1
    <3> QED BY <3>1, <3>2 DEF Threads
  <2> QED BY <2>2, <2>3, <2>4
<1> QED BY <1>1, <1>2, <1>3, <1>4 DEF Spots

(* An entry that is in a list does not point at itself.                    *)
LEMMA ListedPoints ==
    ASSUME NodesAssumption, NEW f, NEW dead \in SUBSET Heads, NEW ls, Threads(f, dead, ls),
           NEW h \in Heads, NEW i \in 1..Len(ls[h])
    PROVE  f[ls[h][i]] # ls[h][i]
<1>0. Spots(ls, dead)
  BY AtApart
<1>1. Len(ls[h]) \in Nat /\ h \notin dead /\ At(ls, h, i) = ls[h][i] /\ ls[h][i] \in Entries
  BY <1>0 DEF Spots
<1>2. f[At(ls, h, i)] = At(ls, h, i + 1)
  BY <1>1 DEF Threads
<1>3. CASE i = Len(ls[h])
  <2>1. At(ls, h, i + 1) = h
    BY <1>0, <1>3 DEF Spots
  <2> QED BY <1>1, <1>2, <2>1 DEF NodesAssumption
<1>4. CASE i < Len(ls[h])
  <2>1. i \in 0..Len(ls[h]) /\ i + 1 \in 0..Len(ls[h]) /\ i # i + 1
    BY <1>1, <1>4
  <2>2. At(ls, h, i) # At(ls, h, i + 1)
    BY <1>0, <2>1 DEF Spots
  <2> QED BY <1>1, <1>2, <2>2
<1> QED BY <1>1, <1>3, <1>4

(* InsertAt and RemoveAt of SequencesExt, entry by entry.                  *)
LEMMA Placed ==
    ASSUME NEW S, NEW s \in Seq(S), NEW n \in S, NEW k \in 1..Len(s) + 1, NEW M,
           M = L!InsertAt(s, k, n)
    PROVE  /\ M \in Seq(S) /\ Len(M) = Len(s) + 1
           /\ \A i \in 1..Len(M) :
                 M[i] = IF i < k THEN s[i] ELSE IF i = k THEN n ELSE s[i - 1]
<1> DEFINE A == SubSeq(s, 1, k - 1)
           B == SubSeq(s, k, Len(s))
<1>1. Len(s) \in Nat /\ k \in Int /\ k - 1 \in Int /\ M = (A \o <<n>>) \o B
  BY DEF L!InsertAt
<1>2. A \in Seq(S) /\ Len(A) = k - 1 /\ \A i \in 1..k - 1 : A[i] = s[i]
  OBVIOUS
<1>3. B \in Seq(S) /\ Len(B) = Len(s) + 1 - k /\ \A i \in 1..Len(s) + 1 - k : B[i] = s[k + i - 1]
  OBVIOUS
<1> HIDE DEF A, B
<1>4. /\ A \o <<n>> \in Seq(S) /\ Len(A \o <<n>>) = k
      /\ \A i \in 1..k : (A \o <<n>>)[i] = IF i < k THEN s[i] ELSE n
  BY <1>2
<1> DEFINE C == A \o <<n>>
<1> HIDE DEF C
<1>5. M \in Seq(S) /\ Len(M) = Len(s) + 1
  <2>1. M = C \o B /\ C \in Seq(S) /\ Len(C) = k /\ B \in Seq(S) /\ Len(B) = Len(s) + 1 - k
    BY <1>1, <1>3, <1>4 DEF C
  <2>2. M \in Seq(S) /\ Len(M) = Len(C) + Len(B)
    BY <2>1
  <2> QED BY <1>1, <2>1, <2>2
<1>6. ASSUME NEW i \in 1..Len(M)
      PROVE  M[i] = IF i < k THEN s[i] ELSE IF i = k THEN n ELSE s[i - 1]
  <2>1. CASE i <= k
    BY <1>1, <1>3, <1>4, <1>5, <2>1 DEF C
  <2>2. CASE i > k
    <3>1. i - k \in 1..Len(B) /\ k + (i - k) - 1 = i - 1
      BY <1>1, <1>3, <1>5, <2>2
    <3>2. M[i] = B[i - k]
      BY <1>1, <1>3, <1>4, <1>5, <2>2 DEF C
    <3> QED BY <1>3, <2>2, <3>1, <3>2
  <2> QED BY <1>1, <2>1, <2>2
<1> QED BY <1>5, <1>6

(* What RemoveAt leaves: the elements before k, and those after it one     *)
(* place down.                                                             *)
LEMMA Dropped ==
    ASSUME NEW S, NEW s \in Seq(S), NEW k \in 1..Len(s), NEW M, M = L!RemoveAt(s, k)
    PROVE  /\ M \in Seq(S) /\ Len(M) = Len(s) - 1
           /\ \A i \in 1..Len(M) : M[i] = IF i < k THEN s[i] ELSE s[i + 1]
<1> DEFINE A == SubSeq(s, 1, k - 1)
           B == SubSeq(s, k + 1, Len(s))
<1>1. Len(s) \in Nat /\ k \in Int /\ k - 1 \in Int /\ M = A \o B
  BY DEF L!RemoveAt
<1>2. A \in Seq(S) /\ Len(A) = k - 1 /\ \A i \in 1..k - 1 : A[i] = s[i]
  OBVIOUS
<1>3. B \in Seq(S) /\ Len(B) = Len(s) - k /\ \A i \in 1..Len(s) - k : B[i] = s[k + i]
  OBVIOUS
<1> HIDE DEF A, B
<1>4. M \in Seq(S) /\ Len(M) = Len(s) - 1
  BY <1>1, <1>2, <1>3
<1>5. ASSUME NEW i \in 1..Len(M) PROVE M[i] = IF i < k THEN s[i] ELSE s[i + 1]
  <2>1. CASE i < k
    BY <1>1, <1>2, <1>3, <1>4, <2>1
  <2>2. CASE i >= k
    <3>1. i - (k - 1) \in 1..Len(B) /\ k + (i - (k - 1)) = i + 1
      BY <1>1, <1>3, <1>4, <2>2, SMTT(30)
    <3>2. M[i] = B[i - (k - 1)]
      BY <1>1, <1>2, <1>3, <1>4, <2>2
    <3> QED BY <1>3, <2>2, <3>1, <3>2, SMTT(30)
  <2> QED BY <1>1, <2>1, <2>2
<1> QED BY <1>4, <1>5

(* An entry that is in no list goes to place k of the list of h.           *)
LEMMA PutThreads ==
    ASSUME NodesAssumption, NEW dead \in SUBSET Heads, NEW f \in [Nodes -> Nodes],
           NEW ls, Threads(f, dead, ls),
           NEW h \in Heads \ dead, NEW k \in 1..Len(ls[h]) + 1, NEW e \in Entries, f[e] = e,
           NEW m, m = [f EXCEPT ![e] = At(ls, h, k), ![At(ls, h, k - 1)] = e]
    PROVE  Threads(m, dead, [ls EXCEPT ![h] = L!InsertAt(ls[h], k, e)])
<1> DEFINE s == L!InsertAt(ls[h], k, e)
           new == [ls EXCEPT ![h] = s]
           before == At(ls, h, k - 1)
<1>1. Spots(ls, dead) /\ ls \in [Heads -> Seq(Entries)] /\ e \in Nodes /\ h \in Heads
  <2>1. Spots(ls, dead)
    BY AtApart
  <2> QED BY <2>1 DEF Threads, Nodes
<1>2. /\ Len(ls[h]) \in Nat /\ k \in Int /\ k - 1 \in 0..Len(ls[h])
      /\ before \in Nodes /\ At(ls, h, k) \in Nodes
  BY <1>1 DEF Spots
<1>3. /\ s \in Seq(Entries) /\ Len(s) = Len(ls[h]) + 1
      /\ \A i \in 1..Len(s) : s[i] = IF i < k THEN ls[h][i] ELSE IF i = k THEN e ELSE ls[h][i - 1]
  <2>1. ls[h] \in Seq(Entries) /\ s = L!InsertAt(ls[h], k, e)
    BY <1>1
  <2> HIDE DEF s
  <2> QED BY ONLY <2>1, e \in Entries, k \in 1..Len(ls[h]) + 1, Placed
<1> HIDE DEF s
<1>4. new \in [Heads -> Seq(Entries)] /\ new[h] = s /\ \A g \in Heads : g # h => new[g] = ls[g]
  BY <1>1, <1>3
<1> HIDE DEF new
<1>5. ASSUME NEW g \in Heads, NEW i \in 0..Len(ls[g]) PROVE At(ls, g, i) # e
  <2>1. CASE i = 0
    BY <1>1, <2>1 DEF Spots, NodesAssumption
  <2>2. CASE i # 0
    <3>1. i \in 1..Len(ls[g]) /\ Len(ls[g]) \in Nat
      BY <1>1, <2>2 DEF Spots
    <3>2. f[ls[g][i]] # ls[g][i]
      BY <3>1, ListedPoints
    <3> QED BY <1>1, <3>1, <3>2 DEF Spots
  <2> QED BY <2>1, <2>2
<1>6. \A n \in Nodes : m[n] = IF n = before THEN e ELSE IF n = e THEN At(ls, h, k) ELSE f[n]
  BY <1>1, <1>2
<1>7. before # e
  BY <1>2, <1>5
<1>8. ASSUME NEW g \in Heads, NEW i \in Int
      PROVE  At(new, g, i) = IF g # h THEN At(ls, g, i)
                             ELSE IF i < k THEN At(ls, h, i)
                             ELSE IF i = k THEN e ELSE At(ls, h, i - 1)
  <2>1. CASE g # h
    BY <1>4, <2>1 DEF At
  <2>2. CASE g = h /\ i < k
    BY <1>2, <1>3, <1>4, <2>2 DEF At
  <2>3. CASE g = h /\ i = k
    BY <1>2, <1>3, <1>4, <2>3 DEF At
  <2>4. CASE g = h /\ i > k
    BY <1>2, <1>3, <1>4, <2>4 DEF At
  <2> QED BY <1>2, <2>1, <2>2, <2>3, <2>4
<1> HIDE DEF before
<1>9. \A g \in dead : new[g] = <<>>
  BY <1>4 DEF Threads
<1>10. ASSUME NEW g \in Heads \ dead, NEW i \in 0..Len(new[g])
       PROVE  m[At(new, g, i)] = At(new, g, i + 1)
  <2>1. \A j \in 0..Len(ls[g]) : f[At(ls, g, j)] = At(ls, g, j + 1) /\ At(ls, g, j) \in Nodes
    BY <1>1 DEF Threads, Spots
  <2>2. CASE g # h
    <3>1. i \in 0..Len(ls[g]) /\ i + 1 \in Int
      BY <1>4, <2>2
    <3>2. At(ls, g, i) # before /\ At(ls, g, i) # e
      BY <1>1, <1>2, <1>5, <2>2, <3>1 DEF Spots, before
    <3> QED BY <1>6, <1>8, <2>1, <2>2, <3>1, <3>2
  <2>3. CASE g = h
    <3>1. i \in 0..Len(ls[h]) + 1 /\ i + 1 \in Int
      BY <1>2, <1>3, <1>4, <2>3
    <3>2. \A j \in 0..Len(ls[h]) : j # k - 1 => At(ls, h, j) # before /\ At(ls, h, j) # e
      BY <1>1, <1>2, <1>5 DEF Spots, before
    <3>3. CASE i < k - 1
      <4>1. i \in 0..Len(ls[h]) /\ i < k /\ i + 1 < k /\ i # k - 1
        BY <1>2, <3>1, <3>3
      <4> QED BY <1>6, <1>8, <2>1, <2>3, <3>1, <3>2, <4>1
    <3>4. CASE i = k - 1
      <4>1. i < k /\ i + 1 = k
        BY <1>2, <3>4
      <4> QED BY <1>2, <1>6, <1>8, <2>3, <3>1, <3>4, <4>1 DEF before
    <3>5. CASE i = k
      <4>1. k + 1 \in Int /\ ~(k + 1 < k) /\ k + 1 # k /\ k + 1 - 1 = k /\ ~(k < k)
        BY <1>2
      <4> QED BY <1>1, <1>2, <1>6, <1>7, <1>8, <2>3, <3>5, <4>1
    <3>6. CASE i > k
      <4>1. /\ i - 1 \in 0..Len(ls[h]) /\ i - 1 # k - 1 /\ ~(i < k) /\ i # k
            /\ ~(i + 1 < k) /\ i + 1 # k /\ i + 1 - 1 = i - 1 + 1
        BY <1>2, <3>1, <3>6
      <4> QED BY <1>6, <1>8, <2>1, <2>3, <3>1, <3>2, <4>1
    <3> QED BY <1>2, <3>1, <3>3, <3>4, <3>5, <3>6
  <2> QED BY <2>2, <2>3
<1>11. ASSUME NEW g \in Heads, NEW q \in Heads, NEW i \in 1..Len(new[g]), NEW j \in 1..Len(new[q]),
              new[g][i] = new[q][j]
       PROVE  g = q /\ i = j
  <2>1. /\ \A r \in Heads : \A c \in 1..Len(ls[r]) : ls[r][c] # e
        /\ \A r, t \in Heads : \A c \in 1..Len(ls[r]), d \in 1..Len(ls[t]) :
              ls[r][c] = ls[t][d] => r = t /\ c = d
    <3>1. ASSUME NEW r \in Heads, NEW c \in 1..Len(ls[r]) PROVE ls[r][c] # e
      BY ListedPoints
    <3> QED BY <3>1 DEF Threads
  <2> DEFINE Old(r, c) == IF r # h \/ c < k THEN c ELSE c - 1
  <2>2. ASSUME NEW r \in Heads, NEW c \in 1..Len(new[r]), ~(r = h /\ c = k)
        PROVE  Old(r, c) \in 1..Len(ls[r]) /\ new[r][c] = ls[r][Old(r, c)]
    <3>1. CASE r # h
      BY <1>4, <3>1
    <3>2. CASE r = h
      BY <1>2, <1>3, <1>4, <2>2, <3>2, SMTT(30)
    <3> QED BY <3>1, <3>2
  <2>3. h \in Heads /\ (k \in 1..Len(new[h]) => new[h][k] = e) /\ i \in Int /\ j \in Int
    BY <1>1, <1>2, <1>3, <1>4
  <2>4. CASE g = h /\ i = k
    <3> SUFFICES ASSUME ~(q = h /\ j = k) PROVE FALSE
      BY <2>4
    <3>1. Old(q, j) \in 1..Len(ls[q]) /\ new[q][j] = ls[q][Old(q, j)]
      BY <2>2
    <3> HIDE DEF Old
    <3> QED BY <1>11, <2>1, <2>3, <2>4, <3>1
  <2>5. CASE q = h /\ j = k
    <3> SUFFICES ASSUME ~(g = h /\ i = k) PROVE FALSE
      BY <2>5
    <3>1. Old(g, i) \in 1..Len(ls[g]) /\ new[g][i] = ls[g][Old(g, i)]
      BY <2>2
    <3> HIDE DEF Old
    <3> QED BY <1>11, <2>1, <2>3, <2>5, <3>1
  <2>6. CASE ~(g = h /\ i = k) /\ ~(q = h /\ j = k)
    <3>1. /\ Old(g, i) \in 1..Len(ls[g]) /\ new[g][i] = ls[g][Old(g, i)]
          /\ Old(q, j) \in 1..Len(ls[q]) /\ new[q][j] = ls[q][Old(q, j)]
      BY <2>2, <2>6
    <3> HIDE DEF Old
    <3>2. g = q /\ Old(g, i) = Old(q, j)
      <4>1. ls[g][Old(g, i)] = ls[q][Old(q, j)]
        BY <1>11, <3>1
      <4> DEFINE a == Old(g, i)
                 b == Old(q, j)
      <4>2. a \in 1..Len(ls[g]) /\ b \in 1..Len(ls[q]) /\ ls[g][a] = ls[q][b]
        BY <3>1, <4>1
      <4> HIDE DEF a, b
      <4>3. g = q /\ a = b
        BY <2>1, <4>2
      <4> QED BY <4>3 DEF a, b
    <3>3. g # h => Old(g, i) = i /\ Old(q, j) = j
      BY <3>2 DEF Old
    <3>4. g = h => i # k /\ j # k
      BY <2>6, <3>2
    <3>5. CASE g = h
      BY <1>2, <2>3, <3>2, <3>4, <3>5 DEF Old
    <3> QED BY <3>2, <3>3, <3>5
  <2> QED BY <2>4, <2>5, <2>6
<1>12. ASSUME NEW x \in Entries, m[x] # x
       PROVE  \E g \in Heads : \E i \in 1..Len(new[g]) : new[g][i] = x
  <2>1. CASE x = e
    BY <1>1, <1>2, <1>3, <1>4, <2>1
  <2>2. CASE x # e
    <3>1. PICK g \in Heads : \E i \in 1..Len(ls[g]) : ls[g][i] = x
      <4>1. CASE f[x] = x
        <5>1. x = before
          BY <1>6, <1>12, <2>2, <4>1 DEF Nodes
        <5>2. k - 1 \in 1..Len(ls[h])
          BY <1>1, <1>2, <5>1 DEF before, Spots, NodesAssumption
        <5> QED BY <1>1, <5>1, <5>2 DEF before, Spots
      <4>2. CASE f[x] # x
        BY <4>2 DEF Threads
      <4> QED BY <4>1, <4>2
    <3>2. PICK i \in 1..Len(ls[g]) : ls[g][i] = x
      BY <3>1
    <3>3. CASE g # h
      BY <1>4, <3>2, <3>3
    <3>4. CASE g = h /\ i < k
      <4>1. i \in 1..Len(new[h]) /\ new[h][i] = x
        BY <1>2, <1>3, <1>4, <3>2, <3>4
      <4> QED BY <1>1, <4>1
    <3>5. CASE g = h /\ i >= k
      <4>1. i + 1 \in 1..Len(new[h]) /\ i + 1 > k /\ i + 1 - 1 = i
        BY <1>2, <1>3, <1>4, <3>2, <3>5
      <4>2. new[h][i + 1] = x
        BY <1>2, <1>3, <1>4, <3>2, <3>5, <4>1
      <4> QED BY <1>1, <4>1, <4>2
    <3> QED BY <1>2, <3>3, <3>4, <3>5
  <2> QED BY <2>1, <2>2
<1> QED BY <1>4, <1>9, <1>10, <1>11, <1>12 DEF Threads, new, s

(* An entry leaves place k of the list of h.                               *)
LEMMA DropThreads ==
    ASSUME NodesAssumption, NEW dead \in SUBSET Heads, NEW f \in [Nodes -> Nodes],
           NEW ls, Threads(f, dead, ls),
           NEW h \in Heads, NEW k \in 1..Len(ls[h]), NEW e, e = ls[h][k],
           NEW m, m = [[f EXCEPT ![At(ls, h, k - 1)] = At(ls, h, k + 1)] EXCEPT ![e] = e]
    PROVE  Threads(m, dead, [ls EXCEPT ![h] = L!RemoveAt(ls[h], k)])
<1> DEFINE s == L!RemoveAt(ls[h], k)
           new == [ls EXCEPT ![h] = s]
           before == At(ls, h, k - 1)
           Old(g, i) == IF g # h \/ i < k THEN i ELSE i + 1
<1>1. Spots(ls, dead) /\ ls \in [Heads -> Seq(Entries)]
  <2>1. Spots(ls, dead)
    BY AtApart
  <2> QED BY <2>1 DEF Threads
<1>2. /\ Len(ls[h]) \in Nat /\ k \in Int /\ k - 1 \in 0..Len(ls[h]) /\ k \in 0..Len(ls[h])
      /\ k - 1 # k /\ before \in Nodes /\ At(ls, h, k + 1) \in Nodes
      /\ e \in Nodes /\ e = At(ls, h, k) /\ h \notin dead
  BY <1>1 DEF Spots
<1>3. /\ s \in Seq(Entries) /\ Len(s) = Len(ls[h]) - 1
      /\ \A i \in 1..Len(s) : s[i] = IF i < k THEN ls[h][i] ELSE ls[h][i + 1]
  <2>1. ls[h] \in Seq(Entries) /\ s = L!RemoveAt(ls[h], k)
    BY <1>1
  <2> HIDE DEF s
  <2> QED BY ONLY <2>1, k \in 1..Len(ls[h]), Dropped
<1> HIDE DEF s
<1>4. new \in [Heads -> Seq(Entries)] /\ new[h] = s /\ \A g \in Heads : g # h => new[g] = ls[g]
  BY <1>1, <1>3
<1> HIDE DEF new
<1>5. \A n \in Nodes : m[n] = IF n = e THEN e ELSE IF n = before THEN At(ls, h, k + 1) ELSE f[n]
  BY <1>2
<1>6. \A g \in Heads : \A i \in 0..Len(ls[g]) :
         /\ At(ls, g, i) = before => g = h /\ i = k - 1
         /\ At(ls, g, i) = e => g = h /\ i = k
  BY <1>1, <1>2 DEF Spots
<1> HIDE DEF before
<1>7. ASSUME NEW g \in Heads, NEW i \in Int
      PROVE  At(new, g, i) = At(ls, g, Old(g, i))
  <2>1. CASE g # h
    BY <1>4, <2>1 DEF At
  <2>2. CASE g = h /\ i < k
    BY <1>2, <1>3, <1>4, <2>2 DEF At
  <2>3. CASE g = h /\ i >= k
    <3>1. i \in 1..Len(new[h]) <=> i + 1 \in 1..Len(ls[h])
      BY <1>2, <1>3, <1>4, <2>3
    <3>2. i \in 1..Len(new[h]) => new[h][i] = ls[h][i + 1]
      BY <1>2, <1>3, <1>4, <2>3
    <3>3. Old(g, i) = i + 1
      BY <1>2, <2>3
    <3> HIDE DEF Old
    <3> QED BY <2>3, <3>1, <3>2, <3>3 DEF At
  <2> QED BY <1>2, <2>1, <2>2, <2>3
<1>8. \A g \in dead : new[g] = <<>>
  BY <1>2, <1>4 DEF Threads
<1>9. ASSUME NEW g \in Heads \ dead, NEW i \in 0..Len(new[g])
       PROVE  m[At(new, g, i)] = At(new, g, i + 1)
  <2>1. \A j \in 0..Len(ls[g]) : f[At(ls, g, j)] = At(ls, g, j + 1) /\ At(ls, g, j) \in Nodes
    BY <1>1 DEF Threads, Spots
  <2>2. Len(ls[g]) \in Nat /\ Len(new[g]) = IF g = h THEN Len(ls[g]) - 1 ELSE Len(ls[g])
    BY <1>1, <1>3, <1>4 DEF Spots
  <2>3. i \in Int /\ i + 1 \in Int /\ Old(g, i) \in 0..Len(ls[g])
    BY <1>2, <2>2
  <2>4. At(new, g, i) = At(ls, g, Old(g, i)) /\ At(new, g, i + 1) = At(ls, g, Old(g, i + 1))
    BY <1>7, <2>3
  <2>5. CASE g = h /\ i = k - 1
    <3>1. Old(g, i) = k - 1 /\ Old(g, i + 1) = k + 1
      BY <1>2, <2>5
    <3>2. before # e
      BY <1>1, <1>2, <1>6 DEF before
    <3> QED BY <1>2, <1>5, <2>4, <2>5, <3>1, <3>2 DEF before
  <2>6. CASE ~(g = h /\ i = k - 1)
    <3>1. Old(g, i + 1) = Old(g, i) + 1 /\ ~(g = h /\ Old(g, i) \in {k - 1, k})
      BY <1>2, <2>3, <2>6
    <3> DEFINE j == Old(g, i)
    <3>2. j \in 0..Len(ls[g]) /\ At(new, g, i) = At(ls, g, j) /\ At(new, g, i + 1) = At(ls, g, j + 1)
      BY <2>3, <2>4, <3>1
    <3>3. At(ls, g, j) # before /\ At(ls, g, j) # e
      BY <1>6, <3>1, <3>2
    <3> HIDE DEF j
    <3> QED BY <1>5, <2>1, <3>2, <3>3
  <2> QED BY <2>5, <2>6
<1>10. ASSUME NEW r \in Heads, NEW c \in 1..Len(new[r])
       PROVE  Old(r, c) \in 1..Len(ls[r]) /\ new[r][c] = ls[r][Old(r, c)] /\ c \in Int
  <2>1. CASE r # h
    BY <1>4, <2>1
  <2>2. CASE r = h
    BY <1>2, <1>3, <1>4, <2>2
  <2> QED BY <2>1, <2>2
<1>11. ASSUME NEW g \in Heads, NEW q \in Heads, NEW i \in 1..Len(new[g]), NEW j \in 1..Len(new[q]),
              new[g][i] = new[q][j]
       PROVE  g = q /\ i = j
  <2> DEFINE a == Old(g, i)
             b == Old(q, j)
  <2>1. a \in 1..Len(ls[g]) /\ b \in 1..Len(ls[q]) /\ ls[g][a] = ls[q][b] /\ i \in Int /\ j \in Int
    BY <1>10, <1>11
  <2> HIDE DEF a, b
  <2>2. g = q /\ a = b
    BY <2>1 DEF Threads
  <2> QED BY <1>2, <2>1, <2>2 DEF a, b
<1>12. ASSUME NEW x \in Entries, m[x] # x
       PROVE  \E g \in Heads : \E i \in 1..Len(new[g]) : new[g][i] = x
  <2>1. x # e /\ x \in Nodes
    BY <1>5, <1>12 DEF Nodes
  <2>2. PICK g \in Heads : \E i \in 1..Len(ls[g]) : ls[g][i] = x
    <3>1. CASE f[x] = x
      <4>1. x = before
        BY <1>5, <1>12, <2>1, <3>1
      <4>2. k - 1 \in 1..Len(ls[h])
        BY <1>1, <1>2, <4>1 DEF before, Spots, NodesAssumption
      <4>3. ls[h][k - 1] = x
        BY <1>1, <4>1, <4>2 DEF before, Spots
      <4> QED BY <4>2, <4>3
    <3>2. CASE f[x] # x
      BY <3>2 DEF Threads
    <3> QED BY <3>1, <3>2
  <2>3. PICK i \in 1..Len(ls[g]) : ls[g][i] = x
    BY <2>2
  <2>4. CASE g # h
    BY <1>4, <2>3, <2>4
  <2>5. CASE g = h /\ i < k
    <3>1. i \in 1..Len(s) /\ ls[h][i] = x
      BY <1>2, <1>3, <2>3, <2>5
    <3>2. s[i] = x
      BY <1>3, <2>5, <3>1
    <3> QED BY <1>4, <3>1, <3>2
  <2>6. CASE g = h /\ i > k
    <3>1. i - 1 \in 1..Len(s) /\ ~(i - 1 < k) /\ i - 1 + 1 = i /\ ls[h][i] = x
      BY <1>2, <1>3, <2>3, <2>6
    <3>2. s[i - 1] = x
      BY <1>3, <3>1
    <3> QED BY <1>4, <3>1, <3>2
  <2>7. i \in Int /\ (g = h => i # k)
    BY <2>1, <2>3
  <2> QED BY <1>2, <2>4, <2>5, <2>6, <2>7
<1> QED BY <1>4, <1>8, <1>9, <1>11, <1>12 DEF Threads, new, s

(* The entries of from go to the front of the list of head, and from dies. *)
LEMMA SpliceThreads ==
    ASSUME NodesAssumption, NEW dead \in SUBSET Heads, NEW f \in [Nodes -> Nodes],
           NEW ls, Threads(f, dead, ls),
           NEW from \in Heads \ dead, NEW head \in Heads \ dead, from # head, Len(ls[from]) # 0,
           NEW m, m = [f EXCEPT ![head] = At(ls, from, 1),
                                ![At(ls, from, Len(ls[from]))] = At(ls, head, 1)]
    PROVE  Threads(m, dead \cup {from}, [ls EXCEPT ![head] = ls[from] \o @, ![from] = <<>>])
<1> DEFINE s == ls[from] \o ls[head]
           new == [ls EXCEPT ![head] = ls[from] \o @, ![from] = <<>>]
           N == Len(ls[from])
           K == Len(ls[head])
           Src(g, i) == IF g = head /\ i \in 1..N THEN from ELSE g
           Old(g, i) == IF g = head /\ i > N THEN i - N ELSE i
<1>1. Spots(ls, dead) /\ ls \in [Heads -> Seq(Entries)] /\ from \in Heads /\ head \in Heads
  <2>1. Spots(ls, dead)
    BY AtApart
  <2> QED BY <2>1 DEF Threads
<1>2. /\ ls[from] \in Seq(Entries) /\ ls[head] \in Seq(Entries)
      /\ N = Len(ls[from]) /\ N \in Nat /\ N > 0 /\ K = Len(ls[head]) /\ K \in Nat
      /\ At(ls, from, 1) \in Nodes /\ At(ls, from, N) \in Nodes /\ At(ls, head, 1) \in Nodes
      /\ head \in Nodes /\ At(ls, head, 0) = head /\ At(ls, from, N) # head
  BY <1>1 DEF Spots, Nodes
<1>3. /\ s \in Seq(Entries) /\ Len(s) = N + K
      /\ \A i \in 1..N + K : s[i] = IF i <= N THEN ls[from][i] ELSE ls[head][i - N]
  BY <1>2, ConcatProperties
<1>4. /\ new \in [Heads -> Seq(Entries)] /\ new[head] = s /\ new[from] = <<>>
      /\ \A g \in Heads : g # head /\ g # from => new[g] = ls[g]
  <2>1. new = [g \in Heads |-> IF g = from THEN <<>> ELSE IF g = head THEN s ELSE ls[g]]
    BY <1>1
  <2> HIDE DEF new, s
  <2> QED BY <1>1, <1>3, <2>1
<1>5. \A n \in Nodes : m[n] = IF n = At(ls, from, N) THEN At(ls, head, 1)
                              ELSE IF n = head THEN At(ls, from, 1) ELSE f[n]
  BY <1>2
<1> HIDE DEF s, new, N, K
<1>12. N \in Nat /\ N > 0 /\ K \in Nat
  BY <1>2
<1>11. /\ Len(new[head]) = N + K
       /\ \A j \in 1..N : j \in 1..N + K /\ new[head][j] = ls[from][j]
       /\ \A j \in 1..K : N + j \in 1..N + K /\ N + j > N /\ new[head][N + j] = ls[head][j]
       /\ \A j \in 1..N + K : j \notin 1..N => j - N \in 1..K /\ j = N + (j - N)
  <2>1. ASSUME NEW j \in 1..K PROVE N + j \in 1..N + K /\ N + j > N /\ N + j - N = j
    BY <1>12
  <2>2. ASSUME NEW j \in 1..N PROVE j \in 1..N + K /\ j <= N
    BY <1>12
  <2>3. ASSUME NEW j \in 1..N + K, j \notin 1..N PROVE j - N \in 1..K /\ j = N + (j - N)
    BY <1>12, <2>3
  <2>4. ASSUME NEW j \in 1..K PROVE s[N + j] = ls[head][j]
    BY <1>12, <1>3, <2>1
  <2> QED BY <1>3, <1>4, <2>1, <2>2, <2>3, <2>4
<1>6. ASSUME NEW r \in Heads, NEW c \in 1..Len(new[r])
      PROVE  /\ Src(r, c) \in Heads /\ Old(r, c) \in 1..Len(ls[Src(r, c)])
             /\ new[r][c] = ls[Src(r, c)][Old(r, c)] /\ c \in Int /\ r # from
             /\ At(new, r, c) = new[r][c]
  <2>1. CASE r # head
    <3>1. r # from /\ new[r] = ls[r] /\ Src(r, c) = r /\ Old(r, c) = c
      BY <1>4, <2>1
    <3> HIDE DEF Src, Old
    <3> QED BY <1>1, <3>1 DEF At
  <2>2. CASE r = head /\ c \in 1..N
    <3>1. Src(r, c) = from /\ Old(r, c) = c
      BY <1>2, <2>2
    <3> HIDE DEF Src, Old
    <3> QED BY <1>1, <1>2, <1>11, <2>2, <3>1 DEF At
  <2>3. CASE r = head /\ c \notin 1..N
    <3>1. c \in 1..N + K
      BY <1>11, <2>3
    <3>2. c - N \in 1..K /\ c = N + (c - N)
      BY <1>11, <2>3, <3>1
    <3>3. Src(r, c) = head /\ Old(r, c) = c - N
      BY <1>12, <2>3, <3>2
    <3>4. new[head][c] = ls[head][c - N]
      BY <1>11, <3>2
    <3> HIDE DEF Src, Old
    <3> QED BY <1>1, <1>2, <2>3, <3>2, <3>3, <3>4 DEF At
  <2> QED BY <1>2, <2>1, <2>2, <2>3
<1>7. \A g \in dead \cup {from} : new[g] = <<>>
  BY <1>4 DEF Threads
<1>8. ASSUME NEW g \in Heads \ (dead \cup {from}), NEW i \in 0..Len(new[g])
      PROVE  m[At(new, g, i)] = At(new, g, i + 1)
  <2>1. \A q \in Heads \ dead : \A j \in 0..Len(ls[q]) :
           f[At(ls, q, j)] = At(ls, q, j + 1) /\ At(ls, q, j) \in Nodes
    BY <1>1 DEF Threads, Spots
  <2>2. \A q \in Heads \ dead : \A j \in 0..Len(ls[q]) :
           /\ At(ls, q, j) = head => q = head /\ j = 0
           /\ At(ls, q, j) = At(ls, from, N) => q = from /\ j = N
    BY <1>1, <1>2 DEF Spots
  <2>3. i \in Int /\ i + 1 \in Int
    OBVIOUS
  <2>4. CASE g # head
    <3>1. /\ new[g] = ls[g] /\ i \in 0..Len(ls[g]) /\ At(new, g, i) = At(ls, g, i)
          /\ At(new, g, i + 1) = At(ls, g, i + 1)
      BY <1>4, <2>4 DEF At
    <3> QED BY <1>5, <2>1, <2>2, <2>4, <3>1
  <2>5. CASE g = head
    <3>1. /\ \A j \in 1..N : At(new, head, j) = At(ls, from, j)
          /\ \A j \in 1..K : At(new, head, N + j) = At(ls, head, j)
          /\ At(new, head, 0) = head /\ At(new, head, N + K + 1) = head
          /\ At(ls, head, K + 1) = head
      BY <1>1, <1>2, <1>11 DEF At
    <3>6. \A j \in 0..K : At(new, head, N + j + 1) = At(ls, head, j + 1)
      <4> SUFFICES ASSUME NEW j \in 0..K PROVE At(new, head, N + j + 1) = At(ls, head, j + 1)
        OBVIOUS
      <4>1. CASE j = K
        BY <3>1, <4>1
      <4>2. CASE j # K
        <5>1. j + 1 \in 1..K /\ N + (j + 1) = N + j + 1
          BY <1>12, <4>2
        <5> QED BY <3>1, <5>1
      <4> QED BY <4>1, <4>2
    <3>2. CASE i = 0
      <4>1. At(new, head, 0) = head /\ At(new, head, 1) = At(ls, from, 1)
        BY <1>2, <3>1
      <4> QED BY <1>2, <1>5, <2>5, <3>2, <4>1
    <3>3. CASE i \in 1..N - 1
      <4>1. i \in 1..N /\ i + 1 \in 1..N /\ i \in 0..Len(ls[from]) /\ i # N
        BY <1>2, <3>3
      <4>2. At(new, head, i) = At(ls, from, i) /\ At(new, head, i + 1) = At(ls, from, i + 1)
        BY <2>3, <3>1, <4>1
      <4>3. At(ls, from, i) # head /\ At(ls, from, i) # At(ls, from, N)
        BY <2>2, <4>1
      <4> QED BY <1>5, <2>1, <2>5, <4>1, <4>2, <4>3
    <3>4. CASE i = N
      <4>1. N \in 1..N /\ 0 \in 0..K /\ N + 0 + 1 = N + 1 /\ 0 + 1 = 1
        BY <1>2
      <4>2. At(new, head, N) = At(ls, from, N) /\ At(new, head, N + 1) = At(ls, head, 1)
        BY <3>1, <3>6, <4>1
      <4> QED BY <1>2, <1>5, <2>5, <3>4, <4>2
    <3>5. CASE i > N
      <4>1. i \in 1..N + K /\ i \notin 1..N
        <5>1. i \in 0..N + K
          BY <1>11, <2>5
        <5> QED BY <1>12, <3>5, <5>1
      <4> DEFINE j == i - N
      <4>2. /\ j \in 1..K /\ j \in 0..K /\ j # 0 /\ i = N + j /\ i + 1 = N + j + 1
            /\ j \in 0..Len(ls[head])
        <5>1. j \in 1..K /\ i = N + j
          BY <1>11, <4>1
        <5>2. j \in 0..K /\ j # 0 /\ i + 1 = N + j + 1
          BY <1>12, <5>1
        <5> QED BY <1>2, <5>1, <5>2
      <4> HIDE DEF j
      <4>3. At(new, head, i) = At(ls, head, j) /\ At(new, head, i + 1) = At(ls, head, j + 1)
        BY <3>1, <3>6, <4>2
      <4>4. At(ls, head, j) # head /\ At(ls, head, j) # At(ls, from, N)
        BY <2>2, <4>2
      <4> QED BY <1>5, <2>1, <2>5, <4>2, <4>3, <4>4
    <3> QED BY <1>2, <2>3, <3>2, <3>3, <3>4, <3>5
  <2> QED BY <2>4, <2>5
<1>9. ASSUME NEW g \in Heads, NEW q \in Heads, NEW i \in 1..Len(new[g]), NEW j \in 1..Len(new[q]),
             new[g][i] = new[q][j]
      PROVE  g = q /\ i = j
  <2> DEFINE a == Old(g, i)
             b == Old(q, j)
             x == Src(g, i)
             y == Src(q, j)
  <2>1. /\ x \in Heads /\ y \in Heads /\ a \in 1..Len(ls[x]) /\ b \in 1..Len(ls[y])
        /\ ls[x][a] = ls[y][b] /\ i \in Int /\ j \in Int /\ g # from /\ q # from
    BY <1>6, <1>9
  <2>2. i >= 1 /\ j >= 1
    OBVIOUS
  <2> HIDE DEF a, b, x, y
  <2>3. x = y /\ a = b
    BY <2>1 DEF Threads
  <2> QED BY <1>2, <2>1, <2>2, <2>3 DEF a, b, x, y
<1>10. ASSUME NEW x \in Entries, m[x] # x
       PROVE  \E g \in Heads : \E i \in 1..Len(new[g]) : new[g][i] = x
  <2>1. PICK g \in Heads : \E i \in 1..Len(ls[g]) : ls[g][i] = x
    <3>1. CASE f[x] = x
      <4>1. x = At(ls, from, N)
        BY <1>2, <1>5, <1>10, <3>1 DEF Nodes, NodesAssumption
      <4>2. N \in 1..Len(ls[from])
        BY <1>2
      <4>3. ls[from][N] = x
        BY <1>1, <4>1, <4>2 DEF Spots
      <4> QED BY <1>1, <4>2, <4>3
    <3>2. CASE f[x] # x
      BY <3>2 DEF Threads
    <3> QED BY <3>1, <3>2
  <2>2. PICK i \in 1..Len(ls[g]) : ls[g][i] = x
    BY <2>1
  <2>3. CASE g # head /\ g # from
    BY <1>4, <2>2, <2>3
  <2>4. CASE g = from
    <3>1. i \in 1..N /\ ls[from][i] = x
      BY <1>2, <2>2, <2>4
    <3>2. i \in 1..Len(new[head]) /\ new[head][i] = x
      BY <1>11, <3>1
    <3> QED BY <1>1, <3>2
  <2>5. CASE g = head
    <3>1. i \in 1..K /\ ls[head][i] = x
      BY <1>2, <2>2, <2>5
    <3>2. N + i \in 1..Len(new[head]) /\ new[head][N + i] = x
      BY <1>11, <3>1
    <3> QED BY <1>1, <3>2
  <2> QED BY <2>3, <2>4, <2>5
<1> QED BY <1>4, <1>7, <1>8, <1>9, <1>10 DEF Threads, new

(* A set of natural numbers that is not empty has a least element.         *)
LEMMA LeastElement ==
    ASSUME NEW S \in SUBSET Nat, S # {}
    PROVE  \E m \in S : \A k \in S : ~(k < m)
<1>1. PICK m \in S : \A k \in S : ~(<<k, m>> \in OpToRel(<, Nat))
  BY NatLessThanWellFounded, WFMin, Zenon
<1>2. ASSUME NEW k \in S, k < m PROVE <<k, m>> \in OpToRel(<, Nat)
  <2>1. k \in Nat /\ m \in Nat
    OBVIOUS
  <2>2. <<k, m>> \in {ss \in Nat \X Nat : ss[1] < ss[2]}
    BY <1>2, <2>1
  <2> QED
    BY <2>2 DEF OpToRel
<1> QED
  BY <1>1, <1>2

(* A dead head is a list again, with nothing in it.                        *)
LEMMA InitThreads ==
    ASSUME NodesAssumption, NEW dead \in SUBSET Heads, NEW f \in [Nodes -> Nodes],
           NEW ls, Threads(f, dead, ls), NEW h \in dead
    PROVE  Threads([f EXCEPT ![h] = h], dead \ {h}, ls)
<1> DEFINE m == [f EXCEPT ![h] = h]
<1>1. Spots(ls, dead)
  BY AtApart
<1>2. h \in Heads /\ ls[h] = <<>> /\ h \in Nodes /\ h \notin Entries
  BY DEF Threads, Nodes, NodesAssumption
<1>3. \A n \in Nodes : m[n] = IF n = h THEN h ELSE f[n]
  BY <1>2
<1> HIDE DEF m
<1>4. ASSUME NEW g \in Heads \ (dead \ {h}), NEW i \in 0..Len(ls[g])
      PROVE  m[At(ls, g, i)] = At(ls, g, i + 1)
  <2>1. CASE g = h
    BY <1>2, <1>3, <2>1 DEF At
  <2>2. CASE g # h
    <3>1. 0 \in 0..Len(ls[h]) /\ At(ls, h, 0) = h
      BY <1>1, <1>2 DEF Spots
    <3>2. At(ls, g, i) # h /\ At(ls, g, i) \in Nodes
      BY <1>1, <1>2, <2>2, <3>1 DEF Spots
    <3> QED BY <1>3, <2>2, <3>2 DEF Threads
  <2> QED BY <2>1, <2>2
<1>5. ASSUME NEW e \in Entries PROVE m[e] = f[e]
  BY <1>2, <1>3 DEF Nodes
<1> QED BY <1>4, <1>5 DEF Threads, m

(* Walking back from the end reads the list backwards.                     *)
LEMMA Backwards ==
    ASSUME NodesAssumption, DInv, NEW ls, Threads(next, stale, ls), NEW h \in Usable
    PROVE  \A i \in 0..Len(ls[h]) :
              /\ next[At(ls, h, i)] = At(ls, h, i + 1)
              /\ prev[At(ls, h, i + 1)] = At(ls, h, i)
              /\ At(ls, h, i) \in Nodes \ stale
<1> SUFFICES ASSUME NEW i \in 0..Len(ls[h])
             PROVE  /\ next[At(ls, h, i)] = At(ls, h, i + 1)
                    /\ prev[At(ls, h, i + 1)] = At(ls, h, i)
                    /\ At(ls, h, i) \in Nodes \ stale
  OBVIOUS
<1>1. stale \in SUBSET Heads /\ h \in Heads \ stale
  BY DEF DInv, Usable
<1>2. Spots(ls, stale)
  BY <1>1, AtApart
<1>3. next[At(ls, h, i)] = At(ls, h, i + 1)
  BY <1>1 DEF Threads
<1>4. At(ls, h, i) \in Nodes \ stale
  <2>1. CASE i = 0
    BY <1>1, <1>2, <2>1 DEF Spots, Nodes
  <2>2. CASE i # 0
    <3>1. At(ls, h, i) \in Entries
      BY <1>1, <1>2, <2>2 DEF Spots
    <3> QED BY <1>1, <3>1 DEF NodesAssumption, Nodes
  <2> QED BY <2>1, <2>2
<1> QED BY <1>3, <1>4 DEF DInv, WellLinked, Links

(* The ring of a head is its list and itself.                              *)
LEMMA RingIs ==
    ASSUME NodesAssumption, DInv, NEW ls, Threads(next, stale, ls), NEW h \in Usable
    PROVE  Ring(h) = {At(ls, h, i) : i \in 0..Len(ls[h])}
<1> DEFINE S == {At(ls, h, i) : i \in 0..Len(ls[h])}
<1>1. Spots(ls, stale) /\ h \in Heads
  <2>1. stale \in SUBSET Heads
    BY DEF DInv
  <2> QED BY <2>1, AtApart DEF Usable
<1>2. /\ Len(ls[h]) \in Nat /\ At(ls, h, 0) = h /\ At(ls, h, Len(ls[h]) + 1) = h
      /\ \A i \in 0..Len(ls[h]) : At(ls, h, i) \in Nodes
  BY <1>1 DEF Spots
<1>3. \A i \in 0..Len(ls[h]) : next[At(ls, h, i)] = At(ls, h, i + 1)
  BY Backwards
<1>4. S \in SUBSET Nodes /\ h \in S
  BY <1>2
<1>5. ASSUME NEW n \in S PROVE next[n] \in S
  <2>1. PICK i \in 0..Len(ls[h]) : n = At(ls, h, i)
    OBVIOUS
  <2>2. next[n] = At(ls, h, i + 1)
    BY <1>3, <2>1
  <2>3. CASE i = Len(ls[h])
    BY <1>2, <1>4, <2>2, <2>3
  <2>4. CASE i # Len(ls[h])
    <3>1. i + 1 \in 0..Len(ls[h])
      BY <1>2, <2>4
    <3> QED BY <2>2, <3>1
  <2> QED BY <2>3, <2>4
<1>6. ASSUME NEW T \in SUBSET Nodes, h \in T, \A n \in T : next[n] \in T
      PROVE  S \subseteq T
  <2> DEFINE Bad == {i \in Nat : i <= Len(ls[h]) /\ At(ls, h, i) \notin T}
  <2>1. Bad = {}
    <3> SUFFICES ASSUME Bad # {} PROVE FALSE
      OBVIOUS
    <3>1. PICK i \in Bad : \A j \in Bad : i <= j
      <4>1. Bad \in SUBSET Nat
        OBVIOUS
      <4> HIDE DEF Bad
      <4> QED BY <4>1, LeastElement
    <3>2. i # 0
      BY <1>2, <1>6
    <3>3. i - 1 \in Nat /\ i - 1 < i /\ i - 1 \in 0..Len(ls[h]) /\ i - 1 + 1 = i
      BY <1>2, <3>2
    <3>4. At(ls, h, i - 1) \in T
      BY <3>1, <3>3
    <3> QED BY <1>3, <1>6, <3>3, <3>4
  <2> QED BY <2>1
<1> HIDE DEF S
<1>7. Ring(h) = S
  BY <1>4, <1>5, <1>6 DEF Ring
<1> QED BY <1>7 DEF S

(* The list of h read backwards.                                           *)
LEMMA TurnThreads ==
    ASSUME NodesAssumption, DInv, NEW ls, Threads(next, stale, ls), NEW h \in Usable,
           NEW m, m = [n \in Nodes |-> IF n \in Ring(h) THEN prev[n] ELSE next[n]]
    PROVE  Threads(m, stale, [ls EXCEPT ![h] = L!Reverse(ls[h])])
<1> DEFINE N == Len(ls[h])
           s == L!Reverse(ls[h])
           new == [ls EXCEPT ![h] = s]
           Old(g, i) == IF g = h THEN N + 1 - i ELSE i
<1>1. Spots(ls, stale) /\ h \in Heads \ stale /\ stale \in SUBSET Heads /\ ls \in [Heads -> Seq(Entries)]
  <2>1. stale \in SUBSET Heads
    BY DEF DInv
  <2>2. Spots(ls, stale)
    BY <2>1, AtApart
  <2> QED BY <2>1, <2>2 DEF Usable, Threads
<1>2. /\ N = Len(ls[h]) /\ ls[h] \in Seq(Entries)
      /\ At(ls, h, 0) = h /\ At(ls, h, N + 1) = h /\ h \in Nodes
  BY <1>1 DEF Spots, Nodes
<1>3. N \in Nat
  BY <1>2
<1>4. Ring(h) = {At(ls, h, i) : i \in 0..N}
  BY RingIs
<1>5. \A i \in 0..N : /\ prev[At(ls, h, i + 1)] = At(ls, h, i)
                       /\ At(ls, h, i) \in Nodes
  BY Backwards
<1>6. s \in Seq(Entries) /\ Len(s) = N /\ \A i \in 1..N : s[i] = ls[h][N + 1 - i]
  <2>1. s = [i \in 1..N |-> ls[h][N - i + 1]]
    BY DEF L!Reverse
  <2>2. \A i \in 1..N : N - i + 1 \in 1..N /\ N - i + 1 = N + 1 - i
    BY <1>3
  <2>3. \A i \in 1..N : ls[h][N - i + 1] \in Entries
    BY <1>2, <2>2
  <2> HIDE DEF s, N
  <2>4. s \in [1..N -> Entries]
    BY <2>1, <2>3
  <2> QED BY <1>3, <2>1, <2>2, <2>4
<1> HIDE DEF s, N
<1>7. new \in [Heads -> Seq(Entries)] /\ new[h] = s /\ \A g \in Heads : g # h => new[g] = ls[g]
  BY <1>1, <1>6
<1> HIDE DEF new
<1>8. ASSUME NEW i \in 0..N + 1 PROVE At(new, h, i) = At(ls, h, N + 1 - i)
  <2>1. CASE i \in 1..N
    <3>1. N + 1 - i \in 1..N
      BY <1>3, <2>1
    <3> QED BY <1>2, <1>6, <1>7, <2>1, <3>1 DEF At
  <2>2. CASE i = 0
    BY <1>2, <1>3, <2>2 DEF At
  <2>3. CASE i = N + 1
    <3>1. N + 1 - i = 0 /\ i \notin 1..N
      BY <1>3, <2>3
    <3> QED BY <1>2, <1>6, <1>7, <3>1 DEF At
  <2> QED BY <1>3, <2>1, <2>2, <2>3
<1>9. ASSUME NEW g \in Heads \ stale, NEW i \in 0..Len(new[g])
      PROVE  m[At(new, g, i)] = At(new, g, i + 1)
  <2>1. CASE g = h
    <3> DEFINE j == N - i
    <3>1. i \in 0..N
      BY <1>6, <1>7, <2>1
    <3>2. j \in 0..N /\ j + 1 = N + 1 - i /\ j = N + 1 - (i + 1) /\ i \in 0..N + 1 /\ i + 1 \in 0..N + 1
      BY <1>3, <3>1
    <3> HIDE DEF j
    <3>3. At(new, h, i) = At(ls, h, j + 1) /\ At(new, h, i + 1) = At(ls, h, j)
      BY <1>8, <3>2
    <3>4. At(ls, h, j + 1) \in Ring(h) /\ At(ls, h, j + 1) \in Nodes
      <4>1. CASE j = N
        <5>1. 0 \in 0..N
          BY <1>3
        <5> QED BY <1>2, <1>4, <4>1, <5>1
      <4>2. CASE j # N
        <5>1. j + 1 \in 0..N
          BY <1>3, <3>2, <4>2
        <5> QED BY <1>4, <1>5, <5>1
      <4> QED BY <4>1, <4>2
    <3> QED BY <1>5, <2>1, <3>2, <3>3, <3>4
  <2>2. CASE g # h
    <3>1. i \in 0..Len(ls[g]) /\ At(new, g, i) = At(ls, g, i) /\ At(new, g, i + 1) = At(ls, g, i + 1)
      BY <1>7, <2>2 DEF At
    <3>2. At(ls, g, i) \notin Ring(h) /\ At(ls, g, i) \in Nodes
      BY <1>1, <1>2, <1>4, <2>2, <3>1 DEF Spots
    <3> QED BY <3>1, <3>2 DEF Threads
  <2> QED BY <2>1, <2>2
<1>10. ASSUME NEW r \in Heads, NEW c \in 1..Len(new[r])
       PROVE  Old(r, c) \in 1..Len(ls[r]) /\ new[r][c] = ls[r][Old(r, c)] /\ c \in Int
  <2>1. CASE r # h
    BY <1>7, <2>1
  <2>2. CASE r = h
    <3>1. c \in 1..N
      BY <1>6, <1>7, <2>2
    <3>2. N + 1 - c \in 1..N
      BY <1>3, <3>1
    <3> QED BY <1>2, <1>6, <1>7, <2>2, <3>1, <3>2
  <2> QED BY <2>1, <2>2
<1>11. ASSUME NEW g \in Heads, NEW q \in Heads, NEW i \in 1..Len(new[g]), NEW j \in 1..Len(new[q]),
              new[g][i] = new[q][j]
       PROVE  g = q /\ i = j
  <2> DEFINE a == Old(g, i)
             b == Old(q, j)
  <2>1. a \in 1..Len(ls[g]) /\ b \in 1..Len(ls[q]) /\ ls[g][a] = ls[q][b] /\ i \in Int /\ j \in Int
    BY <1>10, <1>11
  <2> HIDE DEF a, b
  <2>2. g = q /\ a = b
    BY <2>1 DEF Threads
  <2> QED BY <1>3, <2>1, <2>2 DEF a, b
<1>12. ASSUME NEW x \in Entries, m[x] # x
       PROVE  \E g \in Heads : \E i \in 1..Len(new[g]) : new[g][i] = x
  <2>1. PICK g \in Heads : \E i \in 1..Len(ls[g]) : ls[g][i] = x
    <3>1. CASE x \in Ring(h)
      <4>1. PICK i \in 0..N : x = At(ls, h, i)
        BY <1>4, <3>1
      <4>2. i \in 1..N
        BY <1>2, <1>3, <4>1, <1>1 DEF NodesAssumption
      <4> QED BY <1>1, <1>2, <4>1, <4>2 DEF Spots
    <3>2. CASE x \notin Ring(h)
      <4>1. next[x] # x
        BY <1>12, <3>2 DEF Nodes
      <4> QED BY <4>1 DEF Threads
    <3> QED BY <3>1, <3>2
  <2>2. PICK i \in 1..Len(ls[g]) : ls[g][i] = x
    BY <2>1
  <2>3. CASE g # h
    BY <1>7, <2>2, <2>3
  <2>4. CASE g = h
    <3>1. i \in 1..N
      BY <1>2, <2>4
    <3>2. N + 1 - i \in 1..N /\ N + 1 - (N + 1 - i) = i
      BY <1>3, <3>1
    <3>3. s[N + 1 - i] = x
      BY <1>6, <2>2, <2>4, <3>2
    <3> QED BY <1>1, <1>6, <1>7, <3>2, <3>3
  <2> QED BY <2>3, <2>4
<1>13. \A g \in stale : new[g] = <<>>
  BY <1>1, <1>7 DEF Threads
<1> QED BY <1>7, <1>9, <1>11, <1>12, <1>13 DEF Threads, new, s
-----------------------------------------------------------------------------
(* Along walks a list.                                                     *)

(* One step of the walk of Along, for at most K steps.                     *)
WalkOf(f, h, K, w) ==
    w = [k \in 0..K |-> [n \in Nodes |->
            IF n = h \/ k = 0 THEN <<>> ELSE <<n>> \o w[k - 1][f[n]]]]

(* There is such a function.                                               *)
LEMMA WalkExists ==
    ASSUME NEW f, NEW h, NEW K \in Nat
    PROVE  \E w : WalkOf(f, h, K, w)
<1> DEFINE Bad == {k \in Nat : ~\E w : WalkOf(f, h, k, w)}
<1>1. Bad = {}
  <2> SUFFICES ASSUME Bad # {} PROVE FALSE
    OBVIOUS
  <2>1. PICK k \in Bad : \A j \in Bad : ~(j < k)
    <3>1. Bad \in SUBSET Nat
      OBVIOUS
    <3> HIDE DEF Bad
    <3> QED BY <3>1, LeastElement
  <2>2. CASE k = 0
    <3> DEFINE w == [j \in 0..0 |-> [n \in Nodes |-> <<>>]]
    <3>1. w = [j \in 0..0 |-> [n \in Nodes |->
                  IF n = h \/ j = 0 THEN <<>> ELSE <<n>> \o w[j - 1][f[n]]]]
      <4>1. \A j \in 0..0 : j = 0
        OBVIOUS
      <4> QED BY <4>1
    <3> HIDE DEF w
    <3>2. WalkOf(f, h, 0, w)
      BY <3>1 DEF WalkOf
    <3> QED BY <2>2, <3>2
  <2>3. CASE k # 0
    <3>1. k - 1 \in Nat /\ k - 1 < k
      BY <2>3
    <3>2. PICK v : WalkOf(f, h, k - 1, v)
      BY <2>1, <3>1
    <3> DEFINE u(j) == IF j = k THEN [n \in Nodes |->
                                         IF n = h THEN <<>> ELSE <<n>> \o v[k - 1][f[n]]]
                       ELSE v[j]
               w == [j \in 0..k |-> u(j)]
    <3>3. ASSUME NEW j \in 0..k
          PROVE  w[j] = [n \in Nodes |-> IF n = h \/ j = 0 THEN <<>> ELSE <<n>> \o w[j - 1][f[n]]]
      <4>1. CASE j = k
        <5>1. k - 1 \in 0..k /\ k - 1 # k
          BY <3>1
        <5>2. w[k - 1] = v[k - 1]
          BY <5>1
        <5>3. w[j] = [n \in Nodes |-> IF n = h THEN <<>> ELSE <<n>> \o v[k - 1][f[n]]]
          BY <4>1
        <5> HIDE DEF w
        <5> QED BY <2>3, <4>1, <5>2, <5>3
      <4>2. CASE j # k
        <5>1. j \in 0..k - 1
          BY <3>1, <4>2
        <5>2. w[j] = v[j]
          BY <4>2
        <5>3. j # 0 => w[j - 1] = v[j - 1]
          BY <3>1, <5>1
        <5>4. v[j] = [n \in Nodes |-> IF n = h \/ j = 0 THEN <<>> ELSE <<n>> \o v[j - 1][f[n]]]
          BY <3>2, <5>1 DEF WalkOf
        <5> HIDE DEF w
        <5>5. CASE j = 0
          BY <5>2, <5>4, <5>5
        <5>6. CASE j # 0
          BY <5>2, <5>3, <5>4, <5>6
        <5> QED BY <5>5, <5>6
      <4> QED BY <4>1, <4>2
    <3>4. w = [j \in 0..k |-> w[j]]
      OBVIOUS
    <3> HIDE DEF w
    <3>5. WalkOf(f, h, k, w)
      BY <3>3, <3>4 DEF WalkOf
    <3> QED BY <2>1, <3>5
  <2> QED BY <2>2, <2>3
<1> QED BY <1>1

(* A list has no more entries than there are nodes.                        *)
LEMMA ListFits ==
    ASSUME NodesAssumption, NEW f, NEW dead \in SUBSET Heads, NEW ls, Threads(f, dead, ls),
           NEW h \in Heads
    PROVE  /\ Cardinality(Nodes) \in Nat
           /\ Cardinality({ls[h][i] : i \in 1..Len(ls[h])}) = Len(ls[h])
           /\ Len(ls[h]) <= Cardinality(Nodes)
<1> DEFINE N == Len(ls[h])
           S == {ls[h][i] : i \in 1..N}
           b == [i \in 1..N |-> ls[h][i]]
<1>1. Spots(ls, dead)
  BY AtApart
<1>2. N \in Nat /\ \A i \in 1..N : ls[h][i] \in Nodes
  BY <1>1 DEF Spots, Nodes
<1>3. \A i, j \in 1..N : ls[h][i] = ls[h][j] => i = j
  BY DEF Threads
<1> HIDE DEF N
<1>4. IsFiniteSet(Nodes) /\ S \in SUBSET Nodes
  BY <1>2 DEF NodesAssumption, Nodes
<1>5. IsFiniteSet(S) /\ Cardinality(S) <= Cardinality(Nodes) /\ Cardinality(Nodes) \in Nat
  BY <1>4, FS_Subset, FS_CardinalityType
<1>6. b \in Bijection(1..N, S)
  BY <1>3 DEF Bijection, Injection, Surjection, IsInjective
<1>7. ExistsBijection(1..N, S)
  BY <1>6 DEF ExistsBijection
<1>8. Cardinality(S) = N
  BY <1>2, <1>7, FS_CountingElements
<1> QED BY <1>5, <1>8 DEF N

(* Walking from h along f meets the entries of h in order.                 *)
LEMMA AlongIs ==
    ASSUME NodesAssumption, NEW dead \in SUBSET Heads, NEW f,
           NEW ls, Threads(f, dead, ls), NEW h \in Heads \ dead
    PROVE  Along(f, h) = ls[h]
<1> DEFINE N == Len(ls[h])
           C == Cardinality(Nodes)
           s == ls[h]
<1>1. /\ s = ls[h] /\ s \in Seq(Entries) /\ N = Len(s)
      /\ At(ls, h, 0) = h /\ At(ls, h, N + 1) = h
      /\ \A i \in 1..N : At(ls, h, i) = s[i] /\ s[i] \in Entries
      /\ \A i \in Int : At(ls, h, i) \in Nodes
  <2>1. Spots(ls, dead)
    BY AtApart
  <2> QED BY <2>1 DEF Spots
<1>2. N \in Nat /\ C \in Nat /\ N <= C
  <2>1. C \in Nat /\ N <= C
    BY ListFits
  <2> QED BY <1>1, <2>1
<1>3. PICK w : Along(f, h) = w[C][f[h]] /\ WalkOf(f, h, C, w)
  <2>1. \E w : WalkOf(f, h, C, w)
    BY <1>2, WalkExists
  <2> DEFINE v == CHOOSE w : WalkOf(f, h, C, w)
  <2>2. WalkOf(f, h, C, v)
    BY <2>1
  <2>3. Along(f, h) = v[C][f[h]]
    BY DEF Along, WalkOf
  <2> HIDE DEF v
  <2> QED BY <2>2, <2>3
<1>4. \A i \in 0..N : f[At(ls, h, i)] = At(ls, h, i + 1)
  BY DEF Threads
<1> HIDE DEF N, C, s
<1>5. \A k \in 0..C : \A n \in Nodes :
         w[k][n] = IF n = h \/ k = 0 THEN <<>> ELSE <<n>> \o w[k - 1][f[n]]
  <2>1. w = [k \in 0..C |-> [n \in Nodes |->
                IF n = h \/ k = 0 THEN <<>> ELSE <<n>> \o w[k - 1][f[n]]]]
    BY <1>3 DEF WalkOf
  <2> SUFFICES ASSUME NEW k \in 0..C, NEW n \in Nodes
               PROVE  w[k][n] = IF n = h \/ k = 0 THEN <<>> ELSE <<n>> \o w[k - 1][f[n]]
    OBVIOUS
  <2>2. w[k] = [x \in Nodes |-> IF x = h \/ k = 0 THEN <<>> ELSE <<x>> \o w[k - 1][f[x]]]
    BY <2>1, Zenon
  <2> QED BY <2>2, Zenon
<1> DEFINE Good(k) == \A i \in 1..N + 1 : N + 1 - i <= k => w[k][At(ls, h, i)] = SubSeq(s, i, N)
           Bad == {k \in 0..C : ~Good(k)}
<1>6. SubSeq(s, N + 1, N) = <<>>
  BY <1>1, <1>2
<1>7. ASSUME NEW k \in 0..C, k # 0 => Good(k - 1) PROVE Good(k)
  <2> SUFFICES ASSUME NEW i \in 1..N + 1, N + 1 - i <= k
               PROVE  w[k][At(ls, h, i)] = SubSeq(s, i, N)
    OBVIOUS
  <2>1. CASE i = N + 1
    <3>1. At(ls, h, i) = h /\ h \in Nodes
      BY <1>1, <2>1 DEF Nodes
    <3> QED BY <1>5, <1>6, <2>1, <3>1
  <2>2. CASE i # N + 1
    <3>1. i \in 1..N /\ k # 0 /\ i + 1 \in 1..N + 1 /\ N + 1 - (i + 1) <= k - 1 /\ i \in 0..N
      BY <1>2, <2>2
    <3>2. At(ls, h, i) = s[i] /\ At(ls, h, i) # h /\ At(ls, h, i) \in Nodes
      BY <1>1, <3>1 DEF NodesAssumption, Nodes
    <3>3. w[k][At(ls, h, i)] = <<s[i]>> \o w[k - 1][At(ls, h, i + 1)]
      BY <1>4, <1>5, <3>1, <3>2
    <3>4. w[k - 1][At(ls, h, i + 1)] = SubSeq(s, i + 1, N)
      BY <1>7, <3>1
    <3>5. <<s[i]>> \o SubSeq(s, i + 1, N) = SubSeq(s, i, N)
      <4> DEFINE a == <<s[i]>> \o SubSeq(s, i + 1, N)
                 b == SubSeq(s, i, N)
                 c == SubSeq(s, i + 1, N)
      <4>1. b \in Seq(Entries) /\ Len(b) = N + 1 - i /\ \A j \in 1..N + 1 - i : b[j] = s[i + j - 1]
        BY <1>1, <1>2, <3>1
      <4>2. c \in Seq(Entries) /\ Len(c) = N - i /\ \A j \in 1..N - i : c[j] = s[i + j]
        BY <1>1, <1>2, <3>1
      <4>3. a = <<s[i]>> \o c /\ <<s[i]>> \in Seq(Entries) /\ Len(<<s[i]>>) = 1 /\ <<s[i]>>[1] = s[i]
        BY <1>1, <3>1
      <4> HIDE DEF b, c
      <4>4. a \in Seq(Entries) /\ Len(a) = N + 1 - i
        <5>1. a \in Seq(Entries) /\ Len(a) = Len(<<s[i]>>) + Len(c)
          BY <4>2, <4>3, ConcatProperties
        <5> QED BY <1>2, <3>1, <4>2, <4>3, <5>1, SMTT(30)
      <4>5. ASSUME NEW j \in 1..N + 1 - i PROVE a[j] = b[j]
        <5>1. CASE j = 1
          BY <1>2, <3>1, <4>1, <4>2, <4>3, <5>1, ConcatProperties
        <5>2. CASE j # 1
          <6>1. j - 1 \in 1..N - i /\ i + (j - 1) = i + j - 1
            BY <1>2, <3>1, <5>2
          <6>2. a[j] = c[j - 1]
            BY <1>2, <3>1, <4>2, <4>3, <5>2, ConcatProperties
          <6> QED BY <4>1, <4>2, <6>1, <6>2
        <5> QED BY <5>1, <5>2
      <4> HIDE DEF a
      <4>6. a = b
        BY <4>1, <4>4, <4>5, SeqEqual
      <4> QED BY <4>6 DEF a, b
    <3> QED BY <3>3, <3>4, <3>5
  <2> QED BY <2>1, <2>2
<1> HIDE DEF Good
<1>8. Bad = {}
  <2> SUFFICES ASSUME Bad # {} PROVE FALSE
    OBVIOUS
  <2>1. PICK k \in Bad : \A j \in Bad : ~(j < k)
    <3>1. Bad \in SUBSET Nat
      OBVIOUS
    <3> HIDE DEF Bad
    <3> QED BY <3>1, LeastElement
  <2>2. k \in 0..C /\ (k # 0 => k - 1 \in 0..C /\ k - 1 < k)
    BY <1>2
  <2>3. k # 0 => Good(k - 1)
    BY <2>1, <2>2
  <2>4. Good(k)
    BY <1>7, <2>2, <2>3
  <2> QED BY <2>1, <2>4
<1>9. w[C][At(ls, h, 1)] = SubSeq(s, 1, N)
  <2>1. Good(C)
    BY <1>2, <1>8
  <2>2. 1 \in 1..N + 1 /\ N + 1 - 1 <= C
    BY <1>2
  <2> QED BY <2>1, <2>2 DEF Good
<1>10. f[h] = At(ls, h, 1)
  <2>1. 0 \in 0..N /\ 0 + 1 = 1
    BY <1>2
  <2> QED BY <1>1, <1>4, <2>1
<1>11. SubSeq(s, 1, N) = s
  BY <1>1, SubSeqFull
<1> QED BY <1>3, <1>9, <1>10, <1>11 DEF s
-----------------------------------------------------------------------------
(* Every operation is one of Lists.                                        *)

(* What Along finds from every head are the lists of Threads.              *)
LEMMA ListsAre ==
    ASSUME NodesAssumption, NEW dead \in SUBSET Heads, NEW f, NEW ls, Threads(f, dead, ls)
    PROVE  [h \in Heads |-> IF h \in dead THEN <<>> ELSE Along(f, h)] = ls
<1>1. ls \in [Heads -> Seq(Entries)]
  BY DEF Threads
<1>2. ASSUME NEW h \in Heads PROVE (IF h \in dead THEN <<>> ELSE Along(f, h)) = ls[h]
  <2>1. CASE h \in dead
    BY <2>1 DEF Threads
  <2>2. CASE h \notin dead
    BY <2>2, AlongIs
  <2> QED BY <2>1, <2>2
<1> QED BY <1>1, <1>2

(* ListOf, which the refinement maps list to, are the lists of Threads.    *)
LEMMA ListOfIs ==
    ASSUME NodesAssumption, DInv, NEW ls, Threads(next, stale, ls)
    PROVE  ListOf = ls
BY ListsAre DEF ListOf, DInv

(* A node of a list, and its neighbours, by their places.                  *)
LEMMA Seats ==
    ASSUME NodesAssumption, DInv, NEW ls, Threads(next, stale, ls), NEW x \in Linked
    PROVE  \E h \in Usable : \E k \in 1..Len(ls[h]) + 1 :
              /\ x = At(ls, h, k) /\ prev[x] = At(ls, h, k - 1)
<1>1. stale \in SUBSET Heads /\ Usable \subseteq Heads
  BY DEF DInv, Usable
<1>2. Spots(ls, stale)
  BY <1>1, AtApart
<1>3. PICK h \in Usable : \E k \in 1..Len(ls[h]) + 1 : x = At(ls, h, k)
  <2>1. CASE x \in Usable
    <3>1. Len(ls[x]) + 1 \in 1..Len(ls[x]) + 1 /\ x = At(ls, x, Len(ls[x]) + 1)
      BY <1>1, <1>2, <2>1 DEF Spots
    <3> QED BY <2>1, <3>1
  <2>2. CASE x \notin Usable
    <3>1. PICK h \in Heads : \E i \in 1..Len(ls[h]) : ls[h][i] = x
      BY <2>2 DEF Linked, Threads
    <3>2. PICK i \in 1..Len(ls[h]) : ls[h][i] = x
      BY <3>1
    <3>3. h \notin stale /\ x = At(ls, h, i) /\ i \in 1..Len(ls[h]) + 1
      BY <1>2, <3>2 DEF Spots
    <3> QED BY <3>3 DEF Usable
  <2> QED BY <2>1, <2>2
<1>4. PICK k \in 1..Len(ls[h]) + 1 : x = At(ls, h, k)
  BY <1>3
<1>5. k - 1 \in 0..Len(ls[h]) /\ k - 1 + 1 = k
  BY <1>1, <1>2 DEF Spots
<1>6. prev[At(ls, h, k - 1 + 1)] = At(ls, h, k - 1)
  BY <1>5, Backwards
<1> QED BY <1>4, <1>5, <1>6

(* A loose entry goes to a place of a list.                                *)
LEMMA AddStep ==
    ASSUME NodesAssumption, DInv, DInv', NEW ls, Threads(next, stale, ls),
           NEW e \in Loose, NEW x \in Linked, UNCHANGED stale,
           \/ Relink(__list_add(Links, e, prev[x], x))
           \/ Relink(__list_add(Links, e, x, next[x]))
    PROVE  (\E new : Threads(next', stale', new)) /\ L!Next
<1>1. /\ stale \in SUBSET Heads /\ Usable = Heads \ stale /\ e \in Entries /\ next[e] = e
      /\ next \in [Nodes -> Nodes]
  BY DEF DInv, Usable, Loose, WellLinked, Links
<1>2. Spots(ls, stale)
  BY <1>1, AtApart
<1>3. \E h \in Usable : \E k \in 1..Len(ls[h]) + 1 :
         next' = [next EXCEPT ![e] = At(ls, h, k), ![At(ls, h, k - 1)] = e]
  <2>0. PICK h \in Usable : \E k \in 1..Len(ls[h]) + 1 : x = At(ls, h, k) /\ prev[x] = At(ls, h, k - 1)
    BY Seats
  <2>1. PICK k \in 1..Len(ls[h]) + 1 : x = At(ls, h, k) /\ prev[x] = At(ls, h, k - 1)
    BY <2>0
  <2>2. CASE Relink(__list_add(Links, e, prev[x], x))
    BY <2>1, <2>2 DEF Relink, __list_add, Links
  <2>3. CASE Relink(__list_add(Links, e, x, next[x]))
    <3>1. next' = [next EXCEPT ![e] = next[x], ![x] = e]
      BY <2>3 DEF Relink, __list_add, Links
    <3>2. Len(ls[h]) \in Nat
      BY <1>1, <1>2 DEF Spots
    <3>3. CASE k <= Len(ls[h])
      <4>1. k \in 0..Len(ls[h]) /\ k + 1 \in 1..Len(ls[h]) + 1 /\ (k + 1) - 1 = k
        BY <3>2, <3>3
      <4>2. next[x] = At(ls, h, k + 1)
        BY <2>1, <4>1, Backwards
      <4>3. next' = [next EXCEPT ![e] = At(ls, h, k + 1), ![At(ls, h, (k + 1) - 1)] = e]
        BY <2>1, <3>1, <4>1, <4>2
      <4>4. \E j \in 1..Len(ls[h]) + 1 :
               next' = [next EXCEPT ![e] = At(ls, h, j), ![At(ls, h, j - 1)] = e]
        BY <4>1, <4>3
      <4> QED BY <4>4
    <3>4. CASE k = Len(ls[h]) + 1
      <4>1. x = h /\ At(ls, h, 0) = h
        BY <1>1, <1>2, <2>1, <3>4 DEF Spots
      <4>2. 0 \in 0..Len(ls[h]) /\ 0 + 1 = 1 /\ 1 - 1 = 0 /\ 1 \in 1..Len(ls[h]) + 1
        BY <3>2
      <4>3. next[x] = At(ls, h, 1)
        BY <4>1, <4>2, Backwards
      <4> QED BY <3>1, <4>1, <4>2, <4>3
    <3> QED BY <3>2, <3>3, <3>4
  <2> QED BY <2>2, <2>3
<1>10. PICK h \in Usable : \E k \in 1..Len(ls[h]) + 1 :
          next' = [next EXCEPT ![e] = At(ls, h, k), ![At(ls, h, k - 1)] = e]
  BY <1>3
<1>11. PICK k \in 1..Len(ls[h]) + 1 :
          next' = [next EXCEPT ![e] = At(ls, h, k), ![At(ls, h, k - 1)] = e]
  BY <1>10
<1> DEFINE new == [ls EXCEPT ![h] = L!InsertAt(ls[h], k, e)]
<1>4. Threads(next', stale, new)
  BY <1>1, <1>11, PutThreads
<1>5. ListOf = ls
  BY ListOfIs
<1>6. ListOf' = new
  <2>1. Threads(next', stale', new)
    BY <1>4
  <2> HIDE DEF new
  <2> QED BY <1>1, <2>1, ListsAre DEF ListOf
<1>7. ASSUME NEW g \in Heads, NEW i \in 1..Len(ls[g]) PROVE ls[g][i] # e
  <2>1. next[ls[g][i]] # ls[g][i]
    BY <1>1, ListedPoints
  <2> QED BY <1>1, <2>1
<1>8. e \in L!Loose
  BY <1>1, <1>5, <1>7 DEF L!Loose, L!Held
<1>9. L!Insert
  BY <1>1, <1>5, <1>6, <1>8 DEF L!Insert, L!Becomes, L!Usable
<1> QED BY <1>4, <1>9 DEF L!Next

(* Without of Lists, by the place of the entry.                            *)
LEMMA WithoutIs ==
    ASSUME NodesAssumption, DInv, NEW ls, Threads(next, stale, ls), NEW e \in Entries
    PROVE  /\ next[e] = e => L!Without(e) = ls /\ e \in L!Loose
           /\ \A h \in Heads : \A k \in 1..Len(ls[h]) : ls[h][k] = e =>
                 /\ L!Without(e) = [ls EXCEPT ![h] = L!RemoveAt(ls[h], k)]
                 /\ e \notin L!Loose
<1>1. ListOf = ls /\ ls \in [Heads -> Seq(Entries)] /\ stale \in SUBSET Heads
  BY ListOfIs DEF Threads, DInv
<1>2. L!Without(e) = [h \in Heads |-> IF e \in L!Held(h) THEN L!RemoveAt(ls[h], L!Place(e, h)) ELSE ls[h]]
  BY <1>1 DEF L!Without
<1>3. \A h \in Heads : L!Held(h) = {ls[h][i] : i \in 1..Len(ls[h])}
  BY <1>1 DEF L!Held
<1>4. ASSUME next[e] = e PROVE L!Without(e) = ls /\ e \in L!Loose
  <2>1. ASSUME NEW h \in Heads PROVE e \notin L!Held(h)
    <3> SUFFICES ASSUME NEW i \in 1..Len(ls[h]), ls[h][i] = e PROVE FALSE
      BY <1>3
    <3>1. next[ls[h][i]] # ls[h][i]
      BY <1>1, ListedPoints
    <3> QED BY <1>4, <3>1
  <2> QED BY <1>1, <1>2, <2>1 DEF L!Loose
<1>5. ASSUME NEW h \in Heads, NEW k \in 1..Len(ls[h]), ls[h][k] = e
      PROVE  /\ L!Without(e) = [ls EXCEPT ![h] = L!RemoveAt(ls[h], k)]
             /\ e \notin L!Loose
  <2>1. \A g \in Heads : \A i \in 1..Len(ls[g]) : ls[g][i] = e => g = h /\ i = k
    BY <1>5 DEF Threads
  <2>2. \A g \in Heads : e \in L!Held(g) <=> g = h
    BY <1>3, <1>5, <2>1
  <2>3. L!Place(e, h) = k
    <3>1. L!Place(e, h) = CHOOSE i \in 1..Len(ls[h]) : ls[h][i] = e
      BY <1>1 DEF L!Place
    <3> QED BY <1>5, <2>1, <3>1
  <2>4. e \notin L!Loose
    BY <1>5, <2>2 DEF L!Loose
  <2>5. L!Without(e) = [g \in Heads |-> IF g = h THEN L!RemoveAt(ls[h], k) ELSE ls[g]]
    BY <1>2, <2>2, <2>3
  <2> QED BY <1>1, <2>4, <2>5
<1> QED BY <1>4, <1>5

(* An entry, wherever it is, becomes a ring of its own.                    *)
LEMMA UnlinkThreads ==
    ASSUME NodesAssumption, DInv, NEW ls, Threads(next, stale, ls), NEW e \in Entries,
           NEW m, m = [[next EXCEPT ![prev[e]] = next[e]] EXCEPT ![e] = e]
    PROVE  Threads(m, stale, L!Without(e))
<1>1. /\ stale \in SUBSET Heads /\ next \in [Nodes -> Nodes] /\ e \in Nodes \ stale
      /\ prev[next[e]] = e
  BY DEF DInv, WellLinked, Links, Nodes, NodesAssumption
<1>2. CASE next[e] = e
  <2>1. m = next
    BY <1>1, <1>2
  <2> QED BY <1>2, <2>1, WithoutIs
<1>3. CASE next[e] # e
  <2>1. PICK h \in Heads : \E k \in 1..Len(ls[h]) : ls[h][k] = e
    BY <1>3 DEF Threads
  <2>2. PICK k \in 1..Len(ls[h]) : ls[h][k] = e
    BY <2>1
  <2>3. Spots(ls, stale)
    BY <1>1, AtApart
  <2>4. /\ h \in Usable /\ At(ls, h, k) = e
        /\ k \in 0..Len(ls[h]) /\ k - 1 \in 0..Len(ls[h]) /\ k - 1 + 1 = k
    BY <2>2, <2>3 DEF Spots, Usable
  <2>5. next[e] = At(ls, h, k + 1) /\ prev[e] = At(ls, h, k - 1)
    BY <2>4, Backwards
  <2>6. Threads(m, stale, [ls EXCEPT ![h] = L!RemoveAt(ls[h], k)])
    BY <1>1, <2>2, <2>5, DropThreads
  <2> QED BY <2>2, <2>6, WithoutIs
<1> QED BY <1>2, <1>3

(* An entry leaves its list, if it is in one.                              *)
LEMMA TakeStep ==
    ASSUME NodesAssumption, DInv, DInv', NEW ls, Threads(next, stale, ls),
           NEW e \in Entries, UNCHANGED stale, Relink(INIT_LIST_HEAD(Unlink(Links, e), e))
    PROVE  (\E new : Threads(next', stale', new)) /\ [L!Next]_<<ListOf, stale>>
<1>1. next' = [[next EXCEPT ![prev[e]] = next[e]] EXCEPT ![e] = e]
  BY DEF Relink, INIT_LIST_HEAD, Unlink, __list_del, Links
<1>2. stale \in SUBSET Heads /\ stale' = stale
  BY DEF DInv
<1>3. Threads(next', stale', L!Without(e))
  BY <1>1, <1>2, UnlinkThreads
<1>4. ListOf = ls
  BY ListOfIs
<1>5. ListOf' = L!Without(e)
  BY <1>2, <1>3, ListsAre DEF ListOf
<1>6. CASE next[e] = e
  <2>1. ListOf' = ListOf
    BY <1>4, <1>5, <1>6, WithoutIs
  <2> QED BY <1>2, <1>3, <2>1
<1>7. CASE next[e] # e
  <2>1. PICK h \in Heads : \E k \in 1..Len(ls[h]) : ls[h][k] = e
    BY <1>7 DEF Threads
  <2>2. e \notin L!Loose
    BY <2>1, WithoutIs
  <2>3. L!Take
    BY <1>2, <1>5, <2>2 DEF L!Take
  <2> QED BY <1>3, <2>3 DEF L!Next
<1> QED BY <1>6, <1>7

(* An entry goes to an end of a list from wherever it is.                  *)
LEMMA MoveStep ==
    ASSUME NodesAssumption, DInv, DInv', NEW ls, Threads(next, stale, ls),
           NEW e \in Entries, NEW head \in Usable, UNCHANGED stale,
           LET l == Unlink(Links, e) IN
           \/ Relink(__list_add(l, e, head, l.next[head]))
           \/ Relink(__list_add(l, e, l.prev[head], head))
    PROVE  (\E new : Threads(next', stale', new)) /\ L!Next
<1> DEFINE w == Unlink(Links, e)
           u == INIT_LIST_HEAD(w, e)
           mid == L!Without(e)
<1>1. /\ WellLinked(Links, stale) /\ Links.next = next /\ Links.prev = prev
      /\ stale \in SUBSET Nodes /\ stale \in SUBSET Heads /\ head \in Heads \ stale
      /\ e \in Nodes \ stale /\ head \in Nodes \ stale /\ head # e
  BY DEF DInv, Links, Nodes, Usable, NodesAssumption
<1>2. u = INIT_LIST_HEAD(Unlink(Links, e), e)
  OBVIOUS
<1>19. u.next = [[next EXCEPT ![prev[e]] = next[e]] EXCEPT ![e] = e]
  BY DEF INIT_LIST_HEAD, Unlink, __list_del, Links
<1>3. w.next \in [Nodes -> Nodes] /\ w.prev \in [Nodes -> Nodes]
  BY <1>1 DEF Unlink, __list_del, WellLinked
<1>4. u.next[head] = w.next[head] /\ u.prev[head] = w.prev[head]
  <2> HIDE DEF w
  <2> QED BY <1>1, <1>3 DEF INIT_LIST_HEAD
<1>5. \/ Relink(__list_add(w, e, head, w.next[head]))
      \/ Relink(__list_add(w, e, w.prev[head], head))
  OBVIOUS
<1> HIDE DEF u
<1>6. WellLinked(u, stale) /\ u.next[e] = e
  BY ONLY <1>1, <1>2, UnlinkKeeps
<1>7. /\ u.next[head] \in Nodes \ stale /\ u.prev[head] \in Nodes \ stale
      /\ u.next[head] # e /\ u.prev[head] # e
      /\ u.next[u.prev[head]] = head /\ u.next \in [Nodes -> Nodes]
  BY <1>1, <1>6 DEF WellLinked
<1>8. Threads(u.next, stale, mid)
  BY <1>19, UnlinkThreads
<1> HIDE DEF mid
<1>9. Spots(mid, stale)
  BY <1>1, <1>8, AtApart
<1>10. Len(mid[head]) \in Nat /\ At(mid, head, 0) = head /\ At(mid, head, Len(mid[head]) + 1) = head
  BY <1>1, <1>9 DEF Spots
<1>11. u.next[head] = At(mid, head, 1)
  <2>1. 0 \in 0..Len(mid[head]) /\ 0 + 1 = 1
    BY <1>10
  <2> QED BY <1>1, <1>8, <1>10, <2>1 DEF Threads
<1>12. u.prev[head] = At(mid, head, Len(mid[head]))
  <2> DEFINE n == At(mid, head, Len(mid[head]))
  <2>1. u.next[n] = head
    BY <1>1, <1>8, <1>10 DEF Threads
  <2>2. n \in Nodes \ stale
    <3>1. CASE Len(mid[head]) = 0
      BY <1>1, <1>10, <3>1
    <3>2. CASE Len(mid[head]) # 0
      <4>1. n \in Entries
        BY <1>1, <1>9, <1>10, <3>2 DEF Spots
      <4> HIDE DEF n
      <4> QED BY <1>1, <4>1 DEF NodesAssumption, Nodes
    <3> QED BY <3>1, <3>2
  <2> HIDE DEF n
  <2>3. u.prev[u.next[n]] = n
    BY <1>6, <2>2 DEF WellLinked
  <2> QED BY <2>1, <2>3 DEF n
<1>13. ASSUME NEW x \in Nodes \ stale, NEW y \in Nodes \ stale,
              x # e, y # e, u.next[x] = y, Relink(__list_add(w, e, x, y))
       PROVE  next' = [u.next EXCEPT ![e] = y, ![x] = e]
  <2>1. __list_add(w, e, x, y) = __list_add(u, e, x, y)
    BY <1>1, <1>2, <1>13, MoveKeeps
  <2> HIDE DEF w
  <2> QED BY <1>13, <2>1 DEF Relink, __list_add
<1> HIDE DEF w
<1>14. \E k \in {1, Len(mid[head]) + 1} :
          next' = [u.next EXCEPT ![e] = At(mid, head, k), ![At(mid, head, k - 1)] = e]
  <2>1. CASE Relink(__list_add(w, e, head, w.next[head]))
    <3>1. next' = [u.next EXCEPT ![e] = u.next[head], ![head] = e]
      BY <1>1, <1>4, <1>7, <1>13, <2>1
    <3>2. 1 - 1 = 0
      OBVIOUS
    <3>3. next' = [u.next EXCEPT ![e] = At(mid, head, 1), ![At(mid, head, 1 - 1)] = e]
      BY <1>10, <1>11, <3>1, <3>2
    <3> QED BY <3>3
  <2>2. CASE Relink(__list_add(w, e, w.prev[head], head))
    <3>1. next' = [u.next EXCEPT ![e] = head, ![u.prev[head]] = e]
      BY <1>1, <1>4, <1>7, <1>13, <2>2
    <3> DEFINE k == Len(mid[head]) + 1
    <3>2. k - 1 = Len(mid[head])
      BY <1>10
    <3>3. next' = [u.next EXCEPT ![e] = At(mid, head, k), ![At(mid, head, k - 1)] = e]
      BY <1>10, <1>12, <3>1, <3>2
    <3> HIDE DEF k
    <3>4. \E q \in {k} : next' = [u.next EXCEPT ![e] = At(mid, head, q), ![At(mid, head, q - 1)] = e]
      BY <3>3
    <3> QED BY <3>4 DEF k
  <2> QED BY <1>5, <2>1, <2>2
<1>15. PICK k \in {1, Len(mid[head]) + 1} :
          next' = [u.next EXCEPT ![e] = At(mid, head, k), ![At(mid, head, k - 1)] = e]
  BY <1>14
<1> DEFINE new == [mid EXCEPT ![head] = L!InsertAt(mid[head], k, e)]
<1>16. Threads(next', stale, new)
  <2>1. k \in 1..Len(mid[head]) + 1
    BY <1>10
  <2> QED BY <1>1, <1>6, <1>7, <1>8, <1>15, <2>1, PutThreads
<1>17. ListOf' = new
  <2> HIDE DEF new
  <2> QED BY <1>1, <1>16, ListsAre DEF ListOf
<1>18. L!Move
  BY <1>1, <1>17 DEF L!Move, L!Usable, mid
<1> QED BY <1>16, <1>18 DEF L!Next

(* All of one list goes to the front of another.                           *)
LEMMA JoinStep ==
    ASSUME NodesAssumption, DInv, NEW ls, Threads(next, stale, ls),
           NEW from \in Usable, NEW head \in Usable, from # head, ~list_empty(from),
           \/ /\ Relink(__list_splice(Links, from, head))
              /\ stale' = stale \cup {from}
           \/ /\ Relink(INIT_LIST_HEAD(__list_splice(Links, from, head), from))
              /\ stale' = stale
    PROVE  (\E new : Threads(next', stale', new)) /\ L!Next
<1> DEFINE N == Len(ls[from])
           new == [ls EXCEPT ![head] = ls[from] \o @, ![from] = <<>>]
           m == [next EXCEPT ![head] = next[from], ![prev[from]] = next[head]]
           dead == stale \cup {from}
<1>1. /\ stale \in SUBSET Heads /\ next \in [Nodes -> Nodes]
      /\ from \in Heads \ stale /\ head \in Heads \ stale /\ next[from] # from
      /\ dead \in SUBSET Heads /\ from \in dead /\ dead \ {from} = stale
  BY DEF DInv, WellLinked, Links, Usable, list_empty
<1>2. Spots(ls, stale)
  BY <1>1, AtApart
<1>3. /\ N \in Nat /\ Len(ls[head]) \in Nat /\ At(ls, from, N + 1) = from
      /\ At(ls, from, 0) = from /\ At(ls, head, 0) = head
  BY <1>1, <1>2 DEF Spots
<1>4. /\ next[from] = At(ls, from, 1) /\ next[head] = At(ls, head, 1) /\ prev[from] = At(ls, from, N)
  <2>1. 0 \in 0..N /\ N \in 0..N /\ 0 \in 0..Len(ls[head]) /\ 0 + 1 = 1
    BY <1>3
  <2> QED BY <1>3, <2>1, Backwards
<1>5. N # 0
  BY <1>1, <1>3, <1>4
<1>6. m \in [Nodes -> Nodes]
  <2>1. next[from] \in Nodes /\ next[head] \in Nodes
    BY <1>1 DEF Nodes
  <2> QED BY <1>1, <2>1
<1>7. Threads(m, dead, new)
  BY <1>1, <1>4, <1>5, SpliceThreads
<1>8. \/ next' = m /\ stale' = dead
      \/ next' = [m EXCEPT ![from] = from] /\ stale' = stale
  <2> DEFINE q == __list_splice(Links, from, head)
  <2>1. q.next = m
    BY DEF __list_splice, Links
  <2>2. \/ Relink(q) /\ stale' = dead
        \/ Relink(INIT_LIST_HEAD(q, from)) /\ stale' = stale
    OBVIOUS
  <2> HIDE DEF m, q, dead
  <2>3. Relink(q) => next' = m
    BY <2>1 DEF Relink
  <2>4. Relink(INIT_LIST_HEAD(q, from)) => next' = [m EXCEPT ![from] = from]
    BY <2>1 DEF Relink, INIT_LIST_HEAD
  <2> QED BY <2>2, <2>3, <2>4, Zenon
<1> HIDE DEF m
<1>9. Threads([m EXCEPT ![from] = from], dead \ {from}, new)
  <2> HIDE DEF new, dead
  <2> QED BY <1>1, <1>6, <1>7, InitThreads
<1>10. Threads(next', stale', new) /\ stale' \in SUBSET Heads /\ stale' \in {stale, dead}
  <2> HIDE DEF new
  <2> QED BY <1>1, <1>7, <1>8, <1>9
<1>11. ListOf = ls
  BY ListOfIs
<1>12. ListOf' = new
  <2> HIDE DEF new
  <2> QED BY <1>10, ListsAre DEF ListOf
<1>13. L!Join
  BY <1>1, <1>10, <1>11, <1>12 DEF L!Join, L!Usable
<1> HIDE DEF new
<1> QED BY <1>10, <1>13 DEF L!Next

(* The others, and the calls that change nothing.                          *)
LEMMA TurnStep ==
    ASSUME NodesAssumption, DInv, NEW ls, Threads(next, stale, ls),
           NEW h \in Heads, list_reverse(h) \/ Reinit(h)
    PROVE  (\E new : Threads(next', stale', new)) /\ L!Next
<1>1. stale \in SUBSET Heads /\ next \in [Nodes -> Nodes]
  BY DEF DInv, WellLinked, Links
<1>2. ListOf = ls
  BY ListOfIs
<1>3. CASE list_reverse(h)
  <2> DEFINE new == [ls EXCEPT ![h] = L!Reverse(ls[h])]
  <2>1. /\ h \in Usable /\ stale' = stale
        /\ next' = [n \in Nodes |-> IF n \in Ring(h) THEN prev[n] ELSE next[n]]
    BY <1>3 DEF list_reverse
  <2>2. Threads(next', stale', new)
    BY <2>1, TurnThreads
  <2>3. ListOf' = new
    <3> HIDE DEF new
    <3> QED BY <1>1, <2>1, <2>2, ListsAre DEF ListOf
  <2>4. L!Turn
    BY <1>1, <1>2, <2>1, <2>3 DEF L!Turn, L!Usable, L!Becomes, Usable
  <2> HIDE DEF new
  <2> QED BY <2>2, <2>4 DEF L!Next
<1>4. CASE Reinit(h)
  <2>1. /\ h \in stale /\ stale' = stale \ {h} /\ next' = [next EXCEPT ![h] = h]
    BY <1>4 DEF Reinit, Relink, INIT_LIST_HEAD, Links
  <2>2. Threads(next', stale', ls)
    BY <1>1, <2>1, InitThreads
  <2>3. ListOf' = ls
    BY <1>1, <2>1, <2>2, ListsAre DEF ListOf
  <2>4. L!Renew
    BY <1>2, <2>1, <2>3 DEF L!Renew
  <2> QED BY <2>2, <2>4 DEF L!Next
<1> QED BY <1>3, <1>4

(* At first every list is empty.                                           *)
LEMMA ListsStart ==
    ASSUME NodesAssumption, Init
    PROVE  (\E ls : Threads(next, stale, ls)) /\ L!Init
<1> DEFINE ls == [h \in Heads |-> <<>>]
<1>1. next = [n \in Nodes |-> n] /\ stale = {} /\ stale \in SUBSET Heads
  BY DEF Init
<1>2. \A h \in Heads : ls[h] = <<>> /\ Len(ls[h]) = 0 /\ h \in Nodes
  BY DEF Nodes
<1>3. ls \in [Heads -> Seq(Entries)]
  OBVIOUS
<1> HIDE DEF ls
<1>4. \A h \in Heads : \A i \in Int : At(ls, h, i) = h
  BY <1>2 DEF At
<1>5. ASSUME NEW h \in Heads \ stale, NEW i \in 0..Len(ls[h])
      PROVE  next[At(ls, h, i)] = At(ls, h, i + 1)
  BY <1>1, <1>2, <1>4
<1>6. \A g, h \in Heads : \A i \in 1..Len(ls[g]), j \in 1..Len(ls[h]) :
         ls[g][i] = ls[h][j] => g = h /\ i = j
  BY <1>2
<1>7. Threads(next, stale, ls)
  BY <1>1, <1>3, <1>5, <1>6 DEF Threads, Nodes
<1>8. ListOf = ls
  <2>1. stale \in SUBSET Heads
    BY <1>1
  <2> QED BY <1>7, <2>1, ListsAre DEF ListOf
<1> QED BY <1>1, <1>7, <1>8 DEF L!Init, ls

(* Every operation leaves lists along the links, and is a step of Lists.   *)
LEMMA ListsStep ==
    ASSUME NodesAssumption, DInv, DInv', NEW ls, Threads(next, stale, ls), [Next]_vars
    PROVE  (\E new : Threads(next', stale', new)) /\ [L!Next]_<<ListOf, stale>>
<1> DEFINE Goal == (\E new : Threads(next', stale', new)) /\ [L!Next]_<<ListOf, stale>>
<1>1. /\ stale \subseteq Heads /\ Usable \subseteq Linked /\ Heads \cap Entries = {}
      /\ next \in [Nodes -> Nodes] /\ Usable = Heads \ stale
  BY DEF DInv, WellLinked, Links, Usable, Linked, NodesAssumption
<1>2. ASSUME NEW e \in Entries, NEW head \in Heads, list_unshift(e, head) \/ list_push(e, head)
      PROVE  Goal
  BY <1>1, <1>2, AddStep DEF list_unshift, list_push
<1>3. ASSUME NEW e \in Entries, NEW head \in Heads, list_move(e, head) \/ list_move_tail(e, head)
      PROVE  Goal
  BY <1>3, MoveStep DEF list_move, list_move_tail
<1>4. ASSUME NEW e \in Entries, NEW x \in Nodes, list_add_before(e, x) \/ list_add_after(e, x)
      PROVE  Goal
  BY <1>4, AddStep DEF list_add_before, list_add_after
<1>5. ASSUME NEW head \in Heads, list_shift(head) \/ list_pop(head) PROVE Goal
  <2>1. head \in Usable /\ next[head] # head /\ UNCHANGED stale
    BY <1>5 DEF list_shift, list_pop, list_empty
  <2>2. Spots(ls, stale)
    BY <1>1, AtApart
  <2> DEFINE N == Len(ls[head])
  <2>3. N \in Nat /\ At(ls, head, 0) = head /\ At(ls, head, N + 1) = head
    BY <2>2 DEF Spots
  <2>4. next[head] = At(ls, head, 1) /\ prev[head] = At(ls, head, N)
    <3>1. 0 \in 0..N /\ N \in 0..N /\ 0 + 1 = 1
      BY <2>3
    <3> QED BY <2>1, <2>3, <3>1, Backwards
  <2>5. N # 0
    BY <2>1, <2>3, <2>4
  <2>6. next[head] \in Entries /\ prev[head] \in Entries
    <3>1. 1 \in 1..N /\ N \in 1..N
      BY <2>3, <2>5
    <3> QED BY <2>2, <2>4, <3>1 DEF Spots
  <2> HIDE DEF Goal
  <2>7. ASSUME NEW e \in Entries, Relink(INIT_LIST_HEAD(Unlink(Links, e), e)) PROVE Goal
    BY <2>1, <2>7, TakeStep DEF Goal
  <2> QED BY <1>5, <2>6, <2>7 DEF list_shift, list_pop
<1>6. ASSUME NEW head \in Heads, list_reverse(head) \/ Reinit(head) PROVE Goal
  BY <1>6, TurnStep
<1>7. ASSUME NEW e \in Entries, list_del(e) PROVE Goal
  BY <1>7, TakeStep DEF list_del
<1>8. ASSUME UNCHANGED vars PROVE Goal
  <2>1. Threads(next', stale', ls) /\ UNCHANGED stale
    BY <1>8 DEF vars
  <2>2. ListOf' = ListOf
    BY <1>1, <2>1, ListOfIs, ListsAre DEF ListOf
  <2> QED BY <2>1, <2>2
<1>9. ASSUME NEW from \in Heads, NEW head \in Heads,
             list_splice(from, head) \/ list_splice_init(from, head)
      PROVE  Goal
  <2>1. CASE UNCHANGED vars
    BY <1>8, <2>1
  <2>2. CASE ~UNCHANGED vars
    <3> HIDE DEF Goal
    <3>1. /\ from \in Usable /\ head \in Usable /\ from # head /\ ~list_empty(from)
          /\ \/ /\ Relink(__list_splice(Links, from, head))
                /\ stale' = stale \cup {from}
             \/ /\ Relink(INIT_LIST_HEAD(__list_splice(Links, from, head), from))
                /\ stale' = stale
      BY <1>9, <2>2 DEF list_splice, list_splice_init
    <3> QED BY <3>1, JoinStep DEF Goal
  <2> QED BY <2>1, <2>2
<1> HIDE DEF Goal
<1>10. Goal
  BY <1>2, <1>3, <1>4, <1>5, <1>6, <1>7, <1>8, <1>9 DEF Next
<1> QED BY <1>10 DEF Goal

(* There are lists along the links.                                        *)
Listed == \E ls : Threads(next, stale, ls)

(* There are always lists, and they change as Lists says.                  *)
LEMMA ListedInvariance == NodesAssumption => (Spec => []Listed /\ ImplementsLists)
<1> SUFFICES ASSUME NodesAssumption PROVE Spec => []Listed /\ ImplementsLists
  OBVIOUS
<1>1. Init => Listed /\ L!Init
  BY ListsStart DEF Listed
<1>2. DInv /\ DInv' /\ Listed /\ [Next]_vars => Listed' /\ [L!Next]_<<ListOf, stale>>
  <2> SUFFICES ASSUME DInv, DInv', Listed, [Next]_vars
               PROVE  Listed' /\ [L!Next]_<<ListOf, stale>>
    OBVIOUS
  <2>1. PICK ls : Threads(next, stale, ls)
    BY DEF Listed
  <2>2. (\E new : Threads(next', stale', new)) /\ [L!Next]_<<ListOf, stale>>
    BY <2>1, ListsStep
  <2>3. Listed'
    BY <2>2 DEF Listed, Threads, At
  <2> QED BY <2>2, <2>3
<1> QED BY <1>1, <1>2, Invariance, PTL DEF Spec, ImplementsLists, L!Spec

(* The rings are sequences, whatever is called and in whatever order.      *)
THEOREM RingsAreLists == NodesAssumption => (Spec => ImplementsLists)
BY ListedInvariance
-----------------------------------------------------------------------------
(* Counting and searching.                                                 *)

(* A search that goes on from x to to[x] while x is in Open, and succeeds  *)
(* where x is in Hit, is a function: the pairs from which it succeeds are  *)
(* the least set that has those of Hit and what leads to it.               *)
SearchOf(P, Hit, Open, to, sc) ==
    sc = [x \in P |-> x \in Hit \/ (x \in Open /\ sc[to[x]])]

(* There is such a function.                                               *)
LEMMA SearchExists ==
    ASSUME NEW P, NEW Hit, NEW Open, NEW to \in [P -> P]
    PROVE  \E sc : SearchOf(P, Hit, Open, to, sc)
<1> DEFINE Closed(T) == \A x \in P : x \in Hit \/ (x \in Open /\ to[x] \in T) => x \in T
           F == {x \in P : \A T \in SUBSET P : Closed(T) => x \in T}
           U == {x \in P : x \in Hit \/ (x \in Open /\ to[x] \in F)}
           sc == [x \in P |-> x \in F]
<1>1. U \subseteq F
  OBVIOUS
<1>2. Closed(U)
  BY <1>1
<1>3. F \subseteq U
  BY <1>2
<1>4. ASSUME NEW x \in P PROVE sc[to[x]] <=> to[x] \in F
  OBVIOUS
<1>5. ASSUME NEW x \in P PROVE x \in F <=> x \in Hit \/ (x \in Open /\ to[x] \in F)
  BY <1>1, <1>3
<1>6. ASSUME NEW x \in P PROVE (x \in F) = (x \in Hit \/ (x \in Open /\ sc[to[x]]))
  <2>1. x \in F <=> x \in Hit \/ (x \in Open /\ sc[to[x]])
    BY <1>4, <1>5
  <2> HIDE DEF F, sc
  <2> QED BY <2>1
<1>8. sc = [x \in P |-> x \in F]
  OBVIOUS
<1> HIDE DEF F, sc
<1>7. sc = [x \in P |-> x \in Hit \/ (x \in Open /\ sc[to[x]])]
  BY <1>6, <1>8, Zenon
<1>9. SearchOf(P, Hit, Open, to, sc)
  BY <1>7, Zenon DEF SearchOf
<1> QED BY <1>9

(* What the search of list_contain does at one pair of nodes.              *)
LEMMA ContainScan ==
    ASSUME DInv, NEW h \in Usable, NEW e
    PROVE  \E sc : /\ list_contain(h, e) <=> sc[<<next[h], prev[h]>>]
                   /\ \A b, a \in Nodes :
                         sc[<<b, a>>] <=>
                            \/ e \in {b, a}
                            \/ /\ next[b] # h /\ prev[a] # h
                               /\ prev[next[b]] # prev[a]
                               /\ prev[next[b]] # next[prev[a]]
                               /\ sc[<<next[b], prev[a]>>]
<1> DEFINE P == Nodes \X Nodes
           Hit == {x \in P : e \in {x[1], x[2]}}
           Open == {x \in P : /\ next[x[1]] # h /\ prev[x[2]] # h
                             /\ prev[next[x[1]]] # prev[x[2]]
                             /\ prev[next[x[1]]] # next[prev[x[2]]]}
           to == [x \in P |-> <<next[x[1]], prev[x[2]]>>]
           Fix(sc) == sc = [x \in Nodes \X Nodes |->
                              LET before == next[x[1]]
                                  after  == prev[x[2]]
                              IN  \/ e \in {x[1], x[2]}
                                  \/ /\ before # h /\ after # h
                                     /\ prev[before] # after
                                     /\ prev[before] # next[after]
                                     /\ sc[<<before, after>>]]
           scan == CHOOSE sc : Fix(sc)
<1>1. next \in [Nodes -> Nodes] /\ prev \in [Nodes -> Nodes]
  BY DEF DInv, WellLinked, Links
<1>2. to \in [P -> P]
  BY <1>1
<1>9. PICK sc : SearchOf(P, Hit, Open, to, sc)
  <2> HIDE DEF P, Hit, Open, to
  <2> QED BY <1>2, SearchExists
<1>3. sc = [x \in P |-> x \in Hit \/ (x \in Open /\ sc[to[x]])]
  BY <1>9, Zenon DEF SearchOf
<1>4. ASSUME NEW x \in P
      PROVE  (x \in Hit \/ (x \in Open /\ sc[to[x]]))
               = (\/ e \in {x[1], x[2]}
                  \/ /\ next[x[1]] # h /\ prev[x[2]] # h
                     /\ prev[next[x[1]]] # prev[x[2]]
                     /\ prev[next[x[1]]] # next[prev[x[2]]]
                     /\ sc[<<next[x[1]], prev[x[2]]>>])
  BY Zenon
<1>5. Fix(sc)
  BY <1>3, <1>4, Zenon
<1>6. Fix(scan)
  BY <1>5, Zenon
<1>7. list_contain(h, e) <=> scan[<<next[h], prev[h]>>]
  BY Zenon DEF list_contain
<1> HIDE DEF scan
<1>8. ASSUME NEW b \in Nodes, NEW a \in Nodes
      PROVE  scan[<<b, a>>] <=>
                \/ e \in {b, a}
                \/ /\ next[b] # h /\ prev[a] # h
                   /\ prev[next[b]] # prev[a]
                   /\ prev[next[b]] # next[prev[a]]
                   /\ scan[<<next[b], prev[a]>>]
  <2>1. <<b, a>> \in Nodes \X Nodes /\ <<b, a>>[1] = b /\ <<b, a>>[2] = a
    OBVIOUS
  <2>2. scan[<<b, a>>] = (\/ e \in {<<b, a>>[1], <<b, a>>[2]}
                          \/ /\ next[<<b, a>>[1]] # h /\ prev[<<b, a>>[2]] # h
                             /\ prev[next[<<b, a>>[1]]] # prev[<<b, a>>[2]]
                             /\ prev[next[<<b, a>>[1]]] # next[prev[<<b, a>>[2]]]
                             /\ scan[<<next[<<b, a>>[1]], prev[<<b, a>>[2]]>>])
    BY <1>6, <2>1, Zenon
  <2> QED BY <2>1, <2>2
<1> QED BY <1>7, <1>8

(* The two ends have passed k entries each and meet d entries further on:  *)
(* what they have not seen is from place k + 1 to place k + d + 1.         *)
LEMMA ContainIs ==
    ASSUME NodesAssumption, DInv, NEW ls, Threads(next, stale, ls), NEW h \in Usable,
           NEW e \in Entries
    PROVE  list_contain(h, e) <=> \E i \in 1..Len(ls[h]) : ls[h][i] = e
<1> DEFINE N == Len(ls[h])
<1>1. h \in Heads /\ h \notin Entries /\ h \in Nodes /\ Spots(ls, stale)
  <2>1. stale \in SUBSET Heads
    BY DEF DInv
  <2>2. Spots(ls, stale)
    BY <2>1, AtApart
  <2> QED BY <2>2 DEF Usable, NodesAssumption, Nodes
<1>2. /\ N \in Nat /\ At(ls, h, 0) = h /\ At(ls, h, N + 1) = h
      /\ \A i \in 1..N : At(ls, h, i) = ls[h][i]
      /\ \A i, j \in 0..N : At(ls, h, i) = At(ls, h, j) => i = j
  BY <1>1 DEF Spots
<1>3. \A i \in 0..N : /\ next[At(ls, h, i)] = At(ls, h, i + 1)
                       /\ prev[At(ls, h, i + 1)] = At(ls, h, i)
                       /\ At(ls, h, i) \in Nodes
  BY Backwards
<1>4. PICK sc : /\ list_contain(h, e) <=> sc[<<next[h], prev[h]>>]
                /\ \A b, a \in Nodes :
                      sc[<<b, a>>] <=>
                         \/ e \in {b, a}
                         \/ /\ next[b] # h /\ prev[a] # h
                            /\ prev[next[b]] # prev[a]
                            /\ prev[next[b]] # next[prev[a]]
                            /\ sc[<<next[b], prev[a]>>]
  BY ContainScan
<1> HIDE DEF N
<1> DEFINE Agree(k, d) ==
              sc[<<At(ls, h, k + 1), At(ls, h, k + d + 1)>>]
                 <=> \E i \in k + 1..k + d + 1 : At(ls, h, i) = e
           Bad == {d \in Nat : \E k \in Nat : N = k + k + d + 1 /\ ~Agree(k, d)}
<1>5. ASSUME NEW k \in Nat, NEW d \in Nat, N = k + k + d + 1,
             d >= 2 => Agree(k + 1, d - 2)
      PROVE  Agree(k, d)
  <2> DEFINE p == k + 1
             q == k + d + 1
             b == At(ls, h, p)
             a == At(ls, h, q)
  <2>1. /\ p \in 1..N /\ q \in 1..N /\ p - 1 \in 0..N /\ p - 1 + 1 = p /\ q - 1 \in 0..N
        /\ q - 1 + 1 = q /\ p \in 0..N /\ q \in 0..N
    BY <1>2, <1>5
  <2>2. /\ b \in Nodes /\ a \in Nodes
        /\ next[b] = At(ls, h, p + 1) /\ prev[a] = At(ls, h, q - 1)
        /\ prev[next[b]] = b /\ next[prev[a]] = a
    BY <1>3, <2>1
  <2>3. sc[<<b, a>>] <=>
           \/ b = e \/ a = e
           \/ /\ next[b] # h /\ prev[a] # h /\ b # prev[a] /\ b # a
              /\ sc[<<next[b], prev[a]>>]
    <3> HIDE DEF b, a
    <3> QED BY <1>4, <2>2
  <2>4. CASE d = 0
    <3>1. p = q /\ a = b /\ \A i \in p..q : i = p
      BY <2>4
    <3>2. sc[<<b, a>>] <=> b = e
      BY <2>3, <3>1
    <3>3. p \in p..q
      BY <1>5, <2>4
    <3>4. (\E i \in p..q : At(ls, h, i) = e) <=> b = e
      BY <3>1, <3>3
    <3> QED BY <3>2, <3>4
  <2>5. CASE d = 1
    <3>1. q - 1 = p /\ p \in p..q /\ q \in p..q /\ \A i \in p..q : i = p \/ i = q
      BY <1>5, <2>5
    <3>2. b = prev[a]
      BY <2>2, <3>1
    <3>3. sc[<<b, a>>] <=> b = e \/ a = e
      BY <2>3, <3>2
    <3>4. (\E i \in p..q : At(ls, h, i) = e) <=> b = e \/ a = e
      BY <3>1
    <3> QED BY <3>3, <3>4
  <2>6. CASE d >= 2
    <3>1. /\ p + 1 \in 1..N /\ q - 1 \in 1..N /\ p # q - 1 /\ p # q
          /\ 0 \in 0..N /\ p + 1 \in 0..N /\ p + 1 # 0 /\ q - 1 # 0
          /\ q - 1 = k + 1 + (d - 2) + 1 /\ p + 1 = k + 1 + 1
      BY <1>2, <1>5, <2>1, <2>6
    <3>2. next[b] # h /\ prev[a] # h /\ b # prev[a] /\ b # a
      BY <1>2, <2>1, <2>2, <3>1
    <3>3. sc[<<next[b], prev[a]>>] <=> \E i \in p + 1..q - 1 : At(ls, h, i) = e
      BY <1>5, <2>2, <2>6, <3>1
    <3>4. /\ \A i \in p..q : i = p \/ i = q \/ i \in p + 1..q - 1
          /\ \A i \in p + 1..q - 1 : i \in p..q
          /\ p \in p..q /\ q \in p..q
      BY <1>5, <2>6
    <3>5. (\E i \in p..q : At(ls, h, i) = e)
             <=> b = e \/ a = e \/ \E i \in p + 1..q - 1 : At(ls, h, i) = e
      <4> HIDE DEF p, q
      <4> QED BY <3>4
    <3> HIDE DEF b, a, p, q
    <3>6. sc[<<b, a>>] <=> \E i \in p..q : At(ls, h, i) = e
      BY <2>3, <3>2, <3>3, <3>5
    <3> QED BY <3>6 DEF b, a, p, q
  <2> QED BY <1>5, <2>4, <2>5, <2>6
<1>6. Bad = {}
  <2> SUFFICES ASSUME Bad # {} PROVE FALSE
    OBVIOUS
  <2> HIDE DEF Agree
  <2>1. PICK d \in Bad : \A c \in Bad : ~(c < d)
    <3>1. Bad \in SUBSET Nat
      OBVIOUS
    <3> HIDE DEF Bad
    <3> QED BY <3>1, LeastElement
  <2>2. PICK k \in Nat : N = k + k + d + 1 /\ ~Agree(k, d)
    OBVIOUS
  <2>3. d >= 2 => Agree(k + 1, d - 2)
    <3> SUFFICES ASSUME d >= 2 PROVE Agree(k + 1, d - 2)
      OBVIOUS
    <3>1. d - 2 \in Nat /\ d - 2 < d /\ k + 1 \in Nat /\ N = k + 1 + (k + 1) + (d - 2) + 1
      BY <2>2
    <3> QED BY <2>1, <3>1
  <2> QED BY <1>5, <2>2, <2>3
<1>7. 0 \in 0..N /\ 0 + 1 = 1 /\ N \in 0..N
  BY <1>2
<1>8. next[h] = At(ls, h, 1) /\ prev[h] = At(ls, h, N)
  BY <1>2, <1>3, <1>7
<1>9. CASE N = 0
  <2>1. next[h] = h /\ prev[h] = h
    BY <1>2, <1>8, <1>9
  <2>2. ~list_contain(h, e)
    BY <1>1, <1>4, <2>1
  <2> QED BY <1>9, <2>2 DEF N
<1>10. CASE N # 0
  <2>1. N - 1 \in Nat /\ N = 0 + 0 + (N - 1) + 1 /\ 0 + 1 = 1 /\ 0 + (N - 1) + 1 = N
    BY <1>2, <1>10
  <2>2. Agree(0, N - 1)
    <3> HIDE DEF Agree
    <3> QED BY <1>6, <2>1
  <2>3. sc[<<At(ls, h, 1), At(ls, h, N)>>] <=> \E i \in 1..N : At(ls, h, i) = e
    BY <2>1, <2>2
  <2> QED BY <1>2, <1>4, <1>8, <2>3 DEF N
<1> QED BY <1>9, <1>10

(* list_size counts the entries of a list.                                 *)
LEMMA SizeIs ==
    ASSUME NodesAssumption, DInv, NEW ls, Threads(next, stale, ls), NEW h \in Usable
    PROVE  list_size(h) = Len(ls[h])
<1>1. h \in Heads /\ h \notin Entries /\ Spots(ls, stale) /\ stale \in SUBSET Heads
  <2>1. stale \in SUBSET Heads
    BY DEF DInv
  <2>2. Spots(ls, stale)
    BY <2>1, AtApart
  <2> QED BY <2>1, <2>2 DEF Usable, NodesAssumption
<1>2. Len(ls[h]) \in Nat /\ At(ls, h, 0) = h
      /\ \A i \in 1..Len(ls[h]) : At(ls, h, i) = ls[h][i] /\ ls[h][i] \in Entries
  BY <1>1 DEF Spots
<1>3. Ring(h) = {At(ls, h, i) : i \in 0..Len(ls[h])}
  BY RingIs
<1>4. Ring(h) \ {h} = {ls[h][i] : i \in 1..Len(ls[h])}
  BY <1>1, <1>2, <1>3
<1>5. Cardinality({ls[h][i] : i \in 1..Len(ls[h])}) = Len(ls[h])
  BY <1>1, ListFits
<1> QED BY <1>4, <1>5 DEF list_size

(* list_contain and list_size say what walking the list says.              *)
THEOREM SearchesAgree == NodesAssumption => (Spec => []ContainAgrees)
<1> SUFFICES ASSUME NodesAssumption PROVE Spec => []ContainAgrees
  OBVIOUS
<1>1. DInv /\ Listed => ContainAgrees
  <2> SUFFICES ASSUME DInv, Listed, NEW h \in Usable
               PROVE  /\ list_size(h) = Len(Along(next, h))
                      /\ \A e \in Entries :
                            list_contain(h, e) <=>
                               \E i \in 1..Len(Along(next, h)) : Along(next, h)[i] = e
    BY DEF ContainAgrees
  <2>1. PICK ls : Threads(next, stale, ls)
    BY DEF Listed
  <2>2. Along(next, h) = ls[h]
    <3>1. stale \in SUBSET Heads /\ h \in Heads \ stale
      BY DEF DInv, Usable
    <3> QED BY <2>1, <3>1, AlongIs
  <2>3. list_size(h) = Len(ls[h])
    BY <2>1, SizeIs
  <2>4. \A e \in Entries : list_contain(h, e) <=> \E i \in 1..Len(ls[h]) : ls[h][i] = e
    BY <2>1, ContainIs
  <2> QED BY <2>2, <2>3, <2>4
<1> QED BY <1>1, Invariance, ListedInvariance, PTL
=============================================================================
