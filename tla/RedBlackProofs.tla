---------------------------- MODULE RedBlackProofs ----------------------------
(***************************************************************************)
(* Proofs about RedBlack, for every finite set of data.                    *)
(*                                                                         *)
(* A tree is a search tree when its nodes can be given spans: s[n] is the  *)
(* data that a search passes n for.  A child has a smaller span than its   *)
(* parent, which is what takes the place of an induction over trees: a set *)
(* of nodes has one without children in the set (Lowest) and one without   *)
(* its parent in it (Highest).  From this the recursions of the code are   *)
(* shown to have the value they say they have (TreeRecursion), the visitor *)
(* to see the nodes in order, a search to find them and the tree to be     *)
(* freed once.                                                             *)
(*                                                                         *)
(* The inductive invariant gives every node a span and a black height, and *)
(* says where the one mistake is that an insertion may have made.          *)
(***************************************************************************)
EXTENDS RedBlack, FiniteSetTheorems, WellFoundedInduction, SequenceTheorems, TLAPS

-----------------------------------------------------------------------------
(* One assignment at a time.                                               *)

\* What an rb_node_t holds, once its fields are set.
Struct == [left : Cell, right : Cell, parent : Cell \cup {GARBAGE},
           color : {"red", "black"}]
\* A tree is a function from its nodes to what they hold.
IsTree(t) == t \in [DOMAIN t -> Struct]

\* rb_node_t.child[ side ].
Kid(t, n, side) == t[n][side]

\* !dir of the code's two directions.
LEMMA OtherSide ==
  /\ Other("left") = "right" /\ Other("right") = "left"
  /\ \A side \in Side : Other(side) \in Side /\ Other(side) # side /\ Other(Other(side)) = side
BY DEF Other, Side

\* The assignment to a parent changes that parent and no other field.
LEMMA SetParentResult ==
  ASSUME NEW t, IsTree(t), NEW n \in DOMAIN t, NEW p \in Cell
  PROVE  /\ IsTree(SetParent(t, n, p)) /\ DOMAIN SetParent(t, n, p) = DOMAIN t
         /\ \A m \in DOMAIN t :
              /\ \A sd \in Side : Kid(SetParent(t, n, p), m, sd) = Kid(t, m, sd)
              /\ SetParent(t, n, p)[m].parent = IF m = n THEN p ELSE t[m].parent
              /\ SetParent(t, n, p)[m].color = t[m].color
<1>1. /\ IsTree(SetParent(t, n, p)) /\ DOMAIN SetParent(t, n, p) = DOMAIN t
      /\ \A m \in DOMAIN t :
              /\ SetParent(t, n, p)[m].left = t[m].left
              /\ SetParent(t, n, p)[m].right = t[m].right
              /\ SetParent(t, n, p)[m].parent = IF m = n THEN p ELSE t[m].parent
              /\ SetParent(t, n, p)[m].color = t[m].color
  BY DEF SetParent, Struct, IsTree
<1>. QED
  BY <1>1 DEF Kid, Side

\* The assignment to a child changes that child and no other field.
LEMMA SetChildResult ==
  ASSUME NEW t, IsTree(t), NEW n \in DOMAIN t, NEW side \in Side, NEW c \in Cell
  PROVE  /\ IsTree(SetChild(t, n, side, c)) /\ DOMAIN SetChild(t, n, side, c) = DOMAIN t
         /\ \A m \in DOMAIN t :
              /\ \A sd \in Side : Kid(SetChild(t, n, side, c), m, sd)
                                    = IF m = n /\ sd = side THEN c ELSE Kid(t, m, sd)
              /\ SetChild(t, n, side, c)[m].parent = t[m].parent
              /\ SetChild(t, n, side, c)[m].color = t[m].color
<1>1. CASE side = "left"
  <2>1. /\ IsTree(SetChild(t, n, side, c)) /\ DOMAIN SetChild(t, n, side, c) = DOMAIN t
        /\ \A m \in DOMAIN t :
              /\ SetChild(t, n, side, c)[m].left = IF m = n THEN c ELSE t[m].left
              /\ SetChild(t, n, side, c)[m].right = t[m].right
              /\ SetChild(t, n, side, c)[m].parent = t[m].parent
              /\ SetChild(t, n, side, c)[m].color = t[m].color
    BY <1>1 DEF SetChild, Struct, IsTree
  <2>. QED
    BY <1>1, <2>1 DEF Kid, Side
<1>2. CASE side = "right"
  <2>1. /\ IsTree(SetChild(t, n, side, c)) /\ DOMAIN SetChild(t, n, side, c) = DOMAIN t
        /\ \A m \in DOMAIN t :
              /\ SetChild(t, n, side, c)[m].left = t[m].left
              /\ SetChild(t, n, side, c)[m].right = IF m = n THEN c ELSE t[m].right
              /\ SetChild(t, n, side, c)[m].parent = t[m].parent
              /\ SetChild(t, n, side, c)[m].color = t[m].color
    BY <1>2 DEF SetChild, Struct, IsTree
  <2>. QED
    BY <1>2, <2>1 DEF Kid, Side
<1>. QED
  BY <1>1, <1>2 DEF Side

\* r is t with child in the place of n under p, n on its side, and i handed over.
Rotated(t, r, n, side, child, p, i) ==
  /\ IsTree(r) /\ DOMAIN r = DOMAIN t
  /\ \A m \in DOMAIN t :
       /\ \A sd \in Side :
            Kid(r, m, sd) = IF m = child /\ sd = side THEN n
                            ELSE IF m = n /\ sd = Other(side) THEN i
                            ELSE IF m = p /\ sd = SideOf(t, n, p) THEN child
                            ELSE Kid(t, m, sd)
       /\ r[m].parent = IF m = child THEN p ELSE IF m = n THEN child
                        ELSE IF m = i /\ i # NIL THEN n ELSE t[m].parent
       /\ r[m].color = t[m].color

\* The whole of a rotation, field by field: six assignments at the most, to the
\* node, the child that takes its place, the child's inner child and the parent.
LEMMA RotateResult ==
  ASSUME NEW t, IsTree(t), NEW n \in DOMAIN t, NEW child \in DOMAIN t,
         NEW p \in DOMAIN t, NEW i \in DOMAIN t, NEW side \in Side
  PROVE  /\ {n, child, p, i} \subseteq Cell
         /\ child = Kid(t, n, Other(side)) /\ p = t[n].parent /\ i = Kid(t, child, side)
         /\ child # n /\ p # n /\ p # child /\ i # p
         => Rotated(t, Rotate(t, n, side), n, side, child, p, i)
<1> DEFINE t1 == SetChild(t, n, Other(side), i)
           t2 == IF i = NIL THEN t1 ELSE SetParent(t1, i, n)
           t3 == SetParent(t2, child, p)
           s == SideOf(t3, n, p)
           t4 == SetChild(t3, p, s, child)
           t5 == SetChild(t4, child, side, n)
           t6 == SetParent(t5, n, child)
<1>1. SUFFICES ASSUME {n, child, p, i} \subseteq Cell,
                      child = Kid(t, n, Other(side)), p = t[n].parent,
                      i = Kid(t, child, side),
                      child # n, p # n, p # child, i # p
               PROVE  Rotated(t, Rotate(t, n, side), n, side, child, p, i)
  OBVIOUS
<1>2. n \in Cell /\ child \in Cell /\ p \in Cell /\ i \in Cell /\ Other(side) \in Side /\ Other(side) # side
  BY <1>1, OtherSide
<1>3. Rotate(t, n, side) = t6
  BY <1>1 DEF Rotate, Kid
<1>4. /\ IsTree(t1) /\ DOMAIN t1 = DOMAIN t
      /\ \A m \in DOMAIN t :
           /\ \A sd \in Side : Kid(t1, m, sd) = IF m = n /\ sd = Other(side) THEN i ELSE Kid(t, m, sd)
           /\ t1[m].parent = t[m].parent /\ t1[m].color = t[m].color
  BY <1>2, SetChildResult
<1>5. /\ IsTree(t2) /\ DOMAIN t2 = DOMAIN t
      /\ \A m \in DOMAIN t :
           /\ \A sd \in Side : Kid(t2, m, sd) = Kid(t1, m, sd)
           /\ t2[m].parent = IF m = i /\ i # NIL THEN n ELSE t1[m].parent
           /\ t2[m].color = t1[m].color
  <2> HIDE DEF t1
  <2>1. CASE i = NIL
    BY <1>4, <2>1
  <2>2. CASE i # NIL
    <3>1. t2 = SetParent(t1, i, n)
      BY <2>2
    <3>. QED
      BY <1>2, <1>4, <2>2, <3>1, SetParentResult
  <2>. QED
    BY <2>1, <2>2
<1>6. /\ IsTree(t3) /\ DOMAIN t3 = DOMAIN t
      /\ \A m \in DOMAIN t :
           /\ \A sd \in Side : Kid(t3, m, sd) = Kid(t2, m, sd)
           /\ t3[m].parent = IF m = child THEN p ELSE t2[m].parent
           /\ t3[m].color = t2[m].color
  <2> HIDE DEF t2
  <2>. QED
    BY <1>2, <1>5, SetParentResult
<1>7. s = SideOf(t, n, p) /\ s \in Side
  <2> HIDE DEF t3, t2, t1
  <2>1. Kid(t3, p, "left") = Kid(t, p, "left")
    BY <1>1, <1>2, <1>4, <1>5, <1>6 DEF Side
  <2>. QED
    BY <2>1 DEF SideOf, Side, Kid
<1>8. /\ IsTree(t4) /\ DOMAIN t4 = DOMAIN t
      /\ \A m \in DOMAIN t :
           /\ \A sd \in Side : Kid(t4, m, sd) = IF m = p /\ sd = SideOf(t, n, p) THEN child
                                                   ELSE Kid(t3, m, sd)
           /\ t4[m].parent = t3[m].parent /\ t4[m].color = t3[m].color
  <2> HIDE DEF t3, s
  <2>1. IsTree(t3) /\ p \in DOMAIN t3 /\ s \in Side /\ child \in Cell
    BY <1>2, <1>6, <1>7
  <2>2. /\ IsTree(t4) /\ DOMAIN t4 = DOMAIN t3
        /\ \A m \in DOMAIN t3 :
             /\ \A sd \in Side : Kid(t4, m, sd) = IF m = p /\ sd = s THEN child ELSE Kid(t3, m, sd)
             /\ t4[m].parent = t3[m].parent /\ t4[m].color = t3[m].color
    BY <2>1, SetChildResult
  <2>. QED
    BY <1>6, <1>7, <2>2
<1>9. /\ IsTree(t5) /\ DOMAIN t5 = DOMAIN t
      /\ \A m \in DOMAIN t :
           /\ \A sd \in Side : Kid(t5, m, sd) = IF m = child /\ sd = side THEN n ELSE Kid(t4, m, sd)
           /\ t5[m].parent = t4[m].parent /\ t5[m].color = t4[m].color
  <2> HIDE DEF t4
  <2>. QED
    BY <1>2, <1>8, SetChildResult
<1>10. /\ IsTree(t6) /\ DOMAIN t6 = DOMAIN t
       /\ \A m \in DOMAIN t :
            /\ \A sd \in Side : Kid(t6, m, sd) = Kid(t5, m, sd)
            /\ t6[m].parent = IF m = n THEN child ELSE t5[m].parent
            /\ t6[m].color = t5[m].color
  <2> HIDE DEF t5
  <2>. QED
    BY <1>2, <1>9, SetParentResult
<1> HIDE DEF t1, t2, t3, t4, t5, t6
<1>. QED
  BY <1>1, <1>2, <1>3, <1>4, <1>5, <1>6, <1>8, <1>9, <1>10 DEF Rotated

-----------------------------------------------------------------------------
(* Search trees.                                                           *)

\* The nodes that hold data.
Nodes(t) == DOMAIN t \ {ROOT, NIL}

\* What the comparison says of data on the given side of b.
Before(side, a, b) == IF side = "left" THEN a < b ELSE a > b

\* The links lead to nodes; the sentinel and the root are as rb_tree_new and the
\* loops need them.
WellFormed(t) ==
  /\ IsTree(t)
  /\ {ROOT, NIL} \subseteq DOMAIN t /\ DOMAIN t \subseteq Cell
  /\ t[ROOT].color = "black" /\ t[NIL].color = "black"
  /\ Kid(t, ROOT, "right") = NIL
  /\ \A side \in Side : Kid(t, NIL, side) = NIL
  /\ \A n \in DOMAIN t, side \in Side :
       Kid(t, n, side) \in DOMAIN t /\ Kid(t, n, side) # ROOT
  /\ \A n \in DOMAIN t : t[n].parent \in DOMAIN t \cup {GARBAGE}

\* Child and parent pointers agree.
Links(t) ==
  /\ \A n \in DOMAIN t \ {NIL}, side \in Side :
       Kid(t, n, side) # NIL => t[Kid(t, n, side)].parent = n
  /\ \A n \in Nodes(t) :
       /\ t[n].parent \in DOMAIN t /\ t[n].parent # NIL
       /\ \E side \in Side : n = Kid(t, t[n].parent, side)

\* Every node n has a set s[n] of data, its span, that a search passes n for:
\* all the data for the first node; what is before n for its left child, and
\* after it for its right child.
Spans(t, s) ==
  /\ s \in [DOMAIN t -> SUBSET Key]
  /\ Kid(t, ROOT, "left") # NIL => s[Kid(t, ROOT, "left")] = Key
  /\ \A n \in Nodes(t) : n \in s[n]
  /\ \A n \in Nodes(t), side \in Side :
       Kid(t, n, side) # NIL =>
         \A k \in Key : k \in s[Kid(t, n, side)] <=> k \in s[n] /\ Before(side, k, n)

\* A binary search tree, with s as the spans: the invariant of every loop of
\* red_black.c that walks the tree.
Shape(t, s) == WellFormed(t) /\ Links(t) /\ Spans(t, s)

\* The constants are as different as KeyAssumption has it.
LEMMA Distinct == ROOT # NIL /\ ROOT \notin Key /\ NIL \notin Key /\ Key \subseteq Int
<1>1. CASE ROOT = NIL
  <2>1. {ROOT, NIL, GARBAGE} = {NIL, GARBAGE}
    BY <1>1
  <2>2. Cardinality({NIL, GARBAGE}) <= 2
    <3>1. IsFiniteSet({NIL}) /\ Cardinality({NIL}) = 1
      BY FS_Singleton
    <3>2. {NIL} \cup {GARBAGE} = {NIL, GARBAGE}
      OBVIOUS
    <3>3. Cardinality({NIL} \cup {GARBAGE})
            = IF GARBAGE \in {NIL} THEN Cardinality({NIL}) ELSE Cardinality({NIL}) + 1
      BY <3>1, FS_AddElement
    <3>. QED
      BY <3>1, <3>2, <3>3
  <2>. QED
    BY <2>1, <2>2, KeyAssumption
<1>. QED
  BY <1>1, KeyAssumption

\* The comparison is a strict order, and the two sides mirror each other.
LEMMA Order ==
  \A a, b \in Key :
    /\ \A side \in Side : Before(side, a, b) <=> Before(Other(side), b, a)
    /\ \A side \in Side : ~ Before(side, a, a)
    /\ \A side \in Side : Before(side, a, b) => ~ Before(Other(side), a, b) /\ a # b
    /\ a # b => \E side \in Side : Before(side, a, b)
    /\ \A c \in Key, side \in Side : Before(side, a, b) /\ Before(side, b, c) => Before(side, a, c)
BY Distinct DEF Before, Side, Other

\* What every step about a node needs to know of it.
LEMMA NodeFacts ==
  ASSUME NEW t, WellFormed(t), NEW n \in Nodes(t)
  PROVE  n \in DOMAIN t /\ n # ROOT /\ n # NIL /\ n \in Key /\ n \in Cell
BY DEF WellFormed, Nodes, Cell

\* A child has its parent right, is on its side of it, and has the part of the
\* span that is on that side.
LEMMA KidFacts ==
  ASSUME NEW t, NEW s, Shape(t, s), NEW n \in Nodes(t), NEW side \in Side
  PROVE  /\ Kid(t, n, side) \in DOMAIN t
         /\ Kid(t, n, side) # NIL =>
              /\ Kid(t, n, side) \in Nodes(t)
              /\ t[Kid(t, n, side)].parent = n
              /\ Before(side, Kid(t, n, side), n) /\ Kid(t, n, side) # n
              /\ \A k \in Key : k \in s[Kid(t, n, side)] <=> k \in s[n] /\ Before(side, k, n)
              /\ Kid(t, n, side) \in s[Kid(t, n, side)] /\ Kid(t, n, side) \in s[n]
              /\ n \notin s[Kid(t, n, side)]
<1>1. n \in DOMAIN t /\ n # NIL /\ n \in Key
  BY NodeFacts DEF Shape
<1>2. Kid(t, n, side) \in DOMAIN t /\ Kid(t, n, side) # ROOT
  BY <1>1 DEF Shape, WellFormed
<1>3. ASSUME Kid(t, n, side) # NIL
      PROVE  /\ Kid(t, n, side) \in Nodes(t) /\ Kid(t, n, side) \in Key
             /\ t[Kid(t, n, side)].parent = n
             /\ \A k \in Key : k \in s[Kid(t, n, side)] <=> k \in s[n] /\ Before(side, k, n)
             /\ Kid(t, n, side) \in s[Kid(t, n, side)]
  <2>1. Kid(t, n, side) \in Nodes(t)
    BY <1>2, <1>3 DEF Nodes
  <2>2. Kid(t, n, side) \in Key
    BY <2>1, NodeFacts DEF Shape
  <2>3. t[Kid(t, n, side)].parent = n
    BY <1>1, <1>3 DEF Shape, Links
  <2>4. \A k \in Key : k \in s[Kid(t, n, side)] <=> k \in s[n] /\ Before(side, k, n)
    BY <1>3 DEF Shape, Spans
  <2>. QED
    BY <2>1, <2>2, <2>3, <2>4 DEF Shape, Spans
<1>. QED
  BY <1>1, <1>2, <1>3, Order

\* A node is one child of its parent and not the other: the test that the
\* rotation makes tells which.  Only the first node is below the root.
LEMMA ParentFacts ==
  ASSUME NEW t, NEW s, Shape(t, s), NEW n \in Nodes(t)
  PROVE  /\ t[n].parent \in DOMAIN t /\ t[n].parent # NIL /\ t[n].parent # n
         /\ SideOf(t, n, t[n].parent) \in Side
         /\ n = Kid(t, t[n].parent, SideOf(t, n, t[n].parent))
         /\ \A side \in Side : n = Kid(t, t[n].parent, side)
                                 => side = SideOf(t, n, t[n].parent)
         /\ t[n].parent = ROOT => n = First(t) /\ SideOf(t, n, t[n].parent) = "left"
         /\ t[n].parent # ROOT =>
              /\ t[n].parent \in Nodes(t) /\ t[n].parent \notin s[n]
              /\ n # First(t)
<1> DEFINE p == t[n].parent
<1>1. /\ p \in DOMAIN t /\ p # NIL /\ n \in DOMAIN t /\ n # NIL /\ n \in s[n] /\ n # ROOT
      /\ n \in Key
  BY NodeFacts DEF Shape, Links, Spans
<1>2. PICK sd \in Side : n = Kid(t, p, sd)
  BY DEF Shape, Links
<1>3. CASE p = ROOT
  <2>1. sd = "left"
    BY <1>1, <1>2, <1>3 DEF Shape, WellFormed, Side
  <2>2. \A side \in Side : n = Kid(t, p, side) => side = "left"
    BY <1>1, <1>3 DEF Shape, WellFormed, Side
  <2>. QED
    BY <1>1, <1>2, <1>3, <2>1, <2>2 DEF SideOf, First, Kid, Side
<1>4. CASE p # ROOT
  <2>1. p \in Nodes(t)
    BY <1>1, <1>4 DEF Nodes
  <2>2. \A side \in Side : n = Kid(t, p, side) => Before(side, n, p) /\ p \notin s[n]
    BY <1>1, <2>1, KidFacts
  <2>3. p \in Key
    BY <2>1, NodeFacts DEF Shape
  <2>4. \A side \in Side : n = Kid(t, p, side) => side = sd
    BY <1>1, <1>2, <2>2, <2>3, Order, OtherSide DEF Side
  <2>5. SideOf(t, n, p) = sd
    BY <1>2, <2>4 DEF SideOf, Kid, Side
  <2>6. n # First(t)
    BY <1>1, <1>2, <2>2, <2>3 DEF Shape, Spans, First, Kid
  <2>. QED
    BY <1>1, <1>2, <1>4, <2>1, <2>2, <2>4, <2>5, <2>6
<1>. QED
  BY <1>3, <1>4

\* A rotation at n, with the child that takes its place.
LEMMA RotateShape ==
  ASSUME NEW t, NEW s, Shape(t, s), NEW n \in Nodes(t), NEW side \in Side,
         NEW c, c = Kid(t, n, Other(side)), c # NIL, NEW r, r = Rotate(t, n, side)
  PROVE  /\ Rotated(t, r, n, side, c, t[n].parent, Kid(t, c, side))
         /\ Shape(r, [s EXCEPT ![c] = s[n], ![n] = {k \in s[n] : Before(side, k, c)}])
<1> DEFINE p == t[n].parent
           i == Kid(t, c, side)
           z == [s EXCEPT ![c] = s[n], ![n] = {k \in s[n] : Before(side, k, c)}]
           o == Other(side)
<1>1. /\ o \in Side /\ o # side /\ Other(o) = side
      /\ \A sd \in Side : sd = side \/ sd = o
  BY OtherSide DEF Side
<1>2. /\ n \in DOMAIN t /\ n # NIL /\ n # ROOT /\ n \in Key /\ n \in Cell
      /\ c \in Nodes(t) /\ c \in DOMAIN t /\ c # NIL /\ c # ROOT /\ c \in Key /\ c \in Cell
      /\ t[c].parent = n /\ Before(o, c, n) /\ c # n
      /\ \A k \in Key : k \in s[c] <=> k \in s[n] /\ Before(o, k, n)
      /\ n \in s[n] /\ c \in s[c] /\ c \in s[n] /\ n \notin s[c]
  BY <1>1, NodeFacts, KidFacts DEF Shape, Spans
<1>3. /\ i \in DOMAIN t /\ i # ROOT /\ i # c /\ i # n
      /\ i # NIL => /\ i \in Nodes(t) /\ i \in Key /\ t[i].parent = c /\ i \in s[i]
                    /\ \A k \in Key : k \in s[i] <=> k \in s[c] /\ Before(side, k, c)
  <2>1. i \in DOMAIN t /\ i # ROOT
    BY <1>2 DEF Shape, WellFormed
  <2>2. i # n /\ i # c
    BY <1>1, <1>2, KidFacts
  <2>3. i # NIL => /\ i \in Nodes(t) /\ t[i].parent = c /\ i \in s[i]
                   /\ \A k \in Key : k \in s[i] <=> k \in s[c] /\ Before(side, k, c)
    BY <1>2, KidFacts
  <2>. QED
    BY <2>1, <2>2, <2>3, NodeFacts DEF Shape
<1>4. /\ p \in DOMAIN t /\ p # NIL /\ p # n /\ p \in Cell
      /\ SideOf(t, n, p) \in Side /\ n = Kid(t, p, SideOf(t, n, p))
      /\ \A sd \in Side : n = Kid(t, p, sd) => sd = SideOf(t, n, p)
      /\ p = ROOT => n = Kid(t, ROOT, "left") /\ SideOf(t, n, p) = "left"
      /\ p # ROOT => p \in Nodes(t) /\ p \notin s[n] /\ n # Kid(t, ROOT, "left")
      /\ p # c /\ p # i
  <2>1. /\ p \in DOMAIN t /\ p # NIL /\ p # n
        /\ SideOf(t, n, p) \in Side /\ n = Kid(t, p, SideOf(t, n, p))
        /\ \A sd \in Side : n = Kid(t, p, sd) => sd = SideOf(t, n, p)
        /\ p = ROOT => n = Kid(t, ROOT, "left") /\ SideOf(t, n, p) = "left"
        /\ p # ROOT => p \in Nodes(t) /\ p \notin s[n] /\ n # Kid(t, ROOT, "left")
    BY ParentFacts DEF First, Kid
  <2>2. p \in Cell
    BY <2>1 DEF Shape, WellFormed
  <2>3. p # c /\ p # i
    BY <2>1, <1>2, <1>3
  <2>. QED
    BY <2>1, <2>2, <2>3
<1>5. Rotated(t, r, n, side, c, p, i)
  BY <1>1, <1>2, <1>3, <1>4, RotateResult DEF Shape, WellFormed, Cell
<1>6. /\ IsTree(r) /\ DOMAIN r = DOMAIN t /\ Nodes(r) = Nodes(t)
      /\ Kid(r, c, side) = n /\ Kid(r, n, o) = i /\ Kid(r, p, SideOf(t, n, p)) = c
      /\ \A m \in DOMAIN t, sd \in Side :
           ~ (m = c /\ sd = side) /\ ~ (m = n /\ sd = o) /\ ~ (m = p /\ sd = SideOf(t, n, p))
             => Kid(r, m, sd) = Kid(t, m, sd)
      /\ r[c].parent = p /\ r[n].parent = c /\ (i # NIL => r[i].parent = n)
      /\ \A m \in DOMAIN t : m # c /\ m # n /\ (i = NIL \/ m # i) => r[m].parent = t[m].parent
      /\ \A m \in DOMAIN t : r[m].color = t[m].color
  BY <1>1, <1>2, <1>3, <1>4, <1>5 DEF Rotated, Nodes
<1>7. /\ z \in [DOMAIN t -> SUBSET Key] /\ z[c] = s[n]
      /\ \A k \in Key : k \in z[n] <=> k \in s[n] /\ Before(side, k, c)
      /\ \A m \in DOMAIN t : m # c /\ m # n => z[m] = s[m]
  BY <1>2 DEF Shape, Spans
<1>11. /\ \A sd \in Side : c = Kid(t, n, sd) => sd = o
       /\ i # NIL => \A sd \in Side : i = Kid(t, c, sd) => sd = side
  <2>1. \A sd \in Side : c = Kid(t, n, sd) => Before(sd, c, n)
    BY <1>2, KidFacts
  <2>2. i # NIL => \A sd \in Side : i = Kid(t, c, sd) => Before(sd, i, c)
    BY <1>2, KidFacts
  <2>. QED
    BY <2>1, <2>2, <1>1, <1>2, <1>3, Order
<1> HIDE DEF z
<1>8. WellFormed(r)
  <2>1. \A sd \in Side : Kid(r, NIL, sd) = NIL
    BY <1>2, <1>4, <1>6 DEF Shape, WellFormed
  <2>2. Kid(r, ROOT, "right") = NIL
    BY <1>2, <1>4, <1>6 DEF Shape, WellFormed, Side
  <2>3. \A m \in DOMAIN t, sd \in Side : Kid(r, m, sd) \in DOMAIN t /\ Kid(r, m, sd) # ROOT
    <3>1. \A m \in DOMAIN t, sd \in Side : Kid(t, m, sd) \in DOMAIN t /\ Kid(t, m, sd) # ROOT
      BY DEF Shape, WellFormed
    <3>2. ASSUME NEW m \in DOMAIN t, NEW sd \in Side
          PROVE  Kid(r, m, sd) \in {n, i, c, Kid(t, m, sd)}
      BY <1>6
    <3>. QED
      BY <3>1, <3>2, <1>2, <1>3
  <2>4. \A m \in DOMAIN t : r[m].parent \in DOMAIN t \cup {GARBAGE}
    <3>1. \A m \in DOMAIN t : t[m].parent \in DOMAIN t \cup {GARBAGE}
      BY DEF Shape, WellFormed
    <3>2. TAKE m \in DOMAIN t
    <3>. QED
      BY <3>1, <1>2, <1>3, <1>4, <1>6
  <2>. QED
    BY <2>1, <2>2, <2>3, <2>4, <1>6 DEF Shape, WellFormed
<1>9. Links(r)
  <2>1. ASSUME NEW m \in DOMAIN t, m # NIL, NEW sd \in Side, Kid(r, m, sd) # NIL
        PROVE  r[Kid(r, m, sd)].parent = m
    <3>1. CASE m = c /\ sd = side
      BY <3>1, <1>6
    <3>2. CASE m = n /\ sd = o
      BY <2>1, <3>2, <1>6
    <3>3. CASE m = p /\ sd = SideOf(t, n, p)
      BY <3>3, <1>6
    <3>4. CASE ~ (m = c /\ sd = side) /\ ~ (m = n /\ sd = o) /\ ~ (m = p /\ sd = SideOf(t, n, p))
      <4>1. Kid(r, m, sd) = Kid(t, m, sd)
        BY <3>4, <1>6
      <4>2. t[Kid(t, m, sd)].parent = m /\ Kid(t, m, sd) \in DOMAIN t
        BY <2>1, <4>1 DEF Shape, Links, WellFormed
      <4>3. Kid(t, m, sd) # c /\ Kid(t, m, sd) # n /\ (i = NIL \/ Kid(t, m, sd) # i)
        BY <4>2, <3>4, <1>1, <1>2, <1>3, <1>4, <1>11
      <4>. QED
        BY <4>1, <4>2, <4>3, <1>6
    <3>. QED
      BY <3>1, <3>2, <3>3, <3>4
  <2>2. ASSUME NEW m \in Nodes(t)
        PROVE  /\ r[m].parent \in DOMAIN t /\ r[m].parent # NIL
               /\ \E sd \in Side : m = Kid(r, r[m].parent, sd)
    <3>1. CASE m = c \/ m = n \/ (i # NIL /\ m = i)
      BY <3>1, <1>1, <1>2, <1>4, <1>6
    <3>2. CASE m # c /\ m # n /\ (i = NIL \/ m # i)
      <4>1. m \in DOMAIN t /\ r[m].parent = t[m].parent
        BY <3>2, <1>6 DEF Nodes
      <4>2. PICK sd \in Side : m = Kid(t, t[m].parent, sd)
        BY DEF Shape, Links
      <4>3. t[m].parent \in DOMAIN t /\ t[m].parent # NIL
        BY DEF Shape, Links
      <4>4. Kid(r, t[m].parent, sd) = Kid(t, t[m].parent, sd)
        BY <3>2, <4>2, <4>3, <1>1, <1>2, <1>3, <1>4, <1>6 DEF Nodes
      <4>. QED
        BY <4>1, <4>2, <4>3, <4>4
    <3>. QED
      BY <3>1, <3>2
  <2>. QED
    BY <2>1, <2>2, <1>6 DEF Links
<1>10. Spans(r, z)
  <2>1. Kid(r, ROOT, "left") # NIL => z[Kid(r, ROOT, "left")] = Key
    <3>1. CASE p = ROOT
      BY <3>1, <1>2, <1>4, <1>6, <1>7 DEF Shape, Spans
    <3>2. CASE p # ROOT
      <4>1. Kid(r, ROOT, "left") = Kid(t, ROOT, "left") /\ Kid(t, ROOT, "left") \in DOMAIN t
        BY <3>2, <1>2, <1>4, <1>6 DEF Shape, WellFormed, Side
      <4>2. Kid(t, ROOT, "left") # c
        BY <1>2, ParentFacts DEF First, Kid
      <4>. QED
        BY <3>2, <4>1, <4>2, <1>4, <1>7 DEF Shape, Spans
    <3>. QED
      BY <3>1, <3>2
  <2>2. \A m \in Nodes(t) : m \in z[m]
    <3>1. Before(side, n, c)
      BY <1>1, <1>2, Order
    <3>. QED
      BY <3>1, <1>2, <1>7 DEF Shape, Spans, Nodes
  <2>3. ASSUME NEW m \in Nodes(t), NEW sd \in Side, Kid(r, m, sd) # NIL, NEW k \in Key
        PROVE  k \in z[Kid(r, m, sd)] <=> k \in z[m] /\ Before(sd, k, m)
    <3>0. m \in DOMAIN t /\ m \in Key
      BY NodeFacts DEF Shape
    <3>1. CASE m = c /\ sd = side
      BY <3>1, <1>6, <1>7
    <3>2. CASE m = n /\ sd = o
      <4>1. Kid(r, m, sd) = i /\ i # NIL
        BY <2>3, <3>2, <1>6
      <4>2. z[i] = s[i]
        BY <4>1, <1>3, <1>7
      <4>. QED
        BY <3>2, <4>1, <4>2, <1>1, <1>2, <1>3, <1>7
    <3>3. CASE m = p /\ sd = SideOf(t, n, p)
      <4>1. p \in Nodes(t)
        BY <3>3
      <4>2. z[p] = s[p]
        BY <1>4, <1>7
      <4>3. k \in s[n] <=> k \in s[p] /\ Before(sd, k, p)
        BY <4>1, <3>3, <1>2, <1>4, KidFacts
      <4>. QED
        BY <3>3, <4>2, <4>3, <1>6, <1>7
    <3>4. CASE ~ (m = c /\ sd = side) /\ ~ (m = n /\ sd = o) /\ ~ (m = p /\ sd = SideOf(t, n, p))
      <4> DEFINE q == Kid(t, m, sd)
      <4>1. Kid(r, m, sd) = q /\ q # NIL
        BY <2>3, <3>0, <3>4, <1>6
      <4>2. q \in DOMAIN t /\ t[q].parent = m /\ (k \in s[q] <=> k \in s[m] /\ Before(sd, k, m))
        BY <4>1, KidFacts
      <4>3. q # n /\ q # c
        BY <3>4, <4>2, <1>1, <1>2, <1>4, <1>11
      <4>4. z[q] = s[q]
        BY <4>2, <4>3, <1>7
      <4>5. CASE m # c /\ m # n
        BY <3>0, <4>1, <4>2, <4>4, <4>5, <1>7
      <4>6. CASE m = c /\ sd = o
        BY <4>1, <4>2, <4>4, <4>6, <1>1, <1>2, <1>7, Order
      <4>7. CASE m = n /\ sd = side
        BY <4>1, <4>2, <4>4, <4>7, <1>1, <1>2, <1>7, Order
      <4>. QED
        BY <3>4, <4>5, <4>6, <4>7, <1>1
    <3>. QED
      BY <3>1, <3>2, <3>3, <3>4
  <2>. QED
    BY <2>1, <2>2, <2>3, <1>6, <1>7 DEF Spans
<1>. QED
  BY <1>5, <1>8, <1>9, <1>10 DEF Shape, z

-----------------------------------------------------------------------------
(* In place of an induction over trees.                                    *)

\* Every set of numbers that is not empty has a least one.
LEMMA LeastNat == \A S \in SUBSET Nat : S # {} => \E m \in S : \A n \in S : m <= n
<1>1. TAKE S \in SUBSET Nat
<1>2. HAVE S # {}
<1>3. \E m \in S : \A n \in S : ~ (<<n, m>> \in OpToRel(<, Nat))
  BY <1>2, NatLessThanWellFounded, WFMin, Zenon
<1>4. \A m, n \in Nat : n < m => <<n, m>> \in OpToRel(<, Nat)
  BY DEF OpToRel
<1>5. \A m, n \in Nat : ~ (n < m) => m <= n
  OBVIOUS
<1>. QED
  BY <1>1, <1>3, <1>4, <1>5

\* A child has a smaller span than its parent.
LEMMA SpanSizes ==
  ASSUME NEW t, NEW s, Shape(t, s)
  PROVE  /\ \A n \in DOMAIN t : Cardinality(s[n]) \in Nat /\ Cardinality(s[n]) <= Cardinality(Key)
         /\ Cardinality(Key) \in Nat
         /\ \A n \in Nodes(t), side \in Side : Kid(t, n, side) # NIL =>
              Cardinality(s[Kid(t, n, side)]) < Cardinality(s[n])
<1>1. IsFiniteSet(Key) /\ Cardinality(Key) \in Nat
  BY KeyAssumption, FS_CardinalityType
<1>2. ASSUME NEW n \in DOMAIN t
      PROVE  s[n] \in SUBSET Key /\ IsFiniteSet(s[n]) /\ Cardinality(s[n]) \in Nat
             /\ Cardinality(s[n]) <= Cardinality(Key)
  <2>1. s[n] \in SUBSET Key
    BY DEF Shape, Spans
  <2>. QED
    BY <1>1, <2>1, FS_Subset, FS_CardinalityType
<1>3. ASSUME NEW n \in Nodes(t), NEW side \in Side, Kid(t, n, side) # NIL
      PROVE  Cardinality(s[Kid(t, n, side)]) < Cardinality(s[n])
  <2> DEFINE c == Kid(t, n, side)
  <2>1. n \in DOMAIN t /\ c \in DOMAIN t /\ n \in Key
    BY KidFacts, NodeFacts DEF Shape
  <2>2. \A k \in Key : k \in s[c] <=> k \in s[n] /\ Before(side, k, n)
    BY <1>3, KidFacts
  <2>3. n \notin s[c] /\ n \in s[n]
    BY <1>3, KidFacts DEF Shape, Spans
  <2> HIDE DEF c
  <2>4. s[c] \in SUBSET s[n] /\ s[c] # s[n]
    BY <2>1, <2>2, <2>3, <1>2
  <2>5. Cardinality(s[c]) <= Cardinality(s[n]) /\ Cardinality(s[c]) # Cardinality(s[n])
    BY <2>1, <2>4, <1>2, FS_Subset
  <2>. QED
    BY <2>1, <2>5, <1>2 DEF c
<1>. QED
  BY <1>1, <1>2, <1>3

\* Induction from the leaves up, and from the root down.
LEMMA Lowest ==
  ASSUME NEW t, NEW s, Shape(t, s), NEW V \in SUBSET Nodes(t), V # {}
  PROVE  \E v \in V : \A side \in Side : Kid(t, v, side) \notin V
<1>1. \A v \in V : v \in DOMAIN t /\ v \in Nodes(t)
  BY DEF Nodes
<1> DEFINE S == {Cardinality(s[v]) : v \in V}
<1>2. S \in SUBSET Nat /\ S # {}
  BY <1>1, SpanSizes
<1>3. PICK m \in S : \A n \in S : m <= n
  BY <1>2, LeastNat
<1>4. PICK v \in V : m = Cardinality(s[v])
  BY <1>3
<1>5. ASSUME NEW side \in Side, Kid(t, v, side) \in V PROVE FALSE
  <2>1. Kid(t, v, side) # NIL
    BY <1>5 DEF Nodes
  <2>2. Cardinality(s[Kid(t, v, side)]) < Cardinality(s[v])
    BY <1>1, <2>1, SpanSizes
  <2>3. /\ Cardinality(s[v]) <= Cardinality(s[Kid(t, v, side)])
        /\ Cardinality(s[v]) \in Nat /\ Cardinality(s[Kid(t, v, side)]) \in Nat
    BY <1>1, <1>3, <1>4, <1>5, SpanSizes
  <2>. QED
    BY <2>2, <2>3
<1>. QED
  BY <1>5

\* A set of nodes has one whose parent is not in it.
LEMMA Highest ==
  ASSUME NEW t, NEW s, Shape(t, s), NEW V \in SUBSET Nodes(t), V # {}
  PROVE  \E v \in V : t[v].parent \notin V
<1>1. \A v \in V : v \in DOMAIN t /\ v \in Nodes(t)
  BY DEF Nodes
<1> DEFINE S == {Cardinality(Key) - Cardinality(s[v]) : v \in V}
<1>2. S \in SUBSET Nat /\ S # {}
  BY <1>1, SpanSizes
<1>3. PICK m \in S : \A n \in S : m <= n
  BY <1>2, LeastNat
<1>4. PICK v \in V : m = Cardinality(Key) - Cardinality(s[v])
  BY <1>3
<1>5. ASSUME t[v].parent \in V PROVE FALSE
  <2> DEFINE p == t[v].parent
  <2>1. p \in Nodes(t) /\ SideOf(t, v, p) \in Side /\ v = Kid(t, p, SideOf(t, v, p)) /\ v # NIL
    BY <1>1, <1>5, ParentFacts DEF Nodes
  <2>2. Cardinality(s[v]) < Cardinality(s[p])
    BY <2>1, SpanSizes
  <2>3. Cardinality(Key) - Cardinality(s[v]) <= Cardinality(Key) - Cardinality(s[p])
    BY <1>3, <1>4, <1>5
  <2>4. Cardinality(s[v]) \in Nat /\ Cardinality(s[p]) \in Nat /\ Cardinality(Key) \in Nat
    BY <1>1, <1>5, SpanSizes
  <2>. QED
    BY <2>2, <2>3, <2>4
<1>. QED
  BY <1>5

\* The nodes from m up to the first one.
Closed(t, S) == \A y \in S : t[y].parent \in Nodes(t) => t[y].parent \in S
\* The nodes that every set which is closed under parents and holds m has in
\* common: the way up from m.
Ancestors(t, m) ==
  {x \in Nodes(t) : \A S \in SUBSET Nodes(t) : m \in S /\ Closed(t, S) => x \in S}

\* They are the nodes whose keys are searched for past them.
LEMMA AncestorFacts ==
  ASSUME NEW t, NEW s, Shape(t, s), NEW m \in Nodes(t)
  PROVE  /\ \A n \in Nodes(t) : m \in s[n] => n \in Ancestors(t, m)
         /\ \A n \in Ancestors(t, m) : n # m =>
              \E x \in Ancestors(t, m), side \in Side :
                x = Kid(t, n, side) /\ m \in s[x] /\ x \in Nodes(t)
<1> DEFINE A == Ancestors(t, m)
<1>0. ASSUME NEW x \in Nodes(t), t[x].parent \in Nodes(t)
      PROVE  \E sd \in Side : /\ x = Kid(t, t[x].parent, sd)
                              /\ \A k \in Key : k \in s[x] <=> k \in s[t[x].parent]
                                                        /\ Before(sd, k, t[x].parent)
  <2>1. x # NIL
    BY DEF Nodes
  <2>2. SideOf(t, x, t[x].parent) \in Side /\ x = Kid(t, t[x].parent, SideOf(t, x, t[x].parent))
    BY ParentFacts
  <2>. QED
    BY <1>0, <2>1, <2>2, KidFacts
<1>1. A \subseteq Nodes(t) /\ m \in A /\ Closed(t, A)
  BY DEF Ancestors, Closed
<1>2. \A S \in SUBSET Nodes(t) : m \in S /\ Closed(t, S) => A \subseteq S
  BY DEF Ancestors
<1>3. \A x \in Nodes(t) : x \in Key /\ x # NIL /\ x \in s[x]
  BY NodeFacts DEF Shape, Spans
<1> HIDE DEF A
<1>4. \A x \in A : m \in s[x]
  <2> DEFINE S == {x \in Nodes(t) : m \in s[x]}
  <2>1. Closed(t, S)
    BY <1>0, <1>3 DEF Closed
  <2>. QED
    BY <2>1, <1>2, <1>3
<1>5. First(t) \in A
  <2>1. PICK v \in A : t[v].parent \notin A
    BY <1>1, Highest
  <2>2. v \in Nodes(t) /\ t[v].parent \notin Nodes(t)
    BY <2>1, <1>1 DEF Closed
  <2>. QED
    BY <2>1, <2>2, ParentFacts
<1>6. ASSUME NEW q \in A, q # m PROVE \E x \in A : t[x].parent = q
  <2>1. SUFFICES ASSUME \A x \in A : t[x].parent # q PROVE FALSE
    OBVIOUS
  <2>2. Closed(t, A \ {q})
    BY <2>1, <1>1 DEF Closed
  <2>. QED
    BY <2>2, <1>1, <1>2, <1>6
<1>7. ASSUME NEW n \in Nodes(t), m \in s[n] PROVE n \in A
  <2> DEFINE V == {y \in Nodes(t) : m \in s[y] /\ y \notin A}
  <2>1. SUFFICES ASSUME V # {} PROVE FALSE
    BY <1>7
  <2>2. PICK v \in V : t[v].parent \notin V
    BY <2>1, Highest
  <2>3. v # First(t) /\ v \in Nodes(t)
    BY <1>5, <2>2
  <2> DEFINE q == t[v].parent
  <2>4. q \in Nodes(t)
    BY <2>3, ParentFacts
  <2>5. PICK sv \in Side : /\ v = Kid(t, q, sv)
                           /\ \A k \in Key : k \in s[v] <=> k \in s[q] /\ Before(sv, k, q)
    BY <2>3, <2>4, <1>0
  <2>6. q \in A /\ Before(sv, m, q)
    BY <2>2, <2>4, <2>5, <1>3
  <2>7. q # m
    BY <2>2, <2>3, <2>4, ParentFacts
  <2>8. PICK x \in A : t[x].parent = q
    BY <2>6, <2>7, <1>6
  <2>9. PICK sx \in Side : /\ x = Kid(t, q, sx)
                           /\ \A k \in Key : k \in s[x] <=> k \in s[q] /\ Before(sx, k, q)
    BY <2>4, <2>8, <1>0, <1>1
  <2>10. Before(sx, m, q)
    BY <2>8, <2>9, <1>3, <1>4
  <2>11. sx = sv
    BY <2>4, <2>6, <2>10, <1>3, Order, OtherSide DEF Side
  <2>. QED
    BY <2>2, <2>5, <2>8, <2>9, <2>11
<1>8. ASSUME NEW n \in A, n # m
      PROVE  \E x \in A, side \in Side : x = Kid(t, n, side) /\ m \in s[x] /\ x \in Nodes(t)
  <2>1. PICK x \in A : t[x].parent = n
    BY <1>6, <1>8
  <2>. QED
    BY <2>1, <1>0, <1>1, <1>4
<1>. QED
  BY <1>7, <1>8 DEF A

\* A search for m does not end before m.
LEMMA SearchPath ==
  ASSUME NEW t, NEW s, Shape(t, s), NEW m \in Nodes(t), NEW n \in Nodes(t),
         m \in s[n], m # n
  PROVE  \E side \in Side : Before(side, m, n) /\ Kid(t, n, side) # NIL
<1>1. PICK x \in Ancestors(t, m), side \in Side :
        x = Kid(t, n, side) /\ m \in s[x] /\ x \in Nodes(t)
  BY AncestorFacts
<1>2. x # NIL /\ m \in Key
  BY <1>1, NodeFacts DEF Shape
<1>. QED
  BY <1>1, <1>2, KidFacts

\* A node in the span of another has its span in the other's.
LEMMA Nested ==
  ASSUME NEW t, NEW s, Shape(t, s), NEW m \in Nodes(t), NEW n \in Nodes(t), m \in s[n]
  PROVE  s[m] \subseteq s[n]
<1> DEFINE S == {x \in Nodes(t) : s[m] \subseteq s[x]}
<1>1. \A x \in Nodes(t) : s[x] \subseteq Key
  BY DEF Shape, Spans, Nodes
<1>2. Closed(t, S)
  <2>1. ASSUME NEW y \in Nodes(t), t[y].parent \in Nodes(t)
        PROVE  s[y] \subseteq s[t[y].parent]
    <3>1. y = Kid(t, t[y].parent, SideOf(t, y, t[y].parent)) /\ y # NIL
          /\ SideOf(t, y, t[y].parent) \in Side
      BY ParentFacts DEF Nodes
    <3>2. \A k \in Key : k \in s[y] => k \in s[t[y].parent]
      BY <2>1, <3>1, KidFacts
    <3>. QED
      BY <1>1, <3>2
  <2>. QED
    BY <2>1 DEF Closed
<1>3. n \in Ancestors(t, m)
  BY AncestorFacts
<1>. QED
  BY <1>2, <1>3 DEF Ancestors

-----------------------------------------------------------------------------
(* The recursions of the code.                                             *)

\* The first node has all the data in its span, and there is none only when
\* there are no nodes.
LEMMA FirstFacts ==
  ASSUME NEW t, NEW s, Shape(t, s)
  PROVE  /\ First(t) \in DOMAIN t
         /\ First(t) = NIL => Nodes(t) = {}
         /\ First(t) # NIL => First(t) \in Nodes(t) /\ s[First(t)] = Key /\ t[First(t)].parent = ROOT
<1>1. First(t) = Kid(t, ROOT, "left") /\ "left" \in Side /\ ROOT # NIL
  BY Distinct DEF First, Kid, Side
<1>2. First(t) \in DOMAIN t /\ First(t) # ROOT
  BY <1>1 DEF Shape, WellFormed
<1>3. ASSUME First(t) = NIL, Nodes(t) # {} PROVE FALSE
  <2>1. PICK v \in Nodes(t) : t[v].parent \notin Nodes(t)
    BY <1>3, Highest
  <2>. QED
    BY <2>1, <1>3, ParentFacts DEF Nodes
<1>4. First(t) # NIL => t[First(t)].parent = ROOT /\ s[First(t)] = Key
  BY <1>1 DEF Shape, Links, Spans, WellFormed
<1>. QED
  BY <1>2, <1>3, <1>4 DEF Nodes

\* A function that recurs on the children of a node: base is its value at NIL, and
\* c combines its values at the children.
Combines(t, W, c) == \A n \in DOMAIN t : \A u, v \in W : c[n][<<u, v>>] \in W
\* f is the function over the nodes that is base at the sentinel and combines
\* the results for the children elsewhere.
SolvesAt(t, base, c, f) ==
  /\ f[NIL] = base
  /\ \A n \in DOMAIN t \ {NIL} :
       f[n] = c[n][<<f[Kid(t, n, "left")], f[Kid(t, n, "right")]>>]

\* It is defined on every tree.
LEMMA TreeRecursion ==
  ASSUME NEW t, NEW s, Shape(t, s), NEW W, NEW base \in W, NEW c, Combines(t, W, c)
  PROVE  \E f \in [DOMAIN t -> W] : SolvesAt(t, base, c, f)
<1> DEFINE Below(r) == {NIL} \cup {n \in Nodes(t) : Cardinality(s[n]) < r}
           Solves(f, S) ==
             /\ f \in [S -> W] /\ f[NIL] = base
             /\ \A n \in S \ {NIL} :
                  f[n] = c[n][<<f[Kid(t, n, "left")], f[Kid(t, n, "right")]>>]
<1>1. "left" \in Side /\ "right" \in Side /\ NIL \in DOMAIN t /\ ROOT \in DOMAIN t /\ ROOT # NIL
  BY Distinct DEF Side, Shape, WellFormed
<1>2. \A n \in Nodes(t) : Cardinality(s[n]) \in Nat /\ Cardinality(s[n]) <= Cardinality(Key)
  BY SpanSizes DEF Nodes
<1>3. ASSUME NEW r \in Nat, r # 0, NEW n \in Below(r) \ {NIL}, NEW side \in Side
      PROVE  Kid(t, n, side) \in Below(r - 1)
  <2>1. n \in Nodes(t) /\ Cardinality(s[n]) < r
    BY <1>3
  <2>2. Kid(t, n, side) # NIL =>
          /\ Kid(t, n, side) \in Nodes(t)
          /\ Cardinality(s[Kid(t, n, side)]) < Cardinality(s[n])
    BY <2>1, KidFacts, SpanSizes
  <2>. QED
    BY <1>2, <1>3, <2>1, <2>2
<1>4. \A r \in Nat : \E f : Solves(f, Below(r))
  <2> DEFINE R == {r \in Nat : ~ \E f : Solves(f, Below(r))}
  <2>1. SUFFICES ASSUME R # {} PROVE FALSE
    OBVIOUS
  <2>2. PICK r \in R : \A q \in R : r <= q
    BY <2>1, LeastNat
  <2>3. r # 0
    <3>1. Below(0) = {NIL}
      BY <1>2
    <3>2. Solves([n \in {NIL} |-> base], {NIL})
      OBVIOUS
    <3> HIDE DEF Below, Solves
    <3>. QED
      BY <2>2, <3>1, <3>2
  <2>4. r \in Nat /\ r - 1 \in Nat /\ ~ (r <= r - 1)
    BY <2>2, <2>3
  <2>5. PICK f : Solves(f, Below(r - 1))
    BY <2>2, <2>4
  <2> DEFINE g == [n \in Below(r) |->
                     IF n \in Below(r - 1) THEN f[n]
                     ELSE c[n][<<f[Kid(t, n, "left")], f[Kid(t, n, "right")]>>]]
  <2>6. ASSUME NEW n \in Below(r) \ {NIL}
        PROVE  /\ Kid(t, n, "left") \in Below(r - 1) /\ Kid(t, n, "right") \in Below(r - 1)
               /\ n \in DOMAIN t
    BY <1>1, <1>3, <2>3, <2>4 DEF Nodes
  <2>7. Below(r - 1) \subseteq Below(r) /\ NIL \in Below(r - 1)
    BY <2>4, <1>2
  <2> HIDE DEF Below
  <2>8. ASSUME NEW n \in Below(r) \ {NIL}
        PROVE  g[n] = c[n][<<f[Kid(t, n, "left")], f[Kid(t, n, "right")]>>] /\ g[n] \in W
    <3>1. f[Kid(t, n, "left")] \in W /\ f[Kid(t, n, "right")] \in W
      BY <2>5, <2>6
    <3>3. c[n][<<f[Kid(t, n, "left")], f[Kid(t, n, "right")]>>] \in W
      BY <2>6, <3>1 DEF Combines
    <3>. QED
      BY <3>3, <2>5
  <2>9. \A n \in Below(r - 1) : g[n] = f[n]
    BY <2>7
  <2>10. g \in [Below(r) -> W] /\ g[NIL] = base
    <3>1. g[NIL] = base /\ base \in W /\ DOMAIN g = Below(r)
      BY <2>5, <2>7, <2>9
    <3>2. \A n \in Below(r) : g[n] \in W
      BY <2>8, <3>1
    <3>. QED
      BY <3>1, <3>2
  <2>11. \A n \in Below(r) \ {NIL} :
           g[n] = c[n][<<g[Kid(t, n, "left")], g[Kid(t, n, "right")]>>]
    <3> HIDE DEF g
    <3>. QED
      BY <2>6, <2>8, <2>9
  <2>12. Solves(g, Below(r))
    <3> HIDE DEF g
    <3>. QED
      BY <2>10, <2>11
  <2> HIDE DEF Solves
  <2>. QED
    BY <2>2, <2>12
<1> DEFINE N == Cardinality(Key) + 1
<1>5. N \in Nat /\ Below(N) = Nodes(t) \cup {NIL}
  BY <1>2, SpanSizes
<1>6. PICK f : Solves(f, Nodes(t) \cup {NIL})
  <2> HIDE DEF N, Below, Solves
  <2>. QED
    BY <1>4, <1>5
<1> DEFINE g == [n \in DOMAIN t |->
                   IF n = ROOT THEN c[ROOT][<<f[Kid(t, ROOT, "left")], f[Kid(t, ROOT, "right")]>>]
                   ELSE f[n]]
<1>7. ASSUME NEW n \in DOMAIN t, NEW side \in Side
      PROVE  Kid(t, n, side) \in Nodes(t) \cup {NIL}
  BY DEF Shape, WellFormed, Nodes
<1>8. /\ DOMAIN t = Nodes(t) \cup {NIL, ROOT} /\ \A n \in Nodes(t) : n # ROOT
      /\ \A n \in Nodes(t) \cup {NIL} : g[n] = f[n]
      /\ g[ROOT] = c[ROOT][<<f[Kid(t, ROOT, "left")], f[Kid(t, ROOT, "right")]>>]
  BY <1>1 DEF Nodes
<1>9. g[ROOT] \in W
  <2>1. f[Kid(t, ROOT, "left")] \in W /\ f[Kid(t, ROOT, "right")] \in W
    BY <1>1, <1>6, <1>7
  <2>. QED
    BY <1>1, <1>8, <2>1 DEF Combines
<1> HIDE DEF g
<1>10. g \in [DOMAIN t -> W] /\ g[NIL] = base
  <2>1. \A n \in DOMAIN t : g[n] \in W
    BY <1>6, <1>8, <1>9
  <2>2. DOMAIN g = DOMAIN t /\ g = [n \in DOMAIN t |-> g[n]]
    BY DEF g
  <2>. QED
    BY <2>1, <2>2, <1>6, <1>8
<1>11. ASSUME NEW n \in DOMAIN t \ {NIL}
       PROVE  g[n] = c[n][<<g[Kid(t, n, "left")], g[Kid(t, n, "right")]>>]
  <2>1. g[Kid(t, n, "left")] = f[Kid(t, n, "left")] /\ g[Kid(t, n, "right")] = f[Kid(t, n, "right")]
    BY <1>1, <1>7, <1>8
  <2>. QED
    BY <2>1, <1>6, <1>8
<1>. QED
  BY <1>10, <1>11 DEF SolvesAt

\* It is the only one.
LEMMA TreeAgreement ==
  ASSUME NEW t, NEW s, Shape(t, s), NEW f, NEW g, f[NIL] = g[NIL],
         \A n \in DOMAIN t \ {NIL} :
           f[Kid(t, n, "left")] = g[Kid(t, n, "left")] /\ f[Kid(t, n, "right")] = g[Kid(t, n, "right")]
             => f[n] = g[n]
  PROVE  \A n \in DOMAIN t : f[n] = g[n]
<1>1. "left" \in Side /\ "right" \in Side /\ ROOT # NIL /\ ROOT \in DOMAIN t
  BY Distinct DEF Side, Shape, WellFormed
<1>2. ASSUME NEW n \in DOMAIN t, NEW side \in Side
      PROVE  Kid(t, n, side) \in Nodes(t) \cup {NIL}
  BY DEF Shape, WellFormed, Nodes
<1>3. \A n \in Nodes(t) : f[n] = g[n]
  <2> DEFINE V == {n \in Nodes(t) : f[n] # g[n]}
  <2>1. SUFFICES ASSUME V # {} PROVE FALSE
    OBVIOUS
  <2>2. PICK v \in V : \A side \in Side : Kid(t, v, side) \notin V
    BY <2>1, Lowest
  <2>3. v \in DOMAIN t \ {NIL}
    BY <2>2 DEF Nodes
  <2>4. \A side \in Side : f[Kid(t, v, side)] = g[Kid(t, v, side)]
    BY <1>2, <2>2, <2>3
  <2>. QED
    BY <1>1, <2>2, <2>3, <2>4
<1>4. f[ROOT] = g[ROOT]
  <2>1. \A side \in Side : f[Kid(t, ROOT, side)] = g[Kid(t, ROOT, side)]
    BY <1>1, <1>2, <1>3
  <2>. QED
    BY <1>1, <2>1
<1>. QED
  BY <1>3, <1>4 DEF Nodes

\* rb_node_visit does what its recursion says: there is no circle in the tree
\* for it to be lost in.
LEMMA VisitEquation ==
  ASSUME NEW t, NEW s, Shape(t, s)
  PROVE  \E v \in [DOMAIN t -> Seq(Cell)] :
           /\ rb_node_visit(t) = v[First(t)]
           /\ v[NIL] = <<>>
           /\ \A n \in DOMAIN t \ {NIL} :
                v[n] = v[Kid(t, n, "left")] \o <<n>> \o v[Kid(t, n, "right")]
<1> DEFINE W == Seq(Cell)
           base == <<>>
           c == [n \in DOMAIN t |-> [q \in W \X W |-> q[1] \o <<n>> \o q[2]]]
           visit[n \in DOMAIN t] ==
             IF n = NIL THEN <<>> ELSE visit[t[n].left] \o <<n>> \o visit[t[n].right]
<1>1. Combines(t, W, c) /\ base \in W
  <2>1. ASSUME NEW n \in DOMAIN t, NEW u \in W, NEW v \in W
        PROVE  u \o <<n>> \o v \in W
    <3>1. n \in Cell
      BY DEF Shape, WellFormed
    <3>2. <<n>> \in W
      BY <3>1
    <3>3. u \o <<n>> \in W
      BY <3>2, ConcatProperties
    <3>. QED
      BY <3>3, ConcatProperties
  <2>2. \A n \in DOMAIN t : \A u, v \in W : c[n][<<u, v>>] = u \o <<n>> \o v
    OBVIOUS
  <2> HIDE DEF c, W
  <2>3. \A n \in DOMAIN t : \A u, v \in W : c[n][<<u, v>>] \in W
    BY <2>1, <2>2
  <2>. QED
    BY <2>3 DEF Combines, W
<1>2. PICK f \in [DOMAIN t -> W] : SolvesAt(t, base, c, f)
  <2> HIDE DEF c, W, base
  <2>. QED
    BY <1>1, TreeRecursion
<1>3. \A n \in DOMAIN t : Kid(t, n, "left") \in DOMAIN t /\ Kid(t, n, "right") \in DOMAIN t
  BY DEF Shape, WellFormed, Side
<1>4. \A n \in DOMAIN t \ {NIL} :
        f[n] = f[Kid(t, n, "left")] \o <<n>> \o f[Kid(t, n, "right")]
  BY <1>2, <1>3 DEF SolvesAt
<1>5. f = [n \in DOMAIN t |->
             IF n = NIL THEN <<>> ELSE f[t[n].left] \o <<n>> \o f[t[n].right]]
  <2>1. \A n \in DOMAIN t :
          f[n] = IF n = NIL THEN <<>> ELSE f[t[n].left] \o <<n>> \o f[t[n].right]
    BY <1>2, <1>4 DEF Kid, SolvesAt
  <2>2. f = [n \in DOMAIN t |-> f[n]]
    BY <1>2
  <2>. QED
    BY <2>1, <2>2
<1>6. visit = [n \in DOMAIN t |->
                 IF n = NIL THEN <<>> ELSE visit[t[n].left] \o <<n>> \o visit[t[n].right]]
  <2>1. visit = CHOOSE g : g = [n \in DOMAIN t |->
                 IF n = NIL THEN <<>> ELSE g[t[n].left] \o <<n>> \o g[t[n].right]]
    BY Zenon
  <2> HIDE DEF visit
  <2>. QED
    BY <1>5, <2>1, Zenon
<1>7. rb_node_visit(t) = visit[First(t)]
  BY DEF rb_node_visit
<1> HIDE DEF visit
<1>8. \A n \in DOMAIN t : f[n] = visit[n]
  <2>3. visit[NIL] = f[NIL]
    BY <1>2, <1>6 DEF Shape, WellFormed, SolvesAt
  <2>4. ASSUME NEW n \in DOMAIN t \ {NIL},
               f[Kid(t, n, "left")] = visit[Kid(t, n, "left")],
               f[Kid(t, n, "right")] = visit[Kid(t, n, "right")]
        PROVE  f[n] = visit[n]
    <3>1. visit[n] = visit[t[n].left] \o <<n>> \o visit[t[n].right]
      BY <1>6
    <3>. QED
      BY <1>4, <2>4, <3>1 DEF Kid
  <2>. QED
    BY <2>3, <2>4, TreeAgreement
<1>. QED
  BY <1>2, <1>4, <1>7, <1>8, FirstFacts DEF SolvesAt

\* The same of rb_tree_free_impl.
LEMMA FreeEquation ==
  ASSUME NEW t, NEW s, Shape(t, s)
  PROVE  \E v \in [DOMAIN t -> Seq(Cell)] :
           /\ rb_tree_free_impl(t) = v[First(t)]
           /\ v[NIL] = <<>>
           /\ \A n \in DOMAIN t \ {NIL} :
                v[n] = v[Kid(t, n, "left")] \o v[Kid(t, n, "right")] \o <<n>>
<1> DEFINE W == Seq(Cell)
           base == <<>>
           c == [n \in DOMAIN t |-> [q \in W \X W |-> q[1] \o q[2] \o <<n>>]]
           free[n \in DOMAIN t] ==
             IF n = NIL THEN <<>> ELSE free[t[n].left] \o free[t[n].right] \o <<n>>
<1>1. Combines(t, W, c) /\ base \in W
  <2>1. ASSUME NEW n \in DOMAIN t, NEW u \in W, NEW v \in W
        PROVE  u \o v \o <<n>> \in W
    <3>1. n \in Cell
      BY DEF Shape, WellFormed
    <3>2. <<n>> \in W
      BY <3>1
    <3>3. u \o v \in W
      BY ConcatProperties
    <3>. QED
      BY <3>2, <3>3, ConcatProperties
  <2>2. \A n \in DOMAIN t : \A u, v \in W : c[n][<<u, v>>] = u \o v \o <<n>>
    OBVIOUS
  <2> HIDE DEF c, W
  <2>3. \A n \in DOMAIN t : \A u, v \in W : c[n][<<u, v>>] \in W
    BY <2>1, <2>2
  <2>. QED
    BY <2>3 DEF Combines, W
<1>2. PICK f \in [DOMAIN t -> W] : SolvesAt(t, base, c, f)
  <2> HIDE DEF c, W, base
  <2>. QED
    BY <1>1, TreeRecursion
<1>3. \A n \in DOMAIN t : Kid(t, n, "left") \in DOMAIN t /\ Kid(t, n, "right") \in DOMAIN t
  BY DEF Shape, WellFormed, Side
<1>4. \A n \in DOMAIN t \ {NIL} :
        f[n] = f[Kid(t, n, "left")] \o f[Kid(t, n, "right")] \o <<n>>
  BY <1>2, <1>3 DEF SolvesAt
<1>5. f = [n \in DOMAIN t |->
             IF n = NIL THEN <<>> ELSE f[t[n].left] \o f[t[n].right] \o <<n>>]
  <2>1. \A n \in DOMAIN t :
          f[n] = IF n = NIL THEN <<>> ELSE f[t[n].left] \o f[t[n].right] \o <<n>>
    BY <1>2, <1>4 DEF Kid, SolvesAt
  <2>2. f = [n \in DOMAIN t |-> f[n]]
    BY <1>2
  <2>. QED
    BY <2>1, <2>2
<1>6. free = [n \in DOMAIN t |->
                 IF n = NIL THEN <<>> ELSE free[t[n].left] \o free[t[n].right] \o <<n>>]
  <2>1. free = CHOOSE g : g = [n \in DOMAIN t |->
                 IF n = NIL THEN <<>> ELSE g[t[n].left] \o g[t[n].right] \o <<n>>]
    BY Zenon
  <2> HIDE DEF free
  <2>. QED
    BY <1>5, <2>1, Zenon
<1>7. rb_tree_free_impl(t) = free[First(t)]
  BY DEF rb_tree_free_impl
<1> HIDE DEF free
<1>8. \A n \in DOMAIN t : f[n] = free[n]
  <2>3. free[NIL] = f[NIL]
    BY <1>2, <1>6 DEF Shape, WellFormed, SolvesAt
  <2>4. ASSUME NEW n \in DOMAIN t \ {NIL},
               f[Kid(t, n, "left")] = free[Kid(t, n, "left")],
               f[Kid(t, n, "right")] = free[Kid(t, n, "right")]
        PROVE  f[n] = free[n]
    <3>1. free[n] = free[t[n].left] \o free[t[n].right] \o <<n>>
      BY <1>6
    <3>. QED
      BY <1>4, <2>4, <3>1 DEF Kid
  <2>. QED
    BY <2>3, <2>4, TreeAgreement
<1>. QED
  BY <1>2, <1>4, <1>7, <1>8, FirstFacts DEF SolvesAt

\* The same of rb_tree_find.
LEMMA FindEquation ==
  ASSUME NEW t, NEW k, NEW s, Shape(t, s)
  PROVE  \E v \in [DOMAIN t -> Cell] :
           /\ rb_tree_find(t, k) = v[First(t)]
           /\ v[NIL] = NIL
           /\ \A n \in DOMAIN t \ {NIL} :
                v[n] = IF n = k THEN n ELSE IF k < n THEN v[Kid(t, n, "left")]
                          ELSE v[Kid(t, n, "right")]
<1> DEFINE W == Cell
           base == NIL
           at(n, u, v) ==
             IF n = k THEN n ELSE IF k < n THEN u ELSE v
           c == [n \in DOMAIN t |-> [q \in W \X W |-> at(n, q[1], q[2])]]
           find[n \in DOMAIN t] ==
             IF n \in {NIL, k} THEN n ELSE IF k < n THEN find[t[n].left] ELSE find[t[n].right]
<1>1. Combines(t, W, c) /\ base \in W
  <2>1. ASSUME NEW n \in DOMAIN t, NEW u \in W, NEW v \in W
        PROVE  at(n, u, v) \in W
    <3>1. n \in Cell
      BY DEF Shape, WellFormed
    <3>. QED
      BY <3>1
  <2> HIDE DEF at
  <2>2. \A n \in DOMAIN t : \A u, v \in W : c[n][<<u, v>>] = at(n, u, v)
    OBVIOUS
  <2>3. base \in W
    BY DEF Cell
  <2> HIDE DEF c, W
  <2>4. \A n \in DOMAIN t : \A u, v \in W : c[n][<<u, v>>] \in W
    BY <2>1, <2>2
  <2>. QED
    BY <2>3, <2>4 DEF Combines
<1>2. PICK f \in [DOMAIN t -> W] : SolvesAt(t, base, c, f)
  <2> HIDE DEF c, W, base
  <2>. QED
    BY <1>1, TreeRecursion
<1>3. \A n \in DOMAIN t : Kid(t, n, "left") \in DOMAIN t /\ Kid(t, n, "right") \in DOMAIN t
  BY DEF Shape, WellFormed, Side
<1>4. \A n \in DOMAIN t \ {NIL} :
        f[n] = IF n = k THEN n ELSE IF k < n THEN f[Kid(t, n, "left")] ELSE f[Kid(t, n, "right")]
  BY <1>2, <1>3 DEF SolvesAt
<1>5. f = [n \in DOMAIN t |->
             IF n \in {NIL, k} THEN n ELSE IF k < n THEN f[t[n].left] ELSE f[t[n].right]]
  <2>1. \A n \in DOMAIN t :
          f[n] = IF n \in {NIL, k} THEN n ELSE IF k < n THEN f[t[n].left] ELSE f[t[n].right]
    BY <1>2, <1>4 DEF Kid, SolvesAt
  <2>2. f = [n \in DOMAIN t |-> f[n]]
    BY <1>2
  <2>. QED
    BY <2>1, <2>2
<1>6. find = [n \in DOMAIN t |->
                 IF n \in {NIL, k} THEN n ELSE IF k < n THEN find[t[n].left] ELSE find[t[n].right]]
  <2>1. find = CHOOSE g : g = [n \in DOMAIN t |->
                 IF n \in {NIL, k} THEN n ELSE IF k < n THEN g[t[n].left] ELSE g[t[n].right]]
    BY Zenon
  <2> HIDE DEF find
  <2>. QED
    BY <1>5, <2>1, Zenon
<1>7. rb_tree_find(t, k) = find[First(t)]
  BY DEF rb_tree_find
<1> HIDE DEF find
<1>8. \A n \in DOMAIN t : f[n] = find[n]
  <2>1. find[NIL] = f[NIL]
    BY <1>2, <1>6 DEF Shape, WellFormed, SolvesAt
  <2>2. ASSUME NEW n \in DOMAIN t \ {NIL},
               f[Kid(t, n, "left")] = find[Kid(t, n, "left")],
               f[Kid(t, n, "right")] = find[Kid(t, n, "right")]
        PROVE  f[n] = find[n]
    <3>1. find[n] = IF n \in {NIL, k} THEN n ELSE IF k < n THEN find[t[n].left] ELSE find[t[n].right]
      BY <1>6
    <3>. QED
      BY <1>4, <2>2, <3>1 DEF Kid
  <2>. QED
    BY <2>1, <2>2, TreeAgreement
<1>. QED
  BY <1>2, <1>4, <1>7, <1>8, FirstFacts DEF SolvesAt

\* The same of the black height.
LEMMA HeightEquation ==
  ASSUME NEW s, Shape(tree, s)
  PROVE  \E v \in [DOMAIN tree -> Int] :
           /\ BlackHeight = v[First(tree)]
           /\ v[NIL] = 0
           /\ \A n \in DOMAIN tree \ {NIL} :
                v[n] = IF v[Kid(tree, n, "left")] = -1 \/ v[Kid(tree, n, "left")] # v[Kid(tree, n, "right")]
                          THEN -1 ELSE v[Kid(tree, n, "left")] + (IF is_black(tree, n) THEN 1 ELSE 0)
<1> DEFINE W == Int
           base == 0
           at(n, u, v) ==
             IF u = -1 \/ u # v THEN -1 ELSE u + (IF is_black(tree, n) THEN 1 ELSE 0)
           c == [n \in DOMAIN tree |-> [q \in W \X W |-> at(n, q[1], q[2])]]
           height[n \in DOMAIN tree] ==
             IF n = NIL THEN 0 ELSE LET l == height[tree[n].left]
                IN IF l = -1 \/ l # height[tree[n].right] THEN -1
                ELSE l + (IF is_black(tree, n) THEN 1 ELSE 0)
<1>1. Combines(tree, W, c) /\ base \in W
  <2>1. ASSUME NEW n \in DOMAIN tree, NEW u \in W, NEW v \in W
        PROVE  at(n, u, v) \in W
    OBVIOUS
  <2> HIDE DEF at
  <2>2. \A n \in DOMAIN tree : \A u, v \in W : c[n][<<u, v>>] = at(n, u, v)
    OBVIOUS
  <2>3. base \in W
    BY DEF Cell
  <2> HIDE DEF c, W
  <2>4. \A n \in DOMAIN tree : \A u, v \in W : c[n][<<u, v>>] \in W
    BY <2>1, <2>2
  <2>. QED
    BY <2>3, <2>4 DEF Combines
<1>2. PICK f \in [DOMAIN tree -> W] : SolvesAt(tree, base, c, f)
  <2> HIDE DEF c, W, base
  <2>. QED
    BY <1>1, TreeRecursion
<1>3. \A n \in DOMAIN tree : Kid(tree, n, "left") \in DOMAIN tree /\ Kid(tree, n, "right") \in DOMAIN tree
  BY DEF Shape, WellFormed, Side
<1>4. \A n \in DOMAIN tree \ {NIL} :
        f[n] = IF f[Kid(tree, n, "left")] = -1 \/ f[Kid(tree, n, "left")] # f[Kid(tree, n, "right")]
                  THEN -1 ELSE f[Kid(tree, n, "left")] + (IF is_black(tree, n) THEN 1 ELSE 0)
  BY <1>2, <1>3 DEF SolvesAt
<1>5. f = [n \in DOMAIN tree |->
             IF n = NIL THEN 0 ELSE LET l == f[tree[n].left]
                IN IF l = -1 \/ l # f[tree[n].right] THEN -1 ELSE l + (IF is_black(tree, n) THEN 1 ELSE 0)]
  <2>1. \A n \in DOMAIN tree :
          f[n] = IF n = NIL THEN 0 ELSE LET l == f[tree[n].left]
                    IN IF l = -1 \/ l # f[tree[n].right] THEN -1
                    ELSE l + (IF is_black(tree, n) THEN 1 ELSE 0)
    BY <1>2, <1>4 DEF Kid, SolvesAt
  <2>2. f = [n \in DOMAIN tree |-> f[n]]
    BY <1>2
  <2>. QED
    BY <2>1, <2>2
<1>6. height = [n \in DOMAIN tree |->
                 IF n = NIL THEN 0 ELSE LET l == height[tree[n].left]
                    IN IF l = -1 \/ l # height[tree[n].right] THEN -1
                    ELSE l + (IF is_black(tree, n) THEN 1 ELSE 0)]
  <2>1. height = CHOOSE g : g = [n \in DOMAIN tree |->
                 IF n = NIL THEN 0 ELSE LET l == g[tree[n].left]
                    IN IF l = -1 \/ l # g[tree[n].right] THEN -1
                    ELSE l + (IF is_black(tree, n) THEN 1 ELSE 0)]
    BY Zenon
  <2> HIDE DEF height
  <2>. QED
    BY <1>5, <2>1, Zenon
<1>7. BlackHeight = height[First(tree)]
  BY DEF BlackHeight
<1> HIDE DEF height
<1>8. \A n \in DOMAIN tree : f[n] = height[n]
  <2>1. height[NIL] = f[NIL]
    BY <1>2, <1>6 DEF Shape, WellFormed, SolvesAt
  <2>2. ASSUME NEW n \in DOMAIN tree \ {NIL},
               f[Kid(tree, n, "left")] = height[Kid(tree, n, "left")],
               f[Kid(tree, n, "right")] = height[Kid(tree, n, "right")]
        PROVE  f[n] = height[n]
    <3>1. height[n] = IF n = NIL THEN 0 ELSE LET l == height[tree[n].left]
                         IN IF l = -1 \/ l # height[tree[n].right] THEN -1
                         ELSE l + (IF is_black(tree, n) THEN 1 ELSE 0)
      BY <1>6
    <3>. QED
      BY <1>4, <2>2, <3>1 DEF Kid
  <2>. QED
    BY <2>1, <2>2, TreeAgreement
<1>. QED
  BY <1>2, <1>4, <1>7, <1>8, FirstFacts DEF SolvesAt

-----------------------------------------------------------------------------
(* The visitor and the search.                                             *)

\* The nodes below x, and x itself.
Content(t, s, x) == IF x = NIL THEN {} ELSE s[x] \cap Nodes(t)

\* What is below a child is what is below its parent and on the child's side of
\* it: no node is out of reach of a search.
LEMMA KidContent ==
  ASSUME NEW t, NEW s, Shape(t, s), NEW n \in Nodes(t), NEW side \in Side
  PROVE  \A m : m \in Content(t, s, Kid(t, n, side))
                  <=> m \in Content(t, s, n) /\ Before(side, m, n)
<1>1. n # NIL /\ n \in Key /\ Nodes(t) \subseteq Key
  BY NodeFacts DEF Shape
<1>2. ASSUME NEW m \in Content(t, s, Kid(t, n, side))
      PROVE  m \in Content(t, s, n) /\ Before(side, m, n)
  BY <1>1, KidFacts DEF Content
<1>3. ASSUME NEW m \in Content(t, s, n), Before(side, m, n)
      PROVE  m \in Content(t, s, Kid(t, n, side))
  <2>1. m \in Nodes(t) /\ m \in s[n] /\ m \in Key
    BY <1>1 DEF Content
  <2>2. m # n
    BY <1>1, <1>3, Order
  <2>3. PICK sd \in Side : Before(sd, m, n) /\ Kid(t, n, sd) # NIL
    BY <2>1, <2>2, SearchPath
  <2>4. sd = side
    BY <1>1, <1>3, <2>1, <2>3, Order, OtherSide DEF Side
  <2>. QED
    BY <1>3, <2>1, <2>3, <2>4, KidFacts DEF Content
<1>. QED
  BY <1>2, <1>3

\* All the nodes are below the first one.
LEMMA FirstContent ==
  ASSUME NEW t, NEW s, Shape(t, s)
  PROVE  Content(t, s, First(t)) = Nodes(t)
BY FirstFacts, NodeFacts DEF Content, Shape

\* The sequence q holds every member of S once, in increasing order.
Lists(q, S) ==
  /\ q \in Seq(Key)
  /\ \A i, j \in 1..Len(q) : i < j => q[i] < q[j]
  /\ \A k : k \in S <=> \E i \in 1..Len(q) : q[i] = k

\* Two increasing sequences and a value between them make an increasing
\* sequence.
LEMMA ListsJoin ==
  ASSUME NEW a, NEW A, Lists(a, A), NEW b, NEW B, Lists(b, B), NEW n \in Key,
         \A k \in A : k < n, \A k \in B : k > n
  PROVE  Lists(a \o <<n>> \o b, A \cup {n} \cup B)
<1> DEFINE q == a \o <<n>> \o b
           La == Len(a)
           Lb == Len(b)
<1>1. a \in Seq(Key) /\ b \in Seq(Key) /\ La \in Nat /\ Lb \in Nat /\ <<n>> \in Seq(Key)
  BY DEF Lists
<1>2. q \in Seq(Key) /\ Len(q) = La + 1 + Lb
  BY <1>1
<1>3. /\ \A i \in 1..La : q[i] = a[i]
      /\ q[La + 1] = n
      /\ \A i \in 1..Lb : q[La + 1 + i] = b[i]
  BY <1>1
<1> HIDE DEF q
<1>4. ASSUME NEW i \in 1..Len(q)
      PROVE  \/ i \in 1..La /\ q[i] = a[i] /\ q[i] \in A
             \/ i = La + 1 /\ q[i] = n
             \/ i - La - 1 \in 1..Lb /\ q[i] = b[i - La - 1] /\ q[i] \in B
  <2>1. CASE i \in 1..La
    BY <2>1, <1>3 DEF Lists
  <2>2. CASE i = La + 1
    BY <2>2, <1>3
  <2>3. CASE i > La + 1
    <3>1. i - La - 1 \in 1..Lb /\ i = La + 1 + (i - La - 1)
      BY <2>3, <1>1, <1>2
    <3>2. q[i] = b[i - La - 1]
      BY <3>1, <1>3
    <3>. QED
      BY <3>1, <3>2 DEF Lists
  <2>. QED
    BY <2>1, <2>2, <2>3, <1>1, <1>2
<1>5. A \subseteq Key /\ B \subseteq Key /\ Key \subseteq Int
  BY <1>1, Distinct DEF Lists
<1>6. ASSUME NEW i \in 1..Len(q), NEW j \in 1..Len(q), i < j PROVE q[i] < q[j]
  <2>1. CASE i \in 1..La /\ j \in 1..La
    BY <2>1, <1>3, <1>6 DEF Lists
  <2>2. CASE i - La - 1 \in 1..Lb /\ j - La - 1 \in 1..Lb
    <3>1. i - La - 1 < j - La - 1
      BY <1>1, <1>2, <1>6
    <3>2. q[i] = b[i - La - 1] /\ q[j] = b[j - La - 1]
      BY <2>2, <1>1, <1>2, <1>4
    <3>. QED
      BY <2>2, <3>1, <3>2 DEF Lists
  <2>3. CASE i \in 1..La /\ ~ (j \in 1..La)
    <3>1. q[i] \in A
      BY <2>3, <1>3 DEF Lists
    <3>2. q[j] = n \/ q[j] \in B
      BY <2>3, <1>4
    <3>3. q[i] \in Int /\ q[i] < n /\ n \in Int /\ (q[j] = n \/ (q[j] \in Int /\ q[j] > n))
      BY <3>1, <3>2, <1>5
    <3>. QED
      BY <3>3
  <2>4. CASE i = La + 1
    <3>1. q[i] = n
      BY <2>4, <1>3
    <3>2. q[j] \in B
      <4>1. ~ (j \in 1..La) /\ j # La + 1
        BY <2>4, <1>1, <1>2, <1>6
      <4>. QED
        BY <4>1, <1>4
    <3>. QED
      BY <3>1, <3>2, <1>5
  <2>. QED
    BY <2>1, <2>2, <2>3, <2>4, <1>1, <1>2, <1>6
<1>7. ASSUME NEW k PROVE k \in A \cup {n} \cup B <=> \E i \in 1..Len(q) : q[i] = k
  <2>1. ASSUME k \in A PROVE \E i \in 1..Len(q) : q[i] = k
    BY <2>1, <1>1, <1>2, <1>3 DEF Lists
  <2>2. ASSUME k \in B PROVE \E i \in 1..Len(q) : q[i] = k
    <3>1. PICK i \in 1..Lb : b[i] = k
      BY <2>2 DEF Lists
    <3>2. La + 1 + i \in 1..Len(q)
      BY <1>1, <1>2
    <3>. QED
      BY <3>1, <3>2, <1>3
  <2>3. La + 1 \in 1..Len(q)
    BY <1>1, <1>2
  <2>. QED
    BY <2>1, <2>2, <2>3, <1>3, <1>4
<1>8. q \in Seq(Key)
  BY <1>2
<1>. QED
  BY <1>6, <1>7, <1>8 DEF Lists, q

\* rb_tree_visit calls the visitor with every node once, in increasing order.
LEMMA VisitLists ==
  ASSUME NEW t, NEW s, Shape(t, s)
  PROVE  Lists(rb_node_visit(t), Nodes(t))
<1>1. PICK v \in [DOMAIN t -> Seq(Cell)] :
        /\ rb_node_visit(t) = v[First(t)]
        /\ v[NIL] = <<>>
        /\ \A n \in DOMAIN t \ {NIL} :
             v[n] = v[Kid(t, n, "left")] \o <<n>> \o v[Kid(t, n, "right")]
  BY VisitEquation
<1> DEFINE Good(n) == Lists(v[n], Content(t, s, n))
<1>2. Good(NIL)
  BY <1>1 DEF Lists, Content
<1>3. \A n \in Nodes(t) : Good(n)
  <2> DEFINE V == {n \in Nodes(t) : ~ Good(n)}
  <2>1. SUFFICES ASSUME V # {} PROVE FALSE
    OBVIOUS
  <2>2. PICK n \in V : \A side \in Side : Kid(t, n, side) \notin V
    BY <2>1, Lowest
  <2>3. n \in Nodes(t) /\ ~ Good(n) /\ n \in DOMAIN t \ {NIL} /\ n \in Key
    BY <2>2, NodeFacts DEF Shape
  <2> HIDE DEF Good
  <2>4. \A side \in Side : Good(Kid(t, n, side))
    BY <2>2, <2>3, <1>2, KidFacts
  <2>5. "left" \in Side /\ "right" \in Side
    BY DEF Side
  <2> DEFINE l == Kid(t, n, "left")
             r == Kid(t, n, "right")
  <2>6. Lists(v[l], Content(t, s, l)) /\ Lists(v[r], Content(t, s, r))
    BY <2>4, <2>5 DEF Good
  <2>7. /\ \A k : k \in Content(t, s, l) <=> k \in Content(t, s, n) /\ k < n
        /\ \A k : k \in Content(t, s, r) <=> k \in Content(t, s, n) /\ k > n
    BY <2>3, <2>5, KidContent DEF Before
  <2> HIDE DEF l, r
  <2>8. Lists(v[l] \o <<n>> \o v[r], Content(t, s, l) \cup {n} \cup Content(t, s, r))
    BY <2>3, <2>6, <2>7, ListsJoin
  <2>9. n \in Content(t, s, n) /\ \A k \in Content(t, s, n) : k \in Int
    BY <2>3, Distinct, NodeFacts DEF Content, Shape, Spans
  <2>10. Content(t, s, l) \cup {n} \cup Content(t, s, r) = Content(t, s, n)
    BY <2>3, <2>7, <2>9, Distinct
  <2>11. v[n] = v[l] \o <<n>> \o v[r]
    BY <1>1, <2>3 DEF l, r
  <2>. QED
    BY <2>3, <2>8, <2>10, <2>11 DEF Good
<1>4. Good(First(t))
  BY <1>2, <1>3, FirstFacts
<1>. QED
  BY <1>1, <1>4, FirstContent

\* rb_tree_find finds the data that is in the tree, and nothing else.
LEMMA FindFinds ==
  ASSUME NEW t, NEW s, Shape(t, s), NEW k \in Key
  PROVE  rb_tree_find(t, k) = IF k \in Nodes(t) THEN k ELSE NIL
<1>1. PICK v \in [DOMAIN t -> Cell] :
        /\ rb_tree_find(t, k) = v[First(t)]
        /\ v[NIL] = NIL
        /\ \A n \in DOMAIN t \ {NIL} :
             v[n] = IF n = k THEN n ELSE IF k < n THEN v[Kid(t, n, "left")] ELSE v[Kid(t, n, "right")]
  BY FindEquation
<1>2. \A n \in Nodes(t) : k \in s[n] => v[n] = IF k \in Nodes(t) THEN k ELSE NIL
  <2> DEFINE V == {n \in Nodes(t) : k \in s[n] /\ v[n] # IF k \in Nodes(t) THEN k ELSE NIL}
  <2>1. SUFFICES ASSUME V # {} PROVE FALSE
    OBVIOUS
  <2>2. PICK n \in V : \A side \in Side : Kid(t, n, side) \notin V
    BY <2>1, Lowest
  <2>3. n \in Nodes(t) /\ k \in s[n] /\ n \in DOMAIN t \ {NIL} /\ n \in Key
    BY <2>2, NodeFacts DEF Shape
  <2>4. n # k
    BY <1>1, <2>2, <2>3
  <2>5. PICK side \in Side : Before(side, k, n)
    BY <2>3, <2>4, Order
  <2> DEFINE c == Kid(t, n, side)
  <2>6. v[n] = v[c]
    BY <1>1, <2>3, <2>4, <2>5, Distinct DEF Before, Side
  <2>7. CASE c = NIL
    <3>1. k \notin Nodes(t)
      BY <2>3, <2>5, <2>7, KidContent DEF Content
    <3>. QED
      BY <1>1, <2>2, <2>6, <2>7, <3>1
  <2>8. CASE c # NIL
    <3>1. c \in Nodes(t) /\ k \in s[c]
      BY <2>3, <2>5, <2>8, KidFacts
    <3>. QED
      BY <2>2, <2>6, <3>1
  <2>. QED
    BY <2>7, <2>8
<1>. QED
  BY <1>1, <1>2, FirstFacts

-----------------------------------------------------------------------------
(* Freeing.                                                                *)

\* The sequence q holds every member of S once, a node after its children.
PostOrder(t, q, S) ==
  /\ q \in Seq(Key)
  /\ \A i, j \in 1..Len(q) : q[i] = q[j] => i = j
  /\ \A k : k \in S <=> \E i \in 1..Len(q) : q[i] = k
  /\ \A i, j \in 1..Len(q), side \in Side : q[i] = Kid(t, q[j], side) => i < j

\* The nodes of two subtrees in an order that frees children first, and their
\* parent last, are in such an order.
LEMMA PostOrderJoin ==
  ASSUME NEW t, NEW a, NEW A, PostOrder(t, a, A), NEW b, NEW B, PostOrder(t, b, B),
         NEW n \in Key, n \notin A, n \notin B, \A k \in A : k \notin B,
         \A y \in A, side \in Side : Kid(t, y, side) \notin B \cup {n},
         \A y \in B, side \in Side : Kid(t, y, side) \notin A \cup {n},
         \A side \in Side : Kid(t, n, side) # n
  PROVE  PostOrder(t, a \o b \o <<n>>, A \cup {n} \cup B)
<1> DEFINE q == a \o b \o <<n>>
           La == Len(a)
           Lb == Len(b)
<1>1. a \in Seq(Key) /\ b \in Seq(Key) /\ La \in Nat /\ Lb \in Nat /\ <<n>> \in Seq(Key)
  BY DEF PostOrder
<1>2. q \in Seq(Key) /\ Len(q) = La + Lb + 1
  BY <1>1
<1>3. /\ \A i \in 1..La : q[i] = a[i]
      /\ \A i \in 1..Lb : q[La + i] = b[i]
      /\ q[La + Lb + 1] = n
  BY <1>1
<1> HIDE DEF q
<1>4. ASSUME NEW i \in 1..Len(q)
      PROVE  \/ i \in 1..La /\ q[i] = a[i] /\ q[i] \in A
             \/ i - La \in 1..Lb /\ q[i] = b[i - La] /\ q[i] \in B
             \/ i = La + Lb + 1 /\ q[i] = n
  <2>1. CASE i \in 1..La
    BY <2>1, <1>3 DEF PostOrder
  <2>2. CASE i > La /\ i # La + Lb + 1
    <3>1. i - La \in 1..Lb /\ i = La + (i - La)
      BY <2>2, <1>1, <1>2
    <3>2. q[i] = b[i - La]
      BY <3>1, <1>3
    <3>. QED
      BY <3>1, <3>2 DEF PostOrder
  <2>3. CASE i = La + Lb + 1
    BY <2>3, <1>3
  <2>. QED
    BY <2>1, <2>2, <2>3, <1>1, <1>2
<1>5. ASSUME NEW i \in 1..Len(q), NEW j \in 1..Len(q), q[i] = q[j] PROVE i = j
  <2>1. CASE q[i] \in A
    <3>1. i \in 1..La /\ j \in 1..La /\ a[i] = a[j]
      BY <2>1, <1>4, <1>5
    <3>. QED
      BY <3>1 DEF PostOrder
  <2>2. CASE q[i] \in B
    <3>1. i - La \in 1..Lb /\ j - La \in 1..Lb /\ b[i - La] = b[j - La]
      BY <2>2, <1>4, <1>5
    <3>2. i - La = j - La
      BY <3>1 DEF PostOrder
    <3>. QED
      BY <3>2, <1>1
  <2>3. CASE q[i] = n
    BY <2>3, <1>4, <1>5
  <2>. QED
    BY <2>1, <2>2, <2>3, <1>4
<1>6. ASSUME NEW k PROVE k \in A \cup {n} \cup B <=> \E i \in 1..Len(q) : q[i] = k
  <2>1. ASSUME k \in A PROVE \E i \in 1..Len(q) : q[i] = k
    BY <2>1, <1>1, <1>2, <1>3 DEF PostOrder
  <2>2. ASSUME k \in B PROVE \E i \in 1..Len(q) : q[i] = k
    <3>1. PICK i \in 1..Lb : b[i] = k
      BY <2>2 DEF PostOrder
    <3>2. La + i \in 1..Len(q)
      BY <1>1, <1>2
    <3>. QED
      BY <3>1, <3>2, <1>3
  <2>3. La + Lb + 1 \in 1..Len(q)
    BY <1>1, <1>2
  <2>. QED
    BY <2>1, <2>2, <2>3, <1>3, <1>4
<1>7. ASSUME NEW i \in 1..Len(q), NEW j \in 1..Len(q), NEW side \in Side,
             q[i] = Kid(t, q[j], side)
      PROVE  i < j
  <2>1. CASE q[j] \in A
    <3>1. q[i] \in A
      BY <2>1, <1>4, <1>7
    <3>2. i \in 1..La /\ j \in 1..La /\ a[i] = Kid(t, a[j], side)
      BY <2>1, <3>1, <1>4, <1>7
    <3>. QED
      BY <3>2 DEF PostOrder
  <2>2. CASE q[j] \in B
    <3>1. q[i] \in B
      BY <2>2, <1>4, <1>7
    <3>2. i - La \in 1..Lb /\ j - La \in 1..Lb /\ b[i - La] = Kid(t, b[j - La], side)
      BY <2>2, <3>1, <1>4, <1>7
    <3>3. i - La < j - La
      BY <3>2 DEF PostOrder
    <3>. QED
      BY <3>3, <1>1
  <2>3. CASE q[j] = n
    <3>1. j = La + Lb + 1 /\ i # La + Lb + 1
      BY <2>3, <1>3, <1>4, <1>7
    <3>. QED
      BY <3>1, <1>1, <1>2
  <2>. QED
    BY <2>1, <2>2, <2>3, <1>4
<1>8. q \in Seq(Key)
  BY <1>2
<1>. QED
  BY <1>5, <1>6, <1>7, <1>8 DEF PostOrder, q

\* rb_tree_free_impl frees every node once, and after its children.
LEMMA FreePostOrder ==
  ASSUME NEW t, NEW s, Shape(t, s)
  PROVE  PostOrder(t, rb_tree_free_impl(t), Nodes(t))
<1>1. PICK v \in [DOMAIN t -> Seq(Cell)] :
        /\ rb_tree_free_impl(t) = v[First(t)]
        /\ v[NIL] = <<>>
        /\ \A n \in DOMAIN t \ {NIL} :
             v[n] = v[Kid(t, n, "left")] \o v[Kid(t, n, "right")] \o <<n>>
  BY FreeEquation
<1> DEFINE Good(n) == PostOrder(t, v[n], Content(t, s, n))
<1>2. Good(NIL)
  BY <1>1 DEF PostOrder, Content
<1>3. \A n \in Nodes(t) : Good(n)
  <2> DEFINE V == {n \in Nodes(t) : ~ Good(n)}
  <2>1. SUFFICES ASSUME V # {} PROVE FALSE
    OBVIOUS
  <2>2. PICK n \in V : \A side \in Side : Kid(t, n, side) \notin V
    BY <2>1, Lowest
  <2>3. n \in Nodes(t) /\ ~ Good(n) /\ n \in DOMAIN t \ {NIL} /\ n \in Key
    BY <2>2, NodeFacts DEF Shape
  <2> HIDE DEF Good
  <2>4. \A side \in Side : Good(Kid(t, n, side))
    BY <2>2, <2>3, <1>2, KidFacts
  <2>5. "left" \in Side /\ "right" \in Side
    BY DEF Side
  <2> DEFINE l == Kid(t, n, "left")
             r == Kid(t, n, "right")
             A == Content(t, s, l)
             B == Content(t, s, r)
  <2>6. PostOrder(t, v[l], A) /\ PostOrder(t, v[r], B)
    BY <2>4, <2>5 DEF Good
  <2>7. /\ \A k : k \in A <=> k \in Content(t, s, n) /\ k < n
        /\ \A k : k \in B <=> k \in Content(t, s, n) /\ k > n
    BY <2>3, <2>5, KidContent DEF Before
  <2>8. n \in Content(t, s, n) /\ \A k \in Content(t, s, n) : k \in Int
    BY <2>3, Distinct, NodeFacts DEF Content, Shape, Spans
  <2>9. ASSUME NEW x \in {l, r}, NEW side \in Side, NEW y \in Content(t, s, x)
        PROVE  /\ y \in Nodes(t)
               /\ Kid(t, y, side) = NIL \/ Kid(t, y, side) \in Content(t, s, x)
    <3>1. x # NIL /\ y \in Nodes(t) /\ y \in s[x]
      BY DEF Content
    <3>2. x \in Nodes(t)
      BY <2>3, <2>5, <3>1, KidFacts
    <3>3. s[y] \subseteq s[x]
      BY <3>1, <3>2, Nested
    <3>4. Kid(t, y, side) # NIL => Kid(t, y, side) \in s[y] /\ Kid(t, y, side) \in Nodes(t)
      BY <3>1, KidFacts
    <3>. QED
      BY <3>1, <3>3, <3>4 DEF Content
  <2>10. NIL \notin Nodes(t) /\ \A side \in Side : Kid(t, n, side) # n
    BY <2>3, KidFacts DEF Nodes
  <2>11. v[n] = v[l] \o v[r] \o <<n>>
    BY <1>1, <2>3
  <2>12. n \notin A /\ n \notin B /\ (\A k \in A : k \notin B) /\ NIL \notin A /\ NIL \notin B /\ n # NIL
    BY <2>3, <2>7, <2>8, <2>10 DEF Content
  <2>13. A \cup {n} \cup B = Content(t, s, n)
    BY <2>3, <2>7, <2>8, Distinct
  <2>14. /\ \A y \in A, side \in Side : Kid(t, y, side) \in A \cup {NIL}
         /\ \A y \in B, side \in Side : Kid(t, y, side) \in B \cup {NIL}
    BY <2>9
  <2> HIDE DEF l, r, A, B
  <2>15. PostOrder(t, v[l] \o v[r] \o <<n>>, A \cup {n} \cup B)
    <3>1. /\ \A y \in A, side \in Side : Kid(t, y, side) \notin B \cup {n}
          /\ \A y \in B, side \in Side : Kid(t, y, side) \notin A \cup {n}
      BY <2>12, <2>14
    <3>. QED
      BY <2>3, <2>6, <2>10, <2>12, <3>1, PostOrderJoin
  <2>. QED
    BY <2>3, <2>11, <2>13, <2>15 DEF Good
<1>4. Good(First(t))
  BY <1>2, <1>3, FirstFacts
<1>. QED
  BY <1>1, <1>4, FirstContent

-----------------------------------------------------------------------------
(* Colors and black heights.                                               *)

\* What a node adds to the black height.
Black(t, n) == IF t[n].color = "black" THEN 1 ELSE 0

\* h[n] is the number of black nodes from n down to the sentinel, whichever way
\* is taken.
Heights(t, h) ==
  /\ h \in [DOMAIN t -> Nat]
  /\ h[NIL] = 0
  /\ \A n \in Nodes(t), side \in Side : h[n] = h[Kid(t, n, side)] + Black(t, n)

\* No red node has a red parent, unless it is x.
RedRule(t, x) == \A n \in Nodes(t) : is_red(t, n) /\ is_red(t, t[n].parent) => n = x

-----------------------------------------------------------------------------
\* The assignments to colors change the colors of the nodes named and nothing
\* else.
LEMMA ColoredResult ==
  ASSUME NEW t, IsTree(t), NEW black, NEW red
  PROVE  /\ IsTree(Colored(t, black, red)) /\ DOMAIN Colored(t, black, red) = DOMAIN t
         /\ \A m \in DOMAIN t :
              /\ \A side \in Side : Kid(Colored(t, black, red), m, side) = Kid(t, m, side)
              /\ Colored(t, black, red)[m].parent = t[m].parent
              /\ Colored(t, black, red)[m].color =
                   IF m \in red THEN "red" ELSE IF m \in black THEN "black" ELSE t[m].color
<1>1. /\ IsTree(Colored(t, black, red)) /\ DOMAIN Colored(t, black, red) = DOMAIN t
      /\ \A m \in DOMAIN t :
              /\ Colored(t, black, red)[m].left = t[m].left
              /\ Colored(t, black, red)[m].right = t[m].right
              /\ Colored(t, black, red)[m].parent = t[m].parent
              /\ Colored(t, black, red)[m].color =
                   IF m \in red THEN "red" ELSE IF m \in black THEN "black" ELSE t[m].color
  BY DEF Colored, Struct, IsTree
<1>. QED
  BY <1>1 DEF Kid, Side

\* Which is why they keep a search tree a search tree, if neither ROOT nor NIL
\* turns red.
LEMMA ColoredShape ==
  ASSUME NEW t, NEW s, Shape(t, s), NEW black, NEW red \in SUBSET Nodes(t)
  PROVE  Shape(Colored(t, black, red), s)
<1> DEFINE r == Colored(t, black, red)
<1>1. /\ IsTree(r) /\ DOMAIN r = DOMAIN t
      /\ \A m \in DOMAIN t : /\ \A side \in Side : Kid(r, m, side) = Kid(t, m, side)
                             /\ r[m].parent = t[m].parent
                             /\ r[m].color = IF m \in red THEN "red" ELSE IF m \in black
                                                THEN "black" ELSE t[m].color
  BY ColoredResult DEF Shape, WellFormed
<1>2. Nodes(r) = Nodes(t) /\ ROOT \in DOMAIN t /\ NIL \in DOMAIN t /\ "left" \in Side /\ "right" \in Side
      /\ ROOT \notin red /\ NIL \notin red
  BY <1>1 DEF Nodes, Shape, WellFormed, Side
<1> HIDE DEF r
<1>3. WellFormed(r)
  <2>1. r[ROOT].color = "black" /\ r[NIL].color = "black"
    BY <1>1, <1>2 DEF Shape, WellFormed
  <2>2. \A m \in DOMAIN t, side \in Side : Kid(t, m, side) \in DOMAIN t /\ Kid(t, m, side) # ROOT
    BY DEF Shape, WellFormed
  <2>3. \A m \in DOMAIN t, side \in Side : Kid(r, m, side) \in DOMAIN t /\ Kid(r, m, side) # ROOT
    BY <1>1, <2>2
  <2>4. Kid(r, ROOT, "right") = NIL /\ \A side \in Side : Kid(r, NIL, side) = NIL
    BY <1>1, <1>2 DEF Shape, WellFormed
  <2>5. \A m \in DOMAIN t : r[m].parent \in DOMAIN t \cup {GARBAGE}
    BY <1>1 DEF Shape, WellFormed
  <2>. QED
    BY <1>1, <2>1, <2>3, <2>4, <2>5 DEF Shape, WellFormed
<1>4. Links(r)
  <2>1. \A m \in DOMAIN t, side \in Side : Kid(t, m, side) \in DOMAIN t
    BY DEF Shape, WellFormed
  <2>2. ASSUME NEW m \in DOMAIN t \ {NIL}, NEW side \in Side, Kid(r, m, side) # NIL
        PROVE  r[Kid(r, m, side)].parent = m
    BY <2>1, <2>2, <1>1 DEF Shape, Links
  <2>3. ASSUME NEW m \in Nodes(t)
        PROVE  /\ r[m].parent \in DOMAIN t /\ r[m].parent # NIL
               /\ \E side \in Side : m = Kid(r, r[m].parent, side)
    BY <1>1 DEF Shape, Links, Nodes
  <2>. QED
    BY <1>1, <1>2, <2>2, <2>3 DEF Links
<1>5. Spans(r, s)
  <2>1. Kid(r, ROOT, "left") = Kid(t, ROOT, "left")
    BY <1>1, <1>2
  <2>2. \A m \in Nodes(t), side \in Side : Kid(r, m, side) = Kid(t, m, side)
    BY <1>1 DEF Nodes
  <2>. QED
    BY <1>1, <1>2, <2>1, <2>2 DEF Shape, Spans
<1>. QED
  BY <1>3, <1>4, <1>5 DEF Shape, r

\* The definition of a height, for one node and one side.
LEMMA HeightOf ==
  ASSUME NEW t, NEW h, Heights(t, h), NEW n \in Nodes(t), NEW side \in Side
  PROVE  h[n] = h[Kid(t, n, side)] + Black(t, n)
BY DEF Heights

-----------------------------------------------------------------------------
(* The repair.                                                             *)

\* A tree with one mistake: n and its parent are red.
Fixable(t, s, h, n) ==
  /\ Shape(t, s) /\ Heights(t, h) /\ RedRule(t, n)
  /\ n \in Nodes(t) /\ is_red(t, n) /\ is_red(t, t[n].parent)
  /\ is_red(t, First(t)) => n = First(t)

\* p is the parent of n, and g its grandparent, whose child p is on side.
Family(t, n, p, g, side) ==
  p = t[n].parent /\ g = t[p].parent /\ side = SideOf(t, p, g)

\* The three nodes that a repair is about are three, and none of them is the
\* root or the sentinel: the code reads the grandparent without a test.
LEMMA FixableFacts ==
  ASSUME NEW t, NEW s, NEW h, NEW n, Fixable(t, s, h, n),
         NEW p, NEW g, NEW side, Family(t, n, p, g, side)
  PROVE  /\ n \in Nodes(t) /\ p \in Nodes(t) /\ g \in Nodes(t) /\ n # p /\ p # g /\ n # g
         /\ is_red(t, n) /\ is_red(t, p) /\ is_black(t, g) /\ is_black(t, First(t))
         /\ SideOf(t, n, p) \in Side /\ n = Kid(t, p, SideOf(t, n, p))
         /\ side \in Side /\ p = Kid(t, g, side) /\ Kid(t, g, Other(side)) # p
<1>0. p = t[n].parent /\ g = t[p].parent /\ side = SideOf(t, p, g)
  BY DEF Family
<1>1. Shape(t, s) /\ n \in Nodes(t) /\ RedRule(t, n) /\ is_red(t, n) /\ is_red(t, p)
  BY <1>0 DEF Fixable
<1>2. \A m \in DOMAIN t : ~ is_red(t, m) => is_black(t, m)
  BY <1>1 DEF Shape, WellFormed, IsTree, Struct, is_red, is_black
<1>3. p # ROOT
  BY <1>1 DEF Shape, WellFormed, is_red
<1>4. p \in Nodes(t) /\ n # First(t) /\ SideOf(t, n, p) \in Side /\ n = Kid(t, p, SideOf(t, n, p))
      /\ p # n
  BY <1>0, <1>1, <1>3, ParentFacts
<1>5. ~ is_red(t, First(t)) /\ First(t) \in DOMAIN t
  BY <1>1, <1>4, FirstFacts DEF Fixable
<1>6. p # First(t)
  BY <1>1, <1>5
<1>7. g # ROOT
  BY <1>1, <1>4, <1>6, <1>0, ParentFacts
<1>8. g \in Nodes(t) /\ side \in Side /\ p = Kid(t, g, side) /\ p # g
  BY <1>0, <1>1, <1>4, <1>7, ParentFacts
<1>9. n # g
  <2>1. n \in s[n] /\ g \notin s[p] /\ n \in s[p]
    BY <1>0, <1>1, <1>4, <1>7, KidFacts, ParentFacts DEF Nodes, Shape, Spans
  <2>. QED
    BY <2>1
<1>10. ~ is_red(t, g)
  BY <1>0, <1>1, <1>4, <1>8 DEF RedRule
<1>11. Kid(t, g, Other(side)) # p
  <2>1. \A sd \in Side : p = Kid(t, t[p].parent, sd) => sd = SideOf(t, p, t[p].parent)
    BY <1>1, <1>4, ParentFacts
  <2>2. \A sd \in Side : p = Kid(t, g, sd) => sd = side
    BY <2>1, <1>0
  <2>. QED
    BY <2>2, <1>8, OtherSide
<1>. QED
  BY <1>1, <1>2, <1>4, <1>5, <1>8, <1>9, <1>10, <1>11 DEF Nodes

\* The rotation of an inner grandchild: the mistake moves to the parent.
LEMMA Inner ==
  ASSUME NEW t, NEW s, NEW h, NEW n, Fixable(t, s, h, n),
         NEW p, NEW g, NEW side, Family(t, n, p, g, side), NEW r
  PROVE  n = Kid(t, p, Other(side)) /\ r = Rotate(t, p, side) =>
         \E z : /\ Fixable(r, z, h, p) /\ DOMAIN r = DOMAIN t
                /\ r[p].parent = n /\ r[n].parent = g /\ SideOf(r, n, g) = side
                /\ p = Kid(r, n, side)
                /\ Kid(r, g, Other(side)) = Kid(t, g, Other(side))
                /\ \A m \in DOMAIN t : r[m].color = t[m].color
<1> DEFINE o == Other(side)
           i == Kid(t, n, side)
           z == [s EXCEPT ![n] = s[p], ![p] = {k \in s[p] : Before(side, k, n)}]
<1> HIDE DEF i, z
<1>0. SUFFICES ASSUME n = Kid(t, p, Other(side)), r = Rotate(t, p, side)
               PROVE  \E zz : /\ Fixable(r, zz, h, p) /\ DOMAIN r = DOMAIN t
                              /\ r[p].parent = n /\ r[n].parent = g /\ SideOf(r, n, g) = side
                              /\ p = Kid(r, n, side)
                              /\ Kid(r, g, Other(side)) = Kid(t, g, Other(side))
                              /\ \A m \in DOMAIN t : r[m].color = t[m].color
  OBVIOUS
<1>1. /\ n \in Nodes(t) /\ p \in Nodes(t) /\ g \in Nodes(t) /\ n # p /\ p # g /\ n # g
      /\ is_red(t, n) /\ is_red(t, p) /\ is_black(t, g) /\ is_black(t, First(t))
      /\ side \in Side
      /\ Shape(t, s) /\ Heights(t, h) /\ RedRule(t, n)
  BY FixableFacts DEF Fixable
<1>K. p = Kid(t, g, side) /\ Kid(t, g, o) # p
  BY FixableFacts
<1>P. p = t[n].parent /\ g = t[p].parent /\ side = SideOf(t, p, g)
  BY DEF Family
<1>2. o \in Side /\ o # side /\ \A sd \in Side : sd = side \/ sd = o
  BY <1>1, OtherSide DEF Side
<1>3. /\ n \in DOMAIN t /\ p \in DOMAIN t /\ g \in DOMAIN t
      /\ {n, p, g} \cap {ROOT, NIL} = {}
      /\ i \in DOMAIN t /\ i # n /\ i # ROOT
      /\ i # NIL => i \in Nodes(t) /\ t[i].parent = n
  <2>1. n \in DOMAIN t /\ p \in DOMAIN t /\ g \in DOMAIN t /\ {n, p, g} \cap {ROOT, NIL} = {}
    BY <1>1 DEF Nodes
  <2>2. i \in DOMAIN t /\ i # ROOT
    BY <1>1, <2>1 DEF i, Shape, WellFormed
  <2>3. i # NIL => i \in Nodes(t) /\ t[i].parent = n /\ i # n
    BY <1>1, KidFacts DEF i
  <2>. QED
    BY <2>1, <2>2, <2>3
<1>4. Rotated(t, r, p, side, n, g, i) /\ Shape(r, z)
  <2>1. n = Kid(t, p, Other(side)) /\ n # NIL /\ r = Rotate(t, p, side)
    BY <1>0, <1>3
  <2>2. /\ Rotated(t, r, p, side, n, t[p].parent, Kid(t, n, side))
        /\ Shape(r, [s EXCEPT ![n] = s[p], ![p] = {k \in s[p] : Before(side, k, n)}])
    BY <1>1, <2>1, RotateShape
  <2>. QED
    BY <2>2, <1>P DEF i, z
<1>5. /\ IsTree(r) /\ DOMAIN r = DOMAIN t /\ Nodes(r) = Nodes(t)
      /\ Kid(r, n, side) = p /\ Kid(r, p, o) = i /\ Kid(r, g, side) = n
      /\ \A m \in DOMAIN t, sd \in Side :
           ~ (m = n /\ sd = side) /\ ~ (m = p /\ sd = o) /\ ~ (m = g /\ sd = side)
             => Kid(r, m, sd) = Kid(t, m, sd)
      /\ r[n].parent = g /\ r[p].parent = n /\ (i # NIL => i # p /\ r[i].parent = p)
      /\ \A m \in DOMAIN t : m # n /\ m # p /\ (i = NIL \/ m # i) => r[m].parent = t[m].parent
      /\ \A m \in DOMAIN t : r[m].color = t[m].color
  <2>1. i # NIL => i # p
    BY <1>1, <1>3, <1>P
  <2>2. IsTree(r) /\ DOMAIN r = DOMAIN t /\ Nodes(r) = Nodes(t)
    BY <1>4 DEF Rotated, Nodes
  <2>3. \A m \in DOMAIN t :
          /\ \A sd \in Side :
               Kid(r, m, sd) = IF m = n /\ sd = side THEN p
                               ELSE IF m = p /\ sd = o THEN i
                               ELSE IF m = g /\ sd = side THEN n
                               ELSE Kid(t, m, sd)
          /\ r[m].parent = IF m = n THEN g ELSE IF m = p THEN n
                           ELSE IF m = i /\ i # NIL THEN p ELSE t[m].parent
          /\ r[m].color = t[m].color
    BY <1>4, <1>P DEF Rotated
  <2>4. /\ Kid(r, n, side) = p /\ Kid(r, p, o) = i /\ Kid(r, g, side) = n
        /\ \A m \in DOMAIN t, sd \in Side :
             ~ (m = n /\ sd = side) /\ ~ (m = p /\ sd = o) /\ ~ (m = g /\ sd = side)
               => Kid(r, m, sd) = Kid(t, m, sd)
    BY <1>1, <1>2, <1>3, <2>3
  <2>5. /\ r[n].parent = g /\ r[p].parent = n /\ (i # NIL => i # p /\ r[i].parent = p)
        /\ \A m \in DOMAIN t : m # n /\ m # p /\ (i = NIL \/ m # i) => r[m].parent = t[m].parent
        /\ \A m \in DOMAIN t : r[m].color = t[m].color
    BY <1>1, <1>3, <2>1, <2>3
  <2>. QED
    BY <2>2, <2>4, <2>5
<1>6. Heights(r, h)
  <2>1. Black(t, n) = 0 /\ Black(t, p) = 0 /\ Black(t, g) = 1
    BY <1>1 DEF Black, is_red, is_black
  <2>2. h[p] = h[n] + 0 /\ h[n] = h[i] + 0 /\ h[g] = h[p] + 1
    <3>1. /\ h[p] = h[Kid(t, p, o)] + Black(t, p) /\ h[n] = h[Kid(t, n, side)] + Black(t, n)
          /\ h[g] = h[Kid(t, g, side)] + Black(t, g)
      BY <1>1, <1>2, HeightOf
    <3>. QED
      BY <3>1, <1>0, <1>K, <2>1 DEF i
  <2>3. h \in [DOMAIN t -> Nat] /\ h[NIL] = 0
    BY <1>1 DEF Heights
  <2>4. \A m \in DOMAIN t : Black(r, m) = Black(t, m)
    BY <1>5 DEF Black
  <2>5. ASSUME NEW m \in Nodes(t), NEW sd \in Side
        PROVE  h[m] = h[Kid(r, m, sd)] + Black(r, m)
    <3>0. m \in DOMAIN t
      BY DEF Nodes
    <3>1. CASE m = n /\ sd = side
      BY <3>1, <1>3, <1>5, <2>1, <2>2, <2>3, <2>4
    <3>2. CASE m = p /\ sd = o
      BY <3>2, <1>3, <1>5, <2>1, <2>2, <2>3, <2>4
    <3>3. CASE m = g /\ sd = side
      BY <3>3, <1>3, <1>5, <2>1, <2>2, <2>3, <2>4
    <3>4. CASE ~ (m = n /\ sd = side) /\ ~ (m = p /\ sd = o) /\ ~ (m = g /\ sd = side)
      BY <3>0, <3>4, <1>1, <1>5, <2>4, HeightOf
    <3>. QED
      BY <3>1, <3>2, <3>3, <3>4
  <2>. QED
    BY <2>3, <2>5, <1>5 DEF Heights
<1>7. \A m \in DOMAIN t : is_red(r, m) <=> is_red(t, m)
  BY <1>5 DEF is_red
<1>8. RedRule(r, p)
  <2>1. ASSUME NEW m \in Nodes(t), is_red(t, m), is_red(t, r[m].parent), m # p PROVE FALSE
    <3>0. m \in DOMAIN t
      BY DEF Nodes
    <3>1. m # n
      BY <2>1, <1>1, <1>5 DEF is_red, is_black
    <3>2. m # i
      <4>1. ASSUME m = i PROVE FALSE
        <5>1. i # NIL
          BY <4>1 DEF Nodes
        <5>2. t[m].parent = n
          BY <4>1, <5>1, <1>3
        <5>. QED
          BY <2>1, <3>1, <5>2, <1>1 DEF RedRule
      <4>. QED
        BY <4>1
    <3>3. r[m].parent = t[m].parent
      BY <2>1, <3>0, <3>1, <3>2, <1>5
    <3>. QED
      BY <2>1, <3>1, <3>3, <1>1 DEF RedRule
  <2>2. \A m \in Nodes(t) : r[m].parent \in DOMAIN t
    BY <1>4, <1>5 DEF Shape, Links
  <2>. QED
    BY <2>1, <2>2, <1>5, <1>7 DEF RedRule, Nodes
<1>9. First(r) = First(t) /\ First(t) \in DOMAIN t
  <2>1. First(t) \in DOMAIN t
    BY <1>1, FirstFacts
  <2>2. Kid(r, ROOT, "left") = Kid(t, ROOT, "left")
    BY <1>1, <1>3, <1>5 DEF Side, Shape, WellFormed
  <2>. QED
    BY <2>1, <2>2 DEF First, Kid
<1>10. Fixable(r, z, h, p)
  <2>1. is_red(r, p) /\ is_red(r, n) /\ ~ is_red(r, First(r))
    BY <1>1, <1>3, <1>7, <1>9 DEF is_red, is_black
  <2>. QED
    BY <2>1, <1>1, <1>4, <1>5, <1>6, <1>8 DEF Fixable
<1>11. SideOf(r, n, g) = side
  <2>1. n \in Nodes(r) /\ r[n].parent = g /\ n = Kid(r, g, side)
    BY <1>1, <1>5
  <2>. QED
    BY <2>1, <1>1, <1>4, ParentFacts
<1>12. Kid(r, g, o) = Kid(t, g, o)
  BY <1>1, <1>2, <1>3, <1>5
<1>. QED
  BY <1>5, <1>10, <1>11, <1>12

\* The rotation of the grandparent: no mistake is left.
\* r is t after the second rotation.
Straightened(t, r, p, g, side) == r = Rotate(Colored(t, {p}, {g}), g, Other(side))

\* The rotation at the grandparent ends the repair: no red node has a red
\* parent, the first is black, and every way down has as many black nodes as
\* before.
LEMMA Outer ==
  ASSUME NEW t, NEW s, NEW h, NEW n, Fixable(t, s, h, n),
         NEW p, NEW g, NEW side, Family(t, n, p, g, side), NEW r
  PROVE  /\ n = Kid(t, p, side) /\ is_black(t, Kid(t, g, Other(side)))
         /\ Straightened(t, r, p, g, side)
         =>
         /\ DOMAIN r = DOMAIN t
         /\ \E z : Shape(r, z)
         /\ \E k : Heights(r, k)
         /\ RedRule(r, NIL) /\ is_black(r, First(r)) /\ is_red(r, n)
<1> DEFINE o == Other(side)
           t1 == Colored(t, {p}, {g})
           q == t[g].parent
           i == Kid(t, p, o)
           u == Kid(t, g, o)
           z == [s EXCEPT ![p] = s[g], ![g] = {k \in s[g] : Before(o, k, p)}]
<1> HIDE DEF t1, q, i, u, z, o
<1>0. SUFFICES ASSUME n = Kid(t, p, side), is_black(t, Kid(t, g, Other(side))),
                      r = Rotate(Colored(t, {p}, {g}), g, Other(side))
               PROVE  /\ DOMAIN r = DOMAIN t
                      /\ \E zz : Shape(r, zz)
                      /\ \E k : Heights(r, k)
                      /\ RedRule(r, NIL) /\ is_black(r, First(r)) /\ is_red(r, n)
  BY DEF Straightened
<1>1. /\ n \in Nodes(t) /\ p \in Nodes(t) /\ g \in Nodes(t) /\ n # p /\ p # g /\ n # g
      /\ is_red(t, n) /\ is_red(t, p) /\ is_black(t, g) /\ is_black(t, First(t))
      /\ side \in Side
      /\ Shape(t, s) /\ Heights(t, h) /\ RedRule(t, n)
  BY FixableFacts DEF Fixable
<1>K. p = Kid(t, g, side) /\ u # p /\ u = Kid(t, g, o)
  BY FixableFacts DEF u, o
<1>U. is_black(t, u)
  BY <1>0 DEF u, o
<1>P. p = t[n].parent /\ g = t[p].parent
  BY DEF Family
<1>2. o \in Side /\ o # side /\ Other(o) = side /\ \A sd \in Side : sd = side \/ sd = o
  BY <1>1, OtherSide DEF Side, o
<1>3. /\ n \in DOMAIN t /\ p \in DOMAIN t /\ g \in DOMAIN t
      /\ {n, p, g} \cap {ROOT, NIL} = {}
      /\ i \in DOMAIN t /\ i # p /\ i # ROOT
      /\ i # NIL => i \in Nodes(t) /\ t[i].parent = p
      /\ u \in DOMAIN t /\ u # g
  <2>1. i \in DOMAIN t /\ i # ROOT /\ u \in DOMAIN t /\ n \in DOMAIN t /\ p \in DOMAIN t /\ g \in DOMAIN t
    BY <1>1, <1>2 DEF Nodes, Shape, WellFormed, i, u
  <2>2. i # NIL => i \in Nodes(t) /\ t[i].parent = p /\ i # p
    BY <1>1, <1>2, KidFacts DEF i
  <2>3. u # NIL => u # g
    BY <1>1, <1>2, KidFacts DEF u
  <2>. QED
    BY <2>1, <2>2, <2>3, <1>1 DEF Nodes
<1>4. i # n /\ i # g
  <2>1. i # n
    <3>1. i # NIL => Before(o, i, p)
      BY <1>1, <1>2, KidFacts DEF i
    <3>2. Before(side, n, p) /\ n \in Key /\ p \in Key
      BY <1>0, <1>1, <1>3, KidFacts, NodeFacts DEF Shape
    <3>. QED
      BY <3>1, <3>2, <1>1, <1>2, <1>3, Order
  <2>2. i # g
    <3>1. i # NIL => i \in s[p]
      BY <1>1, <1>2, KidFacts DEF i
    <3>2. g \notin s[p]
      <4>1. Kid(t, g, side) # NIL => g \notin s[Kid(t, g, side)]
        BY <1>1, KidFacts
      <4>. QED
        BY <4>1, <1>K, <1>3
    <3>. QED
      BY <3>1, <3>2, <1>1, <1>3 DEF Nodes
  <2>. QED
    BY <2>1, <2>2
<1>5. /\ q \in DOMAIN t /\ q # NIL /\ q # g /\ q # p
      /\ SideOf(t, g, q) \in Side /\ g = Kid(t, q, SideOf(t, g, q))
      /\ \A sd \in Side : g = Kid(t, q, sd) => sd = SideOf(t, g, q)
      /\ q = ROOT => SideOf(t, g, q) = "left"
      /\ q # ROOT => q \in Nodes(t) /\ g # First(t)
  <2>1. q \in Nodes(t) => q # p
    <3>1. ASSUME q \in Nodes(t) PROVE q \notin s[g]
      BY <3>1, <1>1, ParentFacts DEF Nodes, q
    <3>2. p \in s[g]
      <4>1. Kid(t, g, side) # NIL => Kid(t, g, side) \in s[g]
        BY <1>1, KidFacts
      <4>. QED
        BY <4>1, <1>K, <1>3
    <3>. QED
      BY <3>1, <3>2
  <2>. QED
    BY <2>1, <1>1, <1>3, ParentFacts DEF q
<1>6. Shape(t1, s)
  BY <1>1, ColoredShape DEF t1
<1>7. /\ DOMAIN t1 = DOMAIN t /\ Nodes(t1) = Nodes(t)
      /\ \A m \in DOMAIN t :
           /\ \A sd \in Side : Kid(t1, m, sd) = Kid(t, m, sd)
           /\ t1[m].parent = t[m].parent
           /\ t1[m].color = IF m = g THEN "red" ELSE IF m = p THEN "black" ELSE t[m].color
  <2>1. IsTree(t)
    BY <1>1 DEF Shape, WellFormed
  <2>. QED
    BY <2>1, <1>1, ColoredResult DEF Nodes, t1
<1>8. Rotated(t1, r, g, o, p, q, i) /\ Shape(r, z)
  <2>1. p = Kid(t1, g, Other(o)) /\ t1[g].parent = q /\ Kid(t1, p, o) = i /\ g \in Nodes(t1)
    <3>1. Kid(t1, g, side) = Kid(t, g, side) /\ Kid(t1, p, o) = Kid(t, p, o) /\ t1[g].parent = t[g].parent
      BY <1>1, <1>2, <1>3, <1>7
    <3>. QED
      BY <3>1, <1>1, <1>2, <1>7, <1>K DEF i, q
  <2>2. r = Rotate(t1, g, o)
    BY <1>0 DEF t1, o
  <2>3. p # NIL
    BY <1>3
  <2>. QED
    BY <2>1, <2>2, <2>3, <1>2, <1>6, RotateShape DEF z
<1>9. SideOf(t1, g, q) = SideOf(t, g, q)
  <2>1. Kid(t1, q, "left") = Kid(t, q, "left")
    BY <1>5, <1>7 DEF Side
  <2>. QED
    BY <2>1 DEF SideOf, Kid
<1>10. /\ IsTree(r) /\ DOMAIN r = DOMAIN t /\ Nodes(r) = Nodes(t)
      /\ Kid(r, p, o) = g /\ Kid(r, g, side) = i /\ Kid(r, q, SideOf(t, g, q)) = p
      /\ \A m \in DOMAIN t, sd \in Side :
           ~ (m = p /\ sd = o) /\ ~ (m = g /\ sd = side) /\ ~ (m = q /\ sd = SideOf(t, g, q))
             => Kid(r, m, sd) = Kid(t, m, sd)
  BY <1>1, <1>2, <1>3, <1>4, <1>5, <1>7, <1>8, <1>9 DEF Rotated, Nodes
<1>C. \A m \in DOMAIN t : r[m].color = IF m = g THEN "red" ELSE IF m = p THEN "black" ELSE t[m].color
  BY <1>7, <1>8 DEF Rotated
<1>R. /\ r[g].parent = p
      /\ \A m \in DOMAIN t : m # p /\ m # g /\ (i = NIL \/ m # i) => r[m].parent = t[m].parent
  BY <1>1, <1>3, <1>7, <1>8 DEF Rotated
<1>11. \E k : Heights(r, k)
  <2> DEFINE k == [h EXCEPT ![p] = h[g], ![g] = h[p]]
  <2>1. h \in [DOMAIN t -> Nat] /\ h[NIL] = 0
    BY <1>1 DEF Heights
  <2>2. k \in [DOMAIN t -> Nat] /\ k[p] = h[g] /\ k[g] = h[p]
        /\ \A m \in DOMAIN t : m # p /\ m # g => k[m] = h[m]
    BY <2>1, <1>1, <1>3
  <2> HIDE DEF k
  <2>3. Black(t, p) = 0 /\ Black(t, g) = 1
    BY <1>1 DEF Black, is_red, is_black
  <2>4. Black(r, p) = 1 /\ Black(r, g) = 0 /\ \A m \in DOMAIN t : m # p /\ m # g => Black(r, m) = Black(t, m)
    <3>1. r[p].color = "black" /\ r[g].color = "red"
          /\ \A m \in DOMAIN t : m # p /\ m # g => r[m].color = t[m].color
      BY <1>1, <1>3, <1>C
    <3>. QED
      BY <3>1 DEF Black
  <2>5. /\ h[p] = h[n] + 0 /\ h[p] = h[i] + 0 /\ h[g] = h[p] + 1 /\ h[g] = h[u] + 1
        /\ q # ROOT => h[q] = h[g] + Black(t, q)
    <3>1. /\ h[p] = h[Kid(t, p, side)] + Black(t, p) /\ h[p] = h[Kid(t, p, o)] + Black(t, p)
          /\ h[g] = h[Kid(t, g, side)] + Black(t, g) /\ h[g] = h[Kid(t, g, o)] + Black(t, g)
      BY <1>1, <1>2, HeightOf
    <3>2. ASSUME q # ROOT PROVE h[q] = h[Kid(t, q, SideOf(t, g, q))] + Black(t, q)
      BY <3>2, <1>1, <1>5, HeightOf
    <3>3. h[p] = h[n] + 0 /\ h[p] = h[i] + 0
      BY <3>1, <1>0, <2>3 DEF i
    <3>4. h[g] = h[p] + 1 /\ h[g] = h[u] + 1
      BY <3>1, <1>K, <2>3
    <3>5. q # ROOT => h[q] = h[g] + Black(t, q)
      BY <3>2, <1>5
    <3>. QED
      BY <3>3, <3>4, <3>5
  <2>6. {h[n], h[p], h[g], h[i], h[u]} \subseteq Nat
    BY <2>1, <1>3
  <2>7. ASSUME NEW m \in Nodes(t), NEW sd \in Side
        PROVE  k[m] = k[Kid(r, m, sd)] + Black(r, m)
    <3>0. m \in DOMAIN t /\ m # ROOT /\ m # NIL
      BY DEF Nodes
    <3>1. CASE m = p /\ sd = o
      BY <3>1, <1>10, <2>2, <2>4, <2>5, <2>6
    <3>2. CASE m = p /\ sd = side
      <4>1. Kid(r, m, sd) = n /\ k[n] = h[n]
        BY <3>2, <1>0, <1>1, <1>2, <1>3, <1>5, <1>10, <2>2
      <4>. QED
        BY <3>2, <4>1, <2>2, <2>4, <2>5, <2>6
    <3>3. CASE m = g /\ sd = side
      <4>1. Kid(r, m, sd) = i /\ k[i] = h[i]
        BY <3>3, <1>3, <1>4, <1>10, <2>2
      <4>. QED
        BY <3>3, <4>1, <2>2, <2>4, <2>5, <2>6
    <3>4. CASE m = g /\ sd = o
      <4>1. Kid(r, m, sd) = u /\ k[u] = h[u]
        <5>1. Kid(r, g, o) = Kid(t, g, o)
          BY <1>1, <1>2, <1>3, <1>5, <1>10
        <5>. QED
          BY <3>4, <5>1, <1>3, <1>K, <2>2
      <4>. QED
        BY <3>4, <4>1, <2>2, <2>4, <2>5, <2>6
    <3>5. CASE m = q /\ sd = SideOf(t, g, q)
      <4>1. Kid(r, m, sd) = p /\ k[m] = h[m] /\ Black(r, m) = Black(t, m)
        BY <3>0, <3>5, <1>5, <1>10, <2>2, <2>4
      <4>. QED
        BY <3>0, <3>5, <4>1, <2>2, <2>5
    <3>6. CASE m # p /\ m # g /\ ~ (m = q /\ sd = SideOf(t, g, q))
      <4>1. Kid(r, m, sd) = Kid(t, m, sd)
        BY <3>0, <3>6, <1>10
      <4>2. Kid(t, m, sd) # p
        <5>1. ASSUME Kid(t, m, sd) = p PROVE m = g
          <6>1. Kid(t, m, sd) # NIL => t[Kid(t, m, sd)].parent = m
            BY <1>1, KidFacts
          <6>. QED
            BY <5>1, <6>1, <1>3, <1>P
        <5>. QED
          BY <5>1, <3>6
      <4>3. Kid(t, m, sd) # g
        <5>1. ASSUME Kid(t, m, sd) = g PROVE m = q /\ sd = SideOf(t, g, q)
          <6>1. m = q
            <7>1. Kid(t, m, sd) # NIL => t[Kid(t, m, sd)].parent = m
              BY <1>1, KidFacts
            <7>. QED
              BY <5>1, <7>1, <1>3 DEF q
          <6>. QED
            BY <5>1, <6>1, <1>5
        <5>. QED
          BY <5>1, <3>6
      <4>4. Kid(t, m, sd) \in DOMAIN t
        BY <1>1, KidFacts
      <4>5. h[m] = h[Kid(t, m, sd)] + Black(t, m)
        BY <1>1, HeightOf
      <4>. QED
        BY <3>0, <3>6, <4>1, <4>2, <4>3, <4>4, <4>5, <2>2, <2>4
    <3>. QED
      BY <3>1, <3>2, <3>3, <3>4, <3>5, <3>6, <1>2
  <2>8. k[NIL] = 0
    BY <2>1, <2>2, <1>1, <1>3 DEF Shape, WellFormed
  <2>. QED
    BY <2>2, <2>7, <2>8, <1>10 DEF Heights
<1>12. \A m \in DOMAIN t : is_red(r, m) <=> m = g \/ (m # p /\ is_red(t, m))
  <2>1. \A m \in DOMAIN t : r[m].color = IF m = g THEN "red" ELSE IF m = p THEN "black" ELSE t[m].color
    BY <1>C
  <2>. QED
    BY <2>1, <1>1 DEF is_red
<1>13. RedRule(r, NIL)
  <2>1. ASSUME NEW m \in Nodes(t), is_red(r, m), is_red(r, r[m].parent) PROVE FALSE
    <3>0. m \in DOMAIN t /\ m # NIL /\ r[m].parent \in DOMAIN t
      BY <1>8, <1>10 DEF Nodes, Shape, Links
    <3>1. m # p
      BY <2>1, <1>1, <1>3, <1>12
    <3>2. m # g
      <4>1. r[g].parent = p /\ ~ is_red(r, p)
        BY <1>1, <1>3, <1>R, <1>12
      <4>. QED
        BY <2>1, <4>1
    <3>3. is_red(t, m)
      BY <2>1, <3>0, <3>2, <1>12
    <3>4. m # i
      <4>1. ASSUME m = i PROVE FALSE
        <5>1. t[m].parent = p
          BY <4>1, <3>0, <1>3
        <5>2. m = n
          BY <5>1, <3>3, <1>1 DEF RedRule
        <5>. QED
          BY <4>1, <5>2, <1>4
      <4>. QED
        BY <4>1
    <3>5. r[m].parent = t[m].parent
      <4>1. \A x \in DOMAIN t : x # p /\ x # g /\ (i = NIL \/ x # i) => r[x].parent = t[x].parent
        BY <1>R
      <4>. QED
        BY <3>0, <3>1, <3>2, <3>4, <4>1
    <3>6. CASE t[m].parent = g
      <4>1. PICK sd \in Side : m = Kid(t, g, sd)
        BY <3>6, <1>1 DEF Shape, Links
      <4>2. m = u
        BY <4>1, <3>1, <1>2, <1>K
      <4>. QED
        BY <3>3, <4>2, <1>U DEF is_red, is_black
    <3>7. CASE t[m].parent # g
      <4>1. t[m].parent # p /\ is_red(t, t[m].parent)
        BY <2>1, <3>0, <3>5, <3>7, <1>12
      <4>2. m = n
        BY <3>3, <4>1, <1>1 DEF RedRule
      <4>. QED
        BY <4>1, <4>2, <1>P
    <3>. QED
      BY <3>6, <3>7
  <2>. QED
    BY <2>1, <1>10 DEF RedRule
<1>14. is_black(r, First(r))
  <2>1. "left" \in Side /\ ROOT \in DOMAIN t
    BY <1>1 DEF Side, Shape, WellFormed
  <2>2. CASE q = ROOT
    <3>1. First(r) = p
      BY <2>2, <1>5, <1>10 DEF First, Kid
    <3>. QED
      <4>1. r[p].color = "black"
        BY <1>1, <1>3, <1>C
      <4>. QED
        BY <3>1, <4>1 DEF is_black
  <2>3. CASE q # ROOT
    <3>1. Kid(r, ROOT, "left") = Kid(t, ROOT, "left")
      BY <2>1, <2>3, <1>3, <1>10
    <3>2. First(r) = First(t) /\ First(t) # g /\ First(t) \in DOMAIN t
      BY <2>3, <3>1, <1>1, <1>5, FirstFacts DEF First, Kid
    <3>. QED
      <4>1. r[First(t)].color = "black" \/ r[First(t)].color = t[First(t)].color
        BY <3>2, <1>C
      <4>. QED
        BY <3>2, <4>1, <1>1 DEF is_black
  <2>. QED
    BY <2>2, <2>3
<1>15. is_red(r, n)
  BY <1>1, <1>3, <1>12
<1>. QED
  BY <1>8, <1>10, <1>11, <1>13, <1>14, <1>15

\* r is t with the parent p and the uncle u black, and the grandparent g red.
Recolored(t, r, p, u, g) == r = Colored(t, {p, u}, {g})

\* Case 1 of the repair: the mistake moves to the grandparent.
LEMMA Recoloring ==
  ASSUME NEW t, NEW s, NEW h, NEW n, Fixable(t, s, h, n),
         NEW p, NEW g, NEW side, Family(t, n, p, g, side), NEW u, NEW r
  PROVE  /\ u = Kid(t, g, Other(side)) /\ is_red(t, u)
         /\ Recolored(t, r, p, u, g)
         =>
         /\ DOMAIN r = DOMAIN t
         /\ Shape(r, s)
         /\ \E k : Heights(r, k)
         /\ RedRule(r, g) /\ g \in Nodes(t) /\ is_red(r, g)
         /\ is_red(r, First(r)) => First(r) = g
<1>0. SUFFICES ASSUME u = Kid(t, g, Other(side)), is_red(t, u), r = Colored(t, {p, u}, {g})
               PROVE  /\ DOMAIN r = DOMAIN t
                      /\ Shape(r, s)
                      /\ \E k : Heights(r, k)
                      /\ RedRule(r, g) /\ g \in Nodes(t) /\ is_red(r, g)
                      /\ is_red(r, First(r)) => First(r) = g
  BY DEF Recolored
<1>1. /\ n \in Nodes(t) /\ p \in Nodes(t) /\ g \in Nodes(t) /\ n # p /\ p # g /\ n # g
      /\ is_red(t, n) /\ is_red(t, p) /\ is_black(t, g) /\ is_black(t, First(t))
      /\ side \in Side /\ Other(side) \in Side /\ \A sd \in Side : sd = side \/ sd = Other(side)
      /\ Shape(t, s) /\ Heights(t, h) /\ RedRule(t, n)
  BY FixableFacts, OtherSide DEF Fixable, Side
<1>K. p = Kid(t, g, side) /\ u # p /\ u = Kid(t, g, Other(side))
  BY <1>0, FixableFacts
<1>P. p = t[n].parent /\ g = t[p].parent
  BY DEF Family
<1>U. u # NIL /\ u \in Nodes(t) /\ t[u].parent = g /\ u # g /\ t[p].parent = g
  <2>1. u # NIL
    BY <1>0, <1>1 DEF is_red, Shape, WellFormed
  <2>2. Kid(t, g, Other(side)) # NIL =>
          /\ Kid(t, g, Other(side)) \in Nodes(t) /\ t[Kid(t, g, Other(side))].parent = g
          /\ Kid(t, g, Other(side)) # g
    BY <1>1, KidFacts
  <2>. QED
    BY <2>1, <2>2, <1>K, <1>P
<1>2. n \in DOMAIN t /\ p \in DOMAIN t /\ g \in DOMAIN t /\ u \in DOMAIN t
      /\ {n, p, g, u} \cap {ROOT, NIL} = {}
  BY <1>1, <1>U DEF Nodes
<1>3. Shape(r, s) /\ IsTree(t)
  <2>1. Shape(Colored(t, {p, u}, {g}), s)
    <3>1. {g} \in SUBSET Nodes(t)
      BY <1>1
    <3>. QED
      BY <3>1, <1>1, ColoredShape
  <2>. QED
    BY <2>1, <1>0, <1>1 DEF Shape, WellFormed
<1>4. /\ DOMAIN r = DOMAIN t /\ Nodes(r) = Nodes(t)
      /\ \A m \in DOMAIN t : /\ \A sd \in Side : Kid(r, m, sd) = Kid(t, m, sd)
                             /\ r[m].parent = t[m].parent
  BY <1>0, <1>3, ColoredResult DEF Nodes
<1>C. \A m \in DOMAIN t : r[m].color = IF m = g THEN "red" ELSE IF m = p \/ m = u
                                          THEN "black" ELSE t[m].color
  BY <1>0, <1>3, ColoredResult
<1>5. \E k : Heights(r, k)
  <2> DEFINE k == [h EXCEPT ![p] = h[p] + 1, ![u] = h[u] + 1]
  <2>1. h \in [DOMAIN t -> Nat] /\ h[NIL] = 0
    BY <1>1 DEF Heights
  <2>2. k \in [DOMAIN t -> Nat] /\ k[p] = h[p] + 1 /\ k[u] = h[u] + 1
        /\ \A m \in DOMAIN t : m # p /\ m # u => k[m] = h[m]
    BY <2>1, <1>2, <1>K
  <2> HIDE DEF k
  <2>3. Black(t, p) = 0 /\ Black(t, u) = 0 /\ Black(t, g) = 1
    BY <1>0, <1>1 DEF Black, is_red, is_black
  <2>4. Black(r, p) = 1 /\ Black(r, u) = 1 /\ Black(r, g) = 0
        /\ \A m \in DOMAIN t : m # p /\ m # u /\ m # g => Black(r, m) = Black(t, m)
    <3>1. r[p].color = "black" /\ r[u].color = "black" /\ r[g].color = "red"
          /\ \A m \in DOMAIN t : m # p /\ m # u /\ m # g => r[m].color = t[m].color
      BY <1>1, <1>2, <1>U, <1>C
    <3>. QED
      BY <3>1 DEF Black
  <2>5. h[g] = h[p] + 1 /\ h[g] = h[u] + 1 /\ {h[g], h[p], h[u]} \subseteq Nat
    <3>1. h[g] = h[Kid(t, g, side)] + Black(t, g) /\ h[g] = h[Kid(t, g, Other(side))] + Black(t, g)
      BY <1>1, HeightOf
    <3>. QED
      BY <3>1, <1>K, <1>2, <2>1, <2>3
  <2>6. ASSUME NEW m \in Nodes(t), NEW sd \in Side
        PROVE  k[m] = k[Kid(r, m, sd)] + Black(r, m)
    <3>1. m \in DOMAIN t /\ Kid(r, m, sd) = Kid(t, m, sd) /\ Kid(t, m, sd) \in DOMAIN t
      BY <1>1, <1>4, KidFacts DEF Nodes
    <3>2. h[m] = h[Kid(t, m, sd)] + Black(t, m)
      BY <1>1, HeightOf
    <3>3. Kid(t, m, sd) # NIL => t[Kid(t, m, sd)].parent = m
      BY <1>1, KidFacts
    <3>4. CASE m = g
      <4>1. Kid(t, m, sd) = p \/ Kid(t, m, sd) = u
        BY <3>4, <1>1, <1>K
      <4>2. k[m] = h[g]
        BY <3>4, <1>1, <1>2, <1>U, <2>2
      <4>. QED
        BY <3>1, <3>4, <4>1, <4>2, <2>2, <2>4, <2>5
    <3>5. CASE m # g
      <4>1. Kid(t, m, sd) # p /\ Kid(t, m, sd) # u
        BY <3>3, <3>5, <1>2, <1>U
      <4>2. k[Kid(t, m, sd)] = h[Kid(t, m, sd)] /\ h[Kid(t, m, sd)] \in Nat
        BY <3>1, <4>1, <2>1, <2>2
      <4>3. CASE m = p \/ m = u
        BY <4>3, <3>1, <3>2, <4>2, <2>2, <2>3, <2>4
      <4>4. CASE m # p /\ m # u
        BY <4>4, <3>1, <3>2, <3>5, <4>2, <2>2, <2>4
      <4>. QED
        BY <4>3, <4>4
    <3>. QED
      BY <3>4, <3>5
  <2>7. k[NIL] = 0
    BY <2>1, <2>2, <1>1, <1>2 DEF Shape, WellFormed
  <2>. QED
    BY <2>2, <2>6, <2>7, <1>4 DEF Heights
<1>6. \A m \in DOMAIN t : is_red(r, m) <=> m = g \/ (m # p /\ m # u /\ is_red(t, m))
  BY <1>1, <1>U, <1>C DEF is_red
<1>7. RedRule(r, g)
  <2>1. ASSUME NEW m \in Nodes(t), is_red(r, m), is_red(r, r[m].parent), m # g PROVE FALSE
    <3>1. m \in DOMAIN t /\ r[m].parent = t[m].parent /\ t[m].parent \in DOMAIN t
      BY <1>1, <1>4, ParentFacts DEF Nodes
    <3>2. m # p /\ m # u /\ is_red(t, m)
      BY <2>1, <3>1, <1>6
    <3>3. t[m].parent # g
      <4>1. ASSUME t[m].parent = g PROVE FALSE
        <5>1. PICK sd \in Side : m = Kid(t, t[m].parent, sd)
          BY <1>1 DEF Shape, Links
        <5>. QED
          BY <4>1, <5>1, <3>2, <1>1, <1>K
      <4>. QED
        BY <4>1
    <3>4. t[m].parent # p /\ is_red(t, t[m].parent)
      BY <2>1, <3>1, <3>3, <1>6
    <3>5. m = n
      BY <3>2, <3>4, <1>1 DEF RedRule
    <3>. QED
      BY <3>4, <3>5, <1>P
  <2>. QED
    BY <2>1, <1>4 DEF RedRule
<1>8. First(r) = First(t) /\ First(t) \in DOMAIN t
  <2>1. "left" \in Side /\ ROOT \in DOMAIN t /\ First(t) \in DOMAIN t
    BY <1>1, FirstFacts DEF Side, Shape, WellFormed
  <2>2. Kid(r, ROOT, "left") = Kid(t, ROOT, "left")
    BY <2>1, <1>4
  <2>. QED
    BY <2>1, <2>2 DEF First, Kid
<1>9. is_red(r, First(r)) => First(r) = g
  BY <1>1, <1>6, <1>8 DEF is_red, is_black
<1>10. is_red(r, g)
  BY <1>2, <1>6
<1>. QED
  BY <1>1, <1>3, <1>4, <1>5, <1>7, <1>9, <1>10

\* The end of an insertion: the first node becomes black.
LEMMA FirstBlack ==
  ASSUME NEW t, NEW s, NEW h, NEW n, Shape(t, s), Heights(t, h), RedRule(t, n),
         n \in Nodes(t), is_black(t, t[n].parent), NEW r
  PROVE  r = Colored(t, {First(t)}, {}) =>
         /\ DOMAIN r = DOMAIN t
         /\ Shape(r, s)
         /\ \E k : Heights(r, k)
         /\ RedRule(r, NIL) /\ is_black(r, First(r))
<1> DEFINE f == First(t)
<1>0. SUFFICES ASSUME r = Colored(t, {First(t)}, {})
               PROVE  /\ DOMAIN r = DOMAIN t
                      /\ Shape(r, s)
                      /\ \E k : Heights(r, k)
                      /\ RedRule(r, NIL) /\ is_black(r, First(r))
  OBVIOUS
<1>1. f \in Nodes(t) /\ t[f].parent = ROOT /\ f \in DOMAIN t /\ f # NIL /\ f # ROOT
  BY FirstFacts DEF Nodes
<1>2. "left" \in Side /\ "right" \in Side /\ ROOT \in DOMAIN t /\ ROOT \notin Nodes(t)
      /\ \A sd \in Side : sd = "left" \/ sd = "right"
  BY DEF Side, Shape, WellFormed, Nodes
<1>3. Shape(r, s) /\ IsTree(t)
  <2>1. Shape(Colored(t, {First(t)}, {}), s)
    <3>1. {} \in SUBSET Nodes(t)
      OBVIOUS
    <3>. QED
      BY <3>1, ColoredShape
  <2>. QED
    BY <2>1, <1>0 DEF Shape, WellFormed
<1>4. /\ DOMAIN r = DOMAIN t /\ Nodes(r) = Nodes(t)
      /\ \A m \in DOMAIN t : /\ \A sd \in Side : Kid(r, m, sd) = Kid(t, m, sd)
                             /\ r[m].parent = t[m].parent
  BY <1>0, <1>3, ColoredResult DEF Nodes
<1>C. \A m \in DOMAIN t : r[m].color = IF m = f THEN "black" ELSE t[m].color
  BY <1>0, <1>3, ColoredResult
<1> HIDE DEF f
<1>5. \E k : Heights(r, k)
  <2> DEFINE l == Kid(t, f, "left")
             k == [h EXCEPT ![f] = h[l] + 1]
  <2>1. h \in [DOMAIN t -> Nat] /\ h[NIL] = 0
    BY DEF Heights
  <2>2. /\ \A sd \in Side : h[Kid(t, f, sd)] = h[l]
        /\ l \in DOMAIN t /\ h[l] \in Nat
    <3>1. /\ h[f] = h[Kid(t, f, "left")] + Black(t, f)
          /\ h[f] = h[Kid(t, f, "right")] + Black(t, f)
      BY <1>1, <1>2, HeightOf
    <3>2. h[Kid(t, f, "left")] \in Nat /\ h[Kid(t, f, "right")] \in Nat /\ Black(t, f) \in Nat
          /\ l \in DOMAIN t
      BY <1>1, <1>2, <2>1, KidFacts DEF Black
    <3>. QED
      BY <3>1, <3>2, <1>2
  <2> HIDE DEF l
  <2>3. k \in [DOMAIN t -> Nat] /\ k[f] = h[l] + 1 /\ \A m \in DOMAIN t : m # f => k[m] = h[m]
    BY <2>1, <2>2, <1>1
  <2> HIDE DEF k
  <2>4. Black(r, f) = 1 /\ \A m \in DOMAIN t : m # f => Black(r, m) = Black(t, m)
    <3>1. r[f].color = "black" /\ \A m \in DOMAIN t : m # f => r[m].color = t[m].color
      BY <1>1, <1>C
    <3>. QED
      BY <3>1 DEF Black
  <2>5. ASSUME NEW m \in Nodes(t), NEW sd \in Side
        PROVE  k[m] = k[Kid(r, m, sd)] + Black(r, m)
    <3>1. m \in DOMAIN t /\ Kid(r, m, sd) = Kid(t, m, sd) /\ Kid(t, m, sd) \in DOMAIN t
      BY <1>4, KidFacts DEF Nodes
    <3>2. h[m] = h[Kid(t, m, sd)] + Black(t, m)
      BY HeightOf
    <3>3. Kid(t, m, sd) # f
      <4>1. Kid(t, m, sd) # NIL => t[Kid(t, m, sd)].parent = m
        BY KidFacts
      <4>. QED
        BY <4>1, <1>1, <1>2
    <3>4. k[Kid(t, m, sd)] = h[Kid(t, m, sd)]
      BY <3>1, <3>3, <2>3
    <3>5. CASE m = f
      BY <3>1, <3>4, <3>5, <2>2, <2>3, <2>4
    <3>6. CASE m # f
      BY <3>1, <3>2, <3>4, <3>6, <2>3, <2>4
    <3>. QED
      BY <3>5, <3>6
  <2>6. k[NIL] = 0
    BY <2>1, <2>3, <1>1 DEF Shape, WellFormed
  <2>. QED
    BY <2>3, <2>5, <2>6, <1>4 DEF Heights
<1>6. \A m \in DOMAIN t : is_red(r, m) <=> m # f /\ is_red(t, m)
  BY <1>C DEF is_red
<1>7. RedRule(r, NIL)
  <2>1. ASSUME NEW m \in Nodes(t), is_red(r, m), is_red(r, r[m].parent) PROVE FALSE
    <3>1. m \in DOMAIN t /\ r[m].parent = t[m].parent /\ t[m].parent \in DOMAIN t
      BY <1>4, ParentFacts DEF Nodes
    <3>2. is_red(t, m) /\ is_red(t, t[m].parent)
      BY <2>1, <3>1, <1>6
    <3>3. m = n
      BY <3>2 DEF RedRule
    <3>. QED
      BY <3>2, <3>3 DEF is_red, is_black
  <2>. QED
    BY <2>1, <1>4 DEF RedRule
<1>8. is_black(r, First(r))
  <2>1. Kid(r, ROOT, "left") = Kid(t, ROOT, "left")
    BY <1>2, <1>4
  <2>2. First(r) = f
    BY <2>1 DEF First, Kid, f
  <2>3. r[f].color = "black"
    BY <1>1, <1>C
  <2>. QED
    BY <2>2, <2>3 DEF is_black
<1>. QED
  BY <1>3, <1>4, <1>5, <1>7, <1>8

-----------------------------------------------------------------------------
(* The way down and the new node.                                          *)

\* The loop of rb_tree_insert has come to m, below p, looking for d.
Descending(t, s, d, m, p) ==
  \/ p = ROOT /\ m = First(t)
  \/ /\ p \in Nodes(t) /\ d \in s[p]
     /\ \E side \in Side : Before(side, d, p) /\ m = Kid(t, p, side)

\* The tree t with a new node d below p.
Attached(t, d, p, side) ==
  [n \in DOMAIN t \cup {d} |->
     IF n = d THEN [left |-> NIL, right |-> NIL, parent |-> p, color |-> "red"]
     ELSE IF n = p THEN [t[n] EXCEPT ![side] = d]
     ELSE t[n]]

\* What becomes of every field of t when it takes d: a is the outcome.
Attaches(t, a, d, p, side) ==
  /\ IsTree(a) /\ DOMAIN a = DOMAIN t \cup {d}
  /\ \A m \in DOMAIN t \cup {d} :
       /\ \A sd \in Side : Kid(a, m, sd) = IF m = d THEN NIL
                                          ELSE IF m = p /\ sd = side THEN d ELSE Kid(t, m, sd)
       /\ a[m].parent = IF m = d THEN p ELSE t[m].parent
       /\ a[m].color = IF m = d THEN "red" ELSE t[m].color

\* The node that rb_tree_insert links in changes one child of its parent and
\* nothing else.
LEMMA AttachedResult ==
  ASSUME NEW t, IsTree(t), NEW d \in Cell, d \notin DOMAIN t, NEW p \in DOMAIN t, NEW side \in Side,
         p \in Cell
  PROVE  Attaches(t, Attached(t, d, p, side), d, p, side)
<1> DEFINE r == Attached(t, d, p, side)
           new == [left |-> NIL, right |-> NIL, parent |-> p, color |-> "red"]
<1>1. new \in Struct /\ new.left = NIL /\ new.right = NIL /\ new.parent = p /\ new.color = "red"
  BY DEF Struct, Cell
<1>2. DOMAIN r = DOMAIN t \cup {d} /\ r[d] = new
      /\ r[p] = [t[p] EXCEPT ![side] = d]
      /\ \A m \in DOMAIN t : m # p => r[m] = t[m]
  BY DEF Attached
<1>3. ASSUME NEW x \in Struct
      PROVE  /\ [x EXCEPT !["left"] = d] \in Struct
             /\ [x EXCEPT !["left"] = d].left = d /\ [x EXCEPT !["left"] = d].right = x.right
             /\ [x EXCEPT !["left"] = d].parent = x.parent /\ [x EXCEPT !["left"] = d].color = x.color
             /\ [x EXCEPT !["right"] = d] \in Struct
             /\ [x EXCEPT !["right"] = d].left = x.left /\ [x EXCEPT !["right"] = d].right = d
             /\ [x EXCEPT !["right"] = d].parent = x.parent /\ [x EXCEPT !["right"] = d].color = x.color
  BY DEF Struct
<1>4. t[p] \in Struct /\ \A m \in DOMAIN t : t[m] \in Struct
  BY DEF IsTree
<1>5. /\ r[p] \in Struct
      /\ r[p].left = IF side = "left" THEN d ELSE t[p].left
      /\ r[p].right = IF side = "right" THEN d ELSE t[p].right
      /\ r[p].parent = t[p].parent /\ r[p].color = t[p].color
  <2>1. CASE side = "left"
    <3>1. r[p] = [t[p] EXCEPT !["left"] = d]
      BY <1>2, <2>1
    <3>. QED
      BY <2>1, <3>1, <1>3, <1>4
  <2>2. CASE side = "right"
    <3>1. r[p] = [t[p] EXCEPT !["right"] = d]
      BY <1>2, <2>2
    <3>. QED
      BY <2>2, <3>1, <1>3, <1>4
  <2>. QED
    BY <2>1, <2>2 DEF Side
<1>6. IsTree(r)
  <2>1. \A m \in DOMAIN t \cup {d} : r[m] \in Struct
    BY <1>1, <1>2, <1>4, <1>5
  <2>2. r = [m \in DOMAIN t \cup {d} |-> r[m]]
    BY DEF Attached
  <2> HIDE DEF r
  <2>. QED
    BY <2>1, <2>2, <1>2 DEF IsTree
<1> HIDE DEF r
<1>7. ASSUME NEW m \in DOMAIN t \cup {d}
      PROVE  /\ r[m].left = IF m = d THEN NIL ELSE IF m = p /\ side = "left" THEN d ELSE t[m].left
             /\ r[m].right = IF m = d THEN NIL ELSE IF m = p /\ side = "right" THEN d ELSE t[m].right
             /\ r[m].parent = IF m = d THEN p ELSE t[m].parent
             /\ r[m].color = IF m = d THEN "red" ELSE t[m].color
  BY <1>1, <1>2, <1>5
<1>. QED
  BY <1>2, <1>6, <1>7 DEF Attaches, Kid, Side, r

\* The end of the way down: the data is not in the tree, which takes it.
LEMMA Attaching ==
  ASSUME NEW t, NEW s, NEW h, NEW d, NEW p, NEW side, Shape(t, s), Heights(t, h), RedRule(t, NIL),
         is_black(t, First(t)), d \in Key, side \in Side, Descending(t, s, d, NIL, p), NEW r
  PROVE  /\ side = (IF p = ROOT \/ d < p THEN "left" ELSE "right")
         /\ r = Attached(t, d, p, side)
         =>
         /\ d \notin Nodes(t) /\ Nodes(r) = Nodes(t) \cup {d}
         /\ \E z : Shape(r, z)
         /\ \E k : Heights(r, k)
         /\ RedRule(r, d) /\ is_red(r, d)
         /\ is_red(r, First(r)) => First(r) = d
<1>0. SUFFICES ASSUME side = (IF p = ROOT \/ d < p THEN "left" ELSE "right"),
                      r = Attached(t, d, p, side)
               PROVE  /\ d \notin Nodes(t) /\ Nodes(r) = Nodes(t) \cup {d}
                      /\ \E z : Shape(r, z)
                      /\ \E k : Heights(r, k)
                      /\ RedRule(r, d) /\ is_red(r, d)
                      /\ is_red(r, First(r)) => First(r) = d
  OBVIOUS
<1>1. /\ ROOT \in DOMAIN t /\ NIL \in DOMAIN t /\ ROOT # NIL /\ d # ROOT /\ d # NIL /\ d \in Cell
      /\ Nodes(t) \subseteq Key /\ DOMAIN t = Nodes(t) \cup {ROOT, NIL} /\ DOMAIN t \subseteq Cell
      /\ IsTree(t) /\ ROOT \notin Nodes(t) /\ NIL \notin Nodes(t)
      /\ "left" \in Side
  BY Distinct, NodeFacts DEF Shape, WellFormed, Cell, Nodes, Side
<1>2. CASE p = ROOT \/ p \in Nodes(t)
  <2>1. /\ p \in DOMAIN t /\ Kid(t, p, side) = NIL
        /\ p = ROOT => side = "left"
        /\ p # ROOT => p \in Nodes(t) /\ d \in s[p] /\ Before(side, d, p)
    <3>1. CASE p = ROOT
      BY <3>1, <1>0, <1>1 DEF Descending, First, Kid
    <3>2. CASE p # ROOT
      <4>1. PICK sd \in Side : Before(sd, d, p) /\ NIL = Kid(t, p, sd)
        BY <3>2 DEF Descending
      <4>2. d \in Int /\ p \in Int
        BY <3>2, <1>1, <1>2, Distinct
      <4>3. side = IF d < p THEN "left" ELSE "right"
        BY <3>2, <1>0
      <4>6. p \in Nodes(t) /\ d \in s[p]
        BY <3>2 DEF Descending
      <4>7. p \in DOMAIN t
        BY <4>6 DEF Nodes
      <4>4. CASE sd = "left"
        <5>1. d < p /\ side = "left"
          BY <4>1, <4>3, <4>4 DEF Before
        <5>. QED
          BY <3>2, <4>1, <4>4, <5>1, <4>6, <4>7
      <4>5. CASE sd = "right"
        <5>1. d > p /\ side = "right"
          BY <4>1, <4>2, <4>3, <4>5 DEF Before
        <5>. QED
          BY <3>2, <4>1, <4>5, <5>1, <4>6, <4>7
      <4>. QED
        BY <4>4, <4>5 DEF Side
    <3>. QED
      BY <3>1, <3>2
  <2>2. d \notin Nodes(t) /\ d \notin DOMAIN t
    <3>1. CASE p = ROOT
      <4>1. First(t) = NIL
        BY <2>1, <3>1 DEF First, Kid
      <4>. QED
        BY <4>1, <1>1, FirstFacts
    <3>2. CASE p # ROOT
      <4>1. ASSUME d \in Nodes(t) PROVE FALSE
        <5>1. d # p
          BY <2>1, <3>2, <1>1, Order
        <5>2. PICK sd \in Side : Before(sd, d, p) /\ Kid(t, p, sd) # NIL
          BY <2>1, <3>2, <4>1, <5>1, SearchPath
        <5>3. sd = side
          BY <2>1, <3>2, <5>2, <1>1, Order, OtherSide DEF Side
        <5>. QED
          BY <2>1, <5>2, <5>3
      <4>. QED
        BY <4>1, <1>1
    <3>. QED
      BY <3>1, <3>2
  <2>3. /\ IsTree(r) /\ DOMAIN r = DOMAIN t \cup {d} /\ Nodes(r) = Nodes(t) \cup {d}
        /\ \A sd \in Side : Kid(r, d, sd) = NIL
        /\ Kid(r, p, side) = d
        /\ \A m \in DOMAIN t, sd \in Side : ~ (m = p /\ sd = side) => Kid(r, m, sd) = Kid(t, m, sd)
        /\ r[d].parent = p /\ r[d].color = "red"
        /\ \A m \in DOMAIN t : r[m].parent = t[m].parent /\ r[m].color = t[m].color
    <3> DEFINE a == Attached(t, d, p, side)
    <3>1. p \in Cell /\ p # d /\ p \in DOMAIN t /\ d \in Cell /\ d \notin DOMAIN t /\ IsTree(t)
      BY <2>1, <2>2, <1>1
    <3>2. Attaches(t, a, d, p, side)
      BY <3>1, AttachedResult
    <3> HIDE DEF a
    <3>3. r = a
      BY <1>0 DEF a
    <3>4. Nodes(a) = Nodes(t) \cup {d}
      BY <3>2, <1>1 DEF Nodes, Attaches
    <3>. QED
      BY <2>1, <2>2, <3>1, <3>2, <3>3, <3>4 DEF Attaches
  <2>4. \A m \in DOMAIN t, sd \in Side :
          Kid(t, m, sd) \in DOMAIN t /\ Kid(t, m, sd) # ROOT /\ Kid(t, m, sd) # d
    BY <2>2 DEF Shape, WellFormed
  <2>5. p # d /\ p # NIL
    BY <2>1, <2>2, <1>1
  <2>6. WellFormed(r)
    <3>1. r[ROOT].color = "black" /\ r[NIL].color = "black"
      BY <2>3, <1>1 DEF Shape, WellFormed
    <3>2. Kid(r, ROOT, "right") = NIL
      BY <2>1, <2>3, <1>1 DEF Shape, WellFormed, Side
    <3>3. \A sd \in Side : Kid(r, NIL, sd) = NIL
      BY <2>3, <2>5, <1>1 DEF Shape, WellFormed
    <3>4. ASSUME NEW m \in DOMAIN t \cup {d}, NEW sd \in Side
          PROVE  Kid(r, m, sd) \in DOMAIN t \cup {d} /\ Kid(r, m, sd) # ROOT
      BY <2>3, <2>4, <1>1
    <3>5. \A m \in DOMAIN t \cup {d} : r[m].parent \in (DOMAIN t \cup {d}) \cup {GARBAGE}
      BY <2>1, <2>3 DEF Shape, WellFormed
    <3>. QED
      BY <3>1, <3>2, <3>3, <3>4, <3>5, <2>3, <1>1 DEF WellFormed
  <2>7. Links(r)
    <3>1. ASSUME NEW m \in (DOMAIN t \cup {d}) \ {NIL}, NEW sd \in Side, Kid(r, m, sd) # NIL
          PROVE  r[Kid(r, m, sd)].parent = m
      <4>1. m \in DOMAIN t
        BY <3>1, <2>3
      <4>2. CASE m = p /\ sd = side
        BY <4>2, <2>3
      <4>3. CASE ~ (m = p /\ sd = side)
        <5>1. Kid(r, m, sd) = Kid(t, m, sd) /\ r[Kid(t, m, sd)].parent = t[Kid(t, m, sd)].parent
          BY <4>1, <4>3, <2>3, <2>4
        <5>. QED
          BY <3>1, <4>1, <5>1 DEF Shape, Links
      <4>. QED
        BY <4>2, <4>3
    <3>2. ASSUME NEW m \in Nodes(t) \cup {d}
          PROVE  /\ r[m].parent \in DOMAIN t \cup {d} /\ r[m].parent # NIL
                 /\ \E sd \in Side : m = Kid(r, r[m].parent, sd)
      <4>1. CASE m = d
        BY <4>1, <2>1, <2>3, <2>5
      <4>2. CASE m \in Nodes(t)
        <5>1. m \in DOMAIN t /\ m # NIL /\ r[m].parent = t[m].parent /\ t[m].parent \in DOMAIN t /\ t[m].parent # NIL
          BY <4>2, <2>3, <1>1 DEF Shape, Links
        <5>2. PICK sd \in Side : m = Kid(t, t[m].parent, sd)
          BY <4>2 DEF Shape, Links
        <5>3. ~ (t[m].parent = p /\ sd = side)
          BY <5>1, <5>2, <2>1
        <5>. QED
          BY <5>1, <5>2, <5>3, <2>3
      <4>. QED
        BY <4>1, <4>2
    <3>. QED
      BY <3>1, <3>2, <2>3 DEF Links
  <2>8. \E z : Spans(r, z)
    <3> DEFINE zd == IF p = ROOT THEN Key ELSE {k \in s[p] : Before(side, k, p)}
               z == [m \in DOMAIN t \cup {d} |-> IF m = d THEN zd ELSE s[m]]
    <3>1. s \in [DOMAIN t -> SUBSET Key]
      BY DEF Shape, Spans
    <3>2. zd \in SUBSET Key
      BY <3>1, <2>1
    <3>3. d \in zd /\ (p # ROOT => \A k \in Key : k \in zd <=> k \in s[p] /\ Before(side, k, p))
      BY <2>1, <3>1
    <3>4. p = ROOT => zd = Key
      OBVIOUS
    <3> HIDE DEF zd
    <3>5. z \in [DOMAIN t \cup {d} -> SUBSET Key] /\ z[d] = zd /\ \A m \in DOMAIN t : z[m] = s[m]
      BY <3>1, <3>2, <2>2
    <3> HIDE DEF z
    <3>6. Kid(r, ROOT, "left") # NIL => z[Kid(r, ROOT, "left")] = Key
      <4>1. CASE p = ROOT
        BY <4>1, <2>1, <2>3, <3>4, <3>5
      <4>2. CASE p # ROOT
        BY <4>2, <2>3, <2>4, <3>5, <1>1 DEF Shape, Spans
      <4>. QED
        BY <4>1, <4>2
    <3>7. \A m \in Nodes(t) \cup {d} : m \in z[m]
      BY <3>3, <3>5, <1>1 DEF Shape, Spans
    <3>8. ASSUME NEW m \in Nodes(t) \cup {d}, NEW sd \in Side, Kid(r, m, sd) # NIL, NEW k \in Key
          PROVE  k \in z[Kid(r, m, sd)] <=> k \in z[m] /\ Before(sd, k, m)
      <4>1. m \in Nodes(t) /\ m \in DOMAIN t
        BY <3>8, <2>3, <1>1
      <4>2. CASE m = p /\ sd = side
        BY <4>1, <4>2, <2>3, <3>3, <3>5, <1>1
      <4>3. CASE ~ (m = p /\ sd = side)
        <5>1. Kid(r, m, sd) = Kid(t, m, sd) /\ Kid(t, m, sd) \in DOMAIN t /\ Kid(t, m, sd) # NIL
          BY <3>8, <4>1, <4>3, <2>3, <2>4
        <5>2. k \in s[Kid(t, m, sd)] <=> k \in s[m] /\ Before(sd, k, m)
          BY <4>1, <5>1 DEF Shape, Spans
        <5>. QED
          BY <4>1, <5>1, <5>2, <3>5
      <4>. QED
        BY <4>2, <4>3
    <3>9. Spans(r, z)
      BY <3>5, <3>6, <3>7, <3>8, <2>3 DEF Spans
    <3>. QED
      BY <3>9
  <2>9. \E k : Heights(r, k)
    <3> DEFINE k == [m \in DOMAIN t \cup {d} |-> IF m = d THEN 0 ELSE h[m]]
    <3>1. h \in [DOMAIN t -> Nat] /\ h[NIL] = 0
      BY DEF Heights
    <3>2. k \in [DOMAIN t \cup {d} -> Nat] /\ k[d] = 0 /\ (\A m \in DOMAIN t : k[m] = h[m]) /\ k[NIL] = 0
      BY <3>1, <2>2, <1>1
    <3> HIDE DEF k
    <3>3. Black(r, d) = 0 /\ \A m \in DOMAIN t : Black(r, m) = Black(t, m)
      BY <2>3 DEF Black
    <3>4. ASSUME NEW m \in Nodes(t) \cup {d}, NEW sd \in Side
          PROVE  k[m] = k[Kid(r, m, sd)] + Black(r, m)
      <4>1. CASE m = d
        BY <4>1, <2>3, <3>2, <3>3
      <4>2. CASE m \in Nodes(t)
        <5>1. m \in DOMAIN t /\ h[m] = h[Kid(t, m, sd)] + Black(t, m)
          BY <4>2, <1>1, HeightOf
        <5>2. CASE m = p /\ sd = side
          BY <5>1, <5>2, <2>1, <2>3, <3>1, <3>2, <3>3
        <5>3. CASE ~ (m = p /\ sd = side)
          BY <5>1, <5>3, <2>3, <2>4, <3>2, <3>3
        <5>. QED
          BY <5>2, <5>3
      <4>. QED
        BY <4>1, <4>2
    <3>5. Heights(r, k)
      BY <3>2, <3>4, <2>3 DEF Heights
    <3>. QED
      BY <3>5
  <2>10. RedRule(r, d)
    <3>1. ASSUME NEW m \in Nodes(t), is_red(r, m), is_red(r, r[m].parent) PROVE FALSE
      <4>1. m \in DOMAIN t /\ r[m].parent = t[m].parent /\ t[m].parent \in DOMAIN t
        BY <2>3, <1>1 DEF Shape, Links
      <4>2. is_red(t, m) /\ is_red(t, t[m].parent)
        BY <3>1, <4>1, <2>3 DEF is_red
      <4>. QED
        BY <4>2, <1>1 DEF RedRule
    <3>. QED
      BY <3>1, <2>3 DEF RedRule
  <2>11. is_red(r, d)
    BY <2>3 DEF is_red
  <2>12. is_red(r, First(r)) => First(r) = d
    <3>1. CASE p = ROOT
      BY <3>1, <2>1, <2>3 DEF First, Kid
    <3>2. CASE p # ROOT
      <4>1. Kid(r, ROOT, "left") = Kid(t, ROOT, "left") /\ Kid(t, ROOT, "left") \in DOMAIN t
        BY <3>2, <2>3, <2>4, <1>1
      <4>2. First(r) = First(t) /\ First(t) \in DOMAIN t
        BY <4>1 DEF First, Kid
      <4>. QED
        BY <4>2, <2>3 DEF is_red, is_black
    <3>. QED
      BY <3>1, <3>2
  <2>. QED
    BY <2>2, <2>3, <2>6, <2>7, <2>8, <2>9, <2>10, <2>11, <2>12 DEF Shape
<1>. QED
  BY <1>2 DEF Descending

-----------------------------------------------------------------------------
(* The inductive invariant.                                                *)

\* The tree has a span for every node and a height for every node; the node the
\* repair has come to is the only red one below a red one.
IInv ==
  /\ \E s : Shape(tree, s) /\ (pc = "descend" => Descending(tree, s, data, node, parent))
  /\ \E h : Heights(tree, h)
  /\ RedRule(tree, IF pc = "fix" THEN node ELSE NIL)
  /\ is_red(tree, First(tree)) => pc = "fix" /\ node = First(tree)
  /\ pc = "fix" => {data, node} \subseteq Nodes(tree) /\ is_red(tree, node)
  /\ pc \in {"idle", "descend", "fix"} /\ {data, node, parent} \subseteq Cell
  /\ pc # "idle" => data \in Key

\* The initial tree has no node.
LEMMA InitInvariant == Init => IInv
<1> SUFFICES ASSUME Init PROVE IInv
  OBVIOUS
<1> DEFINE s == [n \in {ROOT, NIL} |-> {}]
           h == [n \in {ROOT, NIL} |-> 0]
<1>1. /\ tree = [n \in {ROOT, NIL} |-> [left |-> NIL, right |-> NIL, parent |-> GARBAGE, color |-> "black"]]
      /\ pc = "idle" /\ data = NIL /\ node = NIL /\ parent = NIL
  BY DEF Init
<1>2. /\ DOMAIN tree = {ROOT, NIL}
      /\ \A n \in {ROOT, NIL} :
           /\ tree[n] = [left |-> NIL, right |-> NIL, parent |-> GARBAGE, color |-> "black"]
           /\ tree[n].left = NIL /\ tree[n].right = NIL /\ tree[n].parent = GARBAGE
           /\ tree[n].color = "black"
  BY <1>1
<1>3. \A n \in {ROOT, NIL}, side \in Side : Kid(tree, n, side) = NIL
  BY <1>2 DEF Kid, Side
<1>4. Nodes(tree) = {}
  BY <1>2 DEF Nodes
<1>5. IsTree(tree)
  <2>1. tree = [n \in {ROOT, NIL} |-> tree[n]]
    BY <1>1
  <2>2. \A n \in {ROOT, NIL} : tree[n] \in Struct
    BY <1>2 DEF Struct, Cell
  <2>. QED
    BY <2>1, <2>2, <1>2 DEF IsTree
<1>6. WellFormed(tree)
  BY <1>2, <1>3, <1>5, Distinct DEF WellFormed, Cell, Side
<1>7. Links(tree)
  BY <1>2, <1>3, <1>4 DEF Links
<1>8. Spans(tree, s)
  BY <1>2, <1>3, <1>4, Distinct DEF Spans, Side
<1>9. Heights(tree, h)
  BY <1>2, <1>4 DEF Heights
<1>10. RedRule(tree, NIL) /\ ~ is_red(tree, First(tree))
  BY <1>2, <1>4 DEF RedRule, First, is_red
<1>. QED
  BY <1>1, <1>6, <1>7, <1>8, <1>9, <1>10 DEF IInv, Shape, Cell

\* The loop comes to nodes whose span has the data in it.
LEMMA DescendingNode ==
  ASSUME NEW t, NEW s, Shape(t, s), NEW d \in Key, NEW m, NEW p, Descending(t, s, d, m, p), m # NIL
  PROVE  m \in Nodes(t) /\ d \in s[m]
<1>1. CASE p = ROOT /\ m = First(t)
  BY <1>1, FirstFacts
<1>2. CASE p \in Nodes(t) /\ d \in s[p] /\ \E side \in Side : Before(side, d, p) /\ m = Kid(t, p, side)
  <2>1. PICK side \in Side : Before(side, d, p) /\ m = Kid(t, p, side)
    BY <1>2
  <2>. QED
    BY <1>2, <2>1, KidFacts
<1>. QED
  BY <1>1, <1>2 DEF Descending

\* The call, the way down and the return of a node that is found leave the tree
\* alone; on the way down the data stays in the span of the node.
LEMMA SearchInvariant == IInv /\ (InsertCall \/ Exists \/ Descend) => IInv'
<1> SUFFICES ASSUME IInv, InsertCall \/ Exists \/ Descend PROVE IInv'
  OBVIOUS
<1>1. tree' = tree /\ pc # "fix" /\ pc' # "fix"
  BY DEF InsertCall, Exists, Descend, Return
<1>2. PICK s : Shape(tree, s) /\ (pc = "descend" => Descending(tree, s, data, node, parent))
  BY DEF IInv
<1>3. /\ \E h : Heights(tree, h)
      /\ RedRule(tree, NIL) /\ ~ is_red(tree, First(tree))
      /\ {data, node, parent} \subseteq Cell /\ (pc # "idle" => data \in Key)
  BY <1>1 DEF IInv
<1>4. First(tree) \in Cell /\ DOMAIN tree \subseteq Cell
  BY <1>2, FirstFacts DEF Shape, WellFormed
<1>5. /\ pc' = "descend" => Descending(tree, s, data', node', parent')
      /\ pc' \in {"idle", "descend"} /\ {data', node', parent'} \subseteq Cell
      /\ pc' # "idle" => data' \in Key
  <2>1. CASE InsertCall
    BY <2>1, <1>4 DEF InsertCall, Descending, Cell
  <2>2. CASE Exists
    BY <2>2 DEF Exists, Return, Cell
  <2>3. CASE Descend
    <3>1. /\ pc = "descend" /\ node # NIL /\ data # node /\ parent' = node /\ data' = data
          /\ node' = (IF data < node THEN tree[node].left ELSE tree[node].right) /\ pc' = pc
      BY <2>3 DEF Descend
    <3>2. node \in Nodes(tree) /\ data \in s[node] /\ data \in Key /\ node \in Key
      BY <1>2, <1>3, <3>1, DescendingNode, NodeFacts DEF Shape
    <3>3. PICK side \in Side : Before(side, data, node) /\ node' = Kid(tree, node, side)
      <4>1. CASE data < node
        BY <3>1, <4>1 DEF Before, Kid, Side
      <4>2. CASE ~ (data < node)
        BY <3>1, <3>2, <4>2, Distinct DEF Before, Kid, Side
      <4>. QED
        BY <4>1, <4>2
    <3>4. node' \in Cell
      BY <1>2, <1>4, <3>2, <3>3, KidFacts
    <3>. QED
      BY <1>3, <3>1, <3>2, <3>3, <3>4 DEF Descending
  <2>. QED
    BY <2>1, <2>2, <2>3
<1>. QED
  BY <1>1, <1>2, <1>3, <1>5 DEF IInv

\* A new node keeps the tree sorted and its black heights equal, and it is the
\* only red one whose parent may be red.
LEMMA AttachInvariant ==
  IInv /\ Attach => /\ IInv'
                    /\ data \notin Nodes(tree) /\ Nodes(tree') = Nodes(tree) \cup {data}
<1> SUFFICES ASSUME IInv, Attach
             PROVE  IInv' /\ data \notin Nodes(tree) /\ Nodes(tree') = Nodes(tree) \cup {data}
  OBVIOUS
<1>1. pc = "descend" /\ node = NIL /\ node' = data /\ pc' = "fix" /\ data' = data /\ parent' = parent
  BY DEF Attach
<1>2. PICK s : Shape(tree, s) /\ Descending(tree, s, data, NIL, parent)
  BY <1>1 DEF IInv
<1>3. PICK h : Heights(tree, h)
  BY DEF IInv
<1>4. RedRule(tree, NIL) /\ ~ is_red(tree, First(tree)) /\ data \in Key /\ parent \in Cell
  BY <1>1 DEF IInv
<1>5. is_black(tree, First(tree))
  BY <1>2, <1>4, FirstFacts DEF Shape, WellFormed, IsTree, Struct, is_red, is_black
<1> DEFINE side == IF parent = ROOT \/ data < parent THEN "left" ELSE "right"
<1>6. side \in Side
  BY DEF Side
<1>7. tree' = Attached(tree, data, parent, side)
  BY DEF Attach, Attached
<1> HIDE DEF side
<1>8. /\ data \notin Nodes(tree) /\ Nodes(tree') = Nodes(tree) \cup {data}
      /\ \E z : Shape(tree', z)
      /\ \E k : Heights(tree', k)
      /\ RedRule(tree', data) /\ is_red(tree', data)
      /\ is_red(tree', First(tree')) => First(tree') = data
  BY <1>2, <1>3, <1>4, <1>5, <1>6, <1>7, Attaching DEF side
<1>. QED
  BY <1>1, <1>4, <1>8 DEF IInv, Cell

\* What the loop of the repair knows when it goes round.
LEMMA FixingFacts ==
  ASSUME IInv, Fixing
  PROVE  /\ pc = "fix" /\ \E s, h : Fixable(tree, s, h, node)
         /\ Family(tree, node, Parent, Grandparent, ParentSide)
         /\ Uncle = Kid(tree, Grandparent, Other(ParentSide))
         /\ {data, node, parent} \subseteq Cell /\ data \in Key /\ data \in Nodes(tree)
<1>1. pc = "fix" /\ is_red(tree, Parent)
  BY DEF Fixing
<1>2. Family(tree, node, Parent, Grandparent, ParentSide)
      /\ Uncle = Kid(tree, Grandparent, Other(ParentSide))
  BY DEF Family, Parent, Grandparent, ParentSide, Uncle, Kid
<1>3. \E s, h : Fixable(tree, s, h, node)
  BY <1>1 DEF IInv, Fixable, Parent
<1>. QED
  BY <1>1, <1>2, <1>3 DEF IInv

\* Case 1 moves the mistake up by two levels.
LEMMA RecolorInvariant == IInv /\ Recolor => IInv' /\ Nodes(tree') = Nodes(tree)
<1> SUFFICES ASSUME IInv, Recolor PROVE IInv' /\ Nodes(tree') = Nodes(tree)
  OBVIOUS
<1>1. /\ Fixing /\ is_red(tree, Uncle) /\ tree' = Colored(tree, {Parent, Uncle}, {Grandparent})
      /\ node' = Grandparent /\ pc' = pc /\ data' = data /\ parent' = parent
  BY DEF Recolor
<1>2. /\ pc = "fix" /\ {data, node, parent} \subseteq Cell /\ data \in Key /\ data \in Nodes(tree)
      /\ Family(tree, node, Parent, Grandparent, ParentSide)
      /\ Uncle = Kid(tree, Grandparent, Other(ParentSide))
  BY <1>1, FixingFacts
<1>3. PICK s, h : Fixable(tree, s, h, node)
  BY <1>1, FixingFacts
<1>4. /\ DOMAIN tree' = DOMAIN tree
      /\ Shape(tree', s)
      /\ \E k : Heights(tree', k)
      /\ RedRule(tree', Grandparent) /\ Grandparent \in Nodes(tree) /\ is_red(tree', Grandparent)
      /\ is_red(tree', First(tree')) => First(tree') = Grandparent
  <2>1. Family(tree, node, Parent, Grandparent, ParentSide)
    BY <1>2
  <2>2. /\ Uncle = Kid(tree, Grandparent, Other(ParentSide)) /\ is_red(tree, Uncle)
        /\ Recolored(tree, tree', Parent, Uncle, Grandparent)
    BY <1>1, <1>2 DEF Recolored
  <2>. QED
    BY <2>1, <2>2, <1>3, Recoloring
<1>5. Nodes(tree') = Nodes(tree)
  BY <1>4 DEF Nodes
<1>6. Grandparent \in Cell
  BY <1>4, <1>5, NodeFacts DEF Shape
<1>. QED
  BY <1>1, <1>2, <1>4, <1>5, <1>6 DEF IInv

\* Cases 2 and 3 end the repair.
LEMMA StraightenInvariant == IInv /\ Straighten => IInv' /\ Nodes(tree') = Nodes(tree)
<1> SUFFICES ASSUME IInv, Straighten PROVE IInv' /\ Nodes(tree') = Nodes(tree)
  OBVIOUS
<1> DEFINE inner == node = tree[Parent][Other(ParentSide)]
           n == IF inner THEN Parent ELSE node
           t == IF inner THEN Rotate(tree, n, ParentSide) ELSE tree
           p == t[n].parent
           g == t[p].parent
<1>1. /\ Fixing /\ is_black(tree, Uncle)
      /\ tree' = Rotate(Colored(t, {p}, {g}), g, Other(ParentSide)) /\ node' = n
      /\ pc' = pc /\ data' = data /\ parent' = parent
  BY DEF Straighten
<1>2. /\ pc = "fix" /\ {data, node, parent} \subseteq Cell /\ data \in Key /\ data \in Nodes(tree)
      /\ Family(tree, node, Parent, Grandparent, ParentSide)
      /\ Uncle = Kid(tree, Grandparent, Other(ParentSide))
  BY <1>1, FixingFacts
<1>3. PICK s, h : Fixable(tree, s, h, node)
  BY <1>1, FixingFacts
<1>4. \E z : /\ Fixable(t, z, h, n) /\ Family(t, n, p, g, ParentSide)
             /\ n = Kid(t, p, ParentSide)
             /\ is_black(t, Kid(t, g, Other(ParentSide)))
             /\ DOMAIN t = DOMAIN tree
  <2>1. CASE inner
    <3>1. n = Parent /\ t = Rotate(tree, Parent, ParentSide) /\ node = Kid(tree, Parent, Other(ParentSide))
      BY <2>1 DEF Kid
    <3> HIDE DEF t, n
    <3>2. PICK z : /\ Fixable(t, z, h, Parent) /\ DOMAIN t = DOMAIN tree
                   /\ t[Parent].parent = node /\ t[node].parent = Grandparent
                   /\ SideOf(t, node, Grandparent) = ParentSide
                   /\ Parent = Kid(t, node, ParentSide)
                   /\ Kid(t, Grandparent, Other(ParentSide)) = Kid(tree, Grandparent, Other(ParentSide))
                   /\ \A m \in DOMAIN tree : t[m].color = tree[m].color
      BY <1>2, <1>3, <3>1, Inner
    <3>3. p = node /\ g = Grandparent
      BY <3>1, <3>2
    <3>4. Uncle \in DOMAIN tree
      <4>1. Grandparent \in Nodes(tree) /\ ParentSide \in Side
        BY <1>2, <1>3, FixableFacts
      <4>. QED
        BY <4>1, <1>2, <1>3, KidFacts, OtherSide DEF Fixable
    <3>5. is_black(t, Uncle)
      BY <1>1, <3>2, <3>4 DEF is_black
    <3>. QED
      BY <1>2, <3>1, <3>2, <3>3, <3>5 DEF Family
  <2>2. CASE ~ inner
    <3>1. n = node /\ t = tree /\ node # Kid(tree, Parent, Other(ParentSide))
      BY <2>2 DEF Kid
    <3> HIDE DEF t, n
    <3>2. p = Parent /\ g = Grandparent
      BY <3>1 DEF Parent, Grandparent
    <3>3. SideOf(tree, node, Parent) \in Side /\ node = Kid(tree, Parent, SideOf(tree, node, Parent))
          /\ ParentSide \in Side
      BY <1>2, <1>3, FixableFacts
    <3>4. node = Kid(tree, Parent, ParentSide)
      <4>1. SideOf(tree, node, Parent) # Other(ParentSide)
        BY <3>1, <3>3
      <4>. QED
        BY <3>3, <4>1, OtherSide DEF Side
    <3>. QED
      BY <1>1, <1>2, <1>3, <3>1, <3>2, <3>4
  <2>. QED
    BY <2>1, <2>2
<1> HIDE DEF n, t, p, g
<1>5. PICK z : /\ Fixable(t, z, h, n) /\ Family(t, n, p, g, ParentSide)
               /\ n = Kid(t, p, ParentSide)
               /\ is_black(t, Kid(t, g, Other(ParentSide)))
               /\ DOMAIN t = DOMAIN tree
  BY <1>4
<1>6. /\ DOMAIN tree' = DOMAIN t
      /\ \E y : Shape(tree', y)
      /\ \E k : Heights(tree', k)
      /\ RedRule(tree', NIL) /\ is_black(tree', First(tree')) /\ is_red(tree', n)
  <2>1. Fixable(t, z, h, n) /\ Family(t, n, p, g, ParentSide)
    BY <1>5
  <2>2. /\ n = Kid(t, p, ParentSide) /\ is_black(t, Kid(t, g, Other(ParentSide)))
        /\ Straightened(t, tree', p, g, ParentSide)
    BY <1>1, <1>5 DEF Straightened
  <2>. QED
    BY <2>1, <2>2, Outer
<1>7. Nodes(tree') = Nodes(tree) /\ n \in Nodes(tree)
  BY <1>5, <1>6 DEF Fixable, Nodes
<1>8. n \in Cell
  BY <1>6, <1>7, NodeFacts DEF Shape
<1>9. RedRule(tree', n) /\ ~ is_red(tree', First(tree'))
  <2>1. \A m \in Nodes(tree') : m # NIL
    BY DEF Nodes
  <2>. QED
    BY <2>1, <1>6 DEF RedRule, is_red, is_black
<1>. QED
  BY <1>1, <1>2, <1>6, <1>7, <1>8, <1>9 DEF IInv

\* The return finds no red node below a red one, and blackens the first.
LEMMA ReturnInvariant == IInv /\ InsertReturn => IInv' /\ Nodes(tree') = Nodes(tree)
<1> SUFFICES ASSUME IInv, InsertReturn PROVE IInv' /\ Nodes(tree') = Nodes(tree)
  OBVIOUS
<1>1. /\ pc = "fix" /\ is_black(tree, tree[node].parent) /\ tree' = Colored(tree, {First(tree)}, {})
      /\ pc' = "idle" /\ data' = NIL /\ node' = NIL /\ parent' = NIL
  BY DEF InsertReturn, Return, Parent
<1>2. PICK s : Shape(tree, s)
  BY DEF IInv
<1>3. PICK h : Heights(tree, h)
  BY DEF IInv
<1>4. RedRule(tree, node) /\ node \in Nodes(tree)
  BY <1>1 DEF IInv
<1>5. /\ DOMAIN tree' = DOMAIN tree
      /\ Shape(tree', s)
      /\ \E k : Heights(tree', k)
      /\ RedRule(tree', NIL) /\ is_black(tree', First(tree'))
  BY <1>1, <1>2, <1>3, <1>4, FirstBlack
<1>6. Nodes(tree') = Nodes(tree) /\ ~ is_red(tree', First(tree'))
  BY <1>5 DEF Nodes, is_red, is_black
<1>. QED
  BY <1>1, <1>5, <1>6 DEF IInv, Cell

\* Every step of rb_tree_insert keeps the invariant.
LEMMA StepInvariant == IInv /\ [Insert]_vars => IInv'
<1> SUFFICES ASSUME IInv, [Insert]_vars PROVE IInv'
  OBVIOUS
<1>1. CASE InsertCall \/ Exists \/ Descend
  BY <1>1, SearchInvariant
<1>2. CASE Attach
  BY <1>2, AttachInvariant
<1>3. CASE Recolor
  BY <1>3, RecolorInvariant
<1>4. CASE Straighten
  BY <1>4, StraightenInvariant
<1>5. CASE InsertReturn
  BY <1>5, ReturnInvariant
<1>6. CASE UNCHANGED vars
  BY <1>6 DEF vars, IInv
<1>. QED
  BY <1>1, <1>2, <1>3, <1>4, <1>5, <1>6 DEF Insert

\* At every step of every insertion the nodes make a binary search tree whose
\* ways down have the same number of black nodes, with a red node below a red
\* one only where the repair is.
THEOREM Invariance == Spec => []IInv
<1>1. Init => IInv
  BY InitInvariant
<1>2. IInv /\ [Insert]_vars => IInv'
  BY StepInvariant
<1>. QED
  BY <1>1, <1>2, PTL DEF Spec

-----------------------------------------------------------------------------
(* What the invariant says of the properties.                              *)

\* The visitor is called with the nodes.
LEMMA Visited ==
  ASSUME NEW t, NEW s, Shape(t, s)
  PROVE  ToSet(rb_node_visit(t)) = Nodes(t)
<1>1. Lists(rb_node_visit(t), Nodes(t))
  BY VisitLists
<1>2. DOMAIN rb_node_visit(t) = 1..Len(rb_node_visit(t))
  BY <1>1 DEF Lists
<1>. QED
  BY <1>1, <1>2 DEF Lists, ToSet

\* The same of the tree of the model.
LEMMA Members ==
  ASSUME NEW s, Shape(tree, s)
  PROVE  members = Nodes(tree)
BY Visited DEF members

\* The invariant says more than the types.
LEMMA InvariantTypes == IInv => TypeOK
<1> SUFFICES ASSUME IInv PROVE TypeOK
  OBVIOUS
<1>1. PICK s : Shape(tree, s)
  BY DEF IInv
<1>2. "left" \in Side /\ "right" \in Side
  BY DEF Side
<1>3. \A n \in DOMAIN tree : tree[n].color \in {"red", "black"}
  BY <1>1 DEF Shape, WellFormed, IsTree, Struct
<1>4. /\ {ROOT, NIL} \subseteq DOMAIN tree /\ DOMAIN tree \subseteq Cell
      /\ tree[ROOT].color = "black" /\ tree[NIL].color = "black"
      /\ Kid(tree, ROOT, "right") = NIL
      /\ Kid(tree, NIL, "left") = NIL /\ Kid(tree, NIL, "right") = NIL
  BY <1>1, <1>2 DEF Shape, WellFormed
<1>5. \A n \in DOMAIN tree :
        /\ Kid(tree, n, "left") \in DOMAIN tree /\ Kid(tree, n, "left") # ROOT
        /\ Kid(tree, n, "right") \in DOMAIN tree /\ Kid(tree, n, "right") # ROOT
        /\ tree[n].parent \in DOMAIN tree \cup {GARBAGE}
  BY <1>1, <1>2 DEF Shape, WellFormed
<1>6. pc \in {"idle", "descend", "fix"} /\ {data, node, parent} \subseteq Cell
  BY DEF IInv
<1>. QED
  BY <1>3, <1>4, <1>5, <1>6 DEF TypeOK, Kid, is_black

\* It has the parents right.
LEMMA InvariantLinks == IInv => Linked
<1> SUFFICES ASSUME IInv PROVE Linked
  OBVIOUS
<1>1. PICK s : Shape(tree, s)
  BY DEF IInv
<1>2. members = Nodes(tree)
  BY <1>1, Members
<1>3. \A n \in Nodes(tree) : \E side \in Side : n = Kid(tree, tree[n].parent, side)
  BY <1>1 DEF Shape, Links
<1>. QED
  BY <1>2, <1>3 DEF Linked, Kid, Side

\* It is what makes the visitor and the search right.
LEMMA InvariantOrder == IInv => Ordered
<1> SUFFICES ASSUME IInv PROVE Ordered
  OBVIOUS
<1>1. PICK s : Shape(tree, s)
  BY DEF IInv
<1>2. members = Nodes(tree)
  BY <1>1, Members
<1> DEFINE seen == rb_node_visit(tree)
<1>3. seen \in Seq(Key) /\ \A i, j \in 1..Len(seen) : i < j => seen[i] < seen[j]
  BY <1>1, VisitLists DEF Lists
<1>4. \A i \in 1..Len(seen) - 1 : seen[i] < seen[i + 1]
  <2>1. Len(seen) \in Nat
    BY <1>3
  <2>2. \A i \in 1..Len(seen) - 1 : i \in 1..Len(seen) /\ i + 1 \in 1..Len(seen) /\ i < i + 1
    BY <2>1
  <2>. QED
    BY <1>3, <2>2
<1>5. \A k \in Key : rb_tree_find(tree, k) = IF k \in members THEN k ELSE NIL
  BY <1>1, <1>2, FindFinds
<1>. QED
  BY <1>2, <1>4, <1>5 DEF Ordered, Nodes

\* The height that the code's recursion finds is the one of the invariant.
LEMMA HeightFound ==
  ASSUME NEW s, Shape(tree, s), NEW h, Heights(tree, h)
  PROVE  BlackHeight = h[First(tree)]
<1>1. PICK v \in [DOMAIN tree -> Int] :
        /\ BlackHeight = v[First(tree)]
        /\ v[NIL] = 0
        /\ \A n \in DOMAIN tree \ {NIL} :
             v[n] = IF v[Kid(tree, n, "left")] = -1 \/ v[Kid(tree, n, "left")] # v[Kid(tree, n, "right")]
                       THEN -1 ELSE v[Kid(tree, n, "left")] + (IF is_black(tree, n) THEN 1 ELSE 0)
  BY HeightEquation
<1>2. \A n \in Nodes(tree) : v[n] = h[n]
  <2> DEFINE V == {n \in Nodes(tree) : v[n] # h[n]}
  <2>1. SUFFICES ASSUME V # {} PROVE FALSE
    OBVIOUS
  <2>2. PICK n \in V : \A side \in Side : Kid(tree, n, side) \notin V
    BY <2>1, Lowest
  <2>3. n \in Nodes(tree) /\ v[n] # h[n] /\ n \in DOMAIN tree \ {NIL}
    BY <2>2, NodeFacts DEF Shape
  <2>4. "left" \in Side /\ "right" \in Side
    BY DEF Side
  <2>5. \A side \in Side : Kid(tree, n, side) \in DOMAIN tree /\ v[Kid(tree, n, side)] = h[Kid(tree, n, side)]
    BY <2>2, <2>3, <1>1, KidFacts DEF Heights
  <2> DEFINE l == Kid(tree, n, "left")
             r == Kid(tree, n, "right")
  <2> HIDE DEF l, r, V
  <2>6. v[l] = h[l] /\ v[r] = h[r] /\ h[l] \in Nat /\ h[r] \in Nat
    BY <2>4, <2>5 DEF Heights, l, r
  <2>7. h[n] = h[l] + Black(tree, n) /\ h[n] = h[r] + Black(tree, n)
    BY <2>3, <2>4, HeightOf DEF l, r
  <2>8. v[n] = IF v[l] = -1 \/ v[l] # v[r] THEN -1 ELSE v[l] + (IF is_black(tree, n) THEN 1 ELSE 0)
    BY <1>1, <2>3 DEF l, r
  <2>9. Black(tree, n) = (IF is_black(tree, n) THEN 1 ELSE 0) /\ Black(tree, n) \in Nat
    BY DEF Black, is_black
  <2>10. h[l] = h[r] /\ v[l] # -1
    BY <2>6, <2>7, <2>9
  <2>. QED
    BY <2>3, <2>6, <2>7, <2>8, <2>9, <2>10
<1>. QED
  BY <1>1, <1>2, FirstFacts DEF Heights

\* It has the tree balanced.
LEMMA InvariantBalance == IInv => Balanced
<1> SUFFICES ASSUME IInv PROVE Balanced
  OBVIOUS
<1>1. PICK s : Shape(tree, s)
  BY DEF IInv
<1>2. PICK h : Heights(tree, h)
  BY DEF IInv
<1>3. members = Nodes(tree) /\ First(tree) \in DOMAIN tree
  BY <1>1, Members, FirstFacts
<1>4. BlackHeight # -1
  <2>1. BlackHeight = h[First(tree)]
    BY <1>1, <1>2, HeightFound
  <2>2. h[First(tree)] \in Nat
    BY <1>2, <1>3 DEF Heights
  <2>. QED
    BY <2>1, <2>2
<1>5. \A n \in members : is_red(tree, n) /\ is_red(tree, tree[n].parent) => pc = "fix" /\ n = node
  BY <1>3 DEF IInv, RedRule, Nodes
<1>6. pc = "idle" => is_black(tree, First(tree))
  BY <1>1, <1>3 DEF IInv, Shape, WellFormed, IsTree, Struct, is_red, is_black
<1>. QED
  BY <1>4, <1>5, <1>6 DEF Balanced

\* It is what makes the freeing right: a node is freed once because it is below
\* one other node only.
LEMMA InvariantFree == IInv => FreedOnce
<1> SUFFICES ASSUME IInv PROVE FreedOnce
  OBVIOUS
<1>1. PICK s : Shape(tree, s)
  BY DEF IInv
<1>2. members = Nodes(tree)
  BY <1>1, Members
<1> DEFINE freed == rb_tree_free_impl(tree)
           At(n) == CHOOSE i \in DOMAIN freed : freed[i] = n
<1>3. PostOrder(tree, freed, Nodes(tree))
  BY <1>1, FreePostOrder
<1> HIDE DEF freed
<1>4. /\ freed \in Seq(Key) /\ Len(freed) \in Nat /\ DOMAIN freed = 1..Len(freed)
      /\ \A i, j \in 1..Len(freed) : freed[i] = freed[j] => i = j
      /\ \A k : k \in Nodes(tree) <=> \E i \in 1..Len(freed) : freed[i] = k
      /\ \A i, j \in 1..Len(freed), side \in Side : freed[i] = Kid(tree, freed[j], side) => i < j
  BY <1>3 DEF PostOrder
<1>5. ToSet(freed) = Nodes(tree)
  BY <1>4 DEF ToSet
<1>6. Len(freed) = Cardinality(Nodes(tree))
  <2>1. freed \in Bijection(1..Len(freed), Nodes(tree))
    <3>1. freed \in [1..Len(freed) -> Nodes(tree)]
      BY <1>4
    <3>. QED
      BY <1>4, <3>1 DEF Bijection, Injection, Surjection, IsInjective
  <2>2. ExistsBijection(1..Len(freed), Nodes(tree))
    BY <2>1 DEF ExistsBijection
  <2>. QED
    BY <1>4, <2>2, FS_CountingElements
<1>7. \A n \in Nodes(tree) : At(n) \in 1..Len(freed) /\ freed[At(n)] = n
  BY <1>4
<1> HIDE DEF At
<1>8. ASSUME NEW n \in Nodes(tree), tree[n].parent # ROOT PROVE At(n) < At(tree[n].parent)
  <2>1. /\ tree[n].parent \in Nodes(tree) /\ SideOf(tree, n, tree[n].parent) \in Side
        /\ n = Kid(tree, tree[n].parent, SideOf(tree, n, tree[n].parent))
    BY <1>1, <1>8, ParentFacts
  <2>2. /\ At(n) \in 1..Len(freed) /\ freed[At(n)] = n
        /\ At(tree[n].parent) \in 1..Len(freed) /\ freed[At(tree[n].parent)] = tree[n].parent
    BY <2>1, <1>7
  <2>. QED
    BY <2>1, <2>2, <1>4
<1>. QED
  BY <1>2, <1>5, <1>6, <1>8 DEF FreedOnce, freed, At

\* rb_tree_insert never gives up what its own loops need of the root and the
\* sentinel.
THEOREM TypeInvariant == Spec => []TypeOK
<1>1. IInv => TypeOK
  BY InvariantTypes
<1>. QED
  BY <1>1, Invariance, PTL

\* Every node is a child of its parent, at every step of an insertion: both
\* pointers of a rotation and of a new node are set.
THEOREM LinkedAlways == Spec => []Linked
<1>1. IInv => Linked
  BY InvariantLinks
<1>. QED
  BY <1>1, Invariance, PTL

\* At every step of an insertion the visitor would be called with the data in
\* increasing order, each once, and a search would find the data and nothing
\* else.
THEOREM OrderedAlways == Spec => []Ordered
<1>1. IInv => Ordered
  BY InvariantOrder
<1>. QED
  BY <1>1, Invariance, PTL

\* Every way down has as many black nodes as any other, at every step; a red
\* node below a red one is being repaired; and an insertion returns with
\* neither.
THEOREM BalancedAlways == Spec => []Balanced
<1>1. IInv => Balanced
  BY InvariantBalance
<1>. QED
  BY <1>1, Invariance, PTL

\* The tree can be freed after any step, every node once and after its children.
THEOREM FreedOnceAlways == Spec => []FreedOnce
<1>1. IInv => FreedOnce
  BY InvariantFree
<1>. QED
  BY <1>1, Invariance, PTL

-----------------------------------------------------------------------------
(* The tree is a table.                                                    *)

\* The members are the nodes.
LEMMA NodesOf == IInv => members = Nodes(tree)
BY Members DEF IInv

\* A search changes no node.
LEMMA SearchKeeps ==
  IInv /\ (InsertCall \/ Exists \/ Descend) => Nodes(tree') = Nodes(tree)
BY DEF InsertCall, Exists, Descend

\* An insertion that finds its data answers for a member.
LEMMA ExistsAnswers == IInv /\ Exists => data \in Nodes(tree)
<1> SUFFICES ASSUME IInv, Exists PROVE data \in Nodes(tree)
  OBVIOUS
<1>1. pc = "descend" /\ node = data
  BY DEF Exists
<1>2. PICK s : Shape(tree, s) /\ Descending(tree, s, data, node, parent)
  BY <1>1 DEF IInv
<1>3. data \in Key /\ data # NIL
  BY <1>1, Distinct DEF IInv
<1>. QED
  BY <1>1, <1>2, <1>3, DescendingNode

\* The new tree is the empty table.
LEMMA TableInit == Init => Table!Init
<1> SUFFICES ASSUME Init PROVE Table!Init
  OBVIOUS
<1>1. IInv
  BY InitInvariant
<1>2. Nodes(tree) = {} /\ pc = "idle"
  BY DEF Init, Nodes
<1>. QED
  BY <1>1, <1>2, NodesOf DEF Table!Init

\* Every step of the insertion is a step of the table, or none.
LEMMA TableStep == IInv /\ [Insert]_vars => [Table!Next]_(Table!vars)
<1> SUFFICES ASSUME IInv, [Insert]_vars PROVE [Table!Next]_(Table!vars)
  OBVIOUS
<1> DEFINE request == IF pc = "idle" THEN NIL ELSE data
<1>1. IInv'
  BY StepInvariant
<1>2. members = Nodes(tree) /\ members' = Nodes(tree')
  <2>1. PICK z : Shape(tree', z)
    BY <1>1 DEF IInv
  <2>2. members' = ToSet(rb_node_visit(tree'))
    BY DEF members
  <2>. QED
    BY <2>1, <2>2, Visited, NodesOf
<1>3. data \in Key => data # NIL
  BY Distinct
<1>4. CASE InsertCall
  <2>1. pc = "idle" /\ pc' = "descend" /\ data' \in Key /\ members' = members
    BY <1>2, <1>4 DEF InsertCall
  <2>. QED
    BY <2>1 DEF Table!Next, Table!Ask
<1>5. CASE Exists
  <2>1. pc = "descend" /\ pc' = "idle" /\ members' = members /\ data \in members
    BY <1>2, <1>5, ExistsAnswers DEF Exists, Return
  <2>. QED
    BY <2>1 DEF Table!Next, Table!Answer
<1>6. CASE Descend
  <2>1. pc = "descend" /\ pc' = pc /\ data' = data /\ members' = members
    BY <1>2, <1>6 DEF Descend
  <2>. QED
    BY <2>1 DEF Table!vars
<1>7. CASE Attach
  <2>1. pc = "descend" /\ pc' = "fix" /\ data' = data /\ data \in Key
    BY <1>7 DEF Attach, IInv
  <2>2. members' = members \cup {data} /\ data \notin members
    BY <1>2, <1>7, AttachInvariant
  <2>. QED
    BY <2>1, <2>2, <1>3 DEF Table!Next, Table!Add
<1>8. CASE Recolor \/ Straighten
  <2>1. pc' = pc /\ data' = data
    BY <1>8 DEF Recolor, Straighten
  <2>2. members' = members
    BY <1>2, <1>8, RecolorInvariant, StraightenInvariant
  <2>. QED
    BY <2>1, <2>2 DEF Table!vars
<1>9. CASE InsertReturn
  <2>1. pc = "fix" /\ pc' = "idle"
    BY <1>9 DEF InsertReturn, Return
  <2>2. members' = members /\ data \in members
    BY <1>2, <1>9, <2>1, ReturnInvariant DEF IInv
  <2>. QED
    BY <2>1, <2>2 DEF Table!Next, Table!Answer
<1>10. CASE UNCHANGED vars
  <2>1. tree' = tree /\ pc' = pc /\ data' = data
    BY <1>10 DEF vars
  <2>. QED
    BY <2>1, <1>2 DEF Table!vars
<1>. QED
  BY <1>4, <1>5, <1>6, <1>7, <1>8, <1>9, <1>10 DEF Insert

\* The tree implements the set of names that the typedef table takes it for, but
\* for the liveness of NameTable: an insertion adds what it is asked to add and
\* nothing else, once, and returns when it is a member.
THEOREM TableSafety == Spec => Table!Init /\ [][Table!Next]_(Table!vars)
<1>1. Init => Table!Init
  BY TableInit
<1>2. IInv /\ [Insert]_vars => [Table!Next]_(Table!vars)
  BY TableStep
<1>. QED
  BY <1>1, <1>2, Invariance, PTL DEF Spec
=============================================================================
