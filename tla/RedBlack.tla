------------------------------ MODULE RedBlack ------------------------------
(***************************************************************************)
(* The red-black tree of red_black.c, which holds the typedef table.  An   *)
(* insertion is a step for each level it descends and a step for each      *)
(* iteration of the loop that repairs the tree.  Nothing in the program     *)
(* calls rb_node_delete, which is left out.                                *)
(*                                                                         *)
(* A node is identified with the data it holds, of which it is the only    *)
(* one; two more nodes, ROOT and NIL, are embedded in the rb_tree_t.       *)
(* left and right are two names of the same code: side is either, and      *)
(* Other(side) the other.                                                 *)
(*                                                                         *)
(* A definition whose name ends in an underscore and a word in capitals is *)
(* another one with a mistake that a property must notice.                 *)
(***************************************************************************)
EXTENDS Integers, Sequences, FiniteSets, SequencesExt

CONSTANTS Key,    \* the data: integers, for the comparison function
          ROOT,   \* &tree->root
          NIL,    \* &tree->nil
          GARBAGE \* an uninitialized pointer

ASSUME KeyAssumption ==
  /\ Key \subseteq Int /\ IsFiniteSet(Key)
  /\ Cardinality({ROOT, NIL, GARBAGE}) = 3
  /\ {ROOT, NIL, GARBAGE} \cap Key = {}

Cell == Key \cup {ROOT, NIL}
Side == {"left", "right"}
Other(side) == CHOOSE s \in Side : s # side

VARIABLES
  tree,   \* the nodes: tree[n].left, .right, .parent, .color
  pc,     \* "idle", "descend" or "fix" in rb_tree_insert
  data,   \* its argument
  node,   \* the local variable node
  parent  \* the local variable parent

vars == <<tree, pc, data, node, parent>>

First(t) == t[ROOT].left
is_red(t, n) == t[n].color = "red"
is_black(t, n) == t[n].color = "black"

\* The child of p that n is, as the code tells it.
SideOf(t, n, p) == IF n = t[p].left THEN "left" ELSE "right"

\* The subtree in the middle is dropped.
Rotate_DROP(t, n, side) ==
  LET child == t[n][Other(side)]
      p == t[n].parent
      t1 == [t EXCEPT ![n][Other(side)] = NIL, ![child].parent = p]
      t2 == [t1 EXCEPT ![p][SideOf(t1, n, p)] = child]
  IN  [t2 EXCEPT ![child][side] = n, ![n].parent = child]

\* The child that is rotated past does not learn its new parent.
Rotate_ORPHAN(t, n, side) ==
  LET other == Other(side)
      child == t[n][other]
      p == t[n].parent
      t1 == [t EXCEPT ![n][other] = t[child][side], ![child].parent = p]
      t2 == [t1 EXCEPT ![p][SideOf(t1, n, p)] = child]
  IN  [t2 EXCEPT ![child][side] = n, ![n].parent = child]

\* The assignments to a child of n and to its parent.
SetChild(t, n, side, child) == [t EXCEPT ![n][side] = child]
SetParent(t, n, p) == [t EXCEPT ![n].parent = p]

\* rb_rotate_left is Rotate(t, n, "left").
Rotate(t, n, side) ==
  LET other == Other(side)
      child == t[n][other]
      inner == t[child][side]
      p == t[n].parent
      t1 == SetChild(t, n, other, inner)
      t2 == IF inner = NIL THEN t1 ELSE SetParent(t1, inner, n)
      t3 == SetParent(t2, child, p)
      t4 == SetChild(t3, p, SideOf(t3, n, p), child)
  IN  SetParent(SetChild(t4, child, side, n), n, child)

Colored(t, black, red) == [n \in DOMAIN t |-> [t[n] EXCEPT
  !.color = IF n \in red THEN "red" ELSE IF n \in black THEN "black" ELSE @]]

-----------------------------------------------------------------------------
(* What a tree holds.                                                      *)

\* rb_tree_visit: the order the visitor is called in.
rb_node_visit(t) ==
  LET visit[n \in DOMAIN t] ==
        IF n = NIL THEN <<>> ELSE visit[t[n].left] \o <<n>> \o visit[t[n].right]
  IN  visit[First(t)]

\* A node goes before its right subtree.
rb_tree_free_impl_EARLY(t) ==
  LET free[n \in DOMAIN t] ==
        IF n = NIL THEN <<>> ELSE free[t[n].left] \o <<n>> \o free[t[n].right]
  IN  free[First(t)]

\* rb_tree_free_impl: the order nodes are freed in.
rb_tree_free_impl(t) ==
  LET free[n \in DOMAIN t] ==
        IF n = NIL THEN <<>> ELSE free[t[n].left] \o free[t[n].right] \o <<n>>
  IN  free[First(t)]

\* The node found, or NIL for NULL.
rb_tree_find(t, k) ==
  LET find[n \in DOMAIN t] ==
        IF n \in {NIL, k} THEN n
        ELSE IF k < n THEN find[t[n].left] ELSE find[t[n].right]
  IN  find[First(t)]

members == ToSet(rb_node_visit(tree))

-----------------------------------------------------------------------------
\* rb_tree_new.  The parents are left as malloc returned them.
Init ==
  /\ tree = [n \in {ROOT, NIL} |->
               [left |-> NIL, right |-> NIL, parent |-> GARBAGE,
                color |-> "black"]]
  /\ pc = "idle"
  /\ data = NIL /\ node = NIL /\ parent = NIL

\* rb_tree_insert.
InsertCall ==
  /\ pc = "idle"
  /\ data' \in Key
  /\ node' = First(tree) /\ parent' = ROOT
  /\ pc' = "descend"
  /\ UNCHANGED tree

Return == pc' = "idle" /\ data' = NIL /\ node' = NIL /\ parent' = NIL

\* The data is in the tree: its node is returned.
Exists ==
  /\ pc = "descend" /\ node = data
  /\ Return
  /\ UNCHANGED tree

Descend ==
  /\ pc = "descend" /\ node \notin {NIL, data}
  /\ parent' = node
  /\ node' = IF data < node THEN tree[node].left ELSE tree[node].right
  /\ UNCHANGED <<tree, pc, data>>

\* The wrong way at a parent.
Attach_LEFT ==
  /\ pc = "descend" /\ node = NIL
  /\ LET side == IF parent = ROOT \/ data > parent THEN "left" ELSE "right"
         new == [left |-> NIL, right |-> NIL, parent |-> parent,
                 color |-> "red"]
     IN  tree' = [n \in DOMAIN tree \cup {data} |->
                    IF n = data THEN new
                    ELSE IF n = parent THEN [tree[n] EXCEPT ![side] = data]
                    ELSE tree[n]]
  /\ node' = data
  /\ pc' = "fix"
  /\ UNCHANGED <<data, parent>>

Attach ==
  /\ pc = "descend" /\ node = NIL
  /\ LET side == IF parent = ROOT \/ data < parent THEN "left" ELSE "right"
         new == [left |-> NIL, right |-> NIL, parent |-> parent,
                 color |-> "red"]
     IN  tree' = [n \in DOMAIN tree \cup {data} |->
                    IF n = data THEN new
                    ELSE IF n = parent THEN [tree[n] EXCEPT ![side] = data]
                    ELSE tree[n]]
  /\ node' = data
  /\ pc' = "fix"
  /\ UNCHANGED <<data, parent>>

\* while ( is_red( node->parent ) )
Parent == tree[node].parent
Grandparent == tree[Parent].parent
ParentSide == SideOf(tree, Parent, Grandparent)
Uncle == tree[Grandparent][Other(ParentSide)]
Fixing == pc = "fix" /\ is_red(tree, Parent)

\* The uncle stays red.
Recolor_UNCLE ==
  /\ Fixing /\ is_red(tree, Uncle)
  /\ tree' = Colored(tree, {Parent}, {Grandparent})
  /\ node' = Grandparent
  /\ UNCHANGED <<pc, data, parent>>

\* Case 1.
Recolor ==
  /\ Fixing /\ is_red(tree, Uncle)
  /\ tree' = Colored(tree, {Parent, Uncle}, {Grandparent})
  /\ node' = Grandparent
  /\ UNCHANGED <<pc, data, parent>>

\* Rotates towards the side of the parent.
Straighten_BACK ==
  /\ Fixing /\ is_black(tree, Uncle)
  /\ tree' = Rotate(Colored(tree, {Parent}, {Grandparent}), Grandparent,
                    ParentSide)
  /\ UNCHANGED <<pc, data, node, parent>>

\* Cases 2 and 3: an inner grandchild is rotated outwards first.
Straighten ==
  /\ Fixing /\ is_black(tree, Uncle)
  /\ LET inner == node = tree[Parent][Other(ParentSide)]
         n == IF inner THEN Parent ELSE node
         t == IF inner THEN Rotate(tree, n, ParentSide) ELSE tree
         p == t[n].parent
         g == t[p].parent
     IN  /\ tree' = Rotate(Colored(t, {p}, {g}), g, Other(ParentSide))
         /\ node' = n
  /\ UNCHANGED <<pc, data, parent>>

InsertReturn ==
  /\ pc = "fix" /\ is_black(tree, Parent)
  /\ tree' = Colored(tree, {First(tree)}, {})
  /\ Return

-----------------------------------------------------------------------------
Insert ==
  InsertCall \/ Exists \/ Descend \/ Attach \/ Recolor \/ Straighten \/ InsertReturn

\* The program as it is; a call runs to its end.
Spec == Init /\ [][Insert]_vars /\ WF_vars(Insert /\ pc # "idle")

-----------------------------------------------------------------------------
(* Properties.                                                             *)

\* The two nodes in the rb_tree_t stay what the loops need them to be to stop.
TypeOK ==
  /\ {ROOT, NIL} \subseteq DOMAIN tree /\ DOMAIN tree \subseteq Cell
  /\ is_black(tree, ROOT) /\ tree[ROOT].right = NIL
  /\ is_black(tree, NIL) /\ {tree[NIL].left, tree[NIL].right} = {NIL}
  /\ \A n \in DOMAIN tree :
       /\ {tree[n].left, tree[n].right} \subseteq DOMAIN tree \ {ROOT}
       /\ tree[n].parent \in DOMAIN tree \cup {GARBAGE}
       /\ tree[n].color \in {"red", "black"}
  /\ pc \in {"idle", "descend", "fix"}
  /\ {data, node, parent} \subseteq Cell

\* The visitor sees the data in increasing order and every node once, also
\* between the steps of a repair; a search finds these and nothing else.
Ordered ==
  LET seen == rb_node_visit(tree) IN
  /\ \A i \in 1..Len(seen) - 1 : seen[i] < seen[i + 1]
  /\ members = DOMAIN tree \ {ROOT, NIL}
  /\ \A k \in Key : rb_tree_find(tree, k) = IF k \in members THEN k ELSE NIL

\* Every node is a child of its parent, which the repair goes up by.
Linked ==
  \A n \in members :
    n \in {tree[tree[n].parent].left, tree[tree[n].parent].right}

\* The black nodes on the way from n down, the same on every way, or -1.
BlackHeight ==
  LET height[n \in DOMAIN tree] ==
        IF n = NIL THEN 0
        ELSE LET l == height[tree[n].left]
             IN  IF l = -1 \/ l # height[tree[n].right] THEN -1
                 ELSE l + (IF is_black(tree, n) THEN 1 ELSE 0)
  IN  height[First(tree)]

\* Equally many black nodes on every way down, at any time; and no red node has
\* a red parent but for the node being repaired, so that no way down is more
\* than twice as long as another once the insertion has returned.
Balanced ==
  /\ BlackHeight # -1
  /\ \A n \in members :
       is_red(tree, n) /\ is_red(tree, tree[n].parent) => pc = "fix" /\ n = node
  /\ pc = "idle" => is_black(tree, First(tree))

\* rb_tree_free frees every node once, and none before its children, which it
\* still has to read it for.
FreedOnce ==
  LET freed == rb_tree_free_impl(tree)
      At(n) == CHOOSE i \in DOMAIN freed : freed[i] = n
  IN  /\ Len(freed) = Cardinality(members) /\ ToSet(freed) = members
      /\ \A n \in members : tree[n].parent # ROOT => At(n) < At(tree[n].parent)

\* The tree is a set of names, and every insertion into it returns.
Table == INSTANCE NameTable WITH
  None <- NIL,
  request <- IF pc = "idle" THEN NIL ELSE data
ImplementsTable == Table!Spec
=============================================================================
