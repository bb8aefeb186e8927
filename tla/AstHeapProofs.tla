--------------------------- MODULE AstHeapProofs ---------------------------
(***************************************************************************)
(* Proofs about AstHeap, for every finite set of cells.  The inductive     *)
(* invariant says of each entry of the typedef table what the properties   *)
(* say of the table: its nodes are allocated, and off the garbage          *)
(* collection list, so that a later command cannot touch them; they make a *)
(* tree; and no other entry shares them.                                   *)
(***************************************************************************)
EXTENDS AstHeap, FiniteSetTheorems, TLAPS

Owned ==
  \A t \in roots : Nodes(t) \subseteq live \ gc

IInv == TypeOK /\ CountExact /\ Owned /\ SingleOwner

-----------------------------------------------------------------------------
(* Links.                                                                  *)

\* Reachable is the least closed set that contains R.
LEMMA ReachableLeast ==
  ASSUME NEW k, NEW R, NEW S \in SUBSET Node, R \subseteq S, Closed(k, S)
  PROVE  Reachable(k, R) \subseteq S
BY DEF Reachable

\* What can be reached from R contains R, and all the links of what it contains.
LEMMA ReachableClosed ==
  ASSUME NEW k \in [Node -> SUBSET Node], NEW R \in SUBSET Node
  PROVE  /\ Reachable(k, R) \in SUBSET Node
         /\ R \subseteq Reachable(k, R)
         /\ Closed(k, Reachable(k, R))
<1>1. Reachable(k, R) \in SUBSET Node /\ R \subseteq Reachable(k, R)
  BY DEF Reachable
<1>2. ASSUME NEW n \in Reachable(k, R), NEW m \in k[n]
      PROVE  m \in Reachable(k, R)
  <2>1. n \in Node /\ m \in Node
    BY <1>1
  <2>2. ASSUME NEW S \in SUBSET Node, R \subseteq S, Closed(k, S)
        PROVE  m \in S
    <3>1. n \in S
      BY <2>2 DEF Reachable
    <3>. QED
      BY <2>2, <3>1 DEF Closed
  <2>. QED
    BY <2>1, <2>2 DEF Reachable
<1>. QED
  BY <1>1, <1>2 DEF Closed

\* What can be reached depends only on the links of what can be reached.
LEMMA ReachableStable ==
  ASSUME NEW k \in [Node -> SUBSET Node], NEW l \in [Node -> SUBSET Node],
         NEW R \in SUBSET Node,
         \A n \in Reachable(k, R) : l[n] = k[n]
  PROVE  Reachable(l, R) = Reachable(k, R)
<1> DEFINE K == Reachable(k, R)
           L == Reachable(l, R)
<1>1. K \in SUBSET Node /\ R \subseteq K /\ Closed(k, K)
  BY ReachableClosed
<1>2. L \in SUBSET Node /\ R \subseteq L /\ Closed(l, L)
  BY ReachableClosed
<1>3. L \subseteq K
  <2>1. Closed(l, K)
    BY <1>1 DEF Closed
  <2>. QED
    BY <2>1, <1>1, ReachableLeast
<1>4. K \subseteq L
  <2>1. Closed(k, K \cap L)
    BY <1>1, <1>2 DEF Closed
  <2>2. K \subseteq K \cap L
    BY <2>1, <1>1, <1>2, ReachableLeast
  <2>. QED
    BY <2>2
<1>. QED
  BY <1>3, <1>4

\* A node links to nodes.
LEMMA KidsType ==
  ASSUME TypeOK
  PROVE  kids \in [Node -> SUBSET Node]
BY DEF TypeOK, kids

\* An AST contains its root and is made of nodes.
LEMMA NodesType ==
  ASSUME TypeOK, NEW t \in Node
  PROVE  Nodes(t) \in SUBSET Node /\ t \in Nodes(t) /\ Closed(kids, Nodes(t))
BY KidsType, ReachableClosed DEF Nodes

\* An AST none of whose links changes keeps its nodes, and stays a tree.
LEMMA NodesStable ==
  ASSUME TypeOK, TypeOK', NEW t \in Node,
         \A n \in Nodes(t) : of'[n] = of[n] /\ args'[n] = args[n]
  PROVE  Nodes(t)' = Nodes(t) /\ (Tree(t) => Tree(t)')
<1>1. kids \in [Node -> SUBSET Node] /\ kids' \in [Node -> SUBSET Node]
  BY KidsType DEF TypeOK, kids
<1>2. Nodes(t) \in SUBSET Node
  BY NodesType
<1>3. \A n \in Nodes(t) : kids'[n] = kids[n]
  BY <1>2 DEF kids
<1>4. Nodes(t)' = Nodes(t)
  BY <1>1, <1>3, ReachableStable DEF Nodes
<1>. QED
  BY <1>3, <1>4 DEF Tree

-----------------------------------------------------------------------------
(* Freeing.                                                                *)

\* c_ast_free frees nothing outside the AST.
LEMMA FreedInNodes ==
  ASSUME TypeOK, NEW t \in Node
  PROVE  Freed(t) \subseteq Nodes(t)
<1> DEFINE C == Nodes(t) \X BOOLEAN
<1>1. Nodes(t) \in SUBSET Node /\ t \in Nodes(t) /\ Closed(kids, Nodes(t))
  BY NodesType
<1>2. ASSUME NEW n \in Nodes(t), NEW S
      PROVE  <<n, TRUE>> \in C /\ <<n, n \in S>> \in C
  <2>1. TRUE \in BOOLEAN /\ (n \in S) \in BOOLEAN
    OBVIOUS
  <2>. QED
    BY <2>1, Zenon
<1>3. C \in SUBSET (Node \X BOOLEAN)
  BY <1>1, Zenon
<1>4. \A n \in Nodes(t) : /\ of[n] # NIL => of[n] \in Nodes(t)
                          /\ args[n] \subseteq Nodes(t)
  BY <1>1 DEF Closed, kids
<1>5. FreeCalls(C)
  <2> SUFFICES ASSUME NEW c \in C
               PROVE  /\ of[c[1]] # NIL => <<of[c[1]], TRUE>> \in C
                      /\ \A a \in args[c[1]] : <<a, a \in recursive>> \in C
    BY Zenon DEF FreeCalls
  <2>1. c[1] \in Nodes(t)
    OBVIOUS
  <2>. QED
    BY <2>1, <1>2, <1>4, Zenon
<1>6. ASSUME NEW m \in Freed(t)
      PROVE  m \in Nodes(t)
  <2>1. PICK r \in BOOLEAN : <<m, r>> \in C
    BY <1>1, <1>2, <1>3, <1>5, Zenon DEF Freed
  <2>. QED
    BY <2>1, Zenon
<1>. QED
  BY <1>6

\* There are finitely many cells, hence finitely many nodes.
LEMMA LiveFinite ==
  ASSUME TypeOK
  PROVE  IsFiniteSet(live)
BY NodeAssumption, FS_Subset DEF TypeOK

\* The count that is kept exact when allocated nodes are freed.
LEMMA FreeCount ==
  ASSUME TypeOK, CountExact, NEW F \in SUBSET live,
         live' = live \ F, count' = count - Cardinality(F)
  PROVE  CountExact'
<1>1. Cardinality(live \ F) = Cardinality(live) - Cardinality(live \cap F)
  BY LiveFinite, FS_Difference
<1>2. live \cap F = F
  OBVIOUS
<1>. QED
  BY <1>1, <1>2 DEF CountExact

\* Freeing cells that are allocated leaves the types of the variables, and the links
\* of the other cells.
LEMMA FreeType ==
  ASSUME TypeOK, NEW F \in SUBSET live, Free(F)
  PROVE  /\ live' \subseteq Node /\ recursive' \subseteq live'
         /\ of' \in [Node -> Node \cup {NIL}]
         /\ args' \in [Node -> SUBSET Node]
         /\ count' \in Int
         /\ \A n \in Node \ F : of'[n] = of[n] /\ args'[n] = args[n]
<1>1. Cardinality(F) \in Int
  BY LiveFinite, FS_Subset, FS_CardinalityType
<1>. QED
  BY <1>1 DEF TypeOK, Free

-----------------------------------------------------------------------------
(* The inductive invariant.                                                *)

\* The entries that stay keep what they own, if a step neither relinks nor
\* frees it, nor puts it on the list.
LEMMA EntriesKept ==
  ASSUME IInv, TypeOK', roots' \subseteq roots,
         \A t \in roots' :
           /\ Nodes(t) \subseteq live' \ gc'
           /\ \A n \in Nodes(t) : of'[n] = of[n] /\ args'[n] = args[n]
  PROVE  Owned' /\ SingleOwner'
<1>1. \A t \in roots' : t \in Node
  BY DEF TypeOK, IInv
<1>2. \A t \in roots' : Nodes(t)' = Nodes(t) /\ Tree(t)'
  BY <1>1, NodesStable DEF IInv, SingleOwner
<1>. QED
  BY <1>2 DEF IInv, Owned, SingleOwner

\* The invariant holds once the predefined types are defined.
THEOREM InitIInv == Init => IInv
<1> SUFFICES ASSUME Init PROVE IInv
  OBVIOUS
<1>1. TypeOK
  <2>1. IsFiniteSet(live)
    BY NodeAssumption, FS_Subset DEF Init
  <2>. QED
    BY <2>1, FS_CardinalityType DEF Init, TypeOK, Phase
<1>2. CountExact
  BY DEF Init, CountExact
<1>3. \A n \in Node : kids[n] = {}
  BY DEF Init, kids
<1>4. \A t \in roots : Nodes(t) = {t}
  <2> SUFFICES ASSUME NEW t \in roots PROVE Nodes(t) = {t}
    OBVIOUS
  <2>1. t \in Node
    BY <1>1 DEF TypeOK
  <2>2. Closed(kids, {t})
    BY <1>3, <2>1 DEF Closed
  <2>3. Nodes(t) \subseteq {t}
    BY <2>1, <2>2, ReachableLeast DEF Nodes
  <2>. QED
    BY <1>1, <2>1, <2>3, NodesType
<1>5. Owned
  BY <1>4 DEF Init, Owned
<1>6. SingleOwner
  <2>1. \A t \in roots : t \in Node
    BY <1>1 DEF TypeOK
  <2>. QED
    BY <1>3, <1>4, <2>1 DEF Init, SingleOwner, Tree
<1>. QED
  BY <1>1, <1>2, <1>5, <1>6 DEF IInv

\* A step that leaves the heap as it is keeps the invariant, in any phase.
LEMMA UnchangedIInv ==
  ASSUME IInv, UNCHANGED heap, phase' \in Phase
  PROVE  IInv'
<1>1. TypeOK'
  BY DEF IInv, TypeOK, heap
<1>2. roots' = roots /\ live' = live /\ gc' = gc /\ of' = of /\ args' = args
  BY DEF heap
<1>3. Owned' /\ SingleOwner'
  BY <1>1, <1>2, EntriesKept DEF IInv, Owned
<1>4. CountExact'
  BY DEF IInv, CountExact, heap
<1>. QED
  BY <1>1, <1>3, <1>4 DEF IInv

\* Productions create nodes on the list, which no entry of the table reaches.
LEMMA BuildIInv ==
  ASSUME IInv, Build
  PROVE  IInv'
<1>1. PICK new \in SUBSET (Node \ live) :
        /\ live' = live \cup new
        /\ gc' = gc \cup new
        /\ count' = count + Cardinality(new)
        /\ IF new = {} THEN head' = head ELSE head' \in new
  BY DEF Build
<1>2. IsFiniteSet(new) /\ IsFiniteSet(live)
  BY NodeAssumption, FS_Subset DEF IInv, TypeOK
<1>3. Cardinality(new) \in Nat
  BY <1>2, FS_CardinalityType
<1>4. TypeOK'
  BY <1>1, <1>3 DEF IInv, TypeOK, Build
<1>5. CountExact'
  <2>1. Cardinality(live \cup new)
          = Cardinality(live) + Cardinality(new) - Cardinality(live \cap new)
    BY <1>2, FS_Union
  <2>2. Cardinality(live \cap new) = 0
    <3>1. live \cap new = {}
      OBVIOUS
    <3>. QED
      BY <3>1, FS_EmptySet
  <2>3. Cardinality(live) \in Nat
    BY <1>2, FS_CardinalityType
  <2>. QED
    BY <1>1, <1>3, <2>1, <2>2, <2>3 DEF IInv, CountExact
<1>6. Owned' /\ SingleOwner'
  <2>1. \A t \in roots : Nodes(t) \subseteq live' \ gc'
    BY <1>1 DEF IInv, Owned
  <2>. QED
    BY <1>4, <2>1, EntriesKept DEF Build
<1>. QED
  BY <1>4, <1>5, <1>6 DEF IInv

\* Collecting the list frees no node that an entry of the table reaches.
LEMMA CollectIInv ==
  ASSUME IInv, Collect
  PROVE  IInv'
<1>1. gc \in SUBSET live
  BY DEF IInv, TypeOK
<1>2. TypeOK'
  <2>1. roots \subseteq live \ gc
    BY NodesType DEF IInv, TypeOK, Owned
  <2>. QED
    BY <1>1, <2>1, FreeType DEF IInv, TypeOK, Collect, Free, Phase
<1>3. CountExact'
  BY <1>1, FreeCount DEF IInv, Collect, Free
<1>4. Owned' /\ SingleOwner'
  <2>1. \A t \in roots : \A n \in Nodes(t) : n \in Node \ gc
    BY DEF IInv, TypeOK, Owned
  <2>2. \A t \in roots' :
          /\ Nodes(t) \subseteq live' \ gc'
          /\ \A n \in Nodes(t) : of'[n] = of[n] /\ args'[n] = args[n]
    BY <1>1, <2>1, FreeType DEF IInv, TypeOK, Owned, Collect, Free
  <2>. QED
    BY <1>2, <2>2, EntriesKept DEF Collect
<1>. QED
  BY <1>2, <1>3, <1>4 DEF IInv

\* The AST of a new type name is a tree apart from those of the other names.
LEMMA ReleaseIInv ==
  ASSUME IInv, Release
  PROVE  IInv'
<1>1. PICK root \in gc : Tree(root)' /\ roots' = roots \cup {root}
  BY DEF Release
<1>2. /\ of' \in [Node -> Node \cup {NIL}]
      /\ args' \in [Node -> SUBSET Node]
      /\ \A n \in gc : of'[n] \in gc \cup {NIL} /\ args'[n] \subseteq gc
      /\ \A n \in Node \ gc : of'[n] = of[n] /\ args'[n] = args[n]
  BY DEF Release, Link, IInv, TypeOK
<1>3. TypeOK'
  BY <1>1, <1>2 DEF IInv, TypeOK, Release, GcRelease, Phase
<1>4. CountExact'
  BY DEF IInv, CountExact, Release
<1>5. \A t \in roots : \A n \in Nodes(t) : n \in live \ gc /\ n \in Node
  BY DEF IInv, TypeOK, Owned
<1>6. \A t \in roots : /\ t \in Node /\ Nodes(t)' = Nodes(t) /\ Tree(t)'
                       /\ Nodes(t)' \subseteq live' \ gc
  BY <1>2, <1>3, <1>5, NodesStable DEF IInv, TypeOK, SingleOwner, Release
<1>7. Nodes(root)' \subseteq gc
  <2>1. gc \in SUBSET Node /\ {root} \subseteq gc
    BY DEF IInv, TypeOK
  <2>2. Closed(kids', gc)
    BY <1>2, <2>1 DEF Closed, kids
  <2>. QED
    BY <2>1, <2>2, ReachableLeast DEF Nodes
<1>8. Owned'
  BY <1>1, <1>6, <1>7 DEF IInv, TypeOK, Owned, Release, GcRelease
<1>9. SingleOwner'
  BY <1>1, <1>6, <1>7 DEF IInv, SingleOwner
<1>. QED
  BY <1>3, <1>4, <1>8, <1>9 DEF IInv

\* Freeing the duplicate of a type frees nothing of the type that is there.
LEMMA ReleaseDuplicateIInv ==
  ASSUME IInv, ReleaseDuplicate
  PROVE  IInv'
<1>1. PICK dup \in gc, decl \in gc :
        /\ dup # decl
        /\ live' = live \ {dup, decl}
        /\ Link(gc \ {dup, decl})
  BY DEF ReleaseDuplicate
<1>2. \A t \in roots : \A n \in Nodes(t) : n \in live \ gc /\ n \in Node
  BY DEF IInv, TypeOK, Owned
<1>3. roots \subseteq live \ gc
  BY NodesType DEF IInv, TypeOK, Owned
<1>4. TypeOK'
  BY <1>1, <1>3 DEF IInv, TypeOK, ReleaseDuplicate, Link, GcRelease, Phase
<1>5. CountExact'
  <2>1. Cardinality({dup, decl}) = 2
    <3>1. IsFiniteSet({decl}) /\ Cardinality({decl}) = 1
      BY FS_Singleton
    <3>2. Cardinality({decl} \cup {dup}) = Cardinality({decl}) + 1
      BY <1>1, <3>1, FS_AddElement
    <3>3. {decl} \cup {dup} = {dup, decl}
      OBVIOUS
    <3>. QED
      BY <3>1, <3>2, <3>3
  <2>2. {dup, decl} \in SUBSET live
    BY DEF IInv, TypeOK
  <2>. QED
    BY <1>1, <2>1, <2>2, FreeCount DEF IInv, ReleaseDuplicate
<1>6. Owned' /\ SingleOwner'
  <2>1. \A t \in roots' :
          /\ Nodes(t) \subseteq live' \ gc'
          /\ \A n \in Nodes(t) : of'[n] = of[n] /\ args'[n] = args[n]
    BY <1>1, <1>2 DEF ReleaseDuplicate, Link, GcRelease
  <2>. QED
    BY <1>4, <2>1, EntriesKept DEF ReleaseDuplicate
<1>. QED
  BY <1>4, <1>5, <1>6 DEF IInv

\* Freeing an entry at exit frees nothing that another entry reaches.
LEMMA FreeTypedefIInv ==
  ASSUME IInv, FreeTypedef
  PROVE  IInv'
<1>1. PICK t \in roots : Free(Freed(t)) /\ roots' = roots \ {t}
  BY DEF FreeTypedef
<1>2. \A s \in roots : \A n \in Nodes(s) : n \in live \ gc /\ n \in Node
  BY DEF IInv, TypeOK, Owned
<1>3. Freed(t) \subseteq Nodes(t)
  BY FreedInNodes DEF IInv, TypeOK
<1>4. Freed(t) \in SUBSET live /\ Freed(t) \cap gc = {}
  BY <1>2, <1>3
<1>5. \A s \in roots' : \A n \in Nodes(s) : n \notin Freed(t)
  BY <1>1, <1>3 DEF IInv, SingleOwner
<1>6. TypeOK'
  <2>1. roots' \subseteq live'
    BY <1>1, <1>5, NodesType DEF IInv, TypeOK, Free
  <2>. QED
    BY <1>1, <1>4, <2>1, FreeType DEF IInv, TypeOK, FreeTypedef, Free
<1>7. CountExact'
  BY <1>1, <1>4, FreeCount DEF IInv, Free
<1>8. Owned' /\ SingleOwner'
  <2>1. \A s \in roots' :
          /\ Nodes(s) \subseteq live' \ gc'
          /\ \A n \in Nodes(s) : of'[n] = of[n] /\ args'[n] = args[n]
    BY <1>1, <1>2, <1>4, <1>5, FreeType DEF IInv, FreeTypedef, Free
  <2>. QED
    BY <1>1, <1>6, <2>1, EntriesKept
<1>. QED
  BY <1>6, <1>7, <1>8 DEF IInv

\* Every step of a session keeps the invariant.
THEOREM NextIInv == IInv /\ [Next]_vars => IInv'
<1> SUFFICES ASSUME IInv, [Next]_vars PROVE IInv'
  OBVIOUS
<1>1. CASE Start
  BY <1>1, UnchangedIInv DEF Start, Phase
<1>2. CASE Build
  BY <1>2, BuildIInv
<1>3. CASE Collect
  BY <1>3, CollectIInv
<1>4. CASE Release
  BY <1>4, ReleaseIInv
<1>5. CASE ReleaseDuplicate
  BY <1>5, ReleaseDuplicateIInv
<1>6. CASE Quit
  BY <1>6, UnchangedIInv DEF Quit, Phase
<1>7. CASE FreeTypedef
  BY <1>7, FreeTypedefIInv
<1>8. CASE Cleanup
  BY <1>8, UnchangedIInv DEF Cleanup, Phase
<1>9. CASE Abort
  BY <1>9, UnchangedIInv DEF Abort, Phase
<1>10. CASE UNCHANGED vars
  BY <1>10, UnchangedIInv DEF vars, heap, IInv, TypeOK
<1>. QED
  BY <1>1, <1>2, <1>3, <1>4, <1>5, <1>6, <1>7, <1>8, <1>9, <1>10
     DEF Next, Terminated

-----------------------------------------------------------------------------
(* The theorems.                                                           *)

\* The inductive invariant holds in every session, from the first command to
\* the exit.
THEOREM Inductive == Spec => []IInv
BY InitIInv, NextIInv, PTL DEF Spec

\* The variables of the heap keep their types: nothing on the garbage
\* collection list, marked or owned has been freed.
THEOREM TypeCorrect == Spec => []TypeOK
<1>1. IInv => TypeOK
  BY DEF IInv
<1>. QED
  BY <1>1, Inductive, PTL

\* c_ast_count is the number of allocated nodes, whatever c_ast_gc,
\* c_ast_gc_release and c_ast_free have done, so that c_ast_cleanup reports a
\* leak exactly when there is one.
THEOREM CountCorrect == Spec => []CountExact
<1>1. IInv => CountExact
  BY DEF IInv
<1>. QED
  BY <1>1, Inductive, PTL

\* What can be reached from the table is the union of the ASTs of its entries.
LEMMA RootsReach ==
  ASSUME IInv, NEW n \in Reachable(kids, roots)
  PROVE  \E t \in roots : n \in Nodes(t)
<1> DEFINE All == UNION {Nodes(t) : t \in roots}
<1>1. \A t \in roots : /\ Nodes(t) \in SUBSET Node /\ t \in Nodes(t)
                       /\ Closed(kids, Nodes(t))
  BY NodesType DEF IInv, TypeOK
<1>2. All \in SUBSET Node /\ roots \subseteq All
  BY <1>1
<1>3. Closed(kids, All)
  BY <1>1 DEF Closed
<1>4. Reachable(kids, roots) \subseteq All
  BY <1>2, <1>3, ReachableLeast
<1>. QED
  BY <1>4

\* No entry of the typedef table reaches a node that has been freed.
THEOREM NothingDangles == Spec => []NoDangling
<1>1. IInv => NoDangling
  BY RootsReach DEF IInv, Owned, NoDangling
<1>. QED
  BY <1>1, Inductive, PTL

\* No node has two owners: the exit frees nothing twice.
THEOREM OwnerUnique == Spec => []SingleOwner
<1>1. IInv => SingleOwner
  BY DEF IInv
<1>. QED
  BY <1>1, Inductive, PTL

\* The AST of a type name does not change until the exit.
THEOREM DefinitionsStay == Spec => DefinitionsKept
<1> DEFINE Kept == phase # "exit" =>
                     \A n \in Reachable(kids, roots) :
                       of'[n] = of[n] /\ args'[n] = args[n]
<1>1. IInv /\ [Next]_vars => [Kept]_vars
  <2> SUFFICES ASSUME IInv, Next, phase # "exit",
                      NEW n \in Reachable(kids, roots)
               PROVE  of'[n] = of[n] /\ args'[n] = args[n]
    BY DEF vars
  <2>1. n \in live \ gc /\ n \in Node
    BY RootsReach DEF IInv, TypeOK, Owned
  <2>2. CASE Collect
    BY <2>1, <2>2, FreeType DEF Collect, IInv, TypeOK
  <2>3. CASE Release
    BY <2>1, <2>3 DEF Release, Link
  <2>4. CASE ReleaseDuplicate
    BY <2>1, <2>4 DEF ReleaseDuplicate, Link
  <2>. QED
    BY <2>2, <2>3, <2>4
       DEF Next, Start, Build, Quit, FreeTypedef, Cleanup, Abort, Terminated,
           heap, vars
<1>. QED
  BY <1>1, Inductive, PTL DEF Spec, DefinitionsKept
=============================================================================
