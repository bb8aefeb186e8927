---------------------------- MODULE ParserProofs ----------------------------
(***************************************************************************)
(* The invariant of Parser, and that every production keeps it.            *)
(*                                                                         *)
(* Nodes are added above, between and below others while a command is      *)
(* parsed, so the invariant has to say what is linked to what on the way:  *)
(*   - Base: the nodes on the list are linked to one another, those of the *)
(*     typedef table to one another, and no chain of links comes back,     *)
(*     also when it goes on from a type name to its definition;            *)
(*   - Lists and Chained: the nodes fall into classes (cl), one for each   *)
(*     declaration that is being parsed; links stay within a class, and    *)
(*     the nodes of a list of arguments are of classes of their own;       *)
(*   - Gib: which values may be on which, that the type stack holds the    *)
(*     nodes of the values since the type (Spine), that only the value     *)
(*     above is linked to one of them, and how nested they are;            *)
(*   - Eng: every value is the root of an AST of its own.                  *)
(* L are the nodes that are off the list and in no AST of the table, which *)
(* the program has lost; G is what the nodes off the list hold, which no   *)
(* production changes.                                                     *)
(***************************************************************************)
EXTENDS Parser, CAstProofs

\* What the fields of a node may be, and the nodes on the list gc.
Types == BuiltinType \cup {"void", NIL}
Names == Name \cup {NIL}
On == ToSet(gc)

\* The nodes that belong to entries of the typedef table, when L are lost.
Owned(L) == live \ (On \cup L)

\* The links of the heap g, those to parents only among the nodes O, and from a
\* type name to its definition; from L only those within L.
Edges(g, T, O, L) ==
  {e \in Node \X Node :
     /\ e[1] \in L => e[2] \in L
     /\ \/ e[2] = g[e[1]].of
        \/ e[2] \in ToSet(g[e[1]].args)
        \/ e[1] \in O /\ e[2] \in O /\ e[1] = g[e[2]].parent
        \/ g[e[1]].kind = "typedef" /\ e[2] = T[g[e[1]].def]}

\* The nodes that are allocated, and what each kind of node has.
HeapOK(L) ==
  /\ h \in Heaps(Types, Names) /\ typedefs \in [Name -> Address]
  /\ gc \in Seq(Node) /\ IsInjective(gc)
  /\ live \subseteq Node /\ On \subseteq live
  /\ L \subseteq live \ On /\ recursive \subseteq live \ On
  /\ \A n \in Node \ live : h[n] = NoAst
  /\ \A n \in live : h[n].kind \in Kind
  /\ \A n \in Node : /\ h[n].kind = "typedef" => h[n].def \in Name
                     /\ h[n].args # <<>> => h[n].kind = "function"
                     /\ h[n].of # NIL => h[n].kind \in ParentKind
                     /\ h[n].def # NIL => h[n].kind = "typedef"
                     /\ h[n].kind = "typedef" => h[n].type = NIL

\* Which nodes are linked to which.
LinksOK(L) ==
  /\ \A n \in On : /\ h[n].of \in On \cup {NIL} /\ h[n].parent \in On \cup {NIL}
                   /\ ToSet(h[n].args) \subseteq On
                   /\ h[n].parent # NIL => h[h[n].parent].kind \in ParentKind
  /\ \A n \in Owned(L) : /\ h[n].of \in Owned(L) \cup {NIL}
                         /\ ToSet(h[n].args) \subseteq Owned(L)
  /\ \A n \in L : ToSet(h[n].args) \subseteq L

\* The entries of the typedef table have ASTs of their own, and no links come back.
TableOK(L) ==
  /\ \A t \in Defined : typedefs[t] \in Owned(L)
  /\ \A s, t \in Defined : s # t => typedefs[s] # typedefs[t]
  /\ phase \notin {"exit", "exited"} =>
       \A n \in live : h[n].kind = "typedef" => h[n].def \in Defined
  /\ WellFounded(Node, Edges(h, typedefs, On, L))

\* Which the nodes off the list are, and what they contain.
Kept(G) == live \ On = DOMAIN G /\ \A n \in live \ On : h[n] = G[n]

Base(L, G) == HeapOK(L) /\ LinksOK(L) /\ TableOK(L) /\ Kept(G)

\* What a production does to the heap that does not depend on its nodes.
Grows(new) ==
  /\ new \subseteq Node \ live
  /\ gc' \in Seq(Node) /\ IsInjective(gc') /\ ToSet(gc') = On \cup new
  /\ live' = live \cup new
  /\ UNCHANGED <<recursive, typedefs, phase>>

\* What it may do to its nodes.
Builds(new) ==
  /\ h' \in Heaps(Types, Names)
  /\ \A n \in Node \ (On \cup new) : h'[n] = h[n]
  /\ \A n \in On : /\ h'[n].kind = h[n].kind /\ h'[n].def = h[n].def
                   /\ h'[n].args = h[n].args /\ h'[n].type = h[n].type
                   /\ h'[n].of # NIL => h'[n].kind \in ParentKind
  /\ \A n \in new : /\ h'[n].kind \in Kind
                    /\ h'[n].kind = "typedef" => h'[n].def \in Defined
                    /\ h'[n].args # <<>> => h'[n].kind = "function"
                    /\ h'[n].of # NIL => h'[n].kind \in ParentKind
                    /\ h'[n].def # NIL => h'[n].kind = "typedef"
                    /\ h'[n].kind = "typedef" => h'[n].type = NIL
                    /\ ToSet(h'[n].args) \subseteq On \cup new
  /\ \A n \in On \cup new : /\ h'[n].of \in On \cup new \cup {NIL}
                            /\ h'[n].parent \in On \cup new \cup {NIL}
                            /\ h'[n].parent # NIL => h'[h'[n].parent].kind \in ParentKind
                            
\* The null pointer is no node and no name.
LEMMA NilFacts ==
  /\ NIL \notin Node /\ NIL \notin Name /\ NIL \in Types /\ NIL \in Names
  /\ IsFiniteSet(Node)
  BY ParserAssumption DEF Types, Names

\* A production that allocates new and links nodes of the list keeps what is
\* said of the heap, when it closes no cycle.
LEMMA ProductionBase ==
  ASSUME NEW L, NEW G, Base(L, G), NEW new, Grows(new), Builds(new),
         WellFounded(Node, Edges(h', typedefs, On \cup new, L))
  PROVE  Base(L, G)'
<1>1. /\ On' = On \cup new /\ Owned(L)' = Owned(L)
      /\ Owned(L) \cap (On \cup new) = {} /\ L \cap (On \cup new) = {}
      /\ L \subseteq Node /\ Owned(L) \subseteq Node
  BY DEF On, Owned, Grows, Base, HeapOK
<1>2. HeapOK(L)'
  <2>1. \A n \in Node \ live' : h'[n] = NoAst
    BY <1>1 DEF Base, HeapOK, Grows, Builds
  <2>2. \A n \in live' : h'[n].kind \in Kind
    BY <1>1 DEF Base, HeapOK, Grows, Builds
  <2>3. \A n \in Node : /\ h'[n].kind = "typedef" => h'[n].def \in Name
                        /\ h'[n].args # <<>> => h'[n].kind = "function"
                        /\ h'[n].of # NIL => h'[n].kind \in ParentKind
                        /\ h'[n].def # NIL => h'[n].kind = "typedef"
    BY <1>1 DEF Base, HeapOK, Grows, Builds, Defined
  <2>. QED
    BY <1>1, <2>1, <2>2, <2>3 DEF Base, HeapOK, Grows, Builds
<1>3. LinksOK(L)'
  <2>1. \A n \in On' : /\ h'[n].of \in On' \cup {NIL} /\ h'[n].parent \in On' \cup {NIL}
                       /\ ToSet(h'[n].args) \subseteq On'
                       /\ h'[n].parent # NIL => h'[h'[n].parent].kind \in ParentKind
    BY <1>1 DEF Base, LinksOK, Builds
  <2>2. \A n \in Owned(L) \cup L : h'[n] = h[n]
    BY <1>1 DEF Builds
  <2>. QED
    BY <1>1, <2>1, <2>2 DEF Base, LinksOK
<1>4. TableOK(L)'
  <2>1. Defined' = Defined
    BY DEF Defined, Undefined, Grows
  <2>2. \A n \in live' : h'[n].kind = "typedef" /\ phase \notin {"exit", "exited"} => h'[n].def \in Defined
    BY <1>1 DEF Base, TableOK, HeapOK, Grows, Builds
  <2>. QED
    BY <1>1, <2>1, <2>2 DEF Base, TableOK, Grows
<1>5. Kept(G)'
  BY <1>1 DEF Base, HeapOK, Kept, Grows, Builds
<1>. QED
  BY <1>2, <1>3, <1>4, <1>5 DEF Base

-----------------------------------------------------------------------------
(* Allocation.                                                             *)

\* The nodes that are allocated next are free, and differ.
LEMMA RoomFree ==
  ASSUME NEW L, NEW G, HeapOK(L)
  PROVE  /\ Room(1) => Free1 \in Node \ live
         /\ Room(2) => Free1 \in Node \ live /\ Free2 \in Node \ live /\ Free2 # Free1
<1>1. IsFiniteSet(Node \ live)
  BY NilFacts, FS_Difference
<1>2. Room(1) \/ Room(2) => Node \ live # {}
  BY FS_EmptySet DEF Room
<1>3. Room(1) \/ Room(2) => Free1 \in Node \ live
  BY <1>2 DEF Free1
<1>4. ASSUME Room(2) PROVE Node \ (live \cup {Free1}) # {}
  <2>1. SUFFICES ASSUME Node \ live = {Free1} PROVE FALSE
    BY <1>3, <1>4
  <2>2. Cardinality({Free1}) = 1
    BY FS_Singleton
  <2>. QED
    BY <1>4, <2>1, <2>2 DEF Room
<1>5. Room(2) => Free2 \in Node \ (live \cup {Free1})
  BY <1>4 DEF Free2
<1>. QED
  BY <1>3, <1>5

\* c_ast_new puts one or two new nodes on the list.
LEMMA NewNodes ==
  ASSUME gc \in Seq(Node), IsInjective(gc), On \subseteq live,
         NEW new \in Seq(Node), Len(new) \in {1, 2}, IsInjective(new),
         ToSet(new) \cap live = {}, c_ast_new(new)
  PROVE  /\ gc' \in Seq(Node) /\ IsInjective(gc') /\ ToSet(gc') = On \cup ToSet(new)
         /\ gc' # <<>> /\ gc'[1] = new[Len(new)]
         /\ gc'[Len(gc')] = IF gc = <<>> THEN new[1] ELSE gc[Len(gc)]
         /\ live' = live \cup ToSet(new) /\ recursive' = recursive
<1> DEFINE rev == Reverse(new)
           n == Len(new)
<1>1. /\ rev \in Seq(Node) /\ Len(rev) = n /\ n \in Nat
      /\ \A i \in 1..n : rev[i] = new[n - i + 1]
  BY DEF Reverse
<1>2. gc' = rev \o gc /\ live' = live \cup ToSet(new) /\ recursive' = recursive
  BY DEF c_ast_new
<1> HIDE DEF rev
<1>3. /\ gc' \in Seq(Node) /\ Len(gc') = n + Len(gc) /\ Len(gc) \in Nat
      /\ \A i \in 1..n : gc'[i] = rev[i]
      /\ \A i \in n + 1..n + Len(gc) : gc'[i] = gc[i - n]
  <2>1. /\ rev \o gc \in Seq(Node) /\ Len(rev \o gc) = Len(rev) + Len(gc)
        /\ \A i \in 1..Len(rev) + Len(gc) :
             (rev \o gc)[i] = IF i <= Len(rev) THEN rev[i] ELSE gc[i - Len(rev)]
    <3>1. rev \in Seq(Node) /\ gc \in Seq(Node)
      BY <1>1
    <3>. QED
      BY <3>1, ConcatProperties, Zenon
  <2>2. gc' \in Seq(Node) /\ Len(gc') = n + Len(gc) /\ Len(gc) \in Nat
    BY <1>1, <1>2, <2>1
  <2>3. \A i \in 1..n + Len(gc) : gc'[i] = IF i <= n THEN rev[i] ELSE gc[i - n]
    BY <1>1, <1>2, <2>1
  <2>. QED
    BY <1>1, <2>2, <2>3
<1>4. ToSet(new) = {new[i] : i \in 1..n} /\ On = {gc[i] : i \in 1..Len(gc)}
      /\ ToSet(gc') = {gc'[i] : i \in 1..n + Len(gc)}
  <2>1. ToSet(new) = {new[i] : i \in 1..n}
    BY DEF ToSet
  <2>2. On = {gc[i] : i \in 1..Len(gc)}
    BY DEF On, ToSet
  <2>3. ToSet(gc') = {gc'[i] : i \in 1..Len(gc')}
    <3>1. DOMAIN gc' = 1..Len(gc')
      BY <1>3
    <3>. QED
      BY <3>1 DEF ToSet
  <2>. QED
    BY <1>3, <2>1, <2>2, <2>3
<1>5. \A i \in 1..n : n - i + 1 \in 1..n /\ n - (n - i + 1) + 1 = i
  BY <1>1
<1>6. ToSet(gc') = On \cup ToSet(new)
  <2>1. ASSUME NEW x \in ToSet(gc') PROVE x \in On \cup ToSet(new)
    <3>1. PICK i \in 1..n + Len(gc) : x = gc'[i]
      BY <1>4, <2>1
    <3>2. CASE i \in 1..n
      BY <1>1, <1>3, <1>4, <1>5, <3>1, <3>2
    <3>3. CASE i \notin 1..n
      <4>1. i \in n + 1..n + Len(gc) /\ i - n \in 1..Len(gc)
        BY <1>1, <1>3, <3>3
      <4>. QED
        BY <1>3, <1>4, <3>1, <4>1
    <3>. QED
      BY <3>2, <3>3
  <2>2. ASSUME NEW x \in ToSet(new) PROVE x \in ToSet(gc')
    <3>1. PICK i \in 1..n : x = new[i]
      BY <1>4, <2>2
    <3>2. n - i + 1 \in 1..n /\ n - (n - i + 1) + 1 = i
      BY <1>5
    <3>4. n - i + 1 \in 1..n + Len(gc)
      BY <1>1, <1>3, <3>2
    <3>5. rev[n - i + 1] = new[i]
      BY <1>1, <3>2
    <3>. QED
      BY <1>3, <1>4, <3>1, <3>2, <3>4, <3>5
  <2>3. ASSUME NEW x \in On PROVE x \in ToSet(gc')
    <3>1. PICK i \in 1..Len(gc) : x = gc[i]
      BY <1>4, <2>3
    <3>2. i + n \in n + 1..n + Len(gc) /\ i + n \in 1..n + Len(gc) /\ (i + n) - n = i
      BY <1>1, <1>3
    <3>. QED
      BY <1>3, <1>4, <3>1, <3>2
  <2>. QED
    BY <2>1, <2>2, <2>3
<1>7. IsInjective(gc')
  <2>1. SUFFICES ASSUME NEW i \in 1..n + Len(gc), NEW j \in 1..n + Len(gc), gc'[i] = gc'[j]
                 PROVE  i = j
    BY <1>3 DEF IsInjective
  <2>2. ASSUME NEW k \in 1..n + Len(gc), k \in 1..n
        PROVE  gc'[k] = new[n - k + 1] /\ n - k + 1 \in 1..n /\ gc'[k] \in ToSet(new)
    BY <1>1, <1>3, <1>4, <1>5, <2>2
  <2>3. ASSUME NEW k \in 1..n + Len(gc), k \notin 1..n
        PROVE  gc'[k] = gc[k - n] /\ k - n \in 1..Len(gc) /\ gc'[k] \in On
    <3>1. k \in n + 1..n + Len(gc) /\ k - n \in 1..Len(gc)
      BY <1>1, <1>3, <2>3
    <3>. QED
      BY <1>3, <1>4, <3>1
  <2>4. CASE i \in 1..n /\ j \in 1..n
    <3>2. gc'[i] = new[n - i + 1] /\ n - i + 1 \in 1..n
      BY <2>2, <2>4
    <3>3. gc'[j] = new[n - j + 1] /\ n - j + 1 \in 1..n
      BY <2>2, <2>4
    <3>4. DOMAIN new = 1..n
      BY <1>1
    <3>1. n - i + 1 = n - j + 1
      BY <2>1, <3>2, <3>3, <3>4 DEF IsInjective
    <3>. QED
      BY <1>1, <3>1
  <2>5. CASE i \notin 1..n /\ j \notin 1..n
    <3>1. i - n = j - n
      BY <2>1, <2>3, <2>5, <1>3 DEF IsInjective
    <3>. QED
      BY <1>1, <3>1
  <2>6. On \cap ToSet(new) = {}
    OBVIOUS
  <2>. QED
    BY <2>1, <2>2, <2>3, <2>4, <2>5, <2>6
<1>8. /\ gc' # <<>> /\ gc'[1] = new[n]
      /\ gc'[Len(gc')] = IF gc = <<>> THEN new[1] ELSE gc[Len(gc)]
  <2>1. 1 \in 1..n /\ n - 1 + 1 = n /\ n \in 1..n /\ n - n + 1 = 1
    BY <1>1
  <2>2. Len(gc') # 0
    BY <1>1, <1>3
  <2>3. gc'[1] = new[n] /\ gc'[n] = new[1]
    BY <1>1, <1>3, <2>1
  <2>4. CASE gc = <<>>
    <3>1. Len(gc') = n
      BY <1>1, <1>3, <2>4
    <3>. QED
      BY <2>2, <2>3, <2>4, <3>1
  <2>5. CASE gc # <<>>
    <3>1. n + Len(gc) \in n + 1..n + Len(gc) /\ (n + Len(gc)) - n = Len(gc)
      BY <1>1, <1>3, <2>5
    <3>2. gc'[Len(gc')] = gc[Len(gc)]
      BY <1>3, <3>1
    <3>. QED
      BY <2>2, <2>3, <2>5, <3>2
  <2>. QED
    BY <2>4, <2>5
<1>. QED
  BY <1>2, <1>3, <1>6, <1>7, <1>8

\* Allocating one node puts it first on the list.
LEMMA OneNode ==
  ASSUME NEW L, NEW G, HeapOK(L), NEW f \in Node \ live, c_ast_new(<<f>>),
         UNCHANGED <<typedefs, phase>>
  PROVE  /\ Grows({f}) /\ gc' # <<>> /\ gc'[1] = f
         /\ gc'[Len(gc')] = IF gc = <<>> THEN f ELSE gc[Len(gc)]
<1> DEFINE new == <<f>>
<1>1. /\ new \in Seq(Node) /\ Len(new) = 1 /\ IsInjective(new) /\ ToSet(new) = {f}
      /\ new[1] = f
  BY DEF IsInjective, ToSet
<1>2. ToSet(new) \cap live = {}
  BY <1>1
<1> HIDE DEF new
<1>3. c_ast_new(new)
  BY DEF new
<1>. QED
  BY <1>1, <1>2, <1>3, NewNodes DEF HeapOK, Grows

\* Allocating two nodes puts the second first on the list.
LEMMA TwoNodes ==
  ASSUME NEW L, NEW G, HeapOK(L), NEW f1 \in Node \ live, NEW f2 \in Node \ live, f1 # f2,
         c_ast_new(<<f1, f2>>), UNCHANGED <<typedefs, phase>>
  PROVE  /\ Grows({f1, f2}) /\ gc' # <<>> /\ gc'[1] = f2
         /\ gc'[Len(gc')] = IF gc = <<>> THEN f1 ELSE gc[Len(gc)]
<1> DEFINE new == <<f1, f2>>
<1>1. /\ new \in Seq(Node) /\ Len(new) = 2 /\ new[1] = f1 /\ new[2] = f2
  OBVIOUS
<1>2. IsInjective(new) /\ ToSet(new) = {f1, f2}
  <2>1. DOMAIN new = {1, 2}
    BY <1>1
  <2> HIDE DEF new
  <2>. QED
    BY <1>1, <2>1 DEF IsInjective, ToSet
<1>3. ToSet(new) \cap live = {}
  BY <1>2
<1> HIDE DEF new
<1>4. c_ast_new(new)
  BY DEF new
<1>. QED
  BY <1>1, <1>2, <1>3, <1>4, NewNodes DEF HeapOK, Grows

-----------------------------------------------------------------------------
(* No production closes a cycle.                                           *)

\* Links lead from allocated nodes to allocated nodes, and to the list only
\* from the list.
LEMMA EdgeEnds ==
  ASSUME NEW L, NEW G, Base(L, G), phase \notin {"exit", "exited"},
         NEW x, NEW y, <<x, y>> \in Edges(h, typedefs, On, L)
  PROVE  /\ x \in live /\ y \in live
         /\ x \in On => y \in On \cup Owned(L)
         /\ x \in Owned(L) => y \in Owned(L)
         /\ x \in L => y \in L
<1>1. /\ x \in Node /\ y \in Node /\ (x \in L => y \in L)
      /\ \/ y = h[x].of
         \/ y \in ToSet(h[x].args)
         \/ x \in On /\ y \in On /\ x = h[y].parent
         \/ h[x].kind = "typedef" /\ y = typedefs[h[x].def]
  BY DEF Edges
<1>2. /\ On \subseteq live /\ L \subseteq live /\ live \subseteq Node
      /\ Owned(L) = live \ (On \cup L) /\ On \cap L = {}
  BY DEF Base, HeapOK, Owned
<1>3. x \in live
  <2>1. SUFFICES ASSUME x \notin live PROVE FALSE
    OBVIOUS
  <2>2. h[x] = NoAst
    BY <1>1, <2>1 DEF Base, HeapOK
  <2>3. h[x].of = NIL /\ h[x].args = <<>> /\ h[x].kind = "none"
    BY <2>2 DEF NoAst
  <2>4. "none" # "typedef"
    BY Kinds
  <2>. QED
    BY <1>1, <1>2, <2>1, <2>3, <2>4, NilFacts DEF ToSet
<1>4. CASE h[x].kind = "typedef" /\ y = typedefs[h[x].def]
  <2>1. h[x].def \in Defined
    BY <1>3, <1>4 DEF Base, TableOK
  <2>2. y \in Owned(L)
    BY <1>4, <2>1 DEF Base, TableOK
  <2>. QED
    BY <1>1, <1>2, <1>3, <2>2
<1>5. CASE y = h[x].of \/ y \in ToSet(h[x].args)
  BY <1>1, <1>2, <1>3, <1>5, NilFacts DEF Base, LinksOK
<1>. QED
  BY <1>1, <1>2, <1>3, <1>4, <1>5

\* The links of nodes that are not on the list stay as they are.
LEMMA OldEdges ==
  ASSUME NEW L, NEW G, Base(L, G), phase \notin {"exit", "exited"}, NEW new, Grows(new), Builds(new),
         NEW x, NEW y, <<x, y>> \in Edges(h', typedefs, On \cup new, L)
  PROVE  /\ x \in Node /\ y \in Node
         /\ \/ x \in On \cup new
            \/ <<x, y>> \in Edges(h, typedefs, On, L) /\ y \notin On \cup new
<1>1. /\ x \in Node /\ y \in Node /\ (x \in L => y \in L)
      /\ \/ y = h'[x].of
         \/ y \in ToSet(h'[x].args)
         \/ x \in On \cup new /\ y \in On \cup new /\ x = h'[y].parent
         \/ h'[x].kind = "typedef" /\ y = typedefs[h'[x].def]
  BY DEF Edges
<1>2. SUFFICES ASSUME x \notin On \cup new
               PROVE  <<x, y>> \in Edges(h, typedefs, On, L) /\ y \notin On \cup new
  BY <1>1
<1>3. h'[x] = h[x]
  BY <1>1, <1>2 DEF Builds
<1>4. <<x, y>> \in Edges(h, typedefs, On, L)
  BY <1>1, <1>2, <1>3 DEF Edges
<1>5. x \in live /\ (x \in Owned(L) => y \in Owned(L)) /\ (x \in L => y \in L)
  BY <1>4, EdgeEnds
<1>6. x \in Owned(L) \cup L
  BY <1>2, <1>5 DEF Owned
<1>7. (Owned(L) \cup L) \cap (On \cup new) = {}
  BY DEF Owned, Grows, Base, HeapOK
<1>. QED
  BY <1>4, <1>5, <1>6, <1>7

\* A node on the list is linked within the list, and maybe to a definition.
LEMMA NewEdges ==
  ASSUME NEW L, NEW G, Base(L, G), phase \notin {"exit", "exited"}, NEW new, Grows(new), Builds(new),
         NEW x \in On \cup new, NEW y, <<x, y>> \in Edges(h', typedefs, On \cup new, L)
  PROVE  \/ y \in On \cup new /\ (y = h'[x].of \/ y \in ToSet(h'[x].args) \/ x = h'[y].parent)
         \/ y \in Owned(L) /\ (x \in On => <<x, y>> \in Edges(h, typedefs, On, L))
<1>1. /\ x \in Node /\ y \in Node /\ (x \in L => y \in L)
      /\ \/ y = h'[x].of
         \/ y \in ToSet(h'[x].args)
         \/ x \in On \cup new /\ y \in On \cup new /\ x = h'[y].parent
         \/ h'[x].kind = "typedef" /\ y = typedefs[h'[x].def]
  BY DEF Edges
<1>2. CASE h'[x].kind = "typedef" /\ y = typedefs[h'[x].def]
  <2>1. h'[x].def \in Defined
    BY <1>2 DEF Builds, Base, TableOK, HeapOK
  <2>2. y \in Owned(L)
    BY <1>2, <2>1 DEF Base, TableOK
  <2>3. x \in On => <<x, y>> \in Edges(h, typedefs, On, L)
    BY <1>1, <1>2 DEF Builds, Edges
  <2>. QED
    BY <2>2, <2>3
<1>3. CASE y = h'[x].of
  BY <1>1, <1>3, NilFacts DEF Builds
<1>4. CASE y \in ToSet(h'[x].args)
  <2>1. CASE x \in new
    BY <1>4, <2>1 DEF Builds
  <2>2. CASE x \in On
    BY <1>4, <2>2 DEF Builds, Base, LinksOK
  <2>. QED
    BY <1>4, <2>1, <2>2
<1>. QED
  BY <1>1, <1>2, <1>3, <1>4

\* A new node above what there is.
LEMMA NewRoot ==
  ASSUME NEW L, NEW G, Base(L, G), phase \notin {"exit", "exited"}, NEW f, Grows({f}), Builds({f}),
         \A n \in On : /\ h'[n].of = h[n].of
                       /\ h'[n].parent \in {h[n].parent, f},
         h'[f].parent = NIL, h'[f].of # f, f \notin ToSet(h'[f].args)
  PROVE  Base(L, G)'
<1> DEFINE E == Edges(h, typedefs, On, L)
           E2 == Edges(h', typedefs, On \cup {f}, L)
<1>1. f \in Node /\ f \notin live /\ f \notin On /\ f \notin Owned(L)
  BY DEF Grows, Base, HeapOK, Owned
<1>2. ASSUME NEW x \in Node, <<x, f>> \in E2
      PROVE  FALSE
  <2>1. x \in On \cup {f}
    BY <1>2, OldEdges
  <2>2. f = h'[x].of \/ f \in ToSet(h'[x].args) \/ x = h'[f].parent
    BY <1>1, <1>2, <2>1, NewEdges
  <2>3. x \in On
    BY <2>1, <2>2, <1>1, NilFacts
  <2>4. h[x].of # f /\ f \notin ToSet(h[x].args)
    BY <2>3, <1>1, NilFacts DEF Base, LinksOK
  <2>. QED
    BY <2>2, <2>3, <2>4, <1>1, NilFacts DEF Builds
<1>3. ASSUME NEW x \in Node \ {f}, NEW y \in Node \ {f}, <<x, y>> \in E2
      PROVE  <<x, y>> \in E
  <2>1. CASE x \notin On
    BY <1>3, <2>1, OldEdges
  <2>2. CASE x \in On
    <3>1. CASE y \in On \cup {f} /\ (y = h'[x].of \/ y \in ToSet(h'[x].args) \/ x = h'[y].parent)
      <4>1. y \in On /\ (y = h[x].of \/ y \in ToSet(h[x].args) \/ x = h[y].parent)
        BY <1>3, <2>2, <3>1 DEF Builds
      <4>2. x \notin L
        BY <2>2 DEF Base, HeapOK
      <4>. QED
        BY <1>3, <2>2, <4>1, <4>2 DEF Edges
    <3>. QED
      BY <1>3, <2>2, <3>1, NewEdges
  <2>. QED
    BY <2>1, <2>2
<1>4. WellFounded(Node, E)
  BY DEF Base, TableOK
<1>5. WellFounded(Node, E2)
  <2> HIDE DEF E, E2
  <2>. QED
    BY <1>2, <1>3, <1>4, <1>1, Insert
<1>. QED
  BY <1>5, ProductionBase

\* The nodes D may be linked to others and to new ones, which are not linked to
\* them.
LinkedApart(new, D) ==
  /\ D \in SUBSET On
  /\ \A n \in On \ D : /\ h'[n].of = h[n].of /\ h'[n].of \notin D
                       /\ ToSet(h'[n].args) \cap D = {}
  /\ \A n \in On : h'[n].parent \in On \ D => h'[n].parent = h[n].parent /\ n \notin D
  /\ \A n \in D : h'[n].of \in D => h'[n].of = h[n].of
  /\ \A n \in D : h'[n].parent \in D => h'[n].parent = h[n].parent
  /\ \A f \in new : /\ h'[f].of \notin D \cup new
                    /\ ToSet(h'[f].args) \cap (D \cup new) = {}
                    /\ h'[f].parent \notin (On \ D) \cup new
  /\ \A n \in D : h'[n].parent \notin new

\* They close no cycle.
LEMMA NewLinks ==
  ASSUME NEW L, NEW G, Base(L, G), phase \notin {"exit", "exited"},
         NEW new, Grows(new), Builds(new), NEW D, LinkedApart(new, D)
  PROVE  Base(L, G)'
<1>0. /\ D \in SUBSET On
      /\ \A n \in On \ D : /\ h'[n].of = h[n].of /\ h'[n].of \notin D
                           /\ ToSet(h'[n].args) \cap D = {}
      /\ \A n \in On : h'[n].parent \in On \ D => h'[n].parent = h[n].parent /\ n \notin D
      /\ \A n \in D : h'[n].of \in D => h'[n].of = h[n].of
      /\ \A n \in D : h'[n].parent \in D => h'[n].parent = h[n].parent
      /\ \A f \in new : /\ h'[f].of \notin D \cup new
                        /\ ToSet(h'[f].args) \cap (D \cup new) = {}
                        /\ h'[f].parent \notin (On \ D) \cup new
      /\ \A n \in D : h'[n].parent \notin new
  BY DEF LinkedApart
<1> DEFINE E == Edges(h, typedefs, On, L)
           E2 == Edges(h', typedefs, On \cup new, L)
           C == Node \ (D \cup new)
<1>1. /\ On \subseteq Node /\ new \subseteq Node /\ new \cap live = {} /\ On \subseteq live
      /\ On \cap Owned(L) = {} /\ new \cap Owned(L) = {} /\ On \cap L = {} /\ new \cap L = {}
  BY DEF Grows, Base, HeapOK, Owned
<1>2. ASSUME NEW x \in Node \cap C, NEW y \in Node \ C, <<x, y>> \in E2
      PROVE  FALSE
  <2>1. x \in On \cup new
    BY <1>0, <1>1, <1>2, OldEdges
  <2>2. x \in On \ D /\ y \in D \cup new
    BY <2>1, <1>2
  <2>3. y = h'[x].of \/ y \in ToSet(h'[x].args) \/ x = h'[y].parent
    BY <1>0, <1>1, <1>2, <2>2, NewEdges
  <2>4. CASE y \in D
    BY <1>0, <2>2, <2>3, <2>4
  <2>5. CASE y \in new
    <3>1. h[x].of # y /\ y \notin ToSet(h[x].args)
      BY <2>2, <2>5, <1>1, NilFacts DEF Base, LinksOK
    <3>. QED
      BY <1>0, <2>2, <2>3, <2>5, <3>1 DEF Builds
  <2>. QED
    BY <2>2, <2>4, <2>5
<1>3. ASSUME NEW x \in Node \cap C, NEW y \in Node \cap C, <<x, y>> \in E2
      PROVE  <<x, y>> \in E
  <2>1. CASE x \notin On
    BY <1>3, <2>1, OldEdges
  <2>2. CASE x \in On
    <3>1. CASE y \in On \cup new /\ (y = h'[x].of \/ y \in ToSet(h'[x].args) \/ x = h'[y].parent)
      <4>1. x \in On \ D /\ y \in On \ D
        BY <1>3, <2>2, <3>1
      <4>2. y = h[x].of \/ y \in ToSet(h[x].args) \/ x = h[y].parent
        BY <1>0, <3>1, <4>1 DEF Builds
      <4>. QED
        BY <1>1, <1>3, <2>2, <4>1, <4>2 DEF Edges
    <3>. QED
      BY <1>3, <2>2, <3>1, NewEdges
  <2>. QED
    BY <2>1, <2>2
<1>4. WellFounded(Node, E)
  BY DEF Base, TableOK
<1>5. ASSUME NEW f \in new, NEW y \in D \cup new, <<f, y>> \in E2
      PROVE  FALSE
  <2>1. y = h'[f].of \/ y \in ToSet(h'[f].args) \/ f = h'[y].parent
    BY <1>0, <1>1, <1>5, NewEdges
  <2>. QED
    BY <1>0, <2>1
<1>6. ASSUME NEW x \in D, NEW y \in D, <<x, y>> \in E2
      PROVE  <<x, y>> \in E
  <2>1. \/ y = h'[x].of \/ y \in ToSet(h'[x].args) \/ x = h'[y].parent
        \/ <<x, y>> \in E
    BY <1>0, <1>6, NewEdges
  <2>2. CASE y = h'[x].of \/ y \in ToSet(h'[x].args) \/ x = h'[y].parent
    <3>1. y = h[x].of \/ y \in ToSet(h[x].args) \/ x = h[y].parent
      BY <1>0, <2>2, <1>6 DEF Builds
    <3>. QED
      BY <1>0, <1>1, <1>6, <3>1 DEF Edges
  <2>. QED
    BY <2>1, <2>2
<1>7. WellFounded(Node \ C, E2)
  <2>1. SUFFICES ASSUME NEW S \in SUBSET (Node \ C), S # {}
                 PROVE  \E m \in S : \A n \in S : <<m, n>> \notin E2
    BY DEF WellFounded
  <2>2. S \subseteq D \cup new
    BY <1>1
  <2>3. CASE S \cap new # {}
    BY <1>5, <2>2, <2>3
  <2>4. CASE S \cap new = {}
    <3>1. S \in SUBSET Node /\ S \subseteq D
      BY <2>2, <2>4
    <3>2. PICK m \in S : \A n \in S : <<m, n>> \notin E
      BY <1>4, <2>1, <3>1 DEF WellFounded
    <3>. QED
      BY <1>6, <3>1, <3>2
  <2>. QED
    BY <2>3, <2>4
<1>8. WellFounded(Node, E2)
  <2> HIDE DEF E, E2, C
  <2>. QED
    BY <1>2, <1>3, <1>4, <1>7, Split
<1>. QED
  BY <1>8, ProductionBase

\* An array between nodes that were linked, or above b, and its placeholder.
LEMMA NewArray ==
  ASSUME NEW L, NEW G, Base(L, G), phase \notin {"exit", "exited"},
         NEW array, NEW place, Grows({array, place}), Builds({array, place}),
         NEW b \in On, array # place, h'[array].of = b, h'[place].of = NIL,
         h'[array].kind \in ParentKind, h'[place].kind # "typedef",
         h'[array].args = <<>>, h'[place].args = <<>>,
         \A x \in On \cup {array, place} : h'[x].parent # place,
         h'[array].parent # array,
         \A x \in On :
           /\ \/ h'[x].of = h[x].of
              \/ h'[x].of = array /\ (h[x].of = b \/ x = h[b].parent)
           /\ \/ h'[x].parent = h[x].parent
              \/ x = b /\ h'[x].parent = array
              \/ h'[x].parent \in On /\ h[h'[x].parent].of = x,
         \A x \in On : h'[array].parent = x => h[x].of = b \/ x = h[b].parent
  PROVE  Base(L, G)'
<1> DEFINE E == Edges(h, typedefs, On, L)
           E2 == Edges(h', typedefs, On \cup {array, place}, L)
           E1 == {e \in E2 : e[1] # place /\ e[2] # place}
<1>1. /\ array \in Node /\ array \notin live /\ array \notin On /\ array \notin Owned(L)
      /\ place \in Node /\ place \notin live /\ place \notin On /\ place \notin Owned(L)
      /\ On \subseteq Node /\ On \cap L = {} /\ array \notin L /\ place \notin L /\ NIL \notin Node
  BY NilFacts DEF Grows, Base, HeapOK, Owned
<1>2. \A x \in On : /\ h[x].of \in On \cup {NIL} /\ ToSet(h[x].args) \subseteq On
                    /\ h[x].parent \in On \cup {NIL} /\ h'[x].args = h[x].args
  BY DEF Base, LinksOK, Builds
<1>3. ToSet(h'[array].args) = {} /\ ToSet(h'[place].args) = {}
  BY DEF ToSet
<1>4. ASSUME NEW x \in Node, NEW y \in Node, <<x, y>> \in E2
      PROVE  \/ x \notin On \cup {array, place} /\ <<x, y>> \in E /\ y \notin {array, place}
             \/ /\ x \in On \cup {array, place} /\ y \in On \cup {array, place}
                /\ y = h'[x].of \/ y \in ToSet(h'[x].args) \/ x = h'[y].parent
             \/ x \in On \cup {array, place} /\ y \in Owned(L) /\ (x \in On => <<x, y>> \in E)
  BY <1>4, OldEdges, NewEdges
<1>5. ASSUME NEW x \in Node, <<place, x>> \in E2
      PROVE  FALSE
  BY <1>1, <1>2, <1>3, <1>5 DEF Edges
<1>6. ASSUME NEW x \in Node \ {array, place}, NEW y \in Node \ {array, place}, <<x, y>> \in E2
      PROVE  <<x, y>> \in E
  <2>1. SUFFICES ASSUME x \in On, y \in On,
                        y = h'[x].of \/ y \in ToSet(h'[x].args) \/ x = h'[y].parent
                 PROVE  <<x, y>> \in E
    BY <1>4, <1>6
  <2>2. \/ y = h[x].of \/ y \in ToSet(h[x].args) \/ x = h[y].parent
    BY <1>1, <1>2, <2>1
  <2>. QED
    BY <1>1, <2>1, <2>2 DEF Edges
<1>7. ASSUME NEW x \in Node \ {array, place}, <<x, array>> \in E2
      PROVE  x \in On /\ (h[x].of = b \/ x = h[b].parent)
  <2>1. x \in On /\ (array = h'[x].of \/ array \in ToSet(h'[x].args) \/ x = h'[array].parent)
    BY <1>1, <1>4, <1>7
  <2>2. h[x].of # array /\ array \notin ToSet(h'[x].args)
    BY <1>1, <1>2, <2>1
  <2>. QED
    BY <1>1, <2>1, <2>2
<1>8. ASSUME NEW y \in Node \ {array, place}, <<array, y>> \in E2
      PROVE  y = b
  <2>1. h'[array].kind # "typedef"
    BY Kinds
  <2>2. \/ y = h'[array].of
        \/ y \in ToSet(h'[array].args)
        \/ y \in On \cup {array, place} /\ array = h'[y].parent
        \/ h'[array].kind = "typedef"
    BY <1>1, <1>8 DEF Edges
  <2>. QED
    BY <1>1, <1>2, <1>3, <1>8, <2>1, <2>2
<1>9. <<array, array>> \notin E2
  <2>1. h'[array].kind # "typedef"
    BY Kinds
  <2>. QED
    BY <1>1, <1>3, <2>1 DEF Edges
<1>10. ASSUME NEW x \in Node \ {array, place}, NEW y \in Node \ {array, place},
              <<x, array>> \in E2, <<array, y>> \in E2
       PROVE  <<x, y>> \in E
  BY <1>1, <1>7, <1>8, <1>10 DEF Edges
<1>11. WellFounded(Node, E)
  BY DEF Base, TableOK
<1>12. WellFounded(Node, E1)
  <2>1. E1 \subseteq E2 /\ \A e \in E1 : e[1] # place /\ e[2] # place
    OBVIOUS
  <2>2. ASSUME NEW x \in Node \ {array}, NEW y \in Node \ {array}, <<x, y>> \in E1
        PROVE  <<x, y>> \in E
    <3>1. x # place /\ y # place /\ <<x, y>> \in E2
      BY <2>1, <2>2
    <3>. QED
      BY <1>6, <3>1
  <2>3. ASSUME NEW x \in Node \ {array}, NEW y \in Node \ {array},
               <<x, array>> \in E1, <<array, y>> \in E1
        PROVE  <<x, y>> \in E
    <3>1. x # place /\ y # place /\ <<x, array>> \in E2 /\ <<array, y>> \in E2
      BY <2>1, <2>3
    <3>. QED
      BY <1>10, <3>1
  <2>4. <<array, array>> \notin E1
    BY <1>9, <2>1
  <2> HIDE DEF E, E1, E2
  <2>. QED
    BY <1>11, <2>2, <2>3, <2>4, Insert
<1>13. WellFounded(Node, E2)
  <2>1. ASSUME NEW x \in Node \ {place}, NEW y \in Node \ {place}, <<x, y>> \in E2
        PROVE  <<x, y>> \in E1
    BY <2>1
  <2>2. ASSUME NEW x \in Node \ {place}, NEW y \in Node \ {place},
               <<x, place>> \in E2, <<place, y>> \in E2
        PROVE  <<x, y>> \in E1
    BY <1>5, <2>2
  <2>3. <<place, place>> \notin E2
    BY <1>1, <1>5
  <2> HIDE DEF E, E1, E2
  <2>. QED
    BY <1>12, <2>1, <2>2, <2>3, Insert
<1>. QED
  BY <1>13, ProductionBase

-----------------------------------------------------------------------------
(* The value stack.                                                        *)

\* The tags of the values that are on the type stack too.
StackTag == {"type", "nested"} \cup Pointing
GibberishTag == StackTag \cup Declarator \cup {"args"}
EnglishTag == {"decl", "ref", "list", "void"}

\* How the sets of tags are apart.
LEMMA Tags ==
  /\ "type" \in StackTag /\ "nested" \in StackTag /\ Pointing \subseteq StackTag
  /\ "type" \notin Pointing /\ "nested" \notin Pointing /\ "type" # "nested"
  /\ "args" \notin StackTag /\ "args" \notin Declarator
  /\ Declarator \cap StackTag = {} /\ "decl" \in Declarator /\ "decl2" \in Declarator
  /\ "type" \notin Declarator /\ "nested" \notin Declarator /\ "args" # "type"
  BY Zenon DEF StackTag, Declarator, Pointing, References

\* What is on the type stack is a type, a '(' or a pointer.
LEMMA StackTags == \A tag \in StackTag : tag = "type" \/ tag = "nested" \/ tag \in Pointing
  BY DEF StackTag

\* No command is both English and gibberish.
LEMMA LanguagesDiffer == English \cap Gibberish = {}
  BY Zenon DEF English, Gibberish

N == Len(values)
Stacked(i) == values[i].tag \in StackTag

\* What is on the value stack.
IsValue(v) ==
  v = [tag |-> v.tag, ast |-> v.ast, target |-> v.target, list |-> v.list,
       ops |-> v.ops, proper |-> v.proper]

ValuesOK == \E VS : values \in Seq(VS) /\ \A v \in VS : IsValue(v) /\ v.list \in Seq(Node)

\* The m values at the bottom stay, with v on them.
Above(m, v) ==
  /\ ValuesOK'
  /\ m \in 0..N /\ Len(values') = m + 1 /\ values'[m + 1] = v
  /\ \A i \in 1..m : values'[i] = values[i]

\* Replacing k values leaves the others, with v on them.
LEMMA ReplaceAbove ==
  ASSUME ValuesOK, NEW k \in 0..N, NEW v, IsValue(v), v.list \in Seq(Node),
         values' = Replace(k, v)
  PROVE  Above(N - k, v)
<1>1. PICK VS : values \in Seq(VS) /\ \A w \in VS : IsValue(w) /\ w.list \in Seq(Node)
  BY DEF ValuesOK
<1> DEFINE m == N - k
           low == SubSeq(values, 1, m)
           VS2 == VS \cup {v}
<1>2. m \in 0..N /\ N \in Nat
  BY <1>1 DEF N
<1>3. low \in Seq(VS) /\ Len(low) = m /\ \A i \in 1..m : low[i] = values[i]
  <2>1. CASE m = 0
    <3>1. low = <<>>
      BY <1>1, <1>2, <2>1
    <3>. QED
      BY <2>1, <3>1
  <2>2. CASE m # 0
    <3>1. 1 \in 1..N + 1 /\ m \in 0..N /\ m \in 1..N
      BY <1>2, <2>2
    <3>2. \A i \in 1..m : i \in 1..N
      BY <1>2
    <3>. QED
      BY <1>1, <1>2, <3>1, <3>2 DEF N
  <2>. QED
    BY <2>1, <2>2
<1>4. values' = Append(low, v)
  BY <1>2 DEF Replace, N
<1> HIDE DEF low
<1>5. low \in Seq(VS2) /\ v \in VS2
  BY <1>3
<1>6. /\ values' \in Seq(VS2) /\ Len(values') = m + 1 /\ values'[m + 1] = v
      /\ \A i \in 1..m : values'[i] = low[i]
  BY <1>2, <1>3, <1>4, <1>5
<1>7. ValuesOK'
  <2>1. \A w \in VS2 : IsValue(w) /\ w.list \in Seq(Node)
    BY <1>1
  <2>. QED
    BY <1>6, <2>1 DEF ValuesOK
<1>. QED
  BY <1>2, <1>3, <1>6, <1>7 DEF Above

\* Pushing a value leaves all the others.
LEMMA AppendAbove ==
  ASSUME ValuesOK, NEW v, IsValue(v), v.list \in Seq(Node), values' = Append(values, v)
  PROVE  Above(N, v)
<1>1. PICK VS : values \in Seq(VS) /\ \A w \in VS : IsValue(w) /\ w.list \in Seq(Node)
  BY DEF ValuesOK
<1> DEFINE VS2 == VS \cup {v}
<1>2. values \in Seq(VS2) /\ v \in VS2 /\ N \in Nat
  BY <1>1 DEF N
<1>3. /\ values' \in Seq(VS2) /\ Len(values') = N + 1 /\ values'[N + 1] = v
      /\ \A i \in 1..N : values'[i] = values[i]
  BY <1>2 DEF N
<1>4. ValuesOK'
  <2>1. \A w \in VS2 : IsValue(w) /\ w.list \in Seq(Node)
    BY <1>1
  <2>. QED
    BY <1>3, <2>1 DEF ValuesOK
<1>. QED
  BY <1>2, <1>3, <1>4 DEF Above

\* What is known of a value on the stack.
LEMMA ValueAt ==
  ASSUME ValuesOK, NEW i \in 1..N
  PROVE  /\ IsValue(values[i]) /\ values[i].list \in Seq(Node) /\ N \in Nat
         /\ values # <<>>
  BY DEF ValuesOK, N

\* The fields of a new value.
LEMMA ValueFields ==
  ASSUME NEW tag, NEW n
  PROVE  /\ IsValue(Value(tag, n)) /\ Value(tag, n).tag = tag /\ Value(tag, n).ast = n
         /\ Value(tag, n).target = NIL /\ Value(tag, n).list = <<>>
         /\ Value(tag, n).ops = <<>> /\ <<>> \in Seq(Node)
  BY DEF Value, IsValue

-----------------------------------------------------------------------------
(* Lists.  cl puts each node of the list of nodes into a class, those it is *)
(* linked to into the same; vc is the class of the nodes of each value.     *)

\* Links stay within a class.
Chained(cl) ==
  \A n \in On : /\ h[n].of # NIL => cl[h[n].of] = cl[n]
                /\ h[n].parent # NIL => cl[h[n].parent] = cl[n]

\* The classes of the nodes of a list, and that each is of its own.
Classes(cl, s) == {cl[s[i]] : i \in DOMAIN s}
Distinct(cl, s) == \A i, j \in DOMAIN s : cl[s[i]] = cl[s[j]] => i = j

\* The nodes of the lists are of different classes, and of none of a value's.
Lists(cl, vc) ==
  /\ \A p \in 1..N : ToSet(values[p].list) \subseteq On /\ Distinct(cl, values[p].list)
  /\ \A n \in On : Distinct(cl, h[n].args)
  /\ \A m, n \in On : m # n => Classes(cl, h[m].args) \cap Classes(cl, h[n].args) = {}
  /\ \A p, q \in 1..N : p # q => Classes(cl, values[p].list) \cap Classes(cl, values[q].list) = {}
  /\ \A n \in On, p \in 1..N : Classes(cl, h[n].args) \cap Classes(cl, values[p].list) = {}
  /\ \A n \in On, q \in 1..N : vc[q] \notin Classes(cl, h[n].args)
  /\ \A p, q \in 1..N : vc[q] \notin Classes(cl, values[p].list)

\* An empty list has no classes.
LEMMA NoClasses == \A cl : Classes(cl, <<>>) = {} /\ Distinct(cl, <<>>) /\ ToSet(<<>>) = {}
  BY DEF Classes, Distinct, ToSet

\* Classes that agree on a list make no difference to it.
LEMMA ClassesSame ==
  ASSUME NEW cl, NEW cl2, NEW s, \A i \in DOMAIN s : cl2[s[i]] = cl[s[i]]
  PROVE  Classes(cl2, s) = Classes(cl, s) /\ (Distinct(cl, s) => Distinct(cl2, s))
  BY DEF Classes, Distinct

\* Appending a node adds its class.
LEMMA ClassesAppend ==
  ASSUME NEW cl, NEW s \in Seq(Node), NEW a \in Node
  PROVE  /\ Classes(cl, Append(s, a)) = Classes(cl, s) \cup {cl[a]}
         /\ ToSet(Append(s, a)) = ToSet(s) \cup {a}
         /\ Distinct(cl, s) /\ cl[a] \notin Classes(cl, s) => Distinct(cl, Append(s, a))
<1> DEFINE t == Append(s, a)
           n == Len(s)
<1>1. /\ n \in Nat /\ DOMAIN s = 1..n /\ DOMAIN t = 1..n + 1 /\ t[n + 1] = a
      /\ \A i \in 1..n : t[i] = s[i]
  OBVIOUS
<1>2. \A i \in 1..n + 1 : i \in 1..n \/ i = n + 1
  BY <1>1
<1>3. 1..n \subseteq 1..n + 1 /\ n + 1 \in 1..n + 1 /\ n + 1 \notin 1..n
  BY <1>1
<1> HIDE DEF t, n
<1>4. Classes(cl, t) = Classes(cl, s) \cup {cl[a]}
  BY <1>1, <1>2, <1>3 DEF Classes
<1>5. ToSet(t) = ToSet(s) \cup {a}
  BY <1>1, <1>2, <1>3 DEF ToSet
<1>6. Distinct(cl, s) /\ cl[a] \notin Classes(cl, s) => Distinct(cl, t)
  BY <1>1, <1>2, <1>3 DEF Distinct, Classes
<1>. QED
  BY <1>4, <1>5, <1>6 DEF t

\* Nothing is listed, or the list of a value becomes that of another or of a new
\* node.
Moved(cl, vc, cl2, vc2, m, v, new, k, f) ==
  /\ ToSet(gc') = On \cup new /\ new \cap On = {}
  /\ \A n \in On : h'[n].args = h[n].args /\ ToSet(h[n].args) \subseteq On
  /\ \A n \in On : cl2[n] = cl[n] \/ \E q \in 1..N : vc[q] = cl[n]
  /\ \A q \in 1..m + 1 : (\E p \in 1..N : vc2[q] = vc[p]) \/ \A n \in On : cl[n] # vc2[q]
  /\ k \in m + 1..N + 1
  /\ \A n \in new : h'[n].args = <<>> \/ (n = f /\ k <= N /\ h'[n].args = values[k].list)
  /\ v.list = <<>> \/ (f \notin new /\ k <= N /\ v.list = values[k].list)

\* The lists stay of different classes when one changes its place.
LEMMA ListsMoved ==
  ASSUME NEW cl, NEW vc, Lists(cl, vc), NEW cl2, NEW vc2, NEW m, NEW v, Above(m, v),
         N \in Nat, NEW new, NEW k, NEW f, Moved(cl, vc, cl2, vc2, m, v, new, k, f)
  PROVE  Lists(cl2, vc2)'
<1> USE DEF Moved
<1>1. /\ N' = m + 1 /\ m \in 0..N /\ On' = On \cup new
      /\ \A i \in 1..m + 1 : i # m + 1 => i \in 1..N /\ i # k /\ values'[i] = values[i]
      /\ values'[m + 1] = v
  BY DEF Above, N, On
<1>2. ASSUME NEW n \in On
      PROVE  /\ Classes(cl2, h'[n].args) = Classes(cl, h[n].args)
             /\ Distinct(cl2, h'[n].args)
             /\ \A q \in 1..m + 1 : vc2[q] \notin Classes(cl, h[n].args)
  <2>1. \A i \in DOMAIN h[n].args : /\ h[n].args[i] \in On
                                    /\ \A q \in 1..N : vc[q] # cl[h[n].args[i]]
    BY DEF Lists, Classes, ToSet
  <2>2. \A i \in DOMAIN h[n].args : cl2[h[n].args[i]] = cl[h[n].args[i]]
    BY <2>1
  <2>3. Distinct(cl, h[n].args)
    BY DEF Lists
  <2>4. \A q \in 1..m + 1 : vc2[q] \notin Classes(cl, h[n].args)
    BY <2>1 DEF Classes
  <2>5. Classes(cl2, h[n].args) = Classes(cl, h[n].args) /\ Distinct(cl2, h[n].args)
    BY <2>2, <2>3, ClassesSame
  <2>6. h'[n].args = h[n].args
    OBVIOUS
  <2>. QED
    BY <2>4, <2>5, <2>6
<1>3. ASSUME NEW p \in 1..N
      PROVE  /\ Classes(cl2, values[p].list) = Classes(cl, values[p].list)
             /\ Distinct(cl2, values[p].list)
             /\ \A q \in 1..m + 1 : vc2[q] \notin Classes(cl, values[p].list)
             /\ ToSet(values[p].list) \subseteq On
  <2>0. ToSet(values[p].list) \subseteq On /\ Distinct(cl, values[p].list)
    BY DEF Lists
  <2>1. \A i \in DOMAIN values[p].list : /\ values[p].list[i] \in On
                                    /\ \A q \in 1..N : vc[q] # cl[values[p].list[i]]
    BY <2>0 DEF Lists, Classes, ToSet
  <2>2. \A i \in DOMAIN values[p].list : cl2[values[p].list[i]] = cl[values[p].list[i]]
    BY <2>1
  <2>4. \A q \in 1..m + 1 : vc2[q] \notin Classes(cl, values[p].list)
    BY <2>1 DEF Classes
  <2>. QED
    BY <2>0, <2>2, <2>4, ClassesSame
<1> DEFINE NC(n) == Classes(cl2, h'[n].args)
           VC(p) == Classes(cl2, values'[p].list)
<1>4. \A n \in new : \/ h'[n].args = <<>> /\ NC(n) = {}
                     \/ n = f /\ k \in 1..N /\ h'[n].args = values[k].list
  BY <1>1, NoClasses
<1>5. \/ v.list = <<>> /\ VC(m + 1) = {}
      \/ f \notin new /\ k \in 1..N /\ v.list = values[k].list
  BY <1>1, NoClasses
<1>6. \A p \in 1..m + 1 : /\ ToSet(values'[p].list) \subseteq On'
                          /\ Distinct(cl2, values'[p].list)
                          /\ \A q \in 1..m + 1 : vc2[q] \notin VC(p)
  BY <1>1, <1>3, <1>5, NoClasses
<1>7. \A n \in On' : /\ Distinct(cl2, h'[n].args)
                     /\ \A q \in 1..m + 1 : vc2[q] \notin NC(n)
  BY <1>1, <1>2, <1>3, <1>4, NoClasses
<1>8. \A n \in On : NC(n) = Classes(cl, h[n].args)
  BY <1>2
<1>9. \A p \in 1..m : VC(p) = Classes(cl, values[p].list)
  BY <1>1, <1>3
<1>10. \A n \in new : NC(n) = {} \/ (n = f /\ k \in 1..N /\ NC(n) = Classes(cl, values[k].list))
  BY <1>3, <1>4
<1>11. \/ VC(m + 1) = {}
       \/ f \notin new /\ k \in 1..N /\ VC(m + 1) = Classes(cl, values[k].list)
  BY <1>1, <1>3, <1>5
<1>12. \A i \in 1..m + 1 : i \in 1..m \/ i = m + 1
  BY <1>1
<1>13. k \notin 1..m /\ 1..m \subseteq 1..N
  BY <1>1
<1> HIDE DEF NC, VC
<1>14. \A n1, n2 \in On' : n1 # n2 => NC(n1) \cap NC(n2) = {}
  <2>1. \A n1, n2 \in On : n1 # n2 => NC(n1) \cap NC(n2) = {}
    BY <1>8 DEF Lists
  <2>2. \A n1 \in On, n2 \in new : NC(n1) \cap NC(n2) = {}
    BY <1>8, <1>10 DEF Lists
  <2>3. \A n1, n2 \in new : n1 # n2 => NC(n1) \cap NC(n2) = {}
    BY <1>10
  <2>. QED
    BY <1>1, <2>1, <2>2, <2>3
<1>15. \A p, q \in 1..m + 1 : p # q => VC(p) \cap VC(q) = {}
  <2>1. \A p, q \in 1..m : p # q => VC(p) \cap VC(q) = {}
    BY <1>9, <1>13 DEF Lists
  <2>2. \A p \in 1..m : VC(p) \cap VC(m + 1) = {}
    BY <1>9, <1>11, <1>13 DEF Lists
  <2>. QED
    BY <1>12, <2>1, <2>2
<1>16. \A n \in On', p \in 1..m + 1 : NC(n) \cap VC(p) = {}
  <2>1. \A n \in On, p \in 1..m : NC(n) \cap VC(p) = {}
    BY <1>8, <1>9, <1>13 DEF Lists
  <2>2. \A n \in On : NC(n) \cap VC(m + 1) = {}
    BY <1>8, <1>11 DEF Lists
  <2>3. \A n \in new, p \in 1..m : NC(n) \cap VC(p) = {}
    BY <1>9, <1>10, <1>13 DEF Lists
  <2>4. \A n \in new : NC(n) \cap VC(m + 1) = {}
    BY <1>10, <1>11
  <2>. QED
    BY <1>1, <1>12, <2>1, <2>2, <2>3, <2>4
<1>. QED
  BY <1>1, <1>6, <1>7, <1>14, <1>15, <1>16 DEF Lists, NC, VC

\* A node of a value is put on the list of a value.
Appended(cl, vc, vc2, m, v, s, a) ==
  /\ \A n \in On : h'[n].args = h[n].args
  /\ \A n \in On : ToSet(h[n].args) \subseteq On
  /\ \A q \in 1..m + 1 : (\E p \in 1..N : vc2[q] = vc[p]) \/ \A n \in On : cl[n] # vc2[q]
  /\ v.list = Append(s, a)
  /\ s = <<>> \/ \E k \in m + 1..N : s = values[k].list
  /\ \E p \in 1..N : vc[p] = cl[a]
  /\ \A q \in 1..m + 1 : vc2[q] # cl[a]

\* So they do when a node of a value of another class is put on one.
LEMMA ListsAppended ==
  ASSUME NEW cl, NEW vc, Lists(cl, vc), NEW vc2, NEW m, NEW v, Above(m, v),
         On' = On, On \subseteq Node, N \in Nat, NEW s \in Seq(Node), NEW a \in On,
         Appended(cl, vc, vc2, m, v, s, a)
  PROVE  Lists(cl, vc2)'
<1> USE DEF Appended
<1>1. /\ N' = m + 1 /\ m \in 0..N
      /\ \A i \in 1..m : i \in 1..N /\ values'[i] = values[i]
      /\ values'[m + 1] = v
  BY DEF Above, N
<1> DEFINE NC(n) == Classes(cl, h[n].args)
           VC(p) == Classes(cl, values[p].list)
           S == Classes(cl, s)
           VC2(p) == Classes(cl, values'[p].list)
<1>2. /\ S \cap {cl[a]} = {} /\ Distinct(cl, s) /\ ToSet(s) \subseteq On
      /\ \A n \in On : NC(n) \cap S = {} /\ cl[a] \notin NC(n)
      /\ \A p \in 1..m : VC(p) \cap S = {} /\ cl[a] \notin VC(p)
      /\ \A q \in 1..N : vc[q] \notin S
  <2>1. PICK p0 \in 1..N : vc[p0] = cl[a]
    OBVIOUS
  <2>2. /\ \A n \in On : cl[a] \notin NC(n)
        /\ \A p \in 1..N : cl[a] \notin VC(p)
    BY <2>1 DEF Lists
  <2>3. CASE s = <<>>
    <3>1. S = {} /\ Distinct(cl, s) /\ ToSet(s) = {}
      BY <2>3, NoClasses
    <3>. QED
      BY <1>1, <2>2, <3>1
  <2>4. CASE \E k \in m + 1..N : s = values[k].list
    <3>1. PICK k \in m + 1..N : s = values[k].list
      BY <2>4
    <3>2. k \in 1..N /\ S = VC(k) /\ \A p \in 1..m : p # k /\ p \in 1..N
      BY <1>1, <3>1
    <3> HIDE DEF S, VC, NC
    <3>3. Distinct(cl, s) /\ ToSet(s) \subseteq On
      BY <3>1, <3>2 DEF Lists
    <3>4. (\A n \in On : NC(n) \cap S = {}) /\ \A p \in 1..m : VC(p) \cap S = {}
      BY <3>2 DEF Lists, NC, VC
    <3>5. \A q \in 1..N : vc[q] \notin S
      BY <3>2 DEF Lists, VC
    <3>. QED
      BY <2>2, <3>2, <3>3, <3>4, <3>5
  <2>. QED
    BY <2>3, <2>4
<1>3. /\ VC2(m + 1) = S \cup {cl[a]} /\ Distinct(cl, v.list) /\ ToSet(v.list) \subseteq On
  <2>1. a \in Node
    OBVIOUS
  <2>2. /\ Classes(cl, Append(s, a)) = S \cup {cl[a]}
        /\ ToSet(Append(s, a)) = ToSet(s) \cup {a}
        /\ Distinct(cl, s) /\ cl[a] \notin S => Distinct(cl, Append(s, a))
    BY <2>1, ClassesAppend
  <2>3. values'[m + 1].list = Append(s, a)
    BY <1>1
  <2> HIDE DEF S
  <2>. QED
    BY <1>1, <1>2, <2>2, <2>3
<1>4. \A p \in 1..m : VC2(p) = VC(p) /\ values'[p] = values[p]
  BY <1>1
<1>5. \A i \in 1..m + 1 : i \in 1..m \/ i = m + 1
  BY <1>1
<1>6. ASSUME NEW c, \A q \in 1..N : vc[q] # c, \E n \in On : c = cl[n], NEW q \in 1..m + 1
      PROVE  vc2[q] # c
  BY <1>6
<1>7. \A n \in On, q \in 1..m + 1 : vc2[q] \notin NC(n)
  <2>1. \A n \in On : \A c \in NC(n) : /\ \A q \in 1..N : vc[q] # c
                                       /\ \E x \in On : c = cl[x]
    <3>1. \A n \in On : \A c \in NC(n) : \A q \in 1..N : vc[q] # c
      BY DEF Lists
    <3>2. \A n \in On : \A c \in NC(n) : \E x \in On : c = cl[x]
      BY DEF Classes, ToSet
    <3>. QED
      BY <3>1, <3>2
  <2> HIDE DEF NC
  <2>. QED
    BY <1>6, <2>1
<1>8. \A p, q \in 1..m + 1 : vc2[q] \notin VC2(p)
  <2>1. \A c \in S : (\A q \in 1..N : vc[q] # c) /\ \E x \in On : c = cl[x]
    <3>1. \A c \in S : \E x \in On : c = cl[x]
      BY <1>2 DEF Classes, ToSet
    <3>. QED
      BY <1>2, <3>1
  <2>2. \A p \in 1..m : \A c \in VC(p) : (\A q \in 1..N : vc[q] # c) /\ \E x \in On : c = cl[x]
    <3>1. \A p \in 1..m : \A c \in VC(p) : \A q \in 1..N : vc[q] # c
      BY <1>1 DEF Lists
    <3>2. \A p \in 1..m : ToSet(values[p].list) \subseteq On
      BY <1>1 DEF Lists
    <3>3. \A p \in 1..m : \A c \in VC(p) : \E x \in On : c = cl[x]
      BY <3>2 DEF Classes, ToSet
    <3>. QED
      BY <3>1, <3>3
  <2> HIDE DEF VC, VC2, S
  <2>3. \A q \in 1..m + 1 : vc2[q] \notin S
    BY <1>6, <2>1
  <2>4. \A p \in 1..m : \A q \in 1..m + 1 : vc2[q] \notin VC(p)
    BY <1>6, <2>2
  <2>. QED
    BY <1>3, <1>4, <1>5, <2>3, <2>4
<1>9. \A p \in 1..m + 1 : ToSet(values'[p].list) \subseteq On /\ Distinct(cl, values'[p].list)
  <2>1. \A p \in 1..m : ToSet(values[p].list) \subseteq On /\ Distinct(cl, values[p].list)
    BY <1>1 DEF Lists
  <2>. QED
    BY <1>1, <1>3, <1>4, <1>5, <2>1
<1>10. \A p, q \in 1..m + 1 : p # q => VC2(p) \cap VC2(q) = {}
  <2>1. \A p, q \in 1..m : p # q => VC(p) \cap VC(q) = {}
    BY <1>1 DEF Lists
  <2> HIDE DEF VC, VC2, S
  <2>2. \A p \in 1..m : VC(p) \cap VC2(m + 1) = {}
    BY <1>2, <1>3
  <2>. QED
    BY <1>4, <1>5, <2>1, <2>2
<1>11. \A n \in On, p \in 1..m + 1 : NC(n) \cap VC2(p) = {}
  <2>1. \A n \in On, p \in 1..m : NC(n) \cap VC(p) = {}
    BY <1>1 DEF Lists
  <2> HIDE DEF VC, VC2, S, NC
  <2>2. \A n \in On : NC(n) \cap VC2(m + 1) = {}
    BY <1>2, <1>3
  <2>. QED
    BY <1>4, <1>5, <2>1, <2>2
<1>12. /\ \A n \in On : Distinct(cl, h'[n].args) /\ Classes(cl, h'[n].args) = NC(n)
       /\ \A n1, n2 \in On : n1 # n2 => NC(n1) \cap NC(n2) = {}
  BY DEF Lists
<1>. QED
  BY <1>1, <1>7, <1>8, <1>9, <1>10, <1>11, <1>12 DEF Lists

-----------------------------------------------------------------------------
(* The values of a gibberish command.                                      *)

\* b may be on a.
Follows(a, b) ==
  /\ (b = "type") <=> (a = "args")
  /\ b \in StackTag \cup Declarator => b = "type" \/ a \in StackTag
  /\ b = "args" => a = "decl2"

\* What of a command may have been parsed.
Grammar ==
  \A i \in 1..N : /\ values[i].tag \in GibberishTag
                  /\ i = 1 => values[i].tag = "type"
                  /\ i > 1 => Follows(values[i - 1].tag, values[i].tag)

\* The values since the last argument list was opened are of one class.
Levels(cl, vc) ==
  \A i \in 1..N :
    /\ values[i].ast # NIL => values[i].ast \in On /\ cl[values[i].ast] = vc[i]
    /\ values[i].target # NIL => values[i].target \in On /\ cl[values[i].target] = vc[i]
    /\ Stacked(i) => values[i].ast # NIL
    /\ values[i].tag = "args" => values[i].ast = NIL /\ values[i].target = NIL
    /\ values[i].tag # "args" => values[i].list = <<>>
    /\ i > 1 /\ values[i].tag # "type" => vc[i] = vc[i - 1]
    /\ \A j \in 1..i - 1 :
         values[i].tag = "type" \/ values[j].tag = "args" => vc[j] # vc[i]

\* ix says where each type of the type stack is on the value stack.
Indexed(ix) ==
  /\ typeStack \in Seq(Node) /\ ix \in Seq(Nat) /\ Len(ix) = Len(typeStack)
  /\ \A k \in 1..Len(ix) :
       ix[k] \in 1..N /\ Stacked(ix[k]) /\ typeStack[k] = values[ix[k]].ast
  /\ \A k, l \in 1..Len(ix) : k < l => ix[k] > ix[l]
  /\ \A i \in 1..N : Stacked(i) => \E k \in 1..Len(ix) : ix[k] = i

\* Their nodes: only what follows one is linked to it.
Spine ==
  \A i \in 1..N :
    LET tag == values[i].tag
        n == values[i].ast
    IN  /\ \A j \in 1..N : Stacked(i) /\ Stacked(j) /\ values[j].ast = n => i = j
        /\ tag = "type" => h[n].kind \in {"builtin", "typedef"}
        /\ tag = "nested" => h[n].kind = "placeholder"
        /\ tag \in Pointing => /\ h[n].kind = tag /\ h[n].of = values[i - 1].ast
                               /\ h[values[i - 1].ast].parent = n
        /\ \A c \in On : Stacked(i) /\ h[c].parent = n =>
             tag \in Pointing /\ c = values[i - 1].ast
        /\ \A c \in On : Stacked(i) /\ h[c].of = n =>
             /\ i < N
             /\ \/ values[i + 1].tag \in Declarator
                \/ values[i + 1].tag \in Pointing /\ c = values[i + 1].ast
        /\ tag \in Declarator => \A j \in 1..N :
             Stacked(j) /\ values[j].ast \in {n, values[i].target} => j = i - 1

\* A derived type is of something, and what something is of has a parent.
Filled ==
  \A n \in On : /\ h[n].of # NIL => h[h[n].of].parent # NIL
                /\ h[n].kind \in ParentKind => h[n].of # NIL

\* How nested within () the declarator after a value is.
Depth(i) == h[values[i].ast].depth + (IF values[i].tag = "nested" THEN 1 ELSE 0)

\* No value is nested deeper than the parser is, nor than one on it.
Depths ==
  \A i \in 1..N : Stacked(i) =>
    /\ Depth(i) <= ast_depth
    /\ \A j \in 1..i - 1 : Stacked(j) => Depth(j) <= h[values[i].ast].depth

CastFirst == command = "explain cast"

\* The type at the bottom is the node created first, and a declarator without a
\* node is that of a cast or an argument.
Bottom ==
  /\ IF values = <<>> THEN gc = <<>> ELSE gc # <<>> /\ values[1].ast = gc[Len(gc)]
  /\ \A i \in 1..N : values[i].tag \in Declarator /\ values[i].ast = NIL =>
       CastFirst \/ \E j \in 1..i - 1 : values[j].tag = "args"

\* The values of a gibberish command.
Gib(cl, vc, ix) ==
  Grammar /\ Levels(cl, vc) /\ Indexed(ix) /\ Spine /\ Filled /\ Depths /\ Bottom

\* The values after v was put on m of them, one by one.
LEMMA AboveFacts ==
  ASSUME N \in Nat, NEW m, NEW v, Above(m, v)
  PROVE  /\ N' = m + 1 /\ m \in 0..N /\ m \in Nat /\ values'[m + 1] = v /\ m + 1 \in 1..m + 1
         /\ \A i \in 1..m + 1 : (i \in 1..m /\ i \in 1..N /\ values'[i] = values[i]) \/ i = m + 1
         /\ \A i \in 1..m : i \in 1..m + 1 /\ i \in 1..N /\ values'[i] = values[i]
         /\ (m + 1) - 1 = m /\ m + 1 \notin 1..m
  BY DEF Above, N

\* What may be on what.
LEMMA GrammarAbove ==
  ASSUME N \in Nat, Grammar, NEW m, NEW v, Above(m, v), v.tag \in GibberishTag,
         m = 0 => v.tag = "type", m > 0 => Follows(values[m].tag, v.tag)
  PROVE  Grammar'
<1>1. /\ N' = m + 1 /\ m \in 0..N /\ m \in Nat /\ values'[m + 1] = v
      /\ \A i \in 1..m + 1 : (i \in 1..m /\ i \in 1..N /\ values'[i] = values[i]) \/ i = m + 1
  BY AboveFacts
<1>2. SUFFICES ASSUME NEW i \in 1..m + 1
               PROVE  /\ values'[i].tag \in GibberishTag
                      /\ i = 1 => values'[i].tag = "type"
                      /\ i > 1 => Follows(values'[i - 1].tag, values'[i].tag)
  BY <1>1 DEF Grammar
<1>3. CASE i = m + 1
  <2>1. m > 0 => m \in 1..m /\ values'[m] = values[m] /\ (m + 1) - 1 = m
    BY <1>1
  <2>. QED
    BY <1>1, <1>3, <2>1
<1>4. CASE i # m + 1
  <2>1. i \in 1..m /\ i \in 1..N /\ values'[i] = values[i]
    BY <1>1, <1>4
  <2>2. i > 1 => i - 1 \in 1..m + 1 /\ i - 1 # m + 1
    BY <1>1, <2>1
  <2>3. i > 1 => values'[i - 1] = values[i - 1]
    BY <1>1, <2>2
  <2>. QED
    BY <2>1, <2>3 DEF Grammar
<1>. QED
  BY <1>3, <1>4

\* The classes of the values.
LEMMA LevelsAbove ==
  ASSUME N \in Nat, NEW cl, NEW vc, Levels(cl, vc), NEW m, NEW v, Above(m, v),
         On \subseteq On', NEW cl2, \A n \in On : cl2[n] = cl[n],
         NEW vc2, \A i \in 1..m : vc2[i] = vc[i],
         v.ast # NIL => v.ast \in On' /\ cl2[v.ast] = vc2[m + 1],
         v.target # NIL => v.target \in On' /\ cl2[v.target] = vc2[m + 1],
         v.tag \in StackTag => v.ast # NIL,
         v.tag = "args" => v.ast = NIL /\ v.target = NIL,
         v.tag # "args" => v.list = <<>>,
         m > 0 /\ v.tag # "type" => vc2[m + 1] = vc[m],
         \A j \in 1..m : v.tag = "type" \/ values[j].tag = "args" => vc[j] # vc2[m + 1]
  PROVE  Levels(cl2, vc2)'
<1>1. /\ N' = m + 1 /\ m \in 0..N /\ m \in Nat /\ values'[m + 1] = v
      /\ \A i \in 1..m + 1 : (i \in 1..m /\ i \in 1..N /\ values'[i] = values[i]) \/ i = m + 1
      /\ (m + 1) - 1 = m
  BY AboveFacts
<1>2. SUFFICES ASSUME NEW i \in 1..m + 1
               PROVE
    /\ values'[i].ast # NIL => values'[i].ast \in On' /\ cl2[values'[i].ast] = vc2[i]
    /\ values'[i].target # NIL => values'[i].target \in On' /\ cl2[values'[i].target] = vc2[i]
    /\ Stacked(i)' => values'[i].ast # NIL
    /\ values'[i].tag = "args" => values'[i].ast = NIL /\ values'[i].target = NIL
    /\ values'[i].tag # "args" => values'[i].list = <<>>
    /\ i > 1 /\ values'[i].tag # "type" => vc2[i] = vc2[i - 1]
    /\ \A j \in 1..i - 1 :
         values'[i].tag = "type" \/ values'[j].tag = "args" => vc2[j] # vc2[i]
  BY <1>1 DEF Levels
<1>3. CASE i = m + 1
  <2>1. \A j \in 1..m : j \in 1..m + 1 /\ j # m + 1
    BY <1>1
  <2>2. m + 1 > 1 => m > 0 /\ m \in 1..m
    BY <1>1
  <2>. QED
    BY <1>1, <1>3, <2>1, <2>2 DEF Stacked
<1>4. CASE i # m + 1
  <2>1. i \in 1..m /\ i \in 1..N /\ values'[i] = values[i]
    BY <1>1, <1>4
  <2>2. i > 1 => i - 1 \in 1..m
    BY <1>1, <2>1
  <2>3. \A j \in 1..i - 1 : j \in 1..m /\ values'[j] = values[j]
    BY <1>1, <2>1
  <2>. QED
    BY <2>1, <2>2, <2>3 DEF Levels, Stacked
<1>. QED
  BY <1>3, <1>4

\* The type stack, when none of its values goes.
LEMMA IndexedSame ==
  ASSUME N \in Nat, NEW ix, Indexed(ix), NEW m, NEW v, Above(m, v), typeStack' = typeStack,
         \A i \in m + 1..N : ~Stacked(i), v.tag \notin StackTag
  PROVE  Indexed(ix)'
<1>1. /\ N' = m + 1 /\ m \in 0..N /\ m \in Nat /\ values'[m + 1] = v
      /\ \A i \in 1..m + 1 : (i \in 1..m /\ i \in 1..N /\ values'[i] = values[i]) \/ i = m + 1
  BY AboveFacts
<1>2. ASSUME NEW k \in 1..Len(ix)
      PROVE  /\ ix[k] \in 1..m + 1 /\ Stacked(ix[k])' /\ typeStack'[k] = values'[ix[k]].ast
  <2>1. ix[k] \in 1..N /\ Stacked(ix[k]) /\ typeStack[k] = values[ix[k]].ast
    BY DEF Indexed
  <2>2. ix[k] \in 1..m
    BY <1>1, <2>1
  <2>. QED
    BY <1>1, <2>1, <2>2 DEF Stacked
<1>3. ASSUME NEW i \in 1..m + 1, Stacked(i)'
      PROVE  \E k \in 1..Len(ix) : ix[k] = i
  <2>1. i \in 1..N /\ Stacked(i)
    BY <1>1, <1>3 DEF Stacked
  <2>. QED
    BY <2>1 DEF Indexed
<1>. QED
  BY <1>1, <1>2, <1>3 DEF Indexed

\* The top of the type stack is the last of its values on the value stack.
LEMMA TopIndex ==
  ASSUME N \in Nat, NEW ix, Indexed(ix), NEW s \in 1..N, Stacked(s),
         \A i \in s + 1..N : ~Stacked(i)
  PROVE  /\ typeStack # <<>> /\ Len(ix) > 0 /\ ix[1] = s /\ type_peek = values[s].ast
         /\ typeStack = <<type_peek>> \o Tail(typeStack)
<1>1. PICK k \in 1..Len(ix) : ix[k] = s
  BY DEF Indexed
<1>2. Len(ix) \in Nat /\ Len(typeStack) = Len(ix) /\ 1 \in 1..Len(ix)
  BY <1>1 DEF Indexed
<1>3. ix[1] = s
  <2>1. SUFFICES ASSUME k # 1 PROVE FALSE
    BY <1>1
  <2>2. ix[1] > s /\ ix[1] \in 1..N /\ Stacked(ix[1])
    BY <1>1, <1>2, <2>1 DEF Indexed
  <2>3. ix[1] \in s + 1..N
    BY <2>2
  <2>. QED
    BY <2>2, <2>3
<1>4. typeStack \in Seq(Node) /\ typeStack # <<>>
  BY <1>2 DEF Indexed
<1>5. typeStack[1] = values[s].ast
  BY <1>2, <1>3 DEF Indexed
<1>6. typeStack = <<Head(typeStack)>> \o Tail(typeStack)
  BY <1>4
<1>. QED
  BY <1>2, <1>3, <1>4, <1>5, <1>6 DEF type_peek

\* The type stack, when it loses its top.
LEMMA IndexedPopped ==
  ASSUME N \in Nat, NEW ix, Indexed(ix), NEW m, NEW v, Above(m, v),
         typeStack' = Tail(typeStack), NEW s \in m + 1..N, Stacked(s),
         \A i \in m + 1..N : Stacked(i) => i = s, v.tag \notin StackTag
  PROVE  Indexed(Tail(ix))'
<1>1. /\ N' = m + 1 /\ m \in 0..N /\ m \in Nat /\ values'[m + 1] = v
      /\ \A i \in 1..m + 1 : (i \in 1..m /\ i \in 1..N /\ values'[i] = values[i]) \/ i = m + 1
  BY AboveFacts
<1>2. s \in 1..N /\ \A i \in s + 1..N : i \in m + 1..N /\ i # s
  BY <1>1
<1>3. ix[1] = s /\ Len(ix) > 0 /\ typeStack # <<>>
  BY <1>2, TopIndex
<1>4. ix \in Seq(Nat) /\ typeStack \in Seq(Node) /\ Len(ix) = Len(typeStack)
  BY DEF Indexed
<1> DEFINE n == Len(ix)
           jx == Tail(ix)
<1>5. n \in Nat /\ n > 0 /\ ix # <<>>
  BY <1>3, <1>4
<1>6. /\ jx \in Seq(Nat) /\ Len(jx) = n - 1 /\ typeStack' \in Seq(Node) /\ Len(typeStack') = n - 1
      /\ \A k \in 1..n - 1 : jx[k] = ix[k + 1] /\ typeStack'[k] = typeStack[k + 1]
  BY <1>3, <1>4, <1>5
<1>7. \A k \in 1..n - 1 : k + 1 \in 1..n
  BY <1>5
<1> HIDE DEF jx
<1>8. ASSUME NEW k \in 1..n - 1
      PROVE  jx[k] \in 1..m + 1 /\ Stacked(jx[k])' /\ typeStack'[k] = values'[jx[k]].ast
  <2>1. /\ ix[k + 1] \in 1..N /\ Stacked(ix[k + 1])
        /\ typeStack[k + 1] = values[ix[k + 1]].ast
    BY <1>7 DEF Indexed
  <2>2. 1 \in 1..n /\ k + 1 \in 1..n /\ 1 < k + 1
    BY <1>5
  <2>3. s > ix[k + 1]
    BY <1>3, <2>2 DEF Indexed
  <2>4. ix[k + 1] \notin m + 1..N
    BY <1>1, <2>1, <2>3
  <2>5. ix[k + 1] \in 1..m
    BY <1>1, <2>1, <2>4
  <2>6. jx[k] = ix[k + 1] /\ typeStack'[k] = typeStack[k + 1]
    BY <1>6
  <2>7. ix[k + 1] \in 1..m + 1 /\ values'[ix[k + 1]] = values[ix[k + 1]]
    BY <1>1, <2>5
  <2>. QED
    BY <2>1, <2>6, <2>7 DEF Stacked
<1>9. ASSUME NEW k \in 1..n - 1, NEW l \in 1..n - 1, k < l
      PROVE  jx[k] > jx[l]
  <2>1. k + 1 < l + 1
    BY <1>9
  <2>2. ix[k + 1] > ix[l + 1]
    BY <1>7, <2>1 DEF Indexed
  <2>. QED
    BY <1>6, <2>2
<1>10. ASSUME NEW i \in 1..m + 1, Stacked(i)'
       PROVE  \E k \in 1..n - 1 : jx[k] = i
  <2>1. i \in 1..m /\ i \in 1..N /\ Stacked(i)
    BY <1>1, <1>10 DEF Stacked
  <2>2. PICK k \in 1..n : ix[k] = i
    BY <2>1 DEF Indexed
  <2>3. i # s
    BY <1>1, <2>1
  <2>4. k # 1 /\ k - 1 \in 1..n - 1 /\ (k - 1) + 1 = k
    BY <1>3, <1>5, <2>2, <2>3
  <2>. QED
    BY <1>6, <2>2, <2>4
<1>. QED
  BY <1>1, <1>6, <1>8, <1>9, <1>10 DEF Indexed, jx

\* The type stack, when v is put on it.
LEMMA IndexedPushed ==
  ASSUME N \in Nat, NEW ix, Indexed(ix), NEW v, Above(N, v), v.tag \in StackTag,
         v.ast \in Node, typeStack' = <<v.ast>> \o typeStack,
         NEW jx, jx = <<N + 1>> \o ix
  PROVE  Indexed(jx)'
<1>1. /\ N' = N + 1 /\ values'[N + 1] = v
      /\ \A i \in 1..N + 1 : (i \in 1..N /\ values'[i] = values[i]) \/ i = N + 1
      /\ \A i \in 1..N : i \in 1..N + 1 /\ values'[i] = values[i]
      /\ N + 1 \in 1..N + 1
  BY AboveFacts
<1>4. ix \in Seq(Nat) /\ typeStack \in Seq(Node) /\ Len(ix) = Len(typeStack)
  BY DEF Indexed
<1> DEFINE n == Len(ix)
<1>5. n \in Nat
  BY <1>4
<1>6. /\ jx \in Seq(Nat) /\ Len(jx) = n + 1 /\ typeStack' \in Seq(Node) /\ Len(typeStack') = n + 1
      /\ jx[1] = N + 1 /\ typeStack'[1] = v.ast
      /\ \A k \in 2..n + 1 : jx[k] = ix[k - 1] /\ typeStack'[k] = typeStack[k - 1]
  BY <1>4, <1>5
<1>7. \A k \in 1..n + 1 : k = 1 \/ (k \in 2..n + 1 /\ k - 1 \in 1..n)
  BY <1>5
<1>8. ASSUME NEW k \in 1..n + 1
      PROVE  jx[k] \in 1..N + 1 /\ Stacked(jx[k])' /\ typeStack'[k] = values'[jx[k]].ast
  <2>1. CASE k = 1
    <3>1. jx[k] = N + 1 /\ typeStack'[k] = v.ast
      BY <1>6, <2>1
    <3>. QED
      BY <1>1, <3>1 DEF Stacked
  <2>2. CASE k \in 2..n + 1 /\ k - 1 \in 1..n
    <3>1. /\ ix[k - 1] \in 1..N /\ Stacked(ix[k - 1])
          /\ typeStack[k - 1] = values[ix[k - 1]].ast
      BY <2>2 DEF Indexed
    <3>2. jx[k] = ix[k - 1] /\ typeStack'[k] = typeStack[k - 1]
      BY <1>6, <2>2
    <3>3. ix[k - 1] \in 1..N + 1 /\ values'[ix[k - 1]] = values[ix[k - 1]]
      BY <1>1, <3>1
    <3>. QED
      BY <3>1, <3>2, <3>3 DEF Stacked
  <2>. QED
    BY <1>7, <2>1, <2>2
<1>9. ASSUME NEW k \in 1..n + 1, NEW l \in 1..n + 1, k < l
      PROVE  jx[k] > jx[l]
  <2>1. l # 1 /\ l \in 2..n + 1 /\ l - 1 \in 1..n
    BY <1>5, <1>7, <1>9
  <2>2. ix[l - 1] \in 1..N /\ jx[l] = ix[l - 1]
    BY <1>6, <2>1 DEF Indexed
  <2>3. CASE k = 1
    BY <1>6, <2>2, <2>3
  <2>4. CASE k \in 2..n + 1 /\ k - 1 \in 1..n
    <3>1. k - 1 < l - 1
      BY <1>9
    <3>2. ix[k - 1] > ix[l - 1]
      BY <2>1, <2>4, <3>1 DEF Indexed
    <3>. QED
      BY <1>6, <2>2, <2>4, <3>2
  <2>. QED
    BY <1>7, <2>3, <2>4
<1>10. ASSUME NEW i \in 1..N + 1, Stacked(i)'
       PROVE  \E k \in 1..n + 1 : jx[k] = i
  <2>1. CASE i = N + 1
    BY <1>5, <1>6, <2>1
  <2>2. CASE i # N + 1
    <3>1. i \in 1..N /\ Stacked(i)
      BY <1>1, <1>10, <2>2 DEF Stacked
    <3>2. PICK k \in 1..n : ix[k] = i
      BY <3>1 DEF Indexed
    <3>3. k + 1 \in 2..n + 1 /\ k + 1 \in 1..n + 1 /\ (k + 1) - 1 = k
      BY <1>5
    <3>. QED
      BY <1>6, <3>2, <3>3
  <2>. QED
    BY <2>1, <2>2
<1>. QED
  BY <1>1, <1>6, <1>8, <1>9, <1>10 DEF Indexed

\* The nodes of the type stack, when no link to those that stay is made but from
\* v.
LEMMA SpineAbove ==
  ASSUME N \in Nat, Grammar, Spine, NEW m, NEW v, Above(m, v), m > 0 \/ v.tag = "type",
         m > 0 => Follows(values[m].tag, v.tag), v.tag \in GibberishTag,
         m = N \/ v.tag \in Declarator \/ ~Stacked(m),
         \A i \in 1..m : Stacked(i) =>
           LET n == values[i].ast IN
           /\ h'[n].kind = h[n].kind
           /\ values[i].tag \in Pointing =>
                h'[n].of = h[n].of /\ h'[values[i - 1].ast].parent = h[values[i - 1].ast].parent
           /\ \A c \in On' : h'[c].parent = n => c \in On /\ h[c].parent = n
           /\ \A c \in On' : h'[c].of = n =>
                \/ c \in On /\ h[c].of = n
                \/ i = m /\ (v.tag \in Declarator \/ (v.tag \in Pointing /\ c = v.ast)),
         v.tag \in StackTag =>
           /\ \A i \in 1..m : v.ast \notin {values[i].ast, values[i].target}
           /\ v.tag = "type" => h'[v.ast].kind \in {"builtin", "typedef"}
           /\ v.tag = "nested" => h'[v.ast].kind = "placeholder"
           /\ v.tag \in Pointing => /\ h'[v.ast].kind = v.tag /\ h'[v.ast].of = values[m].ast
                                    /\ h'[values[m].ast].parent = v.ast
           /\ \A c \in On' : h'[c].parent = v.ast => v.tag \in Pointing /\ c = values[m].ast
           /\ \A c \in On' : h'[c].of # v.ast,
         v.tag \in Declarator => \A j \in 1..m :
           Stacked(j) /\ values[j].ast \in {v.ast, v.target} => j = m
  PROVE  Spine'
<1>1. /\ N' = m + 1 /\ m \in 0..N /\ m \in Nat /\ values'[m + 1] = v
      /\ \A i \in 1..m + 1 : (i \in 1..m /\ i \in 1..N /\ values'[i] = values[i]) \/ i = m + 1
      /\ (m + 1) - 1 = m /\ m + 1 \notin 1..m
      /\ \A i \in 1..m : i \in 1..m + 1 /\ i \in 1..N /\ values'[i] = values[i]
  BY AboveFacts
<1> DEFINE tag(i) == values'[i].tag
           n(i) == values'[i].ast
<1>2. \A i \in 1..m : Stacked(i)' <=> Stacked(i)
  BY <1>1 DEF Stacked
<1>3. Stacked(m + 1)' <=> v.tag \in StackTag
  BY <1>1 DEF Stacked
<1>4. ASSUME NEW i \in 1..m
      PROVE
        /\ \A j \in 1..m + 1 : Stacked(i)' /\ Stacked(j)' /\ values'[j].ast = n(i) => i = j
        /\ tag(i) = "type" => h'[n(i)].kind \in {"builtin", "typedef"}
        /\ tag(i) = "nested" => h'[n(i)].kind = "placeholder"
        /\ tag(i) \in Pointing => /\ h'[n(i)].kind = tag(i) /\ h'[n(i)].of = values'[i - 1].ast
                                  /\ h'[values'[i - 1].ast].parent = n(i)
        /\ \A c \in On' : Stacked(i)' /\ h'[c].parent = n(i) =>
             tag(i) \in Pointing /\ c = values'[i - 1].ast
        /\ \A c \in On' : Stacked(i)' /\ h'[c].of = n(i) =>
             /\ i < m + 1
             /\ \/ values'[i + 1].tag \in Declarator
                \/ values'[i + 1].tag \in Pointing /\ c = values'[i + 1].ast
        /\ tag(i) \in Declarator => \A j \in 1..m + 1 :
             Stacked(j)' /\ values'[j].ast \in {n(i), values'[i].target} => j = i - 1
  <2>1. i \in 1..N /\ values'[i] = values[i] /\ i < m + 1 /\ (Stacked(i)' <=> Stacked(i))
    BY <1>1, <1>2
  <2>2. i = 1 \/ (i - 1 \in 1..m /\ values'[i - 1] = values[i - 1])
    BY <1>1
  <2>3. i = m \/ (i + 1 \in 1..m /\ values'[i + 1] = values[i + 1])
    BY <1>1
  <2>4. \A j \in 1..m + 1 : Stacked(i)' /\ Stacked(j)' /\ values'[j].ast = n(i) => i = j
    <3>1. ASSUME NEW j \in 1..m, Stacked(i)', Stacked(j)', values'[j].ast = n(i) PROVE i = j
      BY <1>1, <1>2, <2>1, <3>1 DEF Spine
    <3>2. ASSUME Stacked(i)', Stacked(m + 1)', values'[m + 1].ast = n(i) PROVE FALSE
      BY <1>1, <1>3, <2>1, <3>2
    <3>. QED
      BY <1>1, <3>1, <3>2
  <2>5. tag(i) \in Pointing => Stacked(i)
    BY <2>1, Tags DEF Stacked
  <2>6. tag(i) = "type" \/ tag(i) = "nested" => Stacked(i)
    BY <2>1, Tags DEF Stacked
  <2>7. /\ tag(i) = "type" => h'[n(i)].kind \in {"builtin", "typedef"}
        /\ tag(i) = "nested" => h'[n(i)].kind = "placeholder"
    BY <2>1, <2>6 DEF Spine
  <2>8. tag(i) \in Pointing => i # 1
    BY <2>1, Tags DEF Grammar
  <2>9. tag(i) \in Pointing => /\ h'[n(i)].kind = tag(i) /\ h'[n(i)].of = values'[i - 1].ast
                               /\ h'[values'[i - 1].ast].parent = n(i)
    BY <2>1, <2>2, <2>5, <2>8 DEF Spine
  <2>10. ASSUME NEW c \in On', Stacked(i)', h'[c].parent = n(i)
         PROVE  tag(i) \in Pointing /\ c = values'[i - 1].ast
    BY <2>1, <2>2, <2>8, <2>10 DEF Spine
  <2>11. ASSUME NEW c \in On', Stacked(i)', h'[c].of = n(i)
         PROVE  \/ values'[i + 1].tag \in Declarator
                \/ values'[i + 1].tag \in Pointing /\ c = values'[i + 1].ast
    <3>1. CASE i = m /\ (v.tag \in Declarator \/ (v.tag \in Pointing /\ c = v.ast))
      BY <1>1, <3>1
    <3>2. CASE c \in On /\ h[c].of = values[i].ast
      <4>1. /\ i < N
            /\ \/ values[i + 1].tag \in Declarator
               \/ values[i + 1].tag \in Pointing /\ c = values[i + 1].ast
        BY <2>1, <2>11, <3>2 DEF Spine
      <4>2. CASE i = m
        BY <1>1, <2>1, <2>11, <4>1, <4>2
      <4>3. CASE i # m
        BY <2>3, <4>1, <4>3
      <4>. QED
        BY <4>2, <4>3
    <3>. QED
      BY <2>1, <2>11, <3>1, <3>2
  <2>12. ASSUME tag(i) \in Declarator, NEW j \in 1..m + 1,
                Stacked(j)', values'[j].ast \in {n(i), values'[i].target}
         PROVE  j = i - 1
    <3>1. CASE j \in 1..m
      BY <1>1, <1>2, <2>1, <2>12, <3>1 DEF Spine
    <3>2. CASE j = m + 1
      <4>1. v.tag \in StackTag
        BY <1>3, <2>12, <3>2
      <4>. QED
        BY <1>1, <2>1, <2>12, <3>2, <4>1
    <3>. QED
      BY <1>1, <3>1, <3>2
  <2>. QED
    BY <2>1, <2>4, <2>7, <2>9, <2>10, <2>11, <2>12
<1>5. ASSUME v.tag \notin StackTag
      PROVE  v.tag # "type" /\ v.tag # "nested" /\ v.tag \notin Pointing
  BY <1>5, Tags
<1>6. ASSUME v.tag \in Pointing
      PROVE  m \in 1..m /\ values'[m] = values[m]
  <2>1. m > 0
    BY <1>6, Tags
  <2>. QED
    BY <1>1, <2>1
<1>7. \A j \in 1..m + 1 : Stacked(m + 1)' /\ Stacked(j)' /\ values'[j].ast = v.ast => m + 1 = j
  BY <1>1, <1>3
<1>8. /\ v.tag = "type" => h'[v.ast].kind \in {"builtin", "typedef"}
      /\ v.tag = "nested" => h'[v.ast].kind = "placeholder"
      /\ v.tag \in Pointing => /\ h'[v.ast].kind = v.tag /\ h'[v.ast].of = values'[m].ast
                               /\ h'[values'[m].ast].parent = v.ast
  BY <1>5, <1>6
<1>9. \A c \in On' : Stacked(m + 1)' /\ h'[c].parent = v.ast =>
        v.tag \in Pointing /\ c = values'[m].ast
  BY <1>3, <1>6
<1>10. \A c \in On' : Stacked(m + 1)' => h'[c].of # v.ast
  BY <1>3
<1>11. ASSUME v.tag \in Declarator, NEW j \in 1..m + 1,
              Stacked(j)', values'[j].ast \in {v.ast, v.target}
       PROVE  j = m
  <2>1. v.tag \notin StackTag
    BY <1>11, Tags
  <2>2. j \in 1..m
    BY <1>1, <1>3, <1>11, <2>1
  <2>. QED
    BY <1>1, <1>2, <1>11, <2>2
<1>12. \A i \in 1..m + 1 : i = m + 1 \/ i \in 1..m
  BY <1>1
<1>13. \A i \in 1..m + 1 :
        /\ \A j \in 1..m + 1 : Stacked(i)' /\ Stacked(j)' /\ values'[j].ast = n(i) => i = j
        /\ tag(i) = "type" => h'[n(i)].kind \in {"builtin", "typedef"}
        /\ tag(i) = "nested" => h'[n(i)].kind = "placeholder"
        /\ tag(i) \in Pointing => /\ h'[n(i)].kind = tag(i) /\ h'[n(i)].of = values'[i - 1].ast
                                  /\ h'[values'[i - 1].ast].parent = n(i)
        /\ \A c \in On' : Stacked(i)' /\ h'[c].parent = n(i) =>
             tag(i) \in Pointing /\ c = values'[i - 1].ast
        /\ \A c \in On' : Stacked(i)' /\ h'[c].of = n(i) =>
             /\ i < m + 1
             /\ \/ values'[i + 1].tag \in Declarator
                \/ values'[i + 1].tag \in Pointing /\ c = values'[i + 1].ast
        /\ tag(i) \in Declarator => \A j \in 1..m + 1 :
             Stacked(j)' /\ values'[j].ast \in {n(i), values'[i].target} => j = i - 1
  <2> SUFFICES ASSUME NEW i \in 1..m + 1
      PROVE
        /\ \A j \in 1..m + 1 : Stacked(i)' /\ Stacked(j)' /\ values'[j].ast = n(i) => i = j
        /\ tag(i) = "type" => h'[n(i)].kind \in {"builtin", "typedef"}
        /\ tag(i) = "nested" => h'[n(i)].kind = "placeholder"
        /\ tag(i) \in Pointing => /\ h'[n(i)].kind = tag(i) /\ h'[n(i)].of = values'[i - 1].ast
                                  /\ h'[values'[i - 1].ast].parent = n(i)
        /\ \A c \in On' : Stacked(i)' /\ h'[c].parent = n(i) =>
             tag(i) \in Pointing /\ c = values'[i - 1].ast
        /\ \A c \in On' : Stacked(i)' /\ h'[c].of = n(i) =>
             /\ i < m + 1
             /\ \/ values'[i + 1].tag \in Declarator
                \/ values'[i + 1].tag \in Pointing /\ c = values'[i + 1].ast
        /\ tag(i) \in Declarator => \A j \in 1..m + 1 :
             Stacked(j)' /\ values'[j].ast \in {n(i), values'[i].target} => j = i - 1
    OBVIOUS
  <2>1. CASE i \in 1..m
    BY <1>4, <2>1
  <2>2. CASE i = m + 1
    <3>1. values'[i] = v /\ i - 1 = m
      BY <1>1, <2>2
    <3>. QED
      BY <2>2, <3>1, <1>7, <1>8, <1>9, <1>10, <1>11
  <2>. QED
    BY <1>12, <2>1, <2>2
<1>. QED
  BY <1>1, <1>13 DEF Spine

\* How nested the nodes of the type stack are.
LEMMA DepthsAbove ==
  ASSUME N \in Nat, Depths, NEW m, NEW v, Above(m, v), ast_depth \in Nat,
         \A i \in 1..N : Stacked(i) => h[values[i].ast].depth \in Nat,
         \A i \in 1..m : Stacked(i) => h'[values[i].ast].depth = h[values[i].ast].depth,
         v.tag \in StackTag =>
           /\ m = N /\ h'[v.ast].depth = ast_depth
           /\ ast_depth' = ast_depth + (IF v.tag = "nested" THEN 1 ELSE 0),
         v.tag \notin StackTag =>
           \/ ast_depth' = ast_depth
           \/ /\ ast_depth' = ast_depth - 1
              /\ \E s \in m + 1..N : Stacked(s) /\ values[s].tag = "nested"
  PROVE  Depths' /\ ast_depth' \in Nat
<1>1. /\ N' = m + 1 /\ m \in 0..N /\ m \in Nat /\ values'[m + 1] = v
      /\ \A i \in 1..m + 1 : (i \in 1..m /\ i \in 1..N /\ values'[i] = values[i]) \/ i = m + 1
      /\ (m + 1) - 1 = m /\ m + 1 \notin 1..m
      /\ \A i \in 1..m : i \in 1..m + 1 /\ i \in 1..N /\ values'[i] = values[i]
  BY AboveFacts
<1>2. \A i \in 1..m : /\ Stacked(i)' <=> Stacked(i)
                      /\ Stacked(i) => Depth(i)' = Depth(i) /\ Depth(i) \in Nat
  BY <1>1 DEF Stacked, Depth
<1>3. Stacked(m + 1)' <=> v.tag \in StackTag
  BY <1>1 DEF Stacked
<1>4. /\ ast_depth' \in Nat
      /\ \A i \in 1..m : Stacked(i) => Depth(i) <= ast_depth'
  <2>1. \A i \in 1..m : Stacked(i) => Depth(i) <= ast_depth
    BY <1>1 DEF Depths
  <2>2. CASE v.tag \in StackTag
    BY <1>2, <2>1, <2>2
  <2>3. CASE ast_depth' = ast_depth
    BY <2>1, <2>3
  <2>4. CASE /\ ast_depth' = ast_depth - 1
             /\ \E s \in m + 1..N : Stacked(s) /\ values[s].tag = "nested"
    <3>1. PICK s \in m + 1..N : Stacked(s) /\ values[s].tag = "nested"
      BY <2>4
    <3>2. s \in 1..N /\ \A i \in 1..m : i \in 1..s - 1
      BY <1>1
    <3>3. Depth(s) = h[values[s].ast].depth + 1 /\ Depth(s) <= ast_depth
      BY <3>1, <3>2 DEF Depths, Depth
    <3>4. \A i \in 1..m : Stacked(i) => Depth(i) <= h[values[s].ast].depth
      BY <3>1, <3>2 DEF Depths
    <3>5. h[values[s].ast].depth \in Nat
      BY <3>1, <3>2
    <3>. QED
      BY <1>2, <2>4, <3>3, <3>4, <3>5
  <2>. QED
    BY <2>2, <2>3, <2>4
<1>5. ASSUME NEW i \in 1..m + 1, Stacked(i)'
      PROVE  /\ Depth(i)' <= ast_depth'
             /\ \A j \in 1..i - 1 : Stacked(j)' => Depth(j)' <= h'[values'[i].ast].depth
  <2>1. CASE i \in 1..m
    <3>1. \A j \in 1..i - 1 : j \in 1..m
      BY <1>1, <2>1
    <3>2. Stacked(i) /\ Depth(i)' <= ast_depth'
      BY <1>2, <1>4, <1>5, <2>1
    <3>3. \A j \in 1..i - 1 : Stacked(j) => Depth(j) <= h[values[i].ast].depth
      BY <1>1, <2>1, <3>2 DEF Depths
    <3>4. h'[values'[i].ast].depth = h[values[i].ast].depth
      BY <1>1, <2>1, <3>2
    <3>. QED
      BY <1>2, <3>1, <3>2, <3>3, <3>4
  <2>2. CASE i = m + 1
    <3>1. v.tag \in StackTag /\ h'[v.ast].depth = ast_depth /\ m = N /\ values'[i] = v
      BY <1>1, <1>3, <1>5, <2>2
    <3>2. Depth(i)' = ast_depth'
      BY <3>1 DEF Depth
    <3>3. \A j \in 1..i - 1 : j \in 1..m /\ j \in 1..N
      BY <1>1, <2>2
    <3>4. \A j \in 1..i - 1 : Stacked(j) => Depth(j) <= ast_depth
      BY <3>3 DEF Depths
    <3>. QED
      BY <1>2, <1>4, <3>1, <3>2, <3>3, <3>4
  <2>. QED
    BY <1>1, <2>1, <2>2
<1>. QED
  BY <1>1, <1>4, <1>5 DEF Depths

\* The type at the bottom, and declarators without a node.
LEMMA BottomAbove ==
  ASSUME N \in Nat, ValuesOK, Bottom, NEW m, NEW v, Above(m, v), command' = command, NEW f,
         \/ gc' = gc
         \/ gc' # <<>> /\ gc'[Len(gc')] = IF gc = <<>> THEN f ELSE gc[Len(gc)],
         m > 0 \/ (N = 0 /\ v.ast = f /\ gc' # gc),
         v.tag \in Declarator /\ v.ast = NIL =>
           CastFirst \/ \E j \in 1..m : values[j].tag = "args"
  PROVE  Bottom'
<1>1. /\ N' = m + 1 /\ m \in 0..N /\ m \in Nat /\ values'[m + 1] = v
      /\ \A i \in 1..m + 1 : (i \in 1..m /\ i \in 1..N /\ values'[i] = values[i]) \/ i = m + 1
      /\ (m + 1) - 1 = m /\ m + 1 \notin 1..m
      /\ \A i \in 1..m : i \in 1..m + 1 /\ i \in 1..N /\ values'[i] = values[i]
  BY AboveFacts
<1>2. values' # <<>>
  <2>1. Len(values') # 0
    BY <1>1 DEF N
  <2>. QED
    BY <2>1
<1>3. ASSUME m > 0
      PROVE  gc' # <<>> /\ values'[1].ast = gc'[Len(gc')]
  <2>1. 1 \in 1..m /\ 1 \in 1..N /\ values'[1] = values[1]
    BY <1>1, <1>3
  <2>2. values # <<>>
    BY <2>1, ValueAt
  <2>3. gc # <<>> /\ values[1].ast = gc[Len(gc)]
    BY <2>2 DEF Bottom
  <2>4. gc' # <<>> /\ values'[1].ast = gc'[Len(gc')]
    BY <2>1, <2>3
  <2>. QED
    BY <2>4
<1>4. ASSUME N = 0 /\ v.ast = f /\ gc' # gc
      PROVE  gc' # <<>> /\ values'[1].ast = gc'[Len(gc')]
  <2>1. values = <<>>
    BY <1>4 DEF ValuesOK, N
  <2>2. gc = <<>>
    BY <2>1 DEF Bottom
  <2>3. m = 0 /\ values'[1] = v
    BY <1>1, <1>4
  <2>. QED
    BY <1>4, <2>2, <2>3
<1>5. gc' # <<>> /\ values'[1].ast = gc'[Len(gc')]
  BY <1>3, <1>4
<1>6. CastFirst' <=> CastFirst
  BY DEF CastFirst
<1>7. ASSUME NEW i \in 1..m + 1, values'[i].tag \in Declarator, values'[i].ast = NIL
      PROVE  CastFirst \/ \E j \in 1..i - 1 : values'[j].tag = "args"
  <2>1. CASE i \in 1..m
    <3>1. \A j \in 1..i - 1 : j \in 1..m
      BY <1>1, <2>1
    <3>2. CastFirst \/ \E j \in 1..i - 1 : values[j].tag = "args"
      BY <1>1, <1>7, <2>1 DEF Bottom
    <3>. QED
      BY <1>1, <3>1, <3>2
  <2>2. CASE i = m + 1
    <3>1. CastFirst \/ \E j \in 1..m : values[j].tag = "args"
      BY <1>1, <1>7, <2>2
    <3>. QED
      BY <1>1, <2>2, <3>1
  <2>. QED
    BY <1>1, <2>1, <2>2
<1>. QED
  BY <1>1, <1>2, <1>5, <1>6, <1>7 DEF Bottom

-----------------------------------------------------------------------------
(* The invariant.                                                          *)

\* The values of an English command: each is the root of an AST of its own.
Eng(cl, vc) ==
  /\ typeStack = <<>>
  /\ \A i \in 1..N :
       /\ values[i].tag \in EnglishTag /\ values[i].target = NIL
       /\ values[i].tag = "list" => values[i].ast = NIL
       /\ values[i].tag # "list" =>
            /\ values[i].list = <<>>
            /\ values[i].ast \in On /\ cl[values[i].ast] = vc[i]
            /\ h[values[i].ast].parent = NIL
            /\ \A n \in On : h[n].of # values[i].ast
       /\ values[i].tag = "ref" => h[values[i].ast].kind \in ParentKind
       /\ \A j \in 1..i - 1 : vc[j] # vc[i]

\* The phases, and what is left of a command when there is none.
Control ==
  /\ phase \in {"idle", "parse", "exit", "exited", "aborted"}
  /\ command \in Commands \cup {NIL} /\ subject \in Names
  /\ phase = "idle" => command = NIL
  /\ phase \notin {"parse", "aborted"} => gc = <<>> /\ values = <<>> /\ typeStack = <<>>
  /\ ast_depth \in 0..MaxDepth
  /\ \A n \in On : h[n].name \in Undefined \cup {NIL}

\* The invariant, with the witnesses that a step has to give.
State(L, G, cl, vc, ix) ==
  /\ Base(L, G) /\ ValuesOK /\ Control /\ Chained(cl) /\ Lists(cl, vc)
  /\ command \in English => Eng(cl, vc)
  /\ command \in Gibberish => Gib(cl, vc, ix)

\* What no production changes.
Stays == UNCHANGED <<phase, command, subject, typedefs>>

\* What the proofs about productions use most of the invariant.
LEMMA StateFacts ==
  ASSUME NEW L, NEW G, NEW cl, NEW vc, NEW ix, State(L, G, cl, vc, ix)
  PROVE  /\ N \in Nat /\ On \subseteq Node /\ On \subseteq live /\ live \subseteq Node
         /\ ast_depth \in Nat /\ h \in Heaps(Types, Names)
         /\ \A n \in On : /\ h[n].of \in On \cup {NIL} /\ h[n].parent \in On \cup {NIL}
                          /\ ToSet(h[n].args) \subseteq On
                          /\ h[n].of # NIL => h[n].kind \in ParentKind
                          /\ h[n].parent # NIL => h[h[n].parent].kind \in ParentKind
         /\ gc \in Seq(Node) /\ IsInjective(gc) /\ NIL \notin Node
         /\ \A n \in Node \ live : h[n] = NoAst
<1>1. N \in Nat
  BY DEF State, ValuesOK, N
<1>2. ast_depth \in Nat
  BY ParserAssumption DEF State, Control
<1>. QED
  BY <1>1, <1>2, NilFacts DEF State, Base, HeapOK, LinksOK

\* The command goes on.
LEMMA ReducedControl ==
  ASSUME NEW L, NEW G, NEW cl, NEW vc, NEW ix, State(L, G, cl, vc, ix), phase = "parse", Stays,
         NEW new, ToSet(gc') = On \cup new, ast_depth' \in Nat, ast_depth' <= ast_depth,
         \A n \in On \cup new : h'[n].name \in Undefined \cup {NIL}
  PROVE  Control'
<1>1. On' = On \cup new /\ Undefined' = Undefined
  BY DEF Stays, Undefined, On
<1>2. ast_depth' \in 0..MaxDepth
  BY ParserAssumption DEF State, Control
<1>. QED
  BY <1>1, <1>2 DEF State, Control, Stays

\* The type stack loses the value of it that is above m, if there is one.
Popped(m, v) ==
  \/ /\ typeStack' = typeStack /\ ast_depth' = ast_depth
     /\ \A i \in m + 1..N : ~Stacked(i)
  \/ /\ typeStack' = Tail(typeStack)
     /\ v.tag \in Declarator \/ ~Stacked(m)
     /\ \E s \in m + 1..N :
          /\ Stacked(s) /\ \A i \in m + 1..N : Stacked(i) => i = s
          /\ \/ ast_depth' = ast_depth
             \/ ast_depth' = ast_depth - 1 /\ values[s].tag = "nested"

\* The list is as it was, or begins with new nodes and ends in f only if it was empty.
NewTop(f) ==
  \/ gc' = gc
  \/ gc' # <<>> /\ gc'[Len(gc')] = IF gc = <<>> THEN f ELSE gc[Len(gc)]

\* What the value v that takes the place of those above m refers to.
Fits(new, cl2, vc, m, v) ==
  /\ v.ast # NIL => v.ast \in On \cup new /\ cl2[v.ast] = vc[m]
  /\ v.target # NIL => v.target \in On \cup new /\ cl2[v.target] = vc[m]
  /\ v.tag = "args" => v.ast = NIL /\ v.target = NIL
  /\ v.tag # "args" => v.list = <<>>
  /\ v.tag \in Declarator /\ v.ast = NIL =>
       CastFirst \/ \E j \in 1..m : values[j].tag = "args"
  /\ v.tag \in Declarator => \A j \in 1..m :
       Stacked(j) /\ values[j].ast \in {v.ast, v.target} => j = m

\* Links are made within a class, and none to what stays of the spine but from the
\* declarator above it.
Relinked(new, cl2, m, v) ==
  /\ \A n \in On \cup new : /\ h'[n].of # NIL => cl2[h'[n].of] = cl2[n]
                            /\ h'[n].parent # NIL => cl2[h'[n].parent] = cl2[n]
                            /\ h'[n].of # NIL => h'[h'[n].of].parent # NIL
                            /\ h'[n].kind \in ParentKind => h'[n].of # NIL
  /\ \A i \in 1..m : Stacked(i) =>
       LET n == values[i].ast IN
       /\ h'[n].kind = h[n].kind /\ h'[n].depth = h[n].depth
       /\ values[i].tag \in Pointing =>
            h'[n].of = h[n].of /\ h'[values[i - 1].ast].parent = h[values[i - 1].ast].parent
       /\ \A c \in On \cup new : h'[c].parent = n => c \in On /\ h[c].parent = n
       /\ \A c \in On \cup new : h'[c].of = n =>
            (c \in On /\ h[c].of = n) \/ (i = m /\ v.tag \in Declarator)

\* A declarator or an argument list takes the place of what is above m.
LEMMA Reduced ==
  ASSUME NEW L, NEW G, NEW cl, NEW vc, NEW ix, State(L, G, cl, vc, ix), phase = "parse",
         command \in Gibberish, Stays,
         NEW m, NEW v, Above(m, v), m > 0, v.tag \in Declarator \cup {"args"},
         Follows(values[m].tag, v.tag), Popped(m, v),
         m = N \/ v.tag \in Declarator \/ ~Stacked(m),
         NEW new, ToSet(gc') = On \cup new, new \cap On = {}, NEW f, NewTop(f),
         Base(L, G)', \A n \in On \cup new : h'[n].name \in Undefined \cup {NIL},
         NEW cl2, \A n \in On : cl2[n] = cl[n],
         NEW vc2, \A i \in 1..m : vc2[i] = vc[i], vc2[m + 1] = vc[m],
         Fits(new, cl2, vc, m, v), Relinked(new, cl2, m, v), Lists(cl2, vc2)'
  PROVE  \E ix2 : State(L, G, cl2, vc2, ix2)'
<1> USE DEF Popped, NewTop, Fits, Relinked
<1>1. /\ N \in Nat /\ ast_depth \in Nat /\ h \in Heaps(Types, Names) /\ On \subseteq Node
      /\ Gib(cl, vc, ix) /\ ValuesOK
  BY StateFacts DEF State
<1>2. /\ Grammar /\ Levels(cl, vc) /\ Indexed(ix) /\ Spine /\ Filled /\ Depths /\ Bottom
  BY <1>1 DEF Gib
<1>3. /\ v.tag \notin StackTag /\ v.tag # "type" /\ v.tag \in GibberishTag
      /\ v.tag \notin Pointing /\ values[m].tag # "args"
  BY Tags DEF GibberishTag, Follows
<1>4. On' = On \cup new /\ m \in 0..N /\ m \in 1..N /\ ValuesOK'
  BY DEF Above, On
<1>5. Grammar'
  BY <1>1, <1>2, <1>3, GrammarAbove
<1>6. Levels(cl2, vc2)'
  <2>1. \A j \in 1..m : values[j].tag = "args" => vc[j] # vc2[m + 1]
    <3>1. \A j \in 1..m : j = m \/ j \in 1..m - 1
      BY <1>1, <1>4
    <3>2. \A j \in 1..m - 1 : values[j].tag = "args" => vc[j] # vc[m]
      BY <1>2, <1>4 DEF Levels
    <3>. QED
      BY <1>3, <3>1, <3>2
  <2>. QED
    BY <1>1, <1>2, <1>3, <1>4, <2>1, LevelsAbove
<1>7. PICK ix2 : Indexed(ix2)'
  <2>1. CASE typeStack' = typeStack /\ \A i \in m + 1..N : ~Stacked(i)
    BY <1>1, <1>2, <1>3, <2>1, IndexedSame
  <2>2. CASE /\ typeStack' = Tail(typeStack)
             /\ \E s \in m + 1..N : Stacked(s) /\ \A i \in m + 1..N : Stacked(i) => i = s
    BY <1>1, <1>2, <1>3, <2>2, IndexedPopped
  <2>. QED
    BY <2>1, <2>2
<1>8. Spine'
  BY <1>1, <1>2, <1>3, <1>4, SpineAbove
<1>9. Filled'
  BY <1>4 DEF Filled
<1>10. Depths' /\ ast_depth' \in Nat
  <2>1. \A i \in 1..N : Stacked(i) => h[values[i].ast].depth \in Nat
    BY <1>1, <1>2, HeapFields DEF Levels
  <2>. QED
    BY <1>1, <1>2, <1>3, <2>1, DepthsAbove
<1>11. Bottom'
  <2>1. command' = command
    BY DEF Stays
  <2>. QED
    BY <1>1, <1>2, <2>1, BottomAbove
<1>12. Gib(cl2, vc2, ix2)'
  BY <1>5, <1>6, <1>7, <1>8, <1>9, <1>10, <1>11 DEF Gib
<1>13. Control'
  <2>1. ast_depth' <= ast_depth
    BY <1>1
  <2>. QED
    BY <1>10, <2>1, ReducedControl
<1>14. Chained(cl2)'
  BY <1>4 DEF Chained
<1>15. command' \notin English
  BY LanguagesDiffer DEF Stays
<1>. QED
  BY <1>4, <1>12, <1>13, <1>14, <1>15 DEF State

\* The m values at the bottom are all there are.
AllOf(m) == m = N

\* The value v of the new node f.
PushedValue(v, f) ==
  /\ v.ast = f /\ v.target = NIL /\ v.list = <<>>
  /\ typeStack' = <<f>> \o typeStack
  /\ ast_depth' = ast_depth + (IF v.tag = "nested" THEN 1 ELSE 0) /\ ast_depth' <= MaxDepth
  /\ gc' # <<>> /\ gc'[Len(gc')] = IF gc = <<>> THEN f ELSE gc[Len(gc)]

\* The nodes there were, the top one now linked to f if v points to it.
PushedOn(v, f) ==
  \A n \in On :
    /\ h'[n].kind = h[n].kind /\ h'[n].depth = h[n].depth /\ h'[n].args = h[n].args
    /\ h'[n].name = h[n].name /\ h'[n].of = h[n].of
    /\ h'[n].parent = IF v.tag \in Pointing /\ n = values[N].ast THEN f ELSE h[n].parent

\* The new node.
PushedNode(v, f) ==
  /\ h'[f].of = IF v.tag \in Pointing THEN values[N].ast ELSE NIL
  /\ h'[f].parent = NIL /\ h'[f].args = <<>> /\ h'[f].depth = ast_depth /\ h'[f].name = NIL
  /\ v.tag = "type" => h'[f].kind \in {"builtin", "typedef"}
  /\ v.tag = "nested" => h'[f].kind = "placeholder"
  /\ v.tag \in Pointing => h'[f].kind = v.tag

\* A type, a pointer or a '(' is put on what there is.
LEMMA Pushed ==
  ASSUME NEW L, NEW G, NEW cl, NEW vc, NEW ix, State(L, G, cl, vc, ix), phase = "parse",
         command \in Gibberish, Stays,
         NEW m, AllOf(m), NEW v, Above(m, v), v.tag \in StackTag,
         N = 0 => v.tag = "type", N > 0 => Follows(values[N].tag, v.tag),
         NEW f \in Node \ live, ToSet(gc') = On \cup {f},
         Base(L, G)', PushedValue(v, f), PushedOn(v, f), PushedNode(v, f)
  PROVE  \E cl2, vc2, ix2 : State(L, G, cl2, vc2, ix2)'
<1>0. m = N
  BY DEF AllOf
<1>v. /\ v.ast = f /\ v.target = NIL /\ v.list = <<>>
      /\ typeStack' = <<f>> \o typeStack
      /\ ast_depth' = ast_depth + (IF v.tag = "nested" THEN 1 ELSE 0) /\ ast_depth' <= MaxDepth
      /\ gc' # <<>> /\ gc'[Len(gc')] = IF gc = <<>> THEN f ELSE gc[Len(gc)]
  BY DEF PushedValue
<1>p. \A n \in On :
        /\ h'[n].kind = h[n].kind /\ h'[n].depth = h[n].depth /\ h'[n].args = h[n].args
        /\ h'[n].name = h[n].name /\ h'[n].of = h[n].of
        /\ h'[n].parent = IF v.tag \in Pointing /\ n = values[N].ast THEN f ELSE h[n].parent
  BY DEF PushedOn
<1>q. /\ h'[f].of = IF v.tag \in Pointing THEN values[N].ast ELSE NIL
      /\ h'[f].parent = NIL /\ h'[f].args = <<>> /\ h'[f].depth = ast_depth /\ h'[f].name = NIL
      /\ v.tag = "type" => h'[f].kind \in {"builtin", "typedef"}
      /\ v.tag = "nested" => h'[f].kind = "placeholder"
      /\ v.tag \in Pointing => h'[f].kind = v.tag
  BY DEF PushedNode
<1>1. /\ N \in Nat /\ ast_depth \in Nat /\ h \in Heaps(Types, Names) /\ On \subseteq Node
      /\ On \subseteq live /\ NIL \notin Node
      /\ Gib(cl, vc, ix) /\ ValuesOK
  BY StateFacts DEF State
<1>2. /\ Grammar /\ Levels(cl, vc) /\ Indexed(ix) /\ Spine /\ Filled /\ Depths /\ Bottom
  BY <1>1 DEF Gib
<1>3. v.tag \in GibberishTag /\ v.tag \notin Declarator /\ v.tag # "args"
  BY Tags DEF GibberishTag
<1>4. On' = On \cup {f} /\ ValuesOK' /\ f \notin On /\ f \in Node
  BY <1>1 DEF Above, On
<1> DEFINE t == values[N].ast
<1>5. ASSUME v.tag # "type"
      PROVE  N > 0 /\ N \in 1..N /\ Stacked(N) /\ t \in On /\ cl[t] = vc[N]
  <2>1. N > 0 /\ N \in 1..N /\ Follows(values[N].tag, v.tag)
    BY <1>1, <1>5
  <2>2. Stacked(N)
    BY <1>5, <2>1 DEF Follows, Stacked
  <2>. QED
    BY <1>2, <2>1, <2>2 DEF Levels
<1>6. v.tag \in Pointing => v.tag # "type"
  BY Tags
<1>7. PICK d : /\ v.tag = "type" => d \notin {cl[n] : n \in On} \cup {vc[i] : i \in 1..N}
               /\ v.tag # "type" => d = vc[m]
  <2>1. \E d : d \notin {cl[n] : n \in On} \cup {vc[i] : i \in 1..N}
    BY NoSetContainsEverything
  <2>2. \E d : d = vc[m]
    OBVIOUS
  <2>. QED
    BY <2>1, <2>2
<1>80. PICK cl2 : cl2 = [n \in Node |-> IF n = f THEN d ELSE cl[n]]
  OBVIOUS
<1>81. PICK vc2 : vc2 = [i \in Nat |-> IF i = m + 1 THEN d ELSE vc[i]]
  OBVIOUS
<1>8. /\ \A n \in On : cl2[n] = cl[n]
      /\ cl2[f] = d /\ vc2[N + 1] = d
      /\ \A i \in 1..N : vc2[i] = vc[i]
  BY <1>0, <1>v, <1>p, <1>q, <1>1, <1>4, <1>80, <1>81
<1>9. /\ v.tag = "type" => (\A n \in On : cl[n] # d) /\ \A i \in 1..N : vc[i] # d
      /\ v.tag # "type" => d = vc[N] /\ N \in 1..N
  BY <1>0, <1>v, <1>p, <1>q, <1>5, <1>7
<1>10. Grammar'
  BY <1>0, <1>v, <1>p, <1>q, <1>1, <1>2, <1>3, GrammarAbove
<1>11. Levels(cl2, vc2)'
  <2>1. \A j \in 1..N : v.tag = "type" \/ values[j].tag = "args" => vc[j] # vc2[N + 1]
    <3>1. CASE v.tag = "type"
      BY <1>8, <1>9, <3>1
    <3>2. CASE v.tag # "type"
      <4>1. N > 0 /\ Follows(values[N].tag, v.tag)
        BY <1>5, <3>2
      <4>2. values[N].tag # "args"
        BY <3>2, <4>1 DEF Follows
      <4>3. \A j \in 1..N : j = N \/ j \in 1..N - 1
        BY <1>1
      <4>4. \A j \in 1..N - 1 : values[j].tag = "args" => vc[j] # vc[N]
        BY <1>2, <1>5, <3>2 DEF Levels
      <4>. QED
        BY <1>8, <1>9, <3>2, <4>2, <4>3, <4>4
    <3>. QED
      BY <3>1, <3>2
  <2>2. N > 0 /\ v.tag # "type" => vc2[N + 1] = vc[N]
    BY <1>8, <1>9
  <2>3. v.ast # NIL /\ v.ast \in On' /\ cl2[v.ast] = vc2[N + 1] /\ On \subseteq On'
    BY <1>0, <1>v, <1>p, <1>q, <1>1, <1>4, <1>8
  <2>4. v.tag \in StackTag => v.ast # NIL
    BY <2>3
  <2>5. /\ \A j \in 1..m : v.tag = "type" \/ values[j].tag = "args" => vc[j] # vc2[m + 1]
        /\ m > 0 /\ v.tag # "type" => vc2[m + 1] = vc[m]
        /\ v.ast # NIL => v.ast \in On' /\ cl2[v.ast] = vc2[m + 1]
        /\ \A i \in 1..m : vc2[i] = vc[i]
        /\ \A n \in On : cl2[n] = cl[n]
    BY <1>0, <1>v, <1>p, <1>q, <1>8, <2>1, <2>2, <2>3
  <2>6. /\ v.target # NIL => v.target \in On' /\ cl2[v.target] = vc2[m + 1]
        /\ v.tag = "args" => v.ast = NIL /\ v.target = NIL
        /\ v.tag # "args" => v.list = <<>>
    BY <1>0, <1>v, <1>p, <1>q, <1>3
  <2>7. On \subseteq On' /\ \A i \in 1..m : vc2[i] = vc[i]
    BY <2>3, <2>5
  <2>8. \A n \in On : cl2[n] = cl[n]
    BY <2>5
  <2>9. Levels(cl, vc) /\ N \in Nat
    BY <1>1, <1>2
  <2>. QED
    BY <2>4, <2>5, <2>6, <2>7, <2>8, <2>9, LevelsAbove
<1>12. PICK ix2 : Indexed(ix2)'
  <2>1. PICK jx : jx = <<N + 1>> \o ix
    OBVIOUS
  <2>2. Indexed(jx)'
    BY <1>0, <1>v, <1>p, <1>q, <1>1, <1>2, <1>4, <2>1, IndexedPushed
  <2>. QED
    BY <2>2
<1>13. \A i \in 1..N : Stacked(i) => values[i].ast \in On
  BY <1>2 DEF Levels
<1>14. \A i \in 1..N : values[i].ast \in On \cup {NIL} /\ values[i].target \in On \cup {NIL}
  BY <1>2 DEF Levels
<1>15. \A n \in On : h[n].of \in On \cup {NIL} /\ h[n].parent \in On \cup {NIL}
  BY StateFacts
<1>16. v.tag \in Pointing => t \in On /\ Stacked(N) /\ N \in 1..N /\ N > 0
  BY <1>5, <1>6
<1>17. \A i \in 1..N : Stacked(i) =>
         LET n == values[i].ast IN
         /\ h'[n].kind = h[n].kind
         /\ values[i].tag \in Pointing =>
              h'[n].of = h[n].of /\ h'[values[i - 1].ast].parent = h[values[i - 1].ast].parent
         /\ \A x \in On' : h'[x].parent = n => x \in On /\ h[x].parent = n
         /\ \A x \in On' : h'[x].of = n =>
              \/ x \in On /\ h[x].of = n
              \/ i = N /\ (v.tag \in Declarator \/ (v.tag \in Pointing /\ x = v.ast))
  <2> SUFFICES ASSUME NEW i \in 1..N, Stacked(i)
               PROVE
         /\ h'[values[i].ast].kind = h[values[i].ast].kind
         /\ values[i].tag \in Pointing =>
              /\ h'[values[i].ast].of = h[values[i].ast].of
              /\ h'[values[i - 1].ast].parent = h[values[i - 1].ast].parent
         /\ \A x \in On' : h'[x].parent = values[i].ast => x \in On /\ h[x].parent = values[i].ast
         /\ \A x \in On' : h'[x].of = values[i].ast =>
              \/ x \in On /\ h[x].of = values[i].ast
              \/ i = N /\ (v.tag \in Declarator \/ (v.tag \in Pointing /\ x = v.ast))
    OBVIOUS
  <2>1. values[i].ast \in On
    BY <1>13
  <2>2. ASSUME values[i].tag \in Pointing
        PROVE  i - 1 \in 1..N /\ Stacked(i - 1) /\ i - 1 # N
    <3>1. i # 1 /\ i > 1 /\ i - 1 \in 1..N /\ i - 1 # N
      BY <1>1, <1>2, <2>2, Tags DEF Grammar
    <3>2. Follows(values[i - 1].tag, values[i].tag)
      BY <1>2, <3>1 DEF Grammar
    <3>. QED
      BY <2>2, <3>1, <3>2, Tags DEF Follows, Stacked
  <2>3. ASSUME values[i].tag \in Pointing
        PROVE  h'[values[i - 1].ast].parent = h[values[i - 1].ast].parent
    <3>1. i - 1 \in 1..N /\ Stacked(i - 1) /\ i - 1 # N /\ values[i - 1].ast \in On
      BY <1>13, <2>2, <2>3
    <3>2. v.tag \in Pointing => values[i - 1].ast # t
      BY <1>2, <1>16, <3>1 DEF Spine
    <3>. QED
      BY <1>0, <1>v, <1>p, <1>q, <3>1, <3>2
  <2>4. \A x \in On' : h'[x].parent = values[i].ast => x \in On /\ h[x].parent = values[i].ast
    BY <1>0, <1>v, <1>p, <1>q, <1>1, <1>4, <2>1
  <2>5. ASSUME NEW x \in On', h'[x].of = values[i].ast
        PROVE  \/ x \in On /\ h[x].of = values[i].ast
               \/ i = N /\ (v.tag \in Declarator \/ (v.tag \in Pointing /\ x = v.ast))
    <3>1. CASE x \in On
      BY <1>0, <1>v, <1>p, <1>q, <2>5, <3>1
    <3>2. CASE x = f
      <4>1. v.tag \in Pointing /\ values[i].ast = t
        BY <1>0, <1>v, <1>p, <1>q, <1>1, <2>1, <2>5, <3>2
      <4>2. i = N
        BY <1>2, <1>16, <4>1 DEF Spine
      <4>. QED
        BY <1>0, <1>v, <1>p, <1>q, <3>2, <4>1, <4>2
    <3>. QED
      BY <1>4, <3>1, <3>2
  <2>. QED
    BY <1>0, <1>v, <1>p, <1>q, <2>1, <2>3, <2>4, <2>5
<1>18. /\ \A i \in 1..N : v.ast \notin {values[i].ast, values[i].target}
       /\ v.tag \in Pointing => /\ h'[v.ast].kind = v.tag /\ h'[v.ast].of = values[N].ast
                                /\ h'[values[N].ast].parent = v.ast
       /\ \A x \in On' : h'[x].parent = v.ast => v.tag \in Pointing /\ x = values[N].ast
       /\ \A x \in On' : h'[x].of # v.ast
  <2>1. \A i \in 1..N : v.ast \notin {values[i].ast, values[i].target}
    BY <1>0, <1>v, <1>p, <1>q, <1>1, <1>4, <1>14
  <2>2. v.tag \in Pointing => /\ h'[v.ast].kind = v.tag /\ h'[v.ast].of = values[N].ast
                              /\ h'[values[N].ast].parent = v.ast
    BY <1>0, <1>v, <1>p, <1>q, <1>16
  <2>3. \A x \in On' : h'[x].parent = v.ast => v.tag \in Pointing /\ x = values[N].ast
    <3>1. \A x \in On : h[x].parent # f
      BY <1>1, <1>4, <1>15
    <3>2. ASSUME NEW x \in On, h'[x].parent = f PROVE v.tag \in Pointing /\ x = values[N].ast
      BY <1>0, <1>v, <1>p, <1>q, <3>1, <3>2
    <3>3. h'[f].parent # f
      BY <1>0, <1>v, <1>p, <1>q, <1>1
    <3>. QED
      BY <1>0, <1>v, <1>p, <1>q, <1>4, <3>2, <3>3
  <2>4. \A x \in On' : h'[x].of # v.ast
    <3>1. \A x \in On : h'[x].of = h[x].of
      BY <1>0, <1>v, <1>p, <1>q
    <3>2. \A x \in On : h[x].of # f
      BY <1>1, <1>4, <1>15
    <3>3. h'[f].of # f
      BY <1>0, <1>v, <1>p, <1>q, <1>1, <1>4, <1>16
    <3>. QED
      BY <1>0, <1>v, <1>p, <1>q, <1>4, <3>1, <3>2, <3>3
  <2>. QED
    BY <2>1, <2>2, <2>3, <2>4
<1>19. Spine'
  BY <1>0, <1>v, <1>p, <1>q, <1>1, <1>2, <1>3, <1>17, <1>18, SpineAbove
<1>20. Filled'
  <2>1. ASSUME NEW n \in On
        PROVE  /\ h'[n].of # NIL => h'[h'[n].of].parent # NIL
               /\ h'[n].kind \in ParentKind => h'[n].of # NIL
    BY <1>0, <1>v, <1>p, <1>q, <1>1, <1>2, <1>4, <1>15 DEF Filled
  <2>2. h'[f].of # NIL => h'[h'[f].of].parent # NIL
    BY <1>0, <1>v, <1>p, <1>q, <1>1, <1>4, <1>16
  <2>3. h'[f].kind \in ParentKind => h'[f].of # NIL
    <3>1. ASSUME h'[f].kind \in ParentKind PROVE v.tag \in Pointing
      BY <1>0, <1>v, <1>p, <1>q, <3>1, Kinds, StackTags
    <3>. QED
      BY <1>0, <1>v, <1>p, <1>q, <1>1, <1>16, <3>1
  <2>. QED
    BY <1>4, <2>1, <2>2, <2>3 DEF Filled
<1>21. Depths' /\ ast_depth' \in Nat
  <2>1. \A i \in 1..N : Stacked(i) => h[values[i].ast].depth \in Nat
    BY <1>1, <1>13, HeapFields
  <2>2. \A i \in 1..N : Stacked(i) => h'[values[i].ast].depth = h[values[i].ast].depth
    BY <1>0, <1>v, <1>p, <1>q, <1>13
  <2>. QED
    BY <1>0, <1>v, <1>p, <1>q, <1>1, <1>2, <2>1, <2>2, DepthsAbove
<1>22. Bottom'
  <2>1. command' = command
    BY DEF Stays
  <2>2. gc' # gc
    BY <1>4 DEF On
  <2>3. m > 0 \/ (N = 0 /\ v.ast = f /\ gc' # gc)
    BY <1>0, <1>v, <1>p, <1>q, <1>1, <2>2
  <2>. QED
    BY <1>0, <1>v, <1>p, <1>q, <1>1, <1>2, <1>3, <2>1, <2>3, BottomAbove
<1>23. Lists(cl2, vc2)'
  <2>1. Lists(cl, vc)
    BY DEF State
  <2>2. \A n \in On : h'[n].args = h[n].args /\ ToSet(h[n].args) \subseteq On
    BY <1>0, <1>v, <1>p, <1>q, StateFacts
  <2>3. \A q \in 1..m + 1 : (\E p \in 1..N : vc2[q] = vc[p]) \/ \A n \in On : cl[n] # vc2[q]
    <3>1. \A q \in 1..m + 1 : q \in 1..N \/ q = N + 1
      BY <1>0, <1>v, <1>p, <1>q, <1>1
    <3>2. (\E p \in 1..N : vc2[N + 1] = vc[p]) \/ \A n \in On : cl[n] # vc2[N + 1]
      BY <1>8, <1>9
    <3>3. \A q \in 1..N : vc2[q] = vc[q]
      BY <1>8
    <3>. QED
      BY <3>1, <3>2, <3>3
  <2>4. m + 1 \in m + 1..N + 1
    BY <1>0, <1>v, <1>p, <1>q, <1>1
  <2>5. /\ \A n \in On : cl2[n] = cl[n] \/ \E q \in 1..N : vc[q] = cl[n]
        /\ {f} \cap On = {} /\ \A n \in {f} : h'[n].args = <<>>
    BY <1>0, <1>v, <1>p, <1>q, <1>4, <1>8
  <2>6. ToSet(gc') = On \cup {f} /\ N \in Nat /\ v.list = <<>> /\ Above(m, v)
    BY <1>0, <1>v, <1>p, <1>q, <1>1
  <2>7. PICK new, k : new = {f} /\ k = m + 1
    OBVIOUS
  <2>8. /\ ToSet(gc') = On \cup new /\ new \cap On = {} /\ k \in m + 1..N + 1
        /\ \A n \in new : h'[n].args = <<>> \/ (n = f /\ k <= N /\ h'[n].args = values[k].list)
    BY <2>4, <2>5, <2>6, <2>7
  <2>9. /\ \A n \in On : cl2[n] = cl[n] \/ \E q \in 1..N : vc[q] = cl[n]
        /\ v.list = <<>> \/ (f \notin new /\ k <= N /\ v.list = values[k].list)
    BY <2>5, <2>6
  <2>. QED
    <3>1. Moved(cl, vc, cl2, vc2, m, v, new, k, f)
      BY <2>2, <2>3, <2>6, <2>8, <2>9 DEF Moved
    <3>. QED
      BY <2>1, <2>6, <3>1, ListsMoved
<1>24. Chained(cl2)'
  <2>1. \A n \in On : /\ h[n].of # NIL => cl[h[n].of] = cl[n]
                      /\ h[n].parent # NIL => cl[h[n].parent] = cl[n]
    BY DEF State, Chained
  <2>2. v.tag \in Pointing => cl2[t] = cl2[f] /\ cl[t] = cl2[f]
    BY <1>5, <1>6, <1>8, <1>9
  <2>3. \A n \in On' : /\ h'[n].of # NIL => cl2[h'[n].of] = cl2[n]
                       /\ h'[n].parent # NIL => cl2[h'[n].parent] = cl2[n]
    <3>1. ASSUME NEW n \in On PROVE (h'[n].of # NIL => cl2[h'[n].of] = cl2[n])
      <4>1. h'[n].of = h[n].of /\ h[n].of \in On \cup {NIL}
        BY <1>0, <1>v, <1>p, <1>q, <1>15
      <4>. QED
        BY <1>8, <2>1, <4>1
    <3>2. ASSUME NEW n \in On PROVE (h'[n].parent # NIL => cl2[h'[n].parent] = cl2[n])
      <4>1. h[n].parent \in On \cup {NIL}
        BY <1>15
      <4>2. CASE v.tag \in Pointing /\ n = t
        BY <1>0, <1>v, <1>p, <1>q, <1>8, <2>2, <4>2
      <4>3. CASE ~(v.tag \in Pointing /\ n = t)
        BY <1>0, <1>v, <1>p, <1>q, <1>8, <2>1, <4>1, <4>3
      <4>. QED
        BY <4>2, <4>3
    <3>3. h'[f].of # NIL => cl2[h'[f].of] = cl2[f]
      BY <1>0, <1>v, <1>p, <1>q, <2>2
    <3>. QED
      BY <1>0, <1>v, <1>p, <1>q, <1>4, <3>1, <3>2, <3>3
  <2>. QED
    BY <2>3 DEF Chained
<1>25. Control'
  <2>1. Undefined' = Undefined
    BY DEF Stays, Undefined
  <2>2. ast_depth' \in 0..MaxDepth
    BY <1>0, <1>v, <1>p, <1>q, <1>21, ParserAssumption
  <2>3. \A n \in On' : h'[n].name \in Undefined \cup {NIL}
    BY <1>0, <1>v, <1>p, <1>q, <1>4 DEF State, Control
  <2>. QED
    BY <2>1, <2>2, <2>3 DEF State, Control, Stays
<1>26. Gib(cl2, vc2, ix2)'
  BY <1>10, <1>11, <1>12, <1>19, <1>20, <1>21, <1>22 DEF Gib
<1>27. command' \notin English
  BY LanguagesDiffer DEF Stays
<1>. QED
  BY <1>4, <1>23, <1>24, <1>25, <1>26, <1>27 DEF State

-----------------------------------------------------------------------------
(* New nodes.                                                              *)

\* The cell is a node of this kind, linked to nothing.
Fresh(cell, kind, depth) ==
  /\ cell \in Cells(Types, Names) /\ cell.kind = kind /\ cell.depth = depth
  /\ cell.parent = NIL /\ cell.of = NIL /\ cell.name = NIL
  /\ kind # "typedef" => cell.def = NIL
  /\ kind = "typedef" => cell.type = NIL

\* What the productions allocate.
LEMMA FreshCells ==
  ASSUME NEW depth \in Nat
  PROVE  /\ \A kind \in Kind \ {"typedef"} :
              Fresh(NewAst(kind, depth), kind, depth) /\ NewAst(kind, depth).args = <<>>
         /\ \A b \in BuiltinType \cup {"void"} :
              /\ Fresh([NewAst("builtin", depth) EXCEPT !.type = b], "builtin", depth)
              /\ [NewAst("builtin", depth) EXCEPT !.type = b].args = <<>>
         /\ \A t \in Name :
              /\ Fresh([NewAst("typedef", depth) EXCEPT !.def = t], "typedef", depth)
              /\ [NewAst("typedef", depth) EXCEPT !.def = t].args = <<>>
              /\ [NewAst("typedef", depth) EXCEPT !.def = t].def = t
         /\ \A args \in Seq(Node) :
              /\ Fresh([NewAst("function", depth) EXCEPT !.args = args], "function", depth)
              /\ [NewAst("function", depth) EXCEPT !.args = args].args = args
<1>1. NIL \in Types /\ NIL \in Names
  BY NilFacts
<1>2. \A kind \in Kind : NewAst(kind, depth) \in Cells(Types, Names)
  BY <1>1, CellsType
<1>3. \A kind \in Kind :
        LET cell == NewAst(kind, depth) IN
        /\ cell.kind = kind /\ cell.depth = depth /\ cell.parent = NIL /\ cell.of = NIL
        /\ cell.name = NIL /\ cell.def = NIL /\ cell.args = <<>>
  BY DEF NewAst, NoAst
<1>4. "builtin" \in Kind /\ "typedef" \in Kind /\ "function" \in Kind
      /\ "builtin" # "typedef" /\ "function" # "typedef"
  BY Kinds, KindsDiffer
<1>5. ASSUME NEW b \in BuiltinType \cup {"void"}
      PROVE  /\ Fresh([NewAst("builtin", depth) EXCEPT !.type = b], "builtin", depth)
             /\ [NewAst("builtin", depth) EXCEPT !.type = b].args = <<>>
  <2>1. NewAst("builtin", depth) \in Cells(Types, Names) /\ b \in Types
    BY <1>2, <1>4 DEF Types
  <2>2. [NewAst("builtin", depth) EXCEPT !.type = b] \in Cells(Types, Names)
    BY <2>1 DEF Cells
  <2>. QED
    BY <2>2, <1>4 DEF Fresh, NewAst, NoAst
<1>6. ASSUME NEW t \in Name
      PROVE  /\ Fresh([NewAst("typedef", depth) EXCEPT !.def = t], "typedef", depth)
             /\ [NewAst("typedef", depth) EXCEPT !.def = t].args = <<>>
             /\ [NewAst("typedef", depth) EXCEPT !.def = t].def = t
  <2>1. NewAst("typedef", depth) \in Cells(Types, Names) /\ t \in Names
    BY <1>2, <1>4 DEF Names
  <2>2. [NewAst("typedef", depth) EXCEPT !.def = t] \in Cells(Types, Names)
    BY <2>1 DEF Cells
  <2>. QED
    BY <2>2, <1>4 DEF Fresh, NewAst, NoAst
<1>7. ASSUME NEW args \in Seq(Node)
      PROVE  /\ Fresh([NewAst("function", depth) EXCEPT !.args = args], "function", depth)
             /\ [NewAst("function", depth) EXCEPT !.args = args].args = args
  <2>1. NewAst("function", depth) \in Cells(Types, Names)
    BY <1>2, <1>4
  <2>2. [NewAst("function", depth) EXCEPT !.args = args] \in Cells(Types, Names)
    BY <2>1 DEF Cells
  <2>. QED
    BY <2>2, <1>4 DEF Fresh, NewAst, NoAst
<1>8. \A kind \in Kind \ {"typedef"} :
        Fresh(NewAst(kind, depth), kind, depth) /\ NewAst(kind, depth).args = <<>>
  BY <1>2, <1>3 DEF Fresh
<1>. QED
  BY <1>5, <1>6, <1>7, <1>8

\* A new node that is linked to nothing.
LEMMA NewCell ==
  ASSUME NEW L, NEW G, Base(L, G), phase \notin {"exit", "exited"}, NEW f, Grows({f}),
         NEW cell, NEW kind \in Kind, NEW depth, Fresh(cell, kind, depth), cell.args = <<>>,
         kind = "typedef" => cell.def \in Defined, h' = [h EXCEPT ![f] = cell]
  PROVE  Base(L, G)' /\ h'[f] = cell /\ \A n \in Node \ {f} : h'[n] = h[n]
<1>1. /\ f \in Node /\ f \notin On /\ h \in Heaps(Types, Names) /\ NIL \notin Node
      /\ On \subseteq Node /\ ToSet(<<>>) = {}
  BY NilFacts DEF Grows, Base, HeapOK, ToSet
<1>2. h'[f] = cell /\ \A n \in Node \ {f} : h'[n] = h[n]
  BY <1>1 DEF Heaps
<1>3. h' \in Heaps(Types, Names)
  BY <1>1 DEF Heaps, Fresh
<1>4. \A n \in On : h'[n] = h[n]
  BY <1>1, <1>2
<1>5. Builds({f})
  <2>1. \A n \in On : h[n].of # NIL => h[n].kind \in ParentKind
    BY <1>1 DEF Base, HeapOK
  <2>2. \A n \in On : /\ h[n].of \in On \cup {NIL} /\ h[n].parent \in On \cup {NIL}
                      /\ h[n].parent # NIL => h[h[n].parent].kind \in ParentKind
    BY DEF Base, LinksOK
  <2>3. \A n \in On : /\ h'[n].of \in On \cup {NIL} /\ h'[n].parent \in On \cup {NIL}
                      /\ h'[n].parent # NIL => h'[h'[n].parent].kind \in ParentKind
    BY <1>4, <2>2
  <2>. QED
    BY <1>1, <1>2, <1>3, <1>4, <2>1, <2>3 DEF Builds, Fresh
<1>6. Base(L, G)'
  BY <1>1, <1>2, <1>4, <1>5, NewRoot DEF Fresh
<1>. QED
  BY <1>2, <1>6

\* A new node is linked to t.
LinksNew(f, cell, t) == h' = c_ast_set_parent([h EXCEPT ![f] = cell], t, f)

\* What links the new node to t.
NodeAbove(f, cell, t) ==
  /\ h'[f].kind = cell.kind /\ h'[f].of = t /\ h'[f].parent = NIL /\ h'[f].name = NIL
  /\ h'[f].depth = cell.depth /\ h'[f].args = cell.args /\ h'[f].type = cell.type
  /\ \A n \in On :
       /\ h'[n].kind = h[n].kind /\ h'[n].depth = h[n].depth /\ h'[n].args = h[n].args
       /\ h'[n].name = h[n].name /\ h'[n].of = h[n].of /\ h'[n].type = h[n].type
       /\ h'[n].parent = IF n = t THEN f ELSE h[n].parent

\* A new node above the root of what there is.
LEMMA NewAbove ==
  ASSUME NEW L, NEW G, Base(L, G), phase \notin {"exit", "exited"}, NEW f, Grows({f}),
         NEW cell, NEW kind \in ParentKind, NEW depth, Fresh(cell, kind, depth),
         ToSet(cell.args) \subseteq On, cell.args # <<>> => kind = "function",
         NEW t \in On, LinksNew(f, cell, t)
  PROVE  Base(L, G)' /\ NodeAbove(f, cell, t)
<1>1. /\ f \in Node /\ f \notin On /\ h \in Heaps(Types, Names) /\ NIL \notin Node
      /\ On \subseteq Node /\ f # t
  BY NilFacts DEF Grows, Base, HeapOK
<1> DEFINE g == [h EXCEPT ![f] = cell]
<1>2. g[f] = cell /\ \A n \in Node \ {f} : g[n] = h[n]
  BY <1>1 DEF Heaps
<1>3. g \in Heaps(Types, Names)
  BY <1>1 DEF Heaps, Fresh
<1>4. h' = c_ast_set_parent(g, t, f)
  BY DEF LinksNew
<1> HIDE DEF g
<1>5. h' \in Heaps(Types, Names) /\ Linked(g, h', t, f)
  <2>1. g[f].kind \in ParentKind /\ g[f].parent = NIL /\ t \in Node /\ f \in Node
    BY <1>1, <1>2 DEF Fresh
  <2>. QED
    BY <1>1, <1>3, <1>4, <2>1, SetParentDone
<1>6. /\ h'[f].kind = kind /\ h'[f].of = t /\ h'[f].parent = NIL /\ h'[f].name = NIL
      /\ h'[f].depth = depth /\ h'[f].args = cell.args /\ h'[f].def = cell.def
      /\ h'[f].type = cell.type
  BY <1>1, <1>2, <1>5 DEF Linked, SameData, Fresh
<1>7. \A n \in On :
        /\ h'[n].kind = h[n].kind /\ h'[n].depth = h[n].depth /\ h'[n].args = h[n].args
        /\ h'[n].name = h[n].name /\ h'[n].of = h[n].of /\ h'[n].def = h[n].def
        /\ h'[n].type = h[n].type
        /\ h'[n].parent = IF n = t THEN f ELSE h[n].parent
  <2>1. ASSUME NEW n \in On
        PROVE  /\ h'[n].kind = h[n].kind /\ h'[n].depth = h[n].depth /\ h'[n].args = h[n].args
               /\ h'[n].name = h[n].name /\ h'[n].of = h[n].of /\ h'[n].def = h[n].def
               /\ h'[n].type = h[n].type
               /\ h'[n].parent = IF n = t THEN f ELSE h[n].parent
    <3>1. n \in Node /\ n # f /\ g[n] = h[n]
      BY <1>1, <1>2
    <3>2. /\ h'[n].kind = g[n].kind /\ h'[n].depth = g[n].depth /\ h'[n].args = g[n].args
          /\ h'[n].name = g[n].name /\ h'[n].def = g[n].def /\ h'[n].type = g[n].type
      BY <1>5, <3>1 DEF Linked, SameData
    <3>3. h'[n].of = g[n].of /\ h'[n].parent = IF n = t THEN f ELSE g[n].parent
      BY <1>5, <3>1 DEF Linked
    <3>. QED
      BY <3>1, <3>2, <3>3
  <2>. QED
    BY <2>1
<1>8. \A n \in Node \ (On \cup {f}) : h'[n] = h[n]
  <2>1. ASSUME NEW n \in Node \ (On \cup {f})
        PROVE  h'[n] = h[n]
    <3>1. n # t /\ n # f /\ g[n] = h[n]
      BY <1>1, <1>2
    <3>2. /\ h'[n].kind = h[n].kind /\ h'[n].depth = h[n].depth /\ h'[n].args = h[n].args
          /\ h'[n].name = h[n].name /\ h'[n].of = h[n].of /\ h'[n].def = h[n].def
          /\ h'[n].parent = h[n].parent /\ h'[n].type = h[n].type
      BY <1>5, <3>1 DEF Linked, SameData
    <3>3. h'[n] \in Cells(Types, Names) /\ h[n] \in Cells(Types, Names)
      BY <1>1, <1>5, HeapFields
    <3>. QED
      BY <3>2, <3>3 DEF Cells
  <2>. QED
    BY <2>1
<1>9. Builds({f})
  <2>1. \A n \in On : h[n].of # NIL => h[n].kind \in ParentKind
    BY <1>1 DEF Base, HeapOK
  <2>2. \A n \in On : /\ h[n].of \in On \cup {NIL} /\ h[n].parent \in On \cup {NIL}
                      /\ h[n].parent # NIL => h[h[n].parent].kind \in ParentKind
    BY DEF Base, LinksOK
  <2>3. \A n \in On : /\ h'[n].of \in On \cup {NIL} /\ h'[n].parent \in On \cup {f, NIL}
                      /\ h'[n].parent # NIL => h'[h'[n].parent].kind \in ParentKind
    <3>1. ASSUME NEW n \in On PROVE (h'[n].parent # NIL => h'[h'[n].parent].kind \in ParentKind)
      <4>1. CASE n = t
        BY <1>6, <1>7, <4>1
      <4>2. CASE n # t
        <5>1. h'[n].parent = h[n].parent
          BY <1>7, <4>2
        <5>2. h[n].parent # NIL => h[n].parent \in On /\ h[h[n].parent].kind \in ParentKind
          BY <2>2
        <5>3. h[n].parent # NIL => h'[h[n].parent].kind = h[h[n].parent].kind
          BY <1>7, <5>2
        <5>. QED
          BY <5>1, <5>2, <5>3
      <4>. QED
        BY <4>1, <4>2
    <3>2. \A n \in On : h'[n].of \in On \cup {NIL} /\ h'[n].parent \in On \cup {f, NIL}
      BY <1>7, <2>2
    <3>. QED
      BY <3>1, <3>2
  <2>4. /\ h'[f].kind \in Kind /\ h'[f].kind # "typedef" /\ h'[f].def = NIL
        /\ ToSet(h'[f].args) \subseteq On
        /\ h'[f].args # <<>> => h'[f].kind = "function"
    <3>1. kind \in Kind /\ kind # "typedef"
      BY Kinds
    <3>. QED
      BY <1>6, <3>1 DEF Fresh
  <2>5. \A n \in On : /\ h'[n].kind = h[n].kind /\ h'[n].def = h[n].def
                      /\ h'[n].args = h[n].args /\ h'[n].type = h[n].type
                      /\ h'[n].of # NIL => h'[n].kind \in ParentKind
    BY <1>7, <2>1
  <2>6. h'[f].of \in On /\ h'[f].parent = NIL /\ h'[f].kind \in ParentKind
    BY <1>6
  <2>. QED
    BY <1>5, <1>8, <2>3, <2>4, <2>5, <2>6 DEF Builds
<1>10. Base(L, G)'
  <2>1. \A n \in On : h'[n].of = h[n].of /\ h'[n].parent \in {h[n].parent, f}
    BY <1>7
  <2>2. h'[f].parent = NIL /\ h'[f].of # f /\ f \notin ToSet(h'[f].args)
    BY <1>1, <1>6
  <2>. QED
    BY <1>9, <2>1, <2>2, NewRoot
<1>11. NodeAbove(f, cell, t)
  BY <1>6, <1>7 DEF NodeAbove, Fresh
<1>. QED
  BY <1>10, <1>11

-----------------------------------------------------------------------------
(* The productions of a gibberish command.                                 *)

\* Some classes and indices make the state one of the invariant.
Good(L, G) == \E cl, vc, ix : State(L, G, cl, vc, ix)

\* What no production changes.
LEMMA Frame ==
  ASSUME ProductionFrame
  PROVE  Stays
  BY DEF ProductionFrame, Stays

\* Allocation of one node.
LEMMA Allocated ==
  ASSUME NEW L, NEW G, HeapOK(L), Room(1), c_ast_new(<<Free1>>), ProductionFrame,
         NEW f, f = Free1
  PROVE  /\ f \in Node \ live /\ Grows({f}) /\ ToSet(gc') = On \cup {f}
         /\ gc' # <<>> /\ gc'[Len(gc')] = IF gc = <<>> THEN f ELSE gc[Len(gc)]
<1>1. f \in Node \ live
  BY RoomFree
<1>2. c_ast_new(<<f>>) /\ UNCHANGED <<typedefs, phase>>
  BY DEF ProductionFrame
<1>3. /\ Grows({f}) /\ gc' # <<>>
      /\ gc'[Len(gc')] = IF gc = <<>> THEN f ELSE gc[Len(gc)]
  BY <1>1, <1>2, OneNode
<1>. QED
  BY <1>1, <1>3 DEF Grows

\* The cell of a built-in type or of a type name.
ChosenCell(f, kind) ==
  \E cell : /\ Fresh(cell, kind, ast_depth) /\ cell.args = <<>>
            /\ kind = "typedef" => cell.def \in Defined
            /\ h' = [h EXCEPT ![f] = cell]

\* The productions for a built-in type and for a type name allocate such a node.
LEMMA TypeChosen ==
  ASSUME ast_depth \in Nat, NEW f, f = Free1
  PROVE  /\ builtin_type_ast_c => ChosenCell(f, "builtin")
         /\ typedef_type_ast_c => ChosenCell(f, "typedef")
<1>1. ASSUME builtin_type_ast_c PROVE ChosenCell(f, "builtin")
  <2>1. PICK b \in BuiltinType :
          h' = [h EXCEPT ![f] = [NewAst("builtin", ast_depth) EXCEPT !.type = b]]
    BY <1>1 DEF builtin_type_ast_c
  <2>2. PICK cell : cell = [NewAst("builtin", ast_depth) EXCEPT !.type = b]
    OBVIOUS
  <2>3. Fresh(cell, "builtin", ast_depth) /\ cell.args = <<>>
    BY <2>2, FreshCells
  <2>4. h' = [h EXCEPT ![f] = cell]
    BY <2>1, <2>2
  <2>. QED
    BY <2>3, <2>4, KindsDiffer DEF ChosenCell
<1>2. ASSUME typedef_type_ast_c PROVE ChosenCell(f, "typedef")
  <2>1. PICK t \in Defined :
          h' = [h EXCEPT ![f] = [NewAst("typedef", ast_depth) EXCEPT !.def = t]]
    BY <1>2 DEF typedef_type_ast_c
  <2>2. PICK cell : cell = [NewAst("typedef", ast_depth) EXCEPT !.def = t]
    OBVIOUS
  <2>3. t \in Name
    BY DEF Defined
  <2>4. Fresh(cell, "typedef", ast_depth) /\ cell.args = <<>> /\ cell.def = t
    BY <2>2, <2>3, FreshCells
  <2>5. h' = [h EXCEPT ![f] = cell]
    BY <2>1, <2>2
  <2>. QED
    BY <2>4, <2>5 DEF ChosenCell
<1>. QED
  BY <1>1, <1>2

\* A type is parsed.
LEMMA type_ast_c_Good ==
  ASSUME NEW L, NEW G, NEW cl, NEW vc, NEW ix, State(L, G, cl, vc, ix), type_ast_c
  PROVE  Good(L, G)'
<1>1. /\ phase = "parse" /\ command \in Gibberish /\ Room(1) /\ c_ast_new(<<Free1>>)
      /\ PushType("type", Free1) /\ ProductionFrame /\ UNCHANGED ast_depth
      /\ values = <<>> \/ TopIs({"args"})
      /\ builtin_type_ast_c \/ typedef_type_ast_c
  BY DEF type_ast_c, BeginType, ParsingGibberish
<1>2. PICK f : f = Free1
  OBVIOUS
<1>3. HeapOK(L) /\ Base(L, G) /\ ValuesOK /\ ast_depth \in Nat /\ ast_depth \in 0..MaxDepth
      /\ N \in Nat /\ On \subseteq Node
  BY StateFacts DEF State, Base, Control
<1>4. /\ f \in Node \ live /\ Grows({f}) /\ ToSet(gc') = On \cup {f}
      /\ gc' # <<>> /\ gc'[Len(gc')] = IF gc = <<>> THEN f ELSE gc[Len(gc)]
  BY <1>1, <1>2, <1>3, Allocated
<1>5. phase \notin {"exit", "exited"}
  BY <1>1
<1>6. ChosenCell(f, "builtin") \/ ChosenCell(f, "typedef")
  BY <1>1, <1>2, <1>3, TypeChosen
<1>70. PICK kind \in {"builtin", "typedef"} : ChosenCell(f, kind)
  BY <1>6
<1>7. PICK cell : /\ Fresh(cell, kind, ast_depth) /\ cell.args = <<>>
                  /\ kind = "typedef" => cell.def \in Defined
                  /\ h' = [h EXCEPT ![f] = cell]
  BY <1>70 DEF ChosenCell
<1>8. Base(L, G)' /\ h'[f] = cell /\ \A n \in Node \ {f} : h'[n] = h[n]
  <2>1. kind \in Kind
    BY Kinds
  <2>. QED
    BY <1>3, <1>4, <1>5, <1>7, <2>1, NewCell
<1>9. PICK v : v = Value("type", f)
  OBVIOUS
<1>10. /\ IsValue(v) /\ v.tag = "type" /\ v.ast = f /\ v.target = NIL /\ v.list = <<>>
       /\ v.list \in Seq(Node)
  <2>1. LET u == Value("type", f)
        IN  /\ IsValue(u) /\ u.tag = "type" /\ u.ast = f /\ u.target = NIL /\ u.list = <<>>
            /\ <<>> \in Seq(Node)
    BY ValueFields
  <2>. QED
    BY <1>9, <2>1
<1>11. values' = Append(values, v) /\ typeStack' = <<f>> \o typeStack
  BY <1>1, <1>2, <1>9 DEF PushType
<1>12. PICK m : AllOf(m)
  BY DEF AllOf
<1>13. Above(m, v)
  BY <1>3, <1>10, <1>11, <1>12, AppendAbove DEF AllOf
<1>14. PushedValue(v, f)
  BY <1>1, <1>3, <1>4, <1>10, <1>11, Tags DEF PushedValue
<1>15. PushedOn(v, f) /\ PushedNode(v, f)
  <2>1. f \notin On
    BY <1>3, <1>4 DEF HeapOK
  <2>2. \A n \in On : h'[n] = h[n]
    BY <1>3, <1>8, <2>1
  <2>3. v.tag \notin Pointing /\ v.tag # "nested"
    BY <1>10, Tags
  <2>4. PushedOn(v, f)
    BY <2>2, <2>3 DEF PushedOn
  <2>5. PushedNode(v, f)
    BY <1>7, <1>8, <2>3 DEF PushedNode, Fresh
  <2>. QED
    BY <2>4, <2>5
<1>16. N > 0 => Follows(values[N].tag, v.tag)
  <2>1. ASSUME N > 0
        PROVE  values[N].tag = "args"
    <3>1. values # <<>>
      BY <2>1 DEF N
    <3>. QED
      BY <1>1, <3>1 DEF TopIs, Top, N
  <2>. QED
    BY <1>10, <2>1, Tags DEF Follows
<1>17. Stays /\ v.tag \in StackTag
  BY <1>1, <1>10, Frame, Tags
<1>18. \E cl2, vc2, ix2 : State(L, G, cl2, vc2, ix2)'
  BY <1>1, <1>4, <1>8, <1>10, <1>12, <1>13, <1>14, <1>15, <1>16, <1>17, Pushed
<1>. QED
  BY <1>18 DEF Good

\* Where a declarator may begin, the node on top is that on top of the type stack.
LEMMA TopStacked ==
  ASSUME NEW L, NEW G, NEW cl, NEW vc, NEW ix, State(L, G, cl, vc, ix), BeginDeclarator
  PROVE  /\ phase = "parse" /\ command \in Gibberish /\ N \in Nat /\ N > 0 /\ N \in 1..N
         /\ Stacked(N) /\ type_peek = values[N].ast /\ values[N].ast \in On
         /\ cl[values[N].ast] = vc[N]
<1>1. /\ phase = "parse" /\ command \in Gibberish /\ values # <<>> /\ Top.tag \in StackTag
  BY DEF BeginDeclarator, ParsingGibberish, TopIs, StackTag
<1>2. /\ N \in Nat /\ Levels(cl, vc) /\ Indexed(ix) /\ ValuesOK
  BY <1>1, StateFacts DEF State, Gib
<1>3. N # 0
  BY <1>1, <1>2 DEF ValuesOK, N
<1>4. N > 0 /\ N \in 1..N /\ \A i \in N + 1..N : ~Stacked(i)
  BY <1>2, <1>3
<1>5. Stacked(N)
  BY <1>1 DEF Stacked, Top, N
<1>6. type_peek = values[N].ast
  BY <1>2, <1>4, <1>5, TopIndex
<1>7. values[N].ast \in On /\ cl[values[N].ast] = vc[N]
  BY <1>2, <1>4, <1>5 DEF Levels
<1>. QED
  BY <1>1, <1>2, <1>4, <1>5, <1>6, <1>7

\* A '*', '&' or '^' is parsed.
LEMMA derived_type_c_Good ==
  ASSUME NEW L, NEW G, NEW cl, NEW vc, NEW ix, State(L, G, cl, vc, ix),
         NEW kind \in Pointing, derived_type_c(kind)
  PROVE  Good(L, G)'
<1>1. /\ Room(1) /\ c_ast_new(<<Free1>>) /\ BeginDeclarator
      /\ PushType(kind, Free1) /\ ProductionFrame /\ UNCHANGED ast_depth
  BY DEF derived_type_c
<1>2. PICK f : f = Free1
  OBVIOUS
<1>30. ast_depth \in 0..MaxDepth /\ MaxDepth \in Nat
  BY ParserAssumption DEF State, Control
<1>3. /\ HeapOK(L) /\ Base(L, G) /\ ValuesOK /\ ast_depth \in Nat /\ ast_depth <= MaxDepth
      /\ On \subseteq Node
  <2>1. HeapOK(L) /\ Base(L, G) /\ ValuesOK /\ ast_depth \in Nat /\ On \subseteq Node
    BY StateFacts DEF State, Base
  <2>2. ast_depth <= MaxDepth
    BY <1>30
  <2>. QED
    BY <2>1, <2>2
<1>4. /\ f \in Node \ live /\ Grows({f}) /\ ToSet(gc') = On \cup {f}
      /\ gc' # <<>> /\ gc'[Len(gc')] = IF gc = <<>> THEN f ELSE gc[Len(gc)]
  BY <1>1, <1>2, <1>3, Allocated
<1>5. /\ phase = "parse" /\ command \in Gibberish /\ N \in Nat /\ N > 0 /\ N \in 1..N
      /\ Stacked(N) /\ type_peek = values[N].ast /\ values[N].ast \in On
  BY <1>1, TopStacked
<1>6. phase \notin {"exit", "exited"}
  BY <1>5
<1>7. PICK cell : cell = NewAst(kind, ast_depth)
  OBVIOUS
<1>8. kind \in ParentKind /\ Fresh(cell, kind, ast_depth) /\ cell.args = <<>>
  <2>1. kind \in ParentKind /\ kind \in Kind \ {"typedef"}
    BY Kinds
  <2>. QED
    BY <1>3, <1>7, <2>1, FreshCells
<1>9. PICK t : t = values[N].ast
  OBVIOUS
<1>10. t \in On /\ LinksNew(f, cell, t)
  BY <1>2, <1>5, <1>7, <1>9 DEF derived_type_c, LinksNew
<1>11. /\ Base(L, G)'
       /\ h'[f].kind = kind /\ h'[f].of = t /\ h'[f].parent = NIL /\ h'[f].name = NIL
       /\ h'[f].depth = ast_depth /\ h'[f].args = cell.args
       /\ \A n \in On :
            /\ h'[n].kind = h[n].kind /\ h'[n].depth = h[n].depth /\ h'[n].args = h[n].args
            /\ h'[n].name = h[n].name /\ h'[n].of = h[n].of
            /\ h'[n].parent = IF n = t THEN f ELSE h[n].parent
  <2>1. ToSet(cell.args) \subseteq On
    BY <1>8, NoClasses
  <2>2. PICK depth : depth = ast_depth
    OBVIOUS
  <2>3. Fresh(cell, kind, depth) /\ kind \in ParentKind /\ (cell.args # <<>> => kind = "function")
    BY <1>8, <2>2
  <2>4. Base(L, G) /\ Grows({f}) /\ t \in On /\ LinksNew(f, cell, t)
    BY <1>3, <1>4, <1>10
  <2>5. Base(L, G)' /\ NodeAbove(f, cell, t)
    BY <1>6, <2>1, <2>3, <2>4, NewAbove
  <2>. QED
    BY <1>8, <2>5 DEF NodeAbove, Fresh
<1>12. PICK v : v = Value(kind, f)
  OBVIOUS
<1>13. /\ IsValue(v) /\ v.tag = kind /\ v.ast = f /\ v.target = NIL /\ v.list = <<>>
       /\ v.list \in Seq(Node)
  <2>1. /\ IsValue(Value(kind, f)) /\ Value(kind, f).tag = kind /\ Value(kind, f).ast = f
        /\ Value(kind, f).target = NIL /\ Value(kind, f).list = <<>> /\ <<>> \in Seq(Node)
    BY ValueFields
  <2>. QED
    BY <1>12, <2>1
<1>14. values' = Append(values, v) /\ typeStack' = <<f>> \o typeStack
  BY <1>1, <1>2, <1>12 DEF PushType
<1>15. PICK m : AllOf(m)
  BY DEF AllOf
<1>16. Above(m, v)
  BY <1>3, <1>13, <1>14, <1>15, AppendAbove DEF AllOf
<1>17. v.tag \in Pointing /\ v.tag # "nested" /\ v.tag # "type"
  BY <1>13, Tags
<1>18. PushedValue(v, f)
  BY <1>1, <1>3, <1>4, <1>13, <1>14, <1>17 DEF PushedValue
<1>19. PushedOn(v, f)
  BY <1>9, <1>11, <1>17 DEF PushedOn
<1>20. PushedNode(v, f)
  BY <1>8, <1>9, <1>11, <1>13, <1>17 DEF PushedNode
<1>21. Follows(values[N].tag, v.tag)
  <2>1. values[N].tag # "args" /\ values[N].tag \in StackTag /\ v.tag # "args"
    BY <1>5, <1>17, Tags DEF Stacked
  <2>. QED
    BY <1>17, <2>1 DEF Follows
<1>22. Stays /\ v.tag \in StackTag
  BY <1>1, <1>17, Frame, Tags
<1>23. \E cl2, vc2, ix2 : State(L, G, cl2, vc2, ix2)'
  BY <1>4, <1>5, <1>11, <1>15, <1>16, <1>18, <1>19, <1>20, <1>21, <1>22, Pushed
<1>. QED
  BY <1>23 DEF Good

\* A '(' is parsed.
LEMMA placeholder_type_ast_c_Good ==
  ASSUME NEW L, NEW G, NEW cl, NEW vc, NEW ix, State(L, G, cl, vc, ix), placeholder_type_ast_c
  PROVE  Good(L, G)'
<1>1. /\ Room(1) /\ c_ast_new(<<Free1>>) /\ BeginDeclarator
      /\ PushType("nested", Free1) /\ ProductionFrame
      /\ ast_depth < MaxDepth /\ ast_depth' = ast_depth + 1
  BY DEF placeholder_type_ast_c
<1>2. PICK f : f = Free1
  OBVIOUS
<1>30. ast_depth \in 0..MaxDepth /\ MaxDepth \in Nat
  BY ParserAssumption DEF State, Control
<1>3. /\ HeapOK(L) /\ Base(L, G) /\ ValuesOK /\ ast_depth \in Nat /\ ast_depth <= MaxDepth
      /\ On \subseteq Node
  <2>1. HeapOK(L) /\ Base(L, G) /\ ValuesOK /\ ast_depth \in Nat /\ On \subseteq Node
    BY StateFacts DEF State, Base
  <2>2. ast_depth <= MaxDepth
    BY <1>30
  <2>. QED
    BY <2>1, <2>2
<1>4. /\ f \in Node \ live /\ Grows({f}) /\ ToSet(gc') = On \cup {f}
      /\ gc' # <<>> /\ gc'[Len(gc')] = IF gc = <<>> THEN f ELSE gc[Len(gc)]
  BY <1>1, <1>2, <1>3, Allocated
<1>5. /\ phase = "parse" /\ command \in Gibberish /\ N \in Nat /\ N > 0 /\ N \in 1..N
      /\ Stacked(N) /\ type_peek = values[N].ast /\ values[N].ast \in On
  BY <1>1, TopStacked
<1>6. phase \notin {"exit", "exited"}
  BY <1>5
<1>7. PICK cell : cell = NewAst("placeholder", ast_depth)
  OBVIOUS
<1>8. "placeholder" \in Kind /\ Fresh(cell, "placeholder", ast_depth) /\ cell.args = <<>>
      /\ "placeholder" # "typedef"
  <2>1. "placeholder" \in Kind \ {"typedef"}
    BY Kinds, KindsDiffer
  <2>. QED
    BY <1>3, <1>7, <2>1, FreshCells
<1>10. h' = [h EXCEPT ![f] = cell]
  BY <1>2, <1>7 DEF placeholder_type_ast_c
<1>11. Base(L, G)' /\ h'[f] = cell /\ \A n \in Node \ {f} : h'[n] = h[n]
  BY <1>3, <1>4, <1>6, <1>8, <1>10, NewCell
<1>12. PICK v : v = Value("nested", f)
  OBVIOUS
<1>13. /\ IsValue(v) /\ v.tag = "nested" /\ v.ast = f /\ v.target = NIL /\ v.list = <<>>
       /\ v.list \in Seq(Node)
  <2>1. PICK tag : tag = "nested"
    OBVIOUS
  <2>2. /\ IsValue(Value(tag, f)) /\ Value(tag, f).tag = tag /\ Value(tag, f).ast = f
        /\ Value(tag, f).target = NIL /\ Value(tag, f).list = <<>> /\ <<>> \in Seq(Node)
    BY ValueFields
  <2>3. v = Value(tag, f)
    BY <1>12, <2>1
  <2>. QED
    BY <2>1, <2>2, <2>3
<1>14. values' = Append(values, v) /\ typeStack' = <<f>> \o typeStack
  BY <1>1, <1>2, <1>12 DEF PushType
<1>15. PICK m : AllOf(m)
  BY DEF AllOf
<1>16. Above(m, v)
  BY <1>3, <1>13, <1>14, <1>15, AppendAbove DEF AllOf
<1>17. v.tag \notin Pointing /\ v.tag # "type"
  BY <1>13, Tags
<1>18. PushedValue(v, f)
  <2>1. ast_depth' <= MaxDepth
    BY <1>1, <1>3, ParserAssumption
  <2>. QED
    BY <1>1, <1>3, <1>4, <1>13, <1>14, <2>1 DEF PushedValue
<1>19. PushedOn(v, f) /\ PushedNode(v, f)
  <2>1. f \notin On
    BY <1>3, <1>4 DEF HeapOK
  <2>2. \A n \in On : h'[n] = h[n]
    BY <1>3, <1>11, <2>1
  <2>4. PushedOn(v, f)
    BY <1>17, <2>2 DEF PushedOn
  <2>5. PushedNode(v, f)
    BY <1>8, <1>11, <1>17 DEF PushedNode, Fresh
  <2>. QED
    BY <2>4, <2>5
<1>21. Follows(values[N].tag, v.tag)
  <2>1. values[N].tag # "args" /\ values[N].tag \in StackTag /\ v.tag # "args"
    BY <1>5, <1>13, Tags DEF Stacked
  <2>. QED
    BY <1>17, <2>1 DEF Follows
<1>22. Stays /\ v.tag \in StackTag
  BY <1>1, <1>13, Frame, Tags
<1>23. \E cl2, vc2, ix2 : State(L, G, cl2, vc2, ix2)'
  BY <1>4, <1>5, <1>11, <1>15, <1>16, <1>18, <1>19, <1>21, <1>22, Pushed
<1>. QED
  BY <1>23 DEF Good

\* The links stay; at most the names of the nodes on the list change.
Unlinked ==
  /\ h' \in Heaps(Types, Names) /\ SameLinks(h, h') /\ UNCHANGED <<live, gc, recursive>>
  /\ \A n \in Node \ On : h'[n] = h[n]
  /\ \A n \in On : h'[n].name \in Undefined \cup {NIL}

\* What is said of the heap is not about names.
LEMMA UnlinkedBase ==
  ASSUME NEW L, NEW G, Base(L, G), Unlinked, Stays
  PROVE  Base(L, G)'
<1>1. /\ On' = On /\ Owned(L)' = Owned(L) /\ Defined' = Defined /\ phase' = phase
      /\ typedefs' = typedefs /\ live' = live /\ gc' = gc /\ recursive' = recursive
  BY DEF Unlinked, Stays, On, Owned, Defined, Undefined
<1>2. /\ On \subseteq Node /\ On \subseteq live /\ Owned(L) \subseteq Node /\ L \subseteq Node
      /\ live \subseteq Node
  BY DEF Base, HeapOK, Owned
<1>3. \A n \in Node : /\ h'[n].kind = h[n].kind /\ h'[n].def = h[n].def
                      /\ h'[n].parent = h[n].parent /\ h'[n].of = h[n].of
                      /\ h'[n].args = h[n].args /\ h'[n].type = h[n].type
  BY DEF Unlinked, SameLinks
<1>4. HeapOK(L)'
  <2>1. \A n \in Node \ live : h'[n] = NoAst
    BY <1>2 DEF Unlinked, Base, HeapOK
  <2>2. \A n \in live : h'[n].kind \in Kind
    BY <1>2, <1>3 DEF Base, HeapOK
  <2>3. \A n \in Node : /\ h'[n].kind = "typedef" => h'[n].def \in Name
                        /\ h'[n].args # <<>> => h'[n].kind = "function"
                        /\ h'[n].of # NIL => h'[n].kind \in ParentKind
                        /\ h'[n].def # NIL => h'[n].kind = "typedef"
                        /\ h'[n].kind = "typedef" => h'[n].type = NIL
    BY <1>3 DEF Base, HeapOK
  <2>. QED
    BY <1>1, <2>1, <2>2, <2>3 DEF Base, HeapOK, Unlinked
<1>5. LinksOK(L)'
  <2>1. \A n \in On : /\ h'[n].of \in On \cup {NIL} /\ h'[n].parent \in On \cup {NIL}
                      /\ ToSet(h'[n].args) \subseteq On
    BY <1>2, <1>3 DEF Base, LinksOK
  <2>2. \A n \in On : h'[n].parent # NIL => h'[h'[n].parent].kind \in ParentKind
    <3>1. ASSUME NEW n \in On, h[n].parent # NIL
          PROVE  h'[n].parent = h[n].parent /\ h[n].parent \in Node
                 /\ h[h[n].parent].kind \in ParentKind
      BY <1>2, <1>3, <3>1 DEF Base, LinksOK
    <3>. QED
      BY <1>2, <1>3, <3>1
  <2>3. \A n \in Owned(L) : /\ h'[n].of \in Owned(L) \cup {NIL}
                            /\ ToSet(h'[n].args) \subseteq Owned(L)
    BY <1>2, <1>3 DEF Base, LinksOK
  <2>4. \A n \in L : ToSet(h'[n].args) \subseteq L
    BY <1>2, <1>3 DEF Base, LinksOK
  <2>. QED
    BY <1>1, <2>1, <2>2, <2>3, <2>4 DEF LinksOK
<1>6. TableOK(L)'
  <2>1. Edges(h', typedefs, On, L) \subseteq Edges(h, typedefs, On, L)
    <3>1. ASSUME NEW e \in Edges(h', typedefs, On, L)
          PROVE  e \in Edges(h, typedefs, On, L)
      <4>1. /\ e \in Node \X Node /\ e[1] \in Node /\ e[2] \in Node /\ (e[1] \in L => e[2] \in L)
            /\ \/ e[2] = h'[e[1]].of
               \/ e[2] \in ToSet(h'[e[1]].args)
               \/ e[1] \in On /\ e[2] \in On /\ e[1] = h'[e[2]].parent
               \/ h'[e[1]].kind = "typedef" /\ e[2] = typedefs[h'[e[1]].def]
        BY <3>1 DEF Edges
      <4>2. \/ e[2] = h[e[1]].of
            \/ e[2] \in ToSet(h[e[1]].args)
            \/ e[1] \in On /\ e[2] \in On /\ e[1] = h[e[2]].parent
            \/ h[e[1]].kind = "typedef" /\ e[2] = typedefs[h[e[1]].def]
        BY <1>3, <4>1
      <4>. QED
        BY <4>1, <4>2 DEF Edges
    <3>. QED
      BY <3>1
  <2>2. WellFounded(Node, Edges(h, typedefs, On, L))
    BY DEF Base, TableOK
  <2>3. WellFounded(Node, Edges(h', typedefs, On, L))
    BY <2>1, <2>2 DEF WellFounded
  <2>4. phase \notin {"exit", "exited"} =>
          \A n \in live : h'[n].kind = "typedef" => h'[n].def \in Defined
    BY <1>2, <1>3 DEF Base, TableOK
  <2>5. /\ \A t \in Defined : typedefs[t] \in Owned(L)
        /\ \A s, t \in Defined : s # t => typedefs[s] # typedefs[t]
    BY DEF Base, TableOK
  <2>. QED
    BY <1>1, <2>3, <2>4, <2>5 DEF TableOK
<1>7. Kept(G)'
  BY <1>1 DEF Base, HeapOK, Kept, Unlinked
<1>. QED
  BY <1>4, <1>5, <1>6, <1>7 DEF Base

\* A value without a list takes the place of what is above m.
LEMMA ListsKept ==
  ASSUME NEW cl, NEW vc, Lists(cl, vc), NEW vc2, NEW m, NEW v, Above(m, v), m > 0,
         N \in Nat, On' = On, \A n \in On : ToSet(h[n].args) \subseteq On,
         \A n \in On : h'[n].args = h[n].args,
         \A i \in 1..m : vc2[i] = vc[i], vc2[m + 1] = vc[m], v.list = <<>>
  PROVE  Lists(cl, vc2)'
<1>1. m \in 0..N /\ m \in 1..N
  BY DEF Above
<1>2. PICK new, k : new = {} /\ k = N + 1
  OBVIOUS
<1>3. /\ ToSet(gc') = On \cup new /\ new \cap On = {} /\ k \in m + 1..N + 1
      /\ \A n \in new : h'[n].args = <<>> \/ (n = k /\ k <= N /\ h'[n].args = values[k].list)
      /\ \A n \in On : h'[n].args = h[n].args /\ ToSet(h[n].args) \subseteq On
      /\ \A n \in On : cl[n] = cl[n] \/ \E q \in 1..N : vc[q] = cl[n]
  BY <1>1, <1>2 DEF On
<1>4. v.list = <<>> \/ (k \notin new /\ k <= N /\ v.list = values[k].list)
  OBVIOUS
<1>5. \A q \in 1..m + 1 : (\E p \in 1..N : vc2[q] = vc[p]) \/ \A n \in On : cl[n] # vc2[q]
  <2>1. \A q \in 1..m + 1 : q \in 1..m \/ q = m + 1
    BY <1>1
  <2>2. 1..m \subseteq 1..N
    BY <1>1
  <2>. QED
    BY <1>1, <2>1, <2>2
<1>. QED
  <2>1. Moved(cl, vc, cl, vc2, m, v, new, k, k)
    BY <1>3, <1>4, <1>5 DEF Moved
  <2>. QED
    BY <2>1, ListsMoved

\* A value takes the place of what is above m, and no node is linked.
LEMMA ReducedSame ==
  ASSUME NEW L, NEW G, NEW cl, NEW vc, NEW ix, State(L, G, cl, vc, ix), phase = "parse",
         command \in Gibberish, Stays, Unlinked,
         NEW m, NEW v, Above(m, v), m > 0, v.tag \in Declarator \cup {"args"},
         Follows(values[m].tag, v.tag), Popped(m, v),
         m = N \/ v.tag \in Declarator \/ ~Stacked(m), Fits({}, cl, vc, m, v),
         NEW vc2, \A i \in 1..m : vc2[i] = vc[i], vc2[m + 1] = vc[m], Lists(cl, vc2)'
  PROVE  Good(L, G)'
<1>1. /\ N \in Nat /\ ast_depth \in Nat /\ h \in Heaps(Types, Names) /\ On \subseteq Node
      /\ NIL \notin Node /\ Base(L, G) /\ Gib(cl, vc, ix) /\ Chained(cl)
      /\ \A n \in On : h[n].of \in On \cup {NIL} /\ h[n].parent \in On \cup {NIL}
  BY StateFacts DEF State
<1>2. PICK new : new = {}
  OBVIOUS
<1>3. /\ ToSet(gc') = On \cup new /\ new \cap On = {} /\ gc' = gc
      /\ \A n \in On \cup new : h'[n].name \in Undefined \cup {NIL}
  BY <1>2 DEF Unlinked, On
<1>4. Base(L, G)'
  BY <1>1, UnlinkedBase
<1>5. \A n \in Node : /\ h'[n].kind = h[n].kind /\ h'[n].depth = h[n].depth
                      /\ h'[n].parent = h[n].parent /\ h'[n].of = h[n].of
  BY DEF Unlinked, SameLinks
<1>6. \A n \in On \cup new : /\ h'[n].of # NIL => cl[h'[n].of] = cl[n]
                             /\ h'[n].parent # NIL => cl[h'[n].parent] = cl[n]
                             /\ h'[n].of # NIL => h'[h'[n].of].parent # NIL
                             /\ h'[n].kind \in ParentKind => h'[n].of # NIL
  <2>1. ASSUME NEW n \in On
        PROVE  /\ h[n].of # NIL => cl[h[n].of] = cl[n]
               /\ h[n].parent # NIL => cl[h[n].parent] = cl[n]
               /\ h[n].of # NIL => h[n].of \in Node /\ h[h[n].of].parent # NIL
               /\ h[n].kind \in ParentKind => h[n].of # NIL
    BY <1>1 DEF Chained, Gib, Filled
  <2>2. ASSUME NEW n \in On
        PROVE  /\ h'[n].of # NIL => cl[h'[n].of] = cl[n]
               /\ h'[n].parent # NIL => cl[h'[n].parent] = cl[n]
               /\ h'[n].of # NIL => h'[h'[n].of].parent # NIL
               /\ h'[n].kind \in ParentKind => h'[n].of # NIL
    <3>1. /\ h'[n].kind = h[n].kind /\ h'[n].parent = h[n].parent /\ h'[n].of = h[n].of
      BY <1>1, <1>5
    <3>2. h[n].of # NIL => h'[h[n].of].parent = h[h[n].of].parent
      BY <1>5, <2>1
    <3>. QED
      BY <2>1, <3>1, <3>2
  <2>. QED
    BY <1>2, <2>2
<1>7. \A i \in 1..m : Stacked(i) => i \in 1..N /\ values[i].ast \in Node
                                   /\ (values[i].tag \in Pointing => values[i - 1].ast \in Node)
  <2>1. ASSUME NEW i \in 1..m, Stacked(i)
        PROVE  i \in 1..N /\ values[i].ast \in Node
    <3>1. i \in 1..N
      BY <1>1 DEF Above
    <3>. QED
      BY <1>1, <2>1, <3>1 DEF Gib, Levels
  <2>2. ASSUME NEW i \in 1..m, Stacked(i), values[i].tag \in Pointing
        PROVE  values[i - 1].ast \in Node
    <3>1. i \in 1..N
      BY <1>1 DEF Above
    <3>2. i > 1 /\ i - 1 \in 1..N
      BY <1>1, <2>2, <3>1, Tags DEF Gib, Grammar
    <3>3. Stacked(i - 1)
      BY <1>1, <2>2, <3>1, <3>2, Tags DEF Gib, Grammar, Follows, Stacked
    <3>. QED
      BY <1>1, <3>2, <3>3 DEF Gib, Levels
  <2>. QED
    BY <2>1, <2>2
<1>8. \A i \in 1..m : Stacked(i) =>
        LET n == values[i].ast IN
        /\ h'[n].kind = h[n].kind /\ h'[n].depth = h[n].depth
        /\ values[i].tag \in Pointing =>
             h'[n].of = h[n].of /\ h'[values[i - 1].ast].parent = h[values[i - 1].ast].parent
        /\ \A c \in On \cup new : h'[c].parent = n => c \in On /\ h[c].parent = n
        /\ \A c \in On \cup new : h'[c].of = n =>
             (c \in On /\ h[c].of = n) \/ (i = m /\ v.tag \in Declarator)
  BY <1>1, <1>2, <1>5, <1>7
<1>9. Relinked(new, cl, m, v)
  BY <1>6, <1>8 DEF Relinked
<1>10. Fits(new, cl, vc, m, v)
  BY <1>2
<1>11. NewTop(m)
  BY <1>3 DEF NewTop
<1>12. \E ix2 : State(L, G, cl, vc2, ix2)'
  BY <1>3, <1>4, <1>9, <1>10, <1>11, Reduced
<1>. QED
  BY <1>12 DEF Good

\* The value takes the place of what is above m; no list is on the values replaced.
LEMMA ReducedKept ==
  ASSUME NEW L, NEW G, NEW cl, NEW vc, NEW ix, State(L, G, cl, vc, ix), phase = "parse",
         command \in Gibberish, Stays, Unlinked,
         NEW m, NEW v, Above(m, v), m > 0, v.tag \in Declarator \cup {"args"},
         Follows(values[m].tag, v.tag), Popped(m, v),
         m = N \/ v.tag \in Declarator \/ ~Stacked(m), Fits({}, cl, vc, m, v),
         v.list = <<>>
  PROVE  Good(L, G)'
<1>1. N \in Nat /\ m \in 0..N /\ On' = On /\ Lists(cl, vc)
  BY StateFacts DEF State, Above, Unlinked, On
<1>2. /\ \A n \in On : ToSet(h[n].args) \subseteq On
      /\ On \subseteq Node
  BY StateFacts
<1>3. \A n \in On : h'[n].args = h[n].args
  BY <1>2 DEF Unlinked, SameLinks
<1>4. PICK vc2 : vc2 = [i \in Nat |-> IF i = m + 1 THEN vc[m] ELSE vc[i]]
  OBVIOUS
<1>5. (\A i \in 1..m : vc2[i] = vc[i]) /\ vc2[m + 1] = vc[m]
  BY <1>1, <1>4
<1>6. Lists(cl, vc2)'
  BY <1>1, <1>2, <1>3, <1>5, ListsKept
<1>. QED
  BY <1>5, <1>6, ReducedSame

\* Where a declarator is on top, the value below it is that on top of the type stack.
LEMMA TopDeclarator ==
  ASSUME NEW L, NEW G, NEW cl, NEW vc, NEW ix, State(L, G, cl, vc, ix), ParsingGibberish,
         TopIs(Declarator)
  PROVE  /\ phase = "parse" /\ command \in Gibberish /\ N \in Nat /\ N > 1
         /\ N \in 1..N /\ N - 1 \in 1..N
         /\ Top = values[N] /\ Below = values[N - 1] /\ values[N].tag \in Declarator
         /\ ~Stacked(N) /\ Stacked(N - 1) /\ type_peek = values[N - 1].ast
         /\ values[N - 1].ast \in On /\ cl[values[N - 1].ast] = vc[N - 1]
         /\ vc[N] = vc[N - 1] /\ values[N].list = <<>>
         /\ values[N].ast # NIL => values[N].ast \in On /\ cl[values[N].ast] = vc[N]
         /\ values[N].target # NIL => values[N].target \in On /\ cl[values[N].target] = vc[N]
         /\ values[N].ast = NIL => CastFirst \/ \E j \in 1..N - 1 : values[j].tag = "args"
         /\ \A j \in 1..N : Stacked(j) /\ values[j].ast \in {values[N].ast, values[N].target} =>
              j = N - 1
         /\ IsValue(values[N])
<1>1. /\ phase = "parse" /\ command \in Gibberish /\ values # <<>> /\ Top.tag \in Declarator
  BY DEF ParsingGibberish, TopIs
<1>2. N \in Nat /\ Gib(cl, vc, ix) /\ ValuesOK
  BY <1>1, StateFacts DEF State
<1>3. N # 0
  BY <1>1, <1>2 DEF ValuesOK, N
<1>4. N > 0 /\ N \in 1..N /\ Top = values[N] /\ Below = values[N - 1]
  BY <1>2, <1>3 DEF Top, Below, N
<1>5. values[N].tag # "type" /\ ~Stacked(N) /\ values[N].tag # "args"
  BY <1>1, <1>4, Tags DEF Stacked
<1>6. N # 1
  BY <1>2, <1>4, <1>5 DEF Gib, Grammar
<1>7. N > 1 /\ N - 1 \in 1..N
  BY <1>2, <1>3, <1>6
<1>8. Stacked(N - 1)
  BY <1>1, <1>2, <1>4, <1>5, <1>7 DEF Gib, Grammar, Follows, Stacked
<1>9. type_peek = values[N - 1].ast
  <2>1. \A i \in N - 1 + 1..N : i = N
    BY <1>2
  <2>. QED
    BY <1>2, <1>5, <1>7, <1>8, <2>1, TopIndex DEF Gib
<1>10. /\ values[N - 1].ast \in On /\ cl[values[N - 1].ast] = vc[N - 1]
       /\ vc[N] = vc[N - 1] /\ values[N].list = <<>>
       /\ values[N].ast # NIL => values[N].ast \in On /\ cl[values[N].ast] = vc[N]
       /\ values[N].target # NIL => values[N].target \in On /\ cl[values[N].target] = vc[N]
  BY <1>2, <1>4, <1>5, <1>7, <1>8 DEF Gib, Levels
<1>11. values[N].ast = NIL => CastFirst \/ \E j \in 1..N - 1 : values[j].tag = "args"
  BY <1>1, <1>2, <1>4 DEF Gib, Bottom
<1>12. \A j \in 1..N : Stacked(j) /\ values[j].ast \in {values[N].ast, values[N].target} =>
         j = N - 1
  BY <1>1, <1>2, <1>4 DEF Gib, Spine
<1>13. IsValue(values[N])
  BY <1>2, <1>4, ValueAt
<1>. QED
  BY <1>1, <1>2, <1>4, <1>5, <1>7, <1>8, <1>9, <1>10, <1>11, <1>12, <1>13

\* The heap may stay as it is.
LEMMA SameUnlinked ==
  ASSUME NEW L, NEW G, NEW cl, NEW vc, NEW ix, State(L, G, cl, vc, ix), UNCHANGED ast
  PROVE  Unlinked
<1>1. /\ h \in Heaps(Types, Names) /\ UNCHANGED <<h, live, gc, recursive>>
      /\ \A n \in On : h[n].name \in Undefined \cup {NIL}
  BY StateFacts DEF ast, State, Control
<1>2. SameLinks(h, h)
  BY <1>1 DEF SameLinks
<1>. QED
  BY <1>1, <1>2 DEF Unlinked

\* The declarator is a name.
LEMMA name_c_Good ==
  ASSUME NEW L, NEW G, NEW cl, NEW vc, NEW ix, State(L, G, cl, vc, ix), name_c
  PROVE  Good(L, G)'
<1>1. BeginDeclarator /\ ProductionFrame /\ Stays
  BY Frame DEF name_c
<1>2. /\ phase = "parse" /\ command \in Gibberish /\ N \in Nat /\ N > 0 /\ N \in 1..N
      /\ Stacked(N) /\ type_peek = values[N].ast /\ values[N].ast \in On
      /\ cl[values[N].ast] = vc[N]
  BY <1>1, TopStacked
<1>3. PICK a : a = values[N].ast
  OBVIOUS
<1>4. PICK v : v = Value("decl2", a)
  OBVIOUS
<1>5. /\ IsValue(v) /\ v.tag = "decl2" /\ v.ast = a /\ v.target = NIL /\ v.list = <<>>
      /\ v.list \in Seq(Node)
  <2>1. PICK tag : tag = "decl2"
    OBVIOUS
  <2>2. /\ IsValue(Value(tag, a)) /\ Value(tag, a).tag = tag /\ Value(tag, a).ast = a
        /\ Value(tag, a).target = NIL /\ Value(tag, a).list = <<>> /\ <<>> \in Seq(Node)
    BY ValueFields
  <2>. QED
    BY <1>4, <2>1, <2>2
<1>6. PICK m : m = N
  OBVIOUS
<1>7. values' = Append(values, v)
  BY <1>2, <1>3, <1>4 DEF name_c
<1>8. Above(m, v)
  BY <1>2, <1>5, <1>6, <1>7, AppendAbove DEF State
<1>9. PICK t \in Undefined : h' = [h EXCEPT ![a].name = t]
  BY <1>2, <1>3 DEF name_c
<1>10. Unlinked
  <2>1. /\ h \in Heaps(Types, Names) /\ a \in On /\ On \subseteq Node /\ t \in Names
        /\ \A n \in On : h[n].name \in Undefined \cup {NIL}
    BY <1>2, <1>3, <1>9, StateFacts DEF Undefined, Names, State, Control
  <2>2. UNCHANGED <<live, gc, recursive>>
    BY DEF name_c
  <2>3. h' \in Heaps(Types, Names) /\ SameLinks(h, h')
    BY <1>9, <2>1 DEF Heaps, Cells, SameLinks
  <2>4. \A n \in On : h'[n].name \in Undefined \cup {NIL}
    BY <1>9, <2>1 DEF Heaps, Cells
  <2>5. \A n \in Node \ On : h'[n] = h[n]
    BY <1>9, <2>1 DEF Heaps
  <2>. QED
    BY <2>2, <2>3, <2>4, <2>5 DEF Unlinked
<1>11. v.tag \in Declarator /\ v.tag # "type" /\ v.tag \notin StackTag /\ v.tag # "args"
  BY <1>5, Tags
<1>12. Follows(values[m].tag, v.tag)
  <2>1. values[N].tag # "args"
    BY <1>2, Tags DEF Stacked
  <2>. QED
    BY <1>2, <1>6, <1>11, <2>1 DEF Follows, Stacked
<1>13. Popped(m, v)
  BY <1>2, <1>6 DEF Popped, name_c
<1>14. Fits({}, cl, vc, m, v)
  <2>1. \A j \in 1..m : Stacked(j) /\ values[j].ast \in {v.ast, v.target} => j = m
    <3>1. Spine /\ NIL \notin Node /\ Levels(cl, vc) /\ On \subseteq Node
      BY <1>2, StateFacts DEF State, Gib
    <3>2. \A j \in 1..N : Stacked(j) => values[j].ast # NIL
      BY <3>1 DEF Levels
    <3>. QED
      BY <1>2, <1>3, <1>5, <1>6, <3>1, <3>2 DEF Spine
  <2>. QED
    BY <1>2, <1>3, <1>5, <1>6, <1>11, <2>1, NilFacts, StateFacts DEF Fits
<1>. QED
  BY <1>1, <1>2, <1>5, <1>6, <1>8, <1>10, <1>11, <1>12, <1>13, <1>14, ReducedKept

\* The declarator of a cast or an argument is empty.
LEMMA no_cast_c_Good ==
  ASSUME NEW L, NEW G, NEW cl, NEW vc, NEW ix, State(L, G, cl, vc, ix), no_cast_c
  PROVE  Good(L, G)'
<1>1. BeginDeclarator /\ ProductionFrame /\ Stays /\ InCast
  BY Frame DEF no_cast_c
<1>2. /\ phase = "parse" /\ command \in Gibberish /\ N \in Nat /\ N > 0 /\ N \in 1..N
      /\ Stacked(N)
  BY <1>1, TopStacked
<1>4. PICK v : v = Value("decl", NIL)
  OBVIOUS
<1>5. /\ IsValue(v) /\ v.tag = "decl" /\ v.ast = NIL /\ v.target = NIL /\ v.list = <<>>
      /\ v.list \in Seq(Node)
  <2>1. PICK tag : tag = "decl"
    OBVIOUS
  <2>2. /\ IsValue(Value(tag, NIL)) /\ Value(tag, NIL).tag = tag /\ Value(tag, NIL).ast = NIL
        /\ Value(tag, NIL).target = NIL /\ Value(tag, NIL).list = <<>> /\ <<>> \in Seq(Node)
    BY ValueFields
  <2>. QED
    BY <1>4, <2>1, <2>2
<1>6. PICK m : m = N
  OBVIOUS
<1>7. values' = Append(values, v)
  BY <1>4 DEF no_cast_c
<1>8. Above(m, v)
  BY <1>2, <1>5, <1>6, <1>7, AppendAbove DEF State
<1>10. Unlinked
  BY SameUnlinked DEF no_cast_c
<1>11. v.tag \in Declarator /\ v.tag # "type" /\ v.tag \notin StackTag /\ v.tag # "args"
  BY <1>5, Tags
<1>12. Follows(values[m].tag, v.tag)
  <2>1. values[N].tag # "args"
    BY <1>2, Tags DEF Stacked
  <2>. QED
    BY <1>2, <1>6, <1>11, <2>1 DEF Follows, Stacked
<1>13. Popped(m, v)
  BY <1>2, <1>6 DEF Popped, no_cast_c
<1>14. Fits({}, cl, vc, m, v)
  <2>1. \A j \in 1..m : Stacked(j) /\ values[j].ast \in {v.ast, v.target} => j = m
    <3>1. Levels(cl, vc)
      BY <1>2 DEF State, Gib
    <3>2. \A j \in 1..N : Stacked(j) => values[j].ast # NIL
      BY <3>1 DEF Levels
    <3>. QED
      BY <1>5, <1>6, <3>2
  <2>2. CastFirst \/ \E j \in 1..m : values[j].tag = "args"
    <3>1. DOMAIN values = 1..N
      <4>1. PICK VS : values \in Seq(VS)
        BY DEF State, ValuesOK
      <4>. QED
        BY <4>1 DEF N
    <3>. QED
      BY <1>1, <1>6, <3>1 DEF InCast, CastFirst
  <2>. QED
    BY <1>5, <1>11, <2>1, <2>2 DEF Fits
<1>. QED
  BY <1>1, <1>2, <1>5, <1>6, <1>8, <1>10, <1>11, <1>12, <1>13, <1>14, ReducedKept

\* A '(' opens a list of arguments.
LEMMA ArgsOpen_Good ==
  ASSUME NEW L, NEW G, NEW cl, NEW vc, NEW ix, State(L, G, cl, vc, ix), ArgsOpen
  PROVE  Good(L, G)'
<1>1. ParsingGibberish /\ TopIs({"decl2"}) /\ ProductionFrame /\ Stays
  BY Frame DEF ArgsOpen
<1>2. TopIs(Declarator) /\ values[N].tag = "decl2"
  BY <1>1, Tags DEF TopIs, Top, N
<1>3. /\ phase = "parse" /\ command \in Gibberish /\ N \in Nat /\ N > 0 /\ N \in 1..N
      /\ ~Stacked(N)
  <2>1. N \in Nat /\ N > 1 /\ phase = "parse" /\ command \in Gibberish /\ N \in 1..N /\ ~Stacked(N)
    BY <1>1, <1>2, TopDeclarator
  <2>. QED
    BY <2>1
<1>4. PICK v : v = Value("args", NIL)
  OBVIOUS
<1>5. /\ IsValue(v) /\ v.tag = "args" /\ v.ast = NIL /\ v.target = NIL /\ v.list = <<>>
      /\ v.list \in Seq(Node)
  <2>1. PICK tag : tag = "args"
    OBVIOUS
  <2>2. /\ IsValue(Value(tag, NIL)) /\ Value(tag, NIL).tag = tag /\ Value(tag, NIL).ast = NIL
        /\ Value(tag, NIL).target = NIL /\ Value(tag, NIL).list = <<>> /\ <<>> \in Seq(Node)
    BY ValueFields
  <2>. QED
    BY <1>4, <2>1, <2>2
<1>6. PICK m : m = N
  OBVIOUS
<1>7. values' = Append(values, v)
  BY <1>4 DEF ArgsOpen
<1>8. Above(m, v)
  BY <1>3, <1>5, <1>6, <1>7, AppendAbove DEF State
<1>10. Unlinked
  BY SameUnlinked DEF ArgsOpen
<1>11. v.tag \notin Declarator /\ v.tag # "type" /\ v.tag \notin StackTag
  BY <1>5, Tags
<1>12. Follows(values[m].tag, v.tag)
  <2>1. values[N].tag # "args"
    BY <1>2, Tags
  <2>. QED
    BY <1>2, <1>5, <1>6, <1>11, <2>1 DEF Follows
<1>13. Popped(m, v)
  BY <1>3, <1>6 DEF Popped, ArgsOpen
<1>14. Fits({}, cl, vc, m, v)
  BY <1>5, <1>11 DEF Fits
<1>. QED
  BY <1>1, <1>3, <1>5, <1>6, <1>8, <1>10, <1>11, <1>12, <1>13, <1>14, ReducedKept

\* A declarator and the pointer, reference or '(' before it are replaced.
LEMMA ReplacedTwo ==
  ASSUME NEW L, NEW G, NEW cl, NEW vc, NEW ix, State(L, G, cl, vc, ix), ParsingGibberish,
         TopIs(Declarator), values[N - 1].tag # "type",
         NEW v, IsValue(v), v.tag \in Declarator, v.list = <<>>, values' = Replace(2, v),
         typeStack' = Tail(typeStack),
         ast_depth' = ast_depth \/ (ast_depth' = ast_depth - 1 /\ values[N - 1].tag = "nested"),
         NEW m, m = N - 2
  PROVE  /\ Above(m, v) /\ m > 0 /\ m \in Nat /\ m \in 1..N /\ m \in 1..N - 1
         /\ Stacked(m) /\ Follows(values[m].tag, v.tag) /\ Popped(m, v)
         /\ vc[N] = vc[m] /\ vc[N - 1] = vc[m]
         /\ \A j \in 1..m : j \in 1..N /\ j # N - 1
         /\ \A j \in 1..m : Stacked(j) =>
              values[j].ast \notin {values[N].ast, values[N].target, values[N - 1].ast}
         /\ values[N].ast = NIL => CastFirst \/ \E j \in 1..m : values[j].tag = "args"
<1>1. /\ N \in Nat /\ N > 1
      /\ N \in 1..N /\ N - 1 \in 1..N /\ ~Stacked(N) /\ Stacked(N - 1)
      /\ vc[N] = vc[N - 1]
      /\ values[N].ast = NIL => CastFirst \/ \E j \in 1..N - 1 : values[j].tag = "args"
      /\ \A j \in 1..N : Stacked(j) /\ values[j].ast \in {values[N].ast, values[N].target} =>
           j = N - 1
  BY TopDeclarator
<1>2. ValuesOK /\ Grammar /\ Levels(cl, vc) /\ Spine
  BY TopDeclarator DEF State, Gib
<1>3. N - 1 # 1
  BY <1>1, <1>2 DEF Grammar
<1>4. m > 0 /\ m \in Nat /\ m \in 1..N /\ m \in 1..N - 1 /\ m + 1 = N - 1 /\ 2 \in 0..N
  BY <1>1, <1>3
<1>5. Above(m, v)
  <2>1. PICK k \in 0..N : k = 2
    BY <1>4
  <2>2. v.list \in Seq(Node) /\ values' = Replace(k, v)
    BY <2>1, ValueFields
  <2>3. Above(N - k, v)
    BY <1>2, <2>2, ReplaceAbove
  <2>. QED
    BY <2>1, <2>3
<1>6. Stacked(m) /\ vc[N - 1] = vc[m]
  <2>1. N - 1 > 1 /\ (N - 1) - 1 = m
    BY <1>1, <1>3
  <2>2. values[N - 1].tag \in StackTag
    BY <1>1 DEF Stacked
  <2>3. values[m].tag \in StackTag
    BY <1>1, <1>2, <2>1, <2>2 DEF Grammar, Follows
  <2>. QED
    BY <1>1, <1>2, <2>1, <2>3 DEF Levels, Stacked
<1>7. Follows(values[m].tag, v.tag)
  <2>1. v.tag # "type" /\ v.tag # "args" /\ values[m].tag # "args" /\ values[m].tag \in StackTag
    BY <1>6, Tags DEF Stacked
  <2>. QED
    BY <2>1 DEF Follows
<1>8. \A i \in m + 1..N : i = N - 1 \/ i = N
  BY <1>1, <1>4
<1>9. Popped(m, v)
  <2>1. N - 1 \in m + 1..N
    BY <1>1, <1>4
  <2>2. \A i \in m + 1..N : Stacked(i) => i = N - 1
    BY <1>1, <1>8
  <2>. QED
    BY <1>1, <2>1, <2>2 DEF Popped
<1>10. \A j \in 1..m : j \in 1..N /\ j # N - 1
  BY <1>1, <1>4
<1>11. \A j \in 1..m : Stacked(j) =>
         values[j].ast \notin {values[N].ast, values[N].target, values[N - 1].ast}
  BY <1>1, <1>2, <1>10 DEF Spine
<1>12. values[N].ast = NIL => CastFirst \/ \E j \in 1..m : values[j].tag = "args"
  <2>1. \A j \in 1..N - 1 : j \in 1..m \/ j = N - 1
    BY <1>1, <1>4
  <2>2. values[N - 1].tag # "args"
    BY <1>1, Tags DEF Stacked
  <2>. QED
    BY <1>1, <2>1, <2>2
<1>. QED
  BY <1>1, <1>4, <1>5, <1>6, <1>7, <1>9, <1>10, <1>11, <1>12

\* The two values on top.
LEMMA TopTwoIs ==
  ASSUME ValuesOK, NEW tags1, NEW tags2, TopTwo(tags1, tags2)
  PROVE  /\ TopIs(tags2) /\ N \in Nat /\ N > 1 /\ Top = values[N] /\ Below = values[N - 1]
         /\ values[N].tag \in tags2 /\ values[N - 1].tag \in tags1
<1>1. PICK VS : values \in Seq(VS)
  BY DEF ValuesOK
<1>. QED
  BY <1>1 DEF TopTwo, TopIs, Top, Below, N

\* A ')' closes what a '(' nested.
LEMMA Unnest_Good ==
  ASSUME NEW L, NEW G, NEW cl, NEW vc, NEW ix, State(L, G, cl, vc, ix), Unnest
  PROVE  Good(L, G)'
<1>1. /\ ParsingGibberish /\ TopTwo({"nested"}, Declarator) /\ ProductionFrame /\ Stays
      /\ typeStack' = Tail(typeStack) /\ ast_depth' = ast_depth - 1
  BY Frame DEF Unnest
<1>2. /\ TopIs(Declarator) /\ Top = values[N] /\ values[N - 1].tag = "nested"
      /\ values[N].tag \in Declarator
  BY <1>1, TopTwoIs DEF State
<1>3. /\ phase = "parse" /\ command \in Gibberish /\ N \in Nat /\ values[N].list = <<>>
      /\ IsValue(values[N])
      /\ values[N].ast # NIL => values[N].ast \in On /\ cl[values[N].ast] = vc[N]
      /\ values[N].target # NIL => values[N].target \in On /\ cl[values[N].target] = vc[N]
  BY <1>1, <1>2, TopDeclarator
<1>4. PICK v : v = [Top EXCEPT !.tag = "decl2",
             !.proper = Proper(Top) /\ Top.tag = "decl" /\ Top.ops # <<>>]
  OBVIOUS
<1>5. /\ IsValue(v) /\ v.tag = "decl2" /\ v.ast = values[N].ast
      /\ v.target = values[N].target /\ v.list = <<>>
  BY <1>2, <1>3, <1>4 DEF IsValue
<1>6. PICK m : m = N - 2
  OBVIOUS
<1>7. values' = Replace(2, v)
  BY <1>4 DEF Unnest
<1>8. v.tag \in Declarator /\ v.tag # "type" /\ v.tag \notin StackTag /\ v.tag # "args"
      /\ values[N - 1].tag # "type"
  BY <1>2, <1>5, Tags
<1>9. /\ Above(m, v) /\ m > 0 /\ m \in Nat /\ m \in 1..N /\ m \in 1..N - 1
      /\ Stacked(m) /\ Follows(values[m].tag, v.tag) /\ Popped(m, v)
      /\ vc[N] = vc[m] /\ vc[N - 1] = vc[m]
      /\ \A j \in 1..m : Stacked(j) =>
           values[j].ast \notin {values[N].ast, values[N].target, values[N - 1].ast}
      /\ values[N].ast = NIL => CastFirst \/ \E j \in 1..m : values[j].tag = "args"
  BY <1>1, <1>2, <1>5, <1>6, <1>7, <1>8, ReplacedTwo
<1>10. Unlinked
  BY SameUnlinked DEF Unnest
<1>11. Fits({}, cl, vc, m, v)
  BY <1>3, <1>5, <1>8, <1>9 DEF Fits
<1>. QED
  BY <1>1, <1>3, <1>5, <1>8, <1>9, <1>10, <1>11, ReducedKept

-----------------------------------------------------------------------------
(* The nodes of a declarator.                                              *)

\* The last declarator is the k-th value.
DeclaratorAt(k) ==
  k \in 1..N /\ values[k].tag \in Declarator /\ \A i \in k + 1..N : values[i].tag = "args"

\* The nodes of its class that are not values of the spine.
Declared(cl, vc, k) ==
  {n \in On : cl[n] = vc[k] /\ \A i \in 1..N : Stacked(i) => values[i].ast # n}

\* They are linked to one another and to t, the node of the value below.
Surrounded(D, t, k) ==
  /\ k > 1 /\ k - 1 \in 1..N /\ Stacked(k - 1) /\ t = values[k - 1].ast
  /\ D \subseteq On /\ t \in On \ D
  /\ \A n \in D : h[n].of \in D \cup {t, NIL}
  /\ \A n \in On \ D : h[n].of \notin D
  /\ \A n \in D \cup {t} : h[n].parent \in D \cup {NIL}
  /\ \A n \in On : ToSet(h[n].args) \cap (D \cup {t}) = {}
  /\ \A i \in 1..N : Stacked(i) => /\ values[i].ast \in On \ D /\ i < k
                                   /\ values[i].ast = t => i = k - 1
  /\ {values[k].ast, values[k].target} \subseteq D \cup {t, NIL}

\* The nodes of the last declarator and of its class are linked as Surrounded
\* says.
LEMMA DeclaredClass ==
  ASSUME NEW L, NEW G, NEW cl, NEW vc, NEW ix, State(L, G, cl, vc, ix), command \in Gibberish,
         NEW k, DeclaratorAt(k), NEW D, D = Declared(cl, vc, k), NEW t, t = values[k - 1].ast
  PROVE  Surrounded(D, t, k) /\ cl[t] = vc[k] /\ vc[k - 1] = vc[k] /\ \A n \in D : cl[n] = vc[k]
<1>1. /\ N \in Nat /\ On \subseteq Node /\ NIL \notin Node /\ k \in 1..N
      /\ \A n \in On : /\ h[n].of \in On \cup {NIL} /\ h[n].parent \in On \cup {NIL}
                       /\ ToSet(h[n].args) \subseteq On
                       /\ h[n].of # NIL => h[n].kind \in ParentKind
  BY StateFacts DEF DeclaratorAt
<1>2. /\ Grammar /\ Levels(cl, vc) /\ Spine /\ Chained(cl) /\ Lists(cl, vc)
  BY DEF State, Gib
<1>3. /\ values[k].tag # "type" /\ ~Stacked(k) /\ values[k].tag # "args"
      /\ values[k].tag \in Declarator
  BY Tags DEF DeclaratorAt, Stacked
<1>4. k > 1 /\ k - 1 \in 1..N /\ k \in Nat
  <2>1. k # 1
    BY <1>1, <1>2, <1>3 DEF Grammar
  <2>. QED
    BY <1>1, <2>1
<1>5. Stacked(k - 1)
  BY <1>1, <1>2, <1>3, <1>4 DEF Grammar, Follows, Stacked
<1>6. t \in On /\ cl[t] = vc[k - 1] /\ vc[k - 1] = vc[k]
  BY <1>1, <1>2, <1>3, <1>4, <1>5 DEF Levels
<1>7. D \subseteq On /\ t \in On \ D /\ \A n \in D : cl[n] = vc[k]
  BY <1>4, <1>5, <1>6 DEF Declared
<1>8. \A i \in 1..N : Stacked(i) => /\ values[i].ast \in On \ D /\ i < k
                                    /\ values[i].ast = t => i = k - 1
  <2>1. SUFFICES ASSUME NEW i \in 1..N, Stacked(i)
                 PROVE  values[i].ast \in On \ D /\ i < k /\ (values[i].ast = t => i = k - 1)
    OBVIOUS
  <2>2. values[i].ast \in On
    BY <1>2, <2>1 DEF Levels
  <2>3. values[i].ast \notin D
    BY <2>1 DEF Declared
  <2>4. i < k
    <3>1. i \notin k + 1..N
      BY <2>1, Tags DEF DeclaratorAt, Stacked
    <3>2. i # k
      BY <1>3, <2>1
    <3>. QED
      BY <1>1, <1>4, <3>1, <3>2
  <2>5. values[i].ast = t => i = k - 1
    BY <1>2, <1>4, <1>5, <2>1 DEF Spine
  <2>. QED
    BY <2>2, <2>3, <2>4, <2>5
\* A declarator above another value of the class.
<1>9. ASSUME NEW i \in 1..N, Stacked(i), values[i + 1].tag \in Declarator, vc[i] = vc[k]
      PROVE  i = k - 1
  <2>1. SUFFICES ASSUME i # k - 1 PROVE FALSE
    OBVIOUS
  <2>2. i < k - 1 /\ i + 1 \in 1..N /\ i + 2 \in 1..N /\ i + 1 < k
    BY <1>1, <1>4, <1>8, <1>9, <2>1
  <2>3. values[i + 1].tag # "args" /\ values[i + 1].tag \notin StackTag /\ values[i + 1].tag # "type"
    BY <1>9, Tags
  <2>4. values[i + 2].tag = "args"
    <3>1. Follows(values[i + 1].tag, values[i + 2].tag) /\ values[i + 2].tag \in GibberishTag
      <4>1. (i + 2) - 1 = i + 1 /\ i + 2 > 1
        BY <2>2
      <4>. QED
        BY <1>2, <2>2, <4>1 DEF Grammar
    <3>. QED
      BY <2>3, <3>1 DEF Follows, GibberishTag
  <2>5. i + 2 # k /\ i + 2 < k /\ i + 2 \in 1..k - 1
    BY <1>1, <1>3, <1>4, <2>2, <2>4
  <2>6. vc[i + 2] # vc[k]
    BY <1>1, <1>2, <2>4, <2>5 DEF Levels
  <2>7. vc[i + 1] = vc[i]
    <3>1. (i + 1) - 1 = i /\ i + 1 > 1
      BY <2>2
    <3>. QED
      BY <1>2, <2>2, <2>3, <3>1 DEF Levels
  <2>8. vc[i + 2] = vc[i + 1]
    <3>1. (i + 2) - 1 = i + 1 /\ i + 2 > 1 /\ values[i + 2].tag # "type"
      BY <2>2, <2>4, Tags
    <3>. QED
      BY <1>2, <2>2, <3>1 DEF Levels
  <2>. QED
    BY <1>9, <2>6, <2>7, <2>8
\* A node of the class is one of D or one of the spine.
<1>10. ASSUME NEW n \in On, cl[n] = vc[k], n \notin D
       PROVE  \E i \in 1..N : Stacked(i) /\ values[i].ast = n /\ vc[i] = vc[k]
  BY <1>2, <1>10 DEF Declared, Levels
<1>11. \A n \in D : h[n].of \in D \cup {t, NIL}
  <2>1. SUFFICES ASSUME NEW n \in D, h[n].of # NIL, h[n].of \notin D PROVE h[n].of = t
    OBVIOUS
  <2>2. h[n].of \in On /\ cl[h[n].of] = vc[k]
    BY <1>1, <1>2, <1>7, <2>1 DEF Chained
  <2>3. PICK i \in 1..N : Stacked(i) /\ values[i].ast = h[n].of /\ vc[i] = vc[k]
    BY <1>10, <2>1, <2>2
  <2>4. /\ i < N
        /\ \/ values[i + 1].tag \in Declarator
           \/ values[i + 1].tag \in Pointing /\ n = values[i + 1].ast
    BY <1>2, <1>7, <2>1, <2>3 DEF Spine
  <2>5. ~(values[i + 1].tag \in Pointing /\ n = values[i + 1].ast)
    BY <1>1, <1>8, <2>1, <2>3, <2>4, Tags DEF Stacked
  <2>. QED
    BY <1>9, <2>3, <2>4, <2>5
<1>12. \A n \in On \ D : h[n].of \notin D
  <2>1. SUFFICES ASSUME NEW n \in On \ D, h[n].of \in D PROVE FALSE
    OBVIOUS
  <2>2. h[n].of # NIL /\ cl[n] = vc[k]
    BY <1>1, <1>2, <1>7, <2>1 DEF Chained
  <2>3. PICK i \in 1..N : Stacked(i) /\ values[i].ast = n
    BY <1>10, <2>1, <2>2
  <2>4. values[i].tag = "type" \/ values[i].tag = "nested" \/ values[i].tag \in Pointing
    BY <2>3, StackTags DEF Stacked
  <2>5. h[n].kind \in ParentKind
    BY <1>1, <2>2
  <2>6. values[i].tag \in Pointing
    BY <1>2, <2>3, <2>4, <2>5, Kinds DEF Spine
  <2>7. h[n].of = values[i - 1].ast
    BY <1>2, <2>3, <2>6 DEF Spine
  <2>8. i - 1 \in 1..N /\ Stacked(i - 1)
    <3>1. values[i].tag # "type" /\ values[i].tag \in StackTag
      BY <2>6, Tags
    <3>2. i # 1
      BY <1>2, <2>3, <3>1 DEF Grammar
    <3>3. i - 1 \in 1..N /\ i > 1
      BY <1>1, <2>3, <3>2
    <3>. QED
      BY <1>2, <2>3, <3>1, <3>3 DEF Grammar, Follows, Stacked
  <2>. QED
    BY <1>8, <2>1, <2>7, <2>8
<1>13. \A n \in D \cup {t} : h[n].parent \in D \cup {NIL}
  <2>1. SUFFICES ASSUME NEW n \in D \cup {t}, h[n].parent # NIL, h[n].parent \notin D PROVE FALSE
    OBVIOUS
  <2>2. n \in On /\ cl[n] = vc[k] /\ h[n].parent \in On /\ cl[h[n].parent] = vc[k]
    BY <1>1, <1>2, <1>6, <1>7, <2>1 DEF Chained
  <2>3. PICK i \in 1..N : Stacked(i) /\ values[i].ast = h[n].parent
    BY <1>10, <2>1, <2>2
  <2>4. values[i].tag \in Pointing /\ n = values[i - 1].ast
    BY <1>2, <2>2, <2>3 DEF Spine
  <2>5. i - 1 \in 1..N /\ Stacked(i - 1)
    <3>1. values[i].tag # "type" /\ values[i].tag \in StackTag
      BY <2>4, Tags
    <3>2. i # 1
      BY <1>2, <2>3, <3>1 DEF Grammar
    <3>3. i - 1 \in 1..N /\ i > 1
      BY <1>1, <2>3, <3>2
    <3>. QED
      BY <1>2, <2>3, <3>1, <3>3 DEF Grammar, Follows, Stacked
  <2>6. n = t /\ i - 1 = k - 1
    BY <1>8, <2>1, <2>4, <2>5
  <2>. QED
    BY <1>1, <1>3, <2>3, <2>6
<1>14. \A n \in On : ToSet(h[n].args) \cap (D \cup {t}) = {}
  <2>1. SUFFICES ASSUME NEW n \in On, NEW a \in D \cup {t}, a \in ToSet(h[n].args) PROVE FALSE
    OBVIOUS
  <2>2. cl[a] = vc[k]
    BY <1>6, <1>7
  <2>3. cl[a] \in Classes(cl, h[n].args)
    BY <2>1 DEF Classes, ToSet
  <2>. QED
    BY <1>1, <1>2, <2>2, <2>3 DEF Lists
<1>15. {values[k].ast, values[k].target} \subseteq D \cup {t, NIL}
  <2>1. SUFFICES ASSUME NEW n \in {values[k].ast, values[k].target}, n # NIL, n \notin D
                 PROVE  n = t
    OBVIOUS
  <2>2. n \in On /\ cl[n] = vc[k]
    BY <1>1, <1>2, <2>1 DEF Levels
  <2>3. PICK i \in 1..N : Stacked(i) /\ values[i].ast = n
    BY <1>10, <2>1, <2>2
  <2>4. i = k - 1
    BY <1>1, <1>2, <1>3, <2>1, <2>3 DEF Spine
  <2>. QED
    BY <2>3, <2>4
<1>16. Surrounded(D, t, k)
  BY <1>4, <1>5, <1>7, <1>8, <1>11, <1>12, <1>13, <1>14, <1>15 DEF Surrounded
<1>. QED
  BY <1>6, <1>7, <1>16

\* Links are made among the nodes D, t and new, and only these.
Rewired(D, t, new) ==
  /\ \A x \in On :
       /\ h'[x].kind = h[x].kind /\ h'[x].depth = h[x].depth
       /\ h'[x].of = h[x].of \/ (x \in D /\ h'[x].of \in D \cup {t} \cup new)
       /\ h'[x].parent = h[x].parent \/ (x \in D \cup {t} /\ h'[x].parent \in D \cup new)
  /\ \A f \in new : h'[f].of \in D \cup {t, NIL} \cup new /\ h'[f].parent \in D \cup {NIL} \cup new
  /\ \A x \in On \cup new : x \in new \/ h'[x].of # h[x].of =>
       /\ h'[x].of # NIL => h'[h'[x].of].parent # NIL
       /\ h'[x].kind \in ParentKind => h'[x].of # NIL

\* Links among the nodes of the last declarator are those that Reduced allows.
LEMMA RewiredRelinks ==
  ASSUME NEW L, NEW G, NEW cl, NEW vc, NEW ix, State(L, G, cl, vc, ix), command \in Gibberish,
         NEW k, DeclaratorAt(k), NEW D, D = Declared(cl, vc, k), NEW t, t = values[k - 1].ast,
         NEW new, new \subseteq Node \ On, Rewired(D, t, new),
         NEW cl2, \A n \in On : cl2[n] = cl[n], \A n \in new : cl2[n] = vc[k],
         NEW m, m \in 1..k - 1, NEW v, v.tag \in Declarator
  PROVE  Relinked(new, cl2, m, v)
<1>1. /\ Surrounded(D, t, k) /\ cl[t] = vc[k] /\ \A n \in D : cl[n] = vc[k]
  BY DeclaredClass
<1>2. /\ N \in Nat /\ On \subseteq Node /\ NIL \notin Node /\ k \in 1..N
      /\ \A n \in On : /\ h[n].of \in On \cup {NIL} /\ h[n].parent \in On \cup {NIL}
                       /\ h[n].of # NIL => h[n].kind \in ParentKind
  BY StateFacts DEF DeclaratorAt
<1>3. Spine /\ Chained(cl) /\ Filled /\ Grammar /\ Levels(cl, vc)
  BY DEF State, Gib
<1>4. /\ \A n \in D \cup {t} \cup new : cl2[n] = vc[k]
      /\ D \subseteq On /\ t \in On \ D
  BY <1>1 DEF Surrounded
<1>5. ASSUME NEW n \in On \cup new
      PROVE  /\ h'[n].of # NIL => cl2[h'[n].of] = cl2[n]
             /\ h'[n].parent # NIL => cl2[h'[n].parent] = cl2[n]
  <2>1. CASE n \in new
    BY <1>2, <1>4, <2>1 DEF Rewired
  <2>2. CASE n \in On
    <3>1. h'[n].of # NIL => cl2[h'[n].of] = cl2[n]
      <4>1. CASE h'[n].of = h[n].of
        BY <1>2, <1>3, <2>2, <4>1 DEF Chained
      <4>2. CASE n \in D /\ h'[n].of \in D \cup {t} \cup new
        BY <1>4, <4>2
      <4>. QED
        BY <2>2, <4>1, <4>2 DEF Rewired
    <3>2. h'[n].parent # NIL => cl2[h'[n].parent] = cl2[n]
      <4>1. CASE h'[n].parent = h[n].parent
        BY <1>2, <1>3, <2>2, <4>1 DEF Chained
      <4>2. CASE n \in D \cup {t} /\ h'[n].parent \in D \cup new
        BY <1>4, <4>2
      <4>. QED
        BY <2>2, <4>1, <4>2 DEF Rewired
    <3>. QED
      BY <3>1, <3>2
  <2>. QED
    BY <2>1, <2>2
<1>6. ASSUME NEW n \in On \cup new
      PROVE  /\ h'[n].of # NIL => h'[h'[n].of].parent # NIL
             /\ h'[n].kind \in ParentKind => h'[n].of # NIL
  <2>1. CASE n \in new \/ h'[n].of # h[n].of
    BY <2>1 DEF Rewired
  <2>2. CASE n \in On /\ h'[n].of = h[n].of
    <3>1. h'[n].kind \in ParentKind => h'[n].of # NIL
      BY <1>3, <2>2 DEF Rewired, Filled
    <3>2. ASSUME h[n].of # NIL PROVE h'[h[n].of].parent # NIL
      <4>1. h[n].of \in On /\ h[h[n].of].parent # NIL
        BY <1>2, <1>3, <2>2, <3>2 DEF Filled
      <4>2. \/ h'[h[n].of].parent = h[h[n].of].parent
            \/ h'[h[n].of].parent \in D \cup new
        BY <4>1 DEF Rewired
      <4>. QED
        BY <1>2, <1>4, <4>1, <4>2
    <3>. QED
      BY <2>2, <3>1, <3>2
  <2>. QED
    BY <1>5, <2>1, <2>2
<1>7. ASSUME NEW i \in 1..m, Stacked(i), NEW n, n = values[i].ast
      PROVE  /\ h'[n].kind = h[n].kind /\ h'[n].depth = h[n].depth
             /\ values[i].tag \in Pointing =>
                  h'[n].of = h[n].of /\ h'[values[i - 1].ast].parent = h[values[i - 1].ast].parent
             /\ \A c \in On \cup new : h'[c].parent = n => c \in On /\ h[c].parent = n
             /\ \A c \in On \cup new : h'[c].of = n =>
                  (c \in On /\ h[c].of = n) \/ (i = m /\ v.tag \in Declarator)
  <2>1. i \in 1..N /\ i <= k - 1 /\ k \in Nat /\ m <= k - 1 /\ i <= m
    BY <1>2
  <2>2. n \in On /\ n \notin D /\ n \notin new /\ n # NIL
    BY <1>1, <1>2, <1>7, <2>1 DEF Surrounded
  <2>3. h'[n].kind = h[n].kind /\ h'[n].depth = h[n].depth /\ h'[n].of = h[n].of
    BY <2>2 DEF Rewired
  <2>4. ASSUME values[i].tag \in Pointing
        PROVE  h'[values[i - 1].ast].parent = h[values[i - 1].ast].parent
    <3>1. values[i].tag # "type" /\ values[i].tag \in StackTag
      BY <2>4, Tags
    <3>2. i # 1
      BY <1>3, <2>1, <3>1 DEF Grammar
    <3>3. i - 1 \in 1..N /\ i > 1
      BY <1>2, <2>1, <3>2
    <3>4. Stacked(i - 1)
      BY <1>3, <2>1, <3>1, <3>3 DEF Grammar, Follows, Stacked
    <3>5. values[i - 1].ast \in On \ D /\ (values[i - 1].ast = t => i - 1 = k - 1)
      BY <1>1, <3>3, <3>4 DEF Surrounded
    <3>6. i - 1 # k - 1
      BY <2>1
    <3>. QED
      BY <3>5, <3>6 DEF Rewired
  <2>5. \A c \in On \cup new : h'[c].parent = n => c \in On /\ h[c].parent = n
    BY <1>2, <2>2 DEF Rewired
  <2>6. ASSUME NEW c \in On \cup new, h'[c].of = n
        PROVE  (c \in On /\ h[c].of = n) \/ (i = m /\ v.tag \in Declarator)
    <3>1. (c \in On /\ h[c].of = n) \/ n = t
      BY <1>2, <2>2, <2>6 DEF Rewired
    <3>2. n = t => i = k - 1
      BY <1>1, <1>7, <2>1 DEF Surrounded
    <3>. QED
      BY <2>1, <3>1, <3>2
  <2>. QED
    BY <2>3, <2>4, <2>5, <2>6
<1>. QED
  BY <1>5, <1>6, <1>7 DEF Relinked

\* What a declarator is of ends.
LEMMA OfFounded ==
  ASSUME NEW L, NEW G, Base(L, G)
  PROVE  WellFounded(Node, OfEdges(h))
<1>1. /\ h \in Heaps(Types, Names) /\ L \subseteq Node /\ NIL \notin Node
      /\ \A n \in Node \ live : h[n] = NoAst
      /\ L \cap On = {} /\ live \subseteq Node
      /\ \A n \in On : h[n].of \in On \cup {NIL}
      /\ \A n \in Owned(L) : h[n].of \in Owned(L) \cup {NIL}
      /\ WellFounded(Node, Edges(h, typedefs, On, L))
  BY NilFacts DEF Base, HeapOK, LinksOK, TableOK
<1>2. \A x \in Node \ L : h[x].of \in (Node \ L) \cup {NIL}
  <2>1. \A x \in Node \ L : x \in On \/ x \in Owned(L) \/ x \in Node \ live
    BY DEF Owned
  <2>2. \A x \in Node \ live : h[x].of = NIL
    BY <1>1 DEF NoAst
  <2>3. On \cap L = {} /\ Owned(L) \cap L = {} /\ On \subseteq Node /\ Owned(L) \subseteq Node
    BY <1>1 DEF Owned, Base, HeapOK
  <2>. QED
    BY <1>1, <2>1, <2>2, <2>3
<1>3. \A x \in Node \ L, y \in L : <<x, y>> \notin OfEdges(h)
  BY <1>1, <1>2 DEF OfEdges
<1>4. \A x, y \in Node \ L : <<x, y>> \in OfEdges(h) => <<x, y>> \in Edges(h, typedefs, On, L)
  BY DEF OfEdges, Edges
<1>5. WellFounded(L, OfEdges(h))
  <2>1. \A x, y \in L : <<x, y>> \in OfEdges(h) => <<x, y>> \in Edges(h, typedefs, On, L)
    BY DEF OfEdges, Edges
  <2>2. WellFounded(L, Edges(h, typedefs, On, L))
    BY <1>1 DEF WellFounded
  <2>. QED
    BY <2>1, <2>2 DEF WellFounded
<1>6. PICK C : C = Node \ L
  OBVIOUS
<1>7. Node \ C = L /\ Node \cap C = C /\ C = Node \ L
  BY <1>1, <1>6
<1>8. /\ \A x \in Node \cap C, y \in Node \ C : <<x, y>> \notin OfEdges(h)
      /\ \A x, y \in Node \cap C : <<x, y>> \in OfEdges(h) => <<x, y>> \in Edges(h, typedefs, On, L)
  BY <1>3, <1>4, <1>7
<1>9. WellFounded(Node \ C, OfEdges(h))
  BY <1>5, <1>7
<1>. QED
  BY <1>1, <1>8, <1>9, Split

\* The declarator k is patched with the node t below it: no link changes, or t is
\* linked to a node of D.
Patched(D, t, g) ==
  /\ g \in Heaps(Types, Names)
  /\ \A n \in Node \ On : g[n] = h[n]
  /\ \A n \in On : g[n].name \in Undefined \cup {NIL}
  /\ \/ SameLinks(h, g)
     \/ /\ h[t].parent = NIL
        /\ \E p \in D : Linked(h, g, t, p) /\ h[p].kind \in ParentKind

\* c_ast_patch_placeholder patches the declarator.
LEMMA PatchDone ==
  ASSUME NEW L, NEW G, NEW cl, NEW vc, NEW ix, State(L, G, cl, vc, ix), command \in Gibberish,
         NEW k, DeclaratorAt(k), NEW D, D = Declared(cl, vc, k), NEW t, t = values[k - 1].ast,
         NEW d, d = values[k].ast,
         NEW r, r = c_ast_patch_placeholder(h, t, d), r.h # Failed
  PROVE  r.rv \in {t, d} \ {NIL} /\ Patched(D, t, r.h)
<1>1. Surrounded(D, t, k)
  BY DeclaredClass
<1>2. /\ h \in Heaps(Types, Names) /\ On \subseteq Node /\ NIL \notin Node /\ NIL \in Names
      /\ \A n \in On : h[n].of \in On \cup {NIL}
      /\ \A n \in On : h[n].name \in Undefined \cup {NIL}
      /\ WellFounded(Node, OfEdges(h)) /\ t \in On /\ d \in On \cup {NIL} /\ D \subseteq On
  BY <1>1, StateFacts, NilFacts, OfFounded DEF State, Control, Surrounded
<1>3. CASE d = NIL
  <2>1. r = Result(h, t)
    BY <1>3 DEF c_ast_patch_placeholder
  <2>2. r.h = h /\ r.rv = t
    BY <2>1, ResultFields
  <2>3. SameLinks(h, h)
    BY DEF SameLinks
  <2>. QED
    BY <1>2, <2>2, <2>3 DEF Patched
<1>4. CASE d # NIL
  <2>1. d \in On /\ t \in Node /\ On \in SUBSET Node
    BY <1>2, <1>4
  <2>2. /\ r.h \in Heaps(Types, Names) /\ r.rv \in {t, d}
        /\ \/ SameLinks(h, r.h)
           \/ /\ h[t].parent = NIL /\ ~(h[t].depth >= h[d].depth)
              /\ \E place \in On :
                   /\ h[place].kind = "placeholder" /\ h[place].parent \in Node
                   /\ h[h[place].parent].kind \in ParentKind
                   /\ Linked(h, r.h, t, h[place].parent)
              /\ r.rv = d
        /\ NamesWithin(h, r.h, On \cup {t})
    <3>1. r.h \in Heaps(Types, Names) /\ PatchOutcome(h, t, d, On, r)
      BY <1>2, <2>1, PatchCases
    <3>. QED
      BY <3>1 DEF PatchOutcome
  <2>3. \A n \in On : r.h[n].name \in Undefined \cup {NIL}
    BY <1>2, <2>1, <2>2 DEF NamesWithin
  <2>4. \A n \in Node \ On : r.h[n] = h[n]
    <3>1. SUFFICES ASSUME NEW n \in Node \ On PROVE r.h[n] = h[n]
      OBVIOUS
    <3>2. r.h[n].name = h[n].name
      BY <1>2, <2>2, <3>1 DEF NamesWithin
    <3>3. h[n] \in Cells(Types, Names) /\ r.h[n] \in Cells(Types, Names)
      BY <1>2, <2>2 DEF Heaps
    <3>4. /\ r.h[n].kind = h[n].kind /\ r.h[n].type = h[n].type /\ r.h[n].def = h[n].def
          /\ r.h[n].depth = h[n].depth /\ r.h[n].args = h[n].args
      BY <2>2 DEF SameLinks, Linked, SameData
    <3>5. r.h[n].parent = h[n].parent /\ r.h[n].of = h[n].of
      <4>1. CASE SameLinks(h, r.h)
        BY <4>1 DEF SameLinks
      <4>2. CASE \E place \in On : /\ h[place].kind = "placeholder" /\ h[place].parent \in Node
                                   /\ Linked(h, r.h, t, h[place].parent)
        <5>1. \A place \in On : h[place].parent \in On \cup {NIL}
          BY StateFacts
        <5>. QED
          BY <1>2, <3>1, <4>2, <5>1 DEF Linked
      <4>. QED
        BY <2>2, <4>1, <4>2
    <3>. QED
      BY <3>2, <3>3, <3>4, <3>5 DEF Cells
  <2>5. CASE SameLinks(h, r.h)
    BY <1>2, <1>4, <2>2, <2>3, <2>4, <2>5 DEF Patched
  <2>6. CASE h[t].parent = NIL /\ ~(h[t].depth >= h[d].depth) /\ ~SameLinks(h, r.h)
    <3>1. d # t
      BY <1>2, <2>6, HeapFields
    <3>2. d \in D
      BY <1>1, <1>4, <3>1 DEF Surrounded
    <3>3. \A n \in D : h[n].of \in D \cup {NIL}
      <4>1. \A n \in D : h[n].of # t
        BY <1>2, <2>6 DEF State, Gib, Filled
      <4>. QED
        BY <1>1, <4>1 DEF Surrounded
    <3>4. D \in SUBSET Node
      BY <1>2
    <3>5. \/ SameLinks(h, r.h)
          \/ /\ h[t].parent = NIL /\ ~(h[t].depth >= h[d].depth)
             /\ \E place \in D :
                  /\ h[place].kind = "placeholder" /\ h[place].parent \in Node
                  /\ h[h[place].parent].kind \in ParentKind
                  /\ Linked(h, r.h, t, h[place].parent)
             /\ r.rv = d
      <4>1. PatchOutcome(h, t, d, D, r)
        BY <1>2, <2>1, <3>2, <3>3, <3>4, PatchCases
      <4>. QED
        BY <4>1 DEF PatchOutcome
    <3>6. PICK place \in D : /\ h[place].parent \in Node
                             /\ h[h[place].parent].kind \in ParentKind
                             /\ Linked(h, r.h, t, h[place].parent)
      BY <2>6, <3>5
    <3>7. h[place].parent \in D
      BY <1>1, <1>2, <3>6 DEF Surrounded
    <3>. QED
      BY <1>4, <2>2, <2>3, <2>4, <2>6, <3>6, <3>7 DEF Patched
  <2>. QED
    BY <2>2, <2>5, <2>6
<1>. QED
  BY <1>3, <1>4

\* A link made by patching.
LEMMA PatchedLinks ==
  ASSUME NEW L, NEW G, NEW cl, NEW vc, NEW ix, State(L, G, cl, vc, ix), phase = "parse",
         command \in Gibberish,
         NEW k, DeclaratorAt(k), NEW D, D = Declared(cl, vc, k), NEW t, t = values[k - 1].ast,
         Patched(D, t, h'), UNCHANGED <<live, gc, recursive>>, Stays, ~SameLinks(h, h')
  PROVE  Base(L, G)' /\ Rewired(D, t, {}) /\ \A n \in On : h'[n].args = h[n].args
<1>1. Surrounded(D, t, k)
  BY DeclaredClass
<1>2. /\ h \in Heaps(Types, Names) /\ On \subseteq Node /\ NIL \notin Node
      /\ \A n \in On : /\ h[n].of \in On \cup {NIL} /\ h[n].parent \in On \cup {NIL}
                       /\ ToSet(h[n].args) \subseteq On
                       /\ h[n].of # NIL => h[n].kind \in ParentKind
                       /\ h[n].parent # NIL => h[h[n].parent].kind \in ParentKind
      /\ gc \in Seq(Node) /\ IsInjective(gc) /\ Base(L, G)
  BY StateFacts DEF State
<1>3. /\ t \in On \ D /\ D \subseteq On
      /\ \A n \in D : h[n].of \in D \cup {t, NIL}
      /\ \A n \in On \ D : h[n].of \notin D
      /\ \A n \in D \cup {t} : h[n].parent \in D \cup {NIL}
      /\ \A n \in On : ToSet(h[n].args) \cap (D \cup {t}) = {}
  BY <1>1 DEF Surrounded
<1>4. PICK p \in D : Linked(h, h', t, p) /\ h[p].kind \in ParentKind
  BY DEF Patched
<1>5. PICK new : new = {}
  OBVIOUS
<1>6. \A n \in Node : /\ h'[n].kind = h[n].kind /\ h'[n].def = h[n].def
                      /\ h'[n].args = h[n].args /\ h'[n].depth = h[n].depth
                      /\ h'[n].type = h[n].type
                      /\ h'[n].of = (IF n = p THEN t ELSE h[n].of)
                      /\ h'[n].parent = (IF n = t THEN p ELSE h[n].parent)
  BY <1>4 DEF Linked, SameData
<1>7. Grows(new)
  BY <1>2, <1>5 DEF Grows, Stays, On
<1>8. Builds(new)
  <2>1. \A n \in On : /\ h'[n].kind = h[n].kind /\ h'[n].def = h[n].def
                      /\ h'[n].args = h[n].args /\ h'[n].type = h[n].type
                      /\ h'[n].of # NIL => h'[n].kind \in ParentKind
    BY <1>2, <1>4, <1>6
  <2>2. \A n \in On : /\ h'[n].of \in On \cup {NIL}
                      /\ h'[n].parent \in On \cup {NIL}
                      /\ h'[n].parent # NIL => h'[h'[n].parent].kind \in ParentKind
    BY <1>2, <1>3, <1>4, <1>6
  <2>. QED
    BY <1>5, <2>1, <2>2 DEF Builds, Patched
<1>9. Base(L, G)'
  <2>1. \A n \in On \ D : /\ h'[n].of = h[n].of /\ h'[n].of \notin D
                          /\ ToSet(h'[n].args) \cap D = {}
    BY <1>2, <1>3, <1>4, <1>6
  <2>2. \A n \in On : h'[n].parent \in On \ D => h'[n].parent = h[n].parent /\ n \notin D
    BY <1>2, <1>3, <1>4, <1>6
  <2>3. \A n \in D : h'[n].of \in D => h'[n].of = h[n].of
    BY <1>2, <1>3, <1>4, <1>6
  <2>4. \A n \in D : h'[n].parent \in D => h'[n].parent = h[n].parent
    BY <1>2, <1>3, <1>4, <1>6
  <2>5. D \in SUBSET On /\ phase \notin {"exit", "exited"}
    BY <1>3
  <2>6. /\ \A f \in new : /\ h'[f].of \notin D \cup new
                         /\ ToSet(h'[f].args) \cap (D \cup new) = {}
                         /\ h'[f].parent \notin (On \ D) \cup new
        /\ \A n \in D : h'[n].parent \notin new
    BY <1>5
  <2>7. LinkedApart(new, D)
    BY <2>1, <2>2, <2>3, <2>4, <2>5, <2>6 DEF LinkedApart
  <2>. QED
    BY <1>2, <1>7, <1>8, <2>5, <2>7, NewLinks
<1>10. Rewired(D, t, new)
  <2>1. \A x \in On :
          /\ h'[x].kind = h[x].kind /\ h'[x].depth = h[x].depth
          /\ h'[x].of = h[x].of \/ (x \in D /\ h'[x].of \in D \cup {t} \cup new)
          /\ h'[x].parent = h[x].parent \/ (x \in D \cup {t} /\ h'[x].parent \in D \cup new)
    BY <1>2, <1>4, <1>6
  <2>2. \A x \in On : h'[x].of # h[x].of =>
          /\ h'[x].of # NIL => h'[h'[x].of].parent # NIL
          /\ h'[x].kind \in ParentKind => h'[x].of # NIL
    BY <1>2, <1>3, <1>4, <1>6
  <2>. QED
    BY <1>5, <2>1, <2>2 DEF Rewired
<1>. QED
  BY <1>2, <1>5, <1>6, <1>9, <1>10

\* A pointer or reference to what a declarator declares.
LEMMA derived_decl_c_Good ==
  ASSUME NEW L, NEW G, NEW cl, NEW vc, NEW ix, State(L, G, cl, vc, ix), NEW kind \in Pointing,
         derived_decl_c(kind), phase' # "aborted"
  PROVE  Good(L, G)'
<1> DEFINE r0 == c_ast_patch_placeholder(h, Below.ast, Top.ast)
           patch == InCast \/ kind = "pointer"
<1>1. ParsingGibberish /\ TopTwo({kind}, Declarator)
  BY DEF derived_decl_c
<1>2. PICK r : r = r0
  OBVIOUS
<1>3. /\ ~(patch /\ r.h = Failed)
      /\ h' = IF patch THEN r.h ELSE h
      /\ \E ops : values' = Replace(2,
           [Top EXCEPT !.tag = "decl", !.ops = ops, !.proper = Proper(Top),
                       !.ast = IF InCast THEN r.rv ELSE @,
                       !.target = IF InCast THEN NIL ELSE @])
      /\ typeStack' = Tail(typeStack)
      /\ UNCHANGED <<live, gc, recursive, count, ast_depth>>
      /\ ProductionFrame
  BY <1>2 DEF derived_decl_c, Abort
<1>4. Stays
  BY <1>3, Frame
<1>5. /\ TopIs(Declarator) /\ Top = values[N] /\ Below = values[N - 1]
      /\ values[N - 1].tag = kind /\ values[N].tag \in Declarator
  BY <1>1, TopTwoIs DEF State
<1>6. /\ phase = "parse" /\ command \in Gibberish /\ N \in Nat /\ N \in 1..N
      /\ IsValue(values[N]) /\ values[N].list = <<>>
      /\ values[N].ast # NIL => values[N].ast \in On /\ cl[values[N].ast] = vc[N]
      /\ values[N].target # NIL => values[N].target \in On /\ cl[values[N].target] = vc[N]
      /\ values[N - 1].ast \in On /\ cl[values[N - 1].ast] = vc[N - 1] /\ vc[N] = vc[N - 1]
  BY <1>1, <1>5, TopDeclarator
<1>7. PICK k, t, d, m : k = N /\ t = values[k - 1].ast /\ d = values[k].ast /\ m = N - 2
  OBVIOUS
<1>8. PICK D : D = Declared(cl, vc, k)
  OBVIOUS
<1>9. DeclaratorAt(k)
  BY <1>5, <1>6, <1>7 DEF DeclaratorAt
<1>10. patch => r.rv \in {t, d} \ {NIL} /\ Patched(D, t, r.h)
  <2>1. r = c_ast_patch_placeholder(h, t, d)
    BY <1>2, <1>5, <1>7
  <2>2. SUFFICES ASSUME r.h # Failed PROVE r.rv \in {t, d} \ {NIL} /\ Patched(D, t, r.h)
    BY <1>3
  <2>. QED
    BY <1>6, <1>7, <1>8, <1>9, <2>1, <2>2, PatchDone
<1>11. PICK ops : values' = Replace(2,
           [Top EXCEPT !.tag = "decl", !.ops = ops, !.proper = Proper(Top),
                       !.ast = IF InCast THEN r.rv ELSE @,
                       !.target = IF InCast THEN NIL ELSE @])
  BY <1>3
<1>12. PICK v : v = [Top EXCEPT !.tag = "decl", !.ops = ops, !.proper = Proper(Top),
                       !.ast = IF InCast THEN r.rv ELSE @,
                       !.target = IF InCast THEN NIL ELSE @]
  OBVIOUS
<1>13. /\ IsValue(v) /\ v.tag = "decl" /\ v.ast \in {t, d} /\ v.target \in {NIL, values[N].target}
       /\ v.list = <<>> /\ (v.ast = NIL => values[N].ast = NIL)
  <2>1. IsValue(v) /\ v.tag = "decl" /\ v.list = <<>>
    BY <1>5, <1>6, <1>12 DEF IsValue
  <2>2. /\ v.ast = IF InCast THEN r.rv ELSE values[N].ast
        /\ v.target = IF InCast THEN NIL ELSE values[N].target
    BY <1>5, <1>6, <1>12 DEF IsValue
  <2>. QED
    BY <1>7, <1>10, <2>1, <2>2
<1>14. /\ v.tag \in Declarator /\ v.tag # "args" /\ kind # "type" /\ v.tag \notin StackTag
  BY <1>13, Tags
<1>15. /\ Above(m, v) /\ m > 0 /\ m \in Nat /\ m \in 1..N /\ m \in 1..N - 1
       /\ Stacked(m) /\ Follows(values[m].tag, v.tag) /\ Popped(m, v)
       /\ vc[N] = vc[m] /\ vc[N - 1] = vc[m]
       /\ \A j \in 1..m : Stacked(j) =>
            values[j].ast \notin {values[N].ast, values[N].target, values[N - 1].ast}
       /\ values[N].ast = NIL => CastFirst \/ \E j \in 1..m : values[j].tag = "args"
  <2>1. values' = Replace(2, v) /\ typeStack' = Tail(typeStack) /\ ast_depth' = ast_depth
    BY <1>3, <1>11, <1>12
  <2>2. values[N - 1].tag # "type" /\ m = N - 2
    BY <1>5, <1>7, <1>14
  <2>. QED
    BY <1>1, <1>5, <1>13, <1>14, <2>1, <2>2, ReplacedTwo
<1>16. PICK new : new = {}
  OBVIOUS
<1>17. Fits(new, cl, vc, m, v)
  <2>1. NIL \notin Node /\ On \subseteq Node
    BY StateFacts
  <2>2. Levels(cl, vc)
    BY <1>6 DEF State, Gib
  <2>3. \A j \in 1..m : j \in 1..N
    BY <1>6, <1>15
  <2>4. \A j \in 1..m : Stacked(j) => values[j].ast # NIL
    BY <2>2, <2>3 DEF Levels
  <2>5. \A j \in 1..m : Stacked(j) /\ values[j].ast \in {v.ast, v.target} => j = m
    BY <1>7, <1>13, <1>15, <2>4
  <2>. QED
    BY <1>6, <1>7, <1>13, <1>14, <1>15, <2>5 DEF Fits
<1>18. CASE SameLinks(h, h')
  <2>1. Unlinked
    <3>1. h \in Heaps(Types, Names) /\ \A n \in On : h[n].name \in Undefined \cup {NIL}
      BY StateFacts DEF State, Control
    <3>. QED
      BY <1>3, <1>10, <1>18, <3>1 DEF Unlinked, Patched
  <2>. QED
    BY <1>4, <1>6, <1>13, <1>14, <1>15, <1>16, <1>17, <2>1, ReducedKept
<1>19. CASE ~SameLinks(h, h')
  <2>1. patch /\ Patched(D, t, h')
    BY <1>3, <1>10, <1>19 DEF SameLinks
  <2>2. Base(L, G)' /\ Rewired(D, t, new) /\ \A n \in On : h'[n].args = h[n].args
    BY <1>3, <1>4, <1>6, <1>7, <1>8, <1>9, <1>16, <1>19, <2>1, PatchedLinks
  <2>3. Relinked(new, cl, m, v)
    <3>1. new \subseteq Node \ On /\ m \in 1..k - 1
      BY <1>7, <1>15, <1>16
    <3>2. \A n \in new : cl[n] = vc[k]
      BY <1>16
    <3>. QED
      BY <1>6, <1>7, <1>8, <1>9, <1>14, <2>2, <3>1, <3>2, RewiredRelinks
  <2>4. PICK vc2 : vc2 = [i \in Nat |-> IF i = m + 1 THEN vc[m] ELSE vc[i]]
    OBVIOUS
  <2>5. (\A i \in 1..m : vc2[i] = vc[i]) /\ vc2[m + 1] = vc[m]
    BY <1>6, <1>15, <2>4
  <2>6. Lists(cl, vc2)'
    <3>1. /\ \A n \in On : ToSet(h[n].args) \subseteq On
          /\ On' = On /\ Lists(cl, vc)
      BY <1>3, StateFacts DEF State, On
    <3>. QED
      BY <1>6, <1>13, <1>15, <2>2, <2>5, <3>1, ListsKept
  <2>7. /\ ToSet(gc') = On \cup new /\ new \cap On = {} /\ NewTop(m)
        /\ \A n \in On \cup new : h'[n].name \in Undefined \cup {NIL}
    BY <1>3, <1>16, <2>1 DEF On, NewTop, Patched
  <2>8. \E ix2 : State(L, G, cl, vc2, ix2)'
    BY <1>4, <1>6, <1>14, <1>15, <1>17, <2>2, <2>3, <2>5, <2>6, <2>7, Reduced
  <2>. QED
    BY <2>8 DEF Good
<1>. QED
  BY <1>18, <1>19

\* The lists stay: neither the new nodes nor v have one.
Unlisted(cl, vc, cl2, vc2, m, v, new) ==
  /\ ToSet(gc') = On \cup new /\ new \cap On = {}
  /\ \A n \in On : cl2[n] = cl[n]
  /\ \A n \in On : ToSet(h[n].args) \subseteq On
  /\ \A n \in On : h'[n].args = h[n].args
  /\ \A n \in new : h'[n].args = <<>>
  /\ \A i \in 1..m : vc2[i] = vc[i]
  /\ vc2[m + 1] = vc[m] /\ v.list = <<>>

\* The lists stay when new nodes have none.
LEMMA ListsNew ==
  ASSUME NEW cl, NEW vc, Lists(cl, vc), NEW cl2, NEW vc2, NEW m, NEW v, Above(m, v), m > 0,
         N \in Nat, NEW new, Unlisted(cl, vc, cl2, vc2, m, v, new)
  PROVE  Lists(cl2, vc2)'
<1> USE DEF Unlisted
<1>1. m \in 0..N /\ m \in 1..N
  BY DEF Above
<1>2. PICK k : k = N + 1
  OBVIOUS
<1>3. /\ k \in m + 1..N + 1
      /\ \A n \in new : h'[n].args = <<>> \/ (n = k /\ k <= N /\ h'[n].args = values[k].list)
      /\ \A n \in On : h'[n].args = h[n].args /\ ToSet(h[n].args) \subseteq On
      /\ \A n \in On : cl2[n] = cl[n] \/ \E q \in 1..N : vc[q] = cl[n]
  BY <1>1, <1>2 DEF On
<1>4. v.list = <<>> \/ (k \notin new /\ k <= N /\ v.list = values[k].list)
  OBVIOUS
<1>5. \A q \in 1..m + 1 : (\E p \in 1..N : vc2[q] = vc[p]) \/ \A n \in On : cl[n] # vc2[q]
  <2>1. \A q \in 1..m + 1 : q \in 1..m \/ q = m + 1
    BY <1>1
  <2>2. 1..m \subseteq 1..N
    BY <1>1
  <2>. QED
    BY <1>1, <2>1, <2>2
<1>. QED
  <2>1. Moved(cl, vc, cl2, vc2, m, v, new, k, k)
    BY <1>3, <1>4, <1>5 DEF Moved
  <2>. QED
    BY <2>1, ListsMoved

\* The declarator is the name of a type.
LEMMA typedef_decl_c_Good ==
  ASSUME NEW L, NEW G, NEW cl, NEW vc, NEW ix, State(L, G, cl, vc, ix), typedef_decl_c
  PROVE  Good(L, G)'
<1>1. /\ Room(1) /\ c_ast_new(<<Free1>>) /\ BeginDeclarator /\ typedef_type_ast_c
      /\ ProductionFrame /\ UNCHANGED <<typeStack, ast_depth>> /\ Stays
  BY Frame DEF typedef_decl_c
<1>2. PICK f : f = Free1
  OBVIOUS
<1>3. /\ HeapOK(L) /\ Base(L, G) /\ ValuesOK /\ ast_depth \in Nat /\ Lists(cl, vc)
      /\ On \subseteq Node /\ On \subseteq live /\ NIL \notin Node
      /\ \A n \in On : /\ h[n].of \in On \cup {NIL} /\ h[n].parent \in On \cup {NIL}
                       /\ ToSet(h[n].args) \subseteq On
  BY StateFacts DEF State, Base
<1>4. /\ f \in Node \ live /\ Grows({f}) /\ ToSet(gc') = On \cup {f}
      /\ gc' # <<>> /\ gc'[Len(gc')] = IF gc = <<>> THEN f ELSE gc[Len(gc)]
  BY <1>1, <1>2, <1>3, Allocated
<1>5. /\ phase = "parse" /\ command \in Gibberish /\ N \in Nat /\ N > 0 /\ N \in 1..N
      /\ Stacked(N)
  BY <1>1, TopStacked
<1>6. PICK cell : /\ Fresh(cell, "typedef", ast_depth) /\ cell.args = <<>>
                  /\ cell.def \in Defined
                  /\ h' = [h EXCEPT ![f] = cell]
  <2>1. ChosenCell(f, "typedef")
    BY <1>1, <1>2, <1>3, TypeChosen
  <2>. QED
    BY <2>1 DEF ChosenCell
<1>7. Base(L, G)' /\ h'[f] = cell /\ \A n \in Node \ {f} : h'[n] = h[n]
  <2>1. PICK kind, depth : kind = "typedef" /\ depth = ast_depth
    OBVIOUS
  <2>2. kind \in Kind /\ Fresh(cell, kind, depth) /\ (kind = "typedef" => cell.def \in Defined)
        /\ phase \notin {"exit", "exited"}
    BY <1>5, <1>6, <2>1, Kinds
  <2>3. cell.args = <<>> /\ h' = [h EXCEPT ![f] = cell] /\ Grows({f}) /\ Base(L, G)
    BY <1>3, <1>4, <1>6
  <2>. QED
    BY <2>2, <2>3, NewCell
<1>8. /\ h'[f].kind = "typedef" /\ h'[f].of = NIL /\ h'[f].parent = NIL /\ h'[f].args = <<>>
      /\ h'[f].name = NIL
  BY <1>6, <1>7 DEF Fresh
<1>9. PICK v : v = [Value("decl2", f) EXCEPT !.proper = FALSE]
  OBVIOUS
<1>10. /\ IsValue(v) /\ v.tag = "decl2" /\ v.ast = f /\ v.target = NIL /\ v.list = <<>>
       /\ v.list \in Seq(Node)
  <2>1. PICK tag : tag = "decl2"
    OBVIOUS
  <2>2. /\ IsValue(Value(tag, f)) /\ Value(tag, f).tag = tag /\ Value(tag, f).ast = f
        /\ Value(tag, f).target = NIL /\ Value(tag, f).list = <<>> /\ <<>> \in Seq(Node)
    BY ValueFields
  <2>3. v = [Value(tag, f) EXCEPT !.proper = FALSE]
    BY <1>9, <2>1
  <2>. QED
    BY <2>1, <2>2, <2>3 DEF IsValue
<1>11. values' = Append(values, v)
  BY <1>2, <1>9 DEF typedef_decl_c
<1>12. PICK m, new : m = N /\ new = {f}
  OBVIOUS
<1>13. Above(m, v)
  BY <1>3, <1>10, <1>11, <1>12, AppendAbove
<1>14. /\ v.tag \in Declarator /\ v.tag # "args" /\ v.tag # "type" /\ v.tag \notin StackTag
       /\ "typedef" \notin ParentKind
  BY <1>10, Tags, Kinds
<1>15. Follows(values[m].tag, v.tag)
  <2>1. values[N].tag # "args"
    BY <1>5, Tags DEF Stacked
  <2>. QED
    BY <1>5, <1>12, <1>14, <2>1 DEF Follows, Stacked
<1>16. Popped(m, v)
  BY <1>1, <1>5, <1>12 DEF Popped
<1>17. PICK cl2 : cl2 = [n \in Node |-> IF n = f THEN vc[m] ELSE cl[n]]
  OBVIOUS
<1>18. PICK vc2 : vc2 = [i \in Nat |-> IF i = m + 1 THEN vc[m] ELSE vc[i]]
  OBVIOUS
<1>19. /\ (\A n \in On : cl2[n] = cl[n]) /\ cl2[f] = vc[m]
       /\ (\A i \in 1..m : vc2[i] = vc[i]) /\ vc2[m + 1] = vc[m]
  BY <1>3, <1>4, <1>5, <1>12, <1>17, <1>18
<1>20. Lists(cl2, vc2)'
  <2>1. \A n \in On : h'[n].args = h[n].args
    BY <1>3, <1>4, <1>7
  <2>2. new \cap On = {} /\ ToSet(gc') = On \cup new /\ \A n \in new : h'[n].args = <<>>
    BY <1>3, <1>4, <1>8, <1>12
  <2>3. m > 0
    BY <1>5, <1>12
  <2>4. /\ Lists(cl, vc) /\ Above(m, v) /\ N \in Nat /\ v.list = <<>>
        /\ \A n \in On : ToSet(h[n].args) \subseteq On
    BY <1>3, <1>5, <1>10, <1>13
  <2>5. /\ \A n \in On : cl2[n] = cl[n]
        /\ \A i \in 1..m : vc2[i] = vc[i]
        /\ vc2[m + 1] = vc[m]
    BY <1>19
  <2>6. Unlisted(cl, vc, cl2, vc2, m, v, new)
    BY <2>1, <2>2, <2>4, <2>5 DEF Unlisted
  <2>. QED
    BY <2>3, <2>4, <2>6, ListsNew
<1>21. Chained(cl) /\ Filled /\ Levels(cl, vc) /\ Spine /\ Grammar
  BY <1>5 DEF State, Gib
<1>22. Fits(new, cl2, vc, m, v)
  <2>1. \A j \in 1..m : Stacked(j) => values[j].ast \in On
    BY <1>3, <1>12, <1>21 DEF Levels
  <2>. QED
    BY <1>3, <1>4, <1>10, <1>12, <1>14, <1>19, <2>1 DEF Fits
<1>23. \A n \in On : h'[n] = h[n] /\ n # f
  BY <1>3, <1>4, <1>7
<1>24. Relinked(new, cl2, m, v)
  <2>1. \A n \in On \cup new : /\ h'[n].of # NIL => cl2[h'[n].of] = cl2[n]
                               /\ h'[n].parent # NIL => cl2[h'[n].parent] = cl2[n]
                               /\ h'[n].of # NIL => h'[h'[n].of].parent # NIL
                               /\ h'[n].kind \in ParentKind => h'[n].of # NIL
    BY <1>3, <1>8, <1>12, <1>14, <1>19, <1>21, <1>23 DEF Chained, Filled
  <2>2. ASSUME NEW i \in 1..m, Stacked(i), NEW n, n = values[i].ast
        PROVE  /\ h'[n].kind = h[n].kind /\ h'[n].depth = h[n].depth
               /\ values[i].tag \in Pointing =>
                    h'[n].of = h[n].of /\ h'[values[i - 1].ast].parent = h[values[i - 1].ast].parent
               /\ \A c \in On \cup new : h'[c].parent = n => c \in On /\ h[c].parent = n
               /\ \A c \in On \cup new : h'[c].of = n =>
                    (c \in On /\ h[c].of = n) \/ (i = m /\ v.tag \in Declarator)
    <3>1. i \in 1..N /\ n \in On
      BY <1>12, <1>21, <2>2 DEF Levels
    <3>2. n # NIL
      BY <1>3, <3>1
    <3>3. ASSUME values[i].tag \in Pointing PROVE values[i - 1].ast \in On
      <4>1. values[i].tag # "type" /\ values[i].tag \in StackTag
        BY <3>3, Tags
      <4>2. i # 1
        BY <1>21, <3>1, <4>1 DEF Grammar
      <4>3. i - 1 \in 1..N /\ i > 1
        BY <1>5, <3>1, <4>2
      <4>4. Stacked(i - 1)
        BY <1>21, <3>1, <4>1, <4>3 DEF Grammar, Follows, Stacked
      <4>. QED
        BY <1>3, <1>21, <4>3, <4>4 DEF Levels
    <3>. QED
      BY <1>8, <1>12, <1>23, <3>1, <3>2, <3>3
  <2>. QED
    BY <2>1, <2>2 DEF Relinked
<1>25. /\ ToSet(gc') = On \cup new /\ new \cap On = {} /\ NewTop(f) /\ m > 0
       /\ \A n \in On \cup new : h'[n].name \in Undefined \cup {NIL}
  <2>1. \A n \in On : h[n].name \in Undefined \cup {NIL}
    BY DEF State, Control
  <2>. QED
    BY <1>3, <1>4, <1>5, <1>8, <1>12, <1>23, <2>1 DEF NewTop
<1>26. \E ix2 : State(L, G, cl2, vc2, ix2)'
  BY <1>1, <1>5, <1>7, <1>12, <1>13, <1>14, <1>15, <1>16, <1>19, <1>20, <1>22, <1>24, <1>25, Reduced
<1>. QED
  BY <1>26 DEF Good

\* An argument that has no name takes the one found from it.
LEMMA NameGiven ==
  ASSUME NEW L, NEW G, NEW cl, NEW vc, NEW ix, State(L, G, cl, vc, ix), NEW n \in On,
         h' = IF h[n].name = NIL THEN [h EXCEPT ![n].name = c_ast_name(h, n)] ELSE h,
         UNCHANGED <<live, gc, recursive>>
  PROVE  Unlinked
<1>1. /\ h \in Heaps(Types, Names) /\ On \subseteq Node /\ NIL \notin Node /\ NIL \in Names
      /\ \A m \in On : h[m].of \in On \cup {NIL}
      /\ \A m \in On : h[m].name \in Undefined \cup {NIL}
      /\ WellFounded(Node, OfEdges(h)) /\ On \in SUBSET Node
  BY StateFacts, NilFacts, OfFounded DEF State, Control
<1>2. c_ast_name(h, n) = NIL \/ \E m \in On : c_ast_name(h, n) = h[m].name
  BY <1>1, NameFoundIn
<1>3. c_ast_name(h, n) \in Undefined \cup {NIL}
  BY <1>1, <1>2
<1>4. PICK name : name = c_ast_name(h, n)
  OBVIOUS
<1>5. name \in Names /\ name \in Undefined \cup {NIL} /\ n \in Node
  BY <1>1, <1>3, <1>4 DEF Names, Undefined
<1>6. CASE h' = h
  <2>1. SameLinks(h, h)
    BY DEF SameLinks
  <2>. QED
    BY <1>1, <1>6, <2>1 DEF Unlinked
<1>7. CASE h' = [h EXCEPT ![n].name = name]
  <2>1. h' \in Heaps(Types, Names)
    <3>1. h[n] \in Cells(Types, Names)
      BY <1>1, <1>5 DEF Heaps
    <3>2. [h[n] EXCEPT !.name = name] \in Cells(Types, Names)
      BY <1>5, <3>1 DEF Cells
    <3>3. h' = [h EXCEPT ![n] = [h[n] EXCEPT !.name = name]]
      BY <1>7
    <3>. QED
      BY <1>1, <1>5, <3>2, <3>3 DEF Heaps
  <2>4. SameLinks(h, h')
    <3>1. ASSUME NEW m \in Node, m # n PROVE h'[m] = h[m]
      BY <1>1, <1>7, <3>1 DEF Heaps
    <3>2. h'[n] = [h[n] EXCEPT !.name = name]
      BY <1>1, <1>5, <1>7 DEF Heaps
    <3>. QED
      BY <3>1, <3>2 DEF SameLinks
  <2>2. \A m \in On : h'[m].name \in Undefined \cup {NIL}
    BY <1>1, <1>5, <1>7 DEF Heaps, Cells
  <2>3. \A m \in Node \ On : h'[m] = h[m]
    BY <1>1, <1>7 DEF Heaps
  <2>. QED
    BY <1>7, <2>1, <2>2, <2>3, <2>4 DEF Unlinked
<1>. QED
  BY <1>4, <1>6, <1>7

\* An argument is put on the list.
LEMMA arg_c_Good ==
  ASSUME NEW L, NEW G, NEW cl, NEW vc, NEW ix, State(L, G, cl, vc, ix), arg_c
  PROVE  Good(L, G)'
<1>1. /\ ParsingGibberish /\ TopTwo({"type"}, Declarator)
      /\ Len(values) > 2 /\ values[Len(values) - 2].tag = "args"
      /\ typeStack' = Tail(typeStack)
      /\ UNCHANGED <<live, gc, recursive, count, ast_depth>>
      /\ ProductionFrame /\ Stays
  BY Frame DEF arg_c
<1>2. /\ TopIs(Declarator) /\ Top = values[N] /\ Below = values[N - 1]
      /\ values[N - 1].tag = "type" /\ values[N].tag \in Declarator
      /\ N > 2 /\ values[N - 2].tag = "args"
  BY <1>1, TopTwoIs DEF State, N
<1>3. /\ phase = "parse" /\ command \in Gibberish /\ N \in Nat /\ N \in 1..N
      /\ ~Stacked(N) /\ Stacked(N - 1) /\ N - 1 \in 1..N
      /\ values[N].ast # NIL => values[N].ast \in On /\ cl[values[N].ast] = vc[N]
      /\ values[N - 1].ast \in On /\ cl[values[N - 1].ast] = vc[N - 1] /\ vc[N] = vc[N - 1]
  BY <1>1, <1>2, TopDeclarator
<1>4. Grammar /\ Levels(cl, vc) /\ ValuesOK /\ Lists(cl, vc)
  BY <1>3 DEF State, Gib
<1>5. PICK m, k : m = N - 3 /\ k = N - 2
  OBVIOUS
<1>6. k \in 1..N /\ k \in Nat /\ m + 1 = k /\ k - 1 = m /\ m \in Nat /\ values[k].tag = "args" /\ ~Stacked(k)
  BY <1>2, <1>3, <1>5, Tags DEF Stacked
<1>7. m > 0 /\ values[m].tag = "decl2" /\ m \in 1..N
  <2>1. k # 1
    BY <1>4, <1>6, Tags DEF Grammar
  <2>2. m > 0 /\ k > 1 /\ m \in 1..N
    BY <1>3, <1>5, <1>6, <2>1
  <2>3. values[m].tag = "decl2"
    BY <1>4, <1>6, <2>2 DEF Grammar, Follows
  <2>. QED
    BY <2>2, <2>3
<1>8. PICK n : n = IF Top.ast # NIL THEN Top.ast ELSE Below.ast
  OBVIOUS
<1>9. n \in On /\ cl[n] = vc[N - 1] /\ n \in Node
  BY <1>2, <1>3, <1>8, StateFacts
<1>10. /\ h' = IF h[n].name = NIL THEN [h EXCEPT ![n].name = c_ast_name(h, n)] ELSE h
       /\ \E ops2, p2 : values' = Replace(3, [values[Len(values) - 2] EXCEPT !.list = c_ast_list_append(@, n),
                        !.ops = ops2, !.proper = p2])
  BY <1>8 DEF arg_c
<1>11. PICK ops2, p2 : values' = Replace(3, [values[Len(values) - 2] EXCEPT !.list = c_ast_list_append(@, n),
                        !.ops = ops2, !.proper = p2])
  BY <1>10
<1>12. PICK v : v = [values[k] EXCEPT !.list = c_ast_list_append(@, n), !.ops = ops2, !.proper = p2]
  OBVIOUS
<1>13. PICK s : s = values[k].list
  OBVIOUS
<1>14. s \in Seq(Node) /\ IsValue(values[k])
  BY <1>4, <1>6, <1>13, ValueAt
<1>15. /\ IsValue(v) /\ v.tag = "args" /\ v.ast = NIL /\ v.target = NIL
       /\ v.list = Append(s, n) /\ v.list \in Seq(Node)
  <2>1. values[k].ast = NIL /\ values[k].target = NIL
    BY <1>4, <1>6 DEF Levels
  <2>2. /\ IsValue(v) /\ v.tag = "args" /\ v.ast = NIL /\ v.target = NIL
        /\ v.list = Append(s, n)
    BY <1>6, <1>12, <1>13, <1>14, <2>1 DEF IsValue, c_ast_list_append
  <2>. QED
    BY <1>9, <1>14, <2>2
<1>16. Above(m, v)
  <2>1. PICK j \in 0..N : j = 3
    BY <1>2, <1>3
  <2>2. values' = Replace(j, v)
    BY <1>5, <1>11, <1>12, <2>1 DEF N
  <2>3. Above(N - j, v)
    BY <1>4, <1>15, <2>2, ReplaceAbove
  <2>. QED
    BY <1>5, <2>1, <2>3
<1>17. Unlinked
  BY <1>1, <1>9, <1>10, NameGiven
<1>18. /\ v.tag \notin Declarator /\ v.tag # "type" /\ v.tag \notin StackTag /\ ~Stacked(m)
       /\ Follows(values[m].tag, v.tag)
  <2>1. v.tag \notin Declarator /\ v.tag # "type" /\ v.tag \notin StackTag /\ ~Stacked(m)
    BY <1>7, <1>15, Tags DEF Stacked
  <2>2. values[m].tag # "args"
    BY <1>7, Tags
  <2>. QED
    BY <1>7, <1>15, <2>1, <2>2 DEF Follows
<1>19. Popped(m, v)
  <2>1. \A i \in m + 1..N : i = k \/ i = N - 1 \/ i = N
    BY <1>3, <1>5, <1>6
  <2>2. N - 1 \in m + 1..N
    BY <1>3, <1>5, <1>6
  <2>3. \A i \in m + 1..N : Stacked(i) => i = N - 1
    BY <1>3, <1>6, <2>1
  <2>. QED
    BY <1>1, <1>3, <1>18, <2>2, <2>3 DEF Popped
<1>20. Fits({}, cl, vc, m, v)
  BY <1>15, <1>18 DEF Fits
<1>21. PICK vc2 : vc2 = [i \in Nat |-> IF i = m + 1 THEN vc[m] ELSE vc[i]]
  OBVIOUS
<1>22. (\A i \in 1..m : vc2[i] = vc[i]) /\ vc2[m + 1] = vc[m]
  BY <1>6, <1>21
<1>23. \A q \in 1..m + 1 : q \in 1..m \/ q = m + 1
  BY <1>6
<1>24. \A q \in 1..m : q \in 1..N /\ q \in 1..(N - 1) - 1
  BY <1>3, <1>5, <1>6
<1>25. Lists(cl, vc2)'
  <2>1. \A q \in 1..m : vc[q] # cl[n]
    BY <1>2, <1>3, <1>4, <1>9, <1>24 DEF Levels
  <2>2. m \in 1..m
    BY <1>6, <1>7
  <2>3. \A q \in 1..m + 1 : vc2[q] # cl[n]
    BY <1>22, <1>23, <2>1, <2>2
  <2>4. \A q \in 1..m + 1 : (\E p \in 1..N : vc2[q] = vc[p]) \/ \A x \in On : cl[x] # vc2[q]
    BY <1>7, <1>22, <1>23, <1>24
  <2>5. /\ On' = On /\ On \subseteq Node
        /\ \A x \in On : h'[x].args = h[x].args
        /\ \A x \in On : ToSet(h[x].args) \subseteq On
    <3>1. On \subseteq Node /\ \A x \in On : ToSet(h[x].args) \subseteq On
      BY StateFacts
    <3>. QED
      BY <1>17, <3>1 DEF Unlinked, SameLinks, On
  <2>6. s = <<>> \/ \E j \in m + 1..N : s = values[j].list
    <3>1. k \in m + 1..N
      BY <1>3, <1>5, <1>6
    <3>. QED
      BY <1>13, <3>1
  <2>7. \E p \in 1..N : vc[p] = cl[n]
    BY <1>3, <1>9
  <2>8. Appended(cl, vc, vc2, m, v, s, n)
    BY <1>15, <2>3, <2>4, <2>5, <2>6, <2>7 DEF Appended
  <2>. QED
    BY <1>3, <1>4, <1>9, <1>14, <1>16, <2>5, <2>8, ListsAppended
<1>26. v.tag \in Declarator \cup {"args"}
  BY <1>15
<1>. QED
  BY <1>1, <1>3, <1>7, <1>16, <1>17, <1>18, <1>19, <1>20, <1>22, <1>25, <1>26, ReducedSame

-----------------------------------------------------------------------------
(* Arrays and functions.                                                   *)

\* With new nodes that are linked among themselves walks still end.
LEMMA OfFoundedNew ==
  ASSUME NEW L, NEW G, Base(L, G), NEW new, new \subseteq Node \ live, NEW g,
         \A n \in Node \ new : g[n].of = h[n].of,
         \A n \in new : g[n].of \in new \cup {NIL}, WellFounded(new, OfEdges(g))
  PROVE  WellFounded(Node, OfEdges(g))
<1>1. /\ NIL \notin Node /\ live \subseteq Node /\ On \subseteq live /\ Owned(L) \subseteq live
      /\ \A n \in On : h[n].of \in On \cup {NIL}
      /\ \A n \in Owned(L) : h[n].of \in Owned(L) \cup {NIL}
  BY NilFacts DEF Base, HeapOK, LinksOK, Owned
<1>2. WellFounded(Node, OfEdges(h))
  BY OfFounded
<1>3. SUFFICES ASSUME NEW S \in SUBSET Node, S # {}
               PROVE  \E m \in S : \A n \in S : <<m, n>> \notin OfEdges(g)
  BY DEF WellFounded
<1>4. CASE S \cap (On \cup Owned(L)) # {}
  <2>1. S \cap (On \cup Owned(L)) \in SUBSET Node
    BY <1>3
  <2>2. PICK m \in S \cap (On \cup Owned(L)) :
               \A n \in S \cap (On \cup Owned(L)) : <<m, n>> \notin OfEdges(h)
    BY <1>2, <1>4, <2>1 DEF WellFounded
  <2>3. g[m].of = h[m].of /\ h[m].of \in On \cup Owned(L) \cup {NIL}
    BY <1>1, <2>2
  <2>4. \A n \in S : <<m, n>> \notin OfEdges(g)
    BY <1>1, <1>3, <2>2, <2>3 DEF OfEdges
  <2>. QED
    BY <2>2, <2>4
<1>5. CASE S \cap new # {}
  <2>1. PICK m \in S \cap new : \A n \in S \cap new : <<m, n>> \notin OfEdges(g)
    BY <1>5 DEF WellFounded
  <2>2. g[m].of \in new \cup {NIL}
    BY <2>1
  <2>3. \A n \in S : <<m, n>> \notin OfEdges(g)
    BY <1>1, <1>3, <2>1, <2>2 DEF OfEdges
  <2>. QED
    BY <2>1, <2>3
<1>6. CASE S \cap new = {}
  <2>1. PICK m \in S : \A n \in S : <<m, n>> \notin OfEdges(h)
    BY <1>2, <1>3 DEF WellFounded
  <2>2. g[m].of = h[m].of
    BY <1>3, <1>6, <2>1
  <2>. QED
    BY <1>3, <2>1, <2>2 DEF OfEdges
<1>. QED
  BY <1>4, <1>5, <1>6

\* The heap with an array and its placeholder.
ArrayNew(g, a, pl) ==
  /\ g \in Heaps(Types, Names)
  /\ g[a].kind = "array" /\ g[a].depth = ast_depth /\ g[a].parent = NIL /\ g[a].of = pl
  /\ g[pl].kind = "placeholder" /\ g[pl].parent = a /\ g[pl].of = NIL
  /\ \A n \in {a, pl} : g[n].args = <<>> /\ g[n].name = NIL /\ g[n].def = NIL
  /\ \A n \in Node \ {a, pl} : g[n] = h[n]

\* The code allocates the array and its placeholder so.
LEMMA ArrayNewOf ==
  ASSUME NIL \notin Node, h \in Heaps(Types, Names), ast_depth \in Nat,
         NEW a \in Node, NEW pl \in Node, a # pl, NEW g,
         g = c_ast_set_parent([h EXCEPT ![a] = NewAst("array", ast_depth),
                                        ![pl] = NewAst("placeholder", ast_depth)], pl, a)
  PROVE  ArrayNew(g, a, pl)
<1>1. PICK array : array = NewAst("array", ast_depth)
  OBVIOUS
<1>2. PICK placeholder : placeholder = NewAst("placeholder", ast_depth)
  OBVIOUS
<1>3. /\ array \in Cells(Types, Names) /\ array.kind = "array" /\ array.depth = ast_depth
      /\ array.parent = NIL /\ array.of = NIL /\ array.name = NIL /\ array.args = <<>>
      /\ array.def = NIL
  <2>1. "array" \in Kind \ {"typedef"} /\ "array" # "typedef"
    BY Kinds
  <2>2. /\ Fresh(NewAst("array", ast_depth), "array", ast_depth)
        /\ NewAst("array", ast_depth).args = <<>>
    BY <2>1, FreshCells
  <2>. QED
    BY <1>1, <2>1, <2>2 DEF Fresh
<1>4. /\ placeholder \in Cells(Types, Names) /\ placeholder.kind = "placeholder"
      /\ placeholder.parent = NIL /\ placeholder.of = NIL /\ placeholder.name = NIL
      /\ placeholder.args = <<>> /\ placeholder.def = NIL
  <2>1. "placeholder" \in Kind \ {"typedef"} /\ "placeholder" # "typedef"
    BY Kinds, KindsDiffer
  <2>2. /\ Fresh(NewAst("placeholder", ast_depth), "placeholder", ast_depth)
        /\ NewAst("placeholder", ast_depth).args = <<>>
    BY <2>1, FreshCells
  <2>. QED
    BY <1>2, <2>1, <2>2 DEF Fresh
<1>5. PICK g0 : g0 = [h EXCEPT ![a] = array, ![pl] = placeholder]
  OBVIOUS
<1>6. /\ g0 \in Heaps(Types, Names) /\ g0[a] = array /\ g0[pl] = placeholder
      /\ \A n \in Node \ {a, pl} : g0[n] = h[n]
  BY <1>3, <1>4, <1>5 DEF Heaps
<1>7. g0[a].kind \in ParentKind /\ g0[a].parent = NIL
  BY <1>3, <1>6, Kinds
<1>8. g = c_ast_set_parent(g0, pl, a)
  BY <1>1, <1>2, <1>5
<1>9. g \in Heaps(Types, Names) /\ Linked(g0, g, pl, a)
  BY <1>6, <1>7, <1>8, SetParentDone
<1>10. \A n \in Node \ {a, pl} : g[n] = h[n]
  <2>1. SUFFICES ASSUME NEW n \in Node \ {a, pl} PROVE g[n] = g0[n]
    BY <1>6
  <2>2. g[n] \in Cells(Types, Names) /\ g0[n] \in Cells(Types, Names)
    BY <1>6, <1>9 DEF Heaps
  <2>3. /\ g[n].kind = g0[n].kind /\ g[n].type = g0[n].type /\ g[n].def = g0[n].def
        /\ g[n].depth = g0[n].depth /\ g[n].name = g0[n].name /\ g[n].args = g0[n].args
    BY <1>9, <2>1 DEF Linked, SameData
  <2>4. g[n].parent = g0[n].parent /\ g[n].of = g0[n].of
    BY <1>9, <2>1 DEF Linked
  <2>. QED
    BY <2>2, <2>3, <2>4 DEF Cells
<1>11. /\ g[a].kind = "array" /\ g[a].depth = ast_depth /\ g[a].parent = NIL /\ g[a].of = pl
       /\ g[pl].kind = "placeholder" /\ g[pl].parent = a /\ g[pl].of = NIL
       /\ \A n \in {a, pl} : g[n].args = <<>> /\ g[n].name = NIL /\ g[n].def = NIL
  <2>1. \A n \in Node : /\ g[n].kind = g0[n].kind /\ g[n].def = g0[n].def
                        /\ g[n].depth = g0[n].depth /\ g[n].name = g0[n].name
                        /\ g[n].args = g0[n].args
    BY <1>9 DEF Linked, SameData
  <2>2. g[a].of = pl /\ g[pl].parent = a /\ g[a].parent = g0[a].parent /\ g[pl].of = g0[pl].of
    BY <1>9 DEF Linked
  <2>3. /\ g[a].kind = "array" /\ g[a].depth = ast_depth
        /\ g[a].args = <<>> /\ g[a].name = NIL /\ g[a].def = NIL /\ g0[a].parent = NIL
    BY <1>3, <1>6, <2>1
  <2>4. /\ g[pl].kind = "placeholder" /\ g0[pl].of = NIL
        /\ g[pl].args = <<>> /\ g[pl].name = NIL /\ g[pl].def = NIL
    BY <1>4, <1>6, <2>1
  <2>. QED
    BY <2>2, <2>3, <2>4
<1>. QED
  BY <1>9, <1>10, <1>11 DEF ArrayNew

\* What the new array changes.
ArrayPlaced(D, t, a, pl, b) ==
  /\ h'[a].kind = "array" /\ h'[a].of = b
  /\ h'[a].parent = NIL \/ (h'[a].parent \in D /\ h[h'[a].parent].of = b)
                        \/ (h'[a].parent = h[b].parent /\ h[b].parent \in D)
  /\ h'[pl].kind = "placeholder" /\ h'[pl].of = NIL
  /\ h'[pl].parent = a
  /\ h'[b].parent \in D \cup {a}
  /\ \A n \in {a, pl} : h'[n].args = <<>> /\ h'[n].name = NIL /\ h'[n].def = NIL
  /\ \A n \in Node \ {a, pl} :
       /\ h'[n].kind = h[n].kind /\ h'[n].type = h[n].type /\ h'[n].def = h[n].def
       /\ h'[n].depth = h[n].depth /\ h'[n].name = h[n].name /\ h'[n].args = h[n].args
       /\ \/ h'[n].of = h[n].of
          \/ /\ n \in D /\ h'[n].of = a /\ h'[a].parent # NIL
             /\ h[n].of = b \/ n = h[b].parent
       /\ \/ h'[n].parent = h[n].parent
          \/ n = b /\ h'[n].parent = a
          \/ n \in D \cup {t} /\ h'[n].parent \in D /\ h[h'[n].parent].of = n

\* How c_ast_add_array places the array.
LEMMA ArrayPlacedBy ==
  ASSUME NEW L, NEW G, NEW cl, NEW vc, NEW ix, State(L, G, cl, vc, ix),
         NEW k, NEW D, NEW t, Surrounded(D, t, k),
         NEW a \in Node \ live, NEW pl \in Node \ live, a # pl,
         NEW g, ArrayNew(g, a, pl), NEW b \in D \cup {t}, ArrayPut(g, h', D, a, b)
  PROVE  ArrayPlaced(D, t, a, pl, b)
<1>1. /\ On \subseteq Node /\ On \subseteq live /\ NIL \notin Node
      /\ \A n \in On : h[n].of \in On \cup {NIL} /\ h[n].parent \in On \cup {NIL}
  BY StateFacts
<1>2. /\ D \subseteq On /\ t \in On
      /\ \A n \in D : h[n].of \in D \cup {t, NIL}
      /\ \A n \in D \cup {t} : h[n].parent \in D \cup {NIL}
  BY DEF Surrounded
<1>3. /\ a \notin On /\ pl \notin On /\ a \in Node /\ pl \in Node /\ b \in On /\ b \in Node
      /\ a # NIL /\ pl # NIL /\ b # a /\ b # pl /\ D \subseteq Node
  BY <1>1, <1>2
<1>4. /\ g[a].kind = "array" /\ g[a].depth = ast_depth /\ g[a].parent = NIL /\ g[a].of = pl
      /\ g[pl].kind = "placeholder" /\ g[pl].parent = a /\ g[pl].of = NIL
      /\ \A n \in {a, pl} : g[n].args = <<>> /\ g[n].name = NIL /\ g[n].def = NIL
      /\ \A n \in Node \ {a, pl} : g[n] = h[n]
  BY DEF ArrayNew
<1>5. \A n \in Node : /\ h'[n].kind = g[n].kind /\ h'[n].type = g[n].type /\ h'[n].def = g[n].def
                      /\ h'[n].depth = g[n].depth /\ h'[n].name = g[n].name
                      /\ h'[n].args = g[n].args
  BY DEF ArrayPut, SameData
<1>6. /\ h'[a].of = b /\ h'[b].parent # NIL
      /\ \A x \in Node \ {a} :
           /\ \/ h'[x].of = g[x].of
              \/ /\ h'[x].of = a /\ h'[a].parent # NIL
                 /\ (x \in D /\ g[x].of = b) \/ x = g[b].parent
           /\ \/ h'[x].parent = g[x].parent
              \/ x = b /\ h'[x].parent = a
              \/ h'[x].parent \in D /\ g[h'[x].parent].of = x
      /\ \/ h'[a].parent = NIL
         \/ h'[a].parent \in D /\ g[h'[a].parent].of = b
         \/ h'[a].parent = g[b].parent
  BY DEF ArrayPut
<1>7. g[b] = h[b] /\ \A n \in D : g[n] = h[n]
  BY <1>2, <1>3, <1>4
<1>8. h[b].parent \in D \cup {NIL} /\ \A n \in D : h[n].of \notin {a, pl}
  BY <1>1, <1>2, <1>3
<1>9. h'[pl].of = NIL /\ h'[pl].parent = a
  <2>1. pl \in Node \ {a} /\ pl \notin D
    BY <1>2, <1>3
  <2>2. pl # g[b].parent
    BY <1>2, <1>3, <1>7, <1>8
  <2>3. h'[pl].of = g[pl].of
    BY <1>6, <2>1, <2>2
  <2>4. ~(h'[pl].parent \in D /\ g[h'[pl].parent].of = pl)
    BY <1>7, <1>8
  <2>5. h'[pl].parent = g[pl].parent
    BY <1>3, <1>4, <1>6, <2>1, <2>4
  <2>. QED
    BY <1>4, <2>3, <2>5
<1>10. h'[b].parent \in D \cup {a}
  <2>1. b \in Node \ {a}
    BY <1>3
  <2>2. \/ h'[b].parent = g[b].parent
        \/ b = b /\ h'[b].parent = a
        \/ h'[b].parent \in D /\ g[h'[b].parent].of = b
    BY <1>6, <2>1
  <2>3. g[b].parent \in D \cup {NIL} /\ h'[b].parent # NIL
    BY <1>6, <1>7, <1>8
  <2>. QED
    BY <2>2, <2>3
<1>11. ASSUME NEW n \in Node \ {a, pl}
       PROVE  /\ \/ h'[n].of = h[n].of
                 \/ /\ n \in D /\ h'[n].of = a /\ h'[a].parent # NIL
                    /\ h[n].of = b \/ n = h[b].parent
              /\ \/ h'[n].parent = h[n].parent
                 \/ n = b /\ h'[n].parent = a
                 \/ n \in D \cup {t} /\ h'[n].parent \in D /\ h[h'[n].parent].of = n
  <2>1. g[n] = h[n]
    BY <1>4
  <2>2. \/ h'[n].of = h[n].of
        \/ /\ n \in D /\ h'[n].of = a /\ h'[a].parent # NIL
           /\ h[n].of = b \/ n = h[b].parent
    <3>1. g[b].parent \in D \cup {NIL} /\ g[b].parent = h[b].parent
      BY <1>7, <1>8
    <3>2. n # NIL
      BY <1>1
    <3>. QED
      BY <1>6, <2>1, <3>1, <3>2
  <2>3. \/ h'[n].parent = h[n].parent
        \/ n = b /\ h'[n].parent = a
        \/ n \in D \cup {t} /\ h'[n].parent \in D /\ h[h'[n].parent].of = n
    <3>1. \A d \in D : g[d].of = n => n \in D \cup {t} /\ h[d].of = n
      BY <1>1, <1>2, <1>7
    <3>. QED
      BY <1>6, <2>1, <3>1
  <2>. QED
    BY <2>2, <2>3
<1>12. \/ h'[a].parent = NIL
       \/ h'[a].parent \in D /\ h[h'[a].parent].of = b
       \/ h'[a].parent = h[b].parent /\ h[b].parent \in D
  BY <1>6, <1>7, <1>8
<1>13. /\ h'[a].kind = "array" /\ h'[pl].kind = "placeholder"
       /\ \A n \in {a, pl} : h'[n].args = <<>> /\ h'[n].name = NIL /\ h'[n].def = NIL
  BY <1>3, <1>4, <1>5
<1>14. \A n \in Node \ {a, pl} :
         /\ h'[n].kind = h[n].kind /\ h'[n].type = h[n].type /\ h'[n].def = h[n].def
         /\ h'[n].depth = h[n].depth /\ h'[n].name = h[n].name /\ h'[n].args = h[n].args
  BY <1>4, <1>5
<1>. QED
  BY <1>6, <1>9, <1>10, <1>11, <1>12, <1>13, <1>14 DEF ArrayPlaced

\* The array so placed closes no cycle and is linked to the declarator only.
LEMMA ArrayPlacedGood ==
  ASSUME NEW L, NEW G, NEW cl, NEW vc, NEW ix, State(L, G, cl, vc, ix), phase = "parse",
         NEW k, NEW D, NEW t, Surrounded(D, t, k), h' \in Heaps(Types, Names),
         NEW a \in Node \ live, NEW pl \in Node \ live, a # pl, Grows({a, pl}),
         NEW b \in D \cup {t}, ArrayPlaced(D, t, a, pl, b)
  PROVE  Base(L, G)' /\ Rewired(D, t, {a, pl})
<1>1. /\ On \subseteq Node /\ On \subseteq live /\ NIL \notin Node /\ Base(L, G)
      /\ h \in Heaps(Types, Names)
      /\ \A n \in On : /\ h[n].of \in On \cup {NIL} /\ h[n].parent \in On \cup {NIL}
                       /\ ToSet(h[n].args) \subseteq On
                       /\ h[n].of # NIL => h[n].kind \in ParentKind
                       /\ h[n].parent # NIL => h[h[n].parent].kind \in ParentKind
  BY StateFacts DEF State
<1>2. /\ D \subseteq On /\ t \in On
      /\ \A n \in D : h[n].of \in D \cup {t, NIL}
      /\ \A n \in D \cup {t} : h[n].parent \in D \cup {NIL}
  BY DEF Surrounded
<1>3. /\ a \notin On /\ pl \notin On /\ a \in Node /\ pl \in Node /\ b \in On /\ b \in Node
      /\ a # NIL /\ pl # NIL /\ b # a /\ b # pl /\ D \subseteq Node /\ b # NIL
      /\ \A n \in On : n # a /\ n # pl /\ n \in Node \ {a, pl} /\ n # NIL
  BY <1>1, <1>2
<1>4. /\ h'[a].kind = "array" /\ h'[a].of = b
      /\ h'[a].parent = NIL \/ (h'[a].parent \in D /\ h[h'[a].parent].of = b)
                            \/ (h'[a].parent = h[b].parent /\ h[b].parent \in D)
      /\ h'[pl].kind = "placeholder" /\ h'[pl].of = NIL
      /\ h'[pl].parent = a /\ h'[b].parent \in D \cup {a}
      /\ \A n \in {a, pl} : h'[n].args = <<>> /\ h'[n].name = NIL /\ h'[n].def = NIL
  BY DEF ArrayPlaced
<1>5. \A n \in Node \ {a, pl} :
       /\ h'[n].kind = h[n].kind /\ h'[n].type = h[n].type /\ h'[n].def = h[n].def
       /\ h'[n].depth = h[n].depth /\ h'[n].name = h[n].name /\ h'[n].args = h[n].args
       /\ \/ h'[n].of = h[n].of
          \/ /\ n \in D /\ h'[n].of = a /\ h'[a].parent # NIL
             /\ h[n].of = b \/ n = h[b].parent
       /\ \/ h'[n].parent = h[n].parent
          \/ n = b /\ h'[n].parent = a
          \/ n \in D \cup {t} /\ h'[n].parent \in D /\ h[h'[n].parent].of = n
  BY DEF ArrayPlaced
<1>6. /\ "array" \in ParentKind /\ "array" \in Kind /\ "placeholder" \in Kind
      /\ "placeholder" \notin ParentKind /\ "array" # "typedef" /\ "placeholder" # "typedef"
  BY Kinds, KindsDiffer
<1>7. PICK new : new = {a, pl}
  OBVIOUS
<1>8. ASSUME NEW n \in Node \ (On \cup new) PROVE h'[n] = h[n]
  <2>1. n \in Node \ {a, pl} /\ n \notin D /\ n # b /\ n # t /\ n \in Node
    BY <1>2, <1>3, <1>7, <1>8
  <2>2. h[n] \in Cells(Types, Names) /\ h'[n] \in Cells(Types, Names)
    BY <1>1, <2>1 DEF Heaps
  <2>3. h'[n].of = h[n].of /\ h'[n].parent = h[n].parent
    BY <1>2, <1>5, <2>1
  <2>4. /\ h'[n].kind = h[n].kind /\ h'[n].type = h[n].type /\ h'[n].def = h[n].def
        /\ h'[n].depth = h[n].depth /\ h'[n].name = h[n].name /\ h'[n].args = h[n].args
    BY <1>5, <2>1
  <2>. QED
    BY <2>2, <2>3, <2>4 DEF Cells
<1>9. \A n \in On : /\ h'[n].of \in On \cup {a, NIL} /\ h'[n].parent \in On \cup {a, NIL}
                    /\ h'[n].of # NIL => h[n].kind \in ParentKind
  BY <1>1, <1>2, <1>3, <1>5
<1>10. \A n \in On \cup new : h'[n].parent # NIL => h'[h'[n].parent].kind \in ParentKind
  <2>1. ASSUME NEW d \in D, h[d].of # NIL PROVE h'[d].kind \in ParentKind
    BY <1>1, <1>2, <1>3, <1>5, <2>1
  <2>2. ASSUME NEW n \in On, h[n].parent # NIL PROVE h'[h[n].parent].kind \in ParentKind
    BY <1>1, <1>3, <1>5, <2>2
  <2>3. h'[a].parent # NIL => h'[h'[a].parent].kind \in ParentKind
    BY <1>3, <1>4, <2>1, <2>2
  <2>4. ASSUME NEW n \in On PROVE h'[n].parent # NIL => h'[h'[n].parent].kind \in ParentKind
    BY <1>3, <1>4, <1>5, <1>6, <2>1, <2>2
  <2>. QED
    BY <1>4, <1>6, <1>7, <2>3, <2>4
<1>11. Builds(new)
  <2>1. \A n \in On : /\ h'[n].kind = h[n].kind /\ h'[n].def = h[n].def
                      /\ h'[n].args = h[n].args /\ h'[n].type = h[n].type
                      /\ h'[n].of # NIL => h'[n].kind \in ParentKind
    BY <1>3, <1>5, <1>9
  <2>2. \A n \in new : /\ h'[n].kind \in Kind /\ h'[n].kind # "typedef" /\ h'[n].args = <<>>
                       /\ h'[n].of # NIL => h'[n].kind \in ParentKind
                       /\ h'[n].def = NIL
    BY <1>4, <1>6, <1>7
  <2>3. \A n \in On \cup new : /\ h'[n].of \in On \cup new \cup {NIL}
                               /\ h'[n].parent \in On \cup new \cup {NIL}
    BY <1>1, <1>2, <1>3, <1>4, <1>7, <1>9
  <2>. QED
    BY <1>8, <1>10, <2>1, <2>2, <2>3, NoClasses DEF Builds
<1>12. Base(L, G)'
  <2>1. \A x \in On \cup {a, pl} : h'[x].parent # pl
    BY <1>1, <1>2, <1>3, <1>4, <1>9
  <2>2. \A x \in On :
            /\ \/ h'[x].of = h[x].of
               \/ h'[x].of = a /\ (h[x].of = b \/ x = h[b].parent)
            /\ \/ h'[x].parent = h[x].parent
               \/ x = b /\ h'[x].parent = a
               \/ h'[x].parent \in On /\ h[h'[x].parent].of = x
    BY <1>2, <1>3, <1>5
  <2>3. \A x \in On : h'[a].parent = x => h[x].of = b \/ x = h[b].parent
    BY <1>3, <1>4
  <2>4. /\ h'[a].of = b /\ h'[pl].of = NIL /\ h'[a].kind \in ParentKind
        /\ h'[pl].kind # "typedef" /\ h'[a].args = <<>> /\ h'[pl].args = <<>>
        /\ h'[a].parent # a
    BY <1>2, <1>3, <1>4, <1>6
  <2>5. phase \notin {"exit", "exited"} /\ Builds({a, pl})
    BY <1>7, <1>11
  <2>. QED
    BY <1>1, <1>3, <2>1, <2>2, <2>3, <2>4, <2>5, NewArray
<1>13. Rewired(D, t, new)
  <2>1. \A x \in On :
          /\ h'[x].kind = h[x].kind /\ h'[x].depth = h[x].depth
          /\ h'[x].of = h[x].of \/ (x \in D /\ h'[x].of \in D \cup {t} \cup new)
          /\ h'[x].parent = h[x].parent \/ (x \in D \cup {t} /\ h'[x].parent \in D \cup new)
    BY <1>3, <1>5, <1>7
  <2>2. \A f \in new : h'[f].of \in D \cup {t, NIL} \cup new /\ h'[f].parent \in D \cup {NIL} \cup new
    BY <1>4, <1>7
  <2>3. \A x \in new : /\ h'[x].of # NIL => h'[h'[x].of].parent # NIL
                       /\ h'[x].kind \in ParentKind => h'[x].of # NIL
    BY <1>1, <1>2, <1>3, <1>4, <1>6, <1>7
  <2>4. \A x \in On : h'[x].of # h[x].of =>
                      /\ h'[x].of # NIL => h'[h'[x].of].parent # NIL
                      /\ h'[x].kind \in ParentKind => h'[x].of # NIL
    BY <1>3, <1>5
  <2>. QED
    BY <2>1, <2>2, <2>3, <2>4 DEF Rewired
<1>. QED
  BY <1>7, <1>12, <1>13

\* What something nested within () begins with is no array and not deeper.
LEMMA TopNode ==
  ASSUME NEW L, NEW G, NEW cl, NEW vc, NEW ix, State(L, G, cl, vc, ix), command \in Gibberish,
         NEW i \in 1..N, Stacked(i)
  PROVE  /\ h[values[i].ast].kind # "array" /\ h[values[i].ast].kind # "function"
         /\ ~(h[values[i].ast].depth > ast_depth)
<1>1. /\ Spine /\ Depths /\ Levels(cl, vc) /\ ast_depth \in Nat
      /\ On \subseteq Node /\ h \in Heaps(Types, Names)
  BY StateFacts DEF State, Gib
<1>2. values[i].ast \in Node
  BY <1>1 DEF Levels
<1>3. h[values[i].ast].depth \in Nat
  BY <1>1, <1>2, HeapFields
<1>4. Depth(i) <= ast_depth
  BY <1>1 DEF Depths
<1>5. ~(h[values[i].ast].depth > ast_depth)
  BY <1>1, <1>3, <1>4 DEF Depth
<1>6. \/ values[i].tag = "type" \/ values[i].tag = "nested" \/ values[i].tag \in Pointing
  BY StackTags DEF Stacked
<1>7. \/ h[values[i].ast].kind \in {"builtin", "typedef", "placeholder"}
      \/ h[values[i].ast].kind \in Pointing
  BY <1>1, <1>6 DEF Spine
<1>. QED
  BY <1>5, <1>7, Kinds

\* An array of what a declarator declares.
LEMMA AddArray_Good ==
  ASSUME NEW L, NEW G, NEW cl, NEW vc, NEW ix, State(L, G, cl, vc, ix), AddArray, phase' # "aborted"
  PROVE  Good(L, G)'
<1>1. /\ ParsingGibberish /\ TopIs({"decl2"}) /\ Room(2) /\ TopIs(Declarator)
  BY Tags DEF AddArray, TopIs
<1>2. PICK a, pl : a = Free1 /\ pl = Free2
  OBVIOUS
<1>3. PICK g : g = c_ast_set_parent([h EXCEPT ![a] = NewAst("array", ast_depth),
                                              ![pl] = NewAst("placeholder", ast_depth)], pl, a)
  OBVIOUS
<1>4. PICK nested : nested = (Top.target # NIL)
  OBVIOUS
<1>5. PICK start : start = IF nested THEN Top.target ELSE Top.ast
  OBVIOUS
<1>6. PICK r : r = c_ast_add_array(g, start, a)
  OBVIOUS
<1>7. /\ r.h # Failed /\ h' = r.h /\ c_ast_new(<<a, pl>>)
      /\ \E ops : values' = Replace(1, [Top EXCEPT
                    !.ast = IF nested THEN @ ELSE r.rv,
                    !.target = IF nested THEN r.rv ELSE NIL,
                    !.ops = ops])
      /\ UNCHANGED <<typeStack, ast_depth>>
      /\ ProductionFrame /\ Stays
  BY <1>2, <1>3, <1>4, <1>5, <1>6, Frame DEF AddArray, Abort
<1>8. /\ HeapOK(L) /\ Base(L, G) /\ ValuesOK /\ ast_depth \in Nat /\ Lists(cl, vc)
      /\ On \subseteq Node /\ On \subseteq live /\ NIL \notin Node /\ h \in Heaps(Types, Names)
      /\ \A n \in On : /\ h[n].of \in On \cup {NIL} /\ h[n].parent \in On \cup {NIL}
                       /\ ToSet(h[n].args) \subseteq On
  BY StateFacts DEF State, Base
<1>9. /\ phase = "parse" /\ command \in Gibberish /\ N \in Nat /\ N > 1
      /\ N \in 1..N /\ N - 1 \in 1..N
      /\ Top = values[N] /\ values[N].tag \in Declarator
      /\ ~Stacked(N) /\ Stacked(N - 1)
      /\ vc[N] = vc[N - 1] /\ values[N].list = <<>> /\ IsValue(values[N])
  BY <1>1, TopDeclarator
<1>10. values[N].tag = "decl2"
  BY <1>1, <1>9 DEF TopIs
<1>11. a \in Node \ live /\ pl \in Node \ live /\ a # pl
  BY <1>1, <1>2, <1>8, RoomFree
<1>12. PICK new : new = {a, pl}
  OBVIOUS
<1>13. /\ Grows({a, pl}) /\ gc' # <<>> /\ ToSet(gc') = On \cup new
       /\ gc'[Len(gc')] = IF gc = <<>> THEN a ELSE gc[Len(gc)]
  <2>1. UNCHANGED <<typedefs, phase>>
    BY <1>7 DEF ProductionFrame
  <2>2. /\ Grows({a, pl}) /\ gc' # <<>>
        /\ gc'[Len(gc')] = IF gc = <<>> THEN a ELSE gc[Len(gc)]
    BY <1>7, <1>8, <1>11, <2>1, TwoNodes
  <2>. QED
    BY <1>12, <2>2 DEF Grows
<1>14. ArrayNew(g, a, pl)
  BY <1>3, <1>8, <1>11, ArrayNewOf
<1>15. PICK k, t, m : k = N /\ t = values[k - 1].ast /\ m = N - 1
  OBVIOUS
<1>16. PICK D : D = Declared(cl, vc, k)
  OBVIOUS
<1>17. DeclaratorAt(k)
  BY <1>9, <1>15 DEF DeclaratorAt
<1>18. Surrounded(D, t, k) /\ cl[t] = vc[k] /\ vc[k - 1] = vc[k] /\ \A n \in D : cl[n] = vc[k]
  BY <1>9, <1>15, <1>16, <1>17, DeclaredClass
<1>19. /\ D \subseteq On /\ t \in On \ D /\ {values[N].ast, values[N].target} \subseteq D \cup {t, NIL}
       /\ \A n \in D : h[n].of \in D \cup {t, NIL}
       /\ \A i \in 1..N : Stacked(i) => values[i].ast \in On \ D /\ (values[i].ast = t => i = k - 1)
  BY <1>15, <1>18 DEF Surrounded
<1>20. /\ g \in Heaps(Types, Names) /\ g[a].depth = ast_depth /\ g[a].parent = NIL /\ g[a].of = pl
       /\ g[pl].of = NIL /\ \A n \in Node \ {a, pl} : g[n] = h[n]
  BY <1>14 DEF ArrayNew
<1>21. Walks(g, D, t, a)
  <2>1. a \notin On /\ pl \notin On /\ \A n \in On : g[n] = h[n] /\ n \in Node
    BY <1>8, <1>11, <1>20
  <2>2. g[t].kind # "array" /\ ~(g[t].depth > g[a].depth)
    BY <1>9, <1>15, <1>19, <1>20, <2>1, TopNode
  <2>3. Filled
    BY <1>9 DEF State, Gib
  <2>4. \A n \in D : g[n].kind \in ParentKind => g[n].of \in D \cup {t}
    BY <1>19, <2>1, <2>3 DEF Filled
  <2>5. \A n \in D : g[n].of # a
    BY <1>8, <1>11, <1>19, <2>1
  <2>. QED
    BY <1>8, <1>11, <1>19, <1>20, <2>1, <2>2, <2>4, <2>5 DEF Walks
<1>22. WellFounded(Node, OfEdges(g))
  <2>1. WellFounded({a, pl}, OfEdges(g))
    <3>1. SUFFICES ASSUME NEW S \in SUBSET {a, pl}, S # {}
                   PROVE  \E x \in S : \A y \in S : <<x, y>> \notin OfEdges(g)
      BY DEF WellFounded
    <3>2. CASE pl \in S
      <4>1. \A y \in S : <<pl, y>> \notin OfEdges(g)
        BY <1>8, <1>11, <1>20 DEF OfEdges
      <4>. QED
        BY <3>2, <4>1
    <3>3. CASE pl \notin S
      <4>1. S = {a}
        BY <3>1, <3>3
      <4>2. <<a, a>> \notin OfEdges(g)
        BY <1>11, <1>20 DEF OfEdges
      <4>. QED
        BY <4>1, <4>2
    <3>. QED
      BY <3>2, <3>3
  <2>2. /\ {a, pl} \subseteq Node \ live /\ \A n \in Node \ {a, pl} : g[n].of = h[n].of
        /\ \A n \in {a, pl} : g[n].of \in {a, pl} \cup {NIL}
    BY <1>11, <1>20
  <2>. QED
    BY <1>8, <2>1, <2>2, OfFoundedNew
<1>23. start \in D \cup {t}
  <2>1. start \in D \cup {t, NIL}
    BY <1>4, <1>5, <1>9, <1>19
  <2>2. start # NIL
    BY <1>6, <1>7, ResultFields DEF c_ast_add_array
  <2>. QED
    BY <2>1, <2>2
<1>24. r.h \in Heaps(Types, Names) /\ r.rv \in {start, a} /\ \E b \in D \cup {t} : ArrayPut(g, r.h, D, a, b)
  BY <1>6, <1>7, <1>8, <1>20, <1>21, <1>22, <1>23, AddArrayPut
<1>25. PICK b \in D \cup {t} : ArrayPut(g, h', D, a, b)
  BY <1>7, <1>24
<1>26. ArrayPlaced(D, t, a, pl, b)
  BY <1>11, <1>14, <1>18, <1>25, ArrayPlacedBy
<1>27. Base(L, G)' /\ Rewired(D, t, new)
  <2>1. h' \in Heaps(Types, Names)
    BY <1>7, <1>24
  <2>2. Base(L, G)' /\ Rewired(D, t, {a, pl})
    BY <1>9, <1>11, <1>13, <1>18, <1>26, <2>1, ArrayPlacedGood
  <2>. QED
    BY <1>12, <2>2
<1>28. PICK ops : values' = Replace(1, [Top EXCEPT
                    !.ast = IF nested THEN @ ELSE r.rv,
                    !.target = IF nested THEN r.rv ELSE NIL,
                    !.ops = ops])
  BY <1>7
<1>29. PICK v : v = [Top EXCEPT !.ast = IF nested THEN @ ELSE r.rv,
                                !.target = IF nested THEN r.rv ELSE NIL,
                                !.ops = ops]
  OBVIOUS
<1>30. /\ IsValue(v) /\ v.tag = "decl2" /\ v.list = <<>> /\ v.list \in Seq(Node)
       /\ v.ast \in {values[N].ast, start, a} /\ v.target \in {NIL, start, a}
       /\ v.ast = NIL => values[N].ast = NIL
  <2>1. IsValue(v) /\ v.tag = "decl2" /\ v.list = <<>>
    BY <1>9, <1>10, <1>29 DEF IsValue
  <2>2. /\ v.ast = IF nested THEN values[N].ast ELSE r.rv
        /\ v.target = IF nested THEN r.rv ELSE NIL
    BY <1>9, <1>29 DEF IsValue
  <2>3. start # NIL /\ a # NIL
    BY <1>8, <1>11, <1>19, <1>23
  <2>4. v.ast \in {values[N].ast, start, a} /\ v.target \in {NIL, start, a}
    BY <1>24, <2>2
  <2>5. v.ast = NIL => values[N].ast = NIL
    BY <1>24, <2>2, <2>3
  <2>. QED
    BY <2>1, <2>4, <2>5
<1>31. /\ v.tag \in Declarator /\ v.tag # "args" /\ v.tag \notin StackTag
  BY <1>30, Tags
<1>32. /\ Above(m, v) /\ m > 0 /\ m \in Nat /\ m \in 1..N /\ m \in 1..k - 1 /\ Stacked(m)
       /\ \A j \in 1..m : j \in 1..N
  <2>1. PICK one \in 0..N : one = 1
    BY <1>9
  <2>2. values' = Replace(one, v)
    BY <1>28, <1>29, <2>1
  <2>3. Above(N - one, v)
    BY <1>8, <1>30, <2>2, ReplaceAbove
  <2>4. N - one = m /\ m \in Nat /\ m > 0 /\ m \in 1..N /\ m \in 1..k - 1
        /\ \A j \in 1..m : j \in 1..N
    BY <1>9, <1>15, <2>1
  <2>5. Stacked(m)
    BY <1>9, <1>15
  <2>. QED
    BY <2>3, <2>4, <2>5
<1>33. Follows(values[m].tag, v.tag)
  <2>1. Grammar
    BY <1>9 DEF State, Gib
  <2>2. Follows(values[N - 1].tag, values[N].tag)
    BY <1>9, <2>1 DEF Grammar
  <2>. QED
    BY <1>10, <1>15, <1>30, <2>2
<1>34. Popped(m, v)
  <2>1. \A i \in m + 1..N : i = N
    BY <1>9, <1>15
  <2>. QED
    BY <1>7, <1>9, <2>1 DEF Popped
<1>35. PICK cl2 : cl2 = [n \in Node |-> IF n \in new THEN vc[m] ELSE cl[n]]
  OBVIOUS
<1>36. PICK vc2 : vc2 = [i \in Nat |-> IF i = m + 1 THEN vc[m] ELSE vc[i]]
  OBVIOUS
<1>37. /\ (\A n \in On : cl2[n] = cl[n]) /\ (\A n \in new : cl2[n] = vc[k])
       /\ (\A i \in 1..m : vc2[i] = vc[i]) /\ vc2[m + 1] = vc[m] /\ vc[m] = vc[k]
       /\ new \subseteq Node \ On /\ new \cap On = {}
  BY <1>8, <1>11, <1>12, <1>15, <1>18, <1>32, <1>35, <1>36
<1>38. Relinked(new, cl2, m, v)
  BY <1>9, <1>15, <1>16, <1>17, <1>27, <1>31, <1>32, <1>37, RewiredRelinks
<1>39. /\ \A n \in On : h'[n].args = h[n].args /\ h'[n].name = h[n].name
       /\ \A n \in new : h'[n].args = <<>> /\ h'[n].name = NIL
  <2>1. /\ \A n \in {a, pl} : h'[n].args = <<>> /\ h'[n].name = NIL
        /\ \A n \in Node \ {a, pl} : h'[n].args = h[n].args /\ h'[n].name = h[n].name
    BY <1>26 DEF ArrayPlaced
  <2>2. \A n \in On : n \in Node \ {a, pl}
    BY <1>8, <1>11
  <2>. QED
    BY <1>12, <2>1, <2>2
<1>40. Lists(cl2, vc2)'
  <2>1. Unlisted(cl, vc, cl2, vc2, m, v, new)
    BY <1>8, <1>13, <1>30, <1>37, <1>39 DEF Unlisted
  <2>. QED
    BY <1>8, <1>9, <1>32, <2>1, ListsNew
<1>41. Fits(new, cl2, vc, m, v)
  <2>1. /\ a \in new /\ cl2[a] = vc[m]
        /\ start \in On /\ cl2[start] = vc[m]
    BY <1>12, <1>18, <1>19, <1>23, <1>37
  <2>2. values[N].ast # NIL => values[N].ast \in On /\ cl2[values[N].ast] = vc[m]
    BY <1>18, <1>19, <1>37
  <2>3. values[N].ast = NIL => CastFirst \/ \E j \in 1..m : values[j].tag = "args"
    BY <1>1, <1>15, TopDeclarator
  <2>4. ASSUME NEW j \in 1..m, Stacked(j), values[j].ast \in {v.ast, v.target} PROVE j = m
    <3>1. j \in 1..N /\ values[j].ast \in On \ D /\ (values[j].ast = t => j = k - 1)
      BY <1>19, <1>32, <2>4
    <3>2. values[j].ast \in D \cup {t, NIL, a}
      BY <1>19, <1>23, <1>30, <2>4
    <3>3. values[j].ast = t
      BY <1>8, <1>11, <3>1, <3>2
    <3>. QED
      BY <1>15, <3>1, <3>3
  <2>. QED
    BY <1>30, <1>31, <2>1, <2>2, <2>3, <2>4 DEF Fits
<1>42. /\ NewTop(a)
       /\ \A n \in On \cup new : h'[n].name \in Undefined \cup {NIL}
  <2>1. \A n \in On : h[n].name \in Undefined \cup {NIL}
    BY DEF State, Control
  <2>. QED
    BY <1>13, <1>39, <2>1 DEF NewTop
<1>43. \E ix2 : State(L, G, cl2, vc2, ix2)'
  BY <1>7, <1>9, <1>13, <1>27, <1>31, <1>32, <1>33, <1>34, <1>37, <1>38, <1>40, <1>41, <1>42, Reduced
<1>. QED
  BY <1>43 DEF Good

\* With a function put in a declarator walks still end.
LEMMA FuncFounded ==
  ASSUME NIL \notin Node, NEW g, WellFounded(Node, OfEdges(g)), NEW D, NEW Q, NEW t, NEW f,
         WalksTo(g, D, Q, t, f), \A n \in Q : n \notin D /\ (g[n].of = NIL \/ g[n].of \in Q),
         NEW g2, FuncPut(g, g2, D, t, f)
  PROVE  WellFounded(Node, OfEdges(g2))
<1>1. /\ D \subseteq Node /\ Q \subseteq Node /\ t \in Q /\ f \in Node \ (D \cup Q)
  BY DEF WalksTo
<1>2. /\ g2[f].of = t
      /\ \A x \in Node \ {f} : g2[x].of = g[x].of \/ (x \in D /\ g2[x].of = f)
  BY DEF FuncPut
<1>3. SUFFICES ASSUME NEW S \in SUBSET Node, S # {}
               PROVE  \E m \in S : \A n \in S : <<m, n>> \notin OfEdges(g2)
  BY DEF WellFounded
<1>4. CASE S \cap Q # {}
  <2>1. S \cap Q \in SUBSET Node
    BY <1>3
  <2>2. PICK m \in S \cap Q : \A n \in S \cap Q : <<m, n>> \notin OfEdges(g)
    BY <1>4, <2>1 DEF WellFounded
  <2>3. m \in Node \ {f} /\ m \notin D
    BY <1>1, <2>2
  <2>4. g2[m].of = g[m].of /\ g[m].of \in Q \cup {NIL}
    BY <1>2, <2>2, <2>3
  <2>5. \A n \in S : <<m, n>> \notin OfEdges(g2)
    BY <1>3, <2>2, <2>4 DEF OfEdges
  <2>. QED
    BY <2>2, <2>5
<1>5. CASE S \cap Q = {} /\ f \in S
  <2>1. \A n \in S : <<f, n>> \notin OfEdges(g2)
    BY <1>1, <1>2, <1>5 DEF OfEdges
  <2>. QED
    BY <1>5, <2>1
<1>6. CASE S \cap Q = {} /\ f \notin S
  <2>1. PICK m \in S : \A n \in S : <<m, n>> \notin OfEdges(g)
    BY <1>3 DEF WellFounded
  <2>2. g2[m].of = g[m].of \/ g2[m].of = f
    BY <1>2, <1>3, <1>6, <2>1
  <2>3. \A n \in S : <<m, n>> \notin OfEdges(g2)
    BY <1>3, <1>6, <2>1, <2>2 DEF OfEdges
  <2>. QED
    BY <2>1, <2>3
<1>. QED
  BY <1>4, <1>5, <1>6

\* The nodes of the spine.
SpineNodes == {n \in On : \E i \in 1..N : Stacked(i) /\ values[i].ast = n}

\* From one of them the links lead from each to the one below it.
LEMMA SpineWalk ==
  ASSUME NEW L, NEW G, NEW cl, NEW vc, NEW ix, State(L, G, cl, vc, ix), command \in Gibberish,
         NEW n \in SpineNodes
  PROVE  IF h[n].kind \in ParentKind
         THEN h[n].of \in SpineNodes /\ h[h[n].of].parent = n
         ELSE h[n].of = NIL
<1>1. PICK i \in 1..N : Stacked(i) /\ values[i].ast = n
  BY DEF SpineNodes
<1>2. /\ Spine /\ Grammar /\ Levels(cl, vc) /\ N \in Nat /\ On \subseteq Node
      /\ \A x \in On : h[x].of # NIL => h[x].kind \in ParentKind
  BY StateFacts DEF State, Gib
<1>3. n \in On
  BY DEF SpineNodes
<1>4. CASE values[i].tag \in Pointing
  <2>1. /\ h[n].kind = values[i].tag /\ h[n].of = values[i - 1].ast
        /\ h[values[i - 1].ast].parent = n
    BY <1>1, <1>2, <1>4 DEF Spine
  <2>2. values[i].tag # "type" /\ values[i].tag \in StackTag
    BY <1>4, Tags
  <2>3. i # 1
    BY <1>1, <1>2, <2>2 DEF Grammar
  <2>4. i - 1 \in 1..N /\ i > 1
    BY <1>1, <1>2, <2>3
  <2>5. Stacked(i - 1)
    BY <1>1, <1>2, <2>2, <2>4 DEF Grammar, Follows, Stacked
  <2>6. values[i - 1].ast \in On
    BY <1>2, <2>4, <2>5 DEF Levels
  <2>. QED
    BY <1>4, <2>1, <2>4, <2>5, <2>6, Kinds DEF SpineNodes
<1>5. CASE values[i].tag \notin Pointing
  <2>1. values[i].tag = "type" \/ values[i].tag = "nested"
    BY <1>1, <1>5, StackTags DEF Stacked
  <2>2. h[n].kind \in {"builtin", "typedef", "placeholder"}
    BY <1>1, <1>2, <2>1 DEF Spine
  <2>. QED
    BY <1>2, <1>3, <2>2, Kinds
<1>. QED
  BY <1>4, <1>5

\* The heap with a function of these arguments.
FuncNew(g, f, args) ==
  /\ g \in Heaps(Types, Names)
  /\ g[f].kind = "function" /\ g[f].depth = ast_depth /\ g[f].parent = NIL /\ g[f].of = NIL
  /\ g[f].args = args /\ g[f].name = NIL /\ g[f].def = NIL
  /\ \A n \in Node \ {f} : g[n] = h[n]

\* The code allocates the function so.
LEMMA FuncNewOf ==
  ASSUME h \in Heaps(Types, Names), ast_depth \in Nat, NEW f \in Node, NEW args \in Seq(Node),
         NEW g, g = [h EXCEPT ![f] = [NewAst("function", ast_depth) EXCEPT !.args = args]]
  PROVE  FuncNew(g, f, args)
<1>1. PICK cell : cell = [NewAst("function", ast_depth) EXCEPT !.args = args]
  OBVIOUS
<1>2. Fresh(cell, "function", ast_depth) /\ cell.args = args
  BY <1>1, FreshCells
<1>3. g = [h EXCEPT ![f] = cell]
  BY <1>1
<1>4. /\ cell \in Cells(Types, Names) /\ cell.kind = "function" /\ cell.depth = ast_depth
      /\ cell.parent = NIL /\ cell.of = NIL /\ cell.name = NIL /\ cell.def = NIL
  BY <1>2, KindsDiffer, Kinds DEF Fresh
<1>5. g \in Heaps(Types, Names) /\ g[f] = cell /\ \A n \in Node \ {f} : g[n] = h[n]
  BY <1>3, <1>4 DEF Heaps
<1>. QED
  BY <1>2, <1>4, <1>5 DEF FuncNew

\* What the new function changes.
FuncPlaced(D, t, f, args) ==
  /\ h' \in Heaps(Types, Names)
  /\ h'[f].kind = "function" /\ h'[f].of = t /\ h'[t].parent = f
  /\ h'[f].args = args /\ h'[f].def = NIL
  /\ h'[f].parent = NIL \/ (h'[f].parent \in D /\ h'[h'[f].parent].of = f)
  /\ \A x \in Node \ {f} :
       /\ h'[x].kind = h[x].kind /\ h'[x].type = h[x].type /\ h'[x].def = h[x].def
       /\ h'[x].depth = h[x].depth /\ h'[x].args = h[x].args
       /\ x # t => h'[x].parent = h[x].parent
       /\ \/ h'[x].of = h[x].of
          \/ /\ x \in D /\ h[x].kind \in ParentKind
             /\ h'[x].of = f /\ h'[f].parent = x
  /\ \A n \in Node \ (On \cup {f}) : h'[n].name = h[n].name
  /\ \A n \in On \cup {f} : h'[n].name \in Undefined \cup {NIL}

\* The function so placed closes no cycle and is linked to the declarator only.
LEMMA FuncPlacedGood ==
  ASSUME NEW L, NEW G, NEW cl, NEW vc, NEW ix, State(L, G, cl, vc, ix), phase = "parse",
         NEW k, NEW D, NEW t, Surrounded(D, t, k),
         NEW f \in Node \ live, Grows({f}), NEW args, FuncPlaced(D, t, f, args),
         ToSet(args) \subseteq On \ D
  PROVE  Base(L, G)' /\ Rewired(D, t, {f})
<1>1. /\ On \subseteq Node /\ On \subseteq live /\ NIL \notin Node /\ Base(L, G)
      /\ h \in Heaps(Types, Names)
      /\ \A n \in On : /\ h[n].of \in On \cup {NIL} /\ h[n].parent \in On \cup {NIL}
                       /\ ToSet(h[n].args) \subseteq On
                       /\ h[n].of # NIL => h[n].kind \in ParentKind
                       /\ h[n].parent # NIL => h[h[n].parent].kind \in ParentKind
  BY StateFacts DEF State
<1>2. /\ D \subseteq On /\ t \in On \ D
      /\ \A n \in D : h[n].of \in D \cup {t, NIL}
      /\ \A n \in On \ D : h[n].of \notin D
      /\ \A n \in D \cup {t} : h[n].parent \in D \cup {NIL}
      /\ \A n \in On : ToSet(h[n].args) \cap (D \cup {t}) = {}
  BY DEF Surrounded
<1>3. /\ f \notin On /\ f \in Node /\ f # NIL /\ t # f /\ t # NIL
      /\ \A n \in On : n # f /\ n \in Node \ {f} /\ n # NIL
  BY <1>1, <1>2
<1>4. /\ h' \in Heaps(Types, Names)
      /\ h'[f].kind = "function" /\ h'[f].of = t /\ h'[t].parent = f
      /\ h'[f].args = args /\ h'[f].def = NIL
      /\ h'[f].parent = NIL \/ (h'[f].parent \in D /\ h'[h'[f].parent].of = f)
  BY DEF FuncPlaced
<1>5. \A x \in Node \ {f} :
       /\ h'[x].kind = h[x].kind /\ h'[x].type = h[x].type /\ h'[x].def = h[x].def
       /\ h'[x].depth = h[x].depth /\ h'[x].args = h[x].args
       /\ x # t => h'[x].parent = h[x].parent
       /\ \/ h'[x].of = h[x].of
          \/ /\ x \in D /\ h[x].kind \in ParentKind
             /\ h'[x].of = f /\ h'[f].parent = x
  BY DEF FuncPlaced
<1>6. \A n \in Node \ (On \cup {f}) : h'[n] = h[n]
  <2>1. SUFFICES ASSUME NEW n \in Node \ (On \cup {f}) PROVE h'[n] = h[n]
    OBVIOUS
  <2>2. h[n] \in Cells(Types, Names) /\ h'[n] \in Cells(Types, Names)
    BY <1>1, <1>4, <2>1 DEF Heaps
  <2>3. n \in Node \ {f} /\ n # t /\ n \notin D
    BY <1>2, <2>1
  <2>4. /\ h'[n].kind = h[n].kind /\ h'[n].type = h[n].type /\ h'[n].def = h[n].def
        /\ h'[n].depth = h[n].depth /\ h'[n].args = h[n].args
        /\ h'[n].parent = h[n].parent /\ h'[n].of = h[n].of
    BY <1>5, <2>3
  <2>5. h'[n].name = h[n].name
    BY <2>1 DEF FuncPlaced
  <2>. QED
    BY <2>2, <2>4, <2>5 DEF Cells
<1>7. PICK new : new = {f}
  OBVIOUS
<1>8. \A n \in On : /\ h'[n].kind = h[n].kind /\ h'[n].def = h[n].def /\ h'[n].args = h[n].args
                    /\ h'[n].type = h[n].type
                    /\ h'[n].of = h[n].of \/ (n \in D /\ h'[n].of = f /\ h'[f].parent = n)
                    /\ h'[n].of # NIL => h'[n].kind \in ParentKind
                    /\ h'[n].parent = h[n].parent \/ (n = t /\ h'[n].parent = f)
  BY <1>1, <1>3, <1>4, <1>5
<1>9. ASSUME NEW n \in On \cup new, h'[n].parent # NIL PROVE h'[h'[n].parent].kind \in ParentKind
  <2>1. h'[f].kind \in ParentKind
    BY <1>4, Kinds
  <2>2. h'[f].parent # NIL => h'[h'[f].parent].kind \in ParentKind
    <3>1. h'[f].parent # NIL => h'[f].parent \in On /\ h'[h'[f].parent].of # NIL
      BY <1>2, <1>3, <1>4
    <3>. QED
      BY <1>8, <3>1
  <2>3. n \in On => h[n].parent \in On \cup {NIL}
    BY <1>1
  <2>. QED
    BY <1>1, <1>7, <1>8, <1>9, <2>1, <2>2, <2>3
<1>10. Builds(new)
  <2>1. \A n \in new : /\ h'[n].kind \in Kind /\ h'[n].kind # "typedef"
                       /\ h'[n].kind = "function"
                       /\ h'[n].of # NIL => h'[n].kind \in ParentKind
                       /\ h'[n].def = NIL
                       /\ ToSet(h'[n].args) \subseteq On \cup new
    BY <1>4, <1>7, Kinds
  <2>2. \A n \in On \cup new : /\ h'[n].of \in On \cup new \cup {NIL}
                               /\ h'[n].parent \in On \cup new \cup {NIL}
    BY <1>1, <1>2, <1>4, <1>7, <1>8
  <2>. QED
    BY <1>4, <1>6, <1>7, <1>8, <1>9, <2>1, <2>2 DEF Builds
<1>11. Base(L, G)'
  <2>1. phase \notin {"exit", "exited"} /\ D \in SUBSET On /\ Grows(new)
    BY <1>2, <1>7
  <2>2. \A n \in On \ D : /\ h'[n].of = h[n].of /\ h'[n].of \notin D
                          /\ ToSet(h'[n].args) \cap D = {}
    BY <1>2, <1>8
  <2>3. \A n \in On : h'[n].parent \in On \ D => h'[n].parent = h[n].parent /\ n \notin D
    BY <1>1, <1>2, <1>3, <1>8
  <2>4. \A n \in D : h'[n].of \in D => h'[n].of = h[n].of
    BY <1>2, <1>3, <1>8
  <2>5. \A n \in D : h'[n].parent \in D => h'[n].parent = h[n].parent
    BY <1>2, <1>8
  <2>6. \A x \in new : /\ h'[x].of \notin D \cup new
                       /\ ToSet(h'[x].args) \cap (D \cup new) = {}
                       /\ h'[x].parent \notin (On \ D) \cup new
    BY <1>1, <1>2, <1>3, <1>4, <1>7
  <2>7. \A n \in D : h'[n].parent \notin new
    BY <1>1, <1>2, <1>3, <1>7, <1>8
  <2>8. LinkedApart(new, D)
    BY <2>1, <2>2, <2>3, <2>4, <2>5, <2>6, <2>7 DEF LinkedApart
  <2>. QED
    BY <1>1, <1>10, <2>1, <2>8, NewLinks
<1>12. Rewired(D, t, new)
  <2>1. \A x \in On :
          /\ h'[x].kind = h[x].kind /\ h'[x].depth = h[x].depth
          /\ h'[x].of = h[x].of \/ (x \in D /\ h'[x].of \in D \cup {t} \cup new)
          /\ h'[x].parent = h[x].parent \/ (x \in D \cup {t} /\ h'[x].parent \in D \cup new)
    BY <1>3, <1>5, <1>7, <1>8
  <2>2. \A x \in new : h'[x].of \in D \cup {t, NIL} \cup new /\ h'[x].parent \in D \cup {NIL} \cup new
    BY <1>4, <1>7
  <2>3. \A x \in new : /\ h'[x].of # NIL => h'[h'[x].of].parent # NIL
                       /\ h'[x].kind \in ParentKind => h'[x].of # NIL
    BY <1>3, <1>4, <1>7
  <2>4. \A x \in On : h'[x].of # h[x].of =>
                      /\ h'[x].of # NIL => h'[h'[x].of].parent # NIL
                      /\ h'[x].kind \in ParentKind => h'[x].of # NIL
    BY <1>3, <1>8
  <2>. QED
    BY <2>1, <2>2, <2>3, <2>4 DEF Rewired
<1>. QED
  BY <1>7, <1>11, <1>12

\* How c_ast_add_func places it, and gives it the name found from the declarator.
LEMMA FuncPlacedBy ==
  ASSUME NEW L, NEW G, NEW cl, NEW vc, NEW ix, State(L, G, cl, vc, ix), command \in Gibberish,
         NEW k, NEW D, NEW t, Surrounded(D, t, k),
         NEW f \in Node \ live, NEW args \in Seq(Node), NEW g, FuncNew(g, f, args),
         NEW start \in D \cup {t, NIL}, NEW r, r = c_ast_add_func(g, start, t, f),
         r.h # Failed, h' = r.h
  PROVE  /\ FuncPlaced(D, t, f, args) /\ r.h[f].of = t
         /\ start \in D \cup {t} /\ r.rv \in {start, f}
<1>1. /\ On \subseteq Node /\ On \subseteq live /\ NIL \notin Node /\ NIL \in Names /\ Base(L, G)
      /\ h \in Heaps(Types, Names)
      /\ \A n \in On : h[n].of \in On \cup {NIL} /\ h[n].parent \in On \cup {NIL}
      /\ \A n \in On : h[n].name \in Undefined \cup {NIL}
      /\ Filled
  BY StateFacts, NilFacts DEF State, Control, Gib
<1>2. /\ D \subseteq On /\ t \in On \ D
      /\ \A n \in D : h[n].of \in D \cup {t, NIL}
      /\ \A i \in 1..N : Stacked(i) => values[i].ast \in On \ D
      /\ \E i \in 1..N : Stacked(i) /\ values[i].ast = t
  BY DEF Surrounded
<1>3. /\ g \in Heaps(Types, Names)
      /\ g[f].kind = "function" /\ g[f].depth = ast_depth /\ g[f].parent = NIL /\ g[f].of = NIL
      /\ g[f].args = args /\ g[f].name = NIL /\ g[f].def = NIL
      /\ \A n \in Node \ {f} : g[n] = h[n]
  BY DEF FuncNew
<1>4. f \in Node /\ f \notin On /\ \A n \in On : g[n] = h[n] /\ n \in Node \ {f}
  BY <1>1, <1>3
<1>5. start # NIL /\ start \in D \cup {t}
  BY ResultFields DEF c_ast_add_func
<1>6. PICK r0 : r0 = c_ast_add_func_impl(g, start, t, f)
  OBVIOUS
<1>7. PICK Q : Q = SpineNodes
  OBVIOUS
<1>8. Q \subseteq On /\ t \in Q /\ Q \cap D = {}
  BY <1>2, <1>7 DEF SpineNodes
<1>9. \A n \in Q : IF h[n].kind \in ParentKind
                   THEN h[n].of \in Q /\ h[h[n].of].parent = n ELSE h[n].of = NIL
  BY <1>7, SpineWalk
<1>10. WalksTo(g, D, Q, t, f)
  <2>1. \A n \in D : g[n].kind \in ParentKind => g[n].of \in D \cup {t}
    BY <1>1, <1>2, <1>4 DEF Filled
  <2>2. \A n \in Q : g[n].kind \in ParentKind => g[n].of \in Q /\ g[g[n].of].parent = n
    BY <1>4, <1>8, <1>9
  <2>. QED
    BY <1>1, <1>2, <1>3, <1>4, <1>8, <2>1, <2>2 DEF WalksTo
<1>11. WellFounded(Node, OfEdges(g))
  <2>1. WellFounded({f}, OfEdges(g))
    BY <1>1, <1>3, <1>4 DEF WellFounded, OfEdges
  <2>2. /\ {f} \subseteq Node \ live /\ \A n \in Node \ {f} : g[n].of = h[n].of
        /\ \A n \in {f} : g[n].of \in {f} \cup {NIL}
    BY <1>3
  <2>. QED
    BY <1>1, <2>1, <2>2, OfFoundedNew
<1>12. r0.h # Failed
  BY <1>5, <1>6 DEF c_ast_add_func
<1>13. /\ r0.h \in Heaps(Types, Names) /\ r0.rv \in {start, f}
       /\ FuncPut(g, r0.h, D, t, f)
  BY <1>1, <1>3, <1>5, <1>6, <1>10, <1>11, <1>12, AddFuncPut
<1>14. PICK g2 : g2 = r0.h
  OBVIOUS
<1>15. /\ g2 \in Heaps(Types, Names) /\ FuncPut(g, g2, D, t, f)
  BY <1>13, <1>14
<1>16. WellFounded(Node, OfEdges(g2))
  <2>1. \A n \in Q : n \notin D /\ (g[n].of = NIL \/ g[n].of \in Q)
    BY <1>4, <1>8, <1>9
  <2>. QED
    BY <1>1, <1>10, <1>11, <1>15, <2>1, FuncFounded
<1>17. /\ SameData(g, g2)
       /\ g2[f].of = t /\ g2[t].parent = f
       /\ \A x \in Node \ {f} :
            /\ x # t => g2[x].parent = g[x].parent
            /\ \/ g2[x].of = g[x].of
               \/ /\ x \in D /\ g[x].kind \in ParentKind
                  /\ g2[x].of = f /\ g2[f].parent = x
       /\ \/ g2[f].parent = NIL
          \/ g2[f].parent \in D /\ g2[g2[f].parent].of = f
  BY <1>15 DEF FuncPut
<1>18. PICK S : S = On \cup {f}
  OBVIOUS
<1>19. S \in SUBSET Node /\ start \in S /\ \A m \in S : g2[m].of \in S \cup {NIL}
  BY <1>1, <1>2, <1>4, <1>5, <1>17, <1>18
<1>20. PICK nm, tk : nm = c_ast_name(g2, start) /\ tk = c_ast_take_name(g2, start)
  OBVIOUS
<1>21. /\ nm = NIL \/ \E m \in S : nm = g2[m].name
       /\ NamesWithin(g2, tk, S)
  BY <1>1, <1>15, <1>16, <1>19, <1>20, NameFoundIn
<1>22. /\ tk \in Heaps(Types, Names) /\ SameLinks(g2, tk)
  <2>1. start \in Node
    BY <1>19
  <2>. QED
    BY <1>1, <1>15, <1>16, <1>20, <2>1, NameFoundOf
<1>23. \A m \in S : g2[m].name \in Undefined \cup {NIL}
  BY <1>1, <1>3, <1>4, <1>17, <1>18 DEF SameData
<1>24. nm \in Undefined \cup {NIL} /\ nm \in Names
  BY <1>21, <1>23 DEF Names, Undefined
<1>25. r = [r0 EXCEPT !.h = [tk EXCEPT ![f].name = nm]]
  BY <1>5, <1>6, <1>12, <1>14, <1>20 DEF c_ast_add_func
<1>26. h' = [tk EXCEPT ![f].name = nm] /\ r.rv = r0.rv
  <2>1. \E h0, rv0 : r0 = Result(h0, rv0)
    <3>1. r0 \in Results(Types, Names)
      <4>1. start \in Address /\ t \in Node
        BY <1>1, <1>2, <1>19 DEF Address
      <4>. QED
        BY <1>1, <1>3, <1>4, <1>6, <1>11, <4>1, AddFuncOf
    <3>. QED
      BY <3>1 DEF Results, Result
  <2>. QED
    BY <1>25, <2>1 DEF Result
<1>27. /\ h' \in Heaps(Types, Names) /\ h'[f].name = nm
       /\ \A n \in Node : /\ h'[n].kind = tk[n].kind /\ h'[n].type = tk[n].type
                          /\ h'[n].def = tk[n].def /\ h'[n].depth = tk[n].depth
                          /\ h'[n].parent = tk[n].parent /\ h'[n].of = tk[n].of
                          /\ h'[n].args = tk[n].args
                          /\ n # f => h'[n].name = tk[n].name
  <2>1. tk \in [Node -> Cells(Types, Names)] /\ f \in Node
    BY <1>4, <1>22 DEF Heaps
  <2>2. h' = [n \in Node |-> IF n = f THEN [tk[f] EXCEPT !.name = nm] ELSE tk[n]]
    BY <1>26, <2>1
  <2>3. /\ h'[f] = [tk[f] EXCEPT !.name = nm] /\ \A n \in Node \ {f} : h'[n] = tk[n]
        /\ tk[f] \in Cells(Types, Names)
    BY <2>1, <2>2
  <2>4. [tk[f] EXCEPT !.name = nm] \in Cells(Types, Names)
    BY <1>24, <2>3 DEF Cells
  <2>5. h' \in Heaps(Types, Names)
    BY <2>1, <2>2, <2>4 DEF Heaps
  <2>6. /\ h'[f].name = nm /\ h'[f].kind = tk[f].kind /\ h'[f].type = tk[f].type
        /\ h'[f].def = tk[f].def /\ h'[f].depth = tk[f].depth /\ h'[f].parent = tk[f].parent
        /\ h'[f].of = tk[f].of /\ h'[f].args = tk[f].args
    BY <2>3 DEF Cells
  <2>. QED
    BY <2>3, <2>5, <2>6
<1>28. \A n \in Node : /\ h'[n].kind = g[n].kind /\ h'[n].type = g[n].type
                       /\ h'[n].def = g[n].def /\ h'[n].depth = g[n].depth
                       /\ h'[n].args = g[n].args
                       /\ h'[n].parent = g2[n].parent /\ h'[n].of = g2[n].of
  BY <1>17, <1>22, <1>27 DEF SameData, SameLinks
<1>29. \A n \in Node \ (On \cup {f}) : h'[n].name = h[n].name
  BY <1>3, <1>17, <1>18, <1>21, <1>27 DEF NamesWithin, SameData
<1>30. \A n \in On \cup {f} : h'[n].name \in Undefined \cup {NIL}
  <2>1. \A n \in S : tk[n].name \in Undefined \cup {NIL}
    BY <1>19, <1>21, <1>23 DEF NamesWithin
  <2>. QED
    BY <1>18, <1>19, <1>24, <1>27, <2>1
<1>31. /\ t \in Node /\ D \subseteq Node /\ h'[f].of = t /\ h'[t].parent = f
       /\ h'[f].parent = NIL \/ (h'[f].parent \in D /\ h'[h'[f].parent].of = f)
  BY <1>1, <1>2, <1>4, <1>17, <1>28
<1>32. \A x \in Node \ {f} :
            /\ x # t => h'[x].parent = h[x].parent
            /\ \/ h'[x].of = h[x].of
               \/ /\ x \in D /\ h[x].kind \in ParentKind
                  /\ h'[x].of = f /\ h'[f].parent = x
  BY <1>3, <1>4, <1>17, <1>28
<1>33. \A x \in Node \ {f} :
            /\ h'[x].kind = h[x].kind /\ h'[x].type = h[x].type /\ h'[x].def = h[x].def
            /\ h'[x].depth = h[x].depth /\ h'[x].args = h[x].args
  BY <1>3, <1>28
<1>34. FuncPlaced(D, t, f, args)
  BY <1>3, <1>4, <1>27, <1>28, <1>29, <1>30, <1>31, <1>32, <1>33 DEF FuncPlaced
<1>. QED
  BY <1>5, <1>13, <1>26, <1>31, <1>34

\* A function that a declarator declares.
LEMMA AddFunction_Good ==
  ASSUME NEW L, NEW G, NEW cl, NEW vc, NEW ix, State(L, G, cl, vc, ix), AddFunction, phase' # "aborted"
  PROVE  Good(L, G)'
<1>1. /\ ParsingGibberish /\ TopTwo({"decl2"}, {"args"}) /\ Room(1)
  BY DEF AddFunction
<1>2. PICK f : f = Free1
  OBVIOUS
<1>3. PICK args : args = Top.list
  OBVIOUS
<1>4. PICK g : g = [h EXCEPT ![f] = [NewAst("function", ast_depth) EXCEPT !.args = args]]
  OBVIOUS
<1>5. PICK nested : nested = (Below.target # NIL)
  OBVIOUS
<1>6. PICK start : start = IF nested THEN Below.target ELSE Below.ast
  OBVIOUS
<1>7. PICK t : t = type_peek
  OBVIOUS
<1>8. PICK r : r = c_ast_add_func(g, start, t, f)
  OBVIOUS
<1>9. /\ r.h # Failed /\ h' = r.h /\ c_ast_new(<<f>>)
      /\ \E ops, proper : values' = Replace(2, [Below EXCEPT
                    !.ast = IF nested THEN @ ELSE r.rv,
                    !.target = r.h[f].of,
                    !.ops = ops, !.proper = proper])
      /\ UNCHANGED <<typeStack, ast_depth>>
      /\ ProductionFrame /\ Stays
  BY <1>2, <1>3, <1>4, <1>5, <1>6, <1>7, <1>8, Frame DEF AddFunction, Abort
<1>10. /\ HeapOK(L) /\ Base(L, G) /\ ValuesOK /\ ast_depth \in Nat /\ Lists(cl, vc)
       /\ On \subseteq Node /\ On \subseteq live /\ NIL \notin Node /\ h \in Heaps(Types, Names)
       /\ \A n \in On : /\ h[n].of \in On \cup {NIL} /\ h[n].parent \in On \cup {NIL}
                        /\ ToSet(h[n].args) \subseteq On
  BY StateFacts DEF State, Base
<1>11. /\ N \in Nat /\ N > 1 /\ Top = values[N] /\ Below = values[N - 1]
       /\ values[N].tag = "args" /\ values[N - 1].tag = "decl2"
       /\ N \in 1..N /\ N - 1 \in 1..N
  <2>1. /\ N \in Nat /\ N > 1 /\ Top = values[N] /\ Below = values[N - 1]
        /\ values[N].tag \in {"args"} /\ values[N - 1].tag \in {"decl2"}
    BY <1>1, <1>10, TopTwoIs
  <2>. QED
    BY <2>1
<1>12. phase = "parse" /\ command \in Gibberish /\ Grammar /\ Levels(cl, vc) /\ Indexed(ix)
  BY <1>1 DEF ParsingGibberish, State, Gib
<1>13. PICK k, m : k = N - 1 /\ m = N - 2
  OBVIOUS
<1>14. PICK D : D = Declared(cl, vc, k)
  OBVIOUS
<1>15. /\ "decl2" \in Declarator /\ "decl2" \notin StackTag /\ "args" \notin StackTag
       /\ "decl2" # "args" /\ "decl2" # "type"
  BY Tags
<1>16. DeclaratorAt(k)
  <2>1. \A i \in k + 1..N : i = N
    BY <1>11, <1>13
  <2>. QED
    BY <1>11, <1>13, <1>15, <2>1 DEF DeclaratorAt
<1>17. PICK ret : ret = values[k - 1].ast
  OBVIOUS
<1>18. /\ Surrounded(D, ret, k) /\ cl[ret] = vc[k] /\ vc[k - 1] = vc[k]
       /\ \A n \in D : cl[n] = vc[k]
  BY <1>12, <1>14, <1>16, <1>17, DeclaredClass
<1>19. /\ k > 1 /\ k - 1 \in 1..N /\ Stacked(k - 1)
       /\ D \subseteq On /\ ret \in On \ D
       /\ {values[k].ast, values[k].target} \subseteq D \cup {ret, NIL}
       /\ \A i \in 1..N : Stacked(i) => values[i].ast \in On \ D /\ (values[i].ast = ret => i = k - 1)
  BY <1>18 DEF Surrounded
<1>20. /\ m = k - 1 /\ m > 0 /\ m \in Nat /\ m \in 1..N /\ m \in 1..k - 1 /\ Stacked(m)
       /\ k = m + 1 /\ N - 2 = m
       /\ \A j \in 1..m : j \in 1..N
       /\ \A j \in m + 1..N : j = N - 1 \/ j = N
  BY <1>11, <1>13, <1>19
<1>21. ~Stacked(N) /\ ~Stacked(N - 1) /\ \A i \in m + 1..N : ~Stacked(i)
  BY <1>11, <1>15, <1>20 DEF Stacked
<1>22. t = ret
  <2>1. type_peek = values[m].ast
    BY <1>11, <1>12, <1>20, <1>21, TopIndex
  <2>. QED
    BY <1>7, <1>17, <1>20, <2>1
<1>23. f \in Node \ live
  BY <1>1, <1>2, <1>10, RoomFree
<1>24. PICK new : new = {f}
  OBVIOUS
<1>25. /\ Grows({f}) /\ gc' # <<>> /\ ToSet(gc') = On \cup new
       /\ gc'[Len(gc')] = IF gc = <<>> THEN f ELSE gc[Len(gc)]
  <2>1. UNCHANGED <<typedefs, phase>>
    BY <1>9 DEF ProductionFrame
  <2>2. /\ Grows({f}) /\ gc' # <<>>
        /\ gc'[Len(gc')] = IF gc = <<>> THEN f ELSE gc[Len(gc)]
    BY <1>9, <1>10, <1>23, <2>1, OneNode
  <2>. QED
    BY <1>24, <2>2 DEF Grows
<1>26. args \in Seq(Node) /\ args = values[N].list /\ IsValue(values[N - 1])
  BY <1>3, <1>10, <1>11, ValueAt
<1>27. FuncNew(g, f, args)
  BY <1>4, <1>10, <1>23, <1>26, FuncNewOf
<1>28. start \in D \cup {ret, NIL}
  BY <1>5, <1>6, <1>11, <1>13, <1>19
<1>29. /\ FuncPlaced(D, ret, f, args) /\ r.h[f].of = ret
       /\ start \in D \cup {ret} /\ r.rv \in {start, f}
  BY <1>8, <1>9, <1>12, <1>18, <1>22, <1>23, <1>26, <1>27, <1>28, FuncPlacedBy
<1>30. ToSet(args) \subseteq On \ D
  <2>1. ToSet(args) \subseteq On /\ vc[k] \notin Classes(cl, values[N].list)
    BY <1>10, <1>11, <1>13, <1>26 DEF Lists
  <2>2. ASSUME NEW n \in ToSet(args) PROVE n \notin D
    <3>1. PICK i \in DOMAIN args : args[i] = n
      BY <1>26 DEF ToSet
    <3>2. cl[n] \in Classes(cl, args)
      BY <3>1 DEF Classes
    <3>. QED
      BY <1>18, <1>26, <2>1, <3>2
  <2>. QED
    BY <2>1, <2>2
<1>31. Base(L, G)' /\ Rewired(D, ret, new)
  <2>1. Base(L, G)' /\ Rewired(D, ret, {f})
    BY <1>12, <1>18, <1>23, <1>25, <1>29, <1>30, FuncPlacedGood
  <2>. QED
    BY <1>24, <2>1
<1>32. PICK ops, proper : values' = Replace(2, [Below EXCEPT
                    !.ast = IF nested THEN @ ELSE r.rv,
                    !.target = r.h[f].of,
                    !.ops = ops, !.proper = proper])
  BY <1>9
<1>33. PICK v : v = [Below EXCEPT !.ast = IF nested THEN @ ELSE r.rv,
                    !.target = r.h[f].of,
                    !.ops = ops, !.proper = proper]
  OBVIOUS
<1>34. /\ IsValue(v) /\ v.tag = "decl2" /\ v.list = <<>> /\ v.list \in Seq(Node)
       /\ v.ast \in {values[k].ast, start, f} /\ v.target = ret
       /\ v.ast = NIL => values[k].ast = NIL
  <2>1. values[N - 1].list = <<>>
    BY <1>11, <1>12, <1>15 DEF Levels
  <2>2. IsValue(v) /\ v.tag = "decl2" /\ v.list = <<>>
    BY <1>11, <1>26, <1>33, <2>1 DEF IsValue
  <2>3. /\ v.ast = IF nested THEN values[k].ast ELSE r.rv
        /\ v.target = ret
    BY <1>11, <1>13, <1>26, <1>29, <1>33 DEF IsValue
  <2>4. start # NIL /\ f # NIL
    BY <1>10, <1>19, <1>23, <1>29
  <2>5. v.ast \in {values[k].ast, start, f}
    BY <1>29, <2>3
  <2>6. v.ast = NIL => values[k].ast = NIL
    BY <1>29, <2>3, <2>4
  <2>. QED
    BY <2>2, <2>3, <2>5, <2>6
<1>35. /\ v.tag \in Declarator /\ v.tag # "args" /\ v.tag \notin StackTag
  BY <1>15, <1>34
<1>36. Above(m, v)
  <2>1. PICK two \in 0..N : two = 2
    BY <1>11
  <2>2. values' = Replace(two, v)
    BY <1>32, <1>33, <2>1
  <2>3. Above(N - two, v)
    BY <1>10, <1>34, <2>2, ReplaceAbove
  <2>4. N - two = m
    BY <1>13, <2>1
  <2>. QED
    BY <2>3, <2>4
<1>37. Follows(values[m].tag, v.tag)
  <2>1. Follows(values[k - 1].tag, values[k].tag)
    BY <1>11, <1>12, <1>13, <1>19 DEF Grammar
  <2>. QED
    BY <1>11, <1>13, <1>20, <1>34, <2>1
<1>38. Popped(m, v)
  BY <1>9, <1>21 DEF Popped
<1>39. PICK cl2 : cl2 = [n \in Node |-> IF n \in new THEN vc[m] ELSE cl[n]]
  OBVIOUS
<1>40. PICK vc2 : vc2 = [i \in Nat |-> IF i = m + 1 THEN vc[m] ELSE vc[i]]
  OBVIOUS
<1>41. /\ (\A n \in On : cl2[n] = cl[n]) /\ (\A n \in new : cl2[n] = vc[k])
       /\ (\A i \in 1..m : vc2[i] = vc[i]) /\ vc2[m + 1] = vc[m] /\ vc[m] = vc[k]
       /\ new \subseteq Node \ On /\ new \cap On = {}
  <2>1. vc[m] = vc[k] /\ new \subseteq Node \ On /\ new \cap On = {}
    BY <1>10, <1>18, <1>20, <1>23, <1>24
  <2>2. (\A n \in On : cl2[n] = cl[n]) /\ (\A n \in new : cl2[n] = vc[k])
    BY <1>10, <1>39, <2>1
  <2>3. (\A i \in 1..m : vc2[i] = vc[i]) /\ vc2[m + 1] = vc[m]
    BY <1>20, <1>40
  <2>. QED
    BY <2>1, <2>2, <2>3
<1>42. Relinked(new, cl2, m, v)
  BY <1>12, <1>14, <1>16, <1>17, <1>20, <1>31, <1>35, <1>41, RewiredRelinks
<1>43. /\ \A n \in On : h'[n].args = h[n].args
       /\ h'[f].args = args
       /\ \A n \in On \cup new : h'[n].name \in Undefined \cup {NIL}
  BY <1>10, <1>23, <1>24, <1>29 DEF FuncPlaced
<1>44. Lists(cl2, vc2)'
  <2>1. \A q \in 1..m + 1 : (\E p \in 1..N : vc2[q] = vc[p]) \/ \A n \in On : cl[n] # vc2[q]
    <3>1. \A q \in 1..m + 1 : q \in 1..m \/ q = m + 1
      BY <1>20
    <3>. QED
      BY <1>20, <1>41, <3>1
  <2>2. PICK q : q = N
    OBVIOUS
  <2>3. /\ q \in m + 1..N + 1 /\ q <= N
        /\ \A n \in new : h'[n].args = <<>> \/ (n = f /\ q <= N /\ h'[n].args = values[q].list)
    BY <1>11, <1>20, <1>24, <1>26, <1>43, <2>2
  <2>4. Moved(cl, vc, cl2, vc2, m, v, new, q, f)
    BY <1>10, <1>25, <1>34, <1>41, <1>43, <2>1, <2>3 DEF Moved
  <2>. QED
    BY <1>10, <1>11, <1>36, <2>4, ListsMoved
<1>45. Fits(new, cl2, vc, m, v)
  <2>1. /\ f \in new /\ cl2[f] = vc[m]
        /\ start \in On /\ cl2[start] = vc[m] /\ ret \in On /\ cl2[ret] = vc[m]
    BY <1>18, <1>19, <1>24, <1>29, <1>41
  <2>2. values[k].ast # NIL => values[k].ast \in On /\ cl2[values[k].ast] = vc[m]
    BY <1>18, <1>19, <1>41
  <2>3. values[k].ast = NIL => CastFirst \/ \E j \in 1..m : values[j].tag = "args"
    <3>1. Bottom
      BY <1>12 DEF State, Gib
    <3>. QED
      BY <1>11, <1>13, <1>15, <1>20, <3>1 DEF Bottom
  <2>4. ASSUME NEW j \in 1..m, Stacked(j), values[j].ast \in {v.ast, v.target} PROVE j = m
    <3>1. j \in 1..N /\ values[j].ast \in On \ D /\ (values[j].ast = ret => j = k - 1)
      BY <1>19, <1>20, <2>4
    <3>2. values[j].ast \in D \cup {ret, NIL, f}
      BY <1>19, <1>29, <1>34, <2>4
    <3>3. values[j].ast = ret
      BY <1>10, <1>23, <3>1, <3>2
    <3>. QED
      BY <1>20, <3>1, <3>3
  <2>. QED
    BY <1>34, <1>35, <2>1, <2>2, <2>3, <2>4 DEF Fits
<1>46. NewTop(f)
  BY <1>25 DEF NewTop
<1>47. \E ix2 : State(L, G, cl2, vc2, ix2)'
  BY <1>9, <1>12, <1>20, <1>25, <1>31, <1>35, <1>36, <1>37, <1>38, <1>41, <1>42, <1>43, <1>44, <1>45, <1>46, Reduced
<1>. QED
  BY <1>47 DEF Good

-----------------------------------------------------------------------------
(* The productions of an English command.                                  *)

\* A production of a gibberish command that does not abort keeps the invariant.
LEMMA GibberishProduction_Good ==
  ASSUME NEW L, NEW G, NEW cl, NEW vc, NEW ix, State(L, G, cl, vc, ix),
         GibberishProduction, phase' # "aborted"
  PROVE  Good(L, G)'
<1>1. /\ pointer_type_c \/ reference_type_c => \E kind \in Pointing : derived_type_c(kind)
      /\ pointer_decl_c \/ reference_decl_c \/ pointer_cast_c \/ reference_cast_c =>
           \E kind \in Pointing : derived_decl_c(kind)
      /\ nested_decl_c \/ nested_cast_c => Unnest
      /\ array_decl_c \/ array_cast_c => AddArray
      /\ func_decl_c \/ func_cast_c => AddFunction
  BY DEF pointer_type_c, reference_type_c, pointer_decl_c, reference_decl_c, pointer_cast_c,
         reference_cast_c, nested_decl_c, nested_cast_c, array_decl_c, array_cast_c,
         func_decl_c, func_cast_c, Pointing
<1>2. CASE type_ast_c
  BY <1>2, type_ast_c_Good
<1>3. CASE name_c
  BY <1>3, name_c_Good
<1>4. CASE typedef_decl_c
  BY <1>4, typedef_decl_c_Good
<1>5. CASE no_cast_c
  BY <1>5, no_cast_c_Good
<1>6. CASE pointer_type_c \/ reference_type_c
  BY <1>1, <1>6, derived_type_c_Good
<1>7. CASE pointer_decl_c \/ reference_decl_c \/ pointer_cast_c \/ reference_cast_c
  BY <1>1, <1>7, derived_decl_c_Good
<1>8. CASE placeholder_type_ast_c
  BY <1>8, placeholder_type_ast_c_Good
<1>9. CASE nested_decl_c \/ nested_cast_c
  BY <1>1, <1>9, Unnest_Good
<1>10. CASE array_decl_c \/ array_cast_c
  BY <1>1, <1>10, AddArray_Good
<1>11. CASE ArgsOpen
  BY <1>11, ArgsOpen_Good
<1>12. CASE arg_c
  BY <1>12, arg_c_Good
<1>13. CASE func_decl_c \/ func_cast_c
  BY <1>1, <1>13, AddFunction_Good
<1>. QED
  BY <1>2, <1>3, <1>4, <1>5, <1>6, <1>7, <1>8, <1>9, <1>10, <1>11, <1>12, <1>13
     DEF GibberishProduction

\* The values below are the roots of their ASTs still.
EngKept(new, cl2, vc, vc2, m) ==
  \A i \in 1..m :
    /\ vc2[i] = vc[i]
    /\ values[i].tag # "list" =>
         LET n == values[i].ast IN
         /\ h'[n].parent = NIL /\ h'[n].kind = h[n].kind /\ cl2[n] = vc[i]
         /\ \A x \in On \cup new : h'[x].of # n

\* The value v on them is one too, of another class.
EngTop(new, cl2, vc2, m, v) ==
  /\ v.tag \in EnglishTag /\ v.target = NIL
  /\ v.tag = "list" => v.ast = NIL
  /\ v.tag # "list" =>
       /\ v.list = <<>> /\ v.ast \in On \cup new /\ cl2[v.ast] = vc2[m + 1]
       /\ h'[v.ast].parent = NIL /\ \A x \in On \cup new : h'[x].of # v.ast
  /\ v.tag = "ref" => h'[v.ast].kind \in ParentKind
  /\ \A j \in 1..m : vc2[j] # vc2[m + 1]

\* Links are made within a class.
ChainedTo(new, cl2) ==
  \A n \in On \cup new : /\ h'[n].of # NIL => cl2[h'[n].of] = cl2[n]
                         /\ h'[n].parent # NIL => cl2[h'[n].parent] = cl2[n]

\* A value takes the place of those above m.
LEMMA EngReduced ==
  ASSUME NEW L, NEW G, NEW cl, NEW vc, NEW ix, State(L, G, cl, vc, ix), phase = "parse",
         command \in English, Stays, UNCHANGED <<typeStack, ast_depth>>,
         NEW m, NEW v, Above(m, v), NEW new, ToSet(gc') = On \cup new,
         Base(L, G)', \A n \in On \cup new : h'[n].name \in Undefined \cup {NIL},
         NEW cl2, NEW vc2, EngKept(new, cl2, vc, vc2, m), EngTop(new, cl2, vc2, m, v),
         ChainedTo(new, cl2), Lists(cl2, vc2)'
  PROVE  Good(L, G)'
<1>1. N \in Nat /\ On' = On \cup new /\ Eng(cl, vc) /\ ast_depth \in Nat
  BY StateFacts DEF State, On
<1>2. /\ N' = m + 1 /\ values'[m + 1] = v
      /\ \A i \in 1..m + 1 : (i \in 1..m /\ i \in 1..N /\ values'[i] = values[i]) \/ i = m + 1
      /\ \A i \in 1..m : i \in 1..m + 1 /\ i \in 1..N /\ values'[i] = values[i]
      /\ m \in Nat
  BY <1>1, AboveFacts
<1>3. \A i \in 1..m : /\ values[i].tag \in EnglishTag /\ values[i].target = NIL
                      /\ values[i].tag = "list" => values[i].ast = NIL
                      /\ values[i].tag # "list" => values[i].list = <<>> /\ values[i].ast \in On
                      /\ values[i].tag = "ref" => h[values[i].ast].kind \in ParentKind
                      /\ \A j \in 1..i - 1 : vc[j] # vc[i]
  BY <1>1, <1>2 DEF Eng
<1>4. \A i \in 1..m :
    /\ vc2[i] = vc[i]
    /\ values[i].tag # "list" =>
         /\ h'[values[i].ast].parent = NIL /\ h'[values[i].ast].kind = h[values[i].ast].kind
         /\ cl2[values[i].ast] = vc[i]
         /\ \A x \in On \cup new : h'[x].of # values[i].ast
  BY DEF EngKept
<1>5. \A i \in 1..m : values[i].tag = "ref" => values[i].tag # "list"
  OBVIOUS
<1>6. ASSUME NEW i \in 1..m
      PROVE  /\ values'[i].tag \in EnglishTag /\ values'[i].target = NIL
             /\ values'[i].tag = "list" => values'[i].ast = NIL
             /\ values'[i].tag # "list" =>
                  /\ values'[i].list = <<>>
                  /\ values'[i].ast \in On' /\ cl2[values'[i].ast] = vc2[i]
                  /\ h'[values'[i].ast].parent = NIL
                  /\ \A n \in On' : h'[n].of # values'[i].ast
             /\ values'[i].tag = "ref" => h'[values'[i].ast].kind \in ParentKind
             /\ \A j \in 1..i - 1 : vc2[j] # vc2[i]
  <2>1. \A j \in 1..i - 1 : j \in 1..m
    BY <1>2
  <2>. QED
    BY <1>1, <1>2, <1>3, <1>4, <1>5, <1>6, <2>1
<1>7. /\ v.tag \in EnglishTag /\ v.target = NIL
      /\ v.tag = "list" => v.ast = NIL
      /\ v.tag # "list" =>
           /\ v.list = <<>>
           /\ v.ast \in On' /\ cl2[v.ast] = vc2[m + 1]
           /\ h'[v.ast].parent = NIL
           /\ \A n \in On' : h'[n].of # v.ast
      /\ v.tag = "ref" => h'[v.ast].kind \in ParentKind
      /\ \A j \in 1..m + 1 - 1 : vc2[j] # vc2[m + 1]
  <2>1. m + 1 - 1 = m
    BY <1>2
  <2>. QED
    BY <1>1, <2>1 DEF EngTop
<1>8. typeStack' = <<>>
  BY <1>1 DEF Eng
<1>9. Eng(cl2, vc2)'
  <2>1. \A i \in 1..m + 1 :
             /\ values'[i].tag \in EnglishTag /\ values'[i].target = NIL
             /\ values'[i].tag = "list" => values'[i].ast = NIL
             /\ values'[i].tag # "list" =>
                  /\ values'[i].list = <<>>
                  /\ values'[i].ast \in On' /\ cl2[values'[i].ast] = vc2[i]
                  /\ h'[values'[i].ast].parent = NIL
                  /\ \A n \in On' : h'[n].of # values'[i].ast
             /\ values'[i].tag = "ref" => h'[values'[i].ast].kind \in ParentKind
             /\ \A j \in 1..i - 1 : vc2[j] # vc2[i]
    BY <1>2, <1>6, <1>7
  <2>. QED
    BY <1>2, <1>8, <2>1 DEF Eng
<1>10. Control'
  BY <1>1, ReducedControl
<1>11. Chained(cl2)'
  BY <1>1 DEF Chained, ChainedTo
<1>12. ValuesOK' /\ command' \notin Gibberish
  BY LanguagesDiffer DEF Above, Stays
<1>13. State(L, G, cl2, vc2, ix)'
  BY <1>9, <1>10, <1>11, <1>12 DEF State
<1>. QED
  BY <1>13 DEF Good

\* What is on top of the values of an English command.
LEMMA EngTopIs ==
  ASSUME NEW L, NEW G, NEW cl, NEW vc, NEW ix, State(L, G, cl, vc, ix), ParsingEnglish,
         NEW tags, TopIs(tags), "list" \notin tags
  PROVE  /\ phase = "parse" /\ command \in English /\ N \in Nat /\ N > 0 /\ N \in 1..N
         /\ Top = values[N] /\ Top.tag \in tags /\ IsValue(Top) /\ Top.list = <<>>
         /\ Top.target = NIL /\ Top.ast \in On /\ cl[Top.ast] = vc[N] /\ h[Top.ast].parent = NIL
         /\ \A n \in On : h[n].of # Top.ast
         /\ \A j \in 1..N - 1 : j \in 1..N /\ vc[j] # vc[N]
<1>1. /\ phase = "parse" /\ command \in English /\ Eng(cl, vc) /\ ValuesOK /\ N \in Nat
  BY StateFacts DEF ParsingEnglish, State
<1>2. N # 0
  BY <1>1 DEF TopIs, ValuesOK, N
<1>3. N > 0 /\ N \in 1..N /\ Top = values[N] /\ \A j \in 1..N - 1 : j \in 1..N
  BY <1>1, <1>2 DEF Top, N
<1>4. Top.tag \in tags /\ Top.tag # "list"
  BY DEF TopIs
<1>5. IsValue(Top)
  BY <1>1, <1>3, ValueAt
<1>. QED
  BY <1>1, <1>3, <1>4, <1>5 DEF Eng

\* A new node that is linked to nothing is put on the values.
LEMMA EngLeaf ==
  ASSUME NEW L, NEW G, NEW cl, NEW vc, NEW ix, State(L, G, cl, vc, ix), phase = "parse",
         command \in English, Room(1), c_ast_new(<<Free1>>), EnglishFrame,
         NEW f, f = Free1, NEW kind \in Kind, ChosenCell(f, kind),
         NEW v, IsValue(v), v.tag \in EnglishTag, v.tag # "list", v.ast = f, v.target = NIL,
         v.list = <<>>, v.tag = "ref" => kind \in ParentKind, values' = Append(values, v)
  PROVE  Good(L, G)'
<1>1. ProductionFrame /\ Stays /\ UNCHANGED <<typeStack, ast_depth>>
  BY Frame DEF EnglishFrame
<1>2. /\ HeapOK(L) /\ Base(L, G) /\ ValuesOK /\ Lists(cl, vc) /\ Chained(cl) /\ Eng(cl, vc)
      /\ On \subseteq Node /\ On \subseteq live /\ NIL \notin Node /\ N \in Nat
      /\ \A n \in On : /\ h[n].of \in On \cup {NIL} /\ h[n].parent \in On \cup {NIL}
                       /\ ToSet(h[n].args) \subseteq On
      /\ \A n \in On : h[n].name \in Undefined \cup {NIL}
  BY StateFacts DEF State, Base, Control
<1>3. /\ f \in Node \ live /\ Grows({f}) /\ ToSet(gc') = On \cup {f}
  BY <1>1, <1>2, Allocated
<1>4. PICK cell : /\ Fresh(cell, kind, ast_depth) /\ cell.args = <<>>
                  /\ kind = "typedef" => cell.def \in Defined
                  /\ h' = [h EXCEPT ![f] = cell]
  BY DEF ChosenCell
<1>5. Base(L, G)' /\ h'[f] = cell /\ \A n \in Node \ {f} : h'[n] = h[n]
  <2>1. PICK depth : depth = ast_depth
    OBVIOUS
  <2>. QED
    BY <1>2, <1>3, <1>4, <2>1, NewCell
<1>6. /\ h'[f].kind = kind /\ h'[f].of = NIL /\ h'[f].parent = NIL /\ h'[f].args = <<>>
      /\ h'[f].name = NIL
  BY <1>4, <1>5 DEF Fresh
<1>7. PICK m, new : m = N /\ new = {f}
  OBVIOUS
<1>8. Above(m, v)
  <2>1. v.list \in Seq(Node)
    OBVIOUS
  <2>. QED
    BY <1>2, <1>7, <2>1, AppendAbove
<1>9. PICK c : (\A n \in On : cl[n] # c) /\ \A i \in 1..N : vc[i] # c
  <2>1. PICK c : c \notin {cl[n] : n \in On} \cup {vc[i] : i \in 1..N}
    BY NoSetContainsEverything
  <2>. QED
    BY <2>1
<1>10. PICK cl2 : cl2 = [n \in Node |-> IF n = f THEN c ELSE cl[n]]
  OBVIOUS
<1>11. PICK vc2 : vc2 = [i \in Nat |-> IF i = m + 1 THEN c ELSE vc[i]]
  OBVIOUS
<1>12. /\ (\A n \in On : cl2[n] = cl[n] /\ n # f) /\ cl2[f] = c
       /\ (\A i \in 1..m : vc2[i] = vc[i]) /\ vc2[m + 1] = c
  <2>1. (\A n \in On : cl2[n] = cl[n] /\ n # f) /\ cl2[f] = c
    BY <1>2, <1>3, <1>10
  <2>2. (\A i \in 1..m : vc2[i] = vc[i]) /\ vc2[m + 1] = c
    BY <1>2, <1>7, <1>11
  <2>. QED
    BY <2>1, <2>2
<1>13. \A n \in On : h'[n] = h[n]
  BY <1>2, <1>3, <1>5
<1>14. EngKept(new, cl2, vc, vc2, m)
  <2>1. \A i \in 1..N : values[i].tag # "list" =>
           /\ values[i].ast \in On /\ cl[values[i].ast] = vc[i]
           /\ h[values[i].ast].parent = NIL
           /\ \A n \in On : h[n].of # values[i].ast
    BY <1>2 DEF Eng
  <2>2. \A x \in new : h'[x].of = NIL
    BY <1>6, <1>7
  <2>3. ASSUME NEW i \in 1..m, values[i].tag # "list", NEW n, n = values[i].ast
        PROVE  /\ h'[n].parent = NIL /\ h'[n].kind = h[n].kind /\ cl2[n] = vc[i]
               /\ \A x \in On \cup new : h'[x].of # n
    <3>1. /\ n \in On /\ cl[n] = vc[i] /\ h[n].parent = NIL /\ n # NIL
          /\ \A x \in On : h[x].of # n
      BY <1>2, <1>7, <2>1, <2>3
    <3>. QED
      BY <1>7, <1>12, <1>13, <2>2, <3>1
  <2>. QED
    BY <1>12, <2>3 DEF EngKept
<1>15. EngTop(new, cl2, vc2, m, v)
  <2>1. \A x \in On \cup new : h'[x].of # f
    BY <1>2, <1>3, <1>6, <1>7, <1>13
  <2>. QED
    BY <1>6, <1>7, <1>9, <1>12, <2>1 DEF EngTop
<1>16. ChainedTo(new, cl2)
  BY <1>2, <1>6, <1>7, <1>12, <1>13 DEF Chained, ChainedTo
<1>17. Lists(cl2, vc2)'
  <2>1. \A q \in 1..m + 1 : (\E p \in 1..N : vc2[q] = vc[p]) \/ \A n \in On : cl[n] # vc2[q]
    <3>1. \A q \in 1..m + 1 : q \in 1..m \/ q = m + 1
      BY <1>2, <1>7
    <3>. QED
      BY <1>7, <1>9, <1>12, <3>1
  <2>2. PICK q : q = N + 1
    OBVIOUS
  <2>3. q \in m + 1..N + 1 /\ new \cap On = {} /\ \A n \in new : h'[n].args = <<>>
    BY <1>2, <1>3, <1>6, <1>7, <2>2
  <2>4. Moved(cl, vc, cl2, vc2, m, v, new, q, f)
    BY <1>2, <1>3, <1>7, <1>12, <1>13, <2>1, <2>3 DEF Moved
  <2>. QED
    BY <1>2, <1>8, <2>4, ListsMoved
<1>18. /\ ToSet(gc') = On \cup new
       /\ \A n \in On \cup new : h'[n].name \in Undefined \cup {NIL}
  BY <1>2, <1>3, <1>6, <1>7, <1>13
<1>. QED
  BY <1>1, <1>5, <1>8, <1>14, <1>15, <1>16, <1>17, <1>18, EngReduced

\* A new node is put above that of the value on top, with the list below it.
LEMMA EngAbove ==
  ASSUME NEW L, NEW G, NEW cl, NEW vc, NEW ix, State(L, G, cl, vc, ix), ParsingEnglish,
         NEW tags, TopIs(tags), "list" \notin tags, Room(1), c_ast_new(<<Free1>>), EnglishFrame,
         NEW f, f = Free1, NEW kind \in ParentKind,
         NEW cell, Fresh(cell, kind, ast_depth), LinksNew(f, cell, Top.ast),
         NEW k \in {1, 2}, k <= N,
         cell.args = <<>> \/ (k = 2 /\ cell.args = values[N - 1].list /\ kind = "function"),
         NEW v, IsValue(v), v.tag = "decl", v.ast = f, v.target = NIL,
         v.list = <<>>, values' = Replace(k, v)
  PROVE  Good(L, G)'
<1>1. ProductionFrame /\ Stays /\ UNCHANGED <<typeStack, ast_depth>>
  BY Frame DEF EnglishFrame
<1>2. /\ HeapOK(L) /\ Base(L, G) /\ ValuesOK /\ Lists(cl, vc) /\ Chained(cl) /\ Eng(cl, vc)
      /\ On \subseteq Node /\ On \subseteq live /\ NIL \notin Node /\ N \in Nat
      /\ \A n \in On : /\ h[n].of \in On \cup {NIL} /\ h[n].parent \in On \cup {NIL}
                       /\ ToSet(h[n].args) \subseteq On
      /\ \A n \in On : h[n].name \in Undefined \cup {NIL}
  BY StateFacts DEF State, Base, Control, ParsingEnglish
<1>3. /\ f \in Node \ live /\ Grows({f}) /\ ToSet(gc') = On \cup {f}
  BY <1>1, <1>2, Allocated
<1>4. /\ phase = "parse" /\ command \in English /\ N > 0 /\ N \in 1..N /\ Top = values[N]
      /\ Top.ast \in On /\ cl[Top.ast] = vc[N] /\ h[Top.ast].parent = NIL
      /\ \A n \in On : h[n].of # Top.ast
      /\ \A j \in 1..N - 1 : j \in 1..N /\ vc[j] # vc[N]
  BY EngTopIs
<1>5. PICK t : t = Top.ast
  OBVIOUS
<1>6. ToSet(cell.args) \subseteq On /\ (cell.args # <<>> => kind = "function")
  <2>1. ToSet(<<>>) = {}
    BY NoClasses
  <2>2. k = 2 => ToSet(values[N - 1].list) \subseteq On
    BY <1>2, <1>4 DEF Lists
  <2>. QED
    BY <2>1, <2>2
<1>7. Base(L, G)' /\ NodeAbove(f, cell, t)
  <2>1. PICK depth : depth = ast_depth
    OBVIOUS
  <2>. QED
    BY <1>2, <1>3, <1>4, <1>5, <1>6, <2>1, NewAbove
<1>8. /\ h'[f].kind = cell.kind /\ h'[f].of = t /\ h'[f].parent = NIL /\ h'[f].name = NIL
      /\ h'[f].args = cell.args
      /\ \A n \in On :
           /\ h'[n].kind = h[n].kind /\ h'[n].args = h[n].args
           /\ h'[n].name = h[n].name /\ h'[n].of = h[n].of
           /\ h'[n].parent = IF n = t THEN f ELSE h[n].parent
  BY <1>7 DEF NodeAbove
<1>9. PICK m, new : m = N - k /\ new = {f}
  OBVIOUS
<1>10. m \in Nat /\ m + 1 \in 1..N /\ \A i \in 1..m : i \in 1..N - 1 /\ i \in 1..N
  BY <1>2, <1>4, <1>9
<1>11. Above(m, v)
  <2>1. v.list \in Seq(Node) /\ k \in 0..N
    BY <1>2
  <2>. QED
    BY <1>2, <1>9, <2>1, ReplaceAbove
<1>12. PICK cl2 : cl2 = [n \in Node |-> IF n = f THEN vc[N] ELSE cl[n]]
  OBVIOUS
<1>13. PICK vc2 : vc2 = [i \in Nat |-> IF i = m + 1 THEN vc[N] ELSE vc[i]]
  OBVIOUS
<1>14. /\ (\A n \in On : cl2[n] = cl[n] /\ n # f) /\ cl2[f] = vc[N]
       /\ (\A i \in 1..m : vc2[i] = vc[i]) /\ vc2[m + 1] = vc[N]
  <2>1. (\A n \in On : cl2[n] = cl[n] /\ n # f) /\ cl2[f] = vc[N]
    BY <1>2, <1>3, <1>12
  <2>2. (\A i \in 1..m : vc2[i] = vc[i]) /\ vc2[m + 1] = vc[N]
    BY <1>10, <1>13
  <2>. QED
    BY <2>1, <2>2
<1>15. EngKept(new, cl2, vc, vc2, m)
  <2>1. \A i \in 1..N : values[i].tag # "list" =>
           /\ values[i].ast \in On /\ cl[values[i].ast] = vc[i]
           /\ h[values[i].ast].parent = NIL
           /\ \A n \in On : h[n].of # values[i].ast
    BY <1>2 DEF Eng
  <2>2. \A i \in 1..m : values[i].tag # "list" => values[i].ast # t
    BY <1>4, <1>5, <1>10, <2>1
  <2>3. \A x \in new : h'[x].of = t
    BY <1>8, <1>9
  <2>. QED
    BY <1>2, <1>8, <1>10, <1>14, <2>1, <2>2, <2>3 DEF EngKept
<1>16. EngTop(new, cl2, vc2, m, v)
  <2>1. \A x \in On \cup new : h'[x].of # f
    BY <1>2, <1>3, <1>4, <1>5, <1>8, <1>9
  <2>2. v.tag \in EnglishTag /\ v.tag # "list" /\ v.tag # "ref"
    BY DEF EnglishTag
  <2>3. \A j \in 1..m : vc2[j] # vc2[m + 1]
    BY <1>4, <1>10, <1>14
  <2>. QED
    BY <1>8, <1>9, <1>14, <2>1, <2>2, <2>3 DEF EngTop
<1>17. ChainedTo(new, cl2)
  <2>1. t \in On /\ cl2[t] = vc[N]
    BY <1>4, <1>5, <1>14
  <2>2. ASSUME NEW n \in On
        PROVE  /\ h'[n].of # NIL => cl2[h'[n].of] = cl2[n]
               /\ h'[n].parent # NIL => cl2[h'[n].parent] = cl2[n]
    <3>1. h'[n].of # NIL => cl2[h'[n].of] = cl2[n]
      BY <1>2, <1>8, <1>14 DEF Chained
    <3>2. CASE n = t
      BY <1>8, <1>14, <2>1, <3>1, <3>2
    <3>3. CASE n # t
      BY <1>2, <1>8, <1>14, <3>1, <3>3 DEF Chained
    <3>. QED
      BY <3>2, <3>3
  <2>3. cl2[h'[f].of] = cl2[f] /\ h'[f].parent = NIL
    BY <1>8, <1>14, <2>1
  <2>. QED
    BY <1>9, <2>2, <2>3 DEF ChainedTo
<1>18. Lists(cl2, vc2)'
  <2>1. \A q \in 1..m + 1 : (\E p \in 1..N : vc2[q] = vc[p]) \/ \A n \in On : cl[n] # vc2[q]
    <3>1. \A q \in 1..m + 1 : q \in 1..m \/ q = m + 1
      BY <1>10
    <3>. QED
      BY <1>4, <1>10, <1>14, <3>1
  <2>2. PICK q : q = N + 1 - k + 1 - 1
    OBVIOUS
  <2>3. q \in m + 1..N + 1 /\ q <= N /\ new \cap On = {} /\ (k = 2 => q = N - 1)
    BY <1>2, <1>3, <1>4, <1>9, <2>2
  <2>4. \A n \in new : h'[n].args = <<>> \/ (n = f /\ q <= N /\ h'[n].args = values[q].list)
    BY <1>8, <1>9, <2>3
  <2>5. Moved(cl, vc, cl2, vc2, m, v, new, q, f)
    BY <1>2, <1>3, <1>8, <1>9, <1>14, <2>1, <2>3, <2>4 DEF Moved
  <2>. QED
    BY <1>2, <1>11, <2>5, ListsMoved
<1>19. /\ ToSet(gc') = On \cup new
       /\ \A n \in On \cup new : h'[n].name \in Undefined \cup {NIL}
  BY <1>2, <1>3, <1>8, <1>9
<1>. QED
  BY <1>1, <1>4, <1>7, <1>11, <1>15, <1>16, <1>17, <1>18, <1>19, EngReduced

\* A type is parsed.
LEMMA type_english_Good ==
  ASSUME NEW L, NEW G, NEW cl, NEW vc, NEW ix, State(L, G, cl, vc, ix), type_english
  PROVE  Good(L, G)'
<1>1. /\ phase = "parse" /\ command \in English /\ Room(1) /\ c_ast_new(<<Free1>>)
      /\ builtin_type_ast_c \/ typedef_type_ast_c
  BY DEF type_english, BeginEnglish, ParsingEnglish
<1>2. ast_depth \in Nat
  BY StateFacts
<1>3. PICK f : f = Free1
  OBVIOUS
<1>4. EnglishFrame
  BY DEF type_english
<1>5. PICK kind \in Kind : ChosenCell(f, kind)
  BY <1>1, <1>2, <1>3, TypeChosen, Kinds
<1>6. PICK tag : tag = "decl"
  OBVIOUS
<1>7. PICK ops : values' = Append(values, [Value(tag, f) EXCEPT !.ops = ops])
  BY <1>3, <1>6 DEF type_english
<1>8. PICK v : v = [Value(tag, f) EXCEPT !.ops = ops]
  OBVIOUS
<1>9. IsValue(v) /\ v.tag = tag /\ v.ast = f /\ v.target = NIL /\ v.list = <<>>
  BY <1>8, ValueFields DEF IsValue
<1>10. v.tag \in EnglishTag /\ v.tag # "list" /\ (v.tag = "ref" => kind \in ParentKind)
  BY <1>6, <1>9 DEF EnglishTag
<1>11. values' = Append(values, v)
  BY <1>7, <1>8
<1>. QED
  BY <1>1, <1>3, <1>4, <1>5, <1>9, <1>10, <1>11, EngLeaf

\* A function that returns nothing.
LEMMA returning_void_english_Good ==
  ASSUME NEW L, NEW G, NEW cl, NEW vc, NEW ix, State(L, G, cl, vc, ix), returning_void_english
  PROVE  Good(L, G)'
<1>1. /\ phase = "parse" /\ command \in English /\ Room(1) /\ c_ast_new(<<Free1>>)
      /\ EnglishFrame
  BY DEF returning_void_english, ParsingEnglish
<1>2. ast_depth \in Nat
  BY StateFacts
<1>3. PICK f : f = Free1
  OBVIOUS
<1>4. PICK kind \in Kind : kind = "builtin"
  BY Kinds
<1>5. ChosenCell(f, kind)
  <2>1. PICK b \in BuiltinType \cup {"void"} : b = "void"
    OBVIOUS
  <2>2. PICK cell : cell = [NewAst("builtin", ast_depth) EXCEPT !.type = b]
    OBVIOUS
  <2>3. Fresh(cell, "builtin", ast_depth) /\ cell.args = <<>>
    BY <1>2, <2>2, FreshCells
  <2>4. h' = [h EXCEPT ![f] = cell]
    BY <1>3, <2>1, <2>2 DEF returning_void_english
  <2>. QED
    BY <1>4, <2>3, <2>4, KindsDiffer DEF ChosenCell
<1>6. PICK tag : tag = "void"
  OBVIOUS
<1>7. PICK ops : values' = Append(values, [Value(tag, f) EXCEPT !.ops = ops])
  BY <1>3, <1>6 DEF returning_void_english
<1>8. PICK v : v = [Value(tag, f) EXCEPT !.ops = ops]
  OBVIOUS
<1>9. IsValue(v) /\ v.tag = tag /\ v.ast = f /\ v.target = NIL /\ v.list = <<>>
  BY <1>8, ValueFields DEF IsValue
<1>10. v.tag \in EnglishTag /\ v.tag # "list" /\ (v.tag = "ref" => kind \in ParentKind)
  BY <1>6, <1>9 DEF EnglishTag
<1>11. values' = Append(values, v)
  BY <1>7, <1>8
<1>. QED
  BY <1>1, <1>3, <1>5, <1>9, <1>10, <1>11, EngLeaf

\* A reference is parsed.
LEMMA reference_english_Good ==
  ASSUME NEW L, NEW G, NEW cl, NEW vc, NEW ix, State(L, G, cl, vc, ix), reference_english
  PROVE  Good(L, G)'
<1>1. /\ phase = "parse" /\ command \in English /\ Room(1) /\ c_ast_new(<<Free1>>)
      /\ EnglishFrame
  BY DEF reference_english, BeginEnglish, ParsingEnglish
<1>2. ast_depth \in Nat
  BY StateFacts
<1>3. PICK f, tag : f = Free1 /\ tag = "ref"
  OBVIOUS
<1>4. PICK kind \in References :
        /\ h' = [h EXCEPT ![Free1] = NewAst(kind, ast_depth)]
        /\ \E ops : values' = Append(values, [Value(tag, Free1) EXCEPT !.ops = ops])
  BY <1>3 DEF reference_english
<1>5. kind \in Kind /\ kind \in ParentKind /\ kind # "typedef"
  BY Kinds
<1>6. ChosenCell(f, kind)
  <2>1. PICK cell : cell = NewAst(kind, ast_depth)
    OBVIOUS
  <2>2. Fresh(cell, kind, ast_depth) /\ cell.args = <<>>
    BY <1>2, <1>5, <2>1, FreshCells
  <2>3. h' = [h EXCEPT ![f] = cell]
    BY <1>3, <1>4, <2>1
  <2>. QED
    BY <1>5, <2>2, <2>3 DEF ChosenCell
<1>7. PICK ops : values' = Append(values, [Value(tag, f) EXCEPT !.ops = ops])
  BY <1>3, <1>4
<1>8. PICK v : v = [Value(tag, f) EXCEPT !.ops = ops]
  OBVIOUS
<1>9. IsValue(v) /\ v.tag = tag /\ v.ast = f /\ v.target = NIL /\ v.list = <<>>
  BY <1>8, ValueFields DEF IsValue
<1>10. v.tag \in EnglishTag /\ v.tag # "list" /\ (v.tag = "ref" => kind \in ParentKind)
  BY <1>3, <1>5, <1>9 DEF EnglishTag
<1>11. values' = Append(values, v)
  BY <1>7, <1>8
<1>. QED
  BY <1>1, <1>3, <1>5, <1>6, <1>9, <1>10, <1>11, EngLeaf

\* A pointer to or an array of what is declared.
LEMMA derived_decl_english_Good ==
  ASSUME NEW L, NEW G, NEW cl, NEW vc, NEW ix, State(L, G, cl, vc, ix),
         NEW kind \in {"pointer", "array"}, derived_decl_english(kind)
  PROVE  Good(L, G)'
<1>1. /\ ParsingEnglish /\ Room(1) /\ c_ast_new(<<Free1>>) /\ EnglishFrame
  BY DEF derived_decl_english
<1>2. PICK tags : tags = {"decl"}
  OBVIOUS
<1>3. TopIs(tags) /\ "list" \notin tags
  BY <1>2 DEF derived_decl_english
<1>4. /\ N \in Nat /\ N > 0 /\ Top = values[N] /\ Top.tag \in tags /\ IsValue(Top)
      /\ Top.list = <<>> /\ Top.target = NIL
  BY <1>1, <1>3, EngTopIs
<1>5. PICK f, t : f = Free1 /\ t = Top.ast
  OBVIOUS
<1>6. ast_depth \in Nat /\ kind \in ParentKind /\ kind \in Kind /\ kind # "typedef"
  BY StateFacts, Kinds
<1>7. PICK cell : cell = NewAst(kind, ast_depth)
  OBVIOUS
<1>8. Fresh(cell, kind, ast_depth) /\ cell.args = <<>>
  BY <1>6, <1>7, FreshCells
<1>9. LinksNew(f, cell, t)
  BY <1>5, <1>7 DEF LinksNew, derived_decl_english
<1>10. PICK ops : values' = Replace(1, [Top EXCEPT !.ast = f, !.ops = ops])
  BY <1>5 DEF derived_decl_english
<1>11. PICK v : v = [Top EXCEPT !.ast = f, !.ops = ops]
  OBVIOUS
<1>12. IsValue(v) /\ v.tag = "decl" /\ v.ast = f /\ v.target = NIL /\ v.list = <<>>
  BY <1>2, <1>4, <1>11 DEF IsValue
<1>13. PICK k \in {1, 2} : k = 1
  OBVIOUS
<1>14. values' = Replace(k, v) /\ k <= N
  BY <1>4, <1>10, <1>11, <1>13
<1>15. LinksNew(f, cell, Top.ast)
  BY <1>5, <1>9
<1>. QED
  BY <1>1, <1>3, <1>5, <1>6, <1>8, <1>12, <1>14, <1>15, EngAbove

\* A function that returns what is declared.
LEMMA FuncDeclEnglish_Good ==
  ASSUME NEW L, NEW G, NEW cl, NEW vc, NEW ix, State(L, G, cl, vc, ix), FuncDeclEnglish
  PROVE  Good(L, G)'
<1>1. /\ ParsingEnglish /\ Room(1)
  BY DEF FuncDeclEnglish
<1>2. PICK tags : tags = {"decl", "void"}
  OBVIOUS
<1>3. TopIs(tags) /\ "list" \notin tags
  BY <1>2 DEF FuncDeclEnglish
<1>4. /\ N \in Nat /\ N > 0 /\ Top = values[N] /\ Top.tag \in tags /\ IsValue(Top)
      /\ Top.list = <<>> /\ Top.target = NIL
  BY <1>1, <1>3, EngTopIs
<1>5. PICK f : f = Free1
  OBVIOUS
<1>6. /\ ast_depth \in Nat /\ ValuesOK
  BY StateFacts DEF State
<1>7. PICK ret : ret = [Top EXCEPT !.tag = "decl"]
  OBVIOUS
<1>8. IsValue(ret) /\ ret.tag = "decl" /\ ret.ast = Top.ast /\ ret.target = NIL /\ ret.list = <<>>
  BY <1>4, <1>7 DEF IsValue
<1>9. PICK kind \in ParentKind : kind = "function"
  BY Kinds
<1>10. PICK k, list :
         /\ k \in {1, 2} /\ func_decl_english(k, list, ret)
         /\ \/ k = 1 /\ list = NoList
            \/ k = 2 /\ TopTwo({"list"}, {"decl", "void"}) /\ list = Below
  <2>1. \/ func_decl_english(1, NoList, ret)
        \/ TopTwo({"list"}, {"decl", "void"}) /\ func_decl_english(2, Below, ret)
    BY <1>7 DEF FuncDeclEnglish
  <2>. QED
    BY <2>1
<1>11. list.list = <<>> \/ (k = 2 /\ list.list = values[N - 1].list)
  <2>1. Value("list", NIL).list = <<>>
    BY ValueFields
  <2>. QED
    BY <1>10, <2>1 DEF NoList, Below, N
<1>12. k <= N /\ list.list \in Seq(Node)
  <2>1. CASE k = 1 /\ list = NoList
    <3>1. Value("list", NIL).list = <<>>
      BY ValueFields
    <3>2. list.list = <<>> /\ <<>> \in Seq(Node)
      BY <2>1, <3>1 DEF NoList
    <3>. QED
      BY <1>4, <2>1, <3>2
  <2>2. CASE k = 2 /\ TopTwo({"list"}, {"decl", "void"}) /\ list = Below
    <3>1. N > 1 /\ Below = values[N - 1]
      BY <2>2 DEF TopTwo, Below, N
    <3>2. N - 1 \in 1..N
      BY <1>4, <3>1
    <3>3. values[N - 1].list \in Seq(Node)
      BY <1>6, <3>2, ValueAt
    <3>. QED
      BY <1>4, <2>2, <3>1, <3>3
  <2>. QED
    BY <1>10, <2>1, <2>2
<1>13. PICK cell : cell = [NewAst("function", ast_depth) EXCEPT !.args = list.list]
  OBVIOUS
<1>14. Fresh(cell, kind, ast_depth) /\ cell.args = list.list
  BY <1>6, <1>9, <1>12, <1>13, FreshCells
<1>15. LinksNew(f, cell, Top.ast) /\ c_ast_new(<<Free1>>) /\ EnglishFrame
  BY <1>5, <1>8, <1>10, <1>13 DEF LinksNew, func_decl_english
<1>16. PICK ops, proper : values' = Replace(k, [ret EXCEPT !.ast = f, !.ops = ops, !.proper = proper])
  BY <1>5, <1>10 DEF func_decl_english
<1>17. PICK v : v = [ret EXCEPT !.ast = f, !.ops = ops, !.proper = proper]
  OBVIOUS
<1>18. IsValue(v) /\ v.tag = "decl" /\ v.ast = f /\ v.target = NIL /\ v.list = <<>>
  BY <1>8, <1>17 DEF IsValue
<1>19. values' = Replace(k, v)
  BY <1>16, <1>17
<1>20. cell.args = <<>> \/ (k = 2 /\ cell.args = values[N - 1].list /\ kind = "function")
  BY <1>9, <1>11, <1>14
<1>. QED
  BY <1>1, <1>3, <1>5, <1>9, <1>10, <1>12, <1>14, <1>15, <1>18, <1>19, <1>20, EngAbove

\* Of the two values on top, each is the root of an AST of its own.
LEMMA EngTopTwo ==
  ASSUME NEW L, NEW G, NEW cl, NEW vc, NEW ix, State(L, G, cl, vc, ix), ParsingEnglish,
         NEW tags1, NEW tags2, TopTwo(tags1, tags2), "list" \notin tags1
  PROVE  /\ N \in Nat /\ N > 1 /\ N - 1 \in 1..N /\ Below = values[N - 1] /\ Below.tag \in tags1
         /\ Below.tag \in EnglishTag
         /\ Below.ast \in On /\ cl[Below.ast] = vc[N - 1] /\ h[Below.ast].parent = NIL
         /\ \A n \in On : h[n].of # Below.ast
         /\ \A j \in 1..N - 2 : j \in 1..N /\ vc[j] # vc[N - 1]
         /\ Below.tag = "ref" => h[Below.ast].kind \in ParentKind
<1>1. /\ Eng(cl, vc) /\ ValuesOK
  BY DEF ParsingEnglish, State
<1>2. /\ N \in Nat /\ N > 1 /\ Below = values[N - 1] /\ values[N - 1].tag \in tags1
  BY <1>1, TopTwoIs
<1>3. N - 1 \in 1..N /\ \A j \in 1..N - 2 : j \in 1..N /\ j \in 1..(N - 1) - 1
  BY <1>2
<1>. QED
  BY <1>1, <1>2, <1>3 DEF Eng

\* A link leaves the contents of other nodes as they are.
LEMMA LinkedElsewhere ==
  ASSUME NEW g1 \in Heaps(Types, Names), NEW g2 \in Heaps(Types, Names),
         NEW child, NEW parent, Linked(g1, g2, child, parent),
         NEW n \in Node, n # child, n # parent
  PROVE  g2[n] = g1[n]
<1>1. g1[n] \in Cells(Types, Names) /\ g2[n] \in Cells(Types, Names)
  BY DEF Heaps
<1>2. /\ g2[n].kind = g1[n].kind /\ g2[n].type = g1[n].type /\ g2[n].def = g1[n].def
      /\ g2[n].name = g1[n].name /\ g2[n].depth = g1[n].depth /\ g2[n].args = g1[n].args
  BY DEF Linked, SameData
<1>3. g2[n].parent = g1[n].parent /\ g2[n].of = g1[n].of
  BY DEF Linked
<1>. QED
  BY <1>1, <1>2, <1>3 DEF Cells

\* A reference to what is declared.
LEMMA reference_decl_english_Good ==
  ASSUME NEW L, NEW G, NEW cl, NEW vc, NEW ix, State(L, G, cl, vc, ix), reference_decl_english
  PROVE  Good(L, G)'
<1>1. /\ ParsingEnglish /\ EnglishFrame /\ UNCHANGED <<live, gc, recursive>>
  BY DEF reference_decl_english
<1>2. ProductionFrame /\ Stays /\ UNCHANGED <<typeStack, ast_depth>>
  BY <1>1, Frame DEF EnglishFrame
<1>3. PICK tags1, tags2 : tags1 = {"ref"} /\ tags2 = {"decl"}
  OBVIOUS
<1>4. TopTwo(tags1, tags2) /\ "list" \notin tags1 /\ "list" \notin tags2
  BY <1>3 DEF reference_decl_english
<1>5. TopIs(tags2)
  BY <1>4, TopTwoIs DEF State
<1>6. /\ HeapOK(L) /\ Base(L, G) /\ ValuesOK /\ Lists(cl, vc) /\ Chained(cl) /\ Eng(cl, vc)
      /\ On \subseteq Node /\ NIL \notin Node /\ N \in Nat /\ h \in Heaps(Types, Names)
      /\ \A n \in On : /\ h[n].of \in On \cup {NIL} /\ h[n].parent \in On \cup {NIL}
                       /\ ToSet(h[n].args) \subseteq On
                       /\ h[n].of # NIL => h[n].kind \in ParentKind
                       /\ h[n].parent # NIL => h[h[n].parent].kind \in ParentKind
      /\ gc \in Seq(Node) /\ IsInjective(gc)
      /\ \A n \in On : h[n].name \in Undefined \cup {NIL}
  BY <1>1, StateFacts DEF State, Base, Control, ParsingEnglish
<1>7. /\ phase = "parse" /\ command \in English /\ N > 0 /\ N \in 1..N /\ Top = values[N]
      /\ IsValue(Top) /\ Top.tag = "decl" /\ Top.list = <<>> /\ Top.target = NIL
      /\ Top.ast \in On /\ cl[Top.ast] = vc[N] /\ h[Top.ast].parent = NIL
      /\ \A n \in On : h[n].of # Top.ast
      /\ \A j \in 1..N - 1 : j \in 1..N /\ vc[j] # vc[N]
  BY <1>1, <1>3, <1>4, <1>5, EngTopIs
<1>8. /\ N > 1 /\ N - 1 \in 1..N /\ Below = values[N - 1]
      /\ Below.ast \in On /\ cl[Below.ast] = vc[N - 1] /\ h[Below.ast].parent = NIL
      /\ \A n \in On : h[n].of # Below.ast
      /\ \A j \in 1..N - 2 : j \in 1..N /\ vc[j] # vc[N - 1]
      /\ h[Below.ast].kind \in ParentKind
  BY <1>1, <1>3, <1>4, EngTopTwo
<1>9. PICK t, b : t = Top.ast /\ b = Below.ast
  OBVIOUS
<1>10. N - 1 \in 1..N - 1 /\ vc[N - 1] # vc[N] /\ t # b /\ t \in Node /\ b \in Node
  BY <1>6, <1>7, <1>8, <1>9
<1>11. h' \in Heaps(Types, Names) /\ Linked(h, h', t, b)
  <2>1. h' = c_ast_set_parent(h, t, b)
    BY <1>9 DEF reference_decl_english
  <2>. QED
    BY <1>6, <1>8, <1>9, <1>10, <2>1, SetParentDone
<1>12. \A n \in Node : /\ h'[n].kind = h[n].kind /\ h'[n].def = h[n].def
                       /\ h'[n].args = h[n].args /\ h'[n].name = h[n].name
                       /\ h'[n].type = h[n].type
                       /\ h'[n].of = (IF n = b THEN t ELSE h[n].of)
                       /\ h'[n].parent = (IF n = t THEN b ELSE h[n].parent)
  BY <1>11 DEF Linked, SameData
<1>13. \A n \in Node \ On : h'[n] = h[n]
  <2>1. \A n \in Node \ On : n # t /\ n # b
    BY <1>7, <1>8, <1>9
  <2>. QED
    BY <1>6, <1>11, <2>1, LinkedElsewhere
<1>14. PICK new : new = {}
  OBVIOUS
<1>15. PICK D : D = {n \in On : cl[n] = vc[N - 1]}
  OBVIOUS
<1>16. /\ b \in D /\ t \in On \ D /\ D \in SUBSET On
  BY <1>7, <1>8, <1>9, <1>10, <1>15
<1>17. /\ Grows(new) /\ ToSet(gc') = On \cup new
  BY <1>1, <1>2, <1>6, <1>14 DEF Grows, Stays, On
<1>18. Builds(new)
  <2>1. \A n \in On : /\ h'[n].kind = h[n].kind /\ h'[n].def = h[n].def
                      /\ h'[n].args = h[n].args /\ h'[n].type = h[n].type
                      /\ h'[n].of # NIL => h'[n].kind \in ParentKind
    BY <1>6, <1>8, <1>9, <1>12
  <2>2. \A n \in On : /\ h'[n].of \in On \cup {NIL}
                      /\ h'[n].parent \in On \cup {NIL}
                      /\ h'[n].parent # NIL => h'[h'[n].parent].kind \in ParentKind
    BY <1>6, <1>8, <1>9, <1>12, <1>16
  <2>. QED
    BY <1>11, <1>13, <1>14, <2>1, <2>2 DEF Builds
<1>19. Base(L, G)'
  <2>1. \A n \in On \ D : /\ h'[n].of = h[n].of /\ h'[n].of \notin D
                          /\ ToSet(h'[n].args) \cap D = {}
    <3>1. ASSUME NEW n \in On \ D PROVE h'[n].of = h[n].of /\ h'[n].of \notin D
      BY <1>6, <1>12, <1>15, <1>16, <3>1 DEF Chained
    <3>2. ASSUME NEW n \in On \ D, NEW a \in D, a \in ToSet(h[n].args) PROVE FALSE
      <4>1. cl[a] \in Classes(cl, h[n].args)
        BY <3>2 DEF Classes, ToSet
      <4>. QED
        BY <1>6, <1>8, <1>15, <3>2, <4>1 DEF Lists
    <3>. QED
      BY <1>6, <1>12, <3>1, <3>2
  <2>2. \A n \in On : h'[n].parent \in On \ D => h'[n].parent = h[n].parent /\ n \notin D
    BY <1>6, <1>12, <1>15, <1>16 DEF Chained
  <2>3. \A n \in D : h'[n].of \in D => h'[n].of = h[n].of
    BY <1>6, <1>12, <1>16
  <2>4. \A n \in D : h'[n].parent \in D => h'[n].parent = h[n].parent
    BY <1>6, <1>12, <1>16
  <2>5. phase \notin {"exit", "exited"}
    BY <1>7
  <2>6. \A n \in D : h'[n].parent \notin new
    BY <1>14
  <2>7. LinkedApart(new, D)
    BY <1>14, <1>16, <2>1, <2>2, <2>3, <2>4, <2>6 DEF LinkedApart
  <2>. QED
    BY <1>6, <1>17, <1>18, <2>5, <2>7, NewLinks
<1>20. PICK m : m = N - 2
  OBVIOUS
<1>21. /\ m \in Nat /\ m + 1 = N - 1 /\ m + 1 \in 1..N
       /\ \A i \in 1..m : i \in 1..N - 1 /\ i \in 1..N /\ i # N - 1
  BY <1>6, <1>8, <1>20
<1>22. PICK ops : values' = Replace(2, [Top EXCEPT !.ast = b, !.ops = ops])
  BY <1>9 DEF reference_decl_english
<1>23. PICK v : v = [Top EXCEPT !.ast = b, !.ops = ops]
  OBVIOUS
<1>24. IsValue(v) /\ v.tag = "decl" /\ v.ast = b /\ v.target = NIL /\ v.list = <<>>
  BY <1>7, <1>23 DEF IsValue
<1>25. Above(m, v)
  <2>1. PICK k \in 0..N : k = 2
    BY <1>6, <1>8
  <2>2. v.list \in Seq(Node) /\ values' = Replace(k, v)
    BY <1>22, <1>23, <1>24, <2>1, ValueFields
  <2>3. Above(N - k, v)
    BY <1>6, <1>24, <2>2, ReplaceAbove
  <2>. QED
    BY <1>20, <2>1, <2>3
<1>26. PICK cl2 : cl2 = [n \in Node |-> IF cl[n] = vc[N - 1] THEN vc[N] ELSE cl[n]]
  OBVIOUS
<1>27. PICK vc2 : vc2 = [i \in Nat |-> IF i = m + 1 THEN vc[N] ELSE vc[i]]
  OBVIOUS
<1>28. \A n \in On : cl2[n] = IF cl[n] = vc[N - 1] THEN vc[N] ELSE cl[n]
  BY <1>6, <1>26
<1>29. (\A i \in 1..m : vc2[i] = vc[i]) /\ vc2[m + 1] = vc[N]
  BY <1>21, <1>27
<1>30. EngKept(new, cl2, vc, vc2, m)
  <2>1. \A i \in 1..N : values[i].tag # "list" =>
           /\ values[i].ast \in On /\ cl[values[i].ast] = vc[i]
           /\ h[values[i].ast].parent = NIL
           /\ \A n \in On : h[n].of # values[i].ast
    BY <1>6 DEF Eng
  <2>2. \A i \in 1..m : vc[i] # vc[N - 1] /\ vc[i] # vc[N]
    BY <1>7, <1>8, <1>20, <1>21
  <2>3. ASSUME NEW i \in 1..m, values[i].tag # "list", NEW n, n = values[i].ast
        PROVE  /\ h'[n].parent = NIL /\ h'[n].kind = h[n].kind /\ cl2[n] = vc[i]
               /\ \A x \in On \cup new : h'[x].of # n
    <3>1. n \in On /\ cl[n] = vc[i] /\ h[n].parent = NIL /\ \A x \in On : h[x].of # n
      BY <1>21, <2>1, <2>3
    <3>2. n # t /\ n # b
      BY <1>7, <1>8, <1>9, <2>2, <3>1
    <3>3. cl2[n] = vc[i]
      BY <1>28, <2>2, <3>1
    <3>. QED
      BY <1>6, <1>12, <1>14, <3>1, <3>2, <3>3
  <2>. QED
    BY <1>29, <2>3 DEF EngKept
<1>31. EngTop(new, cl2, vc2, m, v)
  <2>1. \A x \in On \cup new : h'[x].of # b
    BY <1>6, <1>8, <1>9, <1>10, <1>12, <1>14
  <2>2. v.tag \in EnglishTag /\ v.tag # "list" /\ v.tag # "ref"
    BY <1>24 DEF EnglishTag
  <2>3. \A j \in 1..m : vc2[j] # vc2[m + 1]
    BY <1>7, <1>21, <1>29
  <2>4. h'[b].parent = NIL /\ cl2[b] = vc2[m + 1]
    BY <1>8, <1>9, <1>10, <1>12, <1>28, <1>29
  <2>. QED
    BY <1>8, <1>9, <1>24, <2>1, <2>2, <2>3, <2>4 DEF EngTop
<1>32. ChainedTo(new, cl2)
  <2>1. cl2[t] = vc[N] /\ cl2[b] = vc[N]
    BY <1>7, <1>8, <1>9, <1>10, <1>28
  <2>2. \A n \in On : /\ h[n].of # NIL => cl2[h[n].of] = cl2[n]
                      /\ h[n].parent # NIL => cl2[h[n].parent] = cl2[n]
    BY <1>6, <1>28 DEF Chained
  <2>. QED
    BY <1>6, <1>12, <1>14, <2>1, <2>2 DEF ChainedTo
<1>33. Lists(cl2, vc2)'
  <2>1. \A q \in 1..m + 1 : (\E p \in 1..N : vc2[q] = vc[p]) \/ \A n \in On : cl[n] # vc2[q]
    <3>1. \A q \in 1..m + 1 : q \in 1..m \/ q = m + 1
      BY <1>21
    <3>. QED
      BY <1>7, <1>21, <1>29, <3>1
  <2>2. \A n \in On : cl2[n] = cl[n] \/ \E q \in 1..N : vc[q] = cl[n]
    BY <1>8, <1>28
  <2>3. PICK k : k = N
    OBVIOUS
  <2>4. k \in m + 1..N + 1
    BY <1>6, <1>20, <2>3
  <2>5. \A n \in On : h'[n].args = h[n].args /\ ToSet(h[n].args) \subseteq On
    BY <1>6, <1>12
  <2>6. Moved(cl, vc, cl2, vc2, m, v, new, k, b)
    BY <1>14, <1>17, <1>24, <2>1, <2>2, <2>4, <2>5 DEF Moved
  <2>. QED
    BY <1>6, <1>25, <2>6, ListsMoved
<1>34. \A n \in On \cup new : h'[n].name \in Undefined \cup {NIL}
  BY <1>6, <1>12, <1>14
<1>. QED
  BY <1>2, <1>7, <1>17, <1>19, <1>25, <1>30, <1>31, <1>32, <1>33, <1>34, EngReduced

\* The node of a value is put on the list s of a value.
EngListed(cl, vc, m, v, s, a) ==
  /\ m \in Nat /\ m < N /\ a \in On /\ cl[a] = vc[N]
  /\ s \in Seq(Node) /\ (s = <<>> \/ \E k \in m + 1..N : s = values[k].list)
  /\ v.tag = "list" /\ v.ast = NIL /\ v.target = NIL /\ v.list = Append(s, a)

\* The value on top is put on a list, which keeps the invariant.
LEMMA EngListedGood ==
  ASSUME NEW L, NEW G, NEW cl, NEW vc, NEW ix, State(L, G, cl, vc, ix), ParsingEnglish, EnglishFrame,
         UNCHANGED ast, NEW tags, TopIs(tags), "list" \notin tags,
         NEW m, NEW v, Above(m, v), NEW s, NEW a, EngListed(cl, vc, m, v, s, a)
  PROVE  Good(L, G)'
<1>1. ProductionFrame /\ Stays /\ UNCHANGED <<typeStack, ast_depth, h, gc>>
  BY Frame DEF EnglishFrame, ast
<1>2. /\ Base(L, G) /\ Lists(cl, vc) /\ Chained(cl) /\ Eng(cl, vc)
      /\ On \subseteq Node /\ NIL \notin Node /\ N \in Nat
      /\ \A n \in On : /\ h[n].of \in On \cup {NIL} /\ h[n].parent \in On \cup {NIL}
                       /\ ToSet(h[n].args) \subseteq On
      /\ \A n \in On : h[n].name \in Undefined \cup {NIL}
  BY <1>1, StateFacts DEF State, Control, ParsingEnglish
<1>3. /\ phase = "parse" /\ command \in English /\ N > 0 /\ N \in 1..N
      /\ \A j \in 1..N - 1 : j \in 1..N /\ vc[j] # vc[N]
  BY EngTopIs
<1>4. /\ m \in Nat /\ m < N /\ a \in On /\ cl[a] = vc[N]
      /\ s \in Seq(Node) /\ (s = <<>> \/ \E k \in m + 1..N : s = values[k].list)
      /\ v.tag = "list" /\ v.ast = NIL /\ v.target = NIL /\ v.list = Append(s, a)
  BY DEF EngListed
<1>5. PICK c : c \notin {cl[n] : n \in On} \cup {vc[i] : i \in 1..N}
  BY NoSetContainsEverything
<1>6. PICK vc2 : vc2 = [i \in Nat |-> IF i = m + 1 THEN c ELSE vc[i]]
  OBVIOUS
<1>7. PICK new : new = {}
  OBVIOUS
<1>8. /\ m + 1 \in Nat /\ m + 1 \in 1..N /\ \A i \in 1..m : i \in Nat /\ i # m + 1 /\ i \in 1..N - 1
  BY <1>2, <1>3, <1>4
<1>9. (\A i \in 1..m : vc2[i] = vc[i]) /\ vc2[m + 1] = c
  BY <1>6, <1>8
<1>10. Base(L, G)'
  <2>1. Unlinked
    BY SameUnlinked
  <2>. QED
    BY <1>1, <1>2, <2>1, UnlinkedBase
<1>11. On' = On
  BY <1>1 DEF On
<1>12. EngKept(new, cl, vc, vc2, m)
  <2>1. \A i \in 1..m : values[i].tag # "list" =>
           /\ cl[values[i].ast] = vc[i] /\ h[values[i].ast].parent = NIL
           /\ \A n \in On : h[n].of # values[i].ast
    BY <1>2, <1>3, <1>8 DEF Eng
  <2>. QED
    BY <1>1, <1>7, <1>9, <2>1 DEF EngKept
<1>13. EngTop(new, cl, vc2, m, v)
  <2>1. v.tag \in EnglishTag /\ v.tag # "ref"
    BY <1>4 DEF EnglishTag
  <2>2. \A j \in 1..m : vc2[j] # vc2[m + 1]
    BY <1>3, <1>5, <1>8, <1>9
  <2>. QED
    BY <1>4, <2>1, <2>2 DEF EngTop
<1>14. ChainedTo(new, cl)
  BY <1>1, <1>2, <1>7 DEF Chained, ChainedTo
<1>15. Lists(cl, vc2)'
  <2>1. \A q \in 1..m + 1 : q \in 1..m \/ q = m + 1
    BY <1>4
  <2>2. \A q \in 1..m + 1 : (\E p \in 1..N : vc2[q] = vc[p]) \/ \A n \in On : cl[n] # vc2[q]
    BY <1>3, <1>5, <1>8, <1>9, <2>1
  <2>3. \A q \in 1..m + 1 : vc2[q] # cl[a]
    BY <1>3, <1>4, <1>5, <1>8, <1>9, <2>1
  <2>4. \A n \in On : h'[n].args = h[n].args
    BY <1>1
  <2>5. \A n \in On : ToSet(h[n].args) \subseteq On
    BY <1>2
  <2>6. \E p \in 1..N : vc[p] = cl[a]
    BY <1>3, <1>4
  <2>7. Appended(cl, vc, vc2, m, v, s, a)
    BY <1>4, <2>2, <2>3, <2>4, <2>5, <2>6 DEF Appended
  <2>. QED
    BY <1>2, <1>4, <1>11, <2>7, ListsAppended
<1>16. ToSet(gc') = On \cup new
  BY <1>1, <1>7 DEF On
<1>17. \A n \in On \cup new : h'[n].name \in Undefined \cup {NIL}
  BY <1>1, <1>2, <1>7
<1>. QED
  BY <1>1, <1>3, <1>10, <1>12, <1>13, <1>14, <1>15, <1>16, <1>17, EngReduced

\* An argument is put on the list.
LEMMA decl_list_english_Good ==
  ASSUME NEW L, NEW G, NEW cl, NEW vc, NEW ix, State(L, G, cl, vc, ix), decl_list_english
  PROVE  Good(L, G)'
<1>1. /\ ParsingEnglish /\ EnglishFrame /\ UNCHANGED ast
  BY DEF decl_list_english
<1>2. PICK tags : tags = {"decl"}
  OBVIOUS
<1>3. TopIs(tags) /\ "list" \notin tags
  BY <1>2 DEF decl_list_english
<1>4. /\ N \in Nat /\ N > 0 /\ N \in 1..N /\ Top.ast \in On /\ cl[Top.ast] = vc[N]
  BY <1>1, <1>3, EngTopIs
<1>5. PICK a : a = Top.ast
  OBVIOUS
<1>6. ValuesOK /\ On \subseteq Node /\ a \in Node
  BY <1>4, <1>5, StateFacts DEF State
<1>7. PICK k, list :
        /\ \E ops, proper : values' =
             Replace(k, [list EXCEPT !.list = c_ast_list_append(@, a), !.ops = ops, !.proper = proper])
        /\ \/ k = 1 /\ list = Value("list", NIL)
           \/ k = 2 /\ TopTwo({"list"}, {"decl"}) /\ list = Below
  BY <1>5 DEF decl_list_english
<1>8. PICK m : m = N - k
  OBVIOUS
<1>9. /\ k \in 0..N /\ m \in Nat /\ m < N /\ IsValue(list) /\ list.list \in Seq(Node)
      /\ list.list = <<>> \/ \E q \in m + 1..N : list.list = values[q].list
      /\ list.tag = "list" /\ list.ast = NIL /\ list.target = NIL
  <2>1. CASE k = 1 /\ list = Value("list", NIL)
    <3>1. k \in 0..N /\ m \in Nat /\ m < N
      BY <1>4, <1>8, <2>1
    <3>2. PICK tag : tag = "list"
      OBVIOUS
    <3>3. list = Value(tag, NIL)
      BY <2>1, <3>2
    <3>4. /\ IsValue(list) /\ list.list \in Seq(Node) /\ list.list = <<>>
          /\ list.tag = tag /\ list.ast = NIL /\ list.target = NIL
      <4>1. /\ IsValue(Value(tag, NIL)) /\ Value(tag, NIL).list = <<>>
            /\ Value(tag, NIL).tag = tag /\ Value(tag, NIL).ast = NIL
            /\ Value(tag, NIL).target = NIL /\ <<>> \in Seq(Node)
        BY ValueFields
      <4>. QED
        BY <3>3, <4>1
    <3>. QED
      BY <3>1, <3>2, <3>4
  <2>2. CASE k = 2 /\ TopTwo({"list"}, {"decl"}) /\ list = Below
    <3>1. PICK tags1, tags2 : tags1 = {"list"} /\ tags2 = {"decl"}
      OBVIOUS
    <3>2. N > 1 /\ Below = values[N - 1] /\ values[N - 1].tag \in tags1
      BY <1>6, <2>2, <3>1, TopTwoIs
    <3>3. k \in 0..N /\ m \in Nat /\ m < N /\ N - 1 \in m + 1..N /\ N - 1 \in 1..N
      BY <1>4, <1>8, <2>2, <3>2
    <3>4. IsValue(values[N - 1]) /\ values[N - 1].list \in Seq(Node)
      BY <1>6, <3>3, ValueAt
    <3>5. values[N - 1].tag = "list" /\ values[N - 1].ast = NIL /\ values[N - 1].target = NIL
      BY <1>1, <3>1, <3>2, <3>3 DEF State, Eng, ParsingEnglish
    <3>. QED
      BY <2>2, <3>2, <3>3, <3>4, <3>5
  <2>. QED
    BY <1>7, <2>1, <2>2
<1>10. PICK ops, proper : values' =
         Replace(k, [list EXCEPT !.list = c_ast_list_append(@, a), !.ops = ops, !.proper = proper])
  BY <1>7
<1>11. PICK v : v = [list EXCEPT !.list = c_ast_list_append(@, a), !.ops = ops, !.proper = proper]
  OBVIOUS
<1>12. /\ IsValue(v) /\ v.tag = "list" /\ v.ast = NIL /\ v.target = NIL
       /\ v.list = Append(list.list, a)
  BY <1>9, <1>11 DEF IsValue, c_ast_list_append
<1>13. Above(m, v)
  <2>1. v.list \in Seq(Node) /\ values' = Replace(k, v)
    <3>1. v.list \in Seq(Node)
      BY <1>6, <1>9, <1>12
    <3>. QED
      BY <1>10, <1>11, <3>1
  <2>. QED
    BY <1>6, <1>8, <1>9, <1>12, <2>1, ReplaceAbove
<1>14. PICK s : s = list.list
  OBVIOUS
<1>15. EngListed(cl, vc, m, v, s, a)
  BY <1>4, <1>5, <1>9, <1>12, <1>14 DEF EngListed
<1>. QED
  BY <1>1, <1>3, <1>13, <1>15, EngListedGood

\* A production of an English command keeps the invariant.
LEMMA EnglishProduction_Good ==
  ASSUME NEW L, NEW G, NEW cl, NEW vc, NEW ix, State(L, G, cl, vc, ix), EnglishProduction
  PROVE  Good(L, G)'
<1>1. ASSUME NEW kind, kind = "pointer" \/ kind = "array", derived_decl_english(kind)
      PROVE  Good(L, G)'
  <2>1. kind \in {"pointer", "array"}
    BY <1>1
  <2>. QED
    BY <1>1, <2>1, derived_decl_english_Good
<1>2. CASE type_english
  BY <1>2, type_english_Good
<1>3. CASE pointer_decl_english \/ array_decl_english
  BY <1>1, <1>3 DEF pointer_decl_english, array_decl_english
<1>4. CASE reference_english
  BY <1>4, reference_english_Good
<1>5. CASE reference_decl_english
  BY <1>5, reference_decl_english_Good
<1>6. CASE decl_list_english
  BY <1>6, decl_list_english_Good
<1>7. CASE returning_void_english
  BY <1>7, returning_void_english_Good
<1>8. CASE FuncDeclEnglish
  BY <1>8, FuncDeclEnglish_Good
<1>. QED
  BY <1>2, <1>3, <1>4, <1>5, <1>6, <1>7, <1>8 DEF EnglishProduction
=============================================================================
