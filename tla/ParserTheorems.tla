--------------------------- MODULE ParserTheorems ---------------------------
(***************************************************************************)
(* The invariant of Parser that ParserProofs shows every production to     *)
(* keep, kept by the other steps too, and what follows from it.            *)
(***************************************************************************)
EXTENDS ParserProofs

Exiting == phase \in {"exit", "exited"}

\* No node is listed twice among those off the list.
OwnLists ==
  \A m, n \in live \ On :
    IsInjective(h[m].args) /\ (m # n => ToSet(h[m].args) \cap ToSet(h[n].args) = {})

\* Some nodes are lost, the others are as the invariant says.
Going == \E L, G : Good(L, G)

-----------------------------------------------------------------------------
(* The end of a command.                                                   *)

\* With nothing on the stacks and the list, only the heap matters.
LEMMA EmptyNow ==
  ASSUME gc = <<>>, values = <<>>, typeStack = <<>>, NEW L, NEW G, Base(L, G), Control
  PROVE  Good(L, G)
<1>1. /\ On = {} /\ N = 0 /\ 1..N = {}
  BY DEF On, N, ToSet
<1>2. ValuesOK
  <2>1. PICK VS : VS = {}
    OBVIOUS
  <2>2. values \in Seq(VS)
    OBVIOUS
  <2>3. \A v \in VS : IsValue(v) /\ v.list \in Seq(Node)
    BY <2>1
  <2>4. \E V : values \in Seq(V) /\ \A v \in V : IsValue(v) /\ v.list \in Seq(Node)
    BY <2>2, <2>3
  <2>. QED
    BY <2>4 DEF ValuesOK
<1>3. Chained([n \in Node |-> 0])
  BY <1>1 DEF Chained
<1>4. Lists([n \in Node |-> 0], <<>>)
  BY <1>1 DEF Lists
<1>5. Eng([n \in Node |-> 0], <<>>)
  BY <1>1 DEF Eng
<1>6. Gib([n \in Node |-> 0], <<>>, <<>>)
  <2>1. Grammar /\ Levels([n \in Node |-> 0], <<>>) /\ Spine /\ Filled /\ Depths
    BY <1>1 DEF Grammar, Levels, Spine, Filled, Depths
  <2>2. Indexed(<<>>)
    <3>1. <<>> \in Seq(Nat) /\ <<>> \in Seq(Node) /\ Len(<<>>) = 0
      OBVIOUS
    <3>. QED
      BY <1>1, <3>1 DEF Indexed
  <2>3. Bottom
    BY <1>1 DEF Bottom
  <2>. QED
    BY <2>1, <2>2, <2>3 DEF Gib
<1>7. State(L, G, [n \in Node |-> 0], <<>>, <<>>)
  BY <1>2, <1>3, <1>4, <1>5, <1>6 DEF State
<1>. QED
  BY <1>7 DEF Good

\* So it is after a step that leaves them empty.
LEMMA EmptyStacks ==
  \A L, G : gc' = <<>> /\ values' = <<>> /\ typeStack' = <<>> /\ Base(L, G)' /\ Control'
              => Good(L, G)'
<1> DEFINE Empty == \A L, G : gc = <<>> /\ values = <<>> /\ typeStack = <<>>
                               /\ Base(L, G) /\ Control => Good(L, G)
<1>1. Empty
  BY EmptyNow
<1> HIDE DEF Empty
<1>2. Empty'
  BY <1>1, PTL
<1>. QED
  BY <1>2 DEF Empty

\* What Ended leaves to be shown.
Idle == phase' = "idle" /\ command' = NIL /\ subject' = NIL /\ ast_depth' = ast_depth

\* Collecting the list leaves the nodes off it as they are.
LEMMA CleanedUp ==
  ASSUME NEW L, NEW G, NEW cl, NEW vc, NEW ix, State(L, G, cl, vc, ix), ~Exiting,
         parse_cleanup, UNCHANGED typedefs, Idle
  PROVE  Good(L, G)'
<1>1. /\ gc' = <<>> /\ values' = <<>> /\ typeStack' = <<>> /\ typedefs' = typedefs
      /\ live' = live \ On /\ recursive' = recursive \ On /\ h' = Blank(h, On)
      /\ phase' = "idle"
  BY DEF parse_cleanup, c_ast_gc, On, Idle
<1>2. On' = {} /\ Owned(L)' = Owned(L) /\ Defined' = Defined
  BY <1>1 DEF On, ToSet, Owned, Defined, Undefined
<1>3. /\ On \subseteq Node /\ On \subseteq live /\ live \subseteq Node /\ Base(L, G)
      /\ L \subseteq live \ On /\ recursive \subseteq live \ On
      /\ h \in Heaps(Types, Names) /\ NIL \in Types /\ NIL \in Names /\ NIL \notin Node
  BY StateFacts, NilFacts DEF State, Base, HeapOK
<1>4. /\ NoAst \in Cells(Types, Names) /\ NoAst.of = NIL /\ NoAst.parent = NIL
      /\ NoAst.args = <<>> /\ NoAst.kind = "none" /\ NoAst.def = NIL /\ NoAst.type = NIL
  BY <1>3, CellsType DEF NoAst
<1>5. \A n \in Node : h'[n] = IF n \in On THEN NoAst ELSE h[n]
  BY <1>1 DEF Blank
<1>6. HeapOK(L)'
  <2>1. h' \in Heaps(Types, Names)
    BY <1>1, <1>3, <1>4 DEF Blank, Heaps
  <2>2. \A n \in Node \ live' : h'[n] = NoAst
    BY <1>1, <1>3, <1>5 DEF Base, HeapOK
  <2>3. \A n \in live' : h'[n].kind \in Kind
    BY <1>1, <1>3, <1>5 DEF Base, HeapOK
  <2>4. \A n \in Node : /\ h'[n].kind = "typedef" => h'[n].def \in Name
                        /\ h'[n].args # <<>> => h'[n].kind = "function"
                        /\ h'[n].of # NIL => h'[n].kind \in ParentKind
                        /\ h'[n].def # NIL => h'[n].kind = "typedef"
                        /\ h'[n].kind = "typedef" => h'[n].type = NIL
    BY <1>3, <1>4, <1>5 DEF Base, HeapOK
  <2>5. gc' \in Seq(Node) /\ IsInjective(gc')
    BY <1>1 DEF IsInjective
  <2>. QED
    BY <1>1, <1>2, <1>3, <2>1, <2>2, <2>3, <2>4, <2>5 DEF HeapOK, Base
<1>7. LinksOK(L)'
  BY <1>2, <1>3, <1>5 DEF Base, LinksOK, Owned
<1>8. TableOK(L)'
  <2>1. Edges(h', typedefs, {}, L) \cap (Node \X Node) \subseteq Edges(h, typedefs, On, L)
    BY <1>3, <1>4, <1>5 DEF Edges, ToSet
  <2>2. WellFounded(Node, Edges(h, typedefs, On, L))
    BY <1>3 DEF Base, TableOK
  <2>3. WellFounded(Node, Edges(h', typedefs, {}, L))
    BY <2>1, <2>2, Smaller
  <2>4. \A n \in live' : h'[n].kind = "typedef" => h'[n].def \in Defined
    BY <1>1, <1>3, <1>5 DEF Base, TableOK, Exiting
  <2>. QED
    BY <1>1, <1>2, <1>3, <2>3, <2>4 DEF Base, TableOK
<1>9. Kept(G)'
  BY <1>1, <1>2, <1>3, <1>5 DEF Base, Kept
<1>10. Control'
  BY <1>1, <1>2 DEF Idle, Control, State, Names
<1>. QED
  BY <1>1, <1>6, <1>7, <1>8, <1>9, <1>10, EmptyStacks DEF Base

\* A failed assertion.
Aborts ==
  /\ phase = "parse" /\ phase' = "aborted"
  /\ UNCHANGED <<command, subject, ast, typedefs, in_attr, ast_depth>>

\* Only the phase moves, if anything.
Halts ==
  /\ phase' = phase \/ (phase = "parse" /\ phase' = "aborted")
  /\ UNCHANGED <<command, subject, ast, typedefs, in_attr, ast_depth>>

\* Such a step keeps the invariant.
LEMMA Halted ==
  ASSUME NEW L, NEW G, NEW cl, NEW vc, NEW ix, State(L, G, cl, vc, ix), Halts
  PROVE  Good(L, G)'
<1>1. /\ phase' = phase \/ (phase = "parse" /\ phase' = "aborted")
      /\ command' = command /\ subject' = subject
      /\ h' = h /\ live' = live /\ gc' = gc /\ recursive' = recursive /\ count' = count
      /\ typedefs' = typedefs /\ values' = values /\ typeStack' = typeStack
      /\ ast_depth' = ast_depth
  BY DEF Halts, ast, in_attr
<1>2. On' = On /\ N' = N /\ Owned(L)' = Owned(L) /\ Defined' = Defined /\ Undefined' = Undefined
  BY <1>1 DEF On, N, Owned, Defined, Undefined
<1>3. HeapOK(L)' /\ LinksOK(L)' /\ Kept(G)'
  BY <1>1, <1>2 DEF State, Base, HeapOK, LinksOK, Kept
<1>4. TableOK(L)'
  BY <1>1, <1>2 DEF State, Base, TableOK
<1>5. ValuesOK' /\ Control'
  BY <1>1, <1>2 DEF State, ValuesOK, Control
<1>6. Chained(cl)' /\ Lists(cl, vc)'
  BY <1>1, <1>2 DEF State, Chained, Lists
<1>7. Eng(cl, vc)' <=> Eng(cl, vc)
  BY <1>1, <1>2 DEF Eng
<1>8. /\ Grammar' <=> Grammar
      /\ Levels(cl, vc)' <=> Levels(cl, vc)
      /\ Indexed(ix)' <=> Indexed(ix)
      /\ Spine' <=> Spine
      /\ Filled' <=> Filled
      /\ Depths' <=> Depths
      /\ Bottom' <=> Bottom
  BY <1>1, <1>2 DEF Grammar, Levels, Indexed, Spine, Filled, Depths, Bottom, Stacked, Depth, CastFirst
<1>9. Gib(cl, vc, ix)' <=> Gib(cl, vc, ix)
  BY <1>8 DEF Gib
<1>10. State(L, G, cl, vc, ix)'
  BY <1>1, <1>3, <1>4, <1>5, <1>6, <1>7, <1>9 DEF State, Base
<1>. QED
  BY <1>10 DEF Good

\* So does a failed assertion.
LEMMA Aborted ==
  ASSUME NEW L, NEW G, NEW cl, NEW vc, NEW ix, State(L, G, cl, vc, ix), Aborts
  PROVE  Good(L, G)'
  BY Halted DEF Aborts, Halts

\* A step between commands that leaves the heap and the table as they are.
Begins ==
  /\ phase = "idle" /\ phase' \in {"idle", "parse"}
  /\ command' \in Commands \cup {NIL} /\ subject' \in Names
  /\ phase' = "idle" => command' = NIL
  /\ UNCHANGED <<ast, typedefs, in_attr, ast_depth>>

\* The stacks are empty before a command.
LEMMA Begun ==
  ASSUME NEW L, NEW G, NEW cl, NEW vc, NEW ix, State(L, G, cl, vc, ix), Begins
  PROVE  Good(L, G)'
<1>1. /\ phase = "idle" /\ phase' \in {"idle", "parse"}
      /\ h' = h /\ live' = live /\ gc' = gc /\ recursive' = recursive /\ count' = count
      /\ typedefs' = typedefs /\ values' = values /\ typeStack' = typeStack
      /\ ast_depth' = ast_depth
  BY DEF Begins, ast, in_attr
<1>2. On' = On /\ Owned(L)' = Owned(L) /\ Defined' = Defined /\ Undefined' = Undefined
  BY <1>1 DEF On, Owned, Defined, Undefined
<1>3. HeapOK(L)' /\ LinksOK(L)' /\ Kept(G)'
  BY <1>1, <1>2 DEF State, Base, HeapOK, LinksOK, Kept
<1>4. TableOK(L)'
  BY <1>1, <1>2 DEF State, Base, TableOK
<1>5. gc' = <<>> /\ values' = <<>> /\ typeStack' = <<>> /\ Control'
  BY <1>1, <1>2 DEF State, Control, Begins
<1>. QED
  BY <1>3, <1>4, <1>5, EmptyStacks DEF Base

-----------------------------------------------------------------------------
(* Lists.                                                                  *)

\* Nodes of different classes are different.
LEMMA DistinctInjective ==
  ASSUME NEW cl, NEW s, Distinct(cl, s)
  PROVE  IsInjective(s)
  BY DEF Distinct, IsInjective

\* Lists of different classes have no node in common.
LEMMA ClassesApart ==
  ASSUME NEW cl, NEW s, NEW t, Classes(cl, s) \cap Classes(cl, t) = {}
  PROVE  ToSet(s) \cap ToSet(t) = {}
  BY DEF Classes, ToSet

\* No node is listed twice as an argument.
LEMMA ArgsApart ==
  ASSUME NEW L, NEW G, NEW cl, NEW vc, NEW ix, State(L, G, cl, vc, ix), OwnLists
  PROVE  \A m, n \in live :
           IsInjective(h[m].args) /\ (m # n => ToSet(h[m].args) \cap ToSet(h[n].args) = {})
<1>1. \A n \in On : ToSet(h[n].args) \subseteq On /\ IsInjective(h[n].args)
  BY DistinctInjective DEF State, Base, LinksOK, Lists
<1>2. \A n \in live \ On : ToSet(h[n].args) \subseteq live \ On
  BY DEF State, Base, LinksOK, HeapOK, Owned
<1>3. \A m, n \in On : m # n => ToSet(h[m].args) \cap ToSet(h[n].args) = {}
  BY ClassesApart DEF State, Lists
<1>. QED
  BY <1>1, <1>2, <1>3 DEF OwnLists

\* The lists of values hold nodes on the list of nodes.
LEMMA ValueLists ==
  ASSUME NEW L, NEW G, NEW cl, NEW vc, NEW ix, State(L, G, cl, vc, ix)
  PROVE  /\ \A p \in 1..N : IsInjective(values[p].list) /\ ToSet(values[p].list) \subseteq On
         /\ \A p, q \in 1..N : p # q => ToSet(values[p].list) \cap ToSet(values[q].list) = {}
         /\ \A n \in live, p \in 1..N : ToSet(h[n].args) \cap ToSet(values[p].list) = {}
<1>1. \A p \in 1..N : IsInjective(values[p].list) /\ ToSet(values[p].list) \subseteq On
  BY DistinctInjective DEF State, Lists
<1>2. \A p, q \in 1..N : p # q => ToSet(values[p].list) \cap ToSet(values[q].list) = {}
  BY ClassesApart DEF State, Lists
<1>3. \A n \in On, p \in 1..N : ToSet(h[n].args) \cap ToSet(values[p].list) = {}
  BY ClassesApart DEF State, Lists
<1>4. \A n \in live \ On : ToSet(h[n].args) \subseteq live \ On
  BY DEF State, Base, LinksOK, HeapOK, Owned
<1>. QED
  BY <1>1, <1>2, <1>3, <1>4

\* The types of the type stack are the asts of values, which are not listed.
LEMMA StackApart ==
  ASSUME NEW L, NEW G, NEW cl, NEW vc, NEW ix, State(L, G, cl, vc, ix),
         typeStack = <<>> \/ command \in Gibberish
  PROVE  /\ IsInjective(typeStack) /\ ToSet(typeStack) \subseteq On
         /\ \A n \in live : ToSet(h[n].args) \cap ToSet(typeStack) = {}
         /\ \A p \in 1..N : ToSet(values[p].list) \cap ToSet(typeStack) = {}
<1>1. CASE typeStack = <<>>
  BY <1>1 DEF IsInjective, ToSet
<1>2. CASE command \in Gibberish
  <2>1. Gib(cl, vc, ix)
    BY <1>2 DEF State
  <2>2. /\ DOMAIN typeStack = 1..Len(ix) /\ typeStack \in Seq(Node) /\ Len(ix) \in Nat
        /\ \A k \in 1..Len(ix) : ix[k] \in 1..N /\ Stacked(ix[k]) /\ typeStack[k] = values[ix[k]].ast
        /\ \A k, l \in 1..Len(ix) : k < l => ix[k] > ix[l]
    BY <2>1 DEF Gib, Indexed
  <2>3. \A k \in 1..Len(ix) : typeStack[k] \in On /\ cl[typeStack[k]] = vc[ix[k]]
    BY <2>1, <2>2 DEF Gib, Levels
  <2>4. \A n \in ToSet(typeStack) : n \in On /\ \E i \in 1..N : cl[n] = vc[i]
    BY <2>2, <2>3 DEF ToSet
  <2>5. ASSUME NEW s, \A i \in 1..N : vc[i] \notin Classes(cl, s)
        PROVE  ToSet(s) \cap ToSet(typeStack) = {}
    BY <2>4, <2>5 DEF ToSet, Classes
  <2>6. \A n \in On : ToSet(h[n].args) \cap ToSet(typeStack) = {}
    BY <2>5 DEF State, Lists
  <2>7. \A p \in 1..N : ToSet(values[p].list) \cap ToSet(typeStack) = {}
    BY <2>5 DEF State, Lists
  <2>8. \A n \in live \ On : ToSet(h[n].args) \cap ToSet(typeStack) = {}
    <3>1. \A n \in live \ On : ToSet(h[n].args) \subseteq live \ On
      BY DEF State, Base, LinksOK, HeapOK, Owned
    <3>. QED
      BY <2>4, <3>1
  <2>9. IsInjective(typeStack)
    <3>1. ASSUME NEW k \in 1..Len(ix), NEW l \in 1..Len(ix), typeStack[k] = typeStack[l]
          PROVE  k = l
      <4>1. ix[k] = ix[l]
        BY <2>1, <2>2, <3>1 DEF Gib, Spine
      <4>2. ix[k] \in Int /\ ~(ix[k] > ix[k])
        BY <2>2
      <4>. QED
        BY <2>2, <4>1, <4>2
    <3>. QED
      BY <2>2, <3>1 DEF IsInjective
  <2>. QED
    BY <2>4, <2>6, <2>7, <2>8, <2>9
<1>. QED
  BY <1>1, <1>2

\* The invariant of a running session implies OneList.
LEMMA GoingOneList ==
  ASSUME NEW L, NEW G, NEW cl, NEW vc, NEW ix, State(L, G, cl, vc, ix), OwnLists,
         phase \in {"parse", "aborted"} => command \in Commands, ~Exiting
  PROVE  OneList
<1>1. DOMAIN values = 1..N /\ N \in Nat
  BY DEF State, ValuesOK, N
<1>2. typeStack = <<>> \/ command \in Gibberish
  BY ParserAssumption DEF State, Control, Eng, AllCommands, Exiting
<1>. QED
  BY <1>1, <1>2, ArgsApart, ValueLists, StackApart DEF OneList, Places, ListAt

-----------------------------------------------------------------------------
(* A new type name.                                                        *)

\* t has nothing below it.
Leaf(t) == t \in On /\ h[t].kind \notin ParentKind

\* The AST of a typedef differs from what was parsed in names, and maybe in that
\* t is put below a node.
Retyped(t) ==
  /\ h' \in Heaps(Types, Names)
  /\ \A n \in Node \ On : h'[n] = h[n]
  /\ \A n \in On : /\ h'[n].kind = h[n].kind /\ h'[n].def = h[n].def /\ h'[n].args = h[n].args
                   /\ h'[n].type = h[n].type
                   /\ \/ h'[n].of = h[n].of
                      \/ h'[n].of = t /\ Leaf(t) /\ h[n].kind \in ParentKind

\* It closes no cycle.
LEMMA RetypedFounded ==
  ASSUME NEW L, NEW G, Base(L, G), ~Exiting, NEW t, Retyped(t), NEW name \in Undefined,
         NEW root, typedefs' = [typedefs EXCEPT ![name] = root]
  PROVE  WellFounded(Node, Edges(h', typedefs', {}, L))
<1> DEFINE E == Edges(h, typedefs, On, L)
           E2 == Edges(h', typedefs', {}, L)
<1>1. /\ On \subseteq Node /\ On \subseteq live /\ live \subseteq Node /\ NIL \notin Node
      /\ typedefs \in [Name -> Address] /\ L \subseteq live \ On /\ Owned(L) = live \ (On \cup L)
      /\ \A n \in Node \ live : h[n] = NoAst
      /\ \A n \in live : h[n].kind = "typedef" => h[n].def \in Defined
      /\ \A n \in Node : h[n].args # <<>> => h[n].kind = "function"
      /\ \A n \in Node : h[n].of # NIL => h[n].kind \in ParentKind
      /\ \A n \in Owned(L) : /\ h[n].of \in Owned(L) \cup {NIL}
                             /\ ToSet(h[n].args) \subseteq Owned(L)
      /\ \A s \in Defined : typedefs[s] \in Owned(L)
      /\ WellFounded(Node, E)
  BY NilFacts DEF Base, HeapOK, LinksOK, TableOK, Owned, Exiting
<1>2. \A s \in Defined : typedefs'[s] = typedefs[s]
  <2>1. \A s \in Defined : s \in Name /\ s # name
    BY DEF Defined, Undefined
  <2>. QED
    BY <1>1, <2>1
<1>3. \A n \in Node : /\ h'[n].kind = h[n].kind /\ h'[n].def = h[n].def /\ h'[n].args = h[n].args
                      /\ \/ h'[n].of = h[n].of
                         \/ n \in On /\ h'[n].of = t /\ Leaf(t) /\ h[n].kind \in ParentKind
  BY <1>1 DEF Retyped
<1>4. \A n \in Node : h[n].kind = "typedef" => h[n].def \in Defined
  BY <1>1, Kinds DEF NoAst
<1>5. ASSUME NEW x, NEW y, <<x, y>> \in E2, ~(x \in On /\ y = t /\ Leaf(t) /\ h[x].kind \in ParentKind)
      PROVE  <<x, y>> \in E
  <2>1. /\ x \in Node /\ y \in Node /\ (x \in L => y \in L)
        /\ \/ y = h'[x].of
           \/ y \in ToSet(h'[x].args)
           \/ h'[x].kind = "typedef" /\ y = typedefs'[h'[x].def]
    BY <1>5 DEF Edges
  <2>2. \/ y = h[x].of
        \/ y \in ToSet(h[x].args)
        \/ h[x].kind = "typedef" /\ y = typedefs[h[x].def]
    BY <1>2, <1>3, <1>4, <1>5, <2>1
  <2>. QED
    BY <2>1, <2>2 DEF Edges
<1>6. CASE ~Leaf(t)
  <2>1. \A x, y : <<x, y>> \in E2 => <<x, y>> \in E
    BY <1>5, <1>6
  <2> HIDE DEF E, E2
  <2>2. E2 \cap (Node \X Node) \subseteq E
    BY <2>1
  <2>. QED
    BY <1>1, <2>2, Smaller DEF E2
<1>7. CASE Leaf(t)
  <2> DEFINE C == Owned(L) \cup {t}
  <2>1. t \in On /\ h[t].of = NIL /\ h[t].kind \notin ParentKind /\ ToSet(h[t].args) = {}
    BY <1>1, <1>7, Kinds DEF Leaf, ToSet
  <2>2. ASSUME NEW x \in C, NEW y, <<x, y>> \in E2
        PROVE  <<x, y>> \in E /\ y \in Owned(L)
    <3>1. <<x, y>> \in E
      BY <1>1, <1>5, <2>1, <2>2
    <3>2. /\ y \in Node /\ (x \in L => y \in L)
          /\ \/ y = h'[x].of
             \/ y \in ToSet(h'[x].args)
             \/ h'[x].kind = "typedef" /\ y = typedefs'[h'[x].def]
      BY <2>2 DEF Edges
    <3>3. /\ x \in Node /\ h'[x].of = h[x].of /\ h'[x].args = h[x].args /\ h'[x].kind = h[x].kind
          /\ h'[x].def = h[x].def
      BY <1>1, <1>3, <2>1
    <3>4. h[x].kind = "typedef" => h[x].def \in Defined /\ typedefs'[h[x].def] \in Owned(L)
      BY <1>1, <1>2, <1>4, <3>3
    <3>5. \/ y = h[x].of
          \/ y \in ToSet(h[x].args)
          \/ y \in Owned(L)
      BY <3>2, <3>3, <3>4
    <3>6. CASE x \in Owned(L)
      BY <1>1, <3>1, <3>2, <3>5, <3>6
    <3>7. CASE x = t
      BY <1>1, <3>1, <2>1, <3>2, <3>5, <3>7
    <3>. QED
      BY <3>1, <3>6, <3>7
  <2>3. \A x \in Node \cap C, y \in Node \ C : <<x, y>> \notin E2
    BY <2>2
  <2>4. \A x, y \in Node \cap C : <<x, y>> \in E2 => <<x, y>> \in E
    BY <2>2
  <2>5. WellFounded(Node \ C, E2)
    <3>1. \A x, y \in Node \ C : <<x, y>> \in E2 => <<x, y>> \in E
      BY <1>5
    <3> HIDE DEF E, E2, C
    <3>2. E2 \cap ((Node \ C) \X (Node \ C)) \subseteq E
      BY <3>1
    <3>3. WellFounded(Node \ C, E)
      BY <1>1, WellFoundedPart
    <3>. QED
      BY <3>2, <3>3, Smaller
  <2> HIDE DEF E, E2, C
  <2>6. WellFounded(Node, E2)
    BY <1>1, <2>3, <2>4, <2>5, Split
  <2>. QED
    BY <2>6 DEF E2
<1>. QED
  BY <1>6, <1>7

\* Everything on the list belongs to the new entry.
LEMMA TypedefAdded ==
  ASSUME NEW L, NEW G, NEW cl, NEW vc, NEW ix, State(L, G, cl, vc, ix), ~Exiting,
         NEW t, Retyped(t), NEW name \in Undefined, NEW root \in On, AddTypedef(name, root), Idle
  PROVE  \E G2 : Good(L, G2)'
<1>1. /\ gc' = <<>> /\ values' = <<>> /\ typeStack' = <<>> /\ live' = live
      /\ typedefs' = [typedefs EXCEPT ![name] = root]
      /\ recursive' \subseteq recursive \cup (IF gc = <<>> THEN {} ELSE {gc[1]})
      /\ phase' = "idle"
  BY DEF AddTypedef, Released, Idle
<1>2. /\ On \subseteq Node /\ On \subseteq live /\ live \subseteq Node /\ Base(L, G)
      /\ L \subseteq live \ On /\ recursive \subseteq live \ On /\ gc \in Seq(Node)
      /\ typedefs \in [Name -> Address] /\ name \in Name /\ NIL \notin Node
  BY StateFacts, NilFacts DEF State, Base, HeapOK, Undefined
<1>3. On' = {} /\ Owned(L)' = Owned(L) \cup On /\ Owned(L) \cap On = {}
  BY <1>1, <1>2 DEF On, ToSet, Owned
<1>4. /\ Defined' = Defined \cup {name} /\ name \notin Defined /\ Defined \subseteq Name
      /\ typedefs'[name] = root /\ \A s \in Defined : typedefs'[s] = typedefs[s]
  BY <1>1, <1>2 DEF Defined, Undefined
<1>5. \A n \in Node : /\ h'[n].kind = h[n].kind /\ h'[n].def = h[n].def /\ h'[n].args = h[n].args
                      /\ h'[n].type = h[n].type
                      /\ \/ h'[n].of = h[n].of
                         \/ n \in On /\ h'[n].of = t /\ t \in On /\ h[n].kind \in ParentKind
  BY <1>2 DEF Retyped, Leaf
<1>6. HeapOK(L)'
  <2>1. \A n \in Node \ live' : h'[n] = NoAst
    BY <1>1, <1>2 DEF Retyped, Base, HeapOK
  <2>2. \A n \in live' : h'[n].kind \in Kind
    BY <1>1, <1>2, <1>5 DEF Base, HeapOK
  <2>3. \A n \in Node : /\ h'[n].kind = "typedef" => h'[n].def \in Name
                        /\ h'[n].args # <<>> => h'[n].kind = "function"
                        /\ h'[n].of # NIL => h'[n].kind \in ParentKind
                        /\ h'[n].def # NIL => h'[n].kind = "typedef"
                        /\ h'[n].kind = "typedef" => h'[n].type = NIL
    BY <1>2, <1>5 DEF Base, HeapOK
  <2>4. gc' \in Seq(Node) /\ IsInjective(gc')
    BY <1>1 DEF IsInjective
  <2>5. typedefs' \in [Name -> Address]
    BY <1>1, <1>2 DEF Address
  <2>6. recursive' \subseteq live
    <3>1. gc # <<>> => gc[1] \in On
      BY <1>2 DEF On, ToSet
    <3>. QED
      BY <1>1, <1>2, <3>1
  <2>. QED
    BY <1>1, <1>2, <1>3, <2>1, <2>2, <2>3, <2>4, <2>5, <2>6 DEF HeapOK, Retyped
<1>7. LinksOK(L)'
  <2>1. \A n \in On : h[n].of \in On \cup {NIL} /\ ToSet(h[n].args) \subseteq On
    BY <1>2 DEF Base, LinksOK
  <2>2. \A n \in Owned(L) : h[n].of \in Owned(L) \cup {NIL} /\ ToSet(h[n].args) \subseteq Owned(L)
    BY <1>2 DEF Base, LinksOK
  <2>3. \A n \in L : ToSet(h'[n].args) \subseteq L
    BY <1>2, <1>5 DEF Base, LinksOK
  <2>4. \A n \in Owned(L)' : /\ h'[n].of \in Owned(L)' \cup {NIL}
                             /\ ToSet(h'[n].args) \subseteq Owned(L)'
    <3>1. SUFFICES ASSUME NEW n \in Owned(L) \cup On
                   PROVE  /\ h'[n].of \in Owned(L) \cup On \cup {NIL}
                          /\ ToSet(h'[n].args) \subseteq Owned(L) \cup On
      BY <1>3
    <3>2. n \in Node
      BY <1>2, <3>1 DEF Owned
    <3>. QED
      BY <1>5, <2>1, <2>2, <3>1, <3>2
  <2>. QED
    BY <1>3, <2>3, <2>4 DEF LinksOK
<1>8. TableOK(L)'
  <2>1. WellFounded(Node, Edges(h', typedefs', {}, L))
    BY <1>1, <1>2, RetypedFounded
  <2>2. \A n \in live' : h'[n].kind = "typedef" => h'[n].def \in Defined'
    BY <1>1, <1>2, <1>4, <1>5 DEF Base, TableOK, Exiting
  <2>3. \A s \in Defined : typedefs[s] \in Owned(L)
    BY <1>2 DEF Base, TableOK
  <2>4. \A s, u \in Defined : s # u => typedefs[s] # typedefs[u]
    BY <1>2 DEF Base, TableOK
  <2>5. \A s \in Defined' : typedefs'[s] \in Owned(L)'
    BY <1>3, <1>4, <2>3
  <2>6. \A s, u \in Defined' : s # u => typedefs'[s] # typedefs'[u]
    BY <1>3, <1>4, <2>3, <2>4
  <2>. QED
    BY <1>3, <2>1, <2>2, <2>5, <2>6 DEF TableOK
<1>9. PICK G2 : G2 = [n \in live' |-> h'[n]]
  OBVIOUS
<1>10. Kept(G2)'
  BY <1>3, <1>9 DEF Kept
<1>11. Control'
  BY <1>1, <1>3 DEF Idle, Control, State, Names
<1>12. Good(L, G2)'
  BY <1>1, <1>6, <1>7, <1>8, <1>10, <1>11, EmptyStacks DEF Base
<1>. QED
  BY <1>12

-----------------------------------------------------------------------------
(* An existing type name.                                                  *)

\* The nodes that are not lost are linked among themselves, and no chain of links
\* and definitions of type names among them comes back.
Acyclic(L) ==
  /\ h \in Heaps(Types, Names) /\ typedefs \in [Name -> Address] /\ L \subseteq Node
  /\ \A n \in Node \ L : /\ h[n].of \in (Node \ L) \cup {NIL}
                         /\ ToSet(h[n].args) \subseteq Node \ L
  /\ \A t \in Defined : typedefs[t] \in Node \ L
  /\ \A n \in Node : /\ h[n].kind = "typedef" => h[n].def \in Name
                     /\ h[n].def # NIL => h[n].kind = "typedef"
  /\ WellFounded(Node, Edges(h, typedefs, {}, L))

\* The invariant allows no cycle.
LEMMA BaseAcyclic ==
  ASSUME NEW L, NEW G, Base(L, G)
  PROVE  Acyclic(L)
<1>1. /\ h \in Heaps(Types, Names) /\ L \subseteq Node /\ typedefs \in [Name -> Address]
      /\ \A n \in Node \ live : h[n] = NoAst
      /\ L \cap On = {} /\ live \subseteq Node /\ On \subseteq Node
      /\ \A n \in Node : /\ h[n].kind = "typedef" => h[n].def \in Name
                         /\ h[n].def # NIL => h[n].kind = "typedef"
      /\ \A n \in On : h[n].of \in On \cup {NIL} /\ ToSet(h[n].args) \subseteq On
      /\ \A n \in Owned(L) : h[n].of \in Owned(L) \cup {NIL} /\ ToSet(h[n].args) \subseteq Owned(L)
      /\ WellFounded(Node, Edges(h, typedefs, On, L))
      /\ \A t \in Defined : typedefs[t] \in Owned(L)
  BY DEF Base, HeapOK, LinksOK, TableOK
<1>2. On \cap L = {} /\ Owned(L) \cap L = {} /\ On \subseteq Node /\ Owned(L) \subseteq Node
  BY <1>1 DEF Owned
<1>3. \A x \in Node \ L : h[x].of \in (Node \ L) \cup {NIL} /\ ToSet(h[x].args) \subseteq Node \ L
  <2>1. \A x \in Node \ L : x \in On \/ x \in Owned(L) \/ x \in Node \ live
    BY DEF Owned
  <2>2. \A x \in Node \ live : h[x].of = NIL /\ ToSet(h[x].args) = {}
    BY <1>1 DEF NoAst, ToSet
  <2>. QED
    BY <1>1, <1>2, <2>1, <2>2
<1>4. Edges(h, typedefs, {}, L) \cap (Node \X Node) \subseteq Edges(h, typedefs, On, L)
  BY DEF Edges
<1>5. WellFounded(Node, Edges(h, typedefs, {}, L))
  BY <1>1, <1>4, Smaller
<1>. QED
  BY <1>1, <1>2, <1>3, <1>5 DEF Acyclic

\* Relations that lead from what is not lost to what is not lost.
LEMMA FoundedBeyond ==
  ASSUME NEW L, Acyclic(L), NEW E2,
         \A x \in Node \ L, y \in L : <<x, y>> \notin E2,
         \A x, y \in Node \ L : <<x, y>> \in E2 => <<x, y>> \in Edges(h, typedefs, {}, L),
         \A x, y \in L : <<x, y>> \in E2 => <<x, y>> \in Edges(h, typedefs, {}, L)
  PROVE  WellFounded(Node, E2)
<1>1. PICK E : E = Edges(h, typedefs, {}, L)
  OBVIOUS
<1>2. WellFounded(Node, E) /\ L \subseteq Node
  BY <1>1 DEF Acyclic
<1>3. PICK C : C = Node \ L
  OBVIOUS
<1>4. Node \ C = L /\ Node \cap C = C
  BY <1>2, <1>3
<1>5. WellFounded(L, E2)
  <2>1. WellFounded(L, E)
    BY <1>2 DEF WellFounded
  <2>2. E2 \cap (L \X L) \subseteq E
    BY <1>1
  <2>. QED
    BY <2>1, <2>2, Smaller
<1>6. /\ \A x \in Node \cap C, y \in Node \ C : <<x, y>> \notin E2
      /\ \A x, y \in Node \cap C : <<x, y>> \in E2 => <<x, y>> \in E
  BY <1>1, <1>3, <1>4
<1>7. WellFounded(Node \ C, E2)
  BY <1>4, <1>5
<1>. QED
  BY <1>2, <1>6, <1>7, Split

\* The links and definitions that lead on from a node.
LinkEdges ==
  TreeEdges(h)
    \cup {e \in Node \X Node : h[e[1]].kind = "typedef" /\ e[2] = typedefs[h[e[1]].def]}

\* Recursions that follow them end.
LEMMA LinksFounded ==
  ASSUME NEW L, Acyclic(L), \A n \in Node : h[n].kind = "typedef" => h[n].def \in Defined
  PROVE  WellFounded(Node, LinkEdges)
<1>1. PICK E2 : E2 = LinkEdges
  OBVIOUS
<1>2. \A x \in Node \ L, y \in L : <<x, y>> \notin E2
  BY <1>1, NilFacts DEF Acyclic, LinkEdges, TreeEdges
<1>3. \A x, y \in Node \ L : <<x, y>> \in E2 => <<x, y>> \in Edges(h, typedefs, {}, L)
  BY <1>1 DEF LinkEdges, TreeEdges, Edges
<1>4. \A x, y \in L : <<x, y>> \in E2 => <<x, y>> \in Edges(h, typedefs, {}, L)
  BY <1>1 DEF LinkEdges, TreeEdges, Edges
<1>. QED
  BY <1>1, <1>2, <1>3, <1>4, FoundedBeyond

\* So do recursions over ASTs.
LEMMA TreeFounded ==
  ASSUME NEW L, Acyclic(L)
  PROVE  WellFounded(Node, TreeEdges(h))
<1>1. PICK E2 : E2 = TreeEdges(h)
  OBVIOUS
<1>2. \A x \in Node \ L, y \in L : <<x, y>> \notin E2
  BY <1>1, NilFacts DEF Acyclic, TreeEdges
<1>3. \A x, y \in Node \ L : <<x, y>> \in E2 => <<x, y>> \in Edges(h, typedefs, {}, L)
  BY <1>1 DEF TreeEdges, Edges
<1>4. \A x, y \in L : <<x, y>> \in E2 => <<x, y>> \in Edges(h, typedefs, {}, L)
  BY <1>1 DEF TreeEdges, Edges
<1>. QED
  BY <1>1, <1>2, <1>3, <1>4, FoundedBeyond

\* The type and the declarator of a gibberish command, when it ends.
LEMMA EndValues ==
  ASSUME NEW L, NEW G, NEW cl, NEW vc, NEW ix, State(L, G, cl, vc, ix), EndGibberish
  PROVE  /\ phase = "parse" /\ command \in Gibberish /\ N = 2
         /\ Below = values[1] /\ Top = values[2]
         /\ values[1].ast \in On /\ h[values[1].ast].kind \in {"builtin", "typedef"}
         /\ h[values[1].ast].args = <<>>
         /\ values[2].ast \in On \cup {NIL} /\ values[2].tag \in Declarator
         /\ values[1].tag = "type"
         /\ \A n \in On : /\ values[1].ast \notin ToSet(h[n].args)
                          /\ values[2].ast \notin ToSet(h[n].args)
<1>1. /\ phase = "parse" /\ command \in Gibberish /\ N = 2 /\ Below = values[1] /\ Top = values[2]
      /\ values[1].tag = "type" /\ values[2].tag \in Declarator
  BY DEF EndGibberish, ParsingGibberish, TopTwo, N, Below, Top
<1>2. Gib(cl, vc, ix) /\ 1 \in 1..N /\ 2 \in 1..N
  BY <1>1 DEF State
<1>3. values[1].ast \in On /\ cl[values[1].ast] = vc[1]
  BY <1>1, <1>2, Tags DEF Gib, Levels, Stacked
<1>4. values[2].ast # NIL => values[2].ast \in On /\ cl[values[2].ast] = vc[2]
  BY <1>2 DEF Gib, Levels
<1>5. h[values[1].ast].kind \in {"builtin", "typedef"}
  BY <1>1, <1>2 DEF Gib, Spine
<1>6. h[values[1].ast].args = <<>>
  <2>1. values[1].ast \in Node
    BY <1>3, StateFacts
  <2>2. "function" \notin {"builtin", "typedef"}
    OBVIOUS
  <2>. QED
    BY <1>5, <2>1, <2>2 DEF State, Base, HeapOK
<1>7. ASSUME NEW n \in On
      PROVE  values[1].ast \notin ToSet(h[n].args) /\ values[2].ast \notin ToSet(h[n].args)
  <2>1. vc[1] \notin Classes(cl, h[n].args) /\ vc[2] \notin Classes(cl, h[n].args)
    BY <1>2 DEF State, Lists
  <2>2. ToSet(h[n].args) \subseteq On /\ NIL \notin On
    BY StateFacts
  <2>3. \A a \in ToSet(h[n].args) : cl[a] \in Classes(cl, h[n].args)
    BY DEF ToSet, Classes
  <2>. QED
    BY <1>3, <1>4, <2>1, <2>2, <2>3
<1>. QED
  BY <1>1, <1>3, <1>4, <1>5, <1>6, <1>7

\* The type and the name of such a command have nothing below them.
LEMMA DuplicateFreed ==
  ASSUME NEW L, NEW G, NEW cl, NEW vc, NEW ix, State(L, G, cl, vc, ix), EndGibberish,
         NEW type, type = Below.ast, NEW decl, decl = Top.ast, decl # NIL,
         h[type].kind # "typedef", h[decl].kind = "typedef"
  PROVE  /\ type \in On /\ decl \in On /\ type # decl
         /\ c_ast_free(h, recursive, type) \o c_ast_free(h, recursive \cup {gc[1]}, decl)
              = <<type>> \o <<decl>>
<1>1. /\ type \in On /\ decl \in On /\ type # decl
      /\ h[type].kind = "builtin" /\ h[type].args = <<>>
  BY EndValues
<1>2. On \subseteq Node /\ h \in Heaps(Types, Names) /\ NIL \notin Node
  BY StateFacts
<1>3. /\ h[decl].kind \notin ParentKind /\ h[type].kind \notin ParentKind
      /\ h[decl].args = <<>> /\ h[decl].of = NIL /\ h[type].of = NIL
  BY <1>1, <1>2, Kinds DEF State, Base, HeapOK
<1>4. WellFounded(Node, TreeEdges(h)) /\ type \in Node /\ decl \in Node
  BY <1>1, <1>2, BaseAcyclic, TreeFounded DEF State
<1>5. c_ast_free(h, recursive, type) = <<type>>
  BY <1>1, <1>2, <1>3, <1>4, FreeOne DEF c_ast_is_parent
<1>6. c_ast_free(h, recursive \cup {gc[1]}, decl) = <<decl>>
  BY <1>1, <1>2, <1>3, <1>4, FreeOne DEF c_ast_is_parent
<1>. QED
  BY <1>1, <1>5, <1>6

\* The type and the name that are freed were all there was, or the rest is lost.
LEMMA DuplicateDropped ==
  ASSUME NEW L, NEW G, NEW cl, NEW vc, NEW ix, State(L, G, cl, vc, ix), EndGibberish,
         NEW type, type = Below.ast, NEW decl, decl = Top.ast, decl # NIL,
         h[type].kind # "typedef", h[decl].kind = "typedef",
         DropDuplicate(h, type, decl), Idle
  PROVE  \E L2, G2 : Good(L2, G2)' /\ live' \subseteq live /\ \A n \in live' : h'[n] = h[n]
<1>1. /\ phase = "parse" /\ type \in On /\ decl \in On /\ type # decl
      /\ h[type].kind = "builtin" /\ h[type].args = <<>>
      /\ \A n \in On : type \notin ToSet(h[n].args) /\ decl \notin ToSet(h[n].args)
  BY EndValues
<1>2. /\ On \subseteq Node /\ On \subseteq live /\ live \subseteq Node /\ Base(L, G)
      /\ L \subseteq live \ On /\ recursive \subseteq live \ On /\ gc \in Seq(Node)
      /\ h \in Heaps(Types, Names) /\ NIL \in Types /\ NIL \in Names /\ NIL \notin Node
  BY StateFacts, NilFacts DEF State, Base, HeapOK
<1>3. /\ h[decl].kind \notin ParentKind /\ h[type].kind \notin ParentKind
      /\ h[decl].args = <<>> /\ h[decl].of = NIL /\ h[type].of = NIL
  BY <1>1, <1>2, Kinds DEF Base, HeapOK
<1>4. ToSet(c_ast_free(h, recursive, type) \o c_ast_free(h, recursive \cup {gc[1]}, decl))
        = {type, decl}
  <2>1. ToSet(<<type>> \o <<decl>>) = {type, decl}
    BY DEF ToSet
  <2>. QED
    BY <2>1, DuplicateFreed
<1>5. PICK both : both = {type, decl}
  OBVIOUS
<1>6. /\ recursive' = (recursive \cup (IF gc = <<>> THEN {} ELSE {gc[1]})) \ both
      /\ h' = Blank(h, both) /\ live' = live \ both
      /\ gc' = <<>> /\ values' = <<>> /\ typeStack' = <<>> /\ typedefs' = typedefs
      /\ phase' = "idle"
  BY <1>4, <1>5 DEF DropDuplicate, Released, Idle
<1>7. PICK L2 : L2 = (L \cup On) \ both
  OBVIOUS
<1>8. /\ both \subseteq On /\ On' = {} /\ Owned(L2)' = Owned(L) /\ Defined' = Defined
      /\ Owned(L) \cap On = {} /\ Owned(L) \cap L = {} /\ Owned(L) \subseteq Node
      /\ L2 \subseteq live' /\ L2 \subseteq Node
  BY <1>1, <1>2, <1>5, <1>6, <1>7 DEF On, ToSet, Owned, Defined, Undefined
<1>9. /\ NoAst \in Cells(Types, Names) /\ NoAst.of = NIL /\ NoAst.parent = NIL
      /\ NoAst.args = <<>> /\ NoAst.kind = "none" /\ NoAst.def = NIL /\ NoAst.type = NIL
  BY <1>2, CellsType DEF NoAst
<1>10. \A n \in Node : h'[n] = IF n \in both THEN NoAst ELSE h[n]
  BY <1>6 DEF Blank
<1>11. HeapOK(L2)'
  <2>1. h' \in Heaps(Types, Names)
    BY <1>2, <1>6, <1>9 DEF Blank, Heaps
  <2>2. \A n \in Node \ live' : h'[n] = NoAst
    BY <1>2, <1>6, <1>10 DEF Base, HeapOK
  <2>3. \A n \in live' : h'[n].kind \in Kind
    BY <1>2, <1>6, <1>10 DEF Base, HeapOK
  <2>4. \A n \in Node : /\ h'[n].kind = "typedef" => h'[n].def \in Name
                        /\ h'[n].args # <<>> => h'[n].kind = "function"
                        /\ h'[n].of # NIL => h'[n].kind \in ParentKind
                        /\ h'[n].def # NIL => h'[n].kind = "typedef"
                        /\ h'[n].kind = "typedef" => h'[n].type = NIL
    BY <1>2, <1>9, <1>10 DEF Base, HeapOK
  <2>5. gc' \in Seq(Node) /\ IsInjective(gc')
    BY <1>6 DEF IsInjective
  <2>6. recursive' \subseteq live'
    <3>1. gc # <<>> => gc[1] \in On
      BY <1>2 DEF On, ToSet
    <3>. QED
      BY <1>2, <1>6, <1>8, <3>1
  <2>7. typedefs' \in [Name -> Address] /\ live' \subseteq Node
    BY <1>2, <1>6 DEF Base, HeapOK
  <2>. QED
    BY <1>8, <2>1, <2>2, <2>3, <2>4, <2>5, <2>6, <2>7 DEF HeapOK
<1>12. LinksOK(L2)'
  <2>1. \A n \in Owned(L) : h'[n] = h[n]
    BY <1>8, <1>10
  <2>2. \A n \in Owned(L) : h[n].of \in Owned(L) \cup {NIL} /\ ToSet(h[n].args) \subseteq Owned(L)
    BY <1>2 DEF Base, LinksOK
  <2>3. \A n \in L2 : h'[n] = h[n]
    BY <1>7, <1>8, <1>10
  <2>4. \A n \in On : ToSet(h[n].args) \subseteq On \ both
    BY <1>1, <1>2, <1>5 DEF Base, LinksOK
  <2>5. \A n \in L : ToSet(h[n].args) \subseteq L
    BY <1>2 DEF Base, LinksOK
  <2>6. \A n \in L2 : ToSet(h'[n].args) \subseteq L2
    BY <1>2, <1>7, <1>8, <2>3, <2>4, <2>5
  <2>. QED
    BY <1>8, <2>1, <2>2, <2>6 DEF LinksOK
<1>13. WellFounded(Node, Edges(h', typedefs, {}, L2))
  <2> DEFINE E == Edges(h, typedefs, On, L)
             E2 == Edges(h', typedefs, {}, L2)
  <2>1. WellFounded(Node, E)
    BY <1>2 DEF Base, TableOK
  <2>2. \A s \in Defined : typedefs[s] \in Owned(L)
    BY <1>2 DEF Base, TableOK
  <2>3. \A n \in Node : h[n].kind = "typedef" => h[n].def \in Defined
    BY <1>1, <1>2, <1>9, Kinds DEF Base, HeapOK, TableOK
  <2>4. \A n \in On : h[n].of \in On \cup {NIL} /\ ToSet(h[n].args) \subseteq On
    BY <1>2 DEF Base, LinksOK
  <2>5. ASSUME NEW x, NEW y, <<x, y>> \in E2
        PROVE  /\ x \in Node \ both /\ y \in Node /\ (x \in L2 => y \in L2)
               /\ \/ y = h[x].of
                  \/ y \in ToSet(h[x].args)
                  \/ h[x].kind = "typedef" /\ y = typedefs[h[x].def]
    <3>1. /\ x \in Node /\ y \in Node /\ (x \in L2 => y \in L2)
          /\ \/ y = h'[x].of
             \/ y \in ToSet(h'[x].args)
             \/ h'[x].kind = "typedef" /\ y = typedefs[h'[x].def]
      BY <2>5 DEF Edges
    <3>2. x \notin both
      BY <1>2, <1>9, <1>10, <3>1 DEF ToSet
    <3>. QED
      BY <1>10, <3>1, <3>2
  <2>6. ASSUME NEW x, NEW y, <<x, y>> \in E2, x \in On \/ y \notin On
        PROVE  <<x, y>> \in E
    <3>1. x \in L => y \in L
      BY <1>2, <1>5, <1>7, <1>8, <2>5, <2>6
    <3>. QED
      BY <2>5, <2>6, <3>1 DEF Edges
  <2>7. ASSUME NEW x \in Node \cap On, NEW y \in Node \ On, <<x, y>> \in E2 PROVE FALSE
    <3>1. /\ x \in L2 => y \in L2
          /\ \/ y = h[x].of
             \/ y \in ToSet(h[x].args)
             \/ h[x].kind = "typedef" /\ y = typedefs[h[x].def]
          /\ x \notin both
      BY <2>5, <2>7
    <3>2. y \in Owned(L)
      BY <1>2, <2>2, <2>3, <2>4, <2>7, <3>1
    <3>. QED
      BY <1>7, <1>8, <2>7, <3>1, <3>2
  <2>8. \A x \in Node \cap On, y \in Node \ On : <<x, y>> \notin E2
    BY <2>7
  <2>9. \A x, y \in Node \cap On : <<x, y>> \in E2 => <<x, y>> \in E
    BY <2>6
  <2>10. \A x, y \in Node \ On : <<x, y>> \in E2 => <<x, y>> \in E
    BY <2>6
  <2> HIDE DEF E, E2
  <2>11. WellFounded(Node \ On, E2)
    <3>1. E2 \cap ((Node \ On) \X (Node \ On)) \subseteq E
      BY <2>10
    <3>2. WellFounded(Node \ On, E)
      BY <2>1, WellFoundedPart
    <3>. QED
      BY <3>1, <3>2, Smaller
  <2>12. WellFounded(Node, E2)
    BY <2>1, <2>8, <2>9, <2>11, Split
  <2>. QED
    BY <2>12 DEF E2
<1>14. TableOK(L2)'
  <2>1. \A n \in live' : h'[n].kind = "typedef" => h'[n].def \in Defined
    BY <1>1, <1>2, <1>6, <1>10 DEF Base, TableOK
  <2>2. /\ \A s \in Defined : typedefs[s] \in Owned(L)
        /\ \A s, u \in Defined : s # u => typedefs[s] # typedefs[u]
    BY <1>2 DEF Base, TableOK
  <2>. QED
    BY <1>6, <1>8, <1>13, <2>1, <2>2 DEF TableOK
<1>15. PICK G2 : G2 = [n \in live' |-> h'[n]]
  OBVIOUS
<1>16. Kept(G2)'
  BY <1>8, <1>15 DEF Kept
<1>17. Control'
  BY <1>6, <1>8 DEF Idle, Control, State, Names
<1>18. Good(L2, G2)'
  BY <1>6, <1>11, <1>12, <1>14, <1>16, <1>17, EmptyStacks DEF Base
<1>. QED
  BY <1>2, <1>6, <1>10, <1>18

-----------------------------------------------------------------------------
(* The end of a typedef.                                                   *)

\* A declarator whose links are the old ones but for one to a leaf.
LEMMA PatchedTypedef ==
  ASSUME NEW L, NEW G, NEW cl, NEW vc, NEW ix, State(L, G, cl, vc, ix), EndGibberish,
         NEW type, type = Below.ast, NEW r, r = c_ast_patch_placeholder(h, type, Top.ast),
         r.h # Failed, NEW root, root = r.rv, NEW g, g = c_ast_take_name(r.h, root)
  PROVE  /\ root \in On /\ c_ast_name(r.h, root) \in Undefined \cup {NIL}
         /\ h' = g => Retyped(type)
<1>1. PICK k, t, d : k = 2 /\ t = values[k - 1].ast /\ d = values[k].ast
  OBVIOUS
<1>2. /\ command \in Gibberish /\ N = 2 /\ type = t /\ d = Top.ast /\ t \in On /\ d \in On \cup {NIL}
      /\ h[t].kind \in {"builtin", "typedef"} /\ values[2].tag \in Declarator
  BY <1>1, EndValues
<1>3. DeclaratorAt(k)
  BY <1>1, <1>2 DEF DeclaratorAt
<1>4. PICK D : D = Declared(cl, vc, k)
  OBVIOUS
<1>5. r = c_ast_patch_placeholder(h, t, d)
  BY <1>2
<1>6. root \in {t, d} \ {NIL} /\ Patched(D, t, r.h)
  <2>1. r.rv \in {t, d} \ {NIL} /\ Patched(D, t, r.h)
    <3>1. t = values[k - 1].ast /\ d = values[k].ast /\ command \in Gibberish
      BY <1>1, <1>2
    <3>. QED
      BY <1>3, <1>4, <1>5, <3>1, PatchDone
  <2>. QED
    BY <2>1
<1>7. Surrounded(D, t, k)
  BY <1>1, <1>2, <1>3, <1>4, DeclaredClass
<1>8. D \subseteq On /\ t \in On \ D
  BY <1>7 DEF Surrounded
<1>9. root \in On
  BY <1>2, <1>6
<1>10. /\ On \subseteq Node /\ Base(L, G) /\ NIL \notin Node /\ NIL \in Names
       /\ h \in Heaps(Types, Names) /\ \A n \in On : h[n].of \in On \cup {NIL}
       /\ h[t].kind \notin ParentKind /\ h[t].of = NIL
  <2>1. h[t].kind \notin ParentKind
    BY <1>2, Kinds
  <2>. QED
    BY <1>2, <2>1, StateFacts, NilFacts DEF State
<1>11. Leaf(t)
  BY <1>2, <1>10 DEF Leaf
<1>12. WellFounded(Node, OfEdges(h))
  BY <1>10, OfFounded
<1>13. PICK gg : gg = r.h
  OBVIOUS
<1>14. /\ gg \in Heaps(Types, Names)
       /\ \A n \in Node \ On : gg[n] = h[n]
       /\ \A n \in On : gg[n].name \in Undefined \cup {NIL}
       /\ \A n \in Node : /\ gg[n].kind = h[n].kind /\ gg[n].def = h[n].def /\ gg[n].args = h[n].args
                          /\ gg[n].type = h[n].type
                          /\ \/ gg[n].of = h[n].of
                             \/ n \in On /\ gg[n].of = t /\ h[n].kind \in ParentKind
  <2>1. CASE SameLinks(h, gg)
    BY <1>6, <1>13, <2>1 DEF Patched, SameLinks
  <2>2. CASE \E p \in D : Linked(h, gg, t, p) /\ h[p].kind \in ParentKind
    BY <1>6, <1>8, <1>13, <2>2 DEF Patched, Linked, SameData
  <2>. QED
    BY <1>6, <1>13, <2>1, <2>2 DEF Patched
<1>15. WellFounded(Node, OfEdges(gg))
  <2> DEFINE E == OfEdges(h)
             E2 == OfEdges(gg)
  <2>1. \A x, y \in Node \ {t} : <<x, y>> \in E2 => <<x, y>> \in E
    BY <1>14 DEF OfEdges
  <2>2. gg[t].of = NIL
    BY <1>2, <1>10, <1>11, <1>14 DEF Leaf
  <2>3. \A y \in Node : <<t, y>> \notin E2
    BY <1>10, <2>2 DEF OfEdges
  <2>4. t \in Node
    BY <1>8, <1>10
  <2>5. \A x, y \in Node \ {t} : <<x, t>> \in E2 /\ <<t, y>> \in E2 => <<x, y>> \in E
    BY <2>3
  <2>6. <<t, t>> \notin E2
    BY <2>3, <2>4
  <2> HIDE DEF E, E2
  <2>7. WellFounded(Node, E)
    BY <1>12 DEF E
  <2>8. WellFounded(Node, E2)
    BY <2>1, <2>5, <2>6, <2>7, Insert
  <2>. QED
    BY <2>8 DEF E2
<1>16. /\ c_ast_name(gg, root) = NIL \/ \E m \in On : c_ast_name(gg, root) = gg[m].name
       /\ NamesWithin(gg, c_ast_take_name(gg, root), On)
  <2>1. \A m \in On : gg[m].of \in On \cup {NIL}
    BY <1>8, <1>10, <1>14
  <2>. QED
    BY <1>9, <1>10, <1>14, <1>15, <2>1, NameFoundIn
<1>17. /\ c_ast_take_name(gg, root) \in Heaps(Types, Names)
       /\ SameLinks(gg, c_ast_take_name(gg, root))
  BY <1>9, <1>10, <1>14, <1>15, NameFoundOf
<1>18. c_ast_name(r.h, root) \in Undefined \cup {NIL}
  BY <1>13, <1>14, <1>16
<1>19. ASSUME h' = g PROVE Retyped(type)
  <2>1. /\ h' \in Heaps(Types, Names) /\ SameLinks(gg, h') /\ NamesWithin(gg, h', On)
    BY <1>13, <1>16, <1>17, <1>19
  <2>2. \A n \in Node \ On : h'[n] = h[n]
    <3>1. SUFFICES ASSUME NEW n \in Node \ On PROVE h'[n] = gg[n]
      BY <1>14
    <3>2. h'[n] \in Cells(Types, Names) /\ gg[n] \in Cells(Types, Names)
      BY <1>14, <2>1, <3>1, HeapFields
    <3>3. /\ h'[n].kind = gg[n].kind /\ h'[n].type = gg[n].type /\ h'[n].def = gg[n].def
          /\ h'[n].depth = gg[n].depth /\ h'[n].parent = gg[n].parent
          /\ h'[n].of = gg[n].of /\ h'[n].args = gg[n].args /\ h'[n].name = gg[n].name
      BY <2>1, <3>1 DEF SameLinks, NamesWithin
    <3>. QED
      BY <3>2, <3>3 DEF Cells
  <2>3. \A n \in On : /\ h'[n].kind = h[n].kind /\ h'[n].def = h[n].def /\ h'[n].args = h[n].args
                      /\ h'[n].type = h[n].type
                      /\ \/ h'[n].of = h[n].of
                         \/ h'[n].of = t /\ h[n].kind \in ParentKind
    BY <1>10, <1>14, <2>1 DEF SameLinks
  <2>. QED
    BY <1>2, <1>11, <2>1, <2>2, <2>3 DEF Retyped
<1>. QED
  BY <1>9, <1>18, <1>19

\* Nothing changes, as when the type was parsed alone.
LEMMA UnchangedTypedef ==
  ASSUME NEW L, NEW G, NEW cl, NEW vc, NEW ix, State(L, G, cl, vc, ix), h' = h, NEW t
  PROVE  Retyped(t)
  BY StateFacts DEF Retyped

\* How a command ends: what it built is collected, or defines a name, or is freed
\* as the definition of a name there is.
Cleans == parse_cleanup /\ UNCHANGED typedefs /\ Idle
Adds ==
  \E t : /\ Retyped(t) /\ Idle
         /\ \E name \in Undefined, root \in On : AddTypedef(name, root)
Drops ==
  /\ EndGibberish /\ Top.ast # NIL
  /\ h[Below.ast].kind # "typedef" /\ h[Top.ast].kind = "typedef"
  /\ DropDuplicate(h, Below.ast, Top.ast) /\ Idle

\* A typedef ends in one of these ways, or an assertion fails.
LEMMA TypedefEnds ==
  ASSUME NEW L, NEW G, NEW cl, NEW vc, NEW ix, State(L, G, cl, vc, ix), typedef_declaration_c
  PROVE  Aborts \/ Cleans \/ Adds \/ Drops
<1>1. EndGibberish /\ command = "typedef" /\ phase = "parse"
  BY EndValues DEF typedef_declaration_c
<1>2. PICK type, decl : type = Below.ast /\ decl = Top.ast
  OBVIOUS
<1>3. PICK r : r = c_ast_patch_placeholder(h, type, decl)
  OBVIOUS
<1>4. PICK patched : patched = (h[type].kind # "typedef" /\ h[decl].kind # "typedef")
  OBVIOUS
<1>5. PICK root, g : /\ root = (IF patched THEN r.rv ELSE type)
                     /\ g = (IF patched THEN c_ast_take_name(r.h, root) ELSE h)
  OBVIOUS
<1>6. PICK name, check :
        /\ name = (CASE patched -> c_ast_name(r.h, root)
                     [] h[type].kind = "typedef" /\ h[decl].kind = "typedef" -> h[type].name
                     [] h[decl].kind = "typedef" /\ ~(h[type].kind = "typedef") -> h[decl].def
                     [] OTHER -> NIL)
        /\ check = c_ast_check(g, root)
  OBVIOUS
<1>7. PICK why, verdict :
        /\ why = (CASE patched /\ r.h = Failed -> "assert: c_ast_patch_placeholder"
                    [] patched /\ name = NIL -> "assert: name"
                    [] check = "assert: placeholder" -> check
                    [] check # "rejected" /\ name = NIL -> "assert: name"
                    [] OTHER -> "none")
        /\ verdict = (IF check = "rejected" THEN check
                       ELSE IF name \in Undefined THEN "defined"
                       ELSE IF c_ast_equiv(g, typedefs, root, typedefs[name])
                       THEN "accepted" ELSE "redefinition")
  OBVIOUS
<1>8. \/ Aborts
      \/ /\ why = "none" /\ Idle
         /\ CASE verdict = "defined" -> AddTypedef(name, root) /\ h' = g
              [] verdict = "accepted" -> DropDuplicate(g, root, decl)
              [] OTHER -> parse_cleanup /\ UNCHANGED typedefs
  BY <1>1, <1>2, <1>3, <1>4, <1>5, <1>6, <1>7
     DEF typedef_declaration_c, Abort, Aborts, Ended, Idle
<1>9. SUFFICES ASSUME ~Aborts PROVE Cleans \/ Adds \/ Drops
  OBVIOUS
<1>10. why = "none" /\ Idle
  BY <1>8, <1>9
<1>11. /\ patched => r.h # Failed /\ name # NIL
       /\ check = "rejected" \/ name # NIL
  BY <1>7, <1>10
<1>12. /\ check = "rejected" => verdict = "rejected"
       /\ check # "rejected" /\ name \in Undefined => verdict = "defined"
       /\ check # "rejected" /\ name \notin Undefined => verdict # "defined"
  BY <1>7
<1>13. /\ verdict = "defined" => AddTypedef(name, root) /\ h' = g
       /\ verdict = "accepted" => DropDuplicate(g, root, decl)
       /\ verdict # "defined" /\ verdict # "accepted" => parse_cleanup /\ UNCHANGED typedefs
  BY <1>8, <1>9
<1>14. /\ type \in On /\ decl \in On /\ type \in Node /\ decl \in Node
       /\ h[type].kind \in {"builtin", "typedef"}
       /\ h[type].name \in Undefined \cup {NIL}
       /\ h[decl].kind = "typedef" => h[decl].def \in Defined
  <2>1. decl # NIL
    <3>1. Gib(cl, vc, ix) /\ N = 2 /\ 2 \in 1..N /\ values[2].tag \in Declarator /\ Top = values[2]
          /\ values[1].tag # "args"
      BY <1>1, EndValues, Tags DEF State
    <3>2. values[2].ast = NIL => CastFirst \/ \E j \in 1..2 - 1 : values[j].tag = "args"
      BY <3>1 DEF Gib, Bottom
    <3>3. ~CastFirst
      BY <1>1 DEF CastFirst
    <3>4. \A j \in 1..2 - 1 : j = 1
      OBVIOUS
    <3>. QED
      BY <1>2, <3>1, <3>2, <3>3, <3>4
  <2>2. type \in On /\ decl \in On /\ h[type].kind \in {"builtin", "typedef"}
    BY <1>1, <1>2, <2>1, EndValues
  <2>3. On \subseteq Node /\ On \subseteq live
    BY StateFacts
  <2>4. h[type].name \in Undefined \cup {NIL}
    BY <2>2 DEF State, Control
  <2>5. h[decl].kind = "typedef" => h[decl].def \in Defined
    BY <1>1, <2>2, <2>3 DEF State, Base, TableOK
  <2>. QED
    BY <2>2, <2>3, <2>4, <2>5
<1>15. CASE patched
  <2>1. root = r.rv /\ g = c_ast_take_name(r.h, root) /\ name = c_ast_name(r.h, root)
        /\ r.h # Failed /\ name # NIL
    <3>1. name = c_ast_name(r.h, root)
      BY <1>4, <1>6, <1>15
    <3>. QED
      BY <1>5, <1>11, <1>15, <3>1
  <2>2. /\ root \in On /\ c_ast_name(r.h, root) \in Undefined \cup {NIL}
        /\ h' = g => Retyped(type)
    BY <1>1, <1>2, <1>3, <2>1, PatchedTypedef
  <2>3. name \in Undefined
    BY <2>1, <2>2
  <2>4. CASE check = "rejected"
    BY <1>10, <1>12, <1>13, <2>4 DEF Cleans
  <2>5. CASE check # "rejected"
    <3>1. AddTypedef(name, root) /\ Retyped(type)
      BY <1>12, <1>13, <2>2, <2>3, <2>5
    <3>. QED
      BY <1>10, <2>2, <2>3, <3>1 DEF Adds
  <2>. QED
    BY <2>4, <2>5
<1>16. CASE ~patched /\ h[type].kind = "typedef"
  <2>1. root = type /\ g = h
    BY <1>5, <1>16
  <2>2. name \in Undefined \cup {NIL}
    <3>1. CASE h[decl].kind = "typedef"
      BY <1>6, <1>14, <1>16, <3>1
    <3>2. CASE h[decl].kind # "typedef"
      BY <1>6, <1>16, <3>2
    <3>. QED
      BY <3>1, <3>2
  <2>3. CASE check = "rejected"
    BY <1>10, <1>12, <1>13, <2>3 DEF Cleans
  <2>4. CASE check # "rejected"
    <3>1. name \in Undefined /\ AddTypedef(name, root) /\ h' = h
      BY <1>11, <1>12, <1>13, <2>1, <2>2, <2>4
    <3>2. Retyped(type)
      BY <3>1, UnchangedTypedef
    <3>. QED
      BY <1>10, <1>14, <2>1, <3>1, <3>2 DEF Adds
  <2>. QED
    BY <2>3, <2>4
<1>17. CASE ~patched /\ h[type].kind # "typedef"
  <2>1. root = type /\ g = h /\ h[decl].kind = "typedef"
    BY <1>4, <1>5, <1>17
  <2>2. name \in Defined
    BY <1>6, <1>14, <1>17, <2>1
  <2>3. name \notin Undefined
    BY <2>2 DEF Defined
  <2>4. verdict # "defined"
    BY <1>12, <2>3
  <2>5. CASE verdict = "accepted"
    <3>1. DropDuplicate(h, Below.ast, Top.ast)
      BY <1>2, <1>13, <2>1, <2>5
    <3>2. Top.ast # NIL
      BY <1>2, <1>14, StateFacts
    <3>. QED
      BY <1>1, <1>2, <1>10, <1>17, <2>1, <3>1, <3>2 DEF Drops
  <2>6. CASE verdict # "accepted"
    BY <1>10, <1>13, <2>4, <2>6 DEF Cleans
  <2>. QED
    BY <2>5, <2>6
<1>. QED
  BY <1>15, <1>16, <1>17

\* So does any other command.
LEMMA OtherEnds ==
  ASSUME NEW L, NEW G, NEW cl, NEW vc, NEW ix, State(L, G, cl, vc, ix),
         \/ declare_english \/ cast_english \/ define_english
         \/ explain_declaration_c \/ explain_cast_c \/ SyntaxError
  PROVE  phase = "parse" /\ (Aborts \/ Cleans \/ Adds)
<1>1. CASE declare_english \/ cast_english \/ SyntaxError
  <2>1. Cleans
    BY <1>1 DEF declare_english, cast_english, SyntaxError, Ended, Cleans, Idle
  <2>2. phase = "parse"
    BY <1>1 DEF declare_english, cast_english, SyntaxError, EndEnglish, ParsingEnglish
  <2>. QED
    BY <2>1, <2>2
<1>2. CASE explain_declaration_c \/ explain_cast_c
  <2>1. EndGibberish /\ Explain
    BY <1>2 DEF explain_declaration_c, explain_cast_c, Explain
  <2>2. phase = "parse"
    BY <2>1, EndValues
  <2>3. PICK patched : patched = c_ast_patch_placeholder(h, Below.ast, Top.ast)
    OBVIOUS
  <2>4. Aborts \/ Cleans
    BY <2>1, <2>2, <2>3 DEF Explain, Ended, Cleans, Idle, Abort, Aborts
  <2>. QED
    BY <2>2, <2>4
<1>3. CASE define_english
  <2>1. EndEnglish /\ ParsingEnglish /\ TopIs({"decl"}) /\ "list" \notin {"decl"}
    BY <1>3 DEF define_english, EndEnglish
  <2>2. phase = "parse" /\ Top.ast \in On
    BY <2>1, EngTopIs
  <2>3. /\ Idle
        /\ \/ subject \in Undefined /\ AddTypedef(subject, Top.ast) /\ h' = h
           \/ parse_cleanup /\ UNCHANGED typedefs
    BY <1>3 DEF define_english, Ended, Idle
  <2>4. CASE parse_cleanup /\ UNCHANGED typedefs
    BY <2>2, <2>3, <2>4 DEF Cleans
  <2>5. CASE subject \in Undefined /\ AddTypedef(subject, Top.ast) /\ h' = h
    <3>1. Retyped(NIL)
      BY <2>5, UnchangedTypedef
    <3>. QED
      BY <2>2, <2>3, <2>5, <3>1 DEF Adds
  <2>. QED
    BY <2>3, <2>4, <2>5
<1>. QED
  BY <1>1, <1>2, <1>3

-----------------------------------------------------------------------------
(* The invariant.                                                          *)

\* The lists of nodes stay as long as they are in use.
LEMMA ListsStay ==
  ASSUME \A m, n \in live : IsInjective(h[m].args) /\ (m # n => ToSet(h[m].args) \cap ToSet(h[n].args) = {}),
         live' \subseteq live, \A n \in live' \ On' : h'[n].args = h[n].args
  PROVE  OwnLists'
  BY DEF OwnLists

\* The end of a command keeps the invariant.
LEMMA Ended_Going ==
  ASSUME NEW L, NEW G, NEW cl, NEW vc, NEW ix, State(L, G, cl, vc, ix), OwnLists, ~Exiting,
         Aborts \/ Cleans \/ Adds \/ Drops
  PROVE  Going' /\ OwnLists' /\ ~Exiting' /\ (phase' \in {"parse", "aborted"} => command' = command)
<1>1. \A m, n \in live :
        IsInjective(h[m].args) /\ (m # n => ToSet(h[m].args) \cap ToSet(h[n].args) = {})
  BY ArgsApart
<1>2. On \subseteq live /\ live \subseteq Node
  BY StateFacts
<1>3. CASE Aborts
  <2>1. Good(L, G)'
    BY <1>3, Aborted
  <2>2. Going'
    BY <2>1 DEF Going
  <2>3. OwnLists'
    BY <1>3 DEF Aborts, OwnLists, ast, On
  <2>. QED
    BY <1>3, <2>2, <2>3 DEF Aborts, Exiting
<1>4. CASE Cleans
  <2>1. Good(L, G)'
    BY <1>4, CleanedUp DEF Cleans
  <2>2. Going'
    BY <2>1 DEF Going
  <2>3. live' = live \ On /\ h' = Blank(h, On)
    BY <1>4 DEF Cleans, parse_cleanup, c_ast_gc, On
  <2>4. live' \subseteq live /\ \A n \in live' \ On' : h'[n].args = h[n].args
    BY <1>2, <2>3 DEF Blank
  <2>5. OwnLists'
    BY <1>1, <2>4, ListsStay
  <2>. QED
    BY <1>4, <2>2, <2>5 DEF Cleans, Idle, Exiting
<1>5. CASE Adds
  <2>1. PICK t : /\ Retyped(t) /\ Idle
                 /\ \E name \in Undefined, root \in On : AddTypedef(name, root)
    BY <1>5 DEF Adds
  <2>2. PICK name \in Undefined, root \in On : AddTypedef(name, root)
    BY <2>1
  <2>3. \E G2 : Good(L, G2)'
    BY <2>1, <2>2, TypedefAdded
  <2>4. Going'
    BY <2>3 DEF Going
  <2>5. live' = live
    BY <2>2 DEF AddTypedef
  <2>6. \A n \in live' \ On' : h'[n].args = h[n].args
    BY <1>2, <2>1, <2>5 DEF Retyped
  <2>7. OwnLists'
    BY <1>1, <2>5, <2>6, ListsStay
  <2>. QED
    BY <2>1, <2>4, <2>7 DEF Idle, Exiting
<1>6. CASE Drops
  <2>1. \E L2, G2 : Good(L2, G2)' /\ live' \subseteq live /\ \A n \in live' : h'[n] = h[n]
    BY <1>6, DuplicateDropped DEF Drops
  <2>2. Going' /\ live' \subseteq live /\ \A n \in live' : h'[n] = h[n]
    BY <2>1 DEF Going
  <2>3. OwnLists'
    BY <1>1, <2>2, ListsStay
  <2>. QED
    BY <1>6, <2>2, <2>3 DEF Drops, Idle, Exiting
<1>. QED
  BY <1>3, <1>4, <1>5, <1>6

\* A production is part of a command, which goes on or aborts.
LEMMA ProductionParses ==
  ASSUME GibberishProduction \/ EnglishProduction
  PROVE  phase = "parse" /\ (Aborts \/ ProductionFrame)
<1> DEFINE Parses == phase = "parse" /\ (Aborts \/ ProductionFrame)
<1>1. ASSUME AddArray PROVE Parses
  BY <1>1 DEF AddArray, ParsingGibberish, Abort, Aborts
<1>2. ASSUME AddFunction PROVE Parses
  BY <1>2 DEF AddFunction, ParsingGibberish, Abort, Aborts
<1>3. ASSUME NEW kind, derived_decl_c(kind) PROVE Parses
  BY <1>3 DEF derived_decl_c, ParsingGibberish, Abort, Aborts
<1>4. ASSUME NEW kind, derived_type_c(kind) PROVE Parses
  BY <1>4 DEF derived_type_c, BeginDeclarator, ParsingGibberish
<1>5. ASSUME Unnest PROVE Parses
  BY <1>5 DEF Unnest, ParsingGibberish
<1>6. ASSUME type_ast_c \/ name_c \/ typedef_decl_c \/ no_cast_c PROVE Parses
  BY <1>6 DEF type_ast_c, name_c, typedef_decl_c, no_cast_c, BeginType, BeginDeclarator,
              ParsingGibberish
<1>7. ASSUME placeholder_type_ast_c \/ ArgsOpen \/ arg_c PROVE Parses
  BY <1>7 DEF placeholder_type_ast_c, ArgsOpen, arg_c, BeginDeclarator, ParsingGibberish
<1>8. ASSUME GibberishProduction PROVE Parses
  <2> HIDE DEF Parses
  <2>. QED
    BY <1>1, <1>2, <1>3, <1>4, <1>5, <1>6, <1>7, <1>8
       DEF GibberishProduction, pointer_type_c, pointer_decl_c, pointer_cast_c, reference_type_c,
           reference_decl_c, reference_cast_c, nested_decl_c, nested_cast_c, array_decl_c,
           array_cast_c, func_decl_c, func_cast_c
<1>9. ASSUME NEW kind, derived_decl_english(kind) PROVE Parses
  BY <1>9 DEF derived_decl_english, ParsingEnglish, EnglishFrame
<1>10. ASSUME FuncDeclEnglish PROVE Parses
  BY <1>10 DEF FuncDeclEnglish, func_decl_english, ParsingEnglish, EnglishFrame
<1>11. ASSUME type_english \/ reference_english \/ reference_decl_english PROVE Parses
  BY <1>11 DEF type_english, reference_english, reference_decl_english, BeginEnglish,
               ParsingEnglish, EnglishFrame
<1>12. ASSUME decl_list_english \/ returning_void_english PROVE Parses
  BY <1>12 DEF decl_list_english, returning_void_english, ParsingEnglish, EnglishFrame
<1>13. ASSUME EnglishProduction PROVE Parses
  <2> HIDE DEF Parses
  <2>. QED
    BY <1>9, <1>10, <1>11, <1>12, <1>13
       DEF EnglishProduction, pointer_decl_english, array_decl_english
<1>. QED
  BY <1>8, <1>13

\* A production keeps the invariant.
LEMMA Production_Going ==
  ASSUME NEW L, NEW G, NEW cl, NEW vc, NEW ix, State(L, G, cl, vc, ix), OwnLists,
         GibberishProduction \/ EnglishProduction
  PROVE  Going' /\ OwnLists' /\ ~Exiting' /\ phase = "parse" /\ command' = command
<1>1. CASE Aborts
  <2>1. Good(L, G)'
    BY <1>1, Aborted
  <2>2. Going'
    BY <2>1 DEF Going
  <2>3. OwnLists'
    BY <1>1 DEF Aborts, OwnLists, ast, On
  <2>. QED
    BY <1>1, <2>2, <2>3 DEF Aborts, Exiting
<1>2. CASE ~Aborts
  <2>1. phase = "parse" /\ phase' = "parse" /\ command' = command
    BY <1>2, ProductionParses DEF ProductionFrame
  <2>2. Good(L, G)'
    BY <1>2, <2>1, GibberishProduction_Good, EnglishProduction_Good
  <2>3. Going'
    BY <2>2 DEF Going
  <2>4. Kept(G) /\ Kept(G)'
    BY <2>2 DEF State, Good, Base
  <2>5. OwnLists'
    BY <2>4 DEF OwnLists, Kept
  <2>. QED
    BY <2>1, <2>3, <2>5 DEF Exiting
<1>. QED
  BY <1>1, <1>2

-----------------------------------------------------------------------------
(* The first state.                                                        *)

\* A cell for each predefined name.
LEMMA CellsGiven ==
  \E c \in [Predefined -> Node] : IsInjective(c)
<1>1. /\ IsFiniteSet(Predefined) /\ IsFiniteSet(Node)
      /\ Cardinality(Predefined) <= Cardinality(Node)
  BY ParserAssumption
<1>2. PICK a, b : a = Cardinality(Predefined) /\ b = Cardinality(Node)
  OBVIOUS
<1>3. a \in Nat /\ b \in Nat /\ a <= b /\ 1..a \subseteq 1..b
  BY <1>1, <1>2, FS_CardinalityType
<1>4. ExistsBijection(1..a, Predefined) /\ ExistsBijection(1..b, Node)
  BY <1>1, <1>2, FS_CardinalityType
<1>5. PICK f \in Bijection(1..a, Predefined) : TRUE
  BY <1>4 DEF ExistsBijection
<1>6. PICK g \in Bijection(1..b, Node) : TRUE
  BY <1>4 DEF ExistsBijection
<1>7. /\ f \in [1..a -> Predefined]
      /\ \A t \in Predefined : \E i \in 1..a : f[i] = t
  BY <1>5 DEF Bijection, Surjection, Injection
<1>8. /\ g \in [1..b -> Node]
      /\ \A i, j \in 1..b : g[i] = g[j] => i = j
  BY <1>6 DEF Bijection, Injection, IsInjective
<1>9. PICK p : p = [t \in Predefined |-> CHOOSE i \in 1..a : f[i] = t]
  OBVIOUS
<1>10. \A t \in Predefined : p[t] \in 1..a /\ p[t] \in 1..b /\ f[p[t]] = t
  BY <1>3, <1>7, <1>9
<1>11. PICK c : c = [t \in Predefined |-> g[p[t]]]
  OBVIOUS
<1>12. c \in [Predefined -> Node]
  BY <1>8, <1>10, <1>11
<1>13. ASSUME NEW s \in Predefined, NEW t \in Predefined, c[s] = c[t] PROVE s = t
  <2>1. g[p[s]] = g[p[t]]
    BY <1>11, <1>13
  <2>2. p[s] = p[t]
    BY <1>8, <1>10, <2>1
  <2>. QED
    BY <1>10, <2>2
<1>14. IsInjective(c)
  BY <1>12, <1>13 DEF IsInjective
<1>. QED
  BY <1>12, <1>14

\* The predefined type names satisfy the invariant.
LEMMA Init_Going ==
  ASSUME Init
  PROVE  Going /\ OwnLists /\ phase = "idle"
<1>1. PICK cell : cell = (CHOOSE c \in [Predefined -> Node] : IsInjective(c))
  OBVIOUS
<1>2. cell \in [Predefined -> Node] /\ \A s, t \in Predefined : cell[s] = cell[t] => s = t
  BY <1>1, CellsGiven DEF IsInjective
<1>3. PICK type \in [Predefined -> BuiltinType] :
        /\ phase = "idle" /\ command = NIL /\ subject = NIL
        /\ h = [n \in Node |->
                  IF {t \in Predefined : cell[t] = n} = {} THEN NoAst
                  ELSE [NewAst("builtin", 0) EXCEPT
                          !.type = type[CHOOSE t \in {t \in Predefined : cell[t] = n} : TRUE]]]
        /\ live = {cell[t] : t \in Predefined}
        /\ gc = <<>> /\ recursive = live
        /\ typedefs = [t \in Name |-> IF t \in Predefined THEN cell[t] ELSE NIL]
        /\ values = <<>> /\ typeStack = <<>> /\ ast_depth = 0
  <2> DEFINE c0 == CHOOSE c \in [Predefined -> Node] : IsInjective(c)
  <2>1. PICK type \in [Predefined -> BuiltinType] :
          /\ phase = "idle" /\ command = NIL /\ subject = NIL
          /\ h = [n \in Node |->
                    IF {t \in Predefined : c0[t] = n} = {} THEN NoAst
                    ELSE [NewAst("builtin", 0) EXCEPT
                            !.type = type[CHOOSE t \in {t \in Predefined : c0[t] = n} : TRUE]]]
          /\ live = {c0[t] : t \in Predefined}
          /\ gc = <<>> /\ recursive = live
          /\ typedefs = [t \in Name |-> IF t \in Predefined THEN c0[t] ELSE NIL]
          /\ values = <<>> /\ typeStack = <<>> /\ ast_depth = 0
    BY Zenon DEF Init
  <2>2. c0 = cell
    BY <1>1
  <2> HIDE DEF c0
  <2>. QED
    BY <2>1, <2>2
<1>4. /\ NIL \notin Node /\ NIL \notin Name /\ NIL \in Types /\ NIL \in Names
      /\ Predefined \subseteq Name /\ "builtin" \in Kind /\ BuiltinType \subseteq Types
      /\ "builtin" # "typedef"
  BY NilFacts, Kinds, KindsDiffer, ParserAssumption DEF Types
<1>5. /\ NoAst \in Cells(Types, Names) /\ NoAst.of = NIL /\ NoAst.parent = NIL
      /\ NoAst.args = <<>> /\ NoAst.kind = "none" /\ NoAst.def = NIL /\ NoAst.type = NIL
  BY <1>4, CellsType DEF NoAst
<1>6. \A b \in BuiltinType :
        /\ Fresh([NewAst("builtin", 0) EXCEPT !.type = b], "builtin", 0)
        /\ [NewAst("builtin", 0) EXCEPT !.type = b].args = <<>>
  BY FreshCells
<1>7. \A n \in Node \ live : h[n] = NoAst
  BY <1>3
<1>8. ASSUME NEW n \in live
      PROVE  n \in Node /\ Fresh(h[n], "builtin", 0) /\ h[n].args = <<>>
  <2>1. PICK S : S = {t \in Predefined : cell[t] = n}
    OBVIOUS
  <2>2. n \in Node /\ S # {} /\ S \subseteq Predefined
    BY <1>2, <1>3, <1>8, <2>1
  <2>3. (CHOOSE t \in S : TRUE) \in Predefined
    BY <2>2
  <2>4. PICK b \in BuiltinType : b = type[CHOOSE t \in S : TRUE]
    BY <1>3, <2>3
  <2>5. h[n] = [NewAst("builtin", 0) EXCEPT !.type = b]
    BY <1>3, <2>1, <2>2, <2>4
  <2>. QED
    BY <1>6, <2>2, <2>5
<1>9. \A n \in live :
        /\ n \in Node /\ h[n] \in Cells(Types, Names) /\ h[n].kind = "builtin"
        /\ h[n].of = NIL /\ h[n].def = NIL /\ h[n].args = <<>>
  BY <1>4, <1>8 DEF Fresh
<1>10. /\ On = {} /\ Owned({}) = live /\ live \subseteq Node
       /\ Defined = Predefined
  <2>1. Defined = Predefined
    BY <1>2, <1>3, <1>4 DEF Defined, Undefined
  <2>2. On = {}
    BY <1>3 DEF On, ToSet
  <2>. QED
    BY <1>9, <2>1, <2>2 DEF Owned
<1>11. \A n \in Node : h[n] \in Cells(Types, Names) /\ h[n].of = NIL /\ h[n].def = NIL
                       /\ h[n].args = <<>> /\ h[n].kind # "typedef"
  BY <1>4, <1>5, <1>7, <1>9
<1>12. h \in Heaps(Types, Names)
  BY <1>3, <1>11 DEF Heaps
<1>13. HeapOK({})
  <2>1. gc \in Seq(Node) /\ IsInjective(gc)
    BY <1>3 DEF IsInjective
  <2>2. typedefs \in [Name -> Address]
    BY <1>2, <1>3 DEF Address
  <2>. QED
    BY <1>3, <1>4, <1>7, <1>9, <1>10, <1>11, <1>12, <2>1, <2>2 DEF HeapOK
<1>14. LinksOK({})
  BY <1>10, <1>11 DEF LinksOK, ToSet
<1>15. TableOK({})
  <2>1. Edges(h, typedefs, On, {}) \cap (Node \X Node) \subseteq {}
    BY <1>4, <1>10, <1>11 DEF Edges, ToSet
  <2>2. WellFounded(Node, {})
    BY DEF WellFounded
  <2>3. WellFounded(Node, Edges(h, typedefs, On, {}))
    BY <2>1, <2>2, Smaller
  <2>4. \A t \in Defined : typedefs[t] = cell[t] /\ cell[t] \in live
    BY <1>3, <1>4, <1>10
  <2>. QED
    BY <1>2, <1>10, <1>11, <2>3, <2>4 DEF TableOK
<1>16. PICK G : G = [n \in live |-> h[n]]
  OBVIOUS
<1>17. Kept(G)
  BY <1>10, <1>16 DEF Kept
<1>18. Control
  BY <1>3, <1>10, ParserAssumption DEF Control, Names
<1>19. Good({}, G)
  BY <1>3, <1>13, <1>14, <1>15, <1>17, <1>18, EmptyNow DEF Base
<1>20. OwnLists
  BY <1>10, <1>11 DEF OwnLists, IsInjective, ToSet
<1>. QED
  BY <1>3, <1>19, <1>20 DEF Going

-----------------------------------------------------------------------------
(* The exit.                                                               *)

\* No node is listed twice as an argument.
ArgsOnce ==
  \A m, n \in live :
    IsInjective(h[m].args) /\ (m # n => ToSet(h[m].args) \cap ToSet(h[n].args) = {})

\* While the exit handler runs, the stacks and the list are empty.
Leaving ==
  /\ gc = <<>> /\ values = <<>> /\ typeStack = <<>>
  /\ live \subseteq Node
  /\ \E L : Acyclic(L)
  /\ ArgsOnce

\* With no values OneList is about nodes alone.
LEMMA LeavingLists ==
  ASSUME values = <<>>, typeStack = <<>>, ArgsOnce
  PROVE  OneList
<1>1. Places = live /\ \A p \in live : ListAt(p) = h[p].args
  BY DEF Places, ListAt
<1>2. IsInjective(typeStack) /\ ToSet(typeStack) = {}
  BY DEF IsInjective, ToSet
<1>. QED
  BY <1>1, <1>2 DEF OneList, ArgsOnce

\* An entry of the table is freed.
LEMMA Freed_Leaving ==
  ASSUME Leaving, FreeTypedef
  PROVE  Leaving'
<1>1. PICK L : Acyclic(L)
  BY DEF Leaving
<1>2. PICK t \in Defined :
        LET freed == c_ast_free(h, recursive, typedefs[t]) IN
        /\ h' = Blank(h, ToSet(freed)) /\ live' = live \ ToSet(freed)
        /\ typedefs' = [typedefs EXCEPT ![t] = NIL]
  BY DEF FreeTypedef
<1>3. PICK F : F = ToSet(c_ast_free(h, recursive, typedefs[t]))
  OBVIOUS
<1>4. /\ h' = Blank(h, F) /\ live' = live \ F
      /\ typedefs' = [typedefs EXCEPT ![t] = NIL]
      /\ gc' = gc /\ values' = values /\ typeStack' = typeStack
  BY <1>2, <1>3 DEF FreeTypedef, in_attr
<1>5. \A n \in Node : h'[n] = IF n \in F THEN NoAst ELSE h[n]
  BY <1>4 DEF Blank
<1>6. /\ NIL \notin Node /\ NIL \notin Name
      /\ NoAst \in Cells(Types, Names) /\ NoAst.of = NIL /\ NoAst.args = <<>>
      /\ NoAst.kind = "none" /\ NoAst.def = NIL /\ "none" # "typedef"
  BY NilFacts, CellsType DEF NoAst
<1>7. h \in Heaps(Types, Names) /\ typedefs \in [Name -> Address] /\ L \subseteq Node
  BY <1>1 DEF Acyclic
<1>8. h' \in Heaps(Types, Names)
  BY <1>4, <1>6, <1>7 DEF Blank, Heaps
<1>9. typedefs' \in [Name -> Address] /\ \A s \in Name : typedefs'[s] \in {typedefs[s], NIL}
  BY <1>2, <1>4, <1>7 DEF Address, Defined
<1>10. \A n \in Node \ L : h'[n].of \in (Node \ L) \cup {NIL} /\ ToSet(h'[n].args) \subseteq Node \ L
  BY <1>1, <1>5, <1>6 DEF Acyclic, ToSet
<1>11. \A s \in Defined' : typedefs'[s] \in Node \ L
  BY <1>1, <1>9 DEF Acyclic, Defined, Undefined
<1>12. \A n \in Node : /\ h'[n].kind = "typedef" => h'[n].def \in Name
                       /\ h'[n].def # NIL => h'[n].kind = "typedef"
  BY <1>1, <1>5, <1>6 DEF Acyclic
<1>13. WellFounded(Node, Edges(h', typedefs', {}, L))
  <2>1. ASSUME NEW x, NEW y, <<x, y>> \in Edges(h', typedefs', {}, L)
        PROVE  <<x, y>> \in Edges(h, typedefs, {}, L)
    <3>1. /\ x \in Node /\ y \in Node /\ (x \in L => y \in L)
          /\ \/ y = h'[x].of
             \/ y \in ToSet(h'[x].args)
             \/ h'[x].kind = "typedef" /\ y = typedefs'[h'[x].def]
      BY <2>1 DEF Edges
    <3>2. x \notin F
      BY <1>5, <1>6, <3>1 DEF ToSet
    <3>3. /\ y # NIL
          /\ \/ y = h[x].of
             \/ y \in ToSet(h[x].args)
             \/ h[x].kind = "typedef" /\ y = typedefs'[h[x].def]
      BY <1>5, <1>6, <3>1, <3>2
    <3>4. h[x].kind = "typedef" => h[x].def \in Name
      BY <1>1, <3>1 DEF Acyclic
    <3>5. h[x].kind = "typedef" /\ y = typedefs'[h[x].def] => y = typedefs[h[x].def]
      BY <1>9, <3>3, <3>4
    <3>. QED
      BY <3>1, <3>3, <3>5 DEF Edges
  <2>2. PICK E, E2 : E = Edges(h, typedefs, {}, L) /\ E2 = Edges(h', typedefs', {}, L)
    OBVIOUS
  <2>3. E2 \cap (Node \X Node) \subseteq E
    BY <2>1, <2>2
  <2>4. WellFounded(Node, E)
    BY <1>1, <2>2 DEF Acyclic
  <2>. QED
    BY <2>2, <2>3, <2>4, Smaller
<1>14. Acyclic(L)'
  BY <1>7, <1>8, <1>9, <1>10, <1>11, <1>12, <1>13 DEF Acyclic
<1>15. \A n \in live' : n \in live /\ h'[n].args = h[n].args
  BY <1>4, <1>5 DEF Leaving
<1>16. ArgsOnce'
  BY <1>15 DEF Leaving, ArgsOnce
<1>17. live' \subseteq Node
  BY <1>4 DEF Leaving
<1>. QED
  BY <1>4, <1>14, <1>16, <1>17 DEF Leaving

-----------------------------------------------------------------------------
(* The invariant.                                                          *)

IInv ==
  /\ phase \in {"parse", "aborted"} => command \in Commands
  /\ ~Exiting => Going /\ OwnLists
  /\ Exiting => Leaving

\* The invariant holds in the first state.
LEMMA IInvInit ==
  ASSUME Init
  PROVE  IInv
  BY Init_Going DEF IInv, Exiting

\* What may happen once the exit has begun.
LEMMA ExitSteps ==
  ASSUME Exiting, Next
  PROVE  FreeTypedef \/ c_ast_cleanup \/ Terminated
<1>1. phase \notin {"idle", "parse"}
  BY DEF Exiting
<1>2. ~StartEnglish /\ ~StartGibberish /\ ~quit
  BY <1>1 DEF StartEnglish, StartGibberish, quit
<1>3. ~EnglishProduction /\ ~GibberishProduction
  BY <1>1, ProductionParses
<1>4. ~declare_english /\ ~cast_english /\ ~define_english /\ ~SyntaxError
  BY <1>1 DEF declare_english, cast_english, define_english, SyntaxError, EndEnglish,
              ParsingEnglish
<1>5. ~explain_declaration_c /\ ~explain_cast_c /\ ~typedef_declaration_c
  BY <1>1 DEF explain_declaration_c, explain_cast_c, typedef_declaration_c, Explain,
              EndGibberish, ParsingGibberish
<1>. QED
  BY <1>2, <1>3, <1>4, <1>5 DEF Next

\* Every step keeps the invariant: a production, the end of a command, or the
\* exit.
LEMMA IInvNext ==
  ASSUME IInv, [Next]_vars
  PROVE  IInv'
<1>1. CASE UNCHANGED vars
  <2>1. Halts /\ phase' = phase /\ command' = command /\ h' = h /\ live' = live /\ gc' = gc
        /\ values' = values /\ typeStack' = typeStack /\ typedefs' = typedefs
    <3>1. /\ UNCHANGED <<command, subject, ast, typedefs, in_attr, ast_depth>>
          /\ phase' = phase
      BY <1>1 DEF vars
    <3>. QED
      BY <3>1 DEF ast, in_attr, Halts
  <2>2. ~Exiting => Going' /\ OwnLists'
    <3>1. SUFFICES ASSUME ~Exiting PROVE Going' /\ OwnLists'
      OBVIOUS
    <3>2. Going /\ OwnLists
      BY <3>1 DEF IInv
    <3>3. PICK L, G, cl, vc, ix : State(L, G, cl, vc, ix)
      BY <3>2 DEF Going, Good
    <3>4. Good(L, G)'
      BY <2>1, <3>3, Halted
    <3>5. OwnLists'
      BY <2>1, <3>2 DEF OwnLists, On
    <3>. QED
      BY <3>4, <3>5 DEF Going
  <2>3. Leaving => Leaving'
    BY <2>1 DEF Leaving, Acyclic, Defined, Undefined, ArgsOnce
  <2>. QED
    BY <2>1, <2>2, <2>3 DEF IInv, Exiting
<1>2. CASE ~Exiting /\ ~quit /\ Next
  <2>1. Going /\ OwnLists
    BY <1>2 DEF IInv
  <2>2. PICK L, G : Good(L, G)
    BY <2>1 DEF Going
  <2>3. PICK cl, vc, ix : State(L, G, cl, vc, ix)
    BY <2>2 DEF Good
  <2>4. CASE StartEnglish \/ StartGibberish
    <3>1. Begins /\ command' \in Commands
      <4>1. subject \in Names
        BY <2>3 DEF State, Control
      <4>2. subject' \in Names
        <5>1. CASE StartGibberish
          BY <4>1, <5>1 DEF StartGibberish
        <5>2. CASE StartEnglish
          BY <5>2 DEF StartEnglish, Names, Undefined, English
        <5>. QED
          BY <2>4, <5>1, <5>2
      <4>3. /\ phase = "idle" /\ phase' = "parse" /\ command' \in Commands
            /\ UNCHANGED <<ast, typedefs, in_attr, ast_depth>>
        BY <2>4 DEF StartEnglish, StartGibberish
      <4>. QED
        BY <4>2, <4>3 DEF Begins
    <3>2. Good(L, G)'
      BY <2>3, <3>1, Begun
    <3>3. Going'
      BY <3>2 DEF Going
    <3>4. OwnLists'
      BY <2>1, <3>1 DEF Begins, ast, OwnLists, On
    <3>. QED
      BY <3>1, <3>3, <3>4 DEF IInv, Begins, Exiting
  <2>5. CASE EnglishProduction \/ GibberishProduction
    <3>1. Going' /\ OwnLists' /\ ~Exiting' /\ phase = "parse" /\ command' = command
      BY <2>1, <2>3, <2>5, Production_Going
    <3>. QED
      BY <3>1 DEF IInv
  <2>6. CASE \/ declare_english \/ cast_english \/ define_english
             \/ explain_declaration_c \/ explain_cast_c \/ SyntaxError \/ typedef_declaration_c
    <3>1. phase = "parse" /\ (Aborts \/ Cleans \/ Adds \/ Drops)
      <4>1. typedef_declaration_c => phase = "parse"
        BY DEF typedef_declaration_c, EndGibberish, ParsingGibberish
      <4>. QED
        BY <2>3, <2>6, <4>1, OtherEnds, TypedefEnds
    <3>2. Going' /\ OwnLists' /\ ~Exiting' /\ (phase' \in {"parse", "aborted"} => command' = command)
      BY <1>2, <2>1, <2>3, <3>1, Ended_Going
    <3>. QED
      BY <3>1, <3>2 DEF IInv
  <2>7. ~FreeTypedef /\ ~c_ast_cleanup
    BY <1>2 DEF FreeTypedef, c_ast_cleanup, Exiting
  <2>8. CASE Terminated
    BY <1>1, <2>8 DEF Terminated
  <2>. QED
    BY <1>2, <2>4, <2>5, <2>6, <2>7, <2>8 DEF Next
<1>3. CASE quit
  <2>1. /\ phase = "idle" /\ phase' = "exit" /\ live' = live /\ h' = h /\ gc' = gc
        /\ values' = values /\ typeStack' = typeStack /\ typedefs' = typedefs
    BY <1>3 DEF quit, ast, in_attr
  <2>2. Going /\ OwnLists /\ ~Exiting
    BY <2>1 DEF IInv, Exiting
  <2>3. PICK L, G, cl, vc, ix : State(L, G, cl, vc, ix)
    BY <2>2 DEF Going, Good
  <2>4. gc = <<>> /\ values = <<>> /\ typeStack = <<>> /\ live \subseteq Node
    BY <2>1, <2>3, StateFacts DEF State, Control
  <2>5. Acyclic(L)
    BY <2>3, BaseAcyclic DEF State
  <2>6. Acyclic(L)'
    BY <2>1, <2>5 DEF Acyclic, Defined, Undefined
  <2>7. ArgsOnce
    BY <2>2, <2>3, ArgsApart DEF ArgsOnce
  <2>8. ArgsOnce'
    BY <2>1, <2>7 DEF ArgsOnce
  <2>. QED
    BY <2>1, <2>4, <2>6, <2>8 DEF IInv, Leaving, Exiting
<1>4. CASE Exiting /\ Next /\ ~quit
  <2>1. Leaving
    BY <1>4 DEF IInv
  <2>2. CASE FreeTypedef
    <3>1. Leaving'
      BY <2>1, <2>2, Freed_Leaving
    <3>. QED
      BY <1>4, <2>2, <3>1 DEF IInv, FreeTypedef, Exiting
  <2>3. CASE c_ast_cleanup
    <3>1. /\ phase' = "exited" /\ live' = live /\ h' = h /\ gc' = gc
          /\ values' = values /\ typeStack' = typeStack /\ typedefs' = typedefs
      BY <2>3 DEF c_ast_cleanup, ast, in_attr
    <3>2. Leaving'
      BY <2>1, <3>1 DEF Leaving, Acyclic, Defined, Undefined, ArgsOnce
    <3>. QED
      BY <3>1, <3>2 DEF IInv, Exiting
  <2>4. CASE Terminated
    BY <1>1, <2>4 DEF Terminated
  <2>. QED
    BY <1>4, <2>2, <2>3, <2>4, ExitSteps
<1>. QED
  BY <1>1, <1>2, <1>3, <1>4

\* The invariant of the parser: while commands are read, the nodes are linked as
\* Good says and each is on one list at most; while the exit handler runs, no
\* chain of links comes back.
THEOREM IInvAlways == Spec => []IInv
<1>1. Init => IInv
  BY IInvInit
<1>2. IInv /\ [Next]_vars => IInv'
  BY IInvNext
<1>. QED
  BY <1>1, <1>2, PTL DEF Spec

\* A node is on one list at most, and once.
THEOREM OneListAlways == Spec => []OneList
<1>1. IInv => OneList
  <2>1. CASE IInv /\ Exiting
    BY <2>1, LeavingLists DEF IInv, Leaving
  <2>2. CASE IInv /\ ~Exiting
    <3>1. Going /\ OwnLists
      BY <2>2 DEF IInv
    <3>2. PICK L, G, cl, vc, ix : State(L, G, cl, vc, ix)
      BY <3>1 DEF Going, Good
    <3>. QED
      BY <2>2, <3>1, <3>2, GoingOneList DEF IInv
  <2>. QED
    BY <2>1, <2>2
<1>. QED
  BY <1>1, IInvAlways, PTL

\* No type is defined by itself.
THEOREM NotCircularAlways == Spec => []NotCircular
<1>1. ASSUME NEW L, Acyclic(L) PROVE NotCircular
  <2>1. SUFFICES ASSUME NEW T \in SUBSET Defined, T # {},
                        \A t \in T : \E n \in Tree(h, typedefs[t]) : h[n].def \in T
                 PROVE  FALSE
    BY DEF NotCircular, Tree
  <2>2. PICK E : E = Edges(h, typedefs, {}, L)
    OBVIOUS
  <2>3. /\ h \in Heaps(Types, Names) /\ L \subseteq Node /\ NIL \notin Node
        /\ WellFounded(Node, TreeEdges(h)) /\ WellFounded(Node, E)
        /\ \A n \in Node \ L : /\ h[n].of \in (Node \ L) \cup {NIL}
                               /\ ToSet(h[n].args) \subseteq Node \ L
        /\ \A t \in Defined : typedefs[t] \in Node \ L
        /\ \A n \in Node : h[n].def # NIL => h[n].kind = "typedef"
    BY <1>1, <2>2, TreeFounded, NilFacts DEF Acyclic
  <2>4. PICK X : X = {x \in Node \ L : \E y \in Tree(h, x) : h[y].def \in T}
    OBVIOUS
  <2>5. X \in SUBSET Node /\ \A t \in T : typedefs[t] \in X
    BY <2>1, <2>3, <2>4
  <2>6. X # {}
    BY <2>1, <2>5
  <2>7. PICK x \in X : \A z \in X : <<x, z>> \notin E
    BY <2>3, <2>5, <2>6 DEF WellFounded
  <2>8. x \in Node \ L /\ \A z \in Node : z = h[x].of \/ z \in ToSet(h[x].args) => <<x, z>> \in E
    <3>1. x \in Node \ L
      BY <2>4, <2>7
    <3>. QED
      BY <2>2, <3>1 DEF Edges
  <2>9. PICK y \in Tree(h, x) : h[y].def \in T
    BY <2>4, <2>7
  <2>10. \/ y = x
         \/ \E a \in ToSet(h[x].args) : a \in Node /\ y \in Tree(h, a)
         \/ h[x].of # NIL /\ h[x].of \in Node /\ y \in Tree(h, h[x].of)
    BY <2>3, <2>8, <2>9, TreeOf
  <2>11. CASE y = x
    <3>1. h[x].def \in T /\ h[x].def # NIL
      BY <2>1, <2>9, <2>11, NilFacts DEF Defined
    <3>2. h[x].kind = "typedef" /\ typedefs[h[x].def] \in X
      BY <2>3, <2>5, <2>8, <3>1
    <3>3. <<x, typedefs[h[x].def]>> \in E
      BY <2>2, <2>5, <2>8, <3>2 DEF Edges
    <3>. QED
      BY <2>7, <3>2, <3>3
  <2>12. CASE \E a \in ToSet(h[x].args) : a \in Node /\ y \in Tree(h, a)
    BY <2>3, <2>4, <2>7, <2>8, <2>9, <2>12
  <2>13. CASE h[x].of # NIL /\ h[x].of \in Node /\ y \in Tree(h, h[x].of)
    BY <2>3, <2>4, <2>7, <2>8, <2>9, <2>13
  <2>. QED
    BY <2>10, <2>11, <2>12, <2>13
<1>2. IInv => NotCircular
  <2>1. ASSUME IInv PROVE \E L : Acyclic(L)
    <3>1. CASE Exiting
      BY <2>1, <3>1 DEF IInv, Leaving
    <3>2. CASE ~Exiting
      BY <2>1, <3>2, BaseAcyclic DEF IInv, Going, Good, State
    <3>. QED
      BY <3>1, <3>2
  <2>. QED
    BY <1>1, <2>1
<1>. QED
  BY <1>2, IInvAlways, PTL


-----------------------------------------------------------------------------
(* The count of the nodes.                                                 *)

\* c_ast_count is the number of nodes.
Counted == count = Cardinality(live)

\* A list has as many members as it is long, when none is there twice.
LEMMA LengthCounts ==
  ASSUME NEW s \in Seq(Node), IsInjective(s)
  PROVE  Len(s) = Cardinality(ToSet(s)) /\ Len(s) \in Nat
<1>1. DOMAIN s = 1..Len(s) /\ Len(s) \in Nat
  OBVIOUS
<1>2. s \in Bijection(1..Len(s), ToSet(s))
  <2>1. s \in [1..Len(s) -> ToSet(s)]
    BY <1>1 DEF ToSet
  <2>2. \A i, j \in 1..Len(s) : s[i] = s[j] => i = j
    BY <1>1 DEF IsInjective
  <2>3. \A x \in ToSet(s) : \E i \in 1..Len(s) : s[i] = x
    BY <1>1 DEF ToSet
  <2>. QED
    BY <2>1, <2>2, <2>3 DEF Bijection, Injection, Surjection
<1>3. IsFiniteSet(1..Len(s)) /\ Cardinality(1..Len(s)) = Len(s)
  BY <1>1, FS_Interval
<1>4. ExistsBijection(1..Len(s), ToSet(s))
  BY <1>2 DEF ExistsBijection
<1>. QED
  BY <1>1, <1>3, <1>4, FS_Bijection

\* Freeing nodes of the list keeps the count.
LEMMA CountedLess ==
  ASSUME live \subseteq Node, Counted, NEW S \in SUBSET live,
         live' = live \ S, count' = count - Cardinality(S)
  PROVE  Counted'
<1>1. IsFiniteSet(live)
  BY NilFacts, FS_Subset
<1>2. Cardinality(live \ S) = Cardinality(live) - Cardinality(live \cap S) /\ live \cap S = S
  BY <1>1, FS_Difference
<1>. QED
  BY <1>2 DEF Counted

\* So does allocating new ones.
LEMMA CountedMore ==
  ASSUME live \subseteq Node, Counted,
         \/ live' = live /\ count' = count
         \/ Room(1) /\ c_ast_new(<<Free1>>)
         \/ Room(2) /\ c_ast_new(<<Free1, Free2>>),
         NEW L, HeapOK(L)
  PROVE  Counted'
<1>1. IsFiniteSet(live)
  BY NilFacts, FS_Subset
<1>2. CASE live' = live /\ count' = count
  BY <1>2 DEF Counted
<1>3. CASE Room(1) /\ c_ast_new(<<Free1>>)
  <2>1. PICK f : f = Free1
    OBVIOUS
  <2>2. f \notin live
    BY <1>3, <2>1, RoomFree
  <2>3. live' = live \cup {f} /\ count' = count + 1
    BY <1>3, <2>1 DEF c_ast_new, ToSet
  <2>. QED
    BY <1>1, <2>2, <2>3, FS_AddElement DEF Counted
<1>4. CASE Room(2) /\ c_ast_new(<<Free1, Free2>>)
  <2>1. PICK f, g : f = Free1 /\ g = Free2
    OBVIOUS
  <2>2. f \notin live /\ g \notin live \cup {f}
    BY <1>4, <2>1, RoomFree
  <2>3. live' = (live \cup {f}) \cup {g} /\ count' = count + 2
    <3>1. ToSet(<<f, g>>) = {f, g} /\ Len(<<f, g>>) = 2
      BY DEF ToSet
    <3>. QED
      BY <1>4, <2>1, <3>1 DEF c_ast_new
  <2>4. Cardinality(live \cup {f}) = Cardinality(live) + 1 /\ IsFiniteSet(live \cup {f})
    BY <1>1, <2>2, FS_AddElement
  <2>5. Cardinality((live \cup {f}) \cup {g}) = Cardinality(live \cup {f}) + 1
    BY <2>2, <2>4, FS_AddElement
  <2>6. Cardinality(live) \in Nat
    BY <1>1, FS_CardinalityType
  <2>. QED
    BY <2>3, <2>4, <2>5, <2>6 DEF Counted
<1>. QED
  BY <1>2, <1>3, <1>4

\* What the productions allocate.
LEMMA ProductionAllocates ==
  ASSUME GibberishProduction \/ EnglishProduction
  PROVE  \/ live' = live /\ count' = count
         \/ Room(1) /\ c_ast_new(<<Free1>>)
         \/ Room(2) /\ c_ast_new(<<Free1, Free2>>)
<1> DEFINE Allocates == \/ live' = live /\ count' = count
                        \/ Room(1) /\ c_ast_new(<<Free1>>)
                        \/ Room(2) /\ c_ast_new(<<Free1, Free2>>)
<1>1. ASSUME AddArray PROVE Allocates
  BY <1>1 DEF AddArray, Abort, ast
<1>2. ASSUME AddFunction PROVE Allocates
  BY <1>2 DEF AddFunction, Abort, ast
<1>3. ASSUME NEW kind, derived_decl_c(kind) PROVE Allocates
  BY <1>3 DEF derived_decl_c, Abort, ast
<1>4. ASSUME NEW kind, derived_type_c(kind) PROVE Allocates
  BY <1>4 DEF derived_type_c
<1>5. ASSUME Unnest PROVE Allocates
  BY <1>5 DEF Unnest, ast
<1>6. ASSUME type_ast_c \/ name_c \/ typedef_decl_c \/ no_cast_c PROVE Allocates
  BY <1>6 DEF type_ast_c, name_c, typedef_decl_c, no_cast_c, ast
<1>7. ASSUME placeholder_type_ast_c \/ ArgsOpen \/ arg_c PROVE Allocates
  BY <1>7 DEF placeholder_type_ast_c, ArgsOpen, arg_c, ast
<1>8. ASSUME GibberishProduction PROVE Allocates
  <2> HIDE DEF Allocates
  <2>. QED
    BY <1>1, <1>2, <1>3, <1>4, <1>5, <1>6, <1>7, <1>8
       DEF GibberishProduction, pointer_type_c, pointer_decl_c, pointer_cast_c, reference_type_c,
           reference_decl_c, reference_cast_c, nested_decl_c, nested_cast_c, array_decl_c,
           array_cast_c, func_decl_c, func_cast_c
<1>9. ASSUME NEW kind, derived_decl_english(kind) PROVE Allocates
  BY <1>9 DEF derived_decl_english
<1>10. ASSUME FuncDeclEnglish PROVE Allocates
  BY <1>10 DEF FuncDeclEnglish, func_decl_english
<1>11. ASSUME type_english \/ reference_english \/ reference_decl_english PROVE Allocates
  BY <1>11 DEF type_english, reference_english, reference_decl_english
<1>12. ASSUME decl_list_english \/ returning_void_english PROVE Allocates
  BY <1>12 DEF decl_list_english, returning_void_english, ast
<1>13. ASSUME EnglishProduction PROVE Allocates
  <2> HIDE DEF Allocates
  <2>. QED
    BY <1>9, <1>10, <1>11, <1>12, <1>13
       DEF EnglishProduction, pointer_decl_english, array_decl_english
<1>. QED
  BY <1>8, <1>13

\* The end of a command keeps the count.
LEMMA Ended_Counted ==
  ASSUME NEW L, NEW G, NEW cl, NEW vc, NEW ix, State(L, G, cl, vc, ix), Counted,
         Aborts \/ Cleans \/ Adds \/ Drops
  PROVE  Counted'
<1>1. /\ live \subseteq Node /\ On \subseteq live /\ gc \in Seq(Node) /\ IsInjective(gc)
  BY StateFacts
<1>2. CASE Aborts
  BY <1>2 DEF Aborts, ast, Counted
<1>3. CASE Cleans
  <2>1. live' = live \ On /\ count' = count - Len(gc)
    BY <1>3 DEF Cleans, parse_cleanup, c_ast_gc, On
  <2>2. Len(gc) = Cardinality(On)
    BY <1>1, LengthCounts DEF On
  <2>. QED
    BY <1>1, <2>1, <2>2, CountedLess
<1>4. CASE Adds
  BY <1>4 DEF Adds, AddTypedef, Counted
<1>5. CASE Drops
  <2>1. PICK type, decl : type = Below.ast /\ decl = Top.ast
    OBVIOUS
  <2>2. PICK both : both = c_ast_free(h, recursive, type)
                             \o c_ast_free(h, recursive \cup {gc[1]}, decl)
    OBVIOUS
  <2>3. both = <<type>> \o <<decl>> /\ type \in On /\ decl \in On /\ type # decl
    BY <1>5, <2>1, <2>2, DuplicateFreed DEF Drops
  <2>4. live' = live \ ToSet(both) /\ count' = count - Len(both)
    BY <1>5, <2>1, <2>2 DEF Drops, DropDuplicate
  <2>5. ToSet(both) = {type, decl} /\ Len(both) = 2
    <3>1. ToSet(<<type>> \o <<decl>>) = {type, decl}
      BY DEF ToSet
    <3>2. Len(<<type>> \o <<decl>>) = 2
      OBVIOUS
    <3>. QED
      BY <2>3, <3>1, <3>2
  <2>6. Cardinality({type, decl}) = 2
    <3>1. IsFiniteSet({type}) /\ Cardinality({type}) = 1
      BY FS_Singleton
    <3>2. {type, decl} = {type} \cup {decl} /\ decl \notin {type}
      BY <2>3
    <3>. QED
      BY <3>1, <3>2, FS_AddElement
  <2>. QED
    BY <1>1, <2>3, <2>4, <2>5, <2>6, CountedLess
<1>. QED
  BY <1>2, <1>3, <1>4, <1>5

\* Until the exit the count is right.
THEOREM CountExactAlways == Spec => [](~Exiting => Counted)
<1>1. Init => Counted
  BY DEF Init, Counted
<1>2. ASSUME IInv, ~Exiting => Counted, [Next]_vars, ~Exiting'
      PROVE  Counted'
  <2>1. CASE UNCHANGED vars
    BY <1>2, <2>1 DEF vars, ast, Counted, Exiting
  <2>2. CASE StartEnglish \/ StartGibberish
    <3>1. ~Exiting /\ UNCHANGED ast
      BY <2>2 DEF StartEnglish, StartGibberish, Exiting
    <3>. QED
      BY <1>2, <3>1 DEF ast, Counted
  <2>3. ASSUME phase = "parse"
        PROVE  Counted /\ \E L, G, cl, vc, ix : State(L, G, cl, vc, ix)
    BY <1>2, <2>3 DEF IInv, Exiting, Going, Good
  <2>4. CASE EnglishProduction \/ GibberishProduction
    <3>1. phase = "parse"
      BY <2>4, ProductionParses
    <3>2. PICK L, G, cl, vc, ix : State(L, G, cl, vc, ix)
      BY <2>3, <3>1
    <3>3. live \subseteq Node /\ HeapOK(L)
      BY <3>2 DEF State, Base, HeapOK
    <3>. QED
      BY <2>3, <2>4, <3>1, <3>3, CountedMore, ProductionAllocates
  <2>5. CASE \/ declare_english \/ cast_english \/ define_english
             \/ explain_declaration_c \/ explain_cast_c \/ SyntaxError \/ typedef_declaration_c
    <3>1. phase = "parse"
      BY <2>5 DEF declare_english, cast_english, define_english, explain_declaration_c,
                  explain_cast_c, SyntaxError, typedef_declaration_c, Explain, EndEnglish,
                  ParsingEnglish, EndGibberish, ParsingGibberish
    <3>2. PICK L, G, cl, vc, ix : State(L, G, cl, vc, ix)
      BY <2>3, <3>1
    <3>3. Aborts \/ Cleans \/ Adds \/ Drops
      BY <2>5, <3>2, OtherEnds, TypedefEnds
    <3>. QED
      BY <2>3, <3>1, <3>2, <3>3, Ended_Counted
  <2>6. CASE quit \/ c_ast_cleanup
    BY <1>2, <2>6 DEF quit, c_ast_cleanup, Exiting
  <2>7. CASE FreeTypedef
    BY <1>2, <2>7 DEF FreeTypedef, Exiting
  <2>8. CASE Terminated
    BY <2>1, <2>8 DEF Terminated
  <2>. QED
    BY <1>2, <2>1, <2>2, <2>4, <2>5, <2>6, <2>7, <2>8 DEF Next
<1>3. IInv /\ (~Exiting => Counted) /\ [Next]_vars => (~Exiting => Counted)'
  BY <1>2
<1>. QED
  BY <1>1, <1>3, IInvAlways, PTL DEF Spec

-----------------------------------------------------------------------------
(* Until the exit.                                                         *)

\* The nodes that values are about have not been freed.
LEMMA ValuesLive ==
  ASSUME NEW L, NEW G, NEW cl, NEW vc, NEW ix, State(L, G, cl, vc, ix),
         phase \in {"parse", "aborted"} => command \in Commands, ~Exiting
  PROVE  \A i \in 1..N : values[i].ast \in On \cup {NIL} /\ values[i].target \in On \cup {NIL}
<1>1. CASE command \in English
  BY <1>1 DEF State, Eng
<1>2. CASE command \in Gibberish
  BY <1>2 DEF State, Gib, Levels
<1>3. CASE command \notin AllCommands
  <2>1. phase \notin {"parse", "aborted"}
    BY <1>3, ParserAssumption
  <2>2. N = 0
    BY <2>1 DEF State, Control, N
  <2>. QED
    BY <2>2
<1>. QED
  BY <1>1, <1>2, <1>3 DEF AllCommands

\* Until the exit handler runs, nothing the parser holds has been freed: the values,
\* the type stack, the lists of arguments and the typedef table.
THEOREM HeldUntilExit == Spec => [](~Exiting => TypeOK)
<1>1. ASSUME IInv, Counted, ~Exiting PROVE TypeOK
  <2>1. Going /\ OwnLists /\ (phase \in {"parse", "aborted"} => command \in Commands)
    BY <1>1 DEF IInv
  <2>2. PICK L, G, cl, vc, ix : State(L, G, cl, vc, ix)
    BY <2>1 DEF Going, Good
  <2>3. /\ DOMAIN values = 1..N /\ On \subseteq live /\ live \subseteq Node
        /\ \A i \in 1..N : values[i].ast \in On \cup {NIL} /\ values[i].target \in On \cup {NIL}
        /\ \A i \in 1..N : ToSet(values[i].list) \subseteq On
    <3>1. DOMAIN values = 1..N
      BY <2>2 DEF State, ValuesOK, N
    <3>2. \A i \in 1..N : values[i].ast \in On \cup {NIL} /\ values[i].target \in On \cup {NIL}
      BY <1>1, <2>1, <2>2, ValuesLive
    <3>3. \A i \in 1..N : ToSet(values[i].list) \subseteq On
      BY <2>2, ValueLists
    <3>4. On \subseteq live /\ live \subseteq Node
      BY <2>2, StateFacts
    <3>. QED
      BY <3>1, <3>2, <3>3, <3>4
  <2>4. ToSet(typeStack) \subseteq On
    <3>1. typeStack = <<>> \/ command \in Gibberish
      BY <1>1, <2>1, <2>2, ParserAssumption DEF State, Control, Eng, AllCommands, Exiting
    <3>. QED
      BY <2>2, <3>1, StackApart
  <2>5. \A n \in live : ToSet(h[n].args) \subseteq live
    BY <2>2 DEF State, Base, HeapOK, LinksOK, Owned
  <2>6. \A p \in Places : ToSet(ListAt(p)) \subseteq live
    BY <2>3, <2>5 DEF Places, ListAt
  <2>7. typedefs \in [Name -> live \cup {NIL}]
    <3>1. typedefs \in [Name -> Address] /\ \A t \in Defined : typedefs[t] \in live
      BY <2>2 DEF State, Base, HeapOK, TableOK, Owned
    <3>. QED
      BY <3>1 DEF Defined, Undefined
  <2>8. count \in Nat
    <3>1. IsFiniteSet(live)
      BY <2>3, NilFacts, FS_Subset
    <3>. QED
      BY <1>1, <3>1, FS_CardinalityType DEF Counted
  <2>9. /\ phase \in {"idle", "parse", "exit", "exited", "aborted"}
        /\ command \in Commands \cup {NIL} /\ subject \in Name \cup {NIL}
        /\ phase = "idle" => command = NIL
        /\ ast_depth \in 0..MaxDepth
    BY <2>2 DEF State, Control, Names
  <2>10. /\ IsInjective(gc) /\ recursive \subseteq live
         /\ \A n \in live : h[n].kind \in Kind
    BY <2>2 DEF State, Base, HeapOK
  <2>. QED
    BY <2>3, <2>4, <2>6, <2>7, <2>8, <2>9, <2>10 DEF TypeOK, On
<1>2. IInv /\ (~Exiting => Counted) => (~Exiting => TypeOK)
  BY <1>1
<1>. QED
  BY <1>2, IInvAlways, CountExactAlways, PTL

-----------------------------------------------------------------------------
(* What a type name means.                                                 *)

\* What Meaning says of m, when f is what it says of the nodes below.
MeansBody(g, T, f, m) ==
  IF m = NIL THEN <<>>
  ELSE IF g[m].kind = "typedef" THEN f[T[g[m].def]]
  ELSE <<Op(g[m].kind, [i \in DOMAIN g[m].args |-> f[g[m].args[i]]], g[m].type)>>
       \o (IF c_ast_is_parent(g, m) THEN f[g[m].of] ELSE <<>>)

\* f solves the recursion of Meaning.
Means(g, T, f) == f = [m \in Address |-> MeansBody(g, T, f, m)]

\* A step from m to n of the recursion.
LeadsTo(g, T, m, n) ==
  \/ n = NIL
  \/ g[m].kind = "typedef" /\ n = T[g[m].def]
  \/ n = g[m].of
  \/ \E i \in DOMAIN g[m].args : n = g[m].args[i]

\* The recursion ends: each step leads to an address, along E unless to NIL.
Ends(g, T, E) ==
  /\ WellFounded(Node, E)
  /\ \A m \in Node : \A n : LeadsTo(g, T, m, n) => n = NIL \/ (n \in Node /\ <<m, n>> \in E)

\* Only what is below a node counts.
LEMMA MeansLocal ==
  ASSUME NEW g, NEW T, NEW f, NEW f2, NEW m,
         m # NIL => \A n : LeadsTo(g, T, m, n) => f[n] = f2[n]
  PROVE  MeansBody(g, T, f, m) = MeansBody(g, T, f2, m)
<1>1. CASE m = NIL
  BY <1>1 DEF MeansBody
<1>2. CASE m # NIL /\ g[m].kind = "typedef"
  BY <1>2 DEF MeansBody, LeadsTo
<1>3. CASE m # NIL /\ g[m].kind # "typedef"
  <2>1. /\ f[g[m].of] = f2[g[m].of]
        /\ \A i \in DOMAIN g[m].args : f[g[m].args[i]] = f2[g[m].args[i]]
    BY <1>3 DEF LeadsTo
  <2>2. [i \in DOMAIN g[m].args |-> f[g[m].args[i]]] = [i \in DOMAIN g[m].args |-> f2[g[m].args[i]]]
    BY <2>1
  <2>. QED
    BY <1>3, <2>1, <2>2 DEF MeansBody
<1>. QED
  BY <1>1, <1>2, <1>3

\* f solves the recursion for A, which has what is below its members.
Solves(g, T, A, f) ==
  /\ A \in SUBSET Address
  /\ \A m \in A : m # NIL => \A n : LeadsTo(g, T, m, n) => n \in A
  /\ \A m \in A : f[m] = MeansBody(g, T, f, m)

\* Two solutions agree.
LEMMA SolvesSame ==
  ASSUME NIL \notin Node, NEW g, NEW T, NEW E, Ends(g, T, E),
         NEW A, NEW f, Solves(g, T, A, f), NEW A2, NEW f2, Solves(g, T, A2, f2)
  PROVE  \A x \in A \cap A2 : f[x] = f2[x]
<1>0. NIL \in A \cap A2 => f[NIL] = f2[NIL]
  BY DEF Solves, MeansBody
<1>1. SUFFICES ASSUME NEW S, S = {y \in A \cap A2 : y # NIL /\ f[y] # f2[y]}, S # {}
               PROVE  FALSE
  BY <1>0
<1>2. S \in SUBSET Node
  BY <1>1 DEF Solves, Address
<1>3. PICK m \in S : \A n \in S : <<m, n>> \notin E
  BY <1>1, <1>2 DEF Ends, WellFounded
<1>4. \A n : LeadsTo(g, T, m, n) => f[n] = f2[n]
  <2>1. SUFFICES ASSUME NEW n, LeadsTo(g, T, m, n) PROVE f[n] = f2[n]
    OBVIOUS
  <2>2. n \in A \cap A2
    BY <1>1, <1>3, <2>1 DEF Solves
  <2>3. CASE n = NIL
    BY <2>2, <2>3 DEF Solves, MeansBody
  <2>4. CASE n # NIL
    BY <1>1, <1>2, <1>3, <2>1, <2>2, <2>4 DEF Ends
  <2>. QED
    BY <2>3, <2>4
<1>5. MeansBody(g, T, f, m) = MeansBody(g, T, f2, m)
  BY <1>4, MeansLocal
<1>. QED
  BY <1>1, <1>3, <1>5 DEF Solves

\* There is a solution.
LEMMA MeansSolved ==
  ASSUME NIL \notin Node, NEW g, NEW T, NEW E, Ends(g, T, E)
  PROVE  \E f : Means(g, T, f)
<1> DEFINE In(x, A, f) == x \in A /\ Solves(g, T, A, f)
           U == {x \in Address : \E A, f : In(x, A, f)}
           W(x) == CHOOSE f : \E A : In(x, A, f)
           s == [x \in Address |-> W(x)[x]]
<1>1. ASSUME NEW A, NEW f, Solves(g, T, A, f), NEW x \in A
      PROVE  x \in U /\ s[x] = f[x]
  <2>1. x \in Address /\ In(x, A, f)
    BY <1>1 DEF Solves
  <2>2. PICK A2 : In(x, A2, W(x))
    <3> HIDE DEF In
    <3>. QED
      BY <2>1
  <2> HIDE DEF W
  <2>3. W(x)[x] = f[x]
    BY <1>1, <2>2, SolvesSame
  <2>. QED
    BY <2>1, <2>3
<1>2. Solves(g, T, U, s)
  <2>1. ASSUME NEW x \in U PROVE \E A, f : In(x, A, f)
    OBVIOUS
  <2>2. U \in SUBSET Address
    OBVIOUS
  <2>3. ASSUME NEW m \in U
        PROVE  /\ m # NIL => \A n : LeadsTo(g, T, m, n) => n \in U
               /\ s[m] = MeansBody(g, T, s, m)
    <3>1. PICK A, f : m \in A /\ Solves(g, T, A, f)
      BY <2>1
    <3> HIDE DEF s, U, In
    <3>2. \A n \in A : n \in U /\ s[n] = f[n]
      BY <3>1, <1>1
    <3>3. m # NIL => \A n : LeadsTo(g, T, m, n) => n \in A
      BY <3>1 DEF Solves
    <3>4. m # NIL => \A n : LeadsTo(g, T, m, n) => f[n] = s[n]
      BY <3>2, <3>3
    <3>5. MeansBody(g, T, f, m) = MeansBody(g, T, s, m)
      BY <3>4, MeansLocal
    <3>6. f[m] = MeansBody(g, T, f, m)
      BY <3>1 DEF Solves
    <3>. QED
      BY <3>1, <3>2, <3>3, <3>5, <3>6
  <2> HIDE DEF s, U
  <2>. QED
    BY <2>2, <2>3 DEF Solves
<1>3. U \subseteq Address /\ s = [x \in Address |-> s[x]]
  OBVIOUS
<1> HIDE DEF s, U
<1>4. NIL \in U
  <2>1. PICK f : f = [x \in {NIL} |-> <<>>]
    OBVIOUS
  <2>2. Solves(g, T, {NIL}, f)
    BY <2>1 DEF Solves, Address, MeansBody
  <2>. QED
    BY <1>1, <2>2
<1>5. U = Address
  <2>1. SUFFICES ASSUME U # Address PROVE FALSE
    OBVIOUS
  <2>2. PICK D : D = Address \ U
    OBVIOUS
  <2>3. D \in SUBSET Node /\ D # {}
    BY <1>3, <1>4, <2>1, <2>2 DEF Address
  <2>4. PICK d \in D : \A n \in D : <<d, n>> \notin E
    BY <2>3 DEF Ends, WellFounded
  <2>5. PICK f : f = [x \in U \cup {d} |-> IF x = d THEN MeansBody(g, T, s, d) ELSE s[x]]
    OBVIOUS
  <2>6. d \notin U /\ d \in Node /\ d # NIL
    BY <2>2, <2>3, <2>4
  <2>7. f[d] = MeansBody(g, T, s, d) /\ \A x \in U : f[x] = s[x]
    BY <2>5, <2>6
  <2>8. \A n : LeadsTo(g, T, d, n) => n \in U
    BY <1>4, <2>2, <2>4, <2>6 DEF Ends, Address
  <2>9. ASSUME NEW m \in U \cup {d} PROVE f[m] = MeansBody(g, T, f, m)
    <3>1. m # NIL => \A n : LeadsTo(g, T, m, n) => n \in U
      BY <1>2, <2>8, <2>9 DEF Solves
    <3>2. m # NIL => \A n : LeadsTo(g, T, m, n) => s[n] = f[n]
      BY <2>7, <3>1
    <3>3. MeansBody(g, T, s, m) = MeansBody(g, T, f, m)
      BY <3>2, MeansLocal
    <3>4. f[m] = MeansBody(g, T, s, m)
      BY <1>2, <2>7, <2>9 DEF Solves
    <3>. QED
      BY <3>3, <3>4
  <2>10. Solves(g, T, U \cup {d}, f)
    BY <1>2, <1>3, <2>3, <2>4, <2>8, <2>9 DEF Solves, Address
  <2>. QED
    BY <1>1, <2>6, <2>10
<1>. QED
  BY <1>2, <1>3, <1>5 DEF Solves, Means

\* The function that Meaning takes its values from.
Meanings(g, T) == CHOOSE f : Means(g, T, f)

\* The node m denotes the same in g2 as in g, as far as its own contents go.
SameNode(g, g2, m) ==
  /\ g2[m].kind = g[m].kind /\ g2[m].type = g[m].type /\ g2[m].def = g[m].def
  /\ g2[m].of = g[m].of /\ g2[m].args = g[m].args

\* Nodes that stay, and stay linked among themselves, keep their meaning.
LEMMA MeaningStays ==
  ASSUME NIL \notin Node, NEW g, NEW T, NEW E, Ends(g, T, E),
         NEW g2, NEW T2, NEW E2, Ends(g2, T2, E2),
         NEW S \in SUBSET Node,
         \A m \in S : /\ SameNode(g, g2, m)
                      /\ g[m].kind = "typedef" => T2[g[m].def] = T[g[m].def]
                      /\ \A n : LeadsTo(g, T, m, n) => n \in S \cup {NIL}
  PROVE  \A n \in S : Meanings(g2, T2)[n] = Meanings(g, T)[n]
<1>1. PICK f, f2 : f = Meanings(g, T) /\ f2 = Meanings(g2, T2)
  OBVIOUS
<1>2. Means(g, T, f) /\ Means(g2, T2, f2)
  BY <1>1, MeansSolved DEF Meanings
<1>3. \A m \in Address : f[m] = MeansBody(g, T, f, m) /\ f2[m] = MeansBody(g2, T2, f2, m)
  BY <1>2 DEF Means
<1>4. PICK A : A = S \cup {NIL}
  OBVIOUS
<1>5. A \in SUBSET Address /\ \A m \in A : m # NIL => \A n : LeadsTo(g, T, m, n) => n \in A
  BY <1>4 DEF Address
<1>6. Solves(g, T, A, f)
  BY <1>3, <1>5 DEF Solves
<1>7. \A m \in A : MeansBody(g2, T2, f2, m) = MeansBody(g, T, f2, m)
  <2>1. SUFFICES ASSUME NEW m \in A, m # NIL PROVE MeansBody(g2, T2, f2, m) = MeansBody(g, T, f2, m)
    BY DEF MeansBody
  <2>2. m \in S
    BY <1>4, <2>1
  <2>3. SameNode(g, g2, m) /\ (g[m].kind = "typedef" => T2[g[m].def] = T[g[m].def])
    BY <2>2
  <2>. QED
    BY <2>1, <2>3 DEF SameNode, MeansBody, c_ast_is_parent
<1>8. Solves(g, T, A, f2)
  BY <1>3, <1>5, <1>7 DEF Solves
<1>. QED
  BY <1>1, <1>4, <1>6, <1>8, SolvesSame

\* While a session goes on, the recursion of Meaning ends.
LEMMA MeaningEnds ==
  IInv /\ ~Exiting => \E E : Ends(h, typedefs, E)
<1>1. SUFFICES ASSUME IInv, ~Exiting PROVE Ends(h, typedefs, LinkEdges)
  OBVIOUS
<1>2. PICK L, G, cl, vc, ix : State(L, G, cl, vc, ix)
  BY <1>1 DEF IInv, Going, Good
<1>3. /\ h \in Heaps(Types, Names) /\ typedefs \in [Name -> Address]
      /\ \A n \in Node : h[n].kind = "typedef" => h[n].def \in Defined
  <2>1. NoAst.kind # "typedef"
    BY Kinds DEF NoAst
  <2>. QED
    BY <1>1, <1>2, <2>1 DEF State, Base, HeapOK, TableOK, Exiting
<1>4. WellFounded(Node, LinkEdges)
  BY <1>2, <1>3, BaseAcyclic, LinksFounded DEF State
<1>5. ASSUME NEW m \in Node, NEW n, LeadsTo(h, typedefs, m, n), n # NIL
      PROVE  n \in Node /\ <<m, n>> \in LinkEdges
  <2>1. h[m].of \in Node \cup {NIL} /\ h[m].args \in Seq(Node)
    BY <1>3, HeapFields DEF Address
  <2>2. CASE h[m].kind = "typedef" /\ n = typedefs[h[m].def]
    <3>1. n \in Node
      BY <1>3, <1>5, <2>2 DEF Address, Defined
    <3>. QED
      BY <2>2, <3>1 DEF LinkEdges
  <2>3. CASE n = h[m].of
    BY <1>5, <2>1, <2>3 DEF LinkEdges, TreeEdges
  <2>4. CASE \E i \in DOMAIN h[m].args : n = h[m].args[i]
    <3>1. n \in Node /\ n \in ToSet(h[m].args)
      BY <2>1, <2>4 DEF ToSet
    <3>. QED
      BY <3>1 DEF LinkEdges, TreeEdges
  <2>. QED
    BY <1>5, <2>2, <2>3, <2>4 DEF LeadsTo
<1>. QED
  BY <1>4, <1>5 DEF Ends

\* The nodes of type names and what they are defined as stay.
EntriesStay ==
  /\ \A n \in live \ On : h'[n] = h[n]
  /\ \A t \in Defined : typedefs'[t] = typedefs[t]

\* So they do at the end of a command.
LEMMA Ended_Stay ==
  ASSUME NEW L, NEW G, NEW cl, NEW vc, NEW ix, State(L, G, cl, vc, ix),
         Aborts \/ Cleans \/ Adds \/ Drops
  PROVE  EntriesStay
<1>1. On \subseteq live /\ live \subseteq Node /\ typedefs \in [Name -> Address]
  BY StateFacts DEF State, Base, HeapOK
<1>2. CASE Aborts
  BY <1>2 DEF Aborts, ast, EntriesStay
<1>3. CASE Cleans
  BY <1>1, <1>3 DEF Cleans, parse_cleanup, c_ast_gc, On, Blank, EntriesStay
<1>4. CASE Adds
  <2>1. PICK t : /\ Retyped(t) /\ Idle
                 /\ \E name \in Undefined, root \in On : AddTypedef(name, root)
    BY <1>4 DEF Adds
  <2>2. PICK name \in Undefined, root \in On : AddTypedef(name, root)
    BY <2>1
  <2>3. \A s \in Defined : typedefs'[s] = typedefs[s]
    BY <1>1, <2>2 DEF AddTypedef, Defined
  <2>. QED
    BY <1>1, <2>1, <2>3 DEF Retyped, EntriesStay
<1>5. CASE Drops
  <2>1. PICK type, decl : type = Below.ast /\ decl = Top.ast
    OBVIOUS
  <2>2. PICK both : both = c_ast_free(h, recursive, type)
                             \o c_ast_free(h, recursive \cup {gc[1]}, decl)
    OBVIOUS
  <2>3. both = <<type>> \o <<decl>> /\ type \in On /\ decl \in On
    BY <1>5, <2>1, <2>2, DuplicateFreed DEF Drops
  <2>4. h' = Blank(h, ToSet(both)) /\ typedefs' = typedefs
    BY <1>5, <2>1, <2>2 DEF Drops, DropDuplicate
  <2>5. ToSet(<<type>> \o <<decl>>) = {type, decl}
    BY DEF ToSet
  <2>. QED
    BY <1>1, <2>3, <2>4, <2>5 DEF Blank, EntriesStay
<1>. QED
  BY <1>2, <1>3, <1>4, <1>5

\* And in any step before the exit.
LEMMA Next_Stay ==
  ASSUME IInv, [Next]_vars, phase # "exit"
  PROVE  EntriesStay
<1>1. CASE UNCHANGED <<h, typedefs>>
  BY <1>1 DEF EntriesStay
<1>2. ASSUME phase = "parse"
      PROVE  \E L, G, cl, vc, ix : State(L, G, cl, vc, ix)
  BY <1>2 DEF IInv, Exiting, Going, Good
<1>3. CASE EnglishProduction \/ GibberishProduction
  <2>1. phase = "parse" /\ (Aborts \/ ProductionFrame)
    BY <1>3, ProductionParses
  <2>2. PICK L, G, cl, vc, ix : State(L, G, cl, vc, ix)
    BY <1>2, <2>1
  <2>3. CASE Aborts
    BY <2>2, <2>3, Ended_Stay
  <2>4. CASE ~Aborts
    <3>1. phase' = "parse" /\ typedefs' = typedefs
      BY <2>1, <2>4 DEF ProductionFrame
    <3>2. Good(L, G)'
      BY <1>3, <2>2, <3>1, GibberishProduction_Good, EnglishProduction_Good
    <3>3. Kept(G) /\ Kept(G)'
      BY <2>2, <3>2 DEF State, Good, Base
    <3>. QED
      BY <3>1, <3>3 DEF EntriesStay, Kept
  <2>. QED
    BY <2>3, <2>4
<1>4. CASE \/ declare_english \/ cast_english \/ define_english
           \/ explain_declaration_c \/ explain_cast_c \/ SyntaxError \/ typedef_declaration_c
  <2>1. phase = "parse"
    BY <1>4 DEF declare_english, cast_english, define_english, explain_declaration_c,
                explain_cast_c, SyntaxError, typedef_declaration_c, Explain, EndEnglish,
                ParsingEnglish, EndGibberish, ParsingGibberish
  <2>2. PICK L, G, cl, vc, ix : State(L, G, cl, vc, ix)
    BY <1>2, <2>1
  <2>3. Aborts \/ Cleans \/ Adds \/ Drops
    BY <1>4, <2>2, OtherEnds, TypedefEnds
  <2>. QED
    BY <2>2, <2>3, Ended_Stay
<1>5. CASE StartEnglish \/ StartGibberish \/ quit
  BY <1>1, <1>5 DEF StartEnglish, StartGibberish, quit, ast
<1>6. CASE FreeTypedef \/ c_ast_cleanup
  BY <1>6 DEF FreeTypedef, c_ast_cleanup
<1>7. CASE UNCHANGED vars
  BY <1>1, <1>7 DEF vars, ast
<1>8. CASE Terminated
  BY <1>7, <1>8 DEF Terminated
<1>. QED
  BY <1>3, <1>4, <1>5, <1>6, <1>7, <1>8 DEF Next

\* Only quit begins it.
LEMMA QuitSteps ==
  ASSUME IInv, Next, ~Exiting, Exiting'
  PROVE  quit
<1>1. Going /\ OwnLists
  BY DEF IInv
<1>2. PICK L, G, cl, vc, ix : State(L, G, cl, vc, ix)
  BY <1>1 DEF Going, Good
<1>3. ~StartEnglish /\ ~StartGibberish
  BY DEF StartEnglish, StartGibberish, Exiting
<1>4. ~EnglishProduction /\ ~GibberishProduction
  BY <1>1, <1>2, Production_Going
<1>5. ~declare_english /\ ~cast_english /\ ~define_english /\ ~SyntaxError
      /\ ~explain_declaration_c /\ ~explain_cast_c /\ ~typedef_declaration_c
  BY <1>1, <1>2, OtherEnds, TypedefEnds, Ended_Going
<1>6. ~FreeTypedef /\ ~c_ast_cleanup
  BY DEF FreeTypedef, c_ast_cleanup, Exiting
<1>7. ~Terminated
  BY DEF Terminated, vars, Exiting
<1>. QED
  BY <1>3, <1>4, <1>5, <1>6, <1>7 DEF Next

\* The recursion of Meaning ends after a step, too.
LEMMA MeaningEndsNext ==
  IInv' /\ ~Exiting' => \E E : Ends(h', typedefs', E)
<1> DEFINE P == IInv /\ ~Exiting => \E E : Ends(h, typedefs, E)
<1>1. P
  BY MeaningEnds
<1> HIDE DEF P
<1>2. P'
  BY <1>1, PTL
<1>. QED
  BY <1>2 DEF P

\* Meaning takes its values from Meanings.
LEMMA MeaningIs ==
  /\ \A g, n : Meaning(g, n) = Meanings(g, typedefs)[n]
  /\ \A t \in Name : TypeOf(t) = Meanings(h, typedefs)[typedefs[t]]
  BY DEF TypeOf, Meaning, Meanings, Means, MeansBody

\* No step before the exit changes what a type name means.
LEMMA TypeStays ==
  ASSUME IInv, IInv', [Next]_vars, phase # "exit", NEW t \in Defined
  PROVE  t \in Defined' /\ TypeOf(t)' = TypeOf(t)
<1>1. ASSUME ~Exiting, ~Exiting'
      PROVE  t \in Defined' /\ TypeOf(t)' = TypeOf(t)
  <2>1. EntriesStay
    BY <1>1, Next_Stay
  <2>2. PICK E : Ends(h, typedefs, E)
    BY <1>1, MeaningEnds
  <2>3. PICK E2 : Ends(h', typedefs', E2)
    BY <1>1, MeaningEndsNext
  <2>4. PICK L, G, cl, vc, ix : State(L, G, cl, vc, ix)
    BY <1>1 DEF IInv, Going, Good
  <2>5. PICK S : S = Owned(L)
    OBVIOUS
  <2>6. /\ S \in SUBSET Node /\ S \subseteq live \ On
        /\ \A s \in Defined : typedefs[s] \in S
        /\ \A m \in S : /\ h[m].of \in S \cup {NIL} /\ ToSet(h[m].args) \subseteq S
                        /\ h[m].kind = "typedef" => h[m].def \in Defined
    BY <1>1, <2>4, <2>5 DEF State, Base, HeapOK, LinksOK, TableOK, Owned, Exiting
  <2>7. \A m \in S : /\ SameNode(h, h', m)
                     /\ h[m].kind = "typedef" => typedefs'[h[m].def] = typedefs[h[m].def]
    BY <2>1, <2>6 DEF EntriesStay, SameNode
  <2>8. \A m \in S : \A n : LeadsTo(h, typedefs, m, n) => n \in S \cup {NIL}
    BY <2>6 DEF LeadsTo, ToSet
  <2>9. NIL \notin Node
    BY NilFacts
  <2>10. \A n \in S : Meanings(h', typedefs')[n] = Meanings(h, typedefs)[n]
    BY <2>2, <2>3, <2>6, <2>7, <2>8, <2>9, MeaningStays
  <2>11. typedefs'[t] = typedefs[t] /\ typedefs[t] \in S
    BY <1>1, <2>1, <2>6 DEF EntriesStay
  <2>12. TypeOf(t) = Meanings(h, typedefs)[typedefs[t]]
    BY DEF TypeOf, Meaning, Meanings, Means, MeansBody
  <2>13. TypeOf(t)' = Meanings(h', typedefs')[typedefs'[t]]
    BY DEF TypeOf, Meaning, Meanings, Means, MeansBody
  <2>14. t \in Defined'
    BY <2>6, <2>9, <2>11 DEF Defined, Undefined
  <2>. QED
    BY <2>10, <2>11, <2>12, <2>13, <2>14
<1>2. ASSUME UNCHANGED <<h, typedefs>>
      PROVE  t \in Defined' /\ TypeOf(t)' = TypeOf(t)
  BY <1>2 DEF Defined, Undefined, TypeOf, Meaning, c_ast_is_parent
<1>3. ASSUME Exiting \/ Exiting' PROVE UNCHANGED <<h, typedefs>>
  <2>1. CASE UNCHANGED vars
    BY <2>1 DEF vars, ast
  <2>2. CASE Exiting /\ Next
    <3>1. FreeTypedef \/ c_ast_cleanup \/ Terminated
      BY <2>2, ExitSteps
    <3>. QED
      BY <1>3, <2>1, <3>1 DEF FreeTypedef, c_ast_cleanup, Terminated
  <2>3. CASE ~Exiting /\ Next
    <3>1. quit
      BY <1>3, <2>3, QuitSteps
    <3>. QED
      BY <3>1 DEF quit, ast
  <2>. QED
    BY <1>3, <2>1, <2>2, <2>3
<1>. QED
  BY <1>1, <1>2, <1>3

\* Once defined, a type name means the same until the exit, whatever commands
\* succeed or fail in between.
THEOREM TypesKeptAlways == Spec => TypesKept
<1>1. IInv /\ IInv' /\ [Next]_vars => [phase # "exit" =>
        \A t \in Defined : t \in Defined' /\ TypeOf(t)' = TypeOf(t)]_vars
  BY TypeStays
<1>. QED
  BY <1>1, IInvAlways, PTL DEF Spec, TypesKept

-----------------------------------------------------------------------------
(* c_ast_equiv.                                                            *)

\* What is needed of the heap g and the table T.
Typed(g, T) ==
  /\ g \in Heaps(Types, Names)
  /\ \A m \in Node : g[m].kind = "typedef" => g[m].args = <<>> /\ T[g[m].def] \in Node /\ g[m].type = NIL

\* The meaning of a node is a sequence, and empty for NIL only.
LEMMA MeaningSeq ==
  ASSUME NIL \notin Node, NEW g, NEW T, NEW E, Ends(g, T, E), Typed(g, T),
         NEW f, Means(g, T, f)
  PROVE  \A m \in Address : (\E S : f[m] \in Seq(S)) /\ (m # NIL => f[m] # <<>>)
<1>1. f[NIL] = <<>> /\ f[NIL] \in Seq({})
  <2>1. f[NIL] = MeansBody(g, T, f, NIL)
    BY DEF Means, Address
  <2>. QED
    BY <2>1 DEF MeansBody
<1>2. SUFFICES ASSUME NEW B, B = {m \in Node : ~((\E S : f[m] \in Seq(S)) /\ f[m] # <<>>)},
                      B # {}
               PROVE  FALSE
  BY <1>1 DEF Address
<1>3. PICK m \in B : \A n \in B : <<m, n>> \notin E
  BY <1>2 DEF Ends, WellFounded
<1>4. m \in Node /\ m # NIL
  BY <1>2
<1>5. f[m] = MeansBody(g, T, f, m)
  BY <1>4 DEF Means, Address
<1>6. \A n : LeadsTo(g, T, m, n) => n = NIL \/ ((\E S : f[n] \in Seq(S)) /\ f[n] # <<>>)
  BY <1>2, <1>3, <1>4 DEF Ends
<1>7. CASE g[m].kind = "typedef"
  <2>1. f[m] = f[T[g[m].def]] /\ T[g[m].def] # NIL /\ LeadsTo(g, T, m, T[g[m].def])
    BY <1>4, <1>5, <1>7 DEF MeansBody, LeadsTo, Typed
  <2>. QED
    BY <1>2, <1>6, <2>1
<1>8. CASE g[m].kind # "typedef"
  <2>1. PICK op : f[m] = <<op>> \o (IF c_ast_is_parent(g, m) THEN f[g[m].of] ELSE <<>>)
    BY <1>4, <1>5, <1>8 DEF MeansBody
  <2>2. \E S : (IF c_ast_is_parent(g, m) THEN f[g[m].of] ELSE <<>>) \in Seq(S)
    <3>1. <<>> \in Seq({})
      OBVIOUS
    <3>2. CASE c_ast_is_parent(g, m)
      <4>1. LeadsTo(g, T, m, g[m].of)
        BY DEF LeadsTo
      <4>. QED
        BY <1>1, <1>6, <3>2, <4>1
    <3>. QED
      BY <3>1, <3>2
  <2>3. PICK S, s : s = (IF c_ast_is_parent(g, m) THEN f[g[m].of] ELSE <<>>) /\ s \in Seq(S)
    BY <2>2
  <2>4. f[m] = <<op>> \o s
    BY <2>1, <2>3
  <2>5. f[m] \in Seq(S \cup {op}) /\ f[m] # <<>>
    <3>1. s \in Seq(S \cup {op}) /\ <<op>> \in Seq(S \cup {op})
      BY <2>3
    <3>2. <<op>> \o s \in Seq(S \cup {op}) /\ Len(<<op>> \o s) = 1 + Len(s) /\ Len(s) \in Nat
      BY <3>1
    <3>. QED
      BY <2>4, <3>2
  <2>. QED
    BY <1>2, <2>5
<1>. QED
  BY <1>7, <1>8

\* A first operator and what follows it can be told from the sequence.
LEMMA FirstSame ==
  ASSUME NEW a, NEW b, NEW S, NEW s \in Seq(S), NEW R, NEW r \in Seq(R)
  PROVE  <<a>> \o s = <<b>> \o r <=> a = b /\ s = r
<1>1. PICK A : A = S \cup R \cup {a, b}
  OBVIOUS
<1>2. s \in Seq(A) /\ r \in Seq(A) /\ a \in A /\ b \in A
  BY <1>1
<1>3. /\ <<a>> \o s \in Seq(A) /\ Len(<<a>> \o s) = 1 + Len(s) /\ Len(s) \in Nat
      /\ (<<a>> \o s)[1] = a /\ \A i \in 1..Len(s) : (<<a>> \o s)[i + 1] = s[i]
  BY <1>2
<1>4. /\ <<b>> \o r \in Seq(A) /\ Len(<<b>> \o r) = 1 + Len(r) /\ Len(r) \in Nat
      /\ (<<b>> \o r)[1] = b /\ \A i \in 1..Len(r) : (<<b>> \o r)[i + 1] = r[i]
  BY <1>2
<1>5. ASSUME <<a>> \o s = <<b>> \o r PROVE a = b /\ s = r
  <2>1. a = b /\ Len(s) = Len(r) /\ \A i \in 1..Len(s) : s[i] = r[i]
    BY <1>3, <1>4, <1>5
  <2>. QED
    BY <1>2, <2>1
<1>. QED
  BY <1>5

\* What c_ast_equiv says of i and j, when f is what it says of what is below them.
EquivBody(g, T, f, i, j) ==
  \/ i = j
  \/ /\ i # NIL /\ j # NIL
     /\ \/ /\ g[i].kind = "typedef" /\ g[j].kind # "typedef"
           /\ f[T[g[i].def]][j]
        \/ /\ g[i].kind # "typedef" /\ g[j].kind = "typedef"
           /\ f[i][T[g[j].def]]
        \/ /\ g[i].kind = g[j].kind
           /\ g[i].type = g[j].type
           /\ Len(g[i].args) = Len(g[j].args)
           /\ \A k \in DOMAIN g[i].args : f[g[i].args[k]][g[j].args[k]]
           /\ g[i].kind = "typedef" => f[T[g[i].def]][T[g[j].def]]
           /\ c_ast_is_parent(g, i) => f[g[i].of][g[j].of]

\* The recursion of c_ast_equiv asks of x and y when it is asked of i and j.
Asks(g, T, i, j, x, y) ==
  \/ LeadsTo(g, T, i, x) /\ (y = j \/ LeadsTo(g, T, j, y))
  \/ x = i /\ LeadsTo(g, T, j, y)

\* f says of x and y whether they mean the same.
Agrees(f, M, x, y) == f[x][y] <=> M[x] = M[y]

\* Same operators at the top and the same meanings below make the same meaning.
LEMMA OperatorsSame ==
  ASSUME NIL \notin Node, NEW g, NEW T, NEW E, Ends(g, T, E), Typed(g, T),
         NEW M, Means(g, T, M), NEW i \in Node, NEW j \in Node,
         g[i].kind # "typedef", g[j].kind # "typedef"
  PROVE  M[i] = M[j] <=>
           /\ g[i].kind = g[j].kind /\ g[i].type = g[j].type
           /\ Len(g[i].args) = Len(g[j].args)
           /\ \A k \in DOMAIN g[i].args : M[g[i].args[k]] = M[g[j].args[k]]
           /\ c_ast_is_parent(g, i) => M[g[i].of] = M[g[j].of]
<1>1. PICK si, sj : /\ si = (IF c_ast_is_parent(g, i) THEN M[g[i].of] ELSE <<>>)
                    /\ sj = (IF c_ast_is_parent(g, j) THEN M[g[j].of] ELSE <<>>)
  OBVIOUS
<1>2. PICK ai, aj : /\ ai = [k \in DOMAIN g[i].args |-> M[g[i].args[k]]]
                    /\ aj = [k \in DOMAIN g[j].args |-> M[g[j].args[k]]]
  OBVIOUS
<1>3. /\ M[i] = <<Op(g[i].kind, ai, g[i].type)>> \o si
      /\ M[j] = <<Op(g[j].kind, aj, g[j].type)>> \o sj
  <2>1. i \in Address /\ j \in Address /\ i # NIL /\ j # NIL
    BY DEF Address
  <2>2. M[i] = MeansBody(g, T, M, i) /\ M[j] = MeansBody(g, T, M, j)
    BY <2>1 DEF Means
  <2>. QED
    BY <1>1, <1>2, <2>1, <2>2 DEF MeansBody
<1>4. \A m \in {i, j} : \E S : (IF c_ast_is_parent(g, m) THEN M[g[m].of] ELSE <<>>) \in Seq(S)
  <2>1. SUFFICES ASSUME NEW m \in {i, j}
                 PROVE  \E S : (IF c_ast_is_parent(g, m) THEN M[g[m].of] ELSE <<>>) \in Seq(S)
    OBVIOUS
  <2>2. g[m].of \in Address
    BY DEF Typed, Heaps, Cells
  <2>3. \E S : M[g[m].of] \in Seq(S)
    BY <2>2, MeaningSeq
  <2>4. <<>> \in Seq({})
    OBVIOUS
  <2>. QED
    BY <2>3, <2>4
<1>5. PICK S : si \in Seq(S)
  BY <1>1, <1>4
<1>6. PICK R : sj \in Seq(R)
  BY <1>1, <1>4
<1>7. M[i] = M[j] <=> Op(g[i].kind, ai, g[i].type) = Op(g[j].kind, aj, g[j].type) /\ si = sj
  BY <1>3, <1>5, <1>6, FirstSame
<1>8. Op(g[i].kind, ai, g[i].type) = Op(g[j].kind, aj, g[j].type)
        <=> g[i].kind = g[j].kind /\ ai = aj /\ g[i].type = g[j].type
  BY DEF Op
<1>9. ai = aj <=> /\ Len(g[i].args) = Len(g[j].args)
                  /\ \A k \in DOMAIN g[i].args : M[g[i].args[k]] = M[g[j].args[k]]
  <2>1. g[i].args \in Seq(Node) /\ g[j].args \in Seq(Node)
    BY DEF Typed, Heaps, Cells
  <2>2. DOMAIN g[i].args = 1..Len(g[i].args) /\ DOMAIN g[j].args = 1..Len(g[j].args)
        /\ Len(g[i].args) \in Nat /\ Len(g[j].args) \in Nat
    BY <2>1
  <2>3. ai = aj => DOMAIN g[i].args = DOMAIN g[j].args
    BY <1>2
  <2>4. DOMAIN g[i].args = DOMAIN g[j].args <=> Len(g[i].args) = Len(g[j].args)
    BY <2>2
  <2>5. ai = aj => \A k \in DOMAIN g[i].args : M[g[i].args[k]] = M[g[j].args[k]]
    BY <1>2, <2>3
  <2>6. ASSUME DOMAIN g[i].args = DOMAIN g[j].args,
               \A k \in DOMAIN g[i].args : M[g[i].args[k]] = M[g[j].args[k]]
        PROVE  ai = aj
    BY <1>2, <2>6
  <2>. QED
    BY <2>3, <2>4, <2>5, <2>6
<1>10. g[i].kind = g[j].kind => (si = sj <=> (c_ast_is_parent(g, i) => M[g[i].of] = M[g[j].of]))
  <2>1. g[i].kind = g[j].kind => (c_ast_is_parent(g, i) <=> c_ast_is_parent(g, j))
    BY DEF c_ast_is_parent
  <2>2. CASE c_ast_is_parent(g, i)
    BY <1>1, <2>1, <2>2
  <2>3. CASE ~c_ast_is_parent(g, i)
    BY <1>1, <2>1, <2>3
  <2>. QED
    BY <2>2, <2>3
<1>. QED
  BY <1>7, <1>8, <1>9, <1>10

\* Where f is right below, c_ast_equiv is right.
LEMMA EquivStep ==
  ASSUME NIL \notin Node, NEW g, NEW T, NEW E, Ends(g, T, E), Typed(g, T),
         NEW M, Means(g, T, M), NEW f, NEW i \in Address, NEW j \in Address,
         i # NIL /\ j # NIL => \A x, y : Asks(g, T, i, j, x, y) => Agrees(f, M, x, y)
  PROVE  EquivBody(g, T, f, i, j) <=> M[i] = M[j]
<1>1. CASE i = j
  BY <1>1 DEF EquivBody
<1>2. CASE i # j /\ (i = NIL \/ j = NIL)
  <2>1. M[NIL] = <<>>
    BY DEF Means, MeansBody, Address
  <2>2. M[i] # M[j]
    BY <1>2, <2>1, MeaningSeq
  <2>. QED
    BY <1>2, <2>2 DEF EquivBody
<1>3. CASE i # j /\ i # NIL /\ j # NIL
  <2>1. i \in Node /\ j \in Node
    BY <1>3 DEF Address
  <2>2. /\ M[i] = MeansBody(g, T, M, i) /\ M[j] = MeansBody(g, T, M, j)
    BY DEF Means
  <2>3. /\ g[i].kind = "typedef" => M[i] = M[T[g[i].def]] /\ LeadsTo(g, T, i, T[g[i].def])
        /\ g[j].kind = "typedef" => M[j] = M[T[g[j].def]] /\ LeadsTo(g, T, j, T[g[j].def])
    BY <1>3, <2>2 DEF MeansBody, LeadsTo
  <2>4. CASE g[i].kind = "typedef" /\ g[j].kind # "typedef"
    <3>1. Asks(g, T, i, j, T[g[i].def], j)
      BY <2>3, <2>4 DEF Asks
    <3>2. Agrees(f, M, T[g[i].def], j)
      BY <1>3, <3>1
    <3>3. EquivBody(g, T, f, i, j) <=> f[T[g[i].def]][j]
      BY <1>3, <2>4 DEF EquivBody
    <3>. QED
      BY <2>3, <2>4, <3>2, <3>3 DEF Agrees
  <2>5. CASE g[i].kind # "typedef" /\ g[j].kind = "typedef"
    <3>1. Asks(g, T, i, j, i, T[g[j].def])
      BY <2>3, <2>5 DEF Asks
    <3>2. Agrees(f, M, i, T[g[j].def])
      BY <1>3, <3>1
    <3>3. EquivBody(g, T, f, i, j) <=> f[i][T[g[j].def]]
      BY <1>3, <2>5 DEF EquivBody
    <3>. QED
      BY <2>3, <2>5, <3>2, <3>3 DEF Agrees
  <2>6. CASE g[i].kind = "typedef" /\ g[j].kind = "typedef"
    <3>1. Asks(g, T, i, j, T[g[i].def], T[g[j].def])
      BY <2>3, <2>6 DEF Asks
    <3>2. Agrees(f, M, T[g[i].def], T[g[j].def])
      BY <1>3, <3>1
    <3>3. /\ g[i].args = <<>> /\ g[j].args = <<>> /\ g[i].type = g[j].type
      BY <2>1, <2>6 DEF Typed
    <3>4. DOMAIN g[i].args = {}
      BY <3>3
    <3>5. ~c_ast_is_parent(g, i)
      BY <2>6, Kinds DEF c_ast_is_parent
    <3>6. EquivBody(g, T, f, i, j) <=> f[T[g[i].def]][T[g[j].def]]
      BY <1>3, <2>6, <3>3, <3>4, <3>5 DEF EquivBody
    <3>. QED
      BY <2>3, <2>6, <3>2, <3>6 DEF Agrees
  <2>7. CASE g[i].kind # "typedef" /\ g[j].kind # "typedef"
    <3>1. EquivBody(g, T, f, i, j) <=>
            /\ g[i].kind = g[j].kind /\ g[i].type = g[j].type
            /\ Len(g[i].args) = Len(g[j].args)
            /\ \A k \in DOMAIN g[i].args : f[g[i].args[k]][g[j].args[k]]
            /\ c_ast_is_parent(g, i) => f[g[i].of][g[j].of]
      BY <1>3, <2>7 DEF EquivBody
    <3>2. Len(g[i].args) = Len(g[j].args) => DOMAIN g[i].args = DOMAIN g[j].args
      <4>1. g[i].args \in Seq(Node) /\ g[j].args \in Seq(Node)
        BY <2>1 DEF Typed, Heaps, Cells
      <4>. QED
        BY <4>1
    <3>3. ASSUME Len(g[i].args) = Len(g[j].args), NEW k \in DOMAIN g[i].args
          PROVE  f[g[i].args[k]][g[j].args[k]] <=> M[g[i].args[k]] = M[g[j].args[k]]
      <4>1. LeadsTo(g, T, i, g[i].args[k]) /\ LeadsTo(g, T, j, g[j].args[k])
        BY <3>2, <3>3 DEF LeadsTo
      <4>2. Asks(g, T, i, j, g[i].args[k], g[j].args[k])
        BY <4>1 DEF Asks
      <4>. QED
        BY <1>3, <4>2 DEF Agrees
    <3>4. f[g[i].of][g[j].of] <=> M[g[i].of] = M[g[j].of]
      <4>1. Asks(g, T, i, j, g[i].of, g[j].of)
        BY DEF Asks, LeadsTo
      <4>. QED
        BY <1>3, <4>1 DEF Agrees
    <3>5. Len(g[i].args) = Len(g[j].args) =>
            ((\A k \in DOMAIN g[i].args : f[g[i].args[k]][g[j].args[k]])
              <=> \A k \in DOMAIN g[i].args : M[g[i].args[k]] = M[g[j].args[k]])
      BY <3>3
    <3>6. M[i] = M[j] <=>
            /\ g[i].kind = g[j].kind /\ g[i].type = g[j].type
            /\ Len(g[i].args) = Len(g[j].args)
            /\ \A k \in DOMAIN g[i].args : M[g[i].args[k]] = M[g[j].args[k]]
            /\ c_ast_is_parent(g, i) => M[g[i].of] = M[g[j].of]
      BY <2>1, <2>7, OperatorsSame
    <3>. QED
      BY <3>1, <3>4, <3>5, <3>6
  <2>. QED
    BY <2>4, <2>5, <2>6, <2>7
<1>. QED
  BY <1>1, <1>2, <1>3

\* c_ast_equiv tells types by their meaning: it is true exactly of ASTs that mean
\* the same, type names looked through.
THEOREM EquivExact ==
  ASSUME NIL \notin Node, NEW g, NEW T, NEW E, Ends(g, T, E), Typed(g, T),
         NEW i \in Address, NEW j \in Address
  PROVE  c_ast_equiv(g, T, i, j) <=> Meanings(g, T)[i] = Meanings(g, T)[j]
<1> DEFINE Solution(f) == f = [x \in Address |-> [y \in Address |-> EquivBody(g, T, f, x, y)]]
           eq == CHOOSE f : Solution(f)
<1>1. PICK M : M = Meanings(g, T)
  OBVIOUS
<1>2. Means(g, T, M)
  BY <1>1, MeansSolved DEF Meanings
<1>3. ASSUME NEW x \in Address, x # NIL, NEW y \in Address, y # NIL, NEW u, NEW v, Asks(g, T, x, y, u, v)
      PROVE  u \in Address /\ v \in Address
  BY <1>3 DEF Ends, Asks, LeadsTo, Address
<1>4. PICK e : e = [x \in Address |-> [y \in Address |-> M[x] = M[y]]]
  OBVIOUS
<1>5. Solution(e)
  <2>1. ASSUME NEW x \in Address, NEW y \in Address
        PROVE  EquivBody(g, T, e, x, y) <=> M[x] = M[y]
    <3>1. ASSUME x # NIL /\ y # NIL, NEW u, NEW v, Asks(g, T, x, y, u, v)
          PROVE  Agrees(e, M, u, v)
      <4>1. u \in Address /\ v \in Address
        BY <1>3, <3>1
      <4>. QED
        BY <1>4, <4>1 DEF Agrees
    <3>. QED
      BY <1>2, <3>1, EquivStep
  <2>2. ASSUME NEW x \in Address, NEW y \in Address
        PROVE  (M[x] = M[y]) = EquivBody(g, T, e, x, y)
    <3>1. EquivBody(g, T, e, x, y) \in BOOLEAN
      BY DEF EquivBody
    <3>. QED
      BY <2>1, <3>1
  <2>. QED
    BY <1>4, <2>2
<1>6. Solution(eq)
  <2> HIDE DEF Solution
  <2>. QED
    BY <1>5
<1>7. \A x, y \in Address : eq[x][y] = EquivBody(g, T, eq, x, y)
  <2> HIDE DEF eq
  <2>. QED
    BY <1>6
<1>8. c_ast_equiv(g, T, i, j) = eq[i][j]
  BY DEF c_ast_equiv, EquivBody
<1> HIDE DEF eq, Solution
<1>9. \A x, y \in Address : Agrees(eq, M, x, y)
  <2>1. SUFFICES ASSUME NEW A, A = {x \in Address : \E y \in Address : ~Agrees(eq, M, x, y)},
                        A # {}
                 PROVE  FALSE
    OBVIOUS
  <2>2. ASSUME NEW x \in Address, NEW y \in Address,
               x # NIL /\ y # NIL => \A u, v : Asks(g, T, x, y, u, v) => Agrees(eq, M, u, v)
        PROVE  Agrees(eq, M, x, y)
    <3>1. EquivBody(g, T, eq, x, y) <=> M[x] = M[y]
      BY <1>2, <2>2, EquivStep
    <3>. QED
      BY <1>7, <3>1 DEF Agrees
  <2>3. NIL \notin A
    BY <2>1, <2>2
  <2>4. A \in SUBSET Node
    BY <2>1, <2>3 DEF Address
  <2>5. PICK x \in A : \A u \in A : <<x, u>> \notin E
    BY <2>1, <2>4 DEF Ends, WellFounded
  <2>6. \A u : LeadsTo(g, T, x, u) => \A v \in Address : Agrees(eq, M, u, v)
    <3>1. SUFFICES ASSUME NEW u, LeadsTo(g, T, x, u), NEW v \in Address PROVE Agrees(eq, M, u, v)
      OBVIOUS
    <3>2. u \in Address /\ u \notin A
      BY <2>3, <2>4, <2>5, <3>1 DEF Ends, Address
    <3>. QED
      BY <2>1, <3>1, <3>2
  <2>7. PICK B : B = {y \in Address : ~Agrees(eq, M, x, y)}
    OBVIOUS
  <2>8. B # {} /\ NIL \notin B
    BY <2>1, <2>2, <2>5, <2>7
  <2>9. B \in SUBSET Node
    BY <2>7, <2>8 DEF Address
  <2>10. PICK y \in B : \A v \in B : <<y, v>> \notin E
    BY <2>8, <2>9 DEF Ends, WellFounded
  <2>11. \A v : LeadsTo(g, T, y, v) => v \in Address /\ Agrees(eq, M, x, v)
    BY <2>7, <2>8, <2>9, <2>10 DEF Ends, Address
  <2>12. \A u, v : Asks(g, T, x, y, u, v) => Agrees(eq, M, u, v)
    BY <2>6, <2>7, <2>10, <2>11 DEF Asks
  <2>13. x \in Address /\ y \in Address
    BY <2>1, <2>5, <2>7, <2>10
  <2>. QED
    BY <2>2, <2>7, <2>10, <2>12, <2>13
<1>. QED
  BY <1>1, <1>8, <1>9 DEF Agrees

\* While a session goes on, the heap and the table are such.
LEMMA TypedNow ==
  IInv /\ ~Exiting => Typed(h, typedefs)
<1>1. SUFFICES ASSUME IInv, ~Exiting PROVE Typed(h, typedefs)
  OBVIOUS
<1>2. PICK L, G, cl, vc, ix : State(L, G, cl, vc, ix)
  BY <1>1 DEF IInv, Going, Good
<1>3. NoAst.kind # "typedef"
  BY Kinds DEF NoAst
<1>4. h \in Heaps(Types, Names) /\ Owned(L) \subseteq Node
  BY <1>2 DEF State, Base, HeapOK, Owned
<1>5. ASSUME NEW m \in Node, h[m].kind = "typedef"
      PROVE  h[m].args = <<>> /\ typedefs[h[m].def] \in Node /\ h[m].type = NIL
  <2>1. m \in live /\ h[m].type = NIL
    BY <1>2, <1>3, <1>5 DEF State, Base, HeapOK
  <2>2. h[m].args = <<>>
    <3>1. "typedef" # "function"
      BY Kinds
    <3>. QED
      BY <1>2, <1>5, <3>1 DEF State, Base, HeapOK
  <2>3. h[m].def \in Defined
    BY <1>1, <1>2, <1>5, <2>1 DEF State, Base, TableOK, Exiting
  <2>4. typedefs[h[m].def] \in Node
    BY <1>2, <1>4, <2>3 DEF State, Base, TableOK
  <2>. QED
    BY <2>1, <2>2, <2>4
<1>. QED
  BY <1>4, <1>5 DEF Typed

\* So they are after a step, too.
LEMMA TypedNext ==
  IInv' /\ ~Exiting' => Typed(h', typedefs')
<1> DEFINE P == IInv /\ ~Exiting => Typed(h, typedefs)
<1>1. P
  BY TypedNow
<1> HIDE DEF P
<1>2. P'
  BY <1>1, PTL
<1>. QED
  BY <1>2 DEF P, Typed

-----------------------------------------------------------------------------
(* c_ast_check.                                                            *)

\* What c_ast_check says of m, when f is what it says of the nodes below.
CheckBody(g, f, m) ==
  LET args == [i \in DOMAIN g[m].args |-> f[g[m].args[i]]]
      here == CheckNode(g, m, args)
  IN  IF m = NIL THEN "accepted"
      ELSE IF here = "accepted" /\ c_ast_is_parent(g, m) THEN f[g[m].of] ELSE here

Verdicts == {"accepted", "rejected", "assert: placeholder"}

\* f is what c_ast_check says.
Checks(g, f) ==
  /\ f \in [Address -> Verdicts]
  /\ \A m \in Address : f[m] = CheckBody(g, f, m)
  /\ \A n \in Address : c_ast_check(g, n) = f[n]

\* The arguments' verdicts make that on a function.
LEMMA CheckNodeIs ==
  ASSUME NEW g, NEW m, NEW s \in Seq(Verdicts)
  PROVE  CheckNode(g, m, s) \in Verdicts
<1>1. CASE /\ g[m].kind = "function" /\ ToSet(s) \ {"accepted"} # {}
           /\ ~(\/ g[m].kind = "array" /\ g[g[m].of].kind = "function"
                \/ g[m].kind = "function" /\ g[g[m].of].kind \in {"array", "function"}
                \/ g[m].kind = "pointer" /\ g[g[m].of].kind \in References)
           /\ g[m].kind # "placeholder"
  <2>1. PICK B : B = {i \in DOMAIN s : s[i] # "accepted"}
    OBVIOUS
  <2>2. DOMAIN s = 1..Len(s) /\ Len(s) \in Nat
    OBVIOUS
  <2>3. B \in SUBSET Nat /\ B # {}
    BY <1>1, <2>1, <2>2 DEF ToSet
  <2>4. \E x \in B : \A y \in B : x <= y
    BY <2>3, LeastNumber
  <2>5. Min(B) \in B
    BY <2>4 DEF Min
  <2>6. CheckNode(g, m, s) = s[Min(B)]
    BY <1>1, <2>1 DEF CheckNode
  <2>7. \A i \in DOMAIN s : s[i] \in Verdicts
    BY <2>2
  <2>. QED
    BY <2>1, <2>5, <2>6, <2>7
<1>2. CASE ~(/\ g[m].kind = "function" /\ ToSet(s) \ {"accepted"} # {}
             /\ ~(\/ g[m].kind = "array" /\ g[g[m].of].kind = "function"
                  \/ g[m].kind = "function" /\ g[g[m].of].kind \in {"array", "function"}
                  \/ g[m].kind = "pointer" /\ g[g[m].of].kind \in References)
             /\ g[m].kind # "placeholder")
  BY <1>2, Zenon DEF CheckNode, Verdicts
<1>. QED
  BY <1>1, <1>2

\* The recursion of c_ast_check ends.
LEMMA CheckOf ==
  ASSUME NIL \notin Node, NEW Ty, NEW Nm, NEW g \in Heaps(Ty, Nm),
         WellFounded(Node, TreeEdges(g))
  PROVE  \E f : Checks(g, f)
<1> DEFINE E == TreeEdges(g) \cup (Node \X {NIL})
           F == [m \in Address |-> [f \in [Address -> Verdicts] |-> CheckBody(g, f, m)]]
           Solution(f) == f = [m \in Address |-> CheckBody(g, f, m)]
           check == CHOOSE f : Solution(f)
<1>1. WellFounded(Address, E)
  BY AddNil DEF TreeEdges
<1>2. \A m \in Node : /\ g[m].of \in Address /\ g[m].args \in Seq(Node)
                      /\ m \in Address /\ m # NIL
  BY HeapFields DEF Address
<1>3. \A m \in Address : m # NIL =>
        /\ m \in Node
        /\ g[m].of \in Address /\ <<m, g[m].of>> \in E
        /\ \A i \in DOMAIN g[m].args :
             g[m].args[i] \in Address /\ <<m, g[m].args[i]>> \in E
  <2>1. SUFFICES ASSUME NEW m \in Node
                 PROVE  /\ g[m].of \in Address /\ <<m, g[m].of>> \in E
                        /\ \A i \in DOMAIN g[m].args :
                             g[m].args[i] \in Address /\ <<m, g[m].args[i]>> \in E
    BY DEF Address
  <2>2. <<m, g[m].of>> \in E
    BY <1>2 DEF Address, TreeEdges
  <2>3. ASSUME NEW i \in DOMAIN g[m].args
        PROVE  g[m].args[i] \in Node /\ <<m, g[m].args[i]>> \in TreeEdges(g)
    BY <1>2 DEF TreeEdges, ToSet
  <2>. QED
    BY <1>2, <2>2, <2>3 DEF Address
<1>4. ASSUME NEW m \in Address, NEW f,
             m # NIL => /\ f[g[m].of] \in Verdicts
                        /\ \A i \in DOMAIN g[m].args : f[g[m].args[i]] \in Verdicts
      PROVE  CheckBody(g, f, m) \in Verdicts
  <2>1. CASE m = NIL
    BY <2>1 DEF CheckBody, Verdicts
  <2>2. CASE m # NIL
    <3>1. m \in Node /\ g[m].args \in Seq(Node)
      BY <1>2, <2>2 DEF Address
    <3>2. PICK s : s = [i \in DOMAIN g[m].args |-> f[g[m].args[i]]]
      OBVIOUS
    <3>3. s \in Seq(Verdicts)
      <4>1. DOMAIN g[m].args = 1..Len(g[m].args) /\ Len(g[m].args) \in Nat
        BY <3>1
      <4>. QED
        BY <1>4, <2>2, <3>2, <4>1
    <3>4. CheckNode(g, m, s) \in Verdicts
      BY <3>3, CheckNodeIs
    <3>. QED
      BY <1>4, <2>2, <3>2, <3>4 DEF CheckBody
  <2>. QED
    BY <2>1, <2>2
<1>5. F \in [Address -> [[Address -> Verdicts] -> Verdicts]]
  <2>1. ASSUME NEW m \in Address, NEW f \in [Address -> Verdicts]
        PROVE  CheckBody(g, f, m) \in Verdicts
    <3>1. m # NIL => /\ f[g[m].of] \in Verdicts
                     /\ \A i \in DOMAIN g[m].args : f[g[m].args[i]] \in Verdicts
      BY <1>3
    <3>. QED
      BY <1>4, <3>1
  <2>. QED
    BY <2>1
<1>6. Local(Address, E, Verdicts, F)
  <2>1. SUFFICES ASSUME NEW m \in Address, NEW f \in [Address -> Verdicts],
                        NEW f2 \in [Address -> Verdicts],
                        \A e \in Address : <<m, e>> \in E => f[e] = f2[e]
                 PROVE  CheckBody(g, f, m) = CheckBody(g, f2, m)
    BY DEF Local
  <2>2. m # NIL => /\ f[g[m].of] = f2[g[m].of]
                   /\ \A i \in DOMAIN g[m].args : f[g[m].args[i]] = f2[g[m].args[i]]
    BY <1>3, <2>1
  <2>3. m # NIL => [i \in DOMAIN g[m].args |-> f[g[m].args[i]]]
                     = [i \in DOMAIN g[m].args |-> f2[g[m].args[i]]]
    BY <2>2
  <2>. QED
    BY <2>2, <2>3 DEF CheckBody
<1>7. \E f \in [Address -> Verdicts] : Solution(f)
  <2>1. Verdicts # {}
    BY DEF Verdicts
  <2>2. Recursive(Address, E, Verdicts, F)
    BY <1>1, <1>5, <1>6, <2>1 DEF Recursive
  <2>3. HasFixpoint(Address, Verdicts, F)
    <3> HIDE DEF F, E
    <3>. QED
      BY <2>2, Fixpoint
  <2>4. PICK f \in [Address -> Verdicts] : \A m \in Address : f[m] = F[m][f]
    BY <2>3 DEF HasFixpoint
  <2>5. f = [m \in Address |-> f[m]] /\ \A m \in Address : f[m] = CheckBody(g, f, m)
    BY <2>4
  <2>6. Solution(f)
    BY <2>5
  <2>. QED
    BY <2>6
<1>8. Solution(check)
  <2> HIDE DEF Solution
  <2>. QED
    BY <1>7
<1>9. DOMAIN check = Address /\ \A m \in Address : check[m] = CheckBody(g, check, m)
  <2> HIDE DEF check
  <2>. QED
    BY <1>8
<1>10. check = [m \in Address |-> check[m]]
  <2> HIDE DEF check
  <2>. QED
    BY <1>8
<1>11. \A n \in Address : c_ast_check(g, n) = check[n]
  BY DEF c_ast_check, CheckBody
<1> HIDE DEF check
<1>12. \A m \in Address : check[m] \in Verdicts
  <2> DEFINE S == {m \in Address : check[m] \notin Verdicts}
  <2>1. SUFFICES ASSUME S # {} PROVE FALSE
    OBVIOUS
  <2>2. PICK m \in S : \A n \in S : <<m, n>> \notin E
    BY <1>1, <2>1 DEF WellFounded
  <2>3. m # NIL => /\ check[g[m].of] \in Verdicts
                   /\ \A i \in DOMAIN g[m].args : check[g[m].args[i]] \in Verdicts
    BY <1>3, <2>2
  <2>4. CheckBody(g, check, m) \in Verdicts
    BY <1>4, <2>2, <2>3
  <2>. QED
    BY <1>9, <2>2, <2>4
<1>13. check \in [Address -> Verdicts]
  BY <1>10, <1>12
<1>. QED
  BY <1>9, <1>11, <1>13 DEF Checks

\* The kinds whose check looks at what they are of.
Needy == {"array", "function", "pointer"}

\* Nodes that stay, and stay linked among themselves, are checked as before.
LEMMA CheckStays ==
  ASSUME NIL \notin Node, NEW Ty, NEW Nm, NEW g \in Heaps(Ty, Nm), NEW g2 \in Heaps(Ty, Nm),
         WellFounded(Node, TreeEdges(g)), WellFounded(Node, TreeEdges(g2)),
         NEW S \in SUBSET Node,
         \A m \in S : /\ SameNode(g, g2, m)
                      /\ g[m].of \in S \cup {NIL} /\ ToSet(g[m].args) \subseteq S
                      /\ g[m].of = NIL => g[m].kind \notin Needy
  PROVE  \A n \in S : c_ast_check(g2, n) = c_ast_check(g, n)
<1>1. PICK f : Checks(g, f)
  BY CheckOf
<1>2. PICK f2 : Checks(g2, f2)
  BY CheckOf
<1>3. PICK R : R = {m \in S : f2[m] # f[m]}
  OBVIOUS
<1>4. R \in SUBSET Node
  BY <1>3
<1>5. R = {}
  <2>1. SUFFICES ASSUME R # {} PROVE FALSE
    OBVIOUS
  <2>2. PICK m \in R : \A n \in R : <<m, n>> \notin TreeEdges(g)
    BY <1>4, <2>1 DEF WellFounded
  <2>3. m \in Node /\ m \in S /\ m \in Address /\ m # NIL /\ SameNode(g, g2, m)
    BY <1>3, <1>4, <2>2 DEF Address
  <2>4. g[m].of # NIL => f2[g[m].of] = f[g[m].of]
    <3>1. g[m].of # NIL => g[m].of \in S /\ <<m, g[m].of>> \in TreeEdges(g)
      BY <2>3 DEF TreeEdges
    <3>. QED
      BY <1>3, <2>2, <3>1
  <2>5. ASSUME NEW i \in DOMAIN g[m].args PROVE f2[g[m].args[i]] = f[g[m].args[i]]
    <3>1. g[m].args[i] \in ToSet(g[m].args)
      BY DEF ToSet
    <3>2. g[m].args[i] \in S /\ <<m, g[m].args[i]>> \in TreeEdges(g)
      BY <2>3, <3>1 DEF TreeEdges
    <3>. QED
      BY <1>3, <2>2, <3>2
  <2>6. f2[NIL] = f[NIL]
    <3>1. NIL \in Address
      BY DEF Address
    <3>2. f[NIL] = CheckBody(g, f, NIL) /\ f2[NIL] = CheckBody(g2, f2, NIL)
      BY <1>1, <1>2, <3>1 DEF Checks
    <3>. QED
      BY <3>2 DEF CheckBody
  <2>7. f2[g[m].of] = f[g[m].of]
    BY <2>4, <2>6
  <2>8. PICK s : s = [i \in DOMAIN g[m].args |-> f[g[m].args[i]]]
    OBVIOUS
  <2>9. s = [i \in DOMAIN g2[m].args |-> f2[g2[m].args[i]]]
    BY <2>3, <2>5, <2>8 DEF SameNode
  <2>10. CheckNode(g2, m, s) = CheckNode(g, m, s)
    <3>1. g2[m].kind = g[m].kind /\ g2[m].of = g[m].of
      BY <2>3 DEF SameNode
    <3>2. CASE g[m].of # NIL
      <4>1. g[m].of \in S
        BY <2>3, <3>2
      <4>2. g2[g[m].of].kind = g[g[m].of].kind
        BY <4>1 DEF SameNode
      <4>. QED
        BY <3>1, <4>2, Zenon DEF CheckNode
    <3>3. CASE g[m].of = NIL
      <4>1. g[m].kind # "array" /\ g[m].kind # "function" /\ g[m].kind # "pointer"
        BY <2>3, <3>3 DEF Needy
      <4>. QED
        BY <3>1, <4>1, Zenon DEF CheckNode
    <3>. QED
      BY <3>2, <3>3
  <2>11. c_ast_is_parent(g2, m) <=> c_ast_is_parent(g, m)
    BY <2>3 DEF SameNode, c_ast_is_parent
  <2>12. f[m] = CheckBody(g, f, m) /\ f2[m] = CheckBody(g2, f2, m)
    BY <1>1, <1>2, <2>3 DEF Checks
  <2>13. f2[m] = f[m]
    BY <2>3, <2>7, <2>8, <2>9, <2>10, <2>11, <2>12 DEF CheckBody, SameNode
  <2>. QED
    BY <1>3, <2>2, <2>13
<1>6. \A n \in S : n \in Address
  BY DEF Address
<1>. QED
  BY <1>1, <1>2, <1>3, <1>5, <1>6 DEF Checks

\* A declaration whose own check is passed is checked as what it is of.
LEMMA CheckOn ==
  ASSUME NIL \notin Node, NEW Ty, NEW Nm, NEW g \in Heaps(Ty, Nm),
         WellFounded(Node, TreeEdges(g)), NEW m \in Node, g[m].kind # "placeholder",
         c_ast_is_parent(g, m) => c_ast_check(g, g[m].of) = "accepted",
         \A i \in DOMAIN g[m].args : c_ast_check(g, g[m].args[i]) = "accepted",
         g[m].kind = "array" => g[g[m].of].kind # "function",
         g[m].kind = "function" => g[g[m].of].kind \notin {"array", "function"},
         g[m].kind = "pointer" => g[g[m].of].kind \notin References
  PROVE  c_ast_check(g, m) = "accepted"
<1>1. PICK f : Checks(g, f)
  BY CheckOf
<1>2. m \in Address /\ m # NIL /\ g[m].of \in Address /\ g[m].args \in Seq(Node)
  BY HeapFields DEF Address
<1>3. PICK s : s = [i \in DOMAIN g[m].args |-> f[g[m].args[i]]]
  OBVIOUS
<1>4. \A i \in DOMAIN s : s[i] = "accepted"
  <2>1. \A i \in DOMAIN g[m].args : g[m].args[i] \in Address
    BY <1>2 DEF Address
  <2>. QED
    BY <1>1, <1>3, <2>1 DEF Checks
<1>5. ToSet(s) \ {"accepted"} = {}
  BY <1>4 DEF ToSet
<1>6. CheckNode(g, m, s) = "accepted"
  BY <1>5, Zenon DEF CheckNode
<1>7. f[m] = CheckBody(g, f, m) /\ c_ast_check(g, m) = f[m] /\ c_ast_check(g, g[m].of) = f[g[m].of]
  BY <1>1, <1>2 DEF Checks
<1>. QED
  BY <1>2, <1>3, <1>6, <1>7 DEF CheckBody

-----------------------------------------------------------------------------
(* What the values of an English command say.                              *)

\* The operators that a value has read are the meaning of its AST, or of those
\* on its list.
Said(M, v) ==
  v.ops = IF v.tag = "list" THEN [k \in DOMAIN v.list |-> M[v.list[k]]] ELSE M[v.ast]

\* What is proper and legal is not rejected.
Sure(g, v) ==
  IF v.tag = "list"
  THEN v.proper => \A k \in DOMAIN v.list : c_ast_check(g, v.list[k]) = "accepted"
  ELSE v.proper /\ Legal(v.ops) => c_ast_check(g, v.ast) = "accepted"

\* A reference is of nothing yet.
Open(g, v) ==
  v.tag = "ref" => g[v.ast].of = NIL /\ g[v.ast].type = NIL /\ g[v.ast].args = <<>>

Right(g, T, v) == Said(Meanings(g, T), v) /\ Sure(g, v) /\ Open(g, v)

\* Nothing but references is of nothing yet.
Needed == \A n \in On : h[n].of = NIL => h[n].kind \notin Needy

EngRight == Needed /\ \A i \in 1..N : Right(h, typedefs, values[i])

\* The nodes of S stay as they are, and are linked among themselves.
Steady(S) ==
  /\ S \in SUBSET Node
  /\ \A m \in S : /\ SameNode(h, h', m)
                  /\ h[m].of \in S \cup {NIL} /\ ToSet(h[m].args) \subseteq S
                  /\ h[m].kind = "typedef" =>
                       /\ typedefs[h[m].def] \in S
                       /\ typedefs'[h[m].def] = typedefs[h[m].def]

\* They mean the same after the step.
LEMMA SteadyMeans ==
  ASSUME IInv, ~Exiting, IInv', ~Exiting', NEW S, Steady(S)
  PROVE  \A n \in S : Meanings(h', typedefs')[n] = Meanings(h, typedefs)[n]
<1>1. PICK E : Ends(h, typedefs, E)
  BY MeaningEnds
<1>2. PICK E2 : Ends(h', typedefs', E2)
  BY MeaningEndsNext
<1>3. \A m \in S : /\ SameNode(h, h', m)
                   /\ h[m].kind = "typedef" => typedefs'[h[m].def] = typedefs[h[m].def]
                   /\ \A n : LeadsTo(h, typedefs, m, n) => n \in S \cup {NIL}
  <2>1. ASSUME NEW m \in S, NEW n, LeadsTo(h, typedefs, m, n) PROVE n \in S \cup {NIL}
    BY <2>1 DEF Steady, LeadsTo, ToSet
  <2>. QED
    BY <2>1 DEF Steady
<1>4. S \in SUBSET Node /\ NIL \notin Node
  BY NilFacts DEF Steady
<1>. QED
  BY <1>1, <1>2, <1>3, <1>4, MeaningStays

\* The heap is a heap on which recursions end.
LEMMA TreesEnd ==
  IInv /\ ~Exiting => h \in Heaps(Types, Names) /\ WellFounded(Node, TreeEdges(h))
<1>1. SUFFICES ASSUME IInv, ~Exiting
               PROVE  h \in Heaps(Types, Names) /\ WellFounded(Node, TreeEdges(h))
  OBVIOUS
<1>2. PICK L, G, cl, vc, ix : State(L, G, cl, vc, ix)
  BY <1>1 DEF IInv, Going, Good
<1>3. Acyclic(L)
  BY <1>2, BaseAcyclic DEF State
<1>. QED
  BY <1>3, TreeFounded DEF Acyclic

\* So it is after a step, too.
LEMMA TreesEndNext ==
  IInv' /\ ~Exiting' => h' \in Heaps(Types, Names) /\ WellFounded(Node, TreeEdges(h'))
<1> DEFINE P == IInv /\ ~Exiting => h \in Heaps(Types, Names) /\ WellFounded(Node, TreeEdges(h))
<1>1. P
  BY TreesEnd
<1> HIDE DEF P
<1>2. P'
  BY <1>1, PTL
<1>. QED
  BY <1>2 DEF P, TreeEdges

\* The nodes of S on the list are checked as before.
LEMMA SteadyChecks ==
  ASSUME IInv, ~Exiting, IInv', ~Exiting', NEW S, Steady(S), Needed,
         NEW L, NEW G, NEW cl, NEW vc, NEW ix, State(L, G, cl, vc, ix)
  PROVE  \A n \in S \cap On : c_ast_check(h', n) = c_ast_check(h, n)
<1>1. PICK R : R = S \cap On
  OBVIOUS
<1>2. R \in SUBSET Node /\ NIL \notin Node
  BY <1>1, NilFacts DEF Steady
<1>3. \A m \in R : /\ SameNode(h, h', m)
                   /\ h[m].of \in R \cup {NIL} /\ ToSet(h[m].args) \subseteq R
                   /\ h[m].of = NIL => h[m].kind \notin Needy
  BY <1>1, StateFacts DEF Steady, Needed
<1>4. \A n \in R : c_ast_check(h', n) = c_ast_check(h, n)
  BY <1>2, <1>3, TreesEnd, TreesEndNext, CheckStays
<1>. QED
  BY <1>1, <1>4

\* A value of nodes that stay is right after the step.
LEMMA RightStays ==
  ASSUME IInv, ~Exiting, IInv', ~Exiting', NEW S, Steady(S), Needed,
         NEW L, NEW G, NEW cl, NEW vc, NEW ix, State(L, G, cl, vc, ix),
         NEW v, Right(h, typedefs, v), v.tag # "list" => v.ast \in S \cap On,
         ToSet(v.list) \subseteq S \cap On
  PROVE  Right(h', typedefs', v)
<1>1. PICK M, M2 : M = Meanings(h, typedefs) /\ M2 = Meanings(h', typedefs')
  OBVIOUS
<1>2. \A n \in S : M2[n] = M[n]
  BY <1>1, SteadyMeans
<1>3. \A n \in S \cap On : c_ast_check(h', n) = c_ast_check(h, n)
  BY SteadyChecks
<1>4. \A k \in DOMAIN v.list : v.list[k] \in S \cap On
  BY DEF ToSet
<1>5. Said(M, v) /\ Sure(h, v) /\ Open(h, v)
  BY <1>1 DEF Right
<1>6. Said(M2, v)
  <2>1. [k \in DOMAIN v.list |-> M2[v.list[k]]] = [k \in DOMAIN v.list |-> M[v.list[k]]]
    BY <1>2, <1>4
  <2>. QED
    BY <1>2, <1>5, <2>1 DEF Said
<1>7. Sure(h', v)
  BY <1>3, <1>4, <1>5 DEF Sure
<1>8. Open(h', v)
  <2>1. v.tag = "ref" => v.tag # "list"
    OBVIOUS
  <2>. QED
    BY <1>5, <2>1 DEF Open, Steady, SameNode
<1>. QED
  BY <1>1, <1>6, <1>7, <1>8 DEF Right

\* So are all of them, when v is one that has taken the place of those above m.
LEMMA EngRightAbove ==
  ASSUME IInv, ~Exiting, IInv', ~Exiting', NEW S, Steady(S), EngRight,
         NEW L, NEW G, NEW cl, NEW vc, NEW ix, State(L, G, cl, vc, ix),
         NEW m, NEW v, Above(m, v),
         \A i \in 1..m : /\ values[i].tag # "list" => values[i].ast \in S \cap On
                         /\ ToSet(values[i].list) \subseteq S \cap On,
         Needed', Right(h', typedefs', v)
  PROVE  EngRight'
<1>1. N \in Nat
  BY StateFacts
<1>2. /\ N' = m + 1 /\ values'[m + 1] = v
      /\ \A i \in 1..m + 1 : (i \in 1..m /\ i \in 1..N /\ values'[i] = values[i]) \/ i = m + 1
  BY <1>1, AboveFacts
<1>3. Needed /\ \A i \in 1..N : Right(h, typedefs, values[i])
  BY DEF EngRight
<1>4. ASSUME NEW i \in 1..m, i \in 1..N PROVE Right(h', typedefs', values[i])
  BY <1>3, <1>4, RightStays
<1>5. ASSUME NEW i \in 1..m + 1 PROVE Right(h', typedefs', values'[i])
  BY <1>2, <1>4
<1>. QED
  BY <1>2, <1>5 DEF EngRight

\* Two operators in a row.
LEMMA HasTwo ==
  ASSUME NEW X, NEW s \in Seq(X), NEW A, NEW B
  PROVE  Has(s, <<A, B>>) <=>
           \E i \in 1..Len(s) - 1 : s[i].kind \in A /\ s[i + 1].kind \in B
<1>1. PICK kinds : kinds = <<A, B>>
  OBVIOUS
<1>2. DOMAIN kinds = {1, 2} /\ Len(kinds) = 2 /\ kinds[1] = A /\ kinds[2] = B
  BY <1>1
<1>3. Len(s) \in Nat
  OBVIOUS
<1>4. Has(s, kinds) <=> \E i \in 0..Len(s) - 2 : s[i + 1].kind \in A /\ s[i + 2].kind \in B
  BY <1>2 DEF Has
<1>5. ASSUME NEW i \in 0..Len(s) - 2, s[i + 1].kind \in A, s[i + 2].kind \in B
      PROVE  \E j \in 1..Len(s) - 1 : s[j].kind \in A /\ s[j + 1].kind \in B
  <2>1. PICK j : j = i + 1
    OBVIOUS
  <2>2. j \in 1..Len(s) - 1 /\ j + 1 = i + 2
    BY <1>3, <2>1
  <2>. QED
    BY <1>5, <2>1, <2>2
<1>6. ASSUME NEW j \in 1..Len(s) - 1, s[j].kind \in A, s[j + 1].kind \in B
      PROVE  \E i \in 0..Len(s) - 2 : s[i + 1].kind \in A /\ s[i + 2].kind \in B
  <2>1. PICK i : i = j - 1
    OBVIOUS
  <2>2. i \in 0..Len(s) - 2 /\ i + 1 = j /\ i + 2 = j + 1
    BY <1>3, <2>1
  <2>. QED
    BY <1>6, <2>2
<1>. QED
  BY <1>1, <1>4, <1>5, <1>6

\* They are there, too, when one more comes first, or if it does to make them.
LEMMA HasTail ==
  ASSUME NEW X, NEW s \in Seq(X), NEW op, NEW A, NEW B,
         Has(s, <<A, B>>) \/ (s # <<>> /\ op.kind \in A /\ s[1].kind \in B)
  PROVE  Has(<<op>> \o s, <<A, B>>)
<1>1. PICK Y : Y = X \cup {op}
  OBVIOUS
<1>2. PICK r : r = <<op>> \o s
  OBVIOUS
<1>3. s \in Seq(Y) /\ <<op>> \in Seq(Y)
  BY <1>1
<1>4. r \in Seq(Y) /\ Len(r) = 1 + Len(s) /\ r[1] = op /\ Len(s) \in Nat
      /\ \A i \in 1..Len(s) : r[i + 1] = s[i]
  BY <1>2, <1>3
<1>5. CASE Has(s, <<A, B>>)
  <2>1. PICK i \in 1..Len(s) - 1 : s[i].kind \in A /\ s[i + 1].kind \in B
    BY <1>5, HasTwo
  <2>2. PICK j : j = i + 1
    OBVIOUS
  <2>3. i \in 1..Len(s) /\ i + 1 \in 1..Len(s) /\ j \in 1..Len(r) - 1
    BY <1>4, <2>2
  <2>4. r[j] = s[i] /\ r[j + 1] = s[i + 1]
    BY <1>4, <2>2, <2>3
  <2>5. Has(r, <<A, B>>)
    BY <1>4, <2>1, <2>3, <2>4, HasTwo
  <2>. QED
    BY <1>2, <2>5
<1>6. CASE s # <<>> /\ op.kind \in A /\ s[1].kind \in B
  <2>1. Len(s) > 0
    BY <1>6
  <2>2. 1 \in 1..Len(r) - 1 /\ 1 \in 1..Len(s)
    BY <1>4, <2>1
  <2>3. r[1 + 1] = s[1]
    BY <1>4, <2>2
  <2>4. Has(r, <<A, B>>)
    BY <1>4, <1>6, <2>2, <2>3, HasTwo
  <2>. QED
    BY <1>2, <2>4
<1>. QED
  BY <1>5, <1>6

\* What follows the first operator of a legal type is legal, and may follow it.
LEMMA LegalTail ==
  ASSUME NEW X, NEW s \in Seq(X), NEW op, Legal(<<op>> \o s)
  PROVE  /\ Legal(s)
         /\ s # <<>> =>
              /\ op.kind = "array" => s[1].kind \notin {"function"} \cup References
              /\ op.kind = "function" => s[1].kind \notin {"array", "function"}
              /\ op.kind \in Pointing => s[1].kind \notin References
<1>1. PICK A1, B1, A2, B2 : /\ A1 = {"array"} /\ B1 = {"function"} \cup References
                            /\ A2 = {"function"} /\ B2 = {"array", "function"}
  OBVIOUS
<1>2. \A r : Legal(r) <=> ~Has(r, <<A1, B1>>) /\ ~Has(r, <<A2, B2>>) /\ ~Has(r, <<Pointing, References>>)
  BY <1>1 DEF Legal
<1>3. ~Has(<<op>> \o s, <<A1, B1>>) /\ ~Has(<<op>> \o s, <<A2, B2>>) /\ ~Has(<<op>> \o s, <<Pointing, References>>)
  BY <1>2
<1>4. ~Has(s, <<A1, B1>>) /\ (s # <<>> /\ op.kind \in A1 => s[1].kind \notin B1)
  BY <1>3, HasTail
<1>5. ~Has(s, <<A2, B2>>) /\ (s # <<>> /\ op.kind \in A2 => s[1].kind \notin B2)
  BY <1>3, HasTail
<1>6. ~Has(s, <<Pointing, References>>) /\ (s # <<>> /\ op.kind \in Pointing => s[1].kind \notin References)
  BY <1>3, HasTail
<1>7. Legal(s)
  BY <1>2, <1>4, <1>5, <1>6
<1>. QED
  BY <1>1, <1>4, <1>5, <1>6, <1>7

\* The first operator of the meaning of a node is the node's, unless it is a type
\* name.
LEMMA FirstOperator ==
  ASSUME NIL \notin Node, NEW g, NEW T, NEW E, Ends(g, T, E), Typed(g, T),
         NEW M, M = Meanings(g, T), NEW n \in Node
  PROVE  /\ \E X : M[n] \in Seq(X)
         /\ M[n] # <<>>
         /\ g[n].kind # "typedef" => M[n][1].kind = g[n].kind
<1>1. Means(g, T, M)
  BY MeansSolved DEF Meanings
<1>2. n \in Address /\ n # NIL
  BY DEF Address
<1>3. (\E X : M[n] \in Seq(X)) /\ M[n] # <<>>
  BY <1>1, <1>2, MeaningSeq
<1>4. ASSUME g[n].kind # "typedef" PROVE M[n][1].kind = g[n].kind
  <2>1. PICK op, s : /\ op = Op(g[n].kind, [i \in DOMAIN g[n].args |-> M[g[n].args[i]]], g[n].type)
                     /\ s = (IF c_ast_is_parent(g, n) THEN M[g[n].of] ELSE <<>>)
    OBVIOUS
  <2>2. M[n] = MeansBody(g, T, M, n)
    BY <1>1, <1>2 DEF Means
  <2>3. M[n] = <<op>> \o s
    BY <1>2, <1>4, <2>1, <2>2 DEF MeansBody
  <2>4. \E X : s \in Seq(X)
    <3>1. g[n].of \in Address
      BY DEF Typed, Heaps, Cells
    <3>2. \E X : M[g[n].of] \in Seq(X)
      BY <1>1, <3>1, MeaningSeq
    <3>3. <<>> \in Seq({})
      OBVIOUS
    <3>. QED
      BY <2>1, <3>2, <3>3
  <2>5. PICK X : s \in Seq(X)
    BY <2>4
  <2>6. PICK Y : Y = X \cup {op}
    OBVIOUS
  <2>7. s \in Seq(Y) /\ <<op>> \in Seq(Y)
    BY <2>5, <2>6
  <2>8. (<<op>> \o s)[1] = op
    BY <2>7
  <2>9. op.kind = g[n].kind
    BY <2>1 DEF Op
  <2>. QED
    BY <2>3, <2>8, <2>9
<1>. QED
  BY <1>3, <1>4

\* A value whose node is a derived type is right, if what it is derived from is.
LEMMA RightAbove ==
  ASSUME NEW g, NEW T, NEW E, Ends(g, T, E), Typed(g, T), WellFounded(Node, TreeEdges(g)),
         NEW M, M = Meanings(g, T), NEW f \in Node, NEW t \in Node,
         g[f].kind \in ParentKind, g[f].of = t, g[f].type = NIL,
         NEW v, v.tag # "list", v.tag # "ref", v.ast = f,
         v.ops = <<Op(g[f].kind, [i \in DOMAIN g[f].args |-> M[g[f].args[i]]], NIL)>> \o M[t],
         v.proper /\ Legal(M[t]) => c_ast_check(g, t) = "accepted",
         v.proper => \A i \in DOMAIN g[f].args : c_ast_check(g, g[f].args[i]) = "accepted"
  PROVE  Right(g, T, v)
<1>1. Means(g, T, M) /\ NIL \notin Node
  BY MeansSolved, NilFacts DEF Meanings
<1>2. f \in Address /\ f # NIL /\ g[f].kind # "typedef" /\ g[f].kind # "placeholder"
      /\ c_ast_is_parent(g, f)
  BY <1>1, Kinds DEF Address, c_ast_is_parent
<1>3. PICK op : op = Op(g[f].kind, [i \in DOMAIN g[f].args |-> M[g[f].args[i]]], NIL)
  OBVIOUS
<1>4. M[f] = <<op>> \o M[t]
  <2>1. M[f] = MeansBody(g, T, M, f)
    BY <1>1, <1>2 DEF Means
  <2>. QED
    BY <1>2, <1>3, <2>1 DEF MeansBody
<1>5. Said(M, v)
  BY <1>3, <1>4 DEF Said
<1>6. ASSUME v.proper, Legal(v.ops) PROVE c_ast_check(g, f) = "accepted"
  <2>1. /\ \E X : M[t] \in Seq(X)
        /\ M[t] # <<>>
        /\ g[t].kind # "typedef" => M[t][1].kind = g[t].kind
    BY <1>1, FirstOperator
  <2>2. op.kind = g[f].kind
    BY <1>3 DEF Op
  <2>3. Legal(<<op>> \o M[t])
    BY <1>3, <1>6
  <2>4. /\ Legal(M[t])
        /\ g[f].kind = "array" => M[t][1].kind \notin {"function"} \cup References
        /\ g[f].kind = "function" => M[t][1].kind \notin {"array", "function"}
        /\ g[f].kind \in Pointing => M[t][1].kind \notin References
    BY <2>1, <2>2, <2>3, LegalTail
  <2>5. c_ast_check(g, t) = "accepted"
    BY <1>6, <2>4
  <2>6. /\ "typedef" # "function" /\ "typedef" # "array" /\ "typedef" \notin References
        /\ "pointer" \in Pointing
    BY Kinds
  <2>7. g[f].kind = "array" => g[t].kind # "function"
    BY <2>1, <2>4, <2>6
  <2>8. g[f].kind = "function" => g[t].kind \notin {"array", "function"}
    BY <2>1, <2>4, <2>6
  <2>9. g[f].kind = "pointer" => g[t].kind \notin References
    BY <2>1, <2>4, <2>6
  <2>10. g \in Heaps(Types, Names)
    BY DEF Typed
  <2>. QED
    BY <1>1, <1>2, <1>6, <2>5, <2>7, <2>8, <2>9, <2>10, CheckOn
<1>7. Sure(g, v)
  BY <1>6 DEF Sure
<1>. QED
  BY <1>1, <1>5, <1>7 DEF Right, Open

\* A value whose node has nothing below it is right, and that of a reference to
\* nothing yet.
LEMMA RightLeaf ==
  ASSUME NEW g, NEW T, NEW E, Ends(g, T, E), Typed(g, T), WellFounded(Node, TreeEdges(g)),
         NEW M, M = Meanings(g, T), NEW f \in Node,
         g[f].kind \in {"builtin", "typedef"} \cup References, g[f].of = NIL, g[f].args = <<>>,
         NEW v, v.tag # "list", v.ast = f, v.ops = M[f], v.tag = "ref" => g[f].type = NIL
  PROVE  Right(g, T, v)
<1>1. NIL \notin Node /\ g \in Heaps(Types, Names)
  BY NilFacts DEF Typed
<1>2. /\ "array" \notin {"builtin", "typedef"} \cup References
      /\ "function" \notin {"builtin", "typedef"} \cup References
      /\ "pointer" \notin {"builtin", "typedef"} \cup References
      /\ "placeholder" \notin {"builtin", "typedef"} \cup References
  BY Kinds
<1>3. c_ast_check(g, NIL) = "accepted"
  <2>1. PICK c : Checks(g, c)
    BY <1>1, CheckOf
  <2>2. NIL \in Address
    BY DEF Address
  <2>3. c_ast_check(g, NIL) = CheckBody(g, c, NIL)
    BY <2>1, <2>2 DEF Checks
  <2>. QED
    BY <2>3 DEF CheckBody
<1>4. DOMAIN g[f].args = {}
  OBVIOUS
<1>5. c_ast_check(g, f) = "accepted"
  BY <1>1, <1>2, <1>3, <1>4, CheckOn
<1>. QED
  BY <1>5 DEF Right, Said, Sure, Open

-----------------------------------------------------------------------------
(* The productions of an English command.                                 *)

\* All that is not lost is steady but for nodes to which nothing leads.
LEMMA SteadyNow ==
  ASSUME NEW L, NEW G, NEW cl, NEW vc, NEW ix, State(L, G, cl, vc, ix), ~Exiting, EntriesStay,
         UNCHANGED typedefs, NEW B, B \subseteq On,
         \A n \in On \ B : /\ SameNode(h, h', n)
                           /\ h[n].of \notin B /\ ToSet(h[n].args) \cap B = {},
         NEW S, S = (On \ B) \cup Owned(L)
  PROVE  Steady(S)
<1>1. /\ On \subseteq Node /\ Owned(L) \subseteq live \ On /\ Owned(L) \subseteq Node
      /\ On \subseteq live
      /\ \A n \in On : h[n].of \in On \cup {NIL} /\ ToSet(h[n].args) \subseteq On
      /\ \A n \in Owned(L) : h[n].of \in Owned(L) \cup {NIL} /\ ToSet(h[n].args) \subseteq Owned(L)
      /\ \A t \in Defined : typedefs[t] \in Owned(L)
      /\ \A n \in live : h[n].kind = "typedef" => h[n].def \in Defined
  BY StateFacts DEF State, Base, LinksOK, TableOK, Owned, Exiting
<1>2. ASSUME NEW m \in S
      PROVE  /\ SameNode(h, h', m)
             /\ h[m].of \in S \cup {NIL} /\ ToSet(h[m].args) \subseteq S
             /\ m \in live
  <2>1. CASE m \in On \ B
    BY <1>1, <2>1
  <2>2. CASE m \in Owned(L)
    <3>1. h'[m] = h[m]
      BY <1>1, <2>2 DEF EntriesStay
    <3>. QED
      BY <1>1, <2>2, <3>1 DEF SameNode
  <2>. QED
    BY <2>1, <2>2
<1>3. ASSUME NEW m \in S, h[m].kind = "typedef"
      PROVE  typedefs[h[m].def] \in S /\ typedefs'[h[m].def] = typedefs[h[m].def]
  BY <1>1, <1>2, <1>3
<1>. QED
  BY <1>1, <1>2, <1>3 DEF Steady

\* The nodes of values are on the list of nodes.
LEMMA EngValues ==
  ASSUME NEW L, NEW G, NEW cl, NEW vc, NEW ix, State(L, G, cl, vc, ix), command \in English
  PROVE  \A i \in 1..N : /\ values[i].tag # "list" => values[i].ast \in On
                         /\ ToSet(values[i].list) \subseteq On
  BY DEF State, Eng, Lists

\* What a step of an English command starts from and leads to.
EngStep ==
  /\ IInv /\ ~Exiting /\ IInv' /\ ~Exiting' /\ EntriesStay
  /\ phase = "parse" /\ command \in English /\ EngRight /\ EnglishFrame

\* What is known after it.
LEMMA EngAfter ==
  ASSUME EngStep
  PROVE  /\ \E E : Ends(h', typedefs', E)
         /\ Typed(h', typedefs') /\ WellFounded(Node, TreeEdges(h'))
         /\ typedefs' = typedefs /\ h' \in Heaps(Types, Names)
<1>1. IInv' /\ ~Exiting' /\ typedefs' = typedefs
  BY DEF EngStep, EnglishFrame, ProductionFrame
<1>2. \E E : Ends(h', typedefs', E)
  BY <1>1, MeaningEndsNext
<1>3. Typed(h', typedefs')
  BY <1>1, TypedNext
<1>4. h' \in Heaps(Types, Names) /\ WellFounded(Node, TreeEdges(h'))
  BY <1>1, TreesEndNext
<1>. QED
  BY <1>1, <1>2, <1>3, <1>4

\* A new node with nothing below it is put on the values.
LEMMA EngLeafRight ==
  ASSUME NEW L, NEW G, NEW cl, NEW vc, NEW ix, State(L, G, cl, vc, ix), EngStep,
         Room(1), c_ast_new(<<Free1>>),
         NEW f, f = Free1, NEW kind \in {"builtin", "typedef"} \cup References,
         ChosenCell(f, kind),
         NEW v, IsValue(v), v.tag # "list", v.ast = f, v.list = <<>>,
         v.tag = "ref" => h'[f].type = NIL,
         v.ops = Meanings(h', typedefs')[f], values' = Append(values, v)
  PROVE  EngRight'
<1>1. /\ phase = "parse" /\ command \in English /\ ~Exiting /\ EntriesStay /\ typedefs' = typedefs
      /\ IInv /\ IInv' /\ ~Exiting' /\ EngRight /\ ProductionFrame
  BY DEF EngStep, EnglishFrame, ProductionFrame
<1>2. HeapOK(L) /\ On \subseteq Node /\ On \subseteq live /\ ValuesOK /\ NIL \notin Node
  BY StateFacts DEF State, Base
<1>3. f \in Node \ live /\ ToSet(gc') = On \cup {f}
  BY <1>1, <1>2, Allocated
<1>4. PICK cell : /\ Fresh(cell, kind, ast_depth) /\ cell.args = <<>>
                  /\ h' = [h EXCEPT ![f] = cell]
  BY DEF ChosenCell
<1>5. h'[f] = cell /\ \A n \in Node \ {f} : h'[n] = h[n]
  <2>1. h \in Heaps(Types, Names)
    BY StateFacts
  <2>. QED
    BY <1>3, <1>4, <2>1 DEF Heaps
<1>6. h'[f].kind = kind /\ h'[f].of = NIL /\ h'[f].args = <<>>
  BY <1>4, <1>5 DEF Fresh
<1>7. PICK B, S : B = {} /\ S = (On \ B) \cup Owned(L)
  OBVIOUS
<1>8. Steady(S)
  <2>1. \A n \in On \ B : /\ SameNode(h, h', n)
                          /\ h[n].of \notin B /\ ToSet(h[n].args) \cap B = {}
    BY <1>2, <1>3, <1>5, <1>7 DEF SameNode
  <2>2. B \subseteq On
    BY <1>7
  <2>. QED
    BY <1>1, <1>7, <2>1, <2>2, SteadyNow
<1>9. Right(h', typedefs', v)
  <2>1. PICK E : Ends(h', typedefs', E)
    BY EngAfter
  <2>2. PICK g, T, M : g = h' /\ T = typedefs' /\ M = Meanings(g, T)
    OBVIOUS
  <2>3. Ends(g, T, E) /\ Typed(g, T) /\ WellFounded(Node, TreeEdges(g))
    BY <2>1, <2>2, EngAfter
  <2>4. g[f].kind \in {"builtin", "typedef"} \cup References /\ g[f].of = NIL /\ g[f].args = <<>>
        /\ v.ops = M[f] /\ f \in Node /\ (v.tag = "ref" => g[f].type = NIL)
    BY <1>3, <1>6, <2>2
  <2>5. Right(g, T, v)
    BY <2>2, <2>3, <2>4, RightLeaf
  <2>. QED
    BY <2>2, <2>5
<1>10. Needed'
  <2>1. kind \notin Needy
    BY Kinds DEF Needy
  <2>2. \A n \in On : h[n].of = NIL => h[n].kind \notin Needy
    BY <1>1 DEF EngRight, Needed
  <2>. QED
    BY <1>2, <1>3, <1>5, <1>6, <2>1, <2>2 DEF Needed, On
<1>11. Above(N, v)
  <2>1. v.list \in Seq(Node)
    OBVIOUS
  <2>. QED
    BY <1>2, <2>1, AppendAbove
<1>12. PICK m : m = N
  OBVIOUS
<1>13. \A i \in 1..m : /\ values[i].tag # "list" => values[i].ast \in S \cap On
                       /\ ToSet(values[i].list) \subseteq S \cap On
  BY <1>1, <1>7, <1>12, EngValues
<1>. QED
  BY <1>1, <1>8, <1>9, <1>10, <1>11, <1>12, <1>13, EngRightAbove

\* A node that is linked to a new one differs in its parent only.
LEMMA LinkedAbove ==
  ASSUME NIL \notin Node, h \in Heaps(Types, Names), On \subseteq Node,
         NEW f \in Node \ On, NEW cell \in Cells(Types, Names), cell.kind \in ParentKind,
         cell.parent = NIL, NEW t \in On, LinksNew(f, cell, t)
  PROVE  \A n \in On : SameNode(h, h', n)
<1>1. PICK g : g = [h EXCEPT ![f] = cell]
  OBVIOUS
<1>2. g[f] = cell /\ \A n \in Node \ {f} : g[n] = h[n]
  BY <1>1 DEF Heaps
<1>3. g \in Heaps(Types, Names) /\ f # t
  BY <1>1 DEF Heaps
<1>4. h' = c_ast_set_parent(g, t, f)
  BY <1>1 DEF LinksNew
<1>5. h' \in Heaps(Types, Names) /\ Linked(g, h', t, f)
  <2>1. g[f].kind \in ParentKind /\ g[f].parent = NIL /\ t \in Node /\ f \in Node
    BY <1>2
  <2>. QED
    BY <1>3, <1>4, <2>1, SetParentDone
<1>6. ASSUME NEW n \in On PROVE SameNode(h, h', n)
  <2>1. n \in Node /\ n # f /\ g[n] = h[n]
    BY <1>2
  <2>. QED
    BY <1>5, <2>1 DEF Linked, SameData, SameNode
<1>. QED
  BY <1>6

\* What the nodes of a list mean, and that none of them is rejected.
MeaningsOf(list, aops) == aops = [i \in DOMAIN list |-> Meanings(h, typedefs)[list[i]]]
Accepted(list) == \A i \in DOMAIN list : c_ast_check(h, list[i]) = "accepted"

\* A new node is put above that of the value on top, with the list below it: the
\* new value is right, if it says so.
LEMMA EngAboveRight ==
  ASSUME NEW L, NEW G, NEW cl, NEW vc, NEW ix, State(L, G, cl, vc, ix), EngStep, ParsingEnglish,
         NEW tags, TopIs(tags), "list" \notin tags, Room(1), c_ast_new(<<Free1>>),
         NEW f, f = Free1, NEW kind \in ParentKind,
         NEW cell, Fresh(cell, kind, ast_depth), cell.type = NIL, LinksNew(f, cell, Top.ast),
         NEW k \in {1, 2}, k <= N,
         cell.args = <<>> \/ (k = 2 /\ cell.args = values[N - 1].list /\ kind = "function"),
         NEW v, IsValue(v), v.tag = "decl", v.ast = f, v.list = <<>>, values' = Replace(k, v),
         NEW aops, MeaningsOf(cell.args, aops),
         v.ops = <<Op(kind, aops, NIL)>> \o Top.ops,
         v.proper => Top.proper /\ Accepted(cell.args)
  PROVE  EngRight'
<1>1. /\ phase = "parse" /\ command \in English /\ ~Exiting /\ EntriesStay /\ typedefs' = typedefs
      /\ IInv /\ IInv' /\ ~Exiting' /\ EngRight /\ Needed /\ ProductionFrame
  BY DEF EngStep, EnglishFrame, ProductionFrame, EngRight
<1>2. /\ HeapOK(L) /\ Base(L, G) /\ ValuesOK /\ Lists(cl, vc)
      /\ On \subseteq Node /\ On \subseteq live /\ NIL \notin Node /\ N \in Nat
      /\ h \in Heaps(Types, Names)
      /\ \A n \in On : /\ h[n].of \in On \cup {NIL} /\ ToSet(h[n].args) \subseteq On
  BY StateFacts DEF State, Base
<1>3. f \in Node \ live /\ Grows({f}) /\ ToSet(gc') = On \cup {f}
  BY <1>1, <1>2, Allocated
<1>4. /\ N > 0 /\ N \in 1..N /\ Top = values[N] /\ Top.ast \in On /\ Top.tag \in tags
      /\ Top.tag # "list"
  BY EngTopIs
<1>5. PICK t : t = Top.ast
  OBVIOUS
<1>6. ToSet(cell.args) \subseteq On /\ (cell.args # <<>> => kind = "function")
  <2>1. ToSet(<<>>) = {}
    BY NoClasses
  <2>2. k = 2 => ToSet(values[N - 1].list) \subseteq On
    BY <1>2, <1>4 DEF Lists
  <2>. QED
    BY <2>1, <2>2
<1>7. NodeAbove(f, cell, t)
  <2>1. PICK depth : depth = ast_depth
    OBVIOUS
  <2>2. phase \notin {"exit", "exited"}
    BY <1>1
  <2>. QED
    BY <1>2, <1>3, <1>4, <1>5, <1>6, <2>1, <2>2, NewAbove
<1>8. h'[f].kind = kind /\ h'[f].of = t /\ h'[f].args = cell.args /\ h'[f].type = NIL
  BY <1>7 DEF NodeAbove, Fresh
<1>9. PICK B, S : B = {} /\ S = (On \ B) \cup Owned(L)
  OBVIOUS
<1>10. \A n \in On : SameNode(h, h', n)
  BY <1>2, <1>3, <1>4, <1>5, LinkedAbove DEF Fresh
<1>11. Steady(S)
  <2>1. \A n \in On \ B : /\ SameNode(h, h', n)
                          /\ h[n].of \notin B /\ ToSet(h[n].args) \cap B = {}
    BY <1>9, <1>10
  <2>2. B \subseteq On
    BY <1>9
  <2>. QED
    BY <1>1, <1>9, <2>1, <2>2, SteadyNow
<1>12. On \subseteq S
  BY <1>9
<1>13. \A n \in On : Meanings(h', typedefs')[n] = Meanings(h, typedefs)[n]
  BY <1>1, <1>11, <1>12, SteadyMeans
<1>14. \A n \in On : c_ast_check(h', n) = c_ast_check(h, n)
  BY <1>1, <1>11, <1>12, SteadyChecks
<1>15. /\ Top.ops = Meanings(h, typedefs)[t]
       /\ Top.proper /\ Legal(Top.ops) => c_ast_check(h, t) = "accepted"
  <2>1. Right(h, typedefs, Top)
    BY <1>1, <1>4 DEF EngRight
  <2>. QED
    BY <1>4, <1>5, <2>1 DEF Right, Said, Sure
<1>16. \A i \in DOMAIN cell.args : cell.args[i] \in On
  BY <1>6 DEF ToSet
<1>17. Right(h', typedefs', v)
  <2>1. PICK E : Ends(h', typedefs', E)
    BY EngAfter
  <2>2. PICK g, T, M : g = h' /\ T = typedefs' /\ M = Meanings(g, T)
    OBVIOUS
  <2>3. Ends(g, T, E) /\ Typed(g, T) /\ WellFounded(Node, TreeEdges(g))
    BY <2>1, <2>2, EngAfter
  <2>4. /\ g[f].kind \in ParentKind /\ g[f].of = t /\ g[f].type = NIL /\ g[f].kind = kind
        /\ g[f].args = cell.args /\ f \in Node /\ t \in Node
    BY <1>2, <1>3, <1>4, <1>5, <1>8, <2>2
  <2>5. v.tag # "list" /\ v.tag # "ref"
    OBVIOUS
  <2>6. M[t] = Top.ops
    BY <1>4, <1>5, <1>13, <1>15, <2>2
  <2>7. [i \in DOMAIN g[f].args |-> M[g[f].args[i]]] = aops
    BY <1>13, <1>16, <2>2, <2>4 DEF MeaningsOf
  <2>8. v.ops = <<Op(g[f].kind, [i \in DOMAIN g[f].args |-> M[g[f].args[i]]], NIL)>> \o M[t]
    BY <2>4, <2>6, <2>7
  <2>9. v.proper /\ Legal(M[t]) => c_ast_check(g, t) = "accepted"
    BY <1>4, <1>5, <1>14, <1>15, <2>2, <2>6
  <2>10. v.proper => \A i \in DOMAIN g[f].args : c_ast_check(g, g[f].args[i]) = "accepted"
    BY <1>14, <1>16, <2>2, <2>4 DEF Accepted
  <2>11. Right(g, T, v)
    BY <2>2, <2>3, <2>4, <2>5, <2>8, <2>9, <2>10, RightAbove
  <2>. QED
    BY <2>2, <2>11
<1>18. Needed'
  <2>1. \A n \in On : h[n].of = NIL => h[n].kind \notin Needy
    BY <1>1 DEF Needed
  <2>2. t # NIL
    BY <1>2, <1>4, <1>5
  <2>3. \A n \in On' : n \in On \/ n = f
    BY <1>3 DEF On
  <2>4. ASSUME NEW n \in On', h'[n].of = NIL PROVE h'[n].kind \notin Needy
    BY <1>8, <1>10, <2>1, <2>2, <2>3, <2>4 DEF SameNode
  <2>. QED
    BY <2>4 DEF Needed, Needy
<1>19. PICK m : m = N - k
  OBVIOUS
<1>20. m \in Nat /\ \A i \in 1..m : i \in 1..N
  BY <1>2, <1>19
<1>21. Above(m, v)
  <2>1. v.list \in Seq(Node) /\ k \in 0..N
    BY <1>2
  <2>. QED
    BY <1>2, <1>19, <2>1, ReplaceAbove
<1>22. \A i \in 1..m : /\ values[i].tag # "list" => values[i].ast \in S \cap On
                       /\ ToSet(values[i].list) \subseteq S \cap On
  BY <1>1, <1>12, <1>20, EngValues
<1>. QED
  BY <1>1, <1>11, <1>17, <1>18, <1>21, <1>22, EngRightAbove

\* The meanings of no arguments.
LEMMA NoArguments ==
  ASSUME NEW M, NEW s, s = <<>>
  PROVE  [i \in DOMAIN s |-> M[s[i]]] = <<>>
  OBVIOUS

\* A pointer to or an array of what is declared.
LEMMA DerivedRight ==
  ASSUME NEW L, NEW G, NEW cl, NEW vc, NEW ix, State(L, G, cl, vc, ix), EngStep,
         NEW kind \in {"pointer", "array"}, derived_decl_english(kind)
  PROVE  EngRight'
<1>1. /\ ParsingEnglish /\ Room(1) /\ c_ast_new(<<Free1>>)
  BY DEF derived_decl_english
<1>2. PICK tags : tags = {"decl"}
  OBVIOUS
<1>3. TopIs(tags) /\ "list" \notin tags
  BY <1>2 DEF derived_decl_english
<1>4. /\ N \in Nat /\ N > 0 /\ Top = values[N] /\ Top.tag \in tags /\ IsValue(Top)
      /\ Top.list = <<>>
  BY <1>1, <1>3, EngTopIs
<1>5. PICK f, t : f = Free1 /\ t = Top.ast
  OBVIOUS
<1>6. ast_depth \in Nat /\ kind \in ParentKind /\ kind \in Kind /\ kind # "typedef"
  BY StateFacts, Kinds
<1>7. PICK cell : cell = NewAst(kind, ast_depth)
  OBVIOUS
<1>8. Fresh(cell, kind, ast_depth) /\ cell.args = <<>>
  BY <1>6, <1>7, FreshCells
<1>9. cell.type = NIL
  BY <1>7 DEF NewAst, NoAst
<1>10. LinksNew(f, cell, Top.ast)
  BY <1>5, <1>7 DEF LinksNew, derived_decl_english
<1>11. PICK v : v = [Top EXCEPT !.ast = f, !.ops = <<Op(kind, <<>>, NIL)>> \o @]
  OBVIOUS
<1>12. /\ IsValue(v) /\ v.tag = "decl" /\ v.ast = f /\ v.list = <<>>
       /\ v.ops = <<Op(kind, <<>>, NIL)>> \o Top.ops /\ v.proper = Top.proper
  BY <1>2, <1>4, <1>11 DEF IsValue
<1>13. PICK k \in {1, 2} : k = 1
  OBVIOUS
<1>14. values' = Replace(k, v) /\ k <= N
  BY <1>4, <1>5, <1>11, <1>13 DEF derived_decl_english
<1>15. PICK aops : MeaningsOf(cell.args, aops)
  BY DEF MeaningsOf
<1>16. aops = <<>>
  BY <1>8, <1>15, NoArguments DEF MeaningsOf
<1>17. v.ops = <<Op(kind, aops, NIL)>> \o Top.ops
  BY <1>12, <1>16
<1>18. DOMAIN cell.args = {}
  BY <1>8
<1>19. v.proper => Top.proper /\ Accepted(cell.args)
  BY <1>12, <1>18 DEF Accepted
<1>. QED
  BY <1>1, <1>3, <1>5, <1>6, <1>8, <1>9, <1>10, <1>12, <1>14, <1>15, <1>17, <1>19, EngAboveRight

\* A function that returns what is declared.
LEMMA FuncDeclRight ==
  ASSUME NEW L, NEW G, NEW cl, NEW vc, NEW ix, State(L, G, cl, vc, ix), EngStep, FuncDeclEnglish
  PROVE  EngRight'
<1>1. /\ ParsingEnglish /\ Room(1) /\ EngRight
  BY DEF FuncDeclEnglish, EngStep
<1>2. PICK tags : tags = {"decl", "void"}
  OBVIOUS
<1>3. TopIs(tags) /\ "list" \notin tags
  BY <1>2 DEF FuncDeclEnglish
<1>4. /\ N \in Nat /\ N > 0 /\ Top = values[N] /\ Top.tag \in tags /\ IsValue(Top)
      /\ Top.list = <<>>
  BY <1>1, <1>3, EngTopIs
<1>5. PICK f : f = Free1
  OBVIOUS
<1>6. /\ ast_depth \in Nat /\ ValuesOK
  BY StateFacts DEF State
<1>7. PICK ret : ret = [Top EXCEPT !.tag = "decl"]
  OBVIOUS
<1>8. /\ IsValue(ret) /\ ret.tag = "decl" /\ ret.ast = Top.ast /\ ret.list = <<>>
      /\ ret.ops = Top.ops /\ ret.proper = Top.proper
  BY <1>4, <1>7 DEF IsValue
<1>9. PICK kind \in ParentKind : kind = "function"
  BY Kinds
<1>10. PICK k, list :
         /\ k \in {1, 2} /\ func_decl_english(k, list, ret)
         /\ \/ k = 1 /\ list = NoList
            \/ k = 2 /\ TopTwo({"list"}, {"decl", "void"}) /\ list = Below
  <2>1. \/ func_decl_english(1, NoList, ret)
        \/ TopTwo({"list"}, {"decl", "void"}) /\ func_decl_english(2, Below, ret)
    BY <1>7 DEF FuncDeclEnglish
  <2>. QED
    BY <2>1
<1>11. /\ list.list = <<>> \/ (k = 2 /\ list.list = values[N - 1].list)
       /\ k <= N /\ list.list \in Seq(Node)
       /\ list.ops = [i \in DOMAIN list.list |-> Meanings(h, typedefs)[list.list[i]]]
       /\ list.proper => \A i \in DOMAIN list.list : c_ast_check(h, list.list[i]) = "accepted"
  <2>1. CASE k = 1 /\ list = NoList
    <3>1. PICK tag : tag = "list"
      OBVIOUS
    <3>2. list = Value(tag, NIL)
      BY <2>1, <3>1 DEF NoList
    <3>3. list.list = <<>> /\ list.ops = <<>> /\ <<>> \in Seq(Node)
      BY <3>2, ValueFields
    <3>4. list.ops = [i \in DOMAIN list.list |-> Meanings(h, typedefs)[list.list[i]]]
      BY <3>3, NoArguments
    <3>5. DOMAIN list.list = {}
      BY <3>3
    <3>. QED
      BY <1>4, <2>1, <3>3, <3>4, <3>5
  <2>2. CASE k = 2 /\ TopTwo({"list"}, {"decl", "void"}) /\ list = Below
    <3>1. N > 1 /\ Below = values[N - 1] /\ Below.tag = "list"
      BY <2>2 DEF TopTwo, Below, N
    <3>2. N - 1 \in 1..N
      BY <1>4, <3>1
    <3>3. values[N - 1].list \in Seq(Node)
      BY <1>6, <3>2, ValueAt
    <3>4. Right(h, typedefs, list)
      BY <1>1, <2>2, <3>1, <3>2 DEF EngRight
    <3>. QED
      BY <1>4, <2>2, <3>1, <3>3, <3>4 DEF Right, Said, Sure
  <2>. QED
    BY <1>10, <2>1, <2>2
<1>12. PICK cell : cell = [NewAst("function", ast_depth) EXCEPT !.args = list.list]
  OBVIOUS
<1>13. Fresh(cell, kind, ast_depth) /\ cell.args = list.list
  BY <1>6, <1>9, <1>11, <1>12, FreshCells
<1>14. cell.type = NIL
  BY <1>12 DEF NewAst, NoAst
<1>15. LinksNew(f, cell, Top.ast) /\ c_ast_new(<<Free1>>)
  BY <1>5, <1>8, <1>10, <1>12 DEF LinksNew, func_decl_english
<1>16. PICK v : v = [ret EXCEPT !.ast = f, !.ops = <<Op("function", list.ops, NIL)>> \o @,
                                !.proper = @ /\ list.proper]
  OBVIOUS
<1>17. /\ IsValue(v) /\ v.tag = "decl" /\ v.ast = f /\ v.list = <<>>
       /\ v.ops = <<Op("function", list.ops, NIL)>> \o ret.ops
       /\ v.proper = (ret.proper /\ list.proper)
  BY <1>8, <1>16 DEF IsValue
<1>18. values' = Replace(k, v)
  BY <1>5, <1>10, <1>16 DEF func_decl_english
<1>19. cell.args = <<>> \/ (k = 2 /\ cell.args = values[N - 1].list /\ kind = "function")
  BY <1>9, <1>11, <1>13
<1>20. PICK aops : MeaningsOf(cell.args, aops)
  BY DEF MeaningsOf
<1>21. aops = list.ops
  BY <1>11, <1>13, <1>20 DEF MeaningsOf
<1>22. v.ops = <<Op(kind, aops, NIL)>> \o Top.ops
  BY <1>8, <1>9, <1>17, <1>21
<1>23. v.proper => Top.proper /\ Accepted(cell.args)
  BY <1>8, <1>11, <1>13, <1>17 DEF Accepted
<1>24. k \in {1, 2} /\ k <= N
  BY <1>10, <1>11
<1>. QED
  BY <1>1, <1>3, <1>5, <1>9, <1>13, <1>14, <1>15, <1>17, <1>18, <1>19, <1>20, <1>22, <1>23,
     <1>24, EngAboveRight

\* What a node that is derived from nothing means.
LEMMA OpenMeans ==
  ASSUME NEW g, NEW T, NEW E, Ends(g, T, E), NIL \notin Node, NEW b \in Node,
         g[b].kind \in ParentKind, g[b].of = NIL, g[b].type = NIL, g[b].args = <<>>
  PROVE  Meanings(g, T)[b] = <<Op(g[b].kind, <<>>, NIL)>>
<1>1. PICK M : M = Meanings(g, T)
  OBVIOUS
<1>2. Means(g, T, M)
  BY <1>1, MeansSolved DEF Meanings
<1>3. b \in Address /\ NIL \in Address /\ b # NIL /\ g[b].kind # "typedef" /\ c_ast_is_parent(g, b)
  BY Kinds DEF Address, c_ast_is_parent
<1>4. M[NIL] = <<>>
  <2>1. M[NIL] = MeansBody(g, T, M, NIL)
    BY <1>2, <1>3 DEF Means
  <2>. QED
    BY <2>1 DEF MeansBody
<1>5. PICK op : op = Op(g[b].kind, <<>>, NIL)
  OBVIOUS
<1>6. M[b] = <<op>> \o <<>>
  <2>1. M[b] = MeansBody(g, T, M, b)
    BY <1>2, <1>3 DEF Means
  <2>2. PICK s : s = g[b].args
    OBVIOUS
  <2>3. [i \in DOMAIN s |-> M[s[i]]] = <<>>
    BY <2>2, NoArguments
  <2>4. Op(g[b].kind, [i \in DOMAIN g[b].args |-> M[g[b].args[i]]], g[b].type) = op
    BY <1>5, <2>2, <2>3
  <2>5. MeansBody(g, T, M, b) =
          <<Op(g[b].kind, [i \in DOMAIN g[b].args |-> M[g[b].args[i]]], g[b].type)>> \o M[g[b].of]
    BY <1>3 DEF MeansBody
  <2>6. M[g[b].of] = <<>>
    BY <1>4
  <2>. QED
    BY <2>1, <2>4, <2>5, <2>6
<1>7. <<op>> \o <<>> = <<op>>
  <2>1. <<op>> \in Seq({op})
    OBVIOUS
  <2>. QED
    BY <2>1
<1>. QED
  BY <1>1, <1>5, <1>6, <1>7

\* A reference to what is declared.
LEMMA ReferenceDeclRight ==
  ASSUME NEW L, NEW G, NEW cl, NEW vc, NEW ix, State(L, G, cl, vc, ix), EngStep,
         reference_decl_english
  PROVE  EngRight'
<1>1. /\ phase = "parse" /\ command \in English /\ ~Exiting /\ EntriesStay /\ typedefs' = typedefs
      /\ IInv /\ IInv' /\ ~Exiting' /\ EngRight /\ Needed
      /\ UNCHANGED gc /\ ParsingEnglish
  BY DEF EngStep, EnglishFrame, ProductionFrame, EngRight, reference_decl_english
<1>2. PICK tags1, tags2 : tags1 = {"ref"} /\ tags2 = {"decl"}
  OBVIOUS
<1>3. TopTwo(tags1, tags2) /\ "list" \notin tags1 /\ "list" \notin tags2
  BY <1>2 DEF reference_decl_english
<1>4. TopIs(tags2)
  BY <1>3, TopTwoIs DEF State
<1>5. /\ ValuesOK /\ Lists(cl, vc) /\ Eng(cl, vc)
      /\ On \subseteq Node /\ NIL \notin Node /\ N \in Nat /\ h \in Heaps(Types, Names)
      /\ \A n \in On : h[n].of \in On \cup {NIL} /\ ToSet(h[n].args) \subseteq On
  BY <1>1, StateFacts DEF State, Base
<1>6. /\ N > 0 /\ N \in 1..N /\ Top = values[N] /\ IsValue(Top) /\ Top.tag = "decl"
      /\ Top.list = <<>> /\ Top.ast \in On /\ cl[Top.ast] = vc[N] /\ h[Top.ast].parent = NIL
      /\ \A j \in 1..N - 1 : j \in 1..N /\ vc[j] # vc[N]
  BY <1>1, <1>2, <1>3, <1>4, EngTopIs
<1>7. /\ N > 1 /\ N - 1 \in 1..N /\ Below = values[N - 1] /\ Below.tag = "ref"
      /\ Below.ast \in On /\ cl[Below.ast] = vc[N - 1] /\ h[Below.ast].parent = NIL
      /\ \A n \in On : h[n].of # Below.ast
      /\ \A j \in 1..N - 2 : j \in 1..N /\ vc[j] # vc[N - 1]
      /\ h[Below.ast].kind \in ParentKind
  BY <1>1, <1>2, <1>3, EngTopTwo
<1>8. PICK t, b : t = Top.ast /\ b = Below.ast
  OBVIOUS
<1>9. N - 1 \in 1..N - 1 /\ t # b /\ t \in Node /\ b \in Node
  BY <1>5, <1>6, <1>7, <1>8
<1>10. /\ h[b].of = NIL /\ h[b].type = NIL /\ h[b].args = <<>>
       /\ Below.ops = Meanings(h, typedefs)[b]
  <2>1. Right(h, typedefs, Below)
    BY <1>1, <1>7 DEF EngRight
  <2>2. Below.tag # "list"
    BY <1>7
  <2>. QED
    BY <1>7, <1>8, <2>1, <2>2 DEF Right, Said, Open
<1>11. /\ Top.ops = Meanings(h, typedefs)[t]
       /\ Top.proper /\ Legal(Top.ops) => c_ast_check(h, t) = "accepted"
  <2>1. Right(h, typedefs, Top)
    BY <1>1, <1>6 DEF EngRight
  <2>. QED
    BY <1>6, <1>8, <2>1 DEF Right, Said, Sure
<1>12. Linked(h, h', t, b)
  <2>1. h' = c_ast_set_parent(h, t, b)
    BY <1>8 DEF reference_decl_english
  <2>. QED
    BY <1>5, <1>7, <1>8, <1>9, <2>1, SetParentDone
<1>13. \A n \in Node : /\ h'[n].kind = h[n].kind /\ h'[n].def = h[n].def
                       /\ h'[n].args = h[n].args /\ h'[n].type = h[n].type
                       /\ h'[n].of = (IF n = b THEN t ELSE h[n].of)
  BY <1>12 DEF Linked, SameData
<1>14. PICK B, S : B = {b} /\ S = (On \ B) \cup Owned(L)
  OBVIOUS
<1>15. \A n \in On : b \notin ToSet(h[n].args)
  <2>1. ASSUME NEW n \in On, b \in ToSet(h[n].args) PROVE FALSE
    <3>1. cl[b] \in Classes(cl, h[n].args)
      BY <2>1 DEF Classes, ToSet
    <3>. QED
      BY <1>5, <1>7, <1>8, <3>1 DEF Lists
  <2>. QED
    BY <2>1
<1>16. Steady(S)
  <2>1. \A n \in On \ B : /\ SameNode(h, h', n)
                          /\ h[n].of \notin B /\ ToSet(h[n].args) \cap B = {}
    BY <1>5, <1>7, <1>8, <1>13, <1>14, <1>15 DEF SameNode
  <2>2. B \subseteq On
    BY <1>7, <1>8, <1>14
  <2>. QED
    BY <1>1, <1>14, <2>1, <2>2, SteadyNow
<1>17. t \in S /\ t \in On /\ \A n \in On : n # b => n \in S \cap On
  BY <1>6, <1>8, <1>9, <1>14
<1>18. Meanings(h', typedefs')[t] = Meanings(h, typedefs)[t]
  BY <1>1, <1>16, <1>17, SteadyMeans
<1>19. c_ast_check(h', t) = c_ast_check(h, t)
  BY <1>1, <1>16, <1>17, SteadyChecks
<1>20. PICK v : v = [Top EXCEPT !.ast = b, !.ops = Below.ops \o @]
  OBVIOUS
<1>21. /\ IsValue(v) /\ v.tag = "decl" /\ v.ast = b /\ v.list = <<>>
       /\ v.ops = Below.ops \o Top.ops /\ v.proper = Top.proper
  BY <1>6, <1>20 DEF IsValue
<1>22. Below.ops = <<Op(h[b].kind, <<>>, NIL)>>
  <2>1. PICK E : Ends(h, typedefs, E)
    BY <1>1, MeaningEnds
  <2>2. h[b].kind \in ParentKind
    BY <1>7, <1>8
  <2>. QED
    BY <1>5, <1>9, <1>10, <2>1, <2>2, OpenMeans
<1>23. Right(h', typedefs', v)
  <2>1. PICK E : Ends(h', typedefs', E)
    BY EngAfter
  <2>2. PICK g, T, M : g = h' /\ T = typedefs' /\ M = Meanings(g, T)
    OBVIOUS
  <2>3. Ends(g, T, E) /\ Typed(g, T) /\ WellFounded(Node, TreeEdges(g))
    BY <2>1, <2>2, EngAfter
  <2>4. /\ g[b].kind \in ParentKind /\ g[b].of = t /\ g[b].type = NIL /\ g[b].kind = h[b].kind
        /\ g[b].args = <<>>
    BY <1>7, <1>8, <1>9, <1>10, <1>13, <2>2
  <2>5. v.tag # "list" /\ v.tag # "ref"
    BY <1>21
  <2>6. M[t] = Top.ops
    BY <1>11, <1>18, <2>2
  <2>7. PICK s : s = g[b].args
    OBVIOUS
  <2>8. [i \in DOMAIN s |-> M[s[i]]] = <<>>
    BY <2>4, <2>7, NoArguments
  <2>9. v.ops = <<Op(g[b].kind, [i \in DOMAIN g[b].args |-> M[g[b].args[i]]], NIL)>> \o M[t]
    BY <1>21, <1>22, <2>4, <2>6, <2>7, <2>8
  <2>10. v.proper /\ Legal(M[t]) => c_ast_check(g, t) = "accepted"
    BY <1>11, <1>19, <1>21, <2>2, <2>6
  <2>11. DOMAIN g[b].args = {}
    BY <2>4
  <2>12. v.proper => \A i \in DOMAIN g[b].args : c_ast_check(g, g[b].args[i]) = "accepted"
    BY <2>11
  <2>13. g[b].kind \in ParentKind /\ g[b].of = t /\ g[b].type = NIL /\ v.ast = b
    BY <1>21, <2>4
  <2>14. Right(g, T, v)
    BY <1>9, <2>2, <2>3, <2>5, <2>9, <2>10, <2>12, <2>13, RightAbove
  <2>. QED
    BY <2>2, <2>14
<1>24. Needed'
  <2>1. \A n \in On : h[n].of = NIL => h[n].kind \notin Needy
    BY <1>1 DEF Needed
  <2>2. On' = On /\ t # NIL
    BY <1>1, <1>5, <1>9 DEF On
  <2>3. \A n \in On' : h'[n].of = NIL => h'[n].kind \notin Needy
    BY <1>5, <1>13, <2>1, <2>2
  <2>. QED
    BY <2>3 DEF Needed, Needy
<1>25. PICK m : m = N - 2
  OBVIOUS
<1>26. m \in Nat /\ (\A i \in 1..m : i \in 1..N - 2 /\ i \in 1..N)
  BY <1>5, <1>7, <1>25
<1>27. Above(m, v)
  <2>1. PICK k \in 0..N : k = 2
    BY <1>5, <1>7
  <2>2. v.list \in Seq(Node) /\ values' = Replace(k, v)
    <3>1. values' = Replace(2, [Top EXCEPT !.ast = b, !.ops = Below.ops \o @])
      BY <1>8 DEF reference_decl_english
    <3>2. v.list \in Seq(Node)
      BY <1>21
    <3>. QED
      BY <1>20, <2>1, <3>1, <3>2
  <2>3. Above(N - k, v)
    BY <1>5, <1>21, <2>2, ReplaceAbove
  <2>. QED
    BY <1>25, <2>1, <2>3
<1>28. \A i \in 1..m : /\ values[i].tag # "list" => values[i].ast \in S \cap On
                       /\ ToSet(values[i].list) \subseteq S \cap On
  <2>1. ASSUME NEW i \in 1..m, values[i].tag # "list" PROVE values[i].ast \in S \cap On
    <3>1. i \in 1..N /\ vc[i] # vc[N - 1]
      BY <1>7, <1>26
    <3>2. values[i].ast \in On /\ cl[values[i].ast] = vc[i]
      BY <1>5, <2>1, <3>1 DEF Eng
    <3>. QED
      BY <1>7, <1>8, <1>17, <3>1, <3>2
  <2>2. ASSUME NEW i \in 1..m, NEW n \in ToSet(values[i].list) PROVE n \in S \cap On
    <3>1. i \in 1..N
      BY <1>26
    <3>2. n \in On
      BY <1>1, <2>2, <3>1, EngValues
    <3>3. cl[n] \in Classes(cl, values[i].list)
      BY <2>2 DEF Classes, ToSet
    <3>4. cl[b] \notin Classes(cl, values[i].list)
      BY <1>5, <1>7, <1>8, <3>1 DEF Lists
    <3>. QED
      BY <1>17, <3>2, <3>3, <3>4
  <2>. QED
    BY <2>1, <2>2
<1>. QED
  BY <1>1, <1>16, <1>23, <1>24, <1>27, <1>28, EngRightAbove

\* The meanings of a list to which a node is appended.
LEMMA MeaningsAppended ==
  ASSUME NEW M, NEW s \in Seq(Node), NEW a \in Node, NEW ops, ops = [i \in DOMAIN s |-> M[s[i]]],
         NEW s2, s2 = Append(s, a)
  PROVE  /\ Append(ops, M[a]) = [i \in DOMAIN s2 |-> M[s2[i]]]
         /\ s2 \in Seq(Node) /\ \A i \in DOMAIN s2 : (i \in DOMAIN s /\ s2[i] = s[i]) \/ s2[i] = a
<1>1. PICK X : X = {M[s[i]] : i \in DOMAIN s} \cup {M[a]}
  OBVIOUS
<1>2. Len(s) \in Nat /\ DOMAIN s = 1..Len(s)
  OBVIOUS
<1>3. ops \in Seq(X) /\ Len(ops) = Len(s)
  <2>1. ops \in [1..Len(s) -> X]
    BY <1>1, <1>2
  <2>2. ops \in Seq(X)
    BY <1>2, <2>1 DEF Seq
  <2>3. DOMAIN ops = 1..Len(s)
    BY <1>2
  <2>. QED
    BY <1>2, <2>2, <2>3
<1>4. PICK x \in X : x = M[a]
  BY <1>1
<1>5. PICK ops2 : ops2 = Append(ops, x)
  OBVIOUS
<1>6. /\ DOMAIN ops2 = 1..Len(s) + 1 /\ ops2[Len(s) + 1] = x
      /\ \A i \in 1..Len(s) : ops2[i] = ops[i]
      /\ ops2 \in Seq(X)
  BY <1>2, <1>3, <1>4, <1>5
<1>7. /\ s2 \in Seq(Node) /\ DOMAIN s2 = 1..Len(s) + 1 /\ s2[Len(s) + 1] = a
      /\ \A i \in 1..Len(s) : s2[i] = s[i]
  BY <1>2
<1>8. \A i \in 1..Len(s) + 1 : i \in 1..Len(s) \/ i = Len(s) + 1
  BY <1>2
<1>9. \A i \in 1..Len(s) + 1 : ops2[i] = M[s2[i]]
  BY <1>2, <1>4, <1>6, <1>7, <1>8
<1>10. ops2 = [i \in 1..Len(s) + 1 |-> ops2[i]]
  <2>1. ops2 = [i \in DOMAIN ops2 |-> ops2[i]]
    BY <1>6
  <2>. QED
    BY <1>6, <2>1
<1>11. ops2 = [i \in DOMAIN s2 |-> M[s2[i]]]
  BY <1>7, <1>9, <1>10
<1>. QED
  BY <1>2, <1>4, <1>5, <1>7, <1>8, <1>11

\* An argument is put on the list.
LEMMA DeclListRight ==
  ASSUME NEW L, NEW G, NEW cl, NEW vc, NEW ix, State(L, G, cl, vc, ix), EngStep,
         decl_list_english
  PROVE  EngRight'
<1>1. /\ phase = "parse" /\ command \in English /\ ~Exiting /\ EntriesStay /\ typedefs' = typedefs
      /\ IInv /\ IInv' /\ ~Exiting' /\ EngRight /\ Needed /\ ParsingEnglish
      /\ h' = h /\ gc' = gc
  BY DEF EngStep, EnglishFrame, ProductionFrame, EngRight, decl_list_english, ast
<1>2. PICK tags : tags = {"decl"}
  OBVIOUS
<1>3. TopIs(tags) /\ "list" \notin tags
  BY <1>2 DEF decl_list_english
<1>4. /\ N \in Nat /\ N > 0 /\ N \in 1..N /\ Top.ast \in On /\ Top = values[N] /\ Top.tag = "decl"
  BY <1>1, <1>2, <1>3, EngTopIs
<1>5. PICK a : a = Top.ast
  OBVIOUS
<1>6. ValuesOK /\ On \subseteq Node /\ a \in Node
  BY <1>4, <1>5, StateFacts DEF State
<1>7. PICK k, list :
        /\ values' = Replace(k, [list EXCEPT !.list = c_ast_list_append(@, Top.ast),
                                             !.ops = Append(@, Top.ops),
                                             !.proper = @ /\ Top.proper /\ Legal(Top.ops)])
        /\ \/ k = 1 /\ list = Value("list", NIL)
           \/ k = 2 /\ TopTwo({"list"}, {"decl"}) /\ list = Below
  BY DEF decl_list_english
<1>8. PICK m : m = N - k
  OBVIOUS
<1>9. PICK M : M = Meanings(h, typedefs)
  OBVIOUS
<1>10. /\ k \in 0..N /\ m \in Nat /\ m < N /\ IsValue(list) /\ list.list \in Seq(Node)
       /\ list.tag = "list"
       /\ list.ops = [i \in DOMAIN list.list |-> M[list.list[i]]]
       /\ list.proper => \A i \in DOMAIN list.list : c_ast_check(h, list.list[i]) = "accepted"
  <2>1. CASE k = 1 /\ list = Value("list", NIL)
    <3>1. k \in 0..N /\ m \in Nat /\ m < N
      BY <1>4, <1>8, <2>1
    <3>2. PICK tag : tag = "list"
      OBVIOUS
    <3>3. list = Value(tag, NIL)
      BY <2>1, <3>2
    <3>4. /\ IsValue(list) /\ list.list \in Seq(Node) /\ list.list = <<>> /\ list.ops = <<>>
          /\ list.tag = tag
      <4>1. /\ IsValue(Value(tag, NIL)) /\ Value(tag, NIL).list = <<>>
            /\ Value(tag, NIL).tag = tag /\ Value(tag, NIL).ops = <<>> /\ <<>> \in Seq(Node)
        BY ValueFields
      <4>. QED
        BY <3>3, <4>1
    <3>5. list.ops = [i \in DOMAIN list.list |-> M[list.list[i]]]
      BY <3>4, NoArguments
    <3>6. DOMAIN list.list = {}
      BY <3>4
    <3>. QED
      BY <3>1, <3>2, <3>4, <3>5, <3>6
  <2>2. CASE k = 2 /\ TopTwo({"list"}, {"decl"}) /\ list = Below
    <3>1. PICK tags1, tags2 : tags1 = {"list"} /\ tags2 = {"decl"}
      OBVIOUS
    <3>2. N > 1 /\ Below = values[N - 1] /\ values[N - 1].tag \in tags1
      BY <1>6, <2>2, <3>1, TopTwoIs
    <3>3. k \in 0..N /\ m \in Nat /\ m < N /\ N - 1 \in 1..N
      BY <1>4, <1>8, <2>2, <3>2
    <3>4. IsValue(values[N - 1]) /\ values[N - 1].list \in Seq(Node)
      BY <1>6, <3>3, ValueAt
    <3>5. list.tag = "list" /\ Right(h, typedefs, list)
      BY <1>1, <2>2, <3>1, <3>2, <3>3 DEF EngRight
    <3>. QED
      BY <1>9, <2>2, <3>2, <3>3, <3>4, <3>5 DEF Right, Said, Sure
  <2>. QED
    BY <1>7, <2>1, <2>2
<1>11. PICK v : v = [list EXCEPT !.list = c_ast_list_append(@, Top.ast),
                                 !.ops = Append(@, Top.ops),
                                 !.proper = @ /\ Top.proper /\ Legal(Top.ops)]
  OBVIOUS
<1>12. /\ IsValue(v) /\ v.tag = "list" /\ v.list = Append(list.list, a)
       /\ v.ops = Append(list.ops, Top.ops)
       /\ v.proper = (list.proper /\ Top.proper /\ Legal(Top.ops))
  BY <1>5, <1>10, <1>11 DEF IsValue, c_ast_list_append
<1>13. /\ Top.ops = M[a]
       /\ Top.proper /\ Legal(Top.ops) => c_ast_check(h, a) = "accepted"
  <2>1. Right(h, typedefs, Top)
    BY <1>1, <1>4 DEF EngRight
  <2>. QED
    BY <1>4, <1>5, <1>9, <2>1 DEF Right, Said, Sure
<1>14. PICK s : s = list.list
  OBVIOUS
<1>15. /\ Append(list.ops, M[a]) = [i \in DOMAIN v.list |-> M[v.list[i]]]
       /\ v.list \in Seq(Node)
       /\ \A i \in DOMAIN v.list : (i \in DOMAIN s /\ v.list[i] = s[i]) \/ v.list[i] = a
  BY <1>6, <1>10, <1>12, <1>14, MeaningsAppended
<1>16. Right(h, typedefs, v)
  <2>1. Said(M, v)
    BY <1>12, <1>13, <1>15 DEF Said
  <2>2. v.proper => \A i \in DOMAIN v.list : c_ast_check(h, v.list[i]) = "accepted"
    BY <1>10, <1>12, <1>13, <1>14, <1>15
  <2>3. Sure(h, v) /\ Open(h, v)
    BY <1>12, <2>2 DEF Sure, Open
  <2>. QED
    BY <1>9, <2>1, <2>3 DEF Right
<1>17. Right(h', typedefs', v)
  BY <1>1, <1>16
<1>18. Needed'
  BY <1>1 DEF Needed, Needy, On
<1>19. PICK B, S : B = {} /\ S = (On \ B) \cup Owned(L)
  OBVIOUS
<1>20. Steady(S)
  <2>1. \A n \in On \ B : /\ SameNode(h, h', n)
                          /\ h[n].of \notin B /\ ToSet(h[n].args) \cap B = {}
    BY <1>1, <1>19 DEF SameNode
  <2>2. B \subseteq On
    BY <1>19
  <2>. QED
    BY <1>1, <1>19, <2>1, <2>2, SteadyNow
<1>21. Above(m, v)
  <2>1. values' = Replace(k, v)
    BY <1>7, <1>11
  <2>. QED
    BY <1>6, <1>8, <1>10, <1>12, <1>15, <2>1, ReplaceAbove
<1>22. \A i \in 1..m : i \in 1..N
  BY <1>4, <1>10
<1>23. \A i \in 1..m : /\ values[i].tag # "list" => values[i].ast \in S \cap On
                       /\ ToSet(values[i].list) \subseteq S \cap On
  BY <1>1, <1>19, <1>22, EngValues
<1>. QED
  BY <1>1, <1>17, <1>18, <1>20, <1>21, <1>23, EngRightAbove

\* A type is parsed.
LEMMA TypeRight ==
  ASSUME NEW L, NEW G, NEW cl, NEW vc, NEW ix, State(L, G, cl, vc, ix), EngStep, type_english
  PROVE  EngRight'
<1>1. /\ Room(1) /\ c_ast_new(<<Free1>>) /\ typedefs' = typedefs
      /\ builtin_type_ast_c \/ typedef_type_ast_c
  BY DEF type_english, BeginEnglish, ParsingEnglish, EnglishFrame, ProductionFrame
<1>2. ast_depth \in Nat
  BY StateFacts
<1>3. PICK f : f = Free1
  OBVIOUS
<1>4. PICK kind \in {"builtin", "typedef"} \cup References : ChosenCell(f, kind)
  BY <1>1, <1>2, <1>3, TypeChosen
<1>5. PICK tag : tag = "decl"
  OBVIOUS
<1>6. PICK v : v = [Value(tag, f) EXCEPT !.ops = Meaning(h', Free1)]
  OBVIOUS
<1>7. /\ IsValue(v) /\ v.tag = tag /\ v.ast = f /\ v.list = <<>> /\ v.ops = Meaning(h', Free1)
  BY <1>6, ValueFields DEF IsValue
<1>8. v.tag # "list" /\ v.tag # "ref"
  BY <1>5, <1>7
<1>9. v.ops = Meanings(h', typedefs')[f]
  BY <1>1, <1>3, <1>7, MeaningIs
<1>10. values' = Append(values, v)
  BY <1>3, <1>5, <1>6 DEF type_english
<1>. QED
  BY <1>1, <1>3, <1>4, <1>7, <1>8, <1>9, <1>10, EngLeafRight

\* A function that returns nothing.
LEMMA ReturningVoidRight ==
  ASSUME NEW L, NEW G, NEW cl, NEW vc, NEW ix, State(L, G, cl, vc, ix), EngStep,
         returning_void_english
  PROVE  EngRight'
<1>1. /\ Room(1) /\ c_ast_new(<<Free1>>) /\ typedefs' = typedefs
  BY DEF returning_void_english, ParsingEnglish, EnglishFrame, ProductionFrame
<1>2. ast_depth \in Nat
  BY StateFacts
<1>3. PICK f : f = Free1
  OBVIOUS
<1>4. PICK kind \in {"builtin", "typedef"} \cup References : kind = "builtin"
  OBVIOUS
<1>5. ChosenCell(f, kind)
  <2>1. PICK b \in BuiltinType \cup {"void"} : b = "void"
    OBVIOUS
  <2>2. PICK cell : cell = [NewAst("builtin", ast_depth) EXCEPT !.type = b]
    OBVIOUS
  <2>3. Fresh(cell, "builtin", ast_depth) /\ cell.args = <<>>
    BY <1>2, <2>2, FreshCells
  <2>4. h' = [h EXCEPT ![f] = cell]
    BY <1>3, <2>1, <2>2 DEF returning_void_english
  <2>. QED
    BY <1>4, <2>3, <2>4, KindsDiffer DEF ChosenCell
<1>6. PICK tag : tag = "void"
  OBVIOUS
<1>7. PICK v : v = [Value(tag, f) EXCEPT !.ops = Meaning(h', Free1)]
  OBVIOUS
<1>8. /\ IsValue(v) /\ v.tag = tag /\ v.ast = f /\ v.list = <<>> /\ v.ops = Meaning(h', Free1)
  BY <1>7, ValueFields DEF IsValue
<1>9. v.tag # "list" /\ v.tag # "ref"
  BY <1>6, <1>8
<1>10. v.ops = Meanings(h', typedefs')[f]
  BY <1>1, <1>3, <1>8, MeaningIs
<1>11. values' = Append(values, v)
  BY <1>3, <1>6, <1>7 DEF returning_void_english
<1>. QED
  BY <1>1, <1>3, <1>4, <1>5, <1>8, <1>9, <1>10, <1>11, EngLeafRight

\* A reference is parsed.
LEMMA ReferenceRight ==
  ASSUME NEW L, NEW G, NEW cl, NEW vc, NEW ix, State(L, G, cl, vc, ix), EngStep, reference_english
  PROVE  EngRight'
<1>1. /\ Room(1) /\ c_ast_new(<<Free1>>)
  BY DEF reference_english, BeginEnglish, ParsingEnglish
<1>2. ast_depth \in Nat /\ h \in Heaps(Types, Names) /\ NIL \notin Node /\ HeapOK(L)
  BY StateFacts DEF State, Base
<1>3. PICK f, tag : f = Free1 /\ tag = "ref"
  OBVIOUS
<1>4. PICK kind \in References :
        /\ h' = [h EXCEPT ![Free1] = NewAst(kind, ast_depth)]
        /\ values' = Append(values, [Value("ref", Free1) EXCEPT !.ops = <<Op(kind, <<>>, NIL)>>])
  BY DEF reference_english
<1>5. kind \in Kind /\ kind \in ParentKind /\ kind # "typedef"
  BY Kinds
<1>6. PICK cell : cell = NewAst(kind, ast_depth)
  OBVIOUS
<1>7. Fresh(cell, kind, ast_depth) /\ cell.args = <<>> /\ cell.type = NIL
  <2>1. cell.type = NIL
    BY <1>6 DEF NewAst, NoAst
  <2>2. Fresh(cell, kind, ast_depth) /\ cell.args = <<>>
    BY <1>2, <1>5, <1>6, FreshCells
  <2>. QED
    BY <2>1, <2>2
<1>8. h' = [h EXCEPT ![f] = cell]
  BY <1>3, <1>4, <1>6
<1>9. ChosenCell(f, kind)
  BY <1>5, <1>7, <1>8 DEF ChosenCell
<1>10. PICK v : v = [Value(tag, f) EXCEPT !.ops = <<Op(kind, <<>>, NIL)>>]
  OBVIOUS
<1>11. /\ IsValue(v) /\ v.tag = tag /\ v.ast = f /\ v.list = <<>>
       /\ v.ops = <<Op(kind, <<>>, NIL)>>
  BY <1>10, ValueFields DEF IsValue
<1>12. v.tag # "list"
  BY <1>3, <1>11
<1>13. values' = Append(values, v)
  BY <1>3, <1>4, <1>10
<1>14. f \in Node /\ h'[f] = cell
  <2>1. ProductionFrame
    BY DEF EngStep, EnglishFrame
  <2>2. f \in Node
    BY <1>1, <1>2, <1>3, <2>1, Allocated
  <2>. QED
    BY <1>2, <1>8, <2>2 DEF Heaps
<1>15. /\ h'[f].kind = kind /\ h'[f].of = NIL /\ h'[f].type = NIL /\ h'[f].args = <<>>
  BY <1>7, <1>14 DEF Fresh
<1>16. v.ops = Meanings(h', typedefs')[f]
  <2>1. PICK E : Ends(h', typedefs', E)
    BY EngAfter
  <2>2. PICK g, T : g = h' /\ T = typedefs'
    OBVIOUS
  <2>3. Ends(g, T, E)
    BY <2>1, <2>2
  <2>4. g[f].kind \in ParentKind /\ g[f].of = NIL /\ g[f].type = NIL /\ g[f].args = <<>>
        /\ g[f].kind = kind
    BY <1>5, <1>15, <2>2
  <2>5. Meanings(g, T)[f] = <<Op(g[f].kind, <<>>, NIL)>>
    BY <1>2, <1>14, <2>3, <2>4, OpenMeans
  <2>. QED
    BY <1>11, <2>2, <2>4, <2>5
<1>17. kind \in {"builtin", "typedef"} \cup References
  OBVIOUS
<1>. QED
  BY <1>1, <1>3, <1>9, <1>11, <1>12, <1>13, <1>15, <1>16, <1>17, EngLeafRight

\* A production of an English command leaves the values right.
LEMMA EnglishProductionRight ==
  ASSUME NEW L, NEW G, NEW cl, NEW vc, NEW ix, State(L, G, cl, vc, ix), EngStep,
         EnglishProduction
  PROVE  EngRight'
<1>1. ASSUME NEW kind, kind = "pointer" \/ kind = "array", derived_decl_english(kind)
      PROVE  EngRight'
  <2>1. kind \in {"pointer", "array"}
    BY <1>1
  <2>. QED
    BY <1>1, <2>1, DerivedRight
<1>2. CASE type_english
  BY <1>2, TypeRight
<1>3. CASE pointer_decl_english \/ array_decl_english
  BY <1>1, <1>3 DEF pointer_decl_english, array_decl_english
<1>4. CASE reference_english
  BY <1>4, ReferenceRight
<1>5. CASE reference_decl_english
  BY <1>5, ReferenceDeclRight
<1>6. CASE decl_list_english
  BY <1>6, DeclListRight
<1>7. CASE returning_void_english
  BY <1>7, ReturningVoidRight
<1>8. CASE FuncDeclEnglish
  BY <1>8, FuncDeclRight
<1>. QED
  BY <1>2, <1>3, <1>4, <1>5, <1>6, <1>7, <1>8 DEF EnglishProduction

-----------------------------------------------------------------------------
(* The end of an English command.                                         *)

\* The frame of a production of an English command.
LEMMA EnglishFrames ==
  ASSUME EnglishProduction
  PROVE  EnglishFrame
<1>1. ASSUME NEW kind, derived_decl_english(kind) PROVE EnglishFrame
  BY <1>1 DEF derived_decl_english
<1>2. ASSUME FuncDeclEnglish PROVE EnglishFrame
  BY <1>2 DEF FuncDeclEnglish, func_decl_english
<1>3. ASSUME type_english \/ reference_english \/ reference_decl_english PROVE EnglishFrame
  BY <1>3 DEF type_english, reference_english, reference_decl_english
<1>4. ASSUME decl_list_english \/ returning_void_english PROVE EnglishFrame
  BY <1>4 DEF decl_list_english, returning_void_english
<1>. QED
  BY <1>1, <1>2, <1>3, <1>4 DEF EnglishProduction, pointer_decl_english, array_decl_english

\* A step of a gibberish command says that it is one of it, and names nothing if
\* it fails.
GibberishSays ==
  /\ phase = "parse" /\ command \in Gibberish
  /\ \/ ProductionFrame
     \/ /\ phase' \in {"aborted", "idle"} /\ last'.command = command
        /\ phase' = "aborted" => last'.name = NIL

\* A failed assertion does.
LEMMA AbortSays ==
  ASSUME phase = "parse", command \in Gibberish, NEW why, NEW meant, NEW proper,
         Abort(why, meant, proper)
  PROVE  GibberishSays
  BY DEF Abort, Outcome, GibberishSays

\* So does every production.
LEMMA ProductionSays ==
  ASSUME GibberishProduction
  PROVE  GibberishSays
<1>1. ASSUME AddArray PROVE GibberishSays
  <2>1. ParsingGibberish /\ (ProductionFrame \/ \E why, meant, proper : Abort(why, meant, proper))
    BY <1>1 DEF AddArray
  <2>. QED
    BY <2>1, AbortSays DEF ParsingGibberish, GibberishSays
<1>2. ASSUME AddFunction PROVE GibberishSays
  <2>1. ParsingGibberish /\ (ProductionFrame \/ \E why, meant, proper : Abort(why, meant, proper))
    BY <1>2 DEF AddFunction
  <2>. QED
    BY <2>1, AbortSays DEF ParsingGibberish, GibberishSays
<1>3. ASSUME NEW kind, derived_decl_c(kind) PROVE GibberishSays
  <2>1. ParsingGibberish /\ (ProductionFrame \/ \E why, meant, proper : Abort(why, meant, proper))
    BY <1>3 DEF derived_decl_c
  <2>. QED
    BY <2>1, AbortSays DEF ParsingGibberish, GibberishSays
<1>4. ASSUME NEW kind, derived_type_c(kind) PROVE GibberishSays
  BY <1>4 DEF derived_type_c, BeginDeclarator, ParsingGibberish, GibberishSays
<1>5. ASSUME Unnest PROVE GibberishSays
  BY <1>5 DEF Unnest, ParsingGibberish, GibberishSays
<1>6. ASSUME type_ast_c \/ name_c \/ typedef_decl_c \/ no_cast_c PROVE GibberishSays
  BY <1>6 DEF type_ast_c, name_c, typedef_decl_c, no_cast_c, BeginType, BeginDeclarator,
              ParsingGibberish, GibberishSays
<1>7. ASSUME placeholder_type_ast_c \/ ArgsOpen \/ arg_c PROVE GibberishSays
  BY <1>7 DEF placeholder_type_ast_c, ArgsOpen, arg_c, BeginDeclarator, ParsingGibberish,
              GibberishSays
<1>. QED
  BY <1>1, <1>2, <1>3, <1>4, <1>5, <1>6, <1>7
     DEF GibberishProduction, pointer_type_c, pointer_decl_c, pointer_cast_c, reference_type_c,
         reference_decl_c, reference_cast_c, nested_decl_c, nested_cast_c, array_decl_c,
         array_cast_c, func_decl_c, func_cast_c

\* And the end of the command.
LEMMA EndSays ==
  ASSUME Explain \/ typedef_declaration_c
  PROVE  GibberishSays
<1>1. phase = "parse" /\ command \in Gibberish
  BY DEF Explain, typedef_declaration_c, EndGibberish, ParsingGibberish
<1>2. ASSUME NEW verdict, NEW name, NEW built, NEW meant, NEW proper,
             Ended(Outcome(verdict, name, built, meant, proper))
      PROVE  GibberishSays
  BY <1>1, <1>2 DEF Ended, Outcome, GibberishSays
<1>3. CASE Explain
  <2>1. \/ \E why, meant, proper : Abort(why, meant, proper)
        \/ \E verdict, name, built, meant, proper :
             Ended(Outcome(verdict, name, built, meant, proper))
    BY <1>3 DEF Explain
  <2>. QED
    BY <1>1, <1>2, <2>1, AbortSays
<1>4. CASE typedef_declaration_c
  <2>1. \/ \E why, meant, proper : Abort(why, meant, proper)
        \/ \E verdict, name, built, meant, proper :
             Ended(Outcome(verdict, name, built, meant, proper))
    BY <1>4 DEF typedef_declaration_c
  <2>. QED
    BY <1>1, <1>2, <2>1, AbortSays
<1>. QED
  BY <1>3, <1>4

\* What it takes for an English command to be readable.
LEMMA ReadableEnglish ==
  ASSUME last.command \in English, Readable
  PROVE  /\ last.proper /\ Legal(last.meant)
         /\ last.command = "cast" => last.meant[1].kind \notin {"array", "function"}
  BY Zenon DEF Readable, English

\* So after a step.
LEMMA ReadableEnglishNext ==
  last'.command \in English /\ Readable' =>
    /\ last'.proper /\ Legal(last'.meant)
    /\ last'.command = "cast" => last'.meant[1].kind \notin {"array", "function"}
<1> DEFINE P == last.command \in English /\ Readable =>
                  /\ last.proper /\ Legal(last.meant)
                  /\ last.command = "cast" => last.meant[1].kind \notin {"array", "function"}
<1>1. P
  BY ReadableEnglish
<1> HIDE DEF P
<1>2. P'
  BY <1>1, PTL
<1>. QED
  BY <1>2 DEF P

\* What has been read of an English command: the AST built for it means what was
\* written, and what is readable is not rejected.
EnglishRead ==
  last.command \in English =>
    /\ last.built = last.meant
    /\ Readable => last.verdict \in {"accepted", "defined", "redefinition"}

\* The value at the end of an English command.
LEMMA EndRight ==
  ASSUME IInv, phase = "parse", EndEnglish, EngRight
  PROVE  /\ Top.ast \in Node /\ command \in English
         /\ Top.ops = Meaning(h, Top.ast)
         /\ Top.proper /\ Legal(Top.ops) => c_ast_check(h, Top.ast) = "accepted"
         /\ c_ast_check(h, Top.ast) \in Verdicts
         /\ Top.ops[1].kind \notin {"array", "function"} =>
              h[Top.ast].kind \notin {"array", "function"}
<1>1. ~Exiting /\ ParsingEnglish /\ command \in English
  BY DEF Exiting, EndEnglish, ParsingEnglish
<1>2. PICK L, G, cl, vc, ix : State(L, G, cl, vc, ix)
  BY <1>1 DEF IInv, Going, Good
<1>3. PICK tags : tags = {"decl"}
  OBVIOUS
<1>4. TopIs(tags) /\ "list" \notin tags
  BY <1>3 DEF EndEnglish
<1>5. N \in 1..N /\ Top = values[N] /\ Top.tag \in tags /\ Top.ast \in On
  BY <1>1, <1>2, <1>4, EngTopIs
<1>6. Right(h, typedefs, Top) /\ Top.tag # "list"
  BY <1>3, <1>5 DEF EngRight
<1>7. Top.ast \in Node /\ NIL \notin Node
  BY <1>2, <1>5, StateFacts
<1>8. PICK n : n = Top.ast
  OBVIOUS
<1>9. PICK M : M = Meanings(h, typedefs)
  OBVIOUS
<1>10. /\ Top.ops = M[n]
       /\ Top.proper /\ Legal(Top.ops) => c_ast_check(h, n) = "accepted"
  BY <1>6, <1>8, <1>9 DEF Right, Said, Sure
<1>11. Meaning(h, n) = M[n]
  BY <1>9, MeaningIs
<1>12. c_ast_check(h, n) \in Verdicts
  <2>1. h \in Heaps(Types, Names) /\ WellFounded(Node, TreeEdges(h))
    BY <1>1, TreesEnd
  <2>2. PICK f : Checks(h, f)
    BY <1>7, <2>1, CheckOf
  <2>3. n \in Address
    BY <1>7, <1>8 DEF Address
  <2>. QED
    BY <2>2, <2>3 DEF Checks
<1>13. h[n].kind # "typedef" => M[n][1].kind = h[n].kind
  <2>1. PICK E : Ends(h, typedefs, E)
    BY <1>1, MeaningEnds
  <2>2. Typed(h, typedefs)
    BY <1>1, TypedNow
  <2>. QED
    BY <1>7, <1>8, <1>9, <2>1, <2>2, FirstOperator
<1>14. "typedef" \notin {"array", "function"}
  OBVIOUS
<1>. QED
  BY <1>1, <1>7, <1>8, <1>10, <1>11, <1>12, <1>13, <1>14

\* Defining a type name anew tells whether it means the same.
LEMMA DefineTells ==
  ASSUME IInv, IInv', [Next]_vars, phase = "parse", define_english, EngRight
  PROVE  RedefinitionExact'
<1>1. EndEnglish /\ ~Exiting
  BY DEF define_english, Exiting
<1>2. /\ Top.ast \in Node
      /\ Top.ops = Meaning(h, Top.ast)
      /\ c_ast_check(h, Top.ast) \in Verdicts
  BY <1>1, EndRight
<1>3. PICK check, same : /\ check = c_ast_check(h, Top.ast)
                         /\ same = c_ast_equiv(h, typedefs, typedefs[subject], Top.ast)
  OBVIOUS
<1>4. PICK verdict : verdict = IF check # "accepted" THEN check
                               ELSE IF subject \in Undefined THEN "defined"
                               ELSE IF same THEN "accepted" ELSE "redefinition"
  OBVIOUS
<1>5. /\ last'.verdict = verdict /\ last'.name = subject /\ last'.meant = Top.ops
      /\ (check = "accepted" /\ subject \in Undefined) \/ typedefs' = typedefs
  <2>1. Ended(Outcome(verdict, subject, Meaning(h, Top.ast), Top.ops, Top.proper))
    BY <1>3, <1>4 DEF define_english
  <2>2. (check = "accepted" /\ subject \in Undefined) \/ typedefs' = typedefs
    BY <1>3 DEF define_english
  <2>. QED
    BY <2>1, <2>2 DEF Ended, Outcome
<1>6. check \in Verdicts /\ "redefinition" \notin Verdicts
  BY <1>2, <1>3 DEF Verdicts
<1>7. PICK t : t = subject
  OBVIOUS
<1>8. SUFFICES ASSUME t \in Defined'
               PROVE  /\ verdict = "accepted" => Top.ops = TypeOf(t)'
                      /\ verdict = "redefinition" => Top.ops # TypeOf(t)'
  BY <1>5, <1>7 DEF RedefinitionExact, SameType, TypeOf, Meaning
<1>9. CASE subject \in Undefined
  <2>1. verdict # "accepted" /\ verdict # "redefinition"
    BY <1>4, <1>6, <1>9
  <2>. QED
    BY <2>1
<1>10. CASE subject \notin Undefined
  <2>1. typedefs' = typedefs
    BY <1>5, <1>10
  <2>2. t \in Defined
    BY <1>8, <2>1 DEF Defined, Undefined
  <2>3. TypeOf(t)' = TypeOf(t)
    <3>1. phase # "exit"
      OBVIOUS
    <3>. QED
      BY <2>2, <3>1, TypeStays
  <2>4. /\ verdict = "accepted" => same
        /\ verdict = "redefinition" => ~same
    BY <1>4, <1>6, <1>10
  <2>5. same <=> TypeOf(t) = Meaning(h, Top.ast)
    <3>1. PICK E : Ends(h, typedefs, E)
      BY <1>1, MeaningEnds
    <3>2. Typed(h, typedefs) /\ NIL \notin Node
      BY <1>1, TypedNow, NilFacts
    <3>3. PICK L, G, cl, vc, ix : State(L, G, cl, vc, ix)
      BY <1>1 DEF IInv, Going, Good
    <3>4. PICK i, j : i = typedefs[t] /\ j = Top.ast
      OBVIOUS
    <3>5. i \in Address /\ j \in Address
      BY <1>2, <2>2, <3>3, <3>4 DEF State, Base, HeapOK, Defined, Address
    <3>6. c_ast_equiv(h, typedefs, i, j) <=> Meanings(h, typedefs)[i] = Meanings(h, typedefs)[j]
      BY <3>1, <3>2, <3>5, EquivExact
    <3>7. t \in Name
      BY <2>2 DEF Defined
    <3>. QED
      BY <1>3, <1>7, <3>4, <3>6, <3>7, MeaningIs
  <2>. QED
    BY <1>2, <2>3, <2>4, <2>5
<1>. QED
  BY <1>9, <1>10

\* The end of an English command says what it has read.
LEMMA EndTells ==
  ASSUME IInv, phase = "parse", EngRight, declare_english \/ cast_english \/ define_english
  PROVE  EnglishRead' /\ command \in English /\ phase' = "idle" /\ last'.command = command
<1>1. EndEnglish
  BY DEF declare_english, cast_english, define_english
<1>2. /\ command \in English /\ Top.ops = Meaning(h, Top.ast)
      /\ Top.proper /\ Legal(Top.ops) => c_ast_check(h, Top.ast) = "accepted"
      /\ Top.ops[1].kind \notin {"array", "function"} =>
           h[Top.ast].kind \notin {"array", "function"}
  BY <1>1, EndRight
<1>3. PICK check : check = c_ast_check(h, Top.ast)
  OBVIOUS
<1>4. PICK verdict, name :
        /\ Ended(Outcome(verdict, name, Meaning(h, Top.ast), Top.ops, Top.proper))
        /\ command = "cast" => verdict = c_ast_check_cast(h, Top.ast)
        /\ command # "cast" /\ check = "accepted" =>
             verdict \in {"accepted", "defined", "redefinition"}
  <2>1. CASE declare_english
    BY <1>3, <2>1 DEF declare_english
  <2>2. CASE cast_english
    BY <1>3, <2>2 DEF cast_english
  <2>3. CASE define_english
    BY <1>3, <2>3 DEF define_english
  <2>. QED
    BY <2>1, <2>2, <2>3
<1>5. /\ last'.verdict = verdict /\ last'.command = command /\ last'.built = Top.ops
      /\ last'.meant = Top.ops /\ last'.proper = Top.proper /\ phase' = "idle"
  BY <1>2, <1>4 DEF Ended, Outcome
<1>6. ASSUME Readable' PROVE verdict \in {"accepted", "defined", "redefinition"}
  <2>1. /\ Top.proper /\ Legal(Top.ops)
        /\ command = "cast" => Top.ops[1].kind \notin {"array", "function"}
    BY <1>2, <1>5, <1>6, ReadableEnglishNext
  <2>2. check = "accepted"
    BY <1>2, <1>3, <2>1
  <2>3. command = "cast" => verdict = check
    BY <1>2, <1>3, <1>4, <2>1 DEF c_ast_check_cast
  <2>. QED
    BY <1>4, <2>2, <2>3
<1>. QED
  BY <1>2, <1>5, <1>6 DEF EnglishRead

\* What an English command has read, and what is said of it at its end.
EInv ==
  /\ phase = "parse" /\ command \in English => EngRight
  /\ phase # "idle" => last.name = NIL
  /\ RedefinitionExact
  /\ EnglishRead

\* Nothing has been read yet.
Nothing == last.name = NIL /\ last.built = last.meant /\ ~last.proper

\* Then there is nothing to be wrong.
LEMMA NothingRead ==
  ASSUME Nothing, phase # "parse" \/ command \notin English \/ EngRight
  PROVE  EInv
<1>1. NIL \notin Defined
  BY NilFacts DEF Defined
<1>2. ~Readable
  BY DEF Nothing, Readable
<1>. QED
  BY <1>1, <1>2 DEF EInv, Nothing, RedefinitionExact, EnglishRead

\* So after a step.
LEMMA NothingReadNext ==
  Nothing' /\ (phase' # "parse" \/ command' \notin English \/ EngRight') => EInv'
<1> DEFINE P == Nothing /\ (phase # "parse" \/ command \notin English \/ EngRight) => EInv
<1>1. P
  BY NothingRead
<1> HIDE DEF P
<1>2. P'
  BY <1>1, PTL
<1>. QED
  BY <1>2 DEF P

\* With nothing on the values they are right.
LEMMA EmptyRight ==
  ASSUME gc' = <<>>, values' = <<>>
  PROVE  EngRight'
<1>1. N' = 0 /\ On' = {} /\ 1..0 = {}
  BY DEF N, On, ToSet
<1>. QED
  BY <1>1 DEF EngRight, Needed

\* The first command has not begun.
LEMMA EInvInit ==
  ASSUME Init
  PROVE  EInv
<1>1. Nothing /\ phase = "idle"
  BY DEF Init, Nothing, NoOutcome
<1>. QED
  BY <1>1, NothingRead

\* A production of an English command keeps it.
LEMMA EInvProduction ==
  ASSUME IInv, IInv', EInv, EntriesStay, EnglishProduction
  PROVE  EInv'
<1>1. EnglishFrame /\ phase = "parse" /\ command \in English
  BY EnglishFrames DEF EnglishProduction, type_english, pointer_decl_english, array_decl_english,
     derived_decl_english, reference_english, reference_decl_english, decl_list_english,
     returning_void_english, FuncDeclEnglish, BeginEnglish, ParsingEnglish
<1>2. /\ phase' = phase /\ command' = command /\ last' = last /\ typedefs' = typedefs
      /\ ~Exiting /\ ~Exiting'
  BY <1>1 DEF EnglishFrame, ProductionFrame, Exiting
<1>3. PICK L, G, cl, vc, ix : State(L, G, cl, vc, ix)
  BY <1>2 DEF IInv, Going, Good
<1>4. EngStep
  BY <1>1, <1>2 DEF EngStep, EInv
<1>5. EngRight'
  BY <1>3, <1>4, EnglishProductionRight
<1>6. last'.name = NIL /\ NIL \notin Defined'
  BY <1>1, <1>2, NilFacts DEF EInv, Defined
<1>7. Readable' <=> Readable
  BY <1>2 DEF Readable
<1>8. RedefinitionExact'
  BY <1>6 DEF RedefinitionExact
<1>9. EnglishRead'
  BY <1>2, <1>7 DEF EnglishRead, EInv
<1>. QED
  BY <1>5, <1>6, <1>8, <1>9 DEF EInv

\* A step of a gibberish command keeps it.
LEMMA EInvGibberish ==
  ASSUME EInv, GibberishSays
  PROVE  EInv'
<1>1. phase = "parse" /\ command \in Gibberish /\ command \notin English /\ "define" \notin Gibberish
  BY LanguagesDiffer DEF GibberishSays, English
<1>2. CASE ProductionFrame
  <2>1. /\ phase' = phase /\ command' = command /\ last' = last /\ typedefs' = typedefs
    BY <1>2 DEF ProductionFrame
  <2>2. last'.name = NIL /\ NIL \notin Defined'
    BY <1>1, <2>1, NilFacts DEF EInv, Defined
  <2>3. Readable' <=> Readable
    BY <2>1 DEF Readable
  <2>4. RedefinitionExact'
    BY <2>2 DEF RedefinitionExact
  <2>5. EnglishRead'
    BY <2>1, <2>3 DEF EnglishRead, EInv
  <2>. QED
    BY <1>1, <2>1, <2>2, <2>4, <2>5 DEF EInv
<1>3. CASE /\ phase' \in {"aborted", "idle"} /\ last'.command = command
           /\ phase' = "aborted" => last'.name = NIL
  <2>1. phase' # "parse" /\ (phase' # "idle" => last'.name = NIL)
    BY <1>3
  <2>2. last'.command \notin English /\ last'.command # "define"
    BY <1>1, <1>3
  <2>. QED
    BY <2>1, <2>2 DEF EInv, RedefinitionExact, EnglishRead
<1>. QED
  BY <1>2, <1>3 DEF GibberishSays

\* Any step does.
LEMMA EInvNext ==
  ASSUME IInv, IInv', EInv, [Next]_vars
  PROVE  EInv'
<1>1. CASE UNCHANGED vars
  <2>1. /\ phase' = phase /\ command' = command /\ last' = last /\ typedefs' = typedefs /\ h' = h
        /\ gc' = gc /\ values' = values
    BY <1>1 DEF vars, ast, in_attr
  <2>2. EngRight' <=> EngRight
    BY <2>1 DEF EngRight, Needed, Needy, N, On
  <2>3. RedefinitionExact' <=> RedefinitionExact
    BY <2>1 DEF RedefinitionExact, SameType, TypeOf, Meaning, Defined, Undefined
  <2>4. EnglishRead' <=> EnglishRead
    BY <2>1 DEF EnglishRead, Readable
  <2>. QED
    BY <2>1, <2>2, <2>3, <2>4 DEF EInv
<1>2. CASE EnglishProduction
  <2>1. phase # "exit"
    BY <1>2, ProductionParses
  <2>2. EntriesStay
    BY <2>1, Next_Stay
  <2>. QED
    BY <1>2, <2>2, EInvProduction
<1>3. CASE GibberishProduction \/ explain_declaration_c \/ explain_cast_c \/ typedef_declaration_c
  <2>1. GibberishSays
    BY <1>3, ProductionSays, EndSays DEF explain_declaration_c, explain_cast_c
  <2>. QED
    BY <2>1, EInvGibberish
<1>4. CASE declare_english \/ cast_english \/ define_english
  <2>1. EngRight /\ phase = "parse"
    BY <1>4 DEF EInv, declare_english, cast_english, define_english, EndEnglish, ParsingEnglish
  <2>2. EnglishRead' /\ command \in English /\ phase' = "idle" /\ last'.command = command
    BY <1>4, <2>1, EndTells
  <2>3. RedefinitionExact'
    <3>1. CASE define_english
      BY <2>1, <3>1, DefineTells
    <3>2. CASE declare_english \/ cast_english
      <4>1. last'.command # "define"
        BY <2>2, <3>2 DEF declare_english, cast_english
      <4>. QED
        BY <4>1 DEF RedefinitionExact
    <3>. QED
      BY <1>4, <3>1, <3>2
  <2>. QED
    BY <2>2, <2>3 DEF EInv
<1>5. CASE StartEnglish
  <2>1. Nothing' /\ phase = "idle" /\ gc' = gc /\ values' = values
    BY <1>5 DEF StartEnglish, Nothing, NoOutcome, ast, in_attr
  <2>2. gc = <<>> /\ values = <<>>
    BY <2>1 DEF IInv, Exiting, Going, Good, State, Control
  <2>3. EngRight'
    BY <2>1, <2>2, EmptyRight
  <2>. QED
    BY <2>1, <2>3, NothingReadNext
<1>6. CASE StartGibberish
  <2>1. Nothing' /\ command' \in Gibberish
    BY <1>6 DEF StartGibberish, Nothing, NoOutcome
  <2>. QED
    BY <2>1, LanguagesDiffer, NothingReadNext
<1>7. CASE SyntaxError
  <2>1. Nothing' /\ phase' = "idle"
    BY <1>7 DEF SyntaxError, Ended, Outcome, Nothing
  <2>. QED
    BY <2>1, NothingReadNext
<1>8. CASE quit
  <2>1. Nothing' /\ phase' = "exit"
    BY <1>8 DEF quit, Nothing, NoOutcome
  <2>. QED
    BY <2>1, NothingReadNext
<1>9. CASE FreeTypedef
  <2>1. phase = "exit" /\ phase' = phase /\ last' = last
    BY <1>9 DEF FreeTypedef
  <2>2. last'.name = NIL /\ NIL \notin Defined'
    BY <2>1, NilFacts DEF EInv, Defined
  <2>3. Readable' <=> Readable
    BY <2>1 DEF Readable
  <2>4. EnglishRead'
    BY <2>1, <2>3 DEF EnglishRead, EInv
  <2>. QED
    BY <2>1, <2>2, <2>4 DEF EInv, RedefinitionExact
<1>10. CASE c_ast_cleanup
  <2>1. Nothing' /\ phase' = "exited"
    BY <1>10 DEF c_ast_cleanup, Nothing, NoOutcome
  <2>. QED
    BY <2>1, NothingReadNext
<1>. QED
  BY <1>1, <1>2, <1>3, <1>4, <1>5, <1>6, <1>7, <1>8, <1>9, <1>10 DEF Next, Terminated

\* The values of an English command say at all times what the nodes mean.
LEMMA EInvAlways == Spec => []EInv
<1>1. Init => EInv
  BY EInvInit
<1>2. IInv /\ IInv' /\ EInv /\ [Next]_vars => EInv'
  BY EInvNext
<1>. QED
  BY <1>1, <1>2, IInvAlways, PTL DEF Spec

\* define_english accepts a type name again if and only if the type is the same.
THEOREM RedefinitionExactAlways == Spec => []RedefinitionExact
<1>1. EInv => RedefinitionExact
  BY DEF EInv
<1>. QED
  BY <1>1, EInvAlways, PTL

\* The AST built for an English declaration, definition or cast denotes the type
\* that was written, and what is readable is neither rejected nor fatal.
THEOREM EnglishReadRight == Spec => [](EnglishRead /\ (last.command \in English => ReadRight))
<1>1. EInv => EnglishRead /\ (last.command \in English => ReadRight)
  BY DEF EInv, EnglishRead, ReadRight
<1>. QED
  BY <1>1, EInvAlways, PTL

=============================================================================
