----------------------------- MODULE CAstProofs -----------------------------
(***************************************************************************)
(* Lemmas about the recursions of CAst over linked nodes.                  *)
(*                                                                         *)
(* The code follows pointers until it finds what it looks for.  A relation *)
(* on nodes that has no infinite descent (WellFounded) takes the place of  *)
(* an induction over trees: a recursion that follows it has a solution     *)
(* (Fixpoint), so each of these functions has the value that its equation  *)
(* gives.  From that come what an array or a function that is added to a   *)
(* declarator is linked to (ArrayPut, FuncPut), what patching changes      *)
(* (PatchCases), and that no walk changes the other nodes.                 *)
(***************************************************************************)
EXTENDS CAst, FiniteSetTheorems, SequenceTheorems, NaturalsInduction,
        WellFoundedInduction, TLAPS

\* Every non-empty set has an element from which no edge of E leads into it.
WellFounded(D, E) ==
  \A S \in SUBSET D : S # {} => \E m \in S : \A n \in S : <<m, n>> \notin E

\* F[d][f] looks at f only where an edge leads from d.
Local(D, E, V, F) ==
  \A d \in D : \A f, g \in [D -> V] :
    (\A e \in D : <<d, e>> \in E => f[e] = g[e]) => F[d][f] = F[d][g]

\* F is the body of a recursion on D with values in V that follows the edges.
Recursive(D, E, V, F) ==
  /\ WellFounded(D, E)
  /\ V # {}
  /\ F \in [D -> [[D -> V] -> V]]
  /\ Local(D, E, V, F)

HasFixpoint(D, V, F) == \E f \in [D -> V] : \A d \in D : f[d] = F[d][f]

\* A recursion that follows a well-founded relation has a solution.
LEMMA Fixpoint ==
  ASSUME NEW D, NEW E, NEW V, NEW F, Recursive(D, E, V, F)
  PROVE  HasFixpoint(D, V, F)
<1>0. /\ WellFounded(D, E) /\ Local(D, E, V, F)
      /\ F \in [D -> [[D -> V] -> V]]
  BY DEF Recursive
<1> PICK v0 : v0 \in V
  BY DEF Recursive
<1> DEFINE Sol(A, f) == /\ A \in SUBSET D /\ f \in [D -> V]
                        /\ \A d \in A, e \in D : <<d, e>> \in E => e \in A
                        /\ \A d \in A : f[d] = F[d][f]
           U == {x \in D : \E A, f : x \in A /\ Sol(A, f)}
           W(x) == CHOOSE f : \E A : x \in A /\ Sol(A, f)
           g == [x \in D |-> IF x \in U THEN W(x)[x] ELSE v0]
<1>1. ASSUME NEW A, NEW f, Sol(A, f), NEW B, NEW f2, Sol(B, f2), NEW x \in A \cap B
      PROVE  f[x] = f2[x]
  <2> DEFINE S == {y \in A \cap B : f[y] # f2[y]}
  <2>1. SUFFICES ASSUME S # {} PROVE FALSE
    BY <1>1
  <2>2. S \in SUBSET D
    BY <1>1
  <2>3. PICK m \in S : \A n \in S : <<m, n>> \notin E
    BY <1>0, <2>1, <2>2 DEF WellFounded
  <2>4. \A e \in D : <<m, e>> \in E => f[e] = f2[e]
    BY <1>1, <2>3
  <2>5. F[m][f] = F[m][f2]
    BY <1>0, <1>1, <2>2, <2>4 DEF Local
  <2>. QED
    BY <1>1, <2>3, <2>5
<1>2. ASSUME NEW A, NEW f, Sol(A, f), NEW x \in A
      PROVE  x \in U /\ g[x] = f[x]
  <2>1. x \in D /\ x \in U
    BY <1>2
  <2>2. \E A2 : x \in A2 /\ Sol(A2, W(x))
    <3> HIDE DEF Sol
    <3>. QED
      BY <1>2
  <2>3. PICK A2 : x \in A2 /\ Sol(A2, W(x))
    BY <2>2
  <2> HIDE DEF Sol, W, U
  <2>4. W(x)[x] = f[x]
    BY <1>1, <1>2, <2>3
  <2>. QED
    BY <2>1, <2>4
<1>3. Sol(U, g)
  <2>1. ASSUME NEW x \in U PROVE \E A, f : x \in A /\ Sol(A, f)
    OBVIOUS
  <2>2. U \subseteq D
    OBVIOUS
  <2>3. g \in [D -> V]
    <3>1. ASSUME NEW x \in U PROVE W(x)[x] \in V
      <4> HIDE DEF Sol, W, U
      <4>1. PICK A, f : x \in A /\ Sol(A, f)
        BY <2>1
      <4>2. g[x] = W(x)[x]
        BY <2>2
      <4>4. g[x] = f[x]
        <5> HIDE DEF g
        <5>. QED
          BY <4>1, <1>2
      <4>3. f[x] \in V
        BY <4>1, <2>2 DEF Sol
      <4>. QED
        BY <4>2, <4>3, <4>4
    <3> HIDE DEF U, W
    <3>. QED
      BY <3>1
  <2>4. ASSUME NEW d \in U PROVE /\ \A e \in D : <<d, e>> \in E => e \in U
                                 /\ g[d] = F[d][g]
    <3> HIDE DEF g, U
    <3>1. PICK A, f : d \in A /\ Sol(A, f)
      BY <2>1
    <3>2. \A e \in A : e \in U /\ g[e] = f[e]
      BY <3>1, <1>2
    <3>3. \A e \in D : <<d, e>> \in E => e \in A
      BY <3>1
    <3>4. F[d][f] = F[d][g] /\ f[d] = F[d][f]
      BY <3>1, <3>2, <3>3, <2>2, <2>3, <1>0 DEF Local
    <3>. QED
      BY <3>1, <3>2, <3>3, <3>4
  <2> HIDE DEF g, U
  <2>. QED
    BY <2>2, <2>3, <2>4
<1>4. U = D
  <2>1. SUFFICES ASSUME U # D PROVE FALSE
    OBVIOUS
  <2>2. U \subseteq D
    OBVIOUS
  <2>3. PICK d \in D \ U : \A n \in D \ U : <<d, n>> \notin E
    <3>1. D \ U # {} /\ D \ U \in SUBSET D
      BY <2>1, <2>2
    <3>. QED
      BY <1>0, <3>1 DEF WellFounded
  <2> DEFINE g2 == [g EXCEPT ![d] = F[d][g]]
  <2> HIDE DEF g, U
  <2>4. g2 \in [D -> V] /\ g2[d] = F[d][g] /\ \A e \in D : e # d => g2[e] = g[e]
    BY <1>0, <1>3
  <2> HIDE DEF g2
  <2>5. ASSUME NEW e \in U \cup {d} PROVE F[e][g2] = F[e][g]
    <3>1. \A n \in D : <<e, n>> \in E => n \in U
      BY <1>3, <2>3
    <3>2. \A n \in D : <<e, n>> \in E => g2[n] = g[n]
      BY <3>1, <2>3, <2>4
    <3>. QED
      BY <3>2, <2>2, <2>4, <1>3, <1>0 DEF Local
  <2>6. Sol(U \cup {d}, g2)
    <3>1. \A e \in U \cup {d} : g2[e] = F[e][g2]
      BY <2>3, <2>4, <2>5, <1>3, <2>2
    <3>2. \A a \in U \cup {d}, e \in D : <<a, e>> \in E => e \in U \cup {d}
      BY <1>3, <2>3
    <3>. QED
      BY <2>2, <2>4, <3>1, <3>2
  <2>7. d \in U
    BY <1>2, <2>6
  <2>. QED
    BY <2>3, <2>7
<1>. QED
  <2> HIDE DEF g, U
  <2>. QED
    BY <1>3, <1>4 DEF HasFixpoint

\* A set of numbers has a least one.
LEMMA LeastNumber == \A S \in SUBSET Nat : S # {} => \E m \in S : \A n \in S : m <= n
<1>1. TAKE S \in SUBSET Nat
<1>2. HAVE S # {}
<1>3. \E m \in S : \A n \in S : ~ (<<n, m>> \in OpToRel(<, Nat))
  BY <1>2, NatLessThanWellFounded, WFMin, Zenon
<1>4. \A m, n \in Nat : n < m => <<n, m>> \in OpToRel(<, Nat)
  BY DEF OpToRel
<1>5. \A m, n \in Nat : ~ (n < m) => m <= n
  OBVIOUS
<1>. QED
  BY <1>1, <1>3, <1>4, <1>5

-----------------------------------------------------------------------------
(* Kinds and cells.                                                        *)

\* How the sets of kinds include one another.
LEMMA Kinds ==
  /\ References \subseteq Pointing /\ Pointing \subseteq ParentKind /\ ParentKind \subseteq Kind
  /\ "array" \in ParentKind /\ "function" \in ParentKind /\ "pointer" \in Pointing
  /\ "array" \notin Pointing /\ "function" \notin Pointing
  /\ "pointer" \notin References
  /\ "placeholder" \in Kind \ ParentKind /\ "builtin" \in Kind \ ParentKind
  /\ "typedef" \in Kind \ ParentKind
  /\ "none" \notin Kind
  BY Zenon DEF Kind, ParentKind, Pointing, References

\* The kinds that the code tells apart are different strings.
LEMMA KindsDiffer ==
  /\ "array" # "function" /\ "array" # "pointer" /\ "function" # "pointer"
  /\ "placeholder" # "builtin" /\ "placeholder" # "typedef" /\ "builtin" # "typedef"
  BY Zenon

\* The contents of a node whose type is one of Ty and whose name is one of Nm.
Cells(Ty, Nm) ==
  [kind : Kind \cup {"none"}, type : Ty, name : Nm, def : Nm, depth : Nat,
   parent : Address, of : Address, args : Seq(Node)]

\* An unused cell and a new node are contents of a node.
LEMMA CellsType ==
  ASSUME NEW Ty, NEW Nm, NIL \in Ty, NIL \in Nm
  PROVE  /\ NoAst \in Cells(Ty, Nm)
         /\ \A kind \in Kind, depth \in Nat : NewAst(kind, depth) \in Cells(Ty, Nm)
<1>1. NIL \in Address /\ <<>> \in Seq(Node) /\ "none" \in Kind \cup {"none"} /\ 0 \in Nat
  BY DEF Address
<1>2. NoAst \in Cells(Ty, Nm)
  BY <1>1 DEF Cells, NoAst
<1>3. ASSUME NEW kind \in Kind, NEW depth \in Nat PROVE NewAst(kind, depth) \in Cells(Ty, Nm)
  BY <1>2 DEF Cells, NewAst
<1>. QED
  BY <1>2, <1>3

-----------------------------------------------------------------------------
(* Ancestors.                                                              *)

UpClosed(h, S) == \A n \in S : h[n].parent # NIL => h[n].parent \in S

Ancestors(h, n) ==
  {m \in Node : \A S \in SUBSET Node : n \in S /\ UpClosed(h, S) => m \in S}

\* The ancestors of a node are itself and those of its parent.
LEMMA AncestorsOf ==
  ASSUME NIL \notin Node, NEW h, \A m \in Node : h[m].parent \in Address, NEW n \in Node
  PROVE  Ancestors(h, n) =
           {n} \cup (IF h[n].parent = NIL THEN {} ELSE Ancestors(h, h[n].parent))
<1> DEFINE p == h[n].parent
           R == {n} \cup (IF p = NIL THEN {} ELSE Ancestors(h, p))
<1>1. p \in Address
  OBVIOUS
<1>2. R \in SUBSET Node /\ n \in R
  BY DEF Ancestors
<1>3. UpClosed(h, R)
  <2>1. SUFFICES ASSUME NEW m \in R, h[m].parent # NIL PROVE h[m].parent \in R
    BY DEF UpClosed
  <2>2. CASE m = n
    <3>1. p # NIL /\ p \in Node
      BY <2>1, <2>2, <1>1 DEF Address
    <3>2. p \in Ancestors(h, p)
      BY <3>1 DEF Ancestors
    <3>. QED
      BY <2>2, <3>1, <3>2
  <2>3. CASE m # n
    <3>1. p # NIL /\ m \in Ancestors(h, p)
      BY <2>1, <2>3
    <3>2. h[m].parent \in Node /\ m \in Node
      BY <2>1, <3>1 DEF Address, Ancestors
    <3>3. h[m].parent \in Ancestors(h, p)
      BY <2>1, <3>1, <3>2 DEF Ancestors, UpClosed
    <3>. QED
      BY <3>1, <3>3
  <2>. QED
    BY <2>2, <2>3
<1>4. Ancestors(h, n) \subseteq R
  BY <1>2, <1>3 DEF Ancestors
<1>5. ASSUME NEW m \in R PROVE m \in Ancestors(h, n)
  <2>1. m \in Node
    BY <1>2
  <2>2. ASSUME NEW S \in SUBSET Node, n \in S, UpClosed(h, S) PROVE m \in S
    <3>1. CASE m = n
      BY <2>2, <3>1
    <3>2. CASE m # n
      <4>1. p # NIL /\ m \in Ancestors(h, p)
        BY <3>2
      <4>2. p \in S
        BY <4>1, <2>2 DEF UpClosed
      <4>. QED
        BY <4>1, <4>2, <2>2 DEF Ancestors
    <3>. QED
      BY <3>1, <3>2
  <2>. QED
    BY <2>1, <2>2 DEF Ancestors
<1>. QED
  BY <1>4, <1>5

\* c_ast_has_cycle finds child at parent or above it.
LEMMA HasCycle ==
  ASSUME NIL \notin Node, NEW h, \A m \in Node : h[m].parent \in Address, NEW child
  PROVE  \A n \in Node :
           c_ast_has_cycle(h, child, n)
             <=> (n = child \/ (h[n].parent # NIL /\ c_ast_has_cycle(h, child, h[n].parent)))
<1> DEFINE Solves(f) ==
      f = [m \in Node |-> m = child \/ (h[m].parent # NIL /\ f[h[m].parent])]
           up == CHOOSE f : Solves(f)
           g == [m \in Node |-> child \in Ancestors(h, m)]
<1>1. Solves(g)
  <2>1. ASSUME NEW m \in Node
        PROVE  g[m] = (m = child \/ (h[m].parent # NIL /\ g[h[m].parent]))
    <3>1. Ancestors(h, m) =
           {m} \cup (IF h[m].parent = NIL THEN {} ELSE Ancestors(h, h[m].parent))
      BY AncestorsOf
    <3>2. h[m].parent # NIL => h[m].parent \in Node
      BY DEF Address
    <3>3. /\ g[m] = (child \in Ancestors(h, m))
          /\ h[m].parent # NIL => g[h[m].parent] = (child \in Ancestors(h, h[m].parent))
      BY <3>2
    <3> HIDE DEF g
    <3>4. CASE h[m].parent = NIL
      <4>1. child \in Ancestors(h, m) <=> m = child
        BY <3>1, <3>4
      <4>. QED
        BY <3>3, <3>4, <4>1
    <3>5. CASE h[m].parent # NIL
      <4>1. child \in Ancestors(h, m) <=> (m = child \/ child \in Ancestors(h, h[m].parent))
        BY <3>1, <3>5
      <4>2. (child \in Ancestors(h, m))
              = (m = child \/ (h[m].parent # NIL /\ child \in Ancestors(h, h[m].parent)))
        BY <3>5, <4>1
      <4>3. g[h[m].parent] = (child \in Ancestors(h, h[m].parent))
        BY <3>3, <3>5
      <4>. QED
        BY <3>3, <4>2, <4>3, Zenon
    <3>. QED
      BY <3>4, <3>5
  <2>. QED
    BY <2>1
<1>2. Solves(up)
  <2> HIDE DEF Solves, g
  <2>. QED
    BY <1>1
<1>3. \A n \in Node : c_ast_has_cycle(h, child, n) = up[n]
  BY DEF c_ast_has_cycle
<1>4. ASSUME NEW n \in Node
      PROVE  up[n] <=> (n = child \/ (h[n].parent # NIL /\ up[h[n].parent]))
  <2> HIDE DEF up
  <2>. QED
    BY <1>2
<1> HIDE DEF up
<1>. QED
  BY <1>3, <1>4 DEF Address

\* A node without a parent is the root of its AST.
LEMMA Root ==
  ASSUME NIL \notin Node, NEW h, \A m \in Node : h[m].parent \in Address,
         NEW n \in Node, h[n].parent = NIL
  PROVE  c_ast_root(h, n) = n
<1> DEFINE Solves(f) ==
      f = [m \in Node |-> IF h[m].parent = NIL THEN m ELSE f[h[m].parent]]
           up == CHOOSE f : Solves(f)
           Stops(m) == {s \in Ancestors(h, m) : h[s].parent = NIL}
           g == [m \in Node |-> IF h[m].parent = NIL THEN m ELSE CHOOSE s : s \in Stops(m)]
<1>1. Solves(g)
  <2>1. ASSUME NEW m \in Node
        PROVE  g[m] = IF h[m].parent = NIL THEN m ELSE g[h[m].parent]
    <3>1. CASE h[m].parent = NIL
      BY <3>1
    <3>2. CASE h[m].parent # NIL
      <4> DEFINE p == h[m].parent
      <4>1. p \in Node
        BY <3>2 DEF Address
      <4>2. Ancestors(h, m) = {m} \cup Ancestors(h, p)
        BY <3>2, AncestorsOf
      <4>3. Stops(m) = Stops(p)
        BY <3>2, <4>2
      <4>4. CASE h[p].parent # NIL
        BY <3>2, <4>1, <4>3, <4>4
      <4>5. CASE h[p].parent = NIL
        <5>1. Ancestors(h, p) = {p}
          BY <4>1, <4>5, AncestorsOf
        <5>2. Stops(m) = {p}
          BY <4>3, <5>1, <4>5
        <5>3. (CHOOSE s : s \in Stops(m)) = p
          BY <5>2
        <5>. QED
          BY <3>2, <4>1, <4>5, <5>3
      <4>. QED
        BY <4>4, <4>5
    <3> HIDE DEF g
    <3>. QED
      BY <3>1, <3>2
  <2> HIDE DEF g
  <2>2. DOMAIN g = Node
    BY DEF g
  <2>3. g = [m \in Node |-> g[m]]
    BY DEF g
  <2>. QED
    BY <2>1, <2>3
<1>2. Solves(up)
  <2> HIDE DEF Solves, g
  <2>. QED
    BY <1>1
<1>3. c_ast_root(h, n) = up[n]
  BY DEF c_ast_root
<1> HIDE DEF up
<1>4. up[n] = n
  BY <1>2
<1>. QED
  BY <1>3, <1>4

-----------------------------------------------------------------------------
(* Well-founded relations.                                                 *)

\* A part of a well-founded relation is well-founded.
LEMMA Smaller ==
  ASSUME NEW D, NEW E, WellFounded(D, E), NEW E2, E2 \cap (D \X D) \subseteq E
  PROVE  WellFounded(D, E2)
  BY DEF WellFounded

\* A node f may be put between nodes that were linked, above some or below some.
LEMMA Insert ==
  ASSUME NEW D, NEW E, WellFounded(D, E), NEW E2, NEW f,
         \A x, y \in D \ {f} : <<x, y>> \in E2 => <<x, y>> \in E,
         \A x, y \in D \ {f} : <<x, f>> \in E2 /\ <<f, y>> \in E2 => <<x, y>> \in E,
         <<f, f>> \notin E2
  PROVE  WellFounded(D, E2)
<1>1. SUFFICES ASSUME NEW S \in SUBSET D, S # {}
               PROVE  \E m \in S : \A n \in S : <<m, n>> \notin E2
  BY DEF WellFounded
<1>2. CASE S \subseteq {f}
  BY <1>1, <1>2
<1>3. CASE ~(S \subseteq {f})
  <2>1. S \ {f} \in SUBSET D /\ S \ {f} # {}
    BY <1>3
  <2>2. PICK m \in S \ {f} : \A n \in S \ {f} : <<m, n>> \notin E
    BY <2>1 DEF WellFounded
  <2>3. CASE f \notin S \/ <<m, f>> \notin E2
    BY <1>1, <2>2, <2>3
  <2>4. CASE f \in S /\ <<m, f>> \in E2
    BY <1>1, <2>2, <2>4
  <2>. QED
    BY <2>3, <2>4
<1>. QED
  BY <1>2, <1>3

\* No edge leads out of C, and none is new in C.
LEMMA Split ==
  ASSUME NEW D, NEW E, WellFounded(D, E), NEW E2, NEW C,
         \A x \in D \cap C, y \in D \ C : <<x, y>> \notin E2,
         \A x, y \in D \cap C : <<x, y>> \in E2 => <<x, y>> \in E,
         WellFounded(D \ C, E2)
  PROVE  WellFounded(D, E2)
<1>1. SUFFICES ASSUME NEW S \in SUBSET D, S # {}
               PROVE  \E m \in S : \A n \in S : <<m, n>> \notin E2
  BY DEF WellFounded
<1>2. CASE S \cap C = {}
  <2>1. S \in SUBSET (D \ C)
    BY <1>2
  <2>. QED
    BY <1>1, <2>1 DEF WellFounded
<1>3. CASE S \cap C # {}
  <2>1. S \cap C \in SUBSET D
    OBVIOUS
  <2>2. PICK m \in S \cap C : \A n \in S \cap C : <<m, n>> \notin E
    BY <1>3, <2>1 DEF WellFounded
  <2>. QED
    BY <2>2
<1>. QED
  BY <1>2, <1>3

\* A well-founded relation is so on fewer elements.
LEMMA WellFoundedPart ==
  ASSUME NEW D, NEW E, WellFounded(D, E), NEW C
  PROVE  WellFounded(D \ C, E)
  BY DEF WellFounded

\* The null pointer may be added below everything.
LEMMA AddNil ==
  ASSUME NIL \notin Node, NEW E, E \subseteq Node \X Node, WellFounded(Node, E)
  PROVE  WellFounded(Address, E \cup (Node \X {NIL}))
<1>1. SUFFICES ASSUME NEW S \in SUBSET Address, S # {}
               PROVE  \E m \in S : \A n \in S : <<m, n>> \notin E \cup (Node \X {NIL})
  BY DEF WellFounded
<1>2. CASE NIL \in S
  BY <1>2
<1>3. CASE NIL \notin S
  <2>1. S \in SUBSET Node
    BY <1>1, <1>3 DEF Address
  <2>2. PICK m \in S : \A n \in S : <<m, n>> \notin E
    BY <1>1, <2>1 DEF WellFounded
  <2>. QED
    BY <1>3, <2>2
<1>. QED
  BY <1>2, <1>3

-----------------------------------------------------------------------------
(* Walks down.                                                             *)

Heaps(Ty, Nm) == [Node -> Cells(Ty, Nm)]

OfEdges(h) == {e \in Node \X Node : e[2] = h[e[1]].of}

\* The types of the fields of a node.
LEMMA HeapFields ==
  ASSUME NEW Ty, NEW Nm, NEW h \in Heaps(Ty, Nm), NEW n \in Node
  PROVE  /\ h[n] \in Cells(Ty, Nm)
         /\ h[n].kind \in Kind \cup {"none"} /\ h[n].type \in Ty
         /\ h[n].name \in Nm /\ h[n].def \in Nm /\ h[n].depth \in Nat
         /\ h[n].parent \in Address /\ h[n].of \in Address /\ h[n].args \in Seq(Node)
  BY DEF Heaps, Cells

\* Down(h, n) is n and, when n is a derived type, what is below what it is of.
LEMMA DownOf ==
  ASSUME NIL \notin Node, NEW Ty, NEW Nm, NEW h \in Heaps(Ty, Nm),
         WellFounded(Node, OfEdges(h))
  PROVE  /\ Down(h, NIL) = <<>>
         /\ \A n \in Node :
              /\ Down(h, n) \in Seq(Node)
              /\ Down(h, n) = <<n>> \o (IF c_ast_is_parent(h, n) THEN Down(h, h[n].of) ELSE <<>>)
<1> DEFINE E == OfEdges(h) \cup (Node \X {NIL})
           V == Seq(Node)
           Body(f, m) == IF m = NIL THEN <<>>
                         ELSE <<m>> \o (IF c_ast_is_parent(h, m) THEN f[h[m].of] ELSE <<>>)
           F == [m \in Address |-> [f \in [Address -> V] |-> Body(f, m)]]
           Solves(f) == f = [m \in Address |-> Body(f, m)]
           down == CHOOSE f : Solves(f)
<1>1. WellFounded(Address, E)
  BY AddNil DEF OfEdges
<1>2. \A m \in Node : h[m].of \in Address
  BY HeapFields
<1>3. F \in [Address -> [[Address -> V] -> V]]
  <2>1. ASSUME NEW m \in Address, NEW f \in [Address -> V] PROVE Body(f, m) \in V
    <3>1. CASE m = NIL
      BY <3>1
    <3>2. CASE m # NIL
      <4>1. m \in Node /\ f[h[m].of] \in Seq(Node)
        BY <1>2, <2>1, <3>2 DEF Address
      <4>2. <<m>> \in Seq(Node) /\ <<>> \in Seq(Node)
        BY <4>1
      <4>. QED
        BY <3>2, <4>1, <4>2
    <3>. QED
      BY <3>1, <3>2
  <2>. QED
    BY <2>1
<1>4. Local(Address, E, V, F)
  <2>1. SUFFICES ASSUME NEW m \in Address, NEW f \in [Address -> V], NEW g \in [Address -> V],
                        \A e \in Address : <<m, e>> \in E => f[e] = g[e]
                 PROVE  F[m][f] = F[m][g]
    BY DEF Local
  <2>2. m # NIL => f[h[m].of] = g[h[m].of]
    <3>1. SUFFICES ASSUME m \in Node PROVE <<m, h[m].of>> \in E
      BY <1>2, <2>1 DEF Address
    <3>. QED
      BY <1>2, <3>1 DEF Address, OfEdges
  <2>. QED
    BY <2>2
<1>5. <<>> \in V
  OBVIOUS
<1>6. \E g \in [Address -> V] : Solves(g)
  <2>0. Recursive(Address, E, V, F)
    BY <1>1, <1>3, <1>4, <1>5 DEF Recursive
  <2>1. PICK g \in [Address -> V] : \A m \in Address : g[m] = F[m][g]
    <3>1. HasFixpoint(Address, V, F)
      <4> HIDE DEF F, V, E
      <4>. QED
        BY <2>0, Fixpoint
    <3>. QED
      BY <3>1 DEF HasFixpoint
  <2>2. g = [m \in Address |-> g[m]]
    BY <2>1
  <2>3. \A m \in Address : g[m] = Body(g, m)
    BY <2>1
  <2> HIDE DEF Body
  <2>4. Solves(g)
    BY <2>2, <2>3
  <2>. QED
    BY <2>4
<1>7. Solves(down)
  <2> HIDE DEF Solves
  <2>. QED
    BY <1>6
<1>8. DOMAIN down = Address /\ \A m \in Address : down[m] = Body(down, m)
  <2> HIDE DEF down, Body
  <2>. QED
    BY <1>7
<1>9. \A n \in Address : Down(h, n) = down[n]
  BY DEF Down
<1> HIDE DEF down
<1>10. \A m \in Address : down[m] \in V
  <2> DEFINE S == {m \in Address : down[m] \notin V}
  <2>1. SUFFICES ASSUME S # {} PROVE FALSE
    OBVIOUS
  <2>2. PICK m \in S : \A n \in S : <<m, n>> \notin E
    BY <1>1, <2>1 DEF WellFounded
  <2>3. m # NIL
    BY <1>5, <1>8, <2>2
  <2>4. m \in Node /\ h[m].of \in Address /\ <<m, h[m].of>> \in E
    BY <1>2, <2>3 DEF Address, OfEdges
  <2>5. down[h[m].of] \in Seq(Node)
    BY <2>2, <2>4
  <2>6. <<m>> \in Seq(Node) /\ <<>> \in Seq(Node)
    BY <2>4
  <2>7. Body(down, m) \in Seq(Node)
    BY <2>3, <2>5, <2>6
  <2>. QED
    BY <1>8, <2>2, <2>7
<1>11. NIL \in Address /\ \A n \in Node : n \in Address /\ n # NIL /\ h[n].of \in Address
  BY <1>2 DEF Address
<1>12. Down(h, NIL) = <<>>
  BY <1>8, <1>9, <1>11
<1>13. ASSUME NEW n \in Node
      PROVE  /\ Down(h, n) \in Seq(Node)
             /\ Down(h, n) = <<n>> \o (IF c_ast_is_parent(h, n) THEN Down(h, h[n].of) ELSE <<>>)
  BY <1>8, <1>9, <1>10, <1>11
<1>. QED
  BY <1>12, <1>13

\* A walk stays in a set that is closed under of_ast.
LEMMA DownStays ==
  ASSUME NIL \notin Node, NEW Ty, NEW Nm, NEW h \in Heaps(Ty, Nm),
         WellFounded(Node, OfEdges(h)), NEW S \in SUBSET Node,
         \A m \in S : h[m].of \in S \cup {NIL}, NEW n \in S
  PROVE  Down(h, n) \in Seq(S)
<1> DEFINE R == {m \in S : Down(h, m) \notin Seq(S)}
<1>1. SUFFICES ASSUME R # {} PROVE FALSE
  OBVIOUS
<1>2. R \in SUBSET Node
  OBVIOUS
<1>3. PICK m \in R : \A k \in R : <<m, k>> \notin OfEdges(h)
  BY <1>1, <1>2 DEF WellFounded
<1>4. m \in Node /\ Down(h, m) = <<m>> \o (IF c_ast_is_parent(h, m) THEN Down(h, h[m].of) ELSE <<>>)
  BY <1>3, DownOf
<1>5. <<>> \in Seq(S) /\ <<m>> \in Seq(S)
  BY <1>3
<1>6. Down(h, h[m].of) \in Seq(S)
  <2>1. CASE h[m].of = NIL
    BY <2>1, DownOf, <1>5
  <2>2. CASE h[m].of # NIL
    <3>1. h[m].of \in S /\ <<m, h[m].of>> \in OfEdges(h)
      BY <1>3, <2>2 DEF OfEdges
    <3>. QED
      BY <1>3, <3>1
  <2>. QED
    BY <2>1, <2>2
<1>7. Down(h, m) \in Seq(S)
  BY <1>4, <1>5, <1>6
<1>. QED
  BY <1>3, <1>7

\* What is found on a walk is on it and is looked for.
LEMMA FoundIn ==
  ASSUME NEW W, NEW walk \in Seq(W), NEW S
  PROVE  Found(walk, S) = NIL \/ Found(walk, S) \in W \cap S
<1> DEFINE hits == {i \in DOMAIN walk : walk[i] \in S}
<1>1. CASE hits = {}
  BY <1>1 DEF Found
<1>2. CASE hits # {}
  <2>1. hits \in SUBSET Nat
    OBVIOUS
  <2>2. \E i \in hits : \A j \in hits : i <= j
    BY <1>2, <2>1, LeastNumber
  <2>3. Min(hits) \in hits
    BY <2>2 DEF Min
  <2>4. Found(walk, S) = walk[Min(hits)]
    BY <1>2 DEF Found
  <2>. QED
    BY <2>3, <2>4
<1>. QED
  BY <1>1, <1>2

\* A node of the kind in the walk of ast, if there is one.
LEMMA FindKind ==
  ASSUME NIL \notin Node, NEW Ty, NEW Nm, NEW h \in Heaps(Ty, Nm),
         WellFounded(Node, OfEdges(h)), NEW S \in SUBSET Node,
         \A m \in S : h[m].of \in S \cup {NIL}, NEW n \in S, NEW kind
  PROVE  \/ c_ast_find_kind(h, n, kind) = NIL
         \/ c_ast_find_kind(h, n, kind) \in S /\ h[c_ast_find_kind(h, n, kind)].kind = kind
<1>1. Down(h, n) \in Seq(S)
  BY DownStays
<1>. QED
  BY <1>1, FoundIn DEF c_ast_find_kind

\* Names are the only difference.
SameLinks(h, g) ==
  \A n \in Node : /\ g[n].kind = h[n].kind /\ g[n].type = h[n].type /\ g[n].def = h[n].def
                  /\ g[n].depth = h[n].depth /\ g[n].parent = h[n].parent
                  /\ g[n].of = h[n].of /\ g[n].args = h[n].args

\* c_ast_name finds the name of a node, and c_ast_take_name changes names only.
LEMMA NameFoundOf ==
  ASSUME NIL \notin Node, NEW Ty, NEW Nm, NEW h \in Heaps(Ty, Nm), NIL \in Nm,
         WellFounded(Node, OfEdges(h)), NEW n \in Node
  PROVE  /\ c_ast_name(h, n) = NIL \/ \E m \in Node : c_ast_name(h, n) = h[m].name
         /\ c_ast_take_name(h, n) \in Heaps(Ty, Nm)
         /\ SameLinks(h, c_ast_take_name(h, n))
         /\ \A m \in Node : c_ast_take_name(h, n)[m].name \in {h[m].name, NIL}
<1> DEFINE m == c_ast_find_name(h, n)
           g == [h EXCEPT ![m].name = NIL]
<1>1. Down(h, n) \in Seq(Node)
  BY DownOf
<1>2. m = NIL \/ m \in Node
  BY <1>1, FoundIn DEF c_ast_find_name
<1> HIDE DEF m
<1>3. c_ast_take_name(h, n) = (IF m = NIL THEN h ELSE g) /\ c_ast_name(h, n) = (IF m = NIL THEN NIL ELSE h[m].name)
  BY DEF c_ast_take_name, c_ast_name, m
<1>4. h \in Heaps(Ty, Nm) /\ SameLinks(h, h)
  BY DEF SameLinks
<1>5. CASE m \in Node
  <2>1. g \in Heaps(Ty, Nm)
    BY <1>5 DEF Heaps, Cells
  <2>2. SameLinks(h, g) /\ \A k \in Node : g[k].name \in {h[k].name, NIL}
    BY <1>5 DEF Heaps, Cells, SameLinks
  <2>. QED
    BY <1>2, <1>3, <1>4, <1>5, <2>1, <2>2
<1>. QED
  BY <1>2, <1>3, <1>4, <1>5

\* The names of the nodes S come from S, the others stay.
NamesWithin(h, g, S) ==
  \A n \in Node :
    IF n \in S THEN g[n].name = NIL \/ \E m \in S : g[n].name = h[m].name
    ELSE g[n].name = h[n].name

\* A name is taken from where the walk goes.
LEMMA NameFoundIn ==
  ASSUME NIL \notin Node, NEW Ty, NEW Nm, NEW h \in Heaps(Ty, Nm), NIL \in Nm,
         WellFounded(Node, OfEdges(h)), NEW S \in SUBSET Node,
         \A m \in S : h[m].of \in S \cup {NIL}, NEW n \in S
  PROVE  /\ c_ast_name(h, n) = NIL \/ \E m \in S : c_ast_name(h, n) = h[m].name
         /\ NamesWithin(h, c_ast_take_name(h, n), S)
<1> DEFINE m == c_ast_find_name(h, n)
           g == [h EXCEPT ![m].name = NIL]
<1>1. Down(h, n) \in Seq(S)
  BY DownStays
<1>2. m = NIL \/ m \in S
  BY <1>1, FoundIn DEF c_ast_find_name
<1> HIDE DEF m
<1>3. /\ c_ast_take_name(h, n) = (IF m = NIL THEN h ELSE g)
      /\ c_ast_name(h, n) = (IF m = NIL THEN NIL ELSE h[m].name)
  BY DEF c_ast_take_name, c_ast_name, m
<1>4. NamesWithin(h, h, S)
  BY DEF NamesWithin
<1>5. CASE m \in S
  <2>1. \A k \in Node : g[k].name = IF k = m THEN NIL ELSE h[k].name
    BY <1>5 DEF Heaps, Cells
  <2>2. NamesWithin(h, g, S)
    BY <1>5, <2>1 DEF NamesWithin
  <2>. QED
    BY <1>2, <1>3, <1>5, <2>2
<1>. QED
  BY <1>2, <1>3, <1>4, <1>5

-----------------------------------------------------------------------------
(* Links.                                                                  *)

\* Only the links differ.
SameData(h, g) ==
  \A n \in Node : /\ g[n].kind = h[n].kind /\ g[n].type = h[n].type /\ g[n].def = h[n].def
                  /\ g[n].depth = h[n].depth /\ g[n].name = h[n].name /\ g[n].args = h[n].args

\* g is h with child linked to parent.
Linked(h, g, child, parent) ==
  /\ SameData(h, g)
  /\ \A n \in Node : /\ g[n].parent = (IF n = child THEN parent ELSE h[n].parent)
                     /\ g[n].of = (IF n = parent THEN child ELSE h[n].of)

LinkOf(h, child, parent) == [h EXCEPT ![child].parent = parent, ![parent].of = child]

\* LinkOf links the child to the parent, whatever either was linked to.
LEMMA LinkedBy ==
  ASSUME NIL \notin Node, NEW Ty, NEW Nm, NEW h \in Heaps(Ty, Nm),
         NEW child \in Address, NEW parent \in Node
  PROVE  /\ LinkOf(h, child, parent) \in Heaps(Ty, Nm)
         /\ Linked(h, LinkOf(h, child, parent), child, parent)
<1> DEFINE g1 == [h EXCEPT ![child].parent = parent]
           g == [g1 EXCEPT ![parent].of = child]
<1>1. parent \in Address /\ \A n \in Node : h[n] \in Cells(Ty, Nm)
  BY HeapFields DEF Address
<1>2. g1 \in Heaps(Ty, Nm) /\ SameData(h, g1)
  BY <1>1 DEF Heaps, Cells, SameData
<1>3. \A n \in Node : /\ g1[n].parent = (IF n = child THEN parent ELSE h[n].parent)
                      /\ g1[n].of = h[n].of
  BY <1>1 DEF Heaps, Cells
<1>4. LinkOf(h, child, parent) = g
  BY DEF LinkOf
<1> HIDE DEF g1
<1>5. \A n \in Node : g1[n] \in Cells(Ty, Nm)
  BY <1>2 DEF Heaps
<1>6. g \in Heaps(Ty, Nm)
  <2>1. [g1[parent] EXCEPT !.of = child] \in Cells(Ty, Nm)
    BY <1>5 DEF Cells
  <2>. QED
    BY <1>2, <2>1 DEF Heaps
<1>7. \A n \in Node : g[n] = IF n = parent THEN [g1[n] EXCEPT !.of = child] ELSE g1[n]
  BY <1>2 DEF Heaps
<1> HIDE DEF g
<1>8. \A n \in Node : /\ g[n].parent = g1[n].parent
                      /\ g[n].of = (IF n = parent THEN child ELSE g1[n].of)
  BY <1>5, <1>7 DEF Cells
<1>9. SameData(g1, g)
  BY <1>5, <1>7 DEF Cells, SameData
<1>10. SameData(h, g)
  BY <1>2, <1>9 DEF SameData
<1>11. Linked(h, g, child, parent)
  BY <1>3, <1>8, <1>10 DEF Linked
<1>. QED
  BY <1>4, <1>6, <1>11

\* A link that is made.
LEMMA SetParent ==
  ASSUME NIL \notin Node, NEW Ty, NEW Nm, NEW h \in Heaps(Ty, Nm) \cup {Failed},
         NEW child \in Address, NEW parent \in Address, NEW g,
         g = c_ast_set_parent(h, child, parent)
  PROVE  \/ g = Failed
         \/ /\ h \in Heaps(Ty, Nm) /\ h # Failed
            /\ parent \in Node /\ h[parent].kind \in ParentKind
            /\ parent # child /\ ~c_ast_has_cycle(h, child, parent)
            /\ g \in Heaps(Ty, Nm) /\ Linked(h, g, child, parent)
<1>1. SUFFICES ASSUME g # Failed
               PROVE  /\ h \in Heaps(Ty, Nm) /\ h # Failed
                      /\ parent \in Node /\ h[parent].kind \in ParentKind
                      /\ parent # child /\ ~c_ast_has_cycle(h, child, parent)
                      /\ g \in Heaps(Ty, Nm) /\ Linked(h, g, child, parent)
  OBVIOUS
<1>2. /\ h # Failed /\ c_ast_is_parent(h, parent) /\ ~c_ast_has_cycle(h, child, parent)
      /\ g = LinkOf(h, child, parent)
  BY <1>1 DEF c_ast_set_parent, LinkOf
<1>3. h \in Heaps(Ty, Nm) /\ parent \in Node /\ h[parent].kind \in ParentKind
  BY <1>2 DEF c_ast_is_parent, Address
<1>4. parent # child
  <2>1. \A m \in Node : h[m].parent \in Address
    BY <1>3, HeapFields
  <2>. QED
    BY <1>2, <1>3, <2>1, HasCycle
<1>. QED
  BY <1>2, <1>3, <1>4, LinkedBy

\* Linking to a parent that has no parent itself cannot fail.
LEMMA SetParentDone ==
  ASSUME NIL \notin Node, NEW Ty, NEW Nm, NEW h \in Heaps(Ty, Nm),
         NEW child \in Node, NEW parent \in Node, child # parent,
         h[parent].kind \in ParentKind, h[parent].parent = NIL
  PROVE  /\ c_ast_set_parent(h, child, parent) \in Heaps(Ty, Nm)
         /\ Linked(h, c_ast_set_parent(h, child, parent), child, parent)
<1>1. h # Failed
  BY DEF Heaps, Failed
<1>2. \A m \in Node : h[m].parent \in Address
  BY HeapFields
<1>3. ~c_ast_has_cycle(h, child, parent)
  BY <1>2, HasCycle
<1>4. child \in Address /\ parent # NIL
  BY DEF Address
<1>5. c_ast_set_parent(h, child, parent)
        = LinkOf(h, child, parent)
  BY <1>1, <1>3, <1>4 DEF c_ast_set_parent, c_ast_is_parent, LinkOf
<1>. QED
  BY <1>4, <1>5, LinkedBy

\* The two components of a result.
LEMMA ResultFields == \A h, rv : Result(h, rv).h = h /\ Result(h, rv).rv = rv
  BY DEF Result

\* What the recursions that link nodes return.
Results(Ty, Nm) == [h : Heaps(Ty, Nm) \cup {Failed}, rv : Address]

\* The results of the recursions are heaps with a node, or failures.
LEMMA ResultType ==
  ASSUME NIL \notin Node, NEW Ty, NEW Nm
  PROVE  /\ \A r \in Results(Ty, Nm) : r.h \in Heaps(Ty, Nm) \cup {Failed} /\ r.rv \in Address
         /\ \A h \in Heaps(Ty, Nm) \cup {Failed}, rv \in Address :
              Result(h, rv) \in Results(Ty, Nm) /\ Result(h, rv).h = h /\ Result(h, rv).rv = rv
         /\ \A h \in Heaps(Ty, Nm) \cup {Failed}, child, parent \in Address :
              c_ast_set_parent(h, child, parent) \in Heaps(Ty, Nm) \cup {Failed}
<1>1. ASSUME NEW h \in Heaps(Ty, Nm) \cup {Failed}, NEW child \in Address, NEW parent \in Address
      PROVE  c_ast_set_parent(h, child, parent) \in Heaps(Ty, Nm) \cup {Failed}
  BY SetParent
<1>. QED
  BY <1>1 DEF Results, Result

\* The recursion of c_ast_append_array.
LEMMA AppendArrayOf ==
  ASSUME NIL \notin Node, NEW Ty, NEW Nm, NEW h \in Heaps(Ty, Nm),
         WellFounded(Node, OfEdges(h)), NEW array \in Node
  PROVE  \A n \in Address :
           /\ c_ast_append_array(h, n, array) \in Results(Ty, Nm)
           /\ c_ast_append_array(h, n, array) =
                IF n = NIL THEN Result(Failed, NIL)
                ELSE IF \/ h[n].kind = "array"
                        \/ h[n].kind = "pointer" /\ h[array].depth < h[n].depth
                THEN Result(c_ast_set_parent(c_ast_append_array(h, h[n].of, array).h,
                                             c_ast_append_array(h, h[n].of, array).rv, n), n)
                ELSE Result(IF h[h[array].of].kind = "placeholder"
                            THEN c_ast_set_parent(h, n, array) ELSE Failed, array)
<1> DEFINE E == OfEdges(h) \cup (Node \X {NIL})
           V == Results(Ty, Nm)
           Body(f, n) ==
             IF n = NIL THEN Result(Failed, NIL)
             ELSE IF \/ h[n].kind = "array"
                     \/ h[n].kind = "pointer" /\ h[array].depth < h[n].depth
             THEN Result(c_ast_set_parent(f[h[n].of].h, f[h[n].of].rv, n), n)
             ELSE Result(IF h[h[array].of].kind = "placeholder"
                         THEN c_ast_set_parent(h, n, array) ELSE Failed, array)
           F == [n \in Address |-> [f \in [Address -> V] |-> Body(f, n)]]
           Solves(f) == f = [n \in Address |-> Body(f, n)]
           add == CHOOSE f : Solves(f)
<1>1. WellFounded(Address, E)
  BY AddNil DEF OfEdges
<1>2. \A n \in Node : h[n].of \in Address /\ h[n].parent \in Address /\ n \in Address
  BY HeapFields DEF Address
<1>3. Result(Failed, NIL) \in V /\ V # {}
  BY ResultType DEF Address
<1>4. ASSUME NEW n \in Address, NEW f, n # NIL => f[h[n].of] \in V PROVE Body(f, n) \in V
  <2>1. CASE n = NIL
    BY <1>3, <2>1
  <2>2. CASE n # NIL
    <3>1. f[h[n].of].h \in Heaps(Ty, Nm) \cup {Failed} /\ f[h[n].of].rv \in Address
      BY <1>4, <2>2, ResultType
    <3>2. c_ast_set_parent(f[h[n].of].h, f[h[n].of].rv, n) \in Heaps(Ty, Nm) \cup {Failed}
      BY <3>1, ResultType
    <3>3. array \in Address /\ c_ast_set_parent(h, n, array) \in Heaps(Ty, Nm) \cup {Failed}
      BY <1>2, ResultType
    <3>4. Result(c_ast_set_parent(f[h[n].of].h, f[h[n].of].rv, n), n) \in V
      BY <3>2, ResultType
    <3>5. Result(c_ast_set_parent(h, n, array), array) \in V /\ Result(Failed, array) \in V
      BY <3>3, ResultType
    <3>. QED
      BY <2>2, <3>4, <3>5
  <2>. QED
    BY <2>1, <2>2
<1>5. F \in [Address -> [[Address -> V] -> V]]
  <2>1. \A n \in Address : n # NIL => h[n].of \in Address
    BY <1>2 DEF Address
  <2>2. \A n \in Address : \A f \in [Address -> V] : Body(f, n) \in V
    <3> HIDE DEF Body, V
    <3>. QED
      BY <1>4, <2>1
  <2> HIDE DEF Body, V
  <2>. QED
    BY <2>2
<1>6. \A n \in Address : n # NIL => h[n].of \in Address /\ <<n, h[n].of>> \in E
  BY <1>2 DEF Address, OfEdges
<1>7. Local(Address, E, V, F)
  <2>1. SUFFICES ASSUME NEW n \in Address, NEW f \in [Address -> V], NEW g \in [Address -> V],
                        \A e \in Address : <<n, e>> \in E => f[e] = g[e]
                 PROVE  F[n][f] = F[n][g]
    BY DEF Local
  <2>2. n # NIL => f[h[n].of] = g[h[n].of]
    BY <1>6, <2>1
  <2>3. Body(f, n) = Body(g, n)
    BY <2>2
  <2> HIDE DEF Body, V
  <2>. QED
    BY <2>3
<1>8. \E g \in [Address -> V] : Solves(g)
  <2>1. Recursive(Address, E, V, F)
    BY <1>1, <1>3, <1>5, <1>7 DEF Recursive
  <2>2. PICK g \in [Address -> V] : \A m \in Address : g[m] = F[m][g]
    <3>1. HasFixpoint(Address, V, F)
      <4> HIDE DEF F, V, E
      <4>. QED
        BY <2>1, Fixpoint
    <3>. QED
      BY <3>1 DEF HasFixpoint
  <2> HIDE DEF Body, V
  <2>3. g = [m \in Address |-> g[m]]
    BY <2>2
  <2>4. \A m \in Address : g[m] = Body(g, m)
    BY <2>2
  <2>5. Solves(g)
    BY <2>3, <2>4
  <2>. QED
    BY <2>5
<1>9. Solves(add)
  <2> HIDE DEF Solves
  <2>. QED
    BY <1>8
<1>10. \A n \in Address : c_ast_append_array(h, n, array) = add[n]
  BY DEF c_ast_append_array
<1>11. DOMAIN add = Address /\ \A n \in Address : add[n] = Body(add, n)
  <2> HIDE DEF add, Body
  <2>. QED
    BY <1>9
<1> HIDE DEF add
<1>12. \A n \in Address : add[n] \in V
  <2> DEFINE S == {n \in Address : add[n] \notin V}
  <2>1. SUFFICES ASSUME S # {} PROVE FALSE
    OBVIOUS
  <2>2. PICK n \in S : \A m \in S : <<n, m>> \notin E
    BY <1>1, <2>1 DEF WellFounded
  <2>3. n \in Address /\ (n # NIL => add[h[n].of] \in V)
    BY <1>6, <2>2
  <2> HIDE DEF Body, V
  <2>4. Body(add, n) \in V
    BY <1>4, <2>3
  <2>. QED
    BY <1>11, <2>2, <2>4
<1>13. ASSUME NEW n \in Address
       PROVE  /\ c_ast_append_array(h, n, array) \in V
              /\ c_ast_append_array(h, n, array) = Body(add, n)
              /\ n # NIL => c_ast_append_array(h, h[n].of, array) = add[h[n].of]
  BY <1>6, <1>10, <1>11, <1>12
<1>14. ASSUME NEW n \in Address
       PROVE  c_ast_append_array(h, n, array) =
                IF n = NIL THEN Result(Failed, NIL)
                ELSE IF \/ h[n].kind = "array"
                        \/ h[n].kind = "pointer" /\ h[array].depth < h[n].depth
                THEN Result(c_ast_set_parent(c_ast_append_array(h, h[n].of, array).h,
                                             c_ast_append_array(h, h[n].of, array).rv, n), n)
                ELSE Result(IF h[h[array].of].kind = "placeholder"
                            THEN c_ast_set_parent(h, n, array) ELSE Failed, array)
  BY <1>13
<1>. QED
  BY <1>13, <1>14

\* The heap when array is put below n, and when it is put above it.
ArrayBelow(h, n, array) ==
  c_ast_set_parent(IF c_ast_is_parent(h, n)
                   THEN c_ast_set_parent(h, h[n].of, array) ELSE h, array, n)
ArrayAbove(h, n, array) ==
  c_ast_set_parent(IF c_ast_is_parent(h, h[n].parent)
                   THEN c_ast_set_parent(h, array, h[n].parent) ELSE h, n, array)

\* The recursion of c_ast_add_array_impl.
LEMMA AddArrayOf ==
  ASSUME NIL \notin Node, NEW Ty, NEW Nm, NEW h \in Heaps(Ty, Nm),
         WellFounded(Node, OfEdges(h)), NEW array \in Node
  PROVE  \A n \in Address :
           /\ c_ast_add_array_impl(h, n, array) \in Results(Ty, Nm)
           /\ c_ast_add_array_impl(h, n, array) =
                IF n = NIL THEN Result(h, array)
                ELSE IF h[n].kind = "array" THEN c_ast_append_array(h, n, array)
                ELSE IF h[n].kind = "pointer" /\ h[n].depth > h[array].depth
                THEN Result(c_ast_add_array_impl(h, h[n].of, array).h, n)
                ELSE IF h[n].depth > h[array].depth THEN Result(ArrayBelow(h, n, array), n)
                ELSE Result(ArrayAbove(h, n, array), array)
<1> DEFINE E == OfEdges(h) \cup (Node \X {NIL})
           V == Results(Ty, Nm)
           Body(f, n) ==
             IF n = NIL THEN Result(h, array)
             ELSE IF h[n].kind = "array" THEN c_ast_append_array(h, n, array)
             ELSE IF h[n].kind = "pointer" /\ h[n].depth > h[array].depth
             THEN Result(f[h[n].of].h, n)
             ELSE IF h[n].depth > h[array].depth THEN Result(ArrayBelow(h, n, array), n)
             ELSE Result(ArrayAbove(h, n, array), array)
           F == [n \in Address |-> [f \in [Address -> V] |-> Body(f, n)]]
           Solves(f) == f = [n \in Address |-> Body(f, n)]
           add == CHOOSE f : Solves(f)
<1>1. WellFounded(Address, E)
  BY AddNil DEF OfEdges
<1>2. \A n \in Node : h[n].of \in Address /\ h[n].parent \in Address /\ n \in Address
  BY HeapFields DEF Address
<1>3. Result(Failed, NIL) \in V /\ V # {}
  BY ResultType DEF Address
<1>4. ASSUME NEW n \in Address, NEW f, n # NIL => f[h[n].of] \in V PROVE Body(f, n) \in V
  <2>0. array \in Address /\ h \in Heaps(Ty, Nm) \cup {Failed}
    BY <1>2
  <2>1. CASE n = NIL
    BY <2>0, <2>1, ResultType
  <2>2. CASE n # NIL
    <3>0. n \in Node /\ h[n].of \in Address /\ h[n].parent \in Address
      BY <1>2, <1>4, <2>2 DEF Address
    <3>1. f[h[n].of].h \in Heaps(Ty, Nm) \cup {Failed}
      BY <1>4, <2>2, ResultType
    <3>2. ArrayBelow(h, n, array) \in Heaps(Ty, Nm) \cup {Failed}
      BY <1>4, <2>0, <3>0, ResultType DEF ArrayBelow
    <3>3. ArrayAbove(h, n, array) \in Heaps(Ty, Nm) \cup {Failed}
      BY <1>4, <2>0, <3>0, ResultType DEF ArrayAbove
    <3>4. c_ast_append_array(h, n, array) \in V
      BY <1>4, AppendArrayOf
    <3>5. /\ Result(f[h[n].of].h, n) \in V /\ Result(ArrayBelow(h, n, array), n) \in V
          /\ Result(ArrayAbove(h, n, array), array) \in V
      BY <1>4, <2>0, <3>1, <3>2, <3>3, ResultType
    <3>. QED
      BY <2>2, <3>4, <3>5
  <2>. QED
    BY <2>1, <2>2
<1>5. F \in [Address -> [[Address -> V] -> V]]
  <2>1. \A n \in Address : n # NIL => h[n].of \in Address
    BY <1>2 DEF Address
  <2>2. \A n \in Address : \A f \in [Address -> V] : Body(f, n) \in V
    <3> HIDE DEF Body, V
    <3>. QED
      BY <1>4, <2>1
  <2> HIDE DEF Body, V
  <2>. QED
    BY <2>2
<1>6. \A n \in Address : n # NIL => h[n].of \in Address /\ <<n, h[n].of>> \in E
  BY <1>2 DEF Address, OfEdges
<1>7. Local(Address, E, V, F)
  <2>1. SUFFICES ASSUME NEW n \in Address, NEW f \in [Address -> V], NEW g \in [Address -> V],
                        \A e \in Address : <<n, e>> \in E => f[e] = g[e]
                 PROVE  F[n][f] = F[n][g]
    BY DEF Local
  <2>2. n # NIL => f[h[n].of] = g[h[n].of]
    BY <1>6, <2>1
  <2>3. Body(f, n) = Body(g, n)
    BY <2>2
  <2> HIDE DEF Body, V
  <2>. QED
    BY <2>3
<1>8. \E g \in [Address -> V] : Solves(g)
  <2>1. Recursive(Address, E, V, F)
    BY <1>1, <1>3, <1>5, <1>7 DEF Recursive
  <2>2. PICK g \in [Address -> V] : \A m \in Address : g[m] = F[m][g]
    <3>1. HasFixpoint(Address, V, F)
      <4> HIDE DEF F, V, E
      <4>. QED
        BY <2>1, Fixpoint
    <3>. QED
      BY <3>1 DEF HasFixpoint
  <2> HIDE DEF Body, V
  <2>3. g = [m \in Address |-> g[m]]
    BY <2>2
  <2>4. \A m \in Address : g[m] = Body(g, m)
    BY <2>2
  <2>5. Solves(g)
    BY <2>3, <2>4
  <2>. QED
    BY <2>5
<1>9. Solves(add)
  <2> HIDE DEF Solves
  <2>. QED
    BY <1>8
<1>10. \A n \in Address : c_ast_add_array_impl(h, n, array) = add[n]
  BY DEF c_ast_add_array_impl, ArrayBelow, ArrayAbove
<1>11. DOMAIN add = Address /\ \A n \in Address : add[n] = Body(add, n)
  <2> HIDE DEF add, Body
  <2>. QED
    BY <1>9
<1> HIDE DEF add
<1>12. \A n \in Address : add[n] \in V
  <2> DEFINE S == {n \in Address : add[n] \notin V}
  <2>1. SUFFICES ASSUME S # {} PROVE FALSE
    OBVIOUS
  <2>2. PICK n \in S : \A m \in S : <<n, m>> \notin E
    BY <1>1, <2>1 DEF WellFounded
  <2>3. n \in Address /\ (n # NIL => add[h[n].of] \in V)
    BY <1>6, <2>2
  <2> HIDE DEF Body, V
  <2>4. Body(add, n) \in V
    BY <1>4, <2>3
  <2>. QED
    BY <1>11, <2>2, <2>4
<1>13. ASSUME NEW n \in Address
       PROVE  /\ c_ast_add_array_impl(h, n, array) \in V
              /\ c_ast_add_array_impl(h, n, array) = Body(add, n)
              /\ n # NIL => c_ast_add_array_impl(h, h[n].of, array) = add[h[n].of]
  BY <1>6, <1>10, <1>11, <1>12
<1>14. ASSUME NEW n \in Address
       PROVE  c_ast_add_array_impl(h, n, array) =
                IF n = NIL THEN Result(h, array)
                ELSE IF h[n].kind = "array" THEN c_ast_append_array(h, n, array)
                ELSE IF h[n].kind = "pointer" /\ h[n].depth > h[array].depth
                THEN Result(c_ast_add_array_impl(h, h[n].of, array).h, n)
                ELSE IF h[n].depth > h[array].depth THEN Result(ArrayBelow(h, n, array), n)
                ELSE Result(ArrayAbove(h, n, array), array)
  BY <1>13
<1>. QED
  BY <1>13, <1>14

Derivation(h, n) == h[n].kind \in ParentKind \ {"function"}

\* The recursion of c_ast_add_func_impl.
LEMMA AddFuncOf ==
  ASSUME NIL \notin Node, NEW Ty, NEW Nm, NEW h \in Heaps(Ty, Nm),
         WellFounded(Node, OfEdges(h)), NEW ret \in Node, NEW func \in Node
  PROVE  \A n \in Address :
           /\ c_ast_add_func_impl(h, n, ret, func) \in Results(Ty, Nm)
           /\ c_ast_add_func_impl(h, n, ret, func) =
                IF n = NIL THEN Result(Failed, NIL)
                ELSE IF Derivation(h, n) /\ Derivation(h, h[n].of)
                THEN Result(c_ast_add_func_impl(h, h[n].of, ret, func).h, n)
                ELSE IF Derivation(h, n) /\ h[h[n].of].kind = "placeholder" /\ ret # n
                THEN Result(c_ast_set_parent(c_ast_set_parent(h, func, n), ret, func), n)
                ELSE Result(c_ast_set_parent(h, ret, func), func)
<1> DEFINE E == OfEdges(h) \cup (Node \X {NIL})
           V == Results(Ty, Nm)
           Body(f, n) ==
             IF n = NIL THEN Result(Failed, NIL)
             ELSE IF Derivation(h, n) /\ Derivation(h, h[n].of)
             THEN Result(f[h[n].of].h, n)
             ELSE IF Derivation(h, n) /\ h[h[n].of].kind = "placeholder" /\ ret # n
             THEN Result(c_ast_set_parent(c_ast_set_parent(h, func, n), ret, func), n)
             ELSE Result(c_ast_set_parent(h, ret, func), func)
           F == [n \in Address |-> [f \in [Address -> V] |-> Body(f, n)]]
           Solves(f) == f = [n \in Address |-> Body(f, n)]
           add == CHOOSE f : Solves(f)
<1>1. WellFounded(Address, E)
  BY AddNil DEF OfEdges
<1>2. \A n \in Node : h[n].of \in Address /\ h[n].parent \in Address /\ n \in Address
  BY HeapFields DEF Address
<1>3. Result(Failed, NIL) \in V /\ V # {}
  BY ResultType DEF Address
<1>4. ASSUME NEW n \in Address, NEW f, n # NIL => f[h[n].of] \in V PROVE Body(f, n) \in V
  <2>0. ret \in Address /\ func \in Address /\ h \in Heaps(Ty, Nm) \cup {Failed}
    BY <1>2
  <2>1. CASE n = NIL
    BY <1>3, <2>1
  <2>2. CASE n # NIL
    <3>1. f[h[n].of].h \in Heaps(Ty, Nm) \cup {Failed}
      BY <1>4, <2>2, ResultType
    <3>2. c_ast_set_parent(c_ast_set_parent(h, func, n), ret, func) \in Heaps(Ty, Nm) \cup {Failed}
      BY <1>4, <2>0, ResultType
    <3>3. c_ast_set_parent(h, ret, func) \in Heaps(Ty, Nm) \cup {Failed}
      BY <2>0, ResultType
    <3>5. /\ Result(f[h[n].of].h, n) \in V
          /\ Result(c_ast_set_parent(c_ast_set_parent(h, func, n), ret, func), n) \in V
          /\ Result(c_ast_set_parent(h, ret, func), func) \in V
      BY <1>4, <2>0, <3>1, <3>2, <3>3, ResultType
    <3>. QED
      BY <2>2, <3>5
  <2>. QED
    BY <2>1, <2>2
<1>5. F \in [Address -> [[Address -> V] -> V]]
  <2>1. \A n \in Address : n # NIL => h[n].of \in Address
    BY <1>2 DEF Address
  <2>2. \A n \in Address : \A f \in [Address -> V] : Body(f, n) \in V
    <3> HIDE DEF Body, V
    <3>. QED
      BY <1>4, <2>1
  <2> HIDE DEF Body, V
  <2>. QED
    BY <2>2
<1>6. \A n \in Address : n # NIL => h[n].of \in Address /\ <<n, h[n].of>> \in E
  BY <1>2 DEF Address, OfEdges
<1>7. Local(Address, E, V, F)
  <2>1. SUFFICES ASSUME NEW n \in Address, NEW f \in [Address -> V], NEW g \in [Address -> V],
                        \A e \in Address : <<n, e>> \in E => f[e] = g[e]
                 PROVE  F[n][f] = F[n][g]
    BY DEF Local
  <2>2. n # NIL => f[h[n].of] = g[h[n].of]
    BY <1>6, <2>1
  <2>3. Body(f, n) = Body(g, n)
    BY <2>2
  <2> HIDE DEF Body, V
  <2>. QED
    BY <2>3
<1>8. \E g \in [Address -> V] : Solves(g)
  <2>1. Recursive(Address, E, V, F)
    BY <1>1, <1>3, <1>5, <1>7 DEF Recursive
  <2>2. PICK g \in [Address -> V] : \A m \in Address : g[m] = F[m][g]
    <3>1. HasFixpoint(Address, V, F)
      <4> HIDE DEF F, V, E
      <4>. QED
        BY <2>1, Fixpoint
    <3>. QED
      BY <3>1 DEF HasFixpoint
  <2> HIDE DEF Body, V
  <2>3. g = [m \in Address |-> g[m]]
    BY <2>2
  <2>4. \A m \in Address : g[m] = Body(g, m)
    BY <2>2
  <2>5. Solves(g)
    BY <2>3, <2>4
  <2>. QED
    BY <2>5
<1>9. Solves(add)
  <2> HIDE DEF Solves
  <2>. QED
    BY <1>8
<1>10. \A n \in Address : c_ast_add_func_impl(h, n, ret, func) = add[n]
  BY DEF c_ast_add_func_impl, Derivation
<1>11. DOMAIN add = Address /\ \A n \in Address : add[n] = Body(add, n)
  <2> HIDE DEF add, Body
  <2>. QED
    BY <1>9
<1> HIDE DEF add
<1>12. \A n \in Address : add[n] \in V
  <2> DEFINE S == {n \in Address : add[n] \notin V}
  <2>1. SUFFICES ASSUME S # {} PROVE FALSE
    OBVIOUS
  <2>2. PICK n \in S : \A m \in S : <<n, m>> \notin E
    BY <1>1, <2>1 DEF WellFounded
  <2>3. n \in Address /\ (n # NIL => add[h[n].of] \in V)
    BY <1>6, <2>2
  <2> HIDE DEF Body, V
  <2>4. Body(add, n) \in V
    BY <1>4, <2>3
  <2>. QED
    BY <1>11, <2>2, <2>4
<1>13. ASSUME NEW n \in Address
       PROVE  /\ c_ast_add_func_impl(h, n, ret, func) \in V
              /\ c_ast_add_func_impl(h, n, ret, func) = Body(add, n)
              /\ n # NIL => c_ast_add_func_impl(h, h[n].of, ret, func) = add[h[n].of]
  BY <1>6, <1>10, <1>11, <1>12
<1>14. ASSUME NEW n \in Address
       PROVE  c_ast_add_func_impl(h, n, ret, func) =
                IF n = NIL THEN Result(Failed, NIL)
                ELSE IF Derivation(h, n) /\ Derivation(h, h[n].of)
                THEN Result(c_ast_add_func_impl(h, h[n].of, ret, func).h, n)
                ELSE IF Derivation(h, n) /\ h[h[n].of].kind = "placeholder" /\ ret # n
                THEN Result(c_ast_set_parent(c_ast_set_parent(h, func, n), ret, func), n)
                ELSE Result(c_ast_set_parent(h, ret, func), func)
  BY <1>13
<1>. QED
  BY <1>13, <1>14

-----------------------------------------------------------------------------
(* Where an array goes.                                                    *)

\* g2 is g with array put above b, below a node that had b below it already.
ArrayPut(g, g2, D, array, b) ==
  /\ SameData(g, g2)
  /\ g2[array].of = b /\ g2[b].parent # NIL
  /\ \A x \in Node \ {array} :
       /\ \/ g2[x].of = g[x].of
          \/ /\ g2[x].of = array /\ g2[array].parent # NIL
             /\ (x \in D /\ g[x].of = b) \/ x = g[b].parent
       /\ \/ g2[x].parent = g[x].parent
          \/ x = b /\ g2[x].parent = array
          \/ g2[x].parent \in D /\ g[g2[x].parent].of = x
  /\ \/ g2[array].parent = NIL
     \/ g2[array].parent \in D /\ g[g2[array].parent].of = b
     \/ g2[array].parent = g[b].parent

\* A walk from a node of D along of_ast stays in D until it ends at t.
Walks(g, D, t, array) ==
  /\ D \subseteq Node /\ t \in Node /\ array \in Node \ (D \cup {t})
  /\ \A n \in D : g[n].kind \in ParentKind => g[n].of \in D \cup {t}
  /\ t \in D \/ (g[t].kind # "array" /\ ~(g[t].depth > g[array].depth))
  /\ g[array].parent = NIL
  /\ \A x \in D : g[x].of # array

\* c_ast_append_array puts the array above one of the nodes that it walks, or
\* fails.
LEMMA AppendArrayPut ==
  ASSUME NIL \notin Node, NEW Ty, NEW Nm, NEW g \in Heaps(Ty, Nm),
         WellFounded(Node, OfEdges(g)), NEW D, NEW t, NEW array, Walks(g, D, t, array)
  PROVE  \A n \in D \cup {t} :
           LET r == c_ast_append_array(g, n, array) IN
           \/ r.h = Failed
           \/ /\ r.h \in Heaps(Ty, Nm)
              /\ \E b \in D \cup {t} :
                   /\ ArrayPut(g, r.h, D, array, b)
                   /\ r.rv = n \/ (r.rv = array /\ b = n /\ r.h[array].parent = NIL)
<1> DEFINE A(n) == c_ast_append_array(g, n, array)
           P(n) == \/ A(n).h = Failed
                   \/ /\ A(n).h \in Heaps(Ty, Nm)
                      /\ \E b \in D \cup {t} :
                           /\ ArrayPut(g, A(n).h, D, array, b)
                           /\ A(n).rv = n \/ (A(n).rv = array /\ b = n /\ A(n).h[array].parent = NIL)
           S == {n \in D \cup {t} : ~P(n)}
<1>1. SUFFICES ASSUME S # {} PROVE FALSE
  OBVIOUS
<1>2. S \in SUBSET Node
  BY DEF Walks
<1>3. PICK n \in S : \A k \in S : <<n, k>> \notin OfEdges(g)
  BY <1>1, <1>2 DEF WellFounded
<1>4. /\ n \in D \cup {t} /\ n \in Node /\ n # NIL /\ n \in Address /\ array \in Node /\ n # array
      /\ array \in Address
  BY <1>2, <1>3 DEF Walks, Address
<1> DEFINE Goes == \/ g[n].kind = "array"
                   \/ g[n].kind = "pointer" /\ g[array].depth < g[n].depth
           m == g[n].of
<1>5. A(n) = IF Goes THEN Result(c_ast_set_parent(A(m).h, A(m).rv, n), n)
             ELSE Result(IF g[g[array].of].kind = "placeholder"
                         THEN c_ast_set_parent(g, n, array) ELSE Failed, array)
  BY <1>4, AppendArrayOf
<1> HIDE DEF A
<1>6. CASE Goes
  <2>1. n \in D
    BY <1>4, <1>6, HeapFields DEF Walks
  <2>2. m \in D \cup {t} /\ m \in Node /\ m \in Address
    BY <2>1, <1>6, Kinds DEF Walks, Address
  <2>3. P(m)
    <3>1. <<n, m>> \in OfEdges(g)
      BY <1>4, <2>2 DEF OfEdges
    <3>. QED
      BY <1>3, <2>2, <3>1
  <2>4. A(m) \in Results(Ty, Nm)
    BY <1>4, <2>2, AppendArrayOf DEF A
  <2> DEFINE g2 == A(m).h
             rv == A(m).rv
             g3 == c_ast_set_parent(g2, rv, n)
  <2>5. g2 \in Heaps(Ty, Nm) \cup {Failed} /\ rv \in Address
    BY <2>4, ResultType
  <2>6. A(n).h = g3 /\ A(n).rv = n
    <3>1. g3 \in Heaps(Ty, Nm) \cup {Failed}
      BY <1>4, <2>5, ResultType
    <3>. QED
      BY <1>4, <1>5, <1>6, <3>1, ResultType
  <2> HIDE DEF g2, rv, g3
  <2>7. CASE g3 = Failed
    BY <1>3, <2>6, <2>7
  <2>8. CASE g3 # Failed
    <3>1. g2 \in Heaps(Ty, Nm) /\ g2 # Failed /\ g3 \in Heaps(Ty, Nm) /\ Linked(g2, g3, rv, n)
      BY <1>4, <2>5, <2>8, SetParent DEF g3
    <3>2. PICK b \in D \cup {t} : /\ ArrayPut(g, g2, D, array, b)
                                  /\ rv = m \/ (rv = array /\ b = m /\ g2[array].parent = NIL)
      BY <2>3, <3>1 DEF g2, rv
    <3>3. b \in Node /\ b # array
      BY <1>4, <3>2 DEF Walks
    <3>4. SameData(g, g3)
      BY <3>1, <3>2 DEF SameData, Linked, ArrayPut
    <3>5. g3[array].of = b /\ g3[b].parent # NIL
      BY <1>4, <3>1, <3>2, <3>3 DEF Linked, ArrayPut
    <3>6. \A x \in D : g[x].of # array
      BY DEF Walks
    <3>7. CASE rv = m
      <4>1. m # array
        BY <3>6, <1>4, <2>1
      <4>2. ASSUME NEW x \in Node \ {array}
            PROVE  /\ \/ g3[x].of = g[x].of
                      \/ /\ g3[x].of = array /\ g3[array].parent # NIL
                         /\ (x \in D /\ g[x].of = b) \/ x = g[b].parent
                   /\ \/ g3[x].parent = g[x].parent
                      \/ x = b /\ g3[x].parent = array
                      \/ g3[x].parent \in D /\ g[g3[x].parent].of = x
        <5>1. g3[array].parent = g2[array].parent
          BY <1>4, <3>1, <3>7, <4>1 DEF Linked
        <5>2. g3[x].of = IF x = n THEN m ELSE g2[x].of
          BY <3>1, <3>7 DEF Linked
        <5>3. g3[x].parent = IF x = m THEN n ELSE g2[x].parent
          BY <3>1, <3>7 DEF Linked
        <5>. QED
          BY <5>1, <5>2, <5>3, <3>2, <2>1 DEF ArrayPut
      <4>3. g3[array].parent = g2[array].parent
        BY <1>4, <3>1, <3>7, <4>1 DEF Linked
      <4>4. ArrayPut(g, g3, D, array, b)
        BY <3>2, <3>4, <3>5, <4>2, <4>3 DEF ArrayPut
      <4>. QED
        BY <1>3, <2>6, <3>1, <4>4
    <3>8. CASE rv = array /\ b = m /\ g2[array].parent = NIL
      <4>1. g3[array].parent = n
        BY <1>4, <3>1, <3>8 DEF Linked
      <4>2. ASSUME NEW x \in Node \ {array}
            PROVE  /\ \/ g3[x].of = g[x].of
                      \/ /\ g3[x].of = array /\ g3[array].parent # NIL
                         /\ (x \in D /\ g[x].of = b) \/ x = g[b].parent
                   /\ \/ g3[x].parent = g[x].parent
                      \/ x = b /\ g3[x].parent = array
                      \/ g3[x].parent \in D /\ g[g3[x].parent].of = x
        <5>1. g3[x].of = IF x = n THEN array ELSE g2[x].of
          BY <3>1, <3>8 DEF Linked
        <5>2. g3[x].parent = g2[x].parent
          BY <3>1, <3>8 DEF Linked
        <5>. QED
          BY <5>1, <5>2, <4>1, <1>4, <3>2, <3>8, <2>1 DEF ArrayPut
      <4>3. ArrayPut(g, g3, D, array, b)
        BY <3>2, <3>4, <3>5, <3>8, <4>1, <4>2, <2>1 DEF ArrayPut
      <4>. QED
        BY <1>3, <2>6, <3>1, <4>3
    <3>. QED
      BY <3>2, <3>7, <3>8
  <2>. QED
    BY <2>7, <2>8
<1>7. CASE ~Goes
  <2> DEFINE g3 == c_ast_set_parent(g, n, array)
  <2>1. \/ A(n).h = Failed
        \/ A(n).h = g3 /\ A(n).rv = array
    <3>1. g3 \in Heaps(Ty, Nm) \cup {Failed} /\ Failed \in Heaps(Ty, Nm) \cup {Failed}
      BY <1>4, ResultType
    <3>2. A(n) = Result(g3, array) \/ A(n) = Result(Failed, array)
      BY <1>4, <1>5, <1>7
    <3> HIDE DEF g3
    <3>. QED
      BY <3>2, ResultFields
  <2> HIDE DEF g3
  <2>2. SUFFICES ASSUME A(n).h # Failed PROVE FALSE
    BY <1>3
  <2>3. A(n).h = g3 /\ A(n).rv = array /\ g3 # Failed
    BY <2>1, <2>2
  <2>4. g3 \in Heaps(Ty, Nm) /\ Linked(g, g3, n, array)
    BY <1>4, <2>3, SetParent DEF g3
  <2>5. /\ g[array].parent = NIL /\ \A x \in D : g[x].of # array
        /\ array # NIL
    BY <1>4 DEF Walks
  <2>6. g3[array].parent = NIL
    BY <2>4, <2>5, <1>4 DEF Linked
  <2>7. ArrayPut(g, g3, D, array, n)
    BY <2>4, <2>5, <2>6, <1>4 DEF Linked, ArrayPut
  <2>. QED
    BY <1>3, <1>4, <2>3, <2>4, <2>6, <2>7
<1>. QED
  BY <1>6, <1>7

\* So does c_ast_add_array, which returns the node it began with or the array.
LEMMA AddArrayPut ==
  ASSUME NIL \notin Node, NEW Ty, NEW Nm, NEW g \in Heaps(Ty, Nm),
         WellFounded(Node, OfEdges(g)), NEW D, NEW t, NEW array, Walks(g, D, t, array),
         NEW start \in D \cup {t}, NEW r, r = c_ast_add_array(g, start, array), r.h # Failed
  PROVE  /\ r.h \in Heaps(Ty, Nm) /\ r.rv \in {start, array}
         /\ \E b \in D \cup {t} : ArrayPut(g, r.h, D, array, b)
<1> DEFINE A(n) == c_ast_add_array_impl(g, n, array)
           P(n) == \/ A(n).h = Failed
                   \/ /\ A(n).h \in Heaps(Ty, Nm) /\ A(n).rv \in {n, array}
                      /\ \E b \in D \cup {t} : ArrayPut(g, A(n).h, D, array, b)
           S == {n \in D \cup {t} : ~P(n)}
<1>0. SUFFICES \A n \in D \cup {t} : P(n)
  <2>1. start # NIL
    BY DEF Walks
  <2>. QED
    BY <2>1 DEF c_ast_add_array
<1>1. SUFFICES ASSUME S # {} PROVE FALSE
  OBVIOUS
<1>2. S \in SUBSET Node
  BY DEF Walks
<1>3. PICK n \in S : \A k \in S : <<n, k>> \notin OfEdges(g)
  BY <1>1, <1>2 DEF WellFounded
<1>4. /\ n \in D \cup {t} /\ n \in Node /\ n # NIL /\ n \in Address /\ array \in Node /\ n # array
      /\ array \in Address /\ g[n].parent \in Address /\ g \in Heaps(Ty, Nm) \cup {Failed}
  BY <1>2, <1>3, HeapFields DEF Walks, Address
<1> DEFINE m == g[n].of
<1>5. A(n) = IF g[n].kind = "array" THEN c_ast_append_array(g, n, array)
             ELSE IF g[n].kind = "pointer" /\ g[n].depth > g[array].depth
             THEN Result(A(m).h, n)
             ELSE IF g[n].depth > g[array].depth THEN Result(ArrayBelow(g, n, array), n)
             ELSE Result(ArrayAbove(g, n, array), array)
  BY <1>4, AddArrayOf
<1>6. CASE g[n].kind = "array"
  <2> DEFINE q == c_ast_append_array(g, n, array)
  <2>1. A(n) = q
    BY <1>5, <1>6
  <2>2. \/ q.h = Failed
        \/ q.h \in Heaps(Ty, Nm) /\ q.rv \in {n, array}
           /\ \E b \in D \cup {t} : ArrayPut(g, q.h, D, array, b)
    BY <1>4, AppendArrayPut
  <2> HIDE DEF q, A
  <2>. QED
    BY <1>3, <2>1, <2>2
<1> HIDE DEF A
<1>7. CASE g[n].kind = "pointer" /\ g[n].depth > g[array].depth
  <2>0. g[n].kind # "array"
    BY <1>7, KindsDiffer
  <2>1. n \in D
    BY <1>4, <1>7 DEF Walks
  <2>2. m \in D \cup {t} /\ m \in Node /\ m \in Address
    BY <2>1, <1>7, Kinds DEF Walks, Address
  <2>3. P(m)
    <3>1. <<n, m>> \in OfEdges(g)
      BY <1>4, <2>2 DEF OfEdges
    <3>. QED
      BY <1>3, <2>2, <3>1
  <2>4. A(m).h \in Heaps(Ty, Nm) \cup {Failed}
    BY <1>4, <2>2, AddArrayOf, ResultType DEF A
  <2>5. A(n).h = A(m).h /\ A(n).rv = n
    <3>1. A(n) = Result(A(m).h, n)
      BY <1>5, <1>7, <2>0
    <3>. QED
      BY <3>1, ResultFields
  <2>. QED
    BY <1>3, <2>3, <2>5
<1>8. CASE /\ g[n].kind # "array" /\ ~(g[n].kind = "pointer" /\ g[n].depth > g[array].depth)
           /\ g[n].depth > g[array].depth
  <2> DEFINE g2 == c_ast_set_parent(g, m, array)
             g1 == IF c_ast_is_parent(g, n) THEN g2 ELSE g
             g3 == c_ast_set_parent(g1, array, n)
  <2>1. m \in Address
    BY <1>4, HeapFields
  <2>2. g2 \in Heaps(Ty, Nm) \cup {Failed}
    BY <1>4, <2>1, ResultType
  <2>3. g1 \in Heaps(Ty, Nm) \cup {Failed}
    BY <2>2
  <2>4. g3 \in Heaps(Ty, Nm) \cup {Failed}
    BY <1>4, <2>3, ResultType
  <2>5. A(n).h = g3 /\ A(n).rv = n
    <3>1. ArrayBelow(g, n, array) = g3
      BY DEF ArrayBelow
    <3> HIDE DEF g3
    <3>2. A(n) = Result(g3, n)
      BY <1>5, <1>8, <3>1
    <3>. QED
      BY <3>2, ResultFields
  <2> HIDE DEF g3
  <2>6. SUFFICES ASSUME g3 # Failed PROVE FALSE
    BY <1>3, <2>5
  <2> HIDE DEF g1
  <2>7. /\ g1 \in Heaps(Ty, Nm) /\ g1 # Failed /\ g1[n].kind \in ParentKind
        /\ g3 \in Heaps(Ty, Nm) /\ Linked(g1, g3, array, n)
    BY <1>4, <2>3, <2>6, SetParent DEF g3
  <2>8. c_ast_is_parent(g, n) /\ g1 = g2
    <3>1. CASE c_ast_is_parent(g, n)
      BY <3>1 DEF g1
    <3>2. CASE ~c_ast_is_parent(g, n)
      BY <3>2, <2>7, <1>4 DEF g1, c_ast_is_parent
    <3>. QED
      BY <3>1, <3>2
  <2>9. n \in D /\ m \in D \cup {t} /\ m \in Node /\ m # array
    BY <1>4, <1>8, <2>8 DEF c_ast_is_parent, Walks
  <2> HIDE DEF g2
  <2>10. Linked(g, g2, m, array)
    BY <1>4, <2>1, <2>7, <2>8, SetParent DEF g2
  <2>11. Linked(g2, g3, array, n)
    BY <2>7, <2>8
  <2>12. g[array].parent = NIL /\ (\A x \in D : g[x].of # array) /\ array # NIL
    BY <1>4 DEF Walks
  <2>13. SameData(g, g3)
    BY <2>10, <2>11 DEF Linked, SameData
  <2>14. /\ g3[array].of = m /\ g3[m].parent = array /\ g3[array].parent = n
         /\ \A x \in Node \ {array} :
              /\ g3[x].of = (IF x = n THEN array ELSE g[x].of)
              /\ g3[x].parent = (IF x = m THEN array ELSE g[x].parent)
    BY <1>4, <2>9, <2>10, <2>11 DEF Linked
  <2>15. ArrayPut(g, g3, D, array, m)
    BY <2>9, <2>12, <2>13, <2>14, <1>4 DEF ArrayPut
  <2>. QED
    BY <1>3, <2>5, <2>7, <2>9, <2>15
<1>9. CASE /\ g[n].kind # "array" /\ ~(g[n].kind = "pointer" /\ g[n].depth > g[array].depth)
           /\ ~(g[n].depth > g[array].depth)
  <2> DEFINE q == g[n].parent
             g2 == c_ast_set_parent(g, array, q)
             g1 == IF c_ast_is_parent(g, q) THEN g2 ELSE g
             g3 == c_ast_set_parent(g1, n, array)
  <2>1. q \in Address
    BY <1>4
  <2>2. g2 \in Heaps(Ty, Nm) \cup {Failed}
    BY <1>4, <2>1, ResultType
  <2>3. g1 \in Heaps(Ty, Nm) \cup {Failed}
    BY <2>2
  <2>4. g3 \in Heaps(Ty, Nm) \cup {Failed}
    BY <1>4, <2>3, ResultType
  <2>5. A(n).h = g3 /\ A(n).rv = array
    <3>1. ArrayAbove(g, n, array) = g3
      BY DEF ArrayAbove
    <3> HIDE DEF g3
    <3>2. A(n) = Result(g3, array)
      BY <1>5, <1>9, <3>1
    <3>. QED
      BY <3>2, ResultFields
  <2> HIDE DEF g3
  <2>6. SUFFICES ASSUME g3 # Failed PROVE FALSE
    BY <1>3, <2>5
  <2> HIDE DEF g1
  <2>7. /\ g1 \in Heaps(Ty, Nm) /\ g1 # Failed
        /\ g3 \in Heaps(Ty, Nm) /\ Linked(g1, g3, n, array)
    BY <1>4, <2>3, <2>6, SetParent DEF g3
  <2>12. g[array].parent = NIL /\ (\A x \in D : g[x].of # array) /\ array # NIL
    BY <1>4 DEF Walks
  <2> HIDE DEF g2
  <2>8. CASE c_ast_is_parent(g, q)
    <3>1. g1 = g2
      BY <2>8 DEF g1
    <3>2. Linked(g, g2, array, q) /\ q # array /\ q \in Node
      BY <1>4, <2>1, <2>7, <3>1, SetParent DEF g2
    <3>3. Linked(g2, g3, n, array)
      BY <2>7, <3>1
    <3>4. SameData(g, g3)
      BY <3>2, <3>3 DEF Linked, SameData
    <3>5. /\ g3[array].of = n /\ g3[n].parent = array /\ g3[array].parent = q
          /\ \A x \in Node \ {array} :
               /\ g3[x].of = (IF x = q THEN array ELSE g[x].of)
               /\ g3[x].parent = (IF x = n THEN array ELSE g[x].parent)
      BY <1>4, <3>2, <3>3 DEF Linked
    <3>6. q # NIL
      BY <3>2
    <3>7. ArrayPut(g, g3, D, array, n)
      BY <2>12, <3>4, <3>5, <3>6, <1>4 DEF ArrayPut
    <3>. QED
      BY <1>3, <1>4, <2>5, <2>7, <3>7
  <2>9. CASE ~c_ast_is_parent(g, q)
    <3>1. Linked(g, g3, n, array)
      BY <2>9, <2>7 DEF g1
    <3>2. /\ g3[array].of = n /\ g3[n].parent = array /\ g3[array].parent = NIL
          /\ \A x \in Node \ {array} :
               /\ g3[x].of = g[x].of
               /\ g3[x].parent = (IF x = n THEN array ELSE g[x].parent)
      BY <1>4, <2>12, <3>1 DEF Linked
    <3>3. ArrayPut(g, g3, D, array, n)
      BY <2>12, <3>1, <3>2, <1>4 DEF ArrayPut, Linked
    <3>. QED
      BY <1>3, <1>4, <2>5, <2>7, <3>3
  <2>. QED
    BY <2>8, <2>9
<1>. QED
  BY <1>6, <1>7, <1>8, <1>9

-----------------------------------------------------------------------------
(* Where a function goes.                                                  *)

\* g2 is g with func put above ret, and maybe below a node of D.
FuncPut(g, g2, D, ret, func) ==
  /\ SameData(g, g2)
  /\ g2[func].of = ret /\ g2[ret].parent = func
  /\ \A x \in Node \ {func} :
       /\ x # ret => g2[x].parent = g[x].parent
       /\ \/ g2[x].of = g[x].of
          \/ /\ x \in D /\ g[x].kind \in ParentKind
             /\ g2[x].of = func /\ g2[func].parent = x
  /\ \/ g2[func].parent = NIL
     \/ g2[func].parent \in D /\ g2[g2[func].parent].of = func

\* A walk from a node of D along of_ast stays in D until it reaches ret, and
\* goes from there through Q, each node of which is the child of the last.
WalksTo(g, D, Q, ret, func) ==
  /\ D \subseteq Node /\ Q \subseteq Node /\ ret \in Q /\ func \in Node \ (D \cup Q)
  /\ \A n \in D : g[n].kind \in ParentKind => g[n].of \in D \cup {ret}
  /\ \A n \in Q : g[n].kind \in ParentKind => g[n].of \in Q /\ g[g[n].of].parent = n
  /\ g[func].parent = NIL

\* c_ast_add_func_impl puts the function above the type it returns, or fails.
LEMMA AddFuncPut ==
  ASSUME NIL \notin Node, NEW Ty, NEW Nm, NEW g \in Heaps(Ty, Nm),
         WellFounded(Node, OfEdges(g)), NEW D, NEW Q, NEW ret, NEW func,
         WalksTo(g, D, Q, ret, func),
         NEW start \in D \cup {ret}, NEW r, r = c_ast_add_func_impl(g, start, ret, func),
         r.h # Failed
  PROVE  /\ r.h \in Heaps(Ty, Nm) /\ r.rv \in {start, func}
         /\ FuncPut(g, r.h, D, ret, func)
<1> DEFINE A(n) == c_ast_add_func_impl(g, n, ret, func)
           Under(n) == \A f : /\ \A m \in Node : f[m].parent \in Address
                              /\ \A m \in Node \ {func} : f[m].parent = g[m].parent
                              => c_ast_has_cycle(f, ret, n)
           P(n) == \/ A(n).h = Failed
                   \/ /\ A(n).h \in Heaps(Ty, Nm) /\ A(n).rv \in {n, func}
                      /\ FuncPut(g, A(n).h, D, ret, func)
           S == {n \in D \cup Q : (n \in D \/ Under(n)) /\ ~P(n)}
<1>0. ret \in Q /\ ret \in Node /\ func \in Node /\ ret # func /\ ret # NIL /\ func # NIL
      /\ ret \in Address /\ func \in Address /\ g \in Heaps(Ty, Nm) \cup {Failed}
      /\ D \subseteq Node /\ Q \subseteq Node /\ func \notin D /\ func \notin Q
  BY DEF WalksTo, Address
<1>1. Under(ret)
  BY <1>0, HasCycle
<1>2. SUFFICES ASSUME S # {} PROVE FALSE
  <2>1. ASSUME S = {} PROVE P(start)
    <3> HIDE DEF P, Under
    <3>. QED
      BY <1>0, <1>1, <2>1
  <2>. QED
    BY <2>1
<1>3. S \in SUBSET Node
  BY <1>0
<1>4. PICK n \in S : \A k \in S : <<n, k>> \notin OfEdges(g)
  BY <1>2, <1>3 DEF WellFounded
<1>5. /\ n \in D \cup Q /\ (n \in D \/ Under(n)) /\ ~P(n)
      /\ n \in Node /\ n # NIL /\ n \in Address
  BY <1>3, <1>4 DEF Address
<1> DEFINE m == g[n].of
           g2 == c_ast_set_parent(g, func, n)
           g3 == c_ast_set_parent(g2, ret, func)
           g4 == c_ast_set_parent(g, ret, func)
<1>6. A(n) = IF Derivation(g, n) /\ Derivation(g, m) THEN Result(A(m).h, n)
             ELSE IF Derivation(g, n) /\ g[m].kind = "placeholder" /\ ret # n
             THEN Result(g3, n) ELSE Result(g4, func)
  BY <1>0, <1>5, AddFuncOf
<1> HIDE DEF A, g3, g4
<1>7. CASE Derivation(g, n) /\ Derivation(g, m)
  <2>1. g[n].kind \in ParentKind
    BY <1>7 DEF Derivation
  <2>2. /\ m \in D \cup Q /\ (m \in D \/ Under(m))
        /\ m \in Node /\ m # NIL /\ m \in Address
    <3>1. CASE n \in D
      BY <1>0, <1>1, <2>1, <3>1 DEF WalksTo, Address
    <3>2. CASE n \notin D
      <4>1. n \in Q /\ Under(n)
        BY <1>5, <3>2
      <4>2. m \in Q /\ g[m].parent = n
        BY <2>1, <4>1 DEF WalksTo
      <4>3. m \in Node /\ m # func
        BY <1>0, <4>2
      <4>4. Under(m)
        BY <4>1, <4>2, <4>3, <1>5, HasCycle
      <4>. QED
        BY <4>2, <4>3, <4>4 DEF Address
    <3>. QED
      BY <3>1, <3>2
  <2>3. P(m)
    <3>1. <<n, m>> \in OfEdges(g)
      BY <1>5, <2>2 DEF OfEdges
    <3> HIDE DEF Under, P
    <3>2. m \notin S
      BY <1>4, <3>1
    <3>. QED
      BY <2>2, <3>2
  <2>4. A(n).h = A(m).h /\ A(n).rv = n
    <3>1. A(n) = Result(A(m).h, n)
      BY <1>6, <1>7
    <3>. QED
      BY <3>1, ResultFields
  <2> HIDE DEF Under
  <2>. QED
    BY <1>5, <2>3, <2>4
<1>8. CASE /\ ~(Derivation(g, n) /\ Derivation(g, m))
           /\ Derivation(g, n) /\ g[m].kind = "placeholder" /\ ret # n
  <2>1. A(n).h = g3 /\ A(n).rv = n
    BY <1>6, <1>8, ResultFields
  <2>2. SUFFICES ASSUME g3 # Failed PROVE FALSE
    BY <1>5, <2>1
  <2>3. g2 \in Heaps(Ty, Nm) \cup {Failed}
    BY <1>0, <1>5, ResultType
  <2> HIDE DEF g2
  <2>4. /\ g2 \in Heaps(Ty, Nm) /\ g2 # Failed /\ g3 \in Heaps(Ty, Nm)
        /\ Linked(g2, g3, ret, func) /\ ~c_ast_has_cycle(g2, ret, func)
    BY <1>0, <2>2, <2>3, SetParent DEF g3
  <2>5. Linked(g, g2, func, n) /\ n # func
    BY <1>0, <1>5, <2>4, SetParent DEF g2
  <2>6. n \in D
    <3>1. SUFFICES ASSUME Under(n) PROVE FALSE
      BY <1>5
    <3>2. \A k \in Node : g2[k].parent \in Address
      BY <2>4, HeapFields
    <3>3. \A k \in Node \ {func} : g2[k].parent = g[k].parent
      BY <2>5 DEF Linked
    <3>4. g2[func].parent = n
      BY <1>0, <2>5 DEF Linked
    <3>5. c_ast_has_cycle(g2, ret, n)
      BY <3>1, <3>2, <3>3
    <3>. QED
      BY <1>0, <1>5, <2>4, <3>2, <3>4, <3>5, HasCycle
  <2>7. SameData(g, g3)
    BY <2>4, <2>5 DEF Linked, SameData
  <2>8. /\ g3[func].of = ret /\ g3[ret].parent = func /\ g3[func].parent = n /\ g3[n].of = func
        /\ \A x \in Node \ {func} :
             /\ x # ret => g3[x].parent = g[x].parent
             /\ g3[x].of = (IF x = n THEN func ELSE g[x].of)
    BY <1>0, <1>5, <2>4, <2>5 DEF Linked
  <2>9. FuncPut(g, g3, D, ret, func)
    <3>1. g[n].kind \in ParentKind
      BY <1>8 DEF Derivation
    <3>. QED
      BY <2>6, <2>7, <2>8, <3>1 DEF FuncPut
  <2>. QED
    BY <1>5, <2>1, <2>4, <2>9
<1>9. CASE ~(Derivation(g, n) /\ Derivation(g, m))
           /\ ~(Derivation(g, n) /\ g[m].kind = "placeholder" /\ ret # n)
  <2>1. A(n).h = g4 /\ A(n).rv = func
    <3>1. A(n) = Result(g4, func)
      BY <1>6, <1>9
    <3>. QED
      BY <3>1, ResultFields
  <2>2. SUFFICES ASSUME g4 # Failed PROVE FALSE
    BY <1>5, <2>1
  <2>3. g4 \in Heaps(Ty, Nm) /\ Linked(g, g4, ret, func)
    BY <1>0, <2>2, SetParent DEF g4
  <2>4. FuncPut(g, g4, D, ret, func)
    BY <1>0, <2>3 DEF FuncPut, Linked, WalksTo
  <2>. QED
    BY <1>5, <2>1, <2>3, <2>4
<1>. QED
  BY <1>7, <1>8, <1>9

\* How c_ast_patch_placeholder can leave the AST of a declarator: the names have
\* moved, or the type is linked to the parent of a placeholder of S.
PatchOutcome(h, type, decl, S, r) ==
  /\ r.rv \in {type, decl}
  /\ \/ SameLinks(h, r.h)
     \/ /\ h[type].parent = NIL /\ ~(h[type].depth >= h[decl].depth)
        /\ \E place \in S :
             /\ h[place].kind = "placeholder" /\ h[place].parent \in Node
             /\ h[h[place].parent].kind \in ParentKind
             /\ Linked(h, r.h, type, h[place].parent)
        /\ r.rv = decl
  /\ NamesWithin(h, r.h, S \cup {type})

\* What c_ast_patch_placeholder does, when it does not fail.
LEMMA PatchCases ==
  ASSUME NIL \notin Node, NEW Ty, NEW Nm, NEW h \in Heaps(Ty, Nm), NIL \in Nm,
         WellFounded(Node, OfEdges(h)), NEW S \in SUBSET Node,
         \A m \in S : h[m].of \in S \cup {NIL}, NEW decl \in S, NEW type \in Node,
         NEW r, r = c_ast_patch_placeholder(h, type, decl), r.h # Failed
  PROVE  r.h \in Heaps(Ty, Nm) /\ PatchOutcome(h, type, decl, S, r)
<1> USE DEF PatchOutcome
<1> DEFINE place == c_ast_find_kind(h, decl, "placeholder")
           taken == c_ast_take_name(h, decl)
           named == [taken EXCEPT ![type].name = c_ast_name(h, decl)]
           g == c_ast_set_parent(h, c_ast_root(h, type), h[place].parent)
<1>1. decl # NIL /\ decl \in Node
  BY DEF Address
<1>2. SameLinks(h, h) /\ NamesWithin(h, h, S \cup {type})
  BY DEF SameLinks, NamesWithin
<1>3. CASE h[type].parent # NIL \/ place = NIL
  <2>1. r = Result(h, decl)
    BY <1>1, <1>3 DEF c_ast_patch_placeholder
  <2>. QED
    BY <1>2, <2>1, ResultFields
<1>4. CASE /\ ~(h[type].parent # NIL \/ place = NIL) /\ h[type].depth >= h[decl].depth
           /\ h[type].name = NIL
  <2>1. r = Result(named, type)
    BY <1>1, <1>4 DEF c_ast_patch_placeholder
  <2>2. /\ c_ast_name(h, decl) = NIL \/ \E m \in Node : c_ast_name(h, decl) = h[m].name
        /\ taken \in Heaps(Ty, Nm)
        /\ SameLinks(h, taken)
    BY <1>1, NameFoundOf
  <2>8. /\ c_ast_name(h, decl) = NIL \/ \E m \in S : c_ast_name(h, decl) = h[m].name
        /\ NamesWithin(h, taken, S)
    BY NameFoundIn
  <2> HIDE DEF taken
  <2>3. c_ast_name(h, decl) \in Nm
    BY <2>2, HeapFields
  <2>4. named \in Heaps(Ty, Nm)
    BY <2>2, <2>3 DEF Heaps, Cells
  <2>5. SameLinks(taken, named)
    BY <2>2 DEF SameLinks, Heaps, Cells
  <2>6. \A n \in Node : named[n].name = IF n = type THEN c_ast_name(h, decl) ELSE taken[n].name
    BY <2>2 DEF Heaps, Cells
  <2> HIDE DEF named
  <2>7. SameLinks(h, named)
    BY <2>2, <2>5 DEF SameLinks
  <2>9. NamesWithin(h, named, S \cup {type})
    BY <2>6, <2>8 DEF NamesWithin
  <2>. QED
    BY <2>1, <2>4, <2>7, <2>9, ResultFields
<1>5. CASE /\ ~(h[type].parent # NIL \/ place = NIL) /\ h[type].depth >= h[decl].depth
           /\ h[type].name # NIL
  <2>1. r = Result(h, type)
    BY <1>1, <1>5 DEF c_ast_patch_placeholder
  <2>. QED
    BY <1>2, <2>1, ResultFields
<1>6. CASE ~(h[type].parent # NIL \/ place = NIL) /\ ~(h[type].depth >= h[decl].depth)
  <2>1. r = Result(g, decl)
    BY <1>1, <1>6 DEF c_ast_patch_placeholder
  <2>2. place \in S /\ h[place].kind = "placeholder"
    BY <1>6, FindKind
  <2>3. \A m \in Node : h[m].parent \in Address
    BY HeapFields
  <2>4. c_ast_root(h, type) = type
    BY <1>6, <2>3, Root
  <2>5. r.h = g /\ r.rv = decl /\ g # Failed
    BY <2>1, ResultFields
  <2> HIDE DEF place
  <2>6. h[place].parent \in Address /\ type \in Address
    BY <2>2, <2>3 DEF Address
  <2>7. /\ h[place].parent \in Node /\ h[h[place].parent].kind \in ParentKind
        /\ g \in Heaps(Ty, Nm) /\ Linked(h, g, type, h[place].parent)
    BY <2>4, <2>5, <2>6, SetParent
  <2>8. NamesWithin(h, g, S \cup {type})
    BY <2>7 DEF Linked, SameData, NamesWithin
  <2>. QED
    BY <1>6, <2>2, <2>5, <2>7, <2>8
<1>. QED
  BY <1>3, <1>4, <1>5, <1>6

-----------------------------------------------------------------------------
(* What is freed.                                                          *)

\* What is in a concatenation is in one of its parts.
LEMMA ToSetConcat ==
  ASSUME NEW A, NEW a \in Seq(A), NEW b \in Seq(A)
  PROVE  ToSet(a \o b) = ToSet(a) \cup ToSet(b)
<1>1. /\ DOMAIN a = 1..Len(a) /\ DOMAIN b = 1..Len(b) /\ Len(a) \in Nat /\ Len(b) \in Nat
      /\ DOMAIN (a \o b) = 1..Len(a) + Len(b)
      /\ \A k \in 1..Len(a) : (a \o b)[k] = a[k]
      /\ \A k \in 1..Len(b) : (a \o b)[Len(a) + k] = b[k]
  OBVIOUS
<1>2. \A x \in ToSet(a \o b) : x \in ToSet(a) \cup ToSet(b)
  <2>1. ASSUME NEW k \in 1..Len(a) + Len(b) PROVE (a \o b)[k] \in ToSet(a) \cup ToSet(b)
    <3>1. CASE k \in 1..Len(a)
      BY <1>1, <3>1 DEF ToSet
    <3>2. CASE k \notin 1..Len(a)
      <4>1. k - Len(a) \in 1..Len(b) /\ k = Len(a) + (k - Len(a))
        BY <1>1, <3>2
      <4>2. (a \o b)[k] = b[k - Len(a)]
        BY <1>1, <4>1
      <4>. QED
        BY <1>1, <4>1, <4>2 DEF ToSet
    <3>. QED
      BY <3>1, <3>2
  <2>. QED
    BY <1>1, <2>1 DEF ToSet
<1>3. \A k \in 1..Len(a) : k \in 1..Len(a) + Len(b)
  BY <1>1
<1>4. \A k \in 1..Len(b) : Len(a) + k \in 1..Len(a) + Len(b)
  BY <1>1
<1>5. ToSet(a) \subseteq ToSet(a \o b) /\ ToSet(b) \subseteq ToSet(a \o b)
  BY <1>1, <1>3, <1>4 DEF ToSet
<1>6. ToSet(a \o b) = ToSet(a) \cup ToSet(b)
  BY <1>2, <1>5
<1>. QED
  BY <1>6

\* What is in a flattened sequence is in one of its elements.
LEMMA FlattenOf ==
  ASSUME NEW A, NEW s \in Seq(Seq(A))
  PROVE  /\ FlattenSeq(s) \in Seq(A)
         /\ ToSet(FlattenSeq(s)) = UNION {ToSet(s[i]) : i \in DOMAIN s}
<1> DEFINE D == 1..Len(s)
           E == {e \in D \X D : e[2] = e[1] - 1}
           V == Seq(A)
           Body(f, i) == IF i = 1 THEN s[i] ELSE f[i - 1] \o s[i]
           F == [i \in D |-> [f \in [D -> V] |-> Body(f, i)]]
           Solves(f) == f = [i \in D |-> Body(f, i)]
           flatten == CHOOSE f : Solves(f)
<1>1. Len(s) \in Nat /\ DOMAIN s = D /\ \A i \in D : s[i] \in Seq(A)
  OBVIOUS
<1>2. CASE Len(s) = 0
  <2>1. s = <<>> /\ FlattenSeq(s) = <<>>
    BY <1>2 DEF FlattenSeq
  <2>2. DOMAIN s = {} /\ ToSet(<<>>) = {} /\ <<>> \in Seq(A)
    BY <2>1 DEF ToSet
  <2>3. UNION {ToSet(s[i]) : i \in DOMAIN s} = {}
    BY <2>2
  <2>. QED
    BY <2>1, <2>2, <2>3
<1>3. CASE Len(s) # 0
  <2>1. WellFounded(D, E)
    <3>1. SUFFICES ASSUME NEW S \in SUBSET D, S # {}
                   PROVE  \E m \in S : \A n \in S : <<m, n>> \notin E
      BY DEF WellFounded
    <3>2. S \in SUBSET Nat
      BY <1>1
    <3>3. PICK m \in S : \A n \in S : m <= n
      BY <3>1, <3>2, LeastNumber
    <3>4. \A n \in S : n # m - 1
      BY <3>2, <3>3
    <3>. QED
      BY <3>3, <3>4
  <2>2. \A i \in D : i # 1 => i - 1 \in D /\ <<i, i - 1>> \in E
    BY <1>1
  <2>3. ASSUME NEW i \in D, NEW f, i # 1 => f[i - 1] \in V PROVE Body(f, i) \in V
    BY <1>1, <2>3
  <2>4. F \in [D -> [[D -> V] -> V]]
    <3>1. \A i \in D : \A f \in [D -> V] : Body(f, i) \in V
      <4> HIDE DEF Body, V
      <4>. QED
        BY <2>2, <2>3
    <3> HIDE DEF Body, V
    <3>. QED
      BY <3>1
  <2>5. Local(D, E, V, F)
    <3>1. SUFFICES ASSUME NEW i \in D, NEW f \in [D -> V], NEW g \in [D -> V],
                          \A e \in D : <<i, e>> \in E => f[e] = g[e]
                   PROVE  F[i][f] = F[i][g]
      BY DEF Local
    <3>2. i # 1 => f[i - 1] = g[i - 1]
      BY <2>2, <3>1
    <3>3. Body(f, i) = Body(g, i)
      BY <3>2
    <3> HIDE DEF Body, V
    <3>. QED
      BY <3>3
  <2>6. \E g \in [D -> V] : Solves(g)
    <3>1. Recursive(D, E, V, F)
      <4>1. <<>> \in V
        OBVIOUS
      <4>. QED
        BY <2>1, <2>4, <2>5, <4>1 DEF Recursive
    <3>2. PICK g \in [D -> V] : \A i \in D : g[i] = F[i][g]
      <4>1. HasFixpoint(D, V, F)
        <5> HIDE DEF D, F, V, E
        <5>. QED
          BY <3>1, Fixpoint
      <4>. QED
        BY <4>1 DEF HasFixpoint
    <3> HIDE DEF Body, V
    <3>3. g = [i \in D |-> g[i]]
      BY <3>2
    <3>4. \A i \in D : g[i] = Body(g, i)
      BY <3>2
    <3>5. Solves(g)
      BY <3>3, <3>4
    <3>. QED
      BY <3>5
  <2>7. Solves(flatten)
    <3> HIDE DEF Solves
    <3>. QED
      BY <2>6
  <2>8. FlattenSeq(s) = flatten[Len(s)]
    BY <1>3 DEF FlattenSeq
  <2>9. \A i \in D : flatten[i] = Body(flatten, i)
    <3> HIDE DEF flatten, Body
    <3>. QED
      BY <2>7
  <2> HIDE DEF flatten
  <2> DEFINE Upto(i) == UNION {ToSet(s[j]) : j \in 1..i}
             Right(i) == flatten[i] \in Seq(A) /\ ToSet(flatten[i]) = Upto(i)
  <2>10. \A i \in D : Right(i)
    <3> DEFINE S == {i \in D : ~Right(i)}
    <3>1. SUFFICES ASSUME S # {} PROVE FALSE
      OBVIOUS
    <3>2. PICK i \in S : \A n \in S : <<i, n>> \notin E
      BY <2>1, <3>1 DEF WellFounded
    <3>3. CASE i = 1
      <4>1. flatten[i] = s[1] /\ s[1] \in Seq(A)
        BY <1>1, <2>9, <3>2, <3>3
      <4>2. Upto(i) = ToSet(s[1])
        BY <3>3
      <4>. QED
        BY <3>2, <4>1, <4>2
    <3>4. CASE i # 1
      <4>1. Right(i - 1) /\ i \in D /\ i - 1 \in D
        BY <2>2, <3>2, <3>4
      <4>2. flatten[i] = flatten[i - 1] \o s[i] /\ flatten[i - 1] \in Seq(A) /\ s[i] \in Seq(A)
        BY <1>1, <2>9, <3>4, <4>1
      <4>3. ToSet(flatten[i]) = ToSet(flatten[i - 1]) \cup ToSet(s[i])
        <5>. QED
          BY <4>2, ToSetConcat
      <4>4. Upto(i) = Upto(i - 1) \cup ToSet(s[i])
        <5>1. i \in Nat /\ i # 0 /\ 1..i = (1..i - 1) \cup {i}
          BY <4>1
        <5>. QED
          BY <5>1
      <4>5. flatten[i] \in Seq(A)
        BY <4>2
      <4>. QED
        BY <3>2, <4>1, <4>3, <4>4, <4>5
    <3>. QED
      BY <3>3, <3>4
  <2>11. Len(s) \in D
    BY <1>1, <1>3
  <2>12. Right(Len(s))
    BY <2>10, <2>11
  <2>. QED
    BY <1>1, <2>8, <2>12
<1>. QED
  BY <1>2, <1>3

\* The links c_ast_free_impl may follow.
TreeEdges(h) == {e \in Node \X Node : e[2] = h[e[1]].of \/ e[2] \in ToSet(h[e[1]].args)}

\* What is freed from m on, as a recursion.
FreeBody(h, R, f, m, r) ==
  IF m = NIL THEN <<>>
  ELSE <<m>>
       \o (IF r THEN FlattenSeq([i \in DOMAIN h[m].args |->
                       f[h[m].args[i]][h[m].args[i] \in R]])
           ELSE <<>>)
       \o (IF r /\ c_ast_is_parent(h, m) THEN f[h[m].of][TRUE] ELSE <<>>)

\* free is what c_ast_free_impl frees.
Frees(h, R, free) ==
  /\ free \in [Address -> [BOOLEAN -> Seq(Node)]]
  /\ \A m \in Address, r \in BOOLEAN : free[m][r] = FreeBody(h, R, free, m, r)
  /\ \A n \in Address : c_ast_free(h, R, n) = free[n][(n \in R)]

\* The recursion of c_ast_free.
LEMMA FreeOf ==
  ASSUME NIL \notin Node, NEW Ty, NEW Nm, NEW h \in Heaps(Ty, Nm),
         WellFounded(Node, TreeEdges(h)), NEW R
  PROVE  \E free : Frees(h, R, free)
<1> DEFINE E == TreeEdges(h) \cup (Node \X {NIL})
           V == [BOOLEAN -> Seq(Node)]
           Body(f, m) == [r \in BOOLEAN |-> FreeBody(h, R, f, m, r)]
           F == [m \in Address |-> [f \in [Address -> V] |-> Body(f, m)]]
           Solves(f) == f = [m \in Address |-> Body(f, m)]
           free == CHOOSE f : Solves(f)
<1>1. WellFounded(Address, E)
  BY AddNil DEF TreeEdges
<1>2. \A m \in Node : /\ h[m].of \in Address /\ h[m].args \in Seq(Node)
                      /\ m \in Address /\ m # NIL
  BY HeapFields DEF Address
<1>3. \A m \in Address : m # NIL =>
        /\ m \in Node
        /\ h[m].of \in Address /\ <<m, h[m].of>> \in E
        /\ \A i \in DOMAIN h[m].args :
             h[m].args[i] \in Address /\ <<m, h[m].args[i]>> \in E
  <2>1. SUFFICES ASSUME NEW m \in Node
                 PROVE  /\ h[m].of \in Address /\ <<m, h[m].of>> \in E
                        /\ \A i \in DOMAIN h[m].args :
                             h[m].args[i] \in Address /\ <<m, h[m].args[i]>> \in E
    BY DEF Address
  <2>2. <<m, h[m].of>> \in E
    BY <1>2 DEF Address, TreeEdges
  <2>3. ASSUME NEW i \in DOMAIN h[m].args
        PROVE  h[m].args[i] \in Node /\ <<m, h[m].args[i]>> \in TreeEdges(h)
    BY <1>2 DEF TreeEdges, ToSet
  <2>. QED
    BY <1>2, <2>2, <2>3 DEF Address
<1>4. ASSUME NEW m \in Address, NEW f,
             m # NIL => /\ f[h[m].of] \in V
                        /\ \A i \in DOMAIN h[m].args : f[h[m].args[i]] \in V
      PROVE  Body(f, m) \in V
  <2>1. ASSUME NEW r \in BOOLEAN, m = NIL PROVE FreeBody(h, R, f, m, r) \in Seq(Node)
    BY <2>1 DEF FreeBody
  <2>2. ASSUME NEW r \in BOOLEAN, m # NIL PROVE FreeBody(h, R, f, m, r) \in Seq(Node)
    <3>1. m \in Node /\ h[m].args \in Seq(Node) /\ <<m>> \in Seq(Node) /\ <<>> \in Seq(Node)
      BY <1>2, <2>2 DEF Address
    <3>2. PICK s : s = [i \in DOMAIN h[m].args |-> f[h[m].args[i]][h[m].args[i] \in R]]
      OBVIOUS
    <3>3. s \in Seq(Seq(Node))
      <4>1. DOMAIN h[m].args = 1..Len(h[m].args) /\ Len(h[m].args) \in Nat
        BY <3>1
      <4>2. \A i \in 1..Len(h[m].args) : f[h[m].args[i]] \in V
        BY <1>4, <2>2, <4>1
      <4>3. \A i \in 1..Len(h[m].args) : f[h[m].args[i]][h[m].args[i] \in R] \in Seq(Node)
        <5>1. \A i : (h[m].args[i] \in R) \in BOOLEAN
          OBVIOUS
        <5>. QED
          BY <4>2, <5>1
      <4>4. s = [i \in 1..Len(h[m].args) |-> f[h[m].args[i]][h[m].args[i] \in R]]
        BY <3>2, <4>1
      <4>5. PICK W : W = Seq(Node)
        OBVIOUS
      <4>6. s \in Seq(W)
        BY <4>1, <4>3, <4>4, <4>5
      <4>. QED
        BY <4>5, <4>6
    <3>4. FlattenSeq(s) \in Seq(Node)
      BY <3>3, FlattenOf
    <3>5. f[h[m].of][TRUE] \in Seq(Node)
      BY <1>4, <2>2
    <3>6. \A x, y, z \in Seq(Node) : x \o y \o z \in Seq(Node)
      OBVIOUS
    <3>. QED
      BY <2>2, <3>1, <3>2, <3>4, <3>5, <3>6 DEF FreeBody
  <2>. QED
    BY <2>1, <2>2
<1>5. F \in [Address -> [[Address -> V] -> V]]
  <2>1. \A m \in Address : \A f \in [Address -> V] : Body(f, m) \in V
    <3> HIDE DEF Body, V, E
    <3>. QED
      BY <1>3, <1>4
  <2> HIDE DEF Body, V
  <2>. QED
    BY <2>1
<1>6. Local(Address, E, V, F)
  <2>1. SUFFICES ASSUME NEW m \in Address, NEW f \in [Address -> V], NEW g \in [Address -> V],
                        \A e \in Address : <<m, e>> \in E => f[e] = g[e]
                 PROVE  F[m][f] = F[m][g]
    BY DEF Local
  <2>2. m # NIL => /\ f[h[m].of] = g[h[m].of]
                   /\ \A i \in DOMAIN h[m].args : f[h[m].args[i]] = g[h[m].args[i]]
    <3> HIDE DEF E
    <3>. QED
      BY <1>3, <2>1
  <2>3. \A r \in BOOLEAN : FreeBody(h, R, f, m, r) = FreeBody(h, R, g, m, r)
    <3>1. m # NIL =>
            [i \in DOMAIN h[m].args |-> f[h[m].args[i]][h[m].args[i] \in R]]
              = [i \in DOMAIN h[m].args |-> g[h[m].args[i]][h[m].args[i] \in R]]
      BY <2>2
    <3>. QED
      BY <2>2, <3>1 DEF FreeBody
  <2>4. Body(f, m) = Body(g, m)
    BY <2>3
  <2> HIDE DEF Body, V
  <2>. QED
    BY <2>1, <2>4
<1>7. \E g \in [Address -> V] : Solves(g)
  <2>1. Recursive(Address, E, V, F)
    <3>1. V # {}
      <4>1. <<>> \in Seq(Node)
        OBVIOUS
      <4>2. [r \in BOOLEAN |-> <<>>] \in V
        BY <4>1
      <4>. QED
        BY <4>2
    <3>. QED
      BY <1>1, <1>5, <1>6, <3>1 DEF Recursive
  <2>2. PICK g \in [Address -> V] : \A m \in Address : g[m] = F[m][g]
    <3>1. HasFixpoint(Address, V, F)
      <4> HIDE DEF F, V, E
      <4>. QED
        BY <2>1, Fixpoint
    <3>. QED
      BY <3>1 DEF HasFixpoint
  <2> HIDE DEF Body, V
  <2>3. g = [m \in Address |-> g[m]]
    BY <2>2
  <2>4. \A m \in Address : g[m] = Body(g, m)
    BY <2>2
  <2>5. Solves(g)
    BY <2>3, <2>4
  <2>. QED
    BY <2>5
<1>8. Solves(free)
  <2> HIDE DEF Solves
  <2>. QED
    BY <1>7
<1>9. \A n \in Address : c_ast_free(h, R, n) = free[n][(n \in R)]
  BY DEF c_ast_free, FreeBody
<1>10. DOMAIN free = Address /\ \A m \in Address : free[m] = Body(free, m)
  <2> HIDE DEF free, Body
  <2>. QED
    BY <1>8
<1>11. free = [m \in Address |-> free[m]]
  <2> HIDE DEF free, Body
  <2>. QED
    BY <1>8
<1> HIDE DEF free
<1>12. \A m \in Address : free[m] \in V
  <2> DEFINE S == {m \in Address : free[m] \notin V}
  <2>1. SUFFICES ASSUME S # {} PROVE FALSE
    OBVIOUS
  <2>2. PICK m \in S : \A e \in S : <<m, e>> \notin E
    BY <1>1, <2>1 DEF WellFounded
  <2>3. m # NIL => /\ free[h[m].of] \in V
                   /\ \A i \in DOMAIN h[m].args : free[h[m].args[i]] \in V
    <3> HIDE DEF E, V
    <3>. QED
      BY <1>3, <2>2
  <2> HIDE DEF Body, V
  <2>4. Body(free, m) \in V
    BY <1>4, <2>3
  <2>. QED
    BY <1>10, <2>2, <2>4
<1>13. free \in [Address -> V]
  <2> HIDE DEF V
  <2>. QED
    BY <1>11, <1>12
<1>14. Frees(h, R, free)
  BY <1>9, <1>10, <1>13 DEF Frees
<1>. QED
  BY <1>14

\* A node that is not to be freed recursively, or that has nothing below it.
LEMMA FreeOne ==
  ASSUME NIL \notin Node, NEW Ty, NEW Nm, NEW h \in Heaps(Ty, Nm),
         WellFounded(Node, TreeEdges(h)), NEW R, NEW n \in Node,
         n \notin R \/ (h[n].args = <<>> /\ ~c_ast_is_parent(h, n))
  PROVE  c_ast_free(h, R, n) = <<n>>
<1>1. PICK free : Frees(h, R, free)
  BY FreeOf
<1>2. n \in Address /\ n # NIL /\ (n \in R) \in BOOLEAN /\ <<n>> \in Seq(Node)
  BY DEF Address
<1>3. c_ast_free(h, R, n) = FreeBody(h, R, free, n, (n \in R))
  BY <1>1, <1>2 DEF Frees
<1>4. <<n>> \o <<>> \o <<>> = <<n>>
  BY <1>2
<1>5. h[n].args = <<>> =>
        FlattenSeq([i \in DOMAIN h[n].args |-> free[h[n].args[i]][h[n].args[i] \in R]]) = <<>>
  <2>1. SUFFICES ASSUME h[n].args = <<>>
                 PROVE  FlattenSeq([i \in DOMAIN h[n].args |->
                                      free[h[n].args[i]][h[n].args[i] \in R]]) = <<>>
    OBVIOUS
  <2>2. PICK s : s = [i \in DOMAIN h[n].args |-> free[h[n].args[i]][h[n].args[i] \in R]]
    OBVIOUS
  <2>3. s = <<>>
    BY <2>1, <2>2
  <2>4. FlattenSeq(s) = <<>>
    BY <2>3 DEF FlattenSeq
  <2>. QED
    BY <2>2, <2>4
<1>. QED
  BY <1>2, <1>3, <1>4, <1>5 DEF FreeBody

\* The nodes of the AST of n, arguments included.
Tree(h, n) == ToSet(c_ast_free(h, Node, n))

\* Tree(h, n) is n, the trees of its arguments and that of what it is of.
LEMMA TreeOf ==
  ASSUME NIL \notin Node, NEW Ty, NEW Nm, NEW h \in Heaps(Ty, Nm),
         WellFounded(Node, TreeEdges(h)), NEW n \in Node
  PROVE  /\ Tree(h, n) \subseteq Node /\ n \in Tree(h, n)
         /\ \A m \in Tree(h, n) :
              \/ m = n
              \/ \E a \in ToSet(h[n].args) : a \in Node /\ m \in Tree(h, a)
              \/ h[n].of # NIL /\ h[n].of \in Node /\ m \in Tree(h, h[n].of)
         /\ \A a \in ToSet(h[n].args) : Tree(h, a) \subseteq Tree(h, n)
         /\ c_ast_is_parent(h, n) /\ h[n].of # NIL => Tree(h, h[n].of) \subseteq Tree(h, n)
<1>1. PICK free : Frees(h, Node, free)
  BY FreeOf
<1>2. /\ n \in Address /\ n # NIL /\ (n \in Node) = TRUE /\ <<n>> \in Seq(Node)
      /\ h[n].of \in Address /\ h[n].args \in Seq(Node) /\ <<>> \in Seq(Node)
  BY HeapFields DEF Address
<1>3. c_ast_free(h, Node, n) = FreeBody(h, Node, free, n, TRUE)
  BY <1>1, <1>2 DEF Frees
<1>4. PICK s : s = [i \in DOMAIN h[n].args |-> free[h[n].args[i]][h[n].args[i] \in Node]]
  OBVIOUS
<1>5. \A i \in DOMAIN h[n].args : h[n].args[i] \in Node
  BY <1>2
<1>6. \A a \in Node : free[a][TRUE] = c_ast_free(h, Node, a) /\ free[a][TRUE] \in Seq(Node)
  <2>1. ASSUME NEW a \in Node
        PROVE  free[a][TRUE] = c_ast_free(h, Node, a) /\ free[a][TRUE] \in Seq(Node)
    <3>1. a \in Address /\ (a \in Node) = TRUE
      BY DEF Address
    <3>. QED
      BY <1>1, <3>1 DEF Frees
  <2>. QED
    BY <2>1
<1>7. /\ DOMAIN s = DOMAIN h[n].args
      /\ \A i \in DOMAIN s : s[i] = c_ast_free(h, Node, h[n].args[i]) /\ s[i] \in Seq(Node)
  <2>1. ASSUME NEW i \in DOMAIN h[n].args
        PROVE  s[i] = c_ast_free(h, Node, h[n].args[i]) /\ s[i] \in Seq(Node)
    <3>1. (h[n].args[i] \in Node) = TRUE
      BY <1>5
    <3>2. s[i] = free[h[n].args[i]][TRUE]
      BY <1>4, <3>1
    <3>. QED
      BY <1>5, <1>6, <3>2
  <2>. QED
    BY <1>4, <2>1
<1>8. s \in Seq(Seq(Node))
  <2>1. DOMAIN s = 1..Len(h[n].args) /\ Len(h[n].args) \in Nat
    BY <1>2, <1>7
  <2>2. s = [i \in 1..Len(h[n].args) |-> s[i]]
    BY <1>4, <2>1
  <2>3. PICK W : W = Seq(Node)
    OBVIOUS
  <2>4. s \in Seq(W)
    BY <1>7, <2>1, <2>2, <2>3
  <2>. QED
    BY <2>3, <2>4
<1>9. PICK t : t = (IF c_ast_is_parent(h, n) THEN free[h[n].of][TRUE] ELSE <<>>)
  OBVIOUS
<1>10. t \in Seq(Node) /\ (t # <<>> /\ h[n].of = NIL => FALSE)
       /\ (h[n].of # NIL /\ t # <<>> => t = c_ast_free(h, Node, h[n].of))
       /\ (c_ast_is_parent(h, n) /\ h[n].of # NIL => t = c_ast_free(h, Node, h[n].of))
  <2>1. CASE h[n].of = NIL
    <3>1. free[NIL][TRUE] = <<>>
      BY <1>1 DEF Frees, FreeBody, Address
    <3>. QED
      BY <1>2, <1>9, <2>1, <3>1
  <2>2. CASE h[n].of # NIL
    <3>1. h[n].of \in Node
      BY <1>2, <2>2 DEF Address
    <3>. QED
      BY <1>2, <1>6, <1>9, <2>2, <3>1
  <2>. QED
    BY <2>1, <2>2
<1>11. c_ast_free(h, Node, n) = <<n>> \o FlattenSeq(s) \o t
  BY <1>2, <1>3, <1>4, <1>9 DEF FreeBody
<1>12. FlattenSeq(s) \in Seq(Node) /\ ToSet(FlattenSeq(s)) = UNION {ToSet(s[i]) : i \in DOMAIN s}
  BY <1>8, FlattenOf
<1>13. Tree(h, n) = {n} \cup ToSet(FlattenSeq(s)) \cup ToSet(t)
  <2>1. PICK b : b = FlattenSeq(s)
    OBVIOUS
  <2>2. b \in Seq(Node)
    BY <1>12, <2>1
  <2>3. PICK u : u = <<n>>
    OBVIOUS
  <2>4. u \in Seq(Node) /\ u \o b \in Seq(Node)
    BY <1>2, <2>2, <2>3
  <2>5. ToSet(u \o b) = ToSet(u) \cup ToSet(b)
    BY <2>2, <2>4, ToSetConcat
  <2>6. ToSet(u \o b \o t) = ToSet(u \o b) \cup ToSet(t)
    <3>1. PICK c : c = u \o b
      OBVIOUS
    <3>2. c \in Seq(Node) /\ t \in Seq(Node)
      BY <1>10, <2>4, <3>1
    <3>3. ToSet(c \o t) = ToSet(c) \cup ToSet(t)
      BY <3>2, ToSetConcat
    <3>. QED
      BY <3>1, <3>3
  <2>7. ToSet(u) = {n}
    BY <2>3 DEF ToSet
  <2>. QED
    BY <1>11, <2>1, <2>3, <2>5, <2>6, <2>7 DEF Tree
<1>14. \A i \in DOMAIN s : ToSet(s[i]) = Tree(h, h[n].args[i])
  BY <1>7 DEF Tree
<1>15. \A a \in ToSet(h[n].args) : \E i \in DOMAIN s : a = h[n].args[i]
  BY <1>7 DEF ToSet
<1>16. \A i \in DOMAIN s : h[n].args[i] \in ToSet(h[n].args) /\ h[n].args[i] \in Node
  BY <1>5, <1>7 DEF ToSet
<1>17. \A m \in ToSet(t) : t # <<>>
  BY DEF ToSet
<1>18. Tree(h, n) \subseteq Node
  <2>1. \A x \in Seq(Node) : ToSet(x) \subseteq Node
    BY DEF ToSet
  <2>. QED
    BY <1>10, <1>12, <1>13, <2>1
<1>19. ASSUME NEW m \in Tree(h, n), m # n
       PROVE  \/ \E a \in ToSet(h[n].args) : a \in Node /\ m \in Tree(h, a)
              \/ h[n].of # NIL /\ h[n].of \in Node /\ m \in Tree(h, h[n].of)
  <2>1. CASE m \in ToSet(t)
    BY <1>2, <1>10, <1>17, <2>1 DEF Tree, Address
  <2>2. CASE m \in ToSet(FlattenSeq(s))
    BY <1>12, <1>14, <1>16, <2>2
  <2>. QED
    BY <1>13, <1>19, <2>1, <2>2
<1>20. \A a \in ToSet(h[n].args) : Tree(h, a) \subseteq Tree(h, n)
  BY <1>12, <1>13, <1>14, <1>15
<1>21. c_ast_is_parent(h, n) /\ h[n].of # NIL => Tree(h, h[n].of) \subseteq Tree(h, n)
  BY <1>10, <1>13 DEF Tree
<1>. QED
  BY <1>13, <1>18, <1>19, <1>20, <1>21
=============================================================================
