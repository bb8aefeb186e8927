-------------------------------- MODULE CAst --------------------------------
(***************************************************************************)
(* The nodes of the abstract syntax tree (c_ast.h) and the functions of    *)
(* c_ast.c and c_ast_util.c on them, as operators on the contents h of the *)
(* heap: h[n] is the struct at address n.                                  *)
(*                                                                         *)
(* Of a node's type bits only the name of a built-in type is kept; source  *)
(* locations, array sizes, storage classes and qualifiers are left out.    *)
(* Pointers to member and blocks are left out.                             *)
(***************************************************************************)
EXTENDS Integers, Sequences, FiniteSets, SequencesExt

CONSTANTS Node, \* the cells malloc may return for a c_ast_t
          NIL   \* the null pointer

\* A K_ARRAY, K_FUNCTION, K_POINTER, ...: c_kind_is_parent.
References == {"reference", "rvalue reference"}
Pointing   == {"pointer"} \cup References
ParentKind == {"array", "function"} \cup Pointing
Kind == ParentKind \cup {"placeholder", "builtin", "typedef"}

\* def is as.c_typedef, named by its type name; args lists as.func.args.
NoAst == [kind |-> "none", type |-> NIL, name |-> NIL, def |-> NIL,
          depth |-> 0, parent |-> NIL, of |-> NIL, args |-> <<>>]

NewAst(kind, depth) == [NoAst EXCEPT !.kind = kind, !.depth = depth]

\* The values of a c_ast_t*.
Address == Node \cup {NIL}

c_ast_is_parent(h, n) == n # NIL /\ h[n].kind \in ParentKind

\* The heap after an assertion failed; nothing is read from it again.
Failed == <<>>

\* c_ast_has_cycle(child) once child has this parent: child is among the
\* ancestors of parent already.
c_ast_has_cycle(h, child, parent) ==
  LET up[m \in Node] ==
        m = child \/ (h[m].parent # NIL /\ up[h[m].parent])
  IN  up[parent]

\* Each of its assertions may fail: parent is NULL or of a kind that has no
\* child, or the link closes a cycle.
c_ast_set_parent(h, child, parent) ==
  IF \/ h = Failed
     \/ ~c_ast_is_parent(h, parent)
     \/ c_ast_has_cycle(h, child, parent)
  THEN Failed
  ELSE [h EXCEPT ![child].parent = parent, ![parent].of = child]

-----------------------------------------------------------------------------
(* Walks.                                                                  *)

\* The nodes c_ast_visit_down visits from n.
Down(h, n) ==
  LET down[m \in Address] ==
        IF m = NIL THEN <<>>
        ELSE <<m>> \o (IF c_ast_is_parent(h, m) THEN down[h[m].of] ELSE <<>>)
  IN  down[n]

\* The last node c_ast_visit_up visits from n.
c_ast_root(h, n) ==
  LET up[m \in Node] == IF h[m].parent = NIL THEN m ELSE up[h[m].parent]
  IN  up[n]

\* The first node of a walk that is one of S, or NIL.
Found(walk, S) ==
  LET hits == {i \in DOMAIN walk : walk[i] \in S}
  IN  IF hits = {} THEN NIL ELSE walk[Min(hits)]

c_ast_find_kind(h, n, kind) == Found(Down(h, n), {m \in Node : h[m].kind = kind})

c_ast_find_name(h, n) == Found(Down(h, n), {m \in Node : h[m].name # NIL})

c_ast_name(h, n) ==
  LET m == c_ast_find_name(h, n) IN IF m = NIL THEN NIL ELSE h[m].name

\* The heap that c_ast_take_name leaves; the name it returns is c_ast_name.
c_ast_take_name(h, n) ==
  LET m == c_ast_find_name(h, n)
  IN  IF m = NIL THEN h ELSE [h EXCEPT ![m].name = NIL]

\* The nodes c_ast_free_impl frees, in the order it calls itself: of_ast
\* always recursively, an argument only if its gc_next is the sentinel, that is
\* if it is in recursive.
c_ast_free(h, recursive, n) ==
  LET free[m \in Address] ==
        [r \in BOOLEAN |->
           IF m = NIL THEN <<>>
           ELSE <<m>>
                \o (IF r THEN FlattenSeq([i \in DOMAIN h[m].args |->
                                free[h[m].args[i]][h[m].args[i] \in recursive]])
                    ELSE <<>>)
                \o (IF r /\ c_ast_is_parent(h, m) THEN free[h[m].of][TRUE] ELSE <<>>)]
  IN  free[n][(n \in recursive)]

\* The arguments after the shorter list are not compared, nor what is returned.
c_ast_equiv_short(h, table, n1, n2) ==
  LET eq[i \in Address] ==
        [j \in Address |->
           \/ i = j
           \/ /\ i # NIL /\ j # NIL
              /\ \/ h[i].kind = "typedef" /\ eq[table[h[i].def]][j]
                 \/ h[j].kind = "typedef" /\ eq[i][table[h[j].def]]
                 \/ /\ h[i].kind = h[j].kind
                    /\ h[i].type = h[j].type
                    /\ h[i].kind \in ParentKind \ {"function"} => eq[h[i].of][h[j].of]]
  IN  eq[n1][n2]

\* Whether two ASTs mean the same type; table[t] is the AST of typedef t.
c_ast_equiv(h, table, n1, n2) ==
  LET eq[i \in Address] ==
        [j \in Address |->
           \/ i = j
           \/ /\ i # NIL /\ j # NIL
              /\ \/ /\ h[i].kind = "typedef" /\ h[j].kind # "typedef"
                    /\ eq[table[h[i].def]][j]
                 \/ /\ h[i].kind # "typedef" /\ h[j].kind = "typedef"
                    /\ eq[i][table[h[j].def]]
                 \/ /\ h[i].kind = h[j].kind
                    /\ h[i].type = h[j].type
                    /\ Len(h[i].args) = Len(h[j].args)
                    /\ \A k \in DOMAIN h[i].args : eq[h[i].args[k]][h[j].args[k]]
                    /\ h[i].kind = "typedef" => eq[table[h[i].def]][table[h[j].def]]
                    /\ c_ast_is_parent(h, i) => eq[h[i].of][h[j].of]]
  IN  eq[n1][n2]

-----------------------------------------------------------------------------
(* Building declarators (c_ast_util.c): the heap and the AST returned.      *)

c_ast_list_append(list, n) == Append(list, n)

Result(h, rv) == [h |-> h, rv |-> rv]

\* Goes through no pointer.
c_ast_append_array_shallow(h, ast, array) ==
  LET append[n \in Address] ==
        IF n = NIL THEN Result(Failed, NIL)
        ELSE IF h[n].kind = "array"
        THEN LET r == append[h[n].of]
             IN  Result(c_ast_set_parent(r.h, r.rv, n), n)
        ELSE Result(c_ast_set_parent(h, n, array), array)
  IN  append[ast]

\* Goes down a chain of arrays, and through the pointers nested deeper than the
\* new array, and puts the array above what it finds there.
c_ast_append_array(h, ast, array) ==
  LET append[n \in Address] ==
        IF n = NIL THEN Result(Failed, NIL)
        ELSE IF \/ h[n].kind = "array"
                \/ h[n].kind = "pointer" /\ h[array].depth < h[n].depth
        THEN LET r == append[h[n].of]
             IN  Result(c_ast_set_parent(r.h, r.rv, n), n)
        ELSE Result(IF h[h[array].of].kind = "placeholder"
                    THEN c_ast_set_parent(h, n, array) ELSE Failed,
                    array)
  IN  append[ast]

\* c_ast_add_array_impl: depth says how nested within () a node is, and so which
\* of the two is the array of the other.
c_ast_add_array_impl(h, ast, array) ==
  LET Deeper(n) == h[n].depth > h[array].depth
      \* [child] --> [ast] becomes [child] --> [array] --> [ast].
      Below(n) ==
        c_ast_set_parent(IF c_ast_is_parent(h, n)
                         THEN c_ast_set_parent(h, h[n].of, array) ELSE h,
                         array, n)
      \* [ast] --> [parent] becomes [ast] --> [array] --> [parent].
      Above(n) ==
        c_ast_set_parent(IF c_ast_is_parent(h, h[n].parent)
                         THEN c_ast_set_parent(h, array, h[n].parent) ELSE h,
                         n, array)
      add[n \in Address] ==
        IF n = NIL THEN Result(h, array)
        ELSE IF h[n].kind = "array" THEN c_ast_append_array(h, n, array)
        ELSE IF h[n].kind = "pointer" /\ Deeper(n)
             THEN Result(add[h[n].of].h, n)
        ELSE IF Deeper(n) THEN Result(Below(n), n)
        ELSE Result(Above(n), array)
  IN  add[ast]

c_ast_add_array(h, ast, array) ==
  IF ast = NIL THEN Result(Failed, NIL)
  ELSE c_ast_add_array_impl(h, ast, array)

\* c_ast_add_func_impl: a function goes in the place of the placeholder at the
\* end of a chain of pointers, references and arrays, or stands alone.
c_ast_add_func_impl(h, ast, ret, func) ==
  LET Derivation(n) == h[n].kind \in ParentKind \ {"function"}
      add[n \in Address] ==
        IF n = NIL THEN Result(Failed, NIL)
        ELSE IF Derivation(n) /\ Derivation(h[n].of) THEN Result(add[h[n].of].h, n)
        ELSE IF Derivation(n) /\ h[h[n].of].kind = "placeholder" /\ ret # n
        THEN Result(c_ast_set_parent(c_ast_set_parent(h, func, n), ret, func), n)
        ELSE Result(c_ast_set_parent(h, ret, func), func)
  IN  add[ast]

\* func takes the name found from ast once the links are made.
c_ast_add_func(h, ast, ret, func) ==
  LET r == c_ast_add_func_impl(h, ast, ret, func)
  IN  IF ast = NIL THEN Result(Failed, NIL)
      ELSE IF r.h = Failed THEN r
      ELSE [r EXCEPT !.h = [c_ast_take_name(@, ast) EXCEPT
                              ![func].name = c_ast_name(r.h, ast)]]

\* The type itself is linked, not the root of its AST.
c_ast_patch_placeholder_type(h, type, decl) ==
  LET place == c_ast_find_kind(h, decl, "placeholder") IN
  IF decl = NIL THEN Result(h, type)
  ELSE IF place = NIL THEN Result(h, decl)
  ELSE Result(c_ast_set_parent(h, type, h[place].parent), decl)

\* The placeholder of a declarator is replaced by the type it was parsed after,
\* unless that type was linked already.
c_ast_patch_placeholder(h, type, decl) ==
  LET place == c_ast_find_kind(h, decl, "placeholder") IN
  IF decl = NIL THEN Result(h, type)
  ELSE IF h[type].parent # NIL \/ place = NIL THEN Result(h, decl)
  ELSE IF h[type].depth >= h[decl].depth
  THEN Result(IF h[type].name = NIL
              THEN [c_ast_take_name(h, decl) EXCEPT
                      ![type].name = c_ast_name(h, decl)]
              ELSE h, type)
  ELSE Result(c_ast_set_parent(h, c_ast_root(h, type), h[place].parent), decl)
=============================================================================
