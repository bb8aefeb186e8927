------------------------------ MODULE Printer -------------------------------
(***************************************************************************)
(* What the commands print of an AST: gibberish.c, which writes a type as  *)
(* a C declaration or cast, and english.c, which writes it in English.     *)
(*                                                                         *)
(* Both are walks that print as they go; here they are operators from an   *)
(* AST to the sequence of tokens printed.  The ASTs are those that the     *)
(* commands of Parser build.  Left out, with the type bits, are qualifiers *)
(* and storage classes, array sizes, and the "type" of a typedef.          *)
(***************************************************************************)
EXTENDS Parser

-----------------------------------------------------------------------------
(* gibberish.c.  A walk goes down to the type at the leaf, which is printed *)
(* first.  On the way back pointers are printed, until an array or function *)
(* is met: it prints everything that is above it, and what is above prints  *)
(* nothing any more.                                                       *)

Symbol == [k \in Pointing |-> CASE k = "pointer" -> "*"
                                [] k = "reference" -> "&"
                                [] OTHER -> "&&"]

\* c_ast_visit_up from n, NIL included: whether some node is one of S.
AnyUp(g, n, S) ==
  LET up[m \in Node] == m \in S \/ (g[m].parent # NIL /\ up[g[m].parent])
  IN  n # NIL /\ up[n]

\* A g_param: what has been printed, and whether a space and postfix have.
Started(out) == [out |-> out, space |-> FALSE, postfix |-> FALSE]
Printed(param, out) == [param EXCEPT !.out = @ \o out]

g_param_space(param) ==
  IF param.space THEN param
  ELSE [Printed(param, <<" ">>) EXCEPT !.space = TRUE]

\* Names are printed whatever is asked for.
NameOf_ALWAYS(g, n, omitted) == IF g[n].name = NIL THEN <<>> ELSE <<g[n].name>>

NameOf(g, n, omitted) ==
  IF g[n].name = NIL \/ omitted THEN <<>> ELSE <<g[n].name>>

c_ast_gibberish_space_name(g, n, cast, param) ==
  LET name == NameOf(g, n, cast)
  IN  IF name = <<>> THEN param ELSE Printed(g_param_space(param), name)

c_ast_gibberish_qual_name(g, n, cast) ==
  <<Symbol[g[n].kind]>> \o NameOf(g, n, cast)

\* args is what is printed of each argument.
c_ast_gibberish_func_args(args) ==
  <<"(">>
  \o FlattenSeq([i \in DOMAIN args |->
       (IF i > 1 THEN <<",">> ELSE <<>>) \o args[i]])
  \o <<")">>

\* Only the outermost derivation is put in parentheses.
InParentheses_ROOT(g, n) == g[n].kind # "pointer" /\ g[g[n].parent].parent = NIL

\* Whether the pointer or reference above n is, which is the next one down from
\* what it points to: of consecutive pointers only the last.
InParentheses(g, n) == g[n].kind # "pointer"

\* What is printed of ast0 and of all above it, from the name outwards; args[n]
\* is what is printed of the arguments of n.  The space before the name has been printed.
c_ast_gibberish_postfix(g, ast0, cast, args) ==
  LET post[n \in Node] ==
        LET up == g[n].parent
            above ==
              CASE up = NIL -> NameOf(g, n, cast)
                [] g[up].kind \in {"array", "function"} -> post[up]
                [] g[up].kind \in {"pointer", "reference"} ->
                     (IF InParentheses(g, n) THEN <<"(">> ELSE <<>>)
                     \o c_ast_gibberish_qual_name(g, up, cast)
                     \o (IF c_ast_is_parent(g, g[up].parent) THEN post[up] ELSE <<>>)
                     \o (IF InParentheses(g, n) THEN <<")">> ELSE <<>>)
                [] OTHER -> <<>>
        IN  above \o CASE g[n].kind = "array" -> <<"[", "]">>
                       [] g[n].kind = "function" ->
                            c_ast_gibberish_func_args(args[n])
                       [] OTHER -> <<>>
  IN  post[ast0]

\* c_ast_gibberish_declare and c_ast_gibberish_cast: c_ast_gibberish_impl from
\* the root, with a g_param of its own for every argument.
c_ast_gibberish(g, root0, cast) ==
  LET impl[root \in Node, n \in Node] ==
        LET of == impl[root, g[n].of]
            functions == {m \in Node : g[m].kind = "function"}
            args == [m \in Node |-> [i \in DOMAIN g[m].args |->
                       impl[g[m].args[i], g[m].args[i]].out]]
            leaf == Last(Down(g, root))
            named == ~cast /\ AnyUp(g, n, {m \in Node : g[m].name # NIL})
                           /\ ~AnyUp(g, g[n].parent, functions)
            apart == IF named THEN g_param_space(of) ELSE of
            before == IF cast THEN of ELSE g_param_space(of)
        IN  CASE g[n].kind = "builtin" ->
                   c_ast_gibberish_space_name(g, n, cast, Started(<<g[n].type>>))
              [] g[n].kind = "typedef" ->
                   c_ast_gibberish_space_name(g, n, cast, Started(<<g[n].def>>))
              [] g[n].kind \in Pointing ->
                   IF apart.postfix THEN apart
                   ELSE Printed(apart, c_ast_gibberish_qual_name(g, n, cast))
              [] g[n].kind \in {"array", "function"} ->
                   IF of.postfix THEN of
                   ELSE Printed([before EXCEPT !.postfix = TRUE],
                          c_ast_gibberish_postfix(g,
                            IF n = root THEN g[leaf].parent ELSE n, cast, args))
  IN  impl[root0, root0].out

-----------------------------------------------------------------------------
(* english.c.                                                              *)

\* c_ast_english: c_ast_visitor_english on every node on the way down.
c_ast_english(g, root) ==
  LET english[n \in Node, print_names \in BOOLEAN] ==
        CASE g[n].kind \in Pointing -> <<g[n].kind, "to">> \o english[g[n].of, print_names]
          [] g[n].kind = "array" -> <<"array", "of">> \o english[g[n].of, print_names]
          [] g[n].kind = "function" ->
               <<"function">>
               \o (IF g[n].args = <<>> THEN <<>>
                   ELSE c_ast_gibberish_func_args([i \in DOMAIN g[n].args |->
                          LET a == g[n].args[i]
                          IN  (IF c_ast_name(g, a) = NIL THEN <<>>
                               ELSE <<c_ast_name(g, a), "as">>)
                              \o english[a, FALSE]]))
               \o <<"returning">> \o english[g[n].of, print_names]
          [] g[n].kind = "builtin" ->
               <<g[n].type>> \o NameOf(g, n, ~print_names)
          [] g[n].kind = "typedef" -> <<g[n].def>>
  IN  english[root, TRUE]

-----------------------------------------------------------------------------
(* Properties.                                                             *)

\* A declaration by the rule of C: from the name outwards every derivation is
\* written next to what it is of, arrays and functions behind, pointers and
\* references before, in parentheses if an array or function follows.
Declaration(g, root, cast) ==
  LET text[top \in Node] ==
        LET path == Down(g, top)
            kind(i) == g[path[i]].kind
            declarator[i \in 0..Len(path) - 1] ==
              IF i = 0
              THEN IF cast \/ g[top].name = NIL THEN <<>> ELSE <<g[top].name>>
              ELSE LET inner == declarator[i - 1]
                       \* what comes before an array or function binds less
                       bound == IF i > 1 /\ kind(i - 1) \in Pointing
                                THEN <<"(">> \o inner \o <<")">> ELSE inner
                   IN  CASE kind(i) \in Pointing -> <<Symbol[kind(i)]>> \o inner
                         [] kind(i) = "array" -> bound \o <<"[", "]">>
                         [] kind(i) = "function" ->
                              bound \o c_ast_gibberish_func_args(
                                         [j \in DOMAIN g[path[i]].args |->
                                            text[g[path[i]].args[j]]])
            base == g[Last(path)]
        IN  <<IF base.kind = "typedef" THEN base.def ELSE base.type>>
            \o declarator[Len(path) - 1]
  IN  text[root]

\* The tokens are those of the declaration, in its order, and a name is not
\* written right behind the type.
Says(printed, declaration) ==
  /\ SelectSeq(printed, LAMBDA t : t # " ") = declaration
  /\ \A i \in 1..Len(printed) - 1 :
       ~(printed[i] \in BuiltinType \cup Name /\ printed[i + 1] \in Name)

\* The AST of the command that ends, with the name that declare_english gives it.
Named == [h EXCEPT ![Top.ast].name = subject]

PrintedRight ==
  LET cast == command = "cast"
  IN  Says(c_ast_gibberish(Named, Top.ast, cast), Declaration(Named, Top.ast, cast))

\* What is written wrong, also as an argument; see the findings: an array of or a
\* function returning pointers to pointers, and an rvalue reference above an
\* array or function.
Miswritten(n) ==
  LET kinds == [i \in DOMAIN Down(h, n) |-> h[Down(h, n)[i]].kind]
  IN  \/ /\ h[n].parent = NIL /\ Len(kinds) > 3
         /\ kinds[1] \in {"array", "function"}
         /\ \A i \in 2..Len(kinds) - 1 : kinds[i] \in Pointing
      \/ /\ kinds[1] = "rvalue reference"
         /\ ToSet(kinds) \cap {"array", "function"} # {}

\* What declare and cast print is the declaration of the type that was
\* described, although it is printed from two ends: what precedes the name on
\* the way up from the leaf, the rest from the array or function met first.
DeclaredRight ==
  /\ EndEnglish /\ command \in {"declare", "cast"}
  /\ Top.proper /\ Legal(Top.ops)
  /\ \A n \in ToSet(c_ast_free(h, Node, Top.ast)) : ~Miswritten(n)
  => PrintedRight

\* What declare_english reads from position i on, of a declaration or of the
\* list of a function's arguments: its type, and where it ends.
ReadEnglish(t) ==
  LET At(i) == IF i \in DOMAIN t THEN t[i] ELSE NIL
      Is(ops, end) == [ops |-> ops, end |-> end]
      read[i \in 1..Len(t) + 1, what \in {"type", "list"}] ==
        LET word == At(i)
            first == read[IF At(i + 1) = "as" THEN i + 2 ELSE i, "type"]
            rest == read[first.end + 1, "list"]
            list == read[i + 2, "list"]
            bare == At(i + 1) # "("
            ret == read[IF bare THEN i + 2 ELSE list.end + 1, "type"]
        IN  CASE what = "list" ->
                   IF At(first.end) = "," THEN Is(<<first.ops>> \o rest.ops, rest.end)
                   ELSE Is(<<first.ops>>, first.end + 1)
              [] word \in Pointing \cup {"array"} ->
                   LET of == read[i + 2, "type"]
                   IN  Is(<<Op(word, <<>>, NIL)>> \o of.ops, of.end)
              [] word = "function" ->
                   Is(<<Op(word, IF bare THEN <<>> ELSE list.ops, NIL)>> \o ret.ops,
                      ret.end)
              [] word \in Defined -> Is(Meaning(h, typedefs[word]), i + 1)
              [] OTHER -> Is(<<Op("builtin", <<>>, word)>>, i + 1)
  IN  read[1, "type"]

\* What explain prints of a declaration is a description that declare reads as
\* the type that was explained, without a name that got lost in the AST.
ExplainedRight ==
  /\ EndGibberish /\ command = "explain"
  /\ Proper(Top) /\ DeclarationRead(Meant)
  => LET r == c_ast_patch_placeholder(h, Below.ast, Top.ast)
         english == c_ast_english(c_ast_take_name(r.h, r.rv), r.rv)
         back == ReadEnglish(english)
     IN  back.ops = Meant /\ back.end = Len(english) + 1
=============================================================================
