------------------------------- MODULE Checks -------------------------------
(***************************************************************************)
(* Declarations with all that their nodes carry, apart from where they are *)
(* in memory, and what errors.c, c_ast_equiv and english.c make of them.   *)
(*                                                                         *)
(* An AST is the sequence of its nodes from the root to the leaf.  An      *)
(* argument of a function is an AST of its own, whose root has no parent.  *)
(*                                                                         *)
(* A definition whose name ends in an underscore and a word in capitals is *)
(* another one with a mistake that a property must notice.                 *)
(***************************************************************************)
EXTENDS CTypes

(* A node, c_ast_t.  tag is the name of a type, of a struct or of the class of *)
(* a member; size is "none", "*" or a number, and quals are the array's bits. *)
Node(kind, type) ==
  [kind |-> kind, type |-> type, name |-> "", tag |-> "", size |-> "none",
   quals |-> {}, args |-> <<>>]

References == {"reference", "rvalue reference"}
Called == {"function", "block"}

-----------------------------------------------------------------------------
(* errors.c.  Each check is of the node i of an AST.                        *)

\* Whether a language has arrays of variable length, and qualified ones.
ArgumentArrays == LANG_MIN("c99") \ LANG_CPP_ALL

CheckArray(lang, ast, i, is_func_arg) ==
  LET of == ast[i + 1]
  IN  /\ ast[i].size = "*" \/ ast[i].quals # {} => lang \in ArgumentArrays /\ is_func_arg
      /\ of.kind = "builtin" => of.type \cap {"void", "register"} = {}
      /\ of.kind # "function"

CheckBuiltin(lang, ast, i) ==
  LET type == ast[i].type
  IN  /\ type \cap TypeBit # {}
      /\ "void" \in type => i > 1
      /\ "inline" \in type => lang \in LANG_MIN("c++17")

CheckEnumClassStructUnion(ast, i) ==
  ast[i].type \cap {"struct", "union", "class"} # {} => "register" \notin ast[i].type

\* Qualifiers, reference qualifiers and pure, of a function only.
CheckFunction(lang, ast, i) ==
  LET type == ast[i].type
  IN  /\ type \cap RefQualifierBit # {} =>
           lang \in LANG_MIN("c++11") /\ type \cap {"extern", "static"} = {}
      /\ IF lang \in LANG_CPP_ALL THEN "pure" \in type => "virtual" \in type
         ELSE type \cap QualifierBit = {}

\* A function or a block: its storage class and what it returns.
CheckCalled(lang, ast, i) ==
  LET ret == ast[i + 1]
  IN  /\ ast[i].type \cap {"auto", "__block", "mutable", "register", "thread_local"} = {}
      /\ ret.kind \notin {"array", "function"}
      /\ ret.kind = "builtin" /\ "deduced" \in ret.type => lang \in LANG_MIN("c++14")

CheckPointer(lang, ast, i) ==
  LET to == ast[i + 1]
  IN  /\ ast[i].kind = "pointer to member" => lang \in LANG_CPP_ALL
      /\ to.kind \notin References /\ "register" \notin to.type

CheckReference(lang, ast, i) ==
  LET to == ast[i + 1]
  IN  /\ lang \in LANG_CPP_ALL
      /\ ast[i].kind = "rvalue reference" => lang \in LANG_MIN("c++11")
      /\ to.type \cap {"register", "void"} = {}

\* A lone void, which is no argument.
Unnamed(arg) == arg.kind = "builtin" /\ "void" \in arg.type /\ arg.name = ""

RECURSIVE c_ast_visitor_error(_, _, _, _), c_ast_visitor_type(_, _)

\* All nodes of an AST, in both visits.
c_ast_check_errors(lang, ast, is_func_arg) ==
  /\ \A i \in DOMAIN ast : c_ast_visitor_error(lang, ast, i, is_func_arg)
  /\ c_ast_visitor_type(lang, ast)

\* Each argument as if it were none.
c_ast_check_func_args_OUTSIDE(lang, args) ==
  \A k \in DOMAIN args :
    LET arg == Head(args[k])
    IN  /\ arg.kind = "builtin" => "deduced" \notin arg.type
        /\ Unnamed(arg) => Len(args) = 1
        /\ arg.kind = "name" => lang \notin LANG_CPP_ALL
        /\ arg.kind = "variadic" => k = Len(args) /\ k > 1
        /\ ~Unnamed(arg) /\ arg.kind # "variadic" =>
             /\ arg.type \cap StorageBit \subseteq {"register"}
             /\ c_ast_check_errors(lang, args[k], FALSE)

\* void is alone and not checked further; an ellipsis is last and not alone.
c_ast_check_func_args(lang, args) ==
  \A k \in DOMAIN args :
    LET arg == Head(args[k])
    IN  /\ arg.kind = "builtin" => "deduced" \notin arg.type
        /\ Unnamed(arg) => Len(args) = 1
        /\ arg.kind = "name" => lang \notin LANG_CPP_ALL
        /\ arg.kind = "variadic" => k = Len(args) /\ k > 1
        /\ ~Unnamed(arg) /\ arg.kind # "variadic" =>
             /\ arg.type \cap StorageBit \subseteq {"register"}
             /\ c_ast_check_errors(lang, args[k], TRUE)

c_ast_check_func_args_knr(args) == \A k \in DOMAIN args : Head(args[k]).kind = "name"

\* Whether a node has no error, in mode English.
c_ast_visitor_error(lang, ast, i, is_func_arg) ==
  LET kind == ast[i].kind
  IN  CASE kind = "array" -> CheckArray(lang, ast, i, is_func_arg)
        [] kind = "builtin" -> CheckBuiltin(lang, ast, i)
        [] kind = "ecsu" -> CheckEnumClassStructUnion(ast, i)
        [] kind \in Called ->
             /\ kind = "function" => CheckFunction(lang, ast, i)
             /\ CheckCalled(lang, ast, i)
             /\ IF lang = "knr" THEN c_ast_check_func_args_knr(ast[i].args)
                ELSE c_ast_check_func_args(lang, ast[i].args)
        [] kind \in {"pointer", "pointer to member"} -> CheckPointer(lang, ast, i)
        [] kind \in References -> CheckReference(lang, ast, i)
        [] kind \in {"name", "typedef", "variadic"} -> TRUE

\* Whether the types of the nodes, and of those of arguments, are legal.
c_ast_visitor_type(lang, ast) ==
  \A i \in DOMAIN ast :
    /\ c_type_check(lang, ast[i].type)
    /\ ast[i].kind \in Called =>
         \A k \in DOMAIN ast[i].args : c_ast_visitor_type(lang, ast[i].args[k])
    /\ ast[i].kind # "function" => "noreturn" \notin ast[i].type

c_ast_check_cast(ast) ==
  /\ \A i \in DOMAIN ast : ast[i].type \cap StorageBit = {}
  /\ Head(ast).kind \notin {"array", "function"}

c_ast_check(lang, ast, check) ==
  /\ check = "cast" => c_ast_check_cast(ast)
  /\ c_ast_check_errors(lang, ast, FALSE)

-----------------------------------------------------------------------------
(* c_ast_equiv of c_ast.c.  ast_of is the AST of each type name.            *)

RECURSIVE c_ast_equiv(_, _, _)

\* The bits of two nodes are not compared.
SameNode_TYPE(ast_of, i, j) ==
  /\ i.kind = j.kind /\ i.size = j.size /\ i.quals = j.quals
  /\ i.kind \in {"ecsu", "pointer to member"} => i.tag = j.tag
  /\ i.kind = "typedef" => c_ast_equiv(ast_of, ast_of[i.tag], ast_of[j.tag])
  /\ Len(i.args) = Len(j.args)
  /\ \A k \in DOMAIN i.args : c_ast_equiv(ast_of, i.args[k], j.args[k])

SameNode(ast_of, i, j) ==
  /\ i.kind = j.kind /\ i.type = j.type /\ i.size = j.size /\ i.quals = j.quals
  /\ i.kind \in {"ecsu", "pointer to member"} => i.tag = j.tag
  /\ i.kind = "typedef" => c_ast_equiv(ast_of, ast_of[i.tag], ast_of[j.tag])
  /\ Len(i.args) = Len(j.args)
  /\ \A k \in DOMAIN i.args : c_ast_equiv(ast_of, i.args[k], j.args[k])

\* A type name on one side is looked through, but for its own bits.
c_ast_equiv(ast_of, asti, astj) ==
  LET i == Head(asti) j == Head(astj)
  IN  CASE i.kind = "typedef" /\ j.kind # "typedef" ->
             c_ast_equiv(ast_of, ast_of[i.tag], astj)
        [] i.kind # "typedef" /\ j.kind = "typedef" ->
             c_ast_equiv(ast_of, asti, ast_of[j.tag])
        [] OTHER ->
             /\ SameNode(ast_of, i, j)
             /\ Len(asti) > 1 => c_ast_equiv(ast_of, Tail(asti), Tail(astj))

-----------------------------------------------------------------------------
(* english.c: the words that an AST is printed as.  "x as" and "pointer to" *)
(* are words.                                                              *)

Named(name) == IF name = "" THEN <<>> ELSE <<name>>

\* The first name found downwards.
c_ast_name(ast) ==
  LET at == SelectInSeq(ast, LAMBDA n : n.name # "")
  IN  IF at = 0 THEN "" ELSE ast[at].name

RECURSIVE c_ast_visitor_english(_, _)

\* An argument, with the name that is somewhere in it before the rest.
ArgumentEnglish(arg) ==
  (IF Head(arg).kind # "name" /\ c_ast_name(arg) # "" THEN <<c_ast_name(arg), "as">>
   ELSE <<>>)
  \o c_ast_visitor_english(arg, FALSE)

ArrayEnglish(n) ==
  c_type_name(n.type)
  \o (IF n.size = "*" THEN <<"variable length">> ELSE <<>>)
  \o <<"array">> \o c_type_name(n.quals)
  \o (IF n.size \in {"*", "none"} THEN <<>> ELSE <<n.size>>) \o <<"of">>

\* Only qualifiers are printed of a pointer or a reference.
PointerEnglish(n) ==
  c_type_name(n.type \cap QualifierBit)
  \o (IF n.kind = "pointer to member"
      THEN <<"pointer to member of">> \o c_type_name(n.type \ QualifierBit) \o <<n.tag>>
      ELSE <<n.kind, "to">>)

CalledEnglish(n) ==
  c_type_name(n.type) \o <<n.kind>>
  \o (IF n.args = <<>> THEN <<>>
      ELSE <<"(">>
           \o FlattenSeq([k \in DOMAIN n.args |->
                            (IF k = 1 THEN <<>> ELSE <<",">>) \o ArgumentEnglish(n.args[k])])
           \o <<")">>)
  \o <<"returning">>

\* The qualifiers of arrays and pointers are left out.
NodeEnglish_BARE(n, print_names) ==
  CASE n.kind = "array" -> ArrayEnglish([n EXCEPT !.quals = {}])
    [] n.kind \in Called -> CalledEnglish(n)
    [] n.kind \in References \cup {"pointer", "pointer to member"} ->
         PointerEnglish([n EXCEPT !.type = @ \ QualifierBit])
    [] n.kind = "builtin" -> c_type_name(n.type) \o (IF print_names THEN Named(n.name) ELSE <<>>)
    [] n.kind = "ecsu" -> c_type_name(n.type) \o <<n.tag>>
                          \o (IF print_names THEN Named(n.name) ELSE <<>>)
    [] n.kind = "name" -> Named(n.name)
    [] n.kind = "typedef" -> <<n.tag>>
    [] n.kind = "variadic" -> <<"variadic">>

NodeEnglish(n, print_names) ==
  CASE n.kind = "array" -> ArrayEnglish(n)
    [] n.kind \in Called -> CalledEnglish(n)
    [] n.kind \in References \cup {"pointer", "pointer to member"} -> PointerEnglish(n)
    [] n.kind = "builtin" -> c_type_name(n.type) \o (IF print_names THEN Named(n.name) ELSE <<>>)
    [] n.kind = "ecsu" -> c_type_name(n.type) \o <<n.tag>>
                          \o (IF print_names THEN Named(n.name) ELSE <<>>)
    [] n.kind = "name" -> Named(n.name)
    [] n.kind = "typedef" -> <<n.tag>>
    [] n.kind = "variadic" -> <<"variadic">>

c_ast_visitor_english(ast, print_names) ==
  FlattenSeq([i \in DOMAIN ast |-> NodeEnglish(ast[i], print_names)])

c_ast_english(ast) == c_ast_visitor_english(ast, TRUE)
=============================================================================
