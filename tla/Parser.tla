------------------------------- MODULE Parser -------------------------------
(***************************************************************************)
(* A session with cdecl, from the first command to the exit: the commands  *)
(* of parser.y that build ASTs, one action per production, over the AST    *)
(* heap of c_ast.c and the typedef table of c_typedef.c.                   *)
(*                                                                         *)
(* values is bison's stack of semantic values.  A production is enabled    *)
(* when the values it reduces are on top; which of the enabled productions *)
(* happens is the input.  A token that carries no value (a comma, "of")    *)
(* leaves no trace.                                                        *)
(*                                                                         *)
(* The language is one of those with references (C++11 and later).         *)
(*                                                                         *)
(* A definition whose name ends in an underscore and a word, other than one *)
(* of the code's own, is the one after it with a mistake that a property   *)
(* must notice.                                                            *)
(***************************************************************************)
EXTENDS CAst, Functions

CONSTANTS Name,       \* names that can become type names
          Predefined, \* the names c_typedef_init defines
          BuiltinType,\* built-in type specifiers
          Commands,   \* the commands given, of AllCommands
          Derived,    \* those of Pointing that are in the input
          MaxDepth    \* bound of the model on ast_depth

English   == {"declare", "define", "cast"}
Gibberish == {"explain", "explain cast", "typedef"}
AllCommands == English \cup Gibberish

ASSUME ParserAssumption ==
  /\ IsFiniteSet(Node) /\ NIL \notin Node \cup Name \cup BuiltinType
  /\ Predefined \subseteq Name /\ IsFiniteSet(Predefined)
  /\ Cardinality(Predefined) <= Cardinality(Node)
  /\ BuiltinType # {} /\ "void" \notin BuiltinType
  /\ Derived \subseteq Pointing
  /\ MaxDepth \in Nat
  /\ Commands \subseteq AllCommands

VARIABLES
  phase,     \* "idle" between commands, "parse" within one, "exit" while the
             \* exit handler runs, then "exited"; "aborted" by an assertion
  command,   \* the command being parsed
  subject,   \* the name after "define" or "declare"
  h,         \* the contents of the AST nodes
  live,      \* the AST nodes that are allocated
  gc,        \* the list that starts at c_ast_gc_head
  recursive, \* the nodes whose gc_next is &c_ast_free_recursive
  count,     \* c_ast_count
  typedefs,  \* the typedef table: the AST of each type name, or NIL
  values,    \* the parser's value stack
  typeStack, \* in_attr.type_head, the top first
  ast_depth, \* ast_depth
  last       \* what became of the last command

ast == <<h, live, gc, recursive, count>>
in_attr == <<values, typeStack>>
vars == <<phase, command, subject, ast, typedefs, in_attr, ast_depth, last>>

-----------------------------------------------------------------------------
(* Values.  Two fields are not in the code.  ops is the declarator read by  *)
(* the rule of C, from the name outwards, for the properties to compare the *)
(* AST to.  proper says that it has no redundant parentheses, that is none  *)
(* but around a pointer or reference and before an array or function, no    *)
(* argument of an illegal type, a new name and, in a typedef, nothing       *)
(* derived from a type name.                                                *)

Value(tag, n) ==
  [tag |-> tag, ast |-> n, target |-> NIL, list |-> <<>>, ops |-> <<>>,
   proper |-> TRUE]

Op(kind, args, base) == [kind |-> kind, args |-> args, base |-> base]

Proper(v) ==
  /\ v.proper
  /\ v.tag = "decl2" /\ v.ops # <<>> =>
       v.ops[Len(v.ops)].kind \in {"array", "function"}

\* Somewhere in ops, one after the other, are operators of these kinds.
Has(ops, kinds) ==
  \E i \in 0..Len(ops) - Len(kinds) :
    \A j \in DOMAIN kinds : ops[i + j].kind \in kinds[j]

\* Whether C++ has the type.
Legal(ops) ==
  /\ ~Has(ops, <<{"array"}, {"function"} \cup References>>)
  /\ ~Has(ops, <<{"function"}, {"array", "function"}>>)
  /\ ~Has(ops, <<Pointing, References>>)

\* The types that a declarator, a cast and an argument can have and be read
\* right; see the findings for what becomes of the others.
DeclarationRead(ops) ==
  /\ Legal(ops)
  /\ ~Has(ops, <<{"function"}, Pointing, Pointing>>)
  /\ \A n \in 1..Len(ops) :
       ~Has(ops, <<References>> \o [i \in 1..n |-> {"pointer"}] \o <<{"array"}>>)
CastRead(ops) ==
  DeclarationRead(ops) /\ ~Has(ops, <<{"function"}, Pointing, {"array", "function"}>>)
ArgumentRead(ops) ==
  CastRead(ops) /\ ~Has(ops, <<Pointing, {"array"}>>)

\* The type that an AST denotes, from its root down, type names looked through.
Meaning(g, n) ==
  LET means[m \in Address] ==
        IF m = NIL THEN <<>>
        ELSE IF g[m].kind = "typedef" THEN means[typedefs[g[m].def]]
        ELSE <<Op(g[m].kind, [i \in DOMAIN g[m].args |-> means[g[m].args[i]]],
                  g[m].type)>>
             \o (IF c_ast_is_parent(g, m) THEN means[g[m].of] ELSE <<>>)
  IN  means[n]

Top == values[Len(values)]
Below == values[Len(values) - 1]
TopIs(tags) == values # <<>> /\ Top.tag \in tags
TopTwo(tags1, tags2) ==
  Len(values) > 1 /\ Below.tag \in tags1 /\ Top.tag \in tags2
Replace(k, v) == Append(SubSeq(values, 1, Len(values) - k), v)

Undefined == {t \in Name : typedefs[t] = NIL} \* lexed as Y_NAME
Defined == Name \ Undefined                   \* lexed as Y_TYPEDEF_TYPE

-----------------------------------------------------------------------------
(* The heap.                                                               *)

\* Addresses are only compared for equality: which free cells malloc returns
\* makes no difference.
Free1 == CHOOSE n \in Node \ live : TRUE
Free2 == CHOOSE n \in Node \ (live \cup {Free1}) : TRUE
Room(k) == Cardinality(Node \ live) >= k

\* c_ast_new for each node of new, in order.
c_ast_new(new) ==
  /\ live' = live \cup ToSet(new)
  /\ gc' = Reverse(new) \o gc
  /\ count' = count + Len(new)
  /\ UNCHANGED recursive

\* FREE for the cells F, of the heap g.  The contents of a freed cell mean
\* nothing; the model blanks them.
Blank(g, F) == [n \in Node |-> IF n \in F THEN NoAst ELSE g[n]]

\* Frees every node of the list, none of them recursively.
c_ast_gc ==
  /\ h' = Blank(h, ToSet(gc))
  /\ live' = live \ ToSet(gc)
  /\ recursive' = recursive \ ToSet(gc)
  /\ count' = count - Len(gc)
  /\ gc' = <<>>

\* The stacks are kept.
parse_cleanup_keep == c_ast_gc /\ UNCHANGED in_attr

\* The inherited attributes are cleared; ast_depth stays as it is.
parse_cleanup == c_ast_gc /\ values' = <<>> /\ typeStack' = <<>>

\* What became of a command.  built is the type that the AST denotes, meant the
\* one that was written, and name the name it was given.
Outcome(verdict, name, built, meant, proper) ==
  [verdict |-> verdict, command |-> command, name |-> name,
   built |-> built, meant |-> meant, proper |-> proper]
NoOutcome == [verdict |-> "none", command |-> NIL, name |-> NIL,
              built |-> <<>>, meant |-> <<>>, proper |-> FALSE]

\* The command is over: YYABORT after an error, or the next command.
Ended(outcome) ==
  /\ phase' = "idle"
  /\ command' = NIL /\ subject' = NIL
  /\ last' = outcome

\* An assertion fails and the process dies; its memory is of no interest.
\* meant is what had been read by then.
Abort(why, meant, proper) ==
  /\ phase' = "aborted"
  /\ last' = Outcome(why, NIL, <<>>, meant, proper)
  /\ UNCHANGED <<command, subject, ast, typedefs, in_attr, ast_depth>>

-----------------------------------------------------------------------------
(* c_ast_check for a declaration, in the order c_ast_visitor_error goes.    *)

\* args are the verdicts on the arguments.
CheckNode(g, m, args) ==
  IF g[m].kind = "placeholder" THEN "assert: placeholder"
  ELSE IF \/ g[m].kind = "array" /\ g[g[m].of].kind = "function"
          \/ g[m].kind = "function" /\ g[g[m].of].kind \in {"array", "function"}
          \/ g[m].kind = "pointer" /\ g[g[m].of].kind \in References
  THEN "rejected"
  ELSE IF g[m].kind = "function" /\ ToSet(args) \ {"accepted"} # {}
  THEN args[Min({i \in DOMAIN args : args[i] # "accepted"})]
  ELSE "accepted"

c_ast_check(g, n) ==
  LET check[m \in Address] ==
        LET args == [i \in DOMAIN g[m].args |-> check[g[m].args[i]]]
            here == CheckNode(g, m, args)
        IN  IF m = NIL THEN "accepted"
            ELSE IF here = "accepted" /\ c_ast_is_parent(g, m)
            THEN check[g[m].of] ELSE here
  IN  check[n]

\* c_ast_check_cast comes first when checking a cast.
c_ast_check_cast(g, n) ==
  IF g[n].kind \in {"array", "function"} THEN "rejected" ELSE c_ast_check(g, n)

-----------------------------------------------------------------------------
(* English declarations.                                                   *)

StartEnglish ==
  /\ phase = "idle"
  /\ command' \in Commands \cap English
  /\ subject' \in CASE command' = "define" -> Name
                    [] command' = "declare" -> Undefined
                    [] OTHER -> {NIL}
  /\ phase' = "parse" /\ last' = NoOutcome
  /\ UNCHANGED <<ast, typedefs, in_attr, ast_depth>>

ParsingEnglish == phase = "parse" /\ command \in English

\* A decl_english may begin here.
BeginEnglish == ParsingEnglish /\ (values = <<>> \/ TopIs({"ref", "list"}))

ProductionFrame ==
  UNCHANGED <<phase, command, subject, typedefs, last>>
EnglishFrame == ProductionFrame /\ UNCHANGED <<typeStack, ast_depth>>

builtin_type_ast_c ==
  \E b \in BuiltinType :
    h' = [h EXCEPT ![Free1] = [NewAst("builtin", ast_depth) EXCEPT !.type = b]]
typedef_type_ast_c ==
  \E t \in Defined :
    h' = [h EXCEPT ![Free1] = [NewAst("typedef", ast_depth) EXCEPT !.def = t]]

type_english ==
  /\ BeginEnglish /\ Room(1)
  /\ builtin_type_ast_c \/ typedef_type_ast_c
  /\ c_ast_new(<<Free1>>)
  /\ values' = Append(values, [Value("decl", Free1) EXCEPT
                                 !.ops = Meaning(h', Free1)])
  /\ EnglishFrame

\* The node of a pointer and of an array is created when its decl_english has
\* been.
derived_decl_english(kind) ==
  /\ ParsingEnglish /\ TopIs({"decl"}) /\ Room(1)
  /\ c_ast_new(<<Free1>>)
  /\ h' = c_ast_set_parent([h EXCEPT ![Free1] = NewAst(kind, ast_depth)],
                           Top.ast, Free1)
  /\ values' = Replace(1, [Top EXCEPT !.ast = Free1,
                             !.ops = <<Op(kind, <<>>, NIL)>> \o @])
  /\ EnglishFrame

pointer_decl_english == derived_decl_english("pointer")
array_decl_english == derived_decl_english("array")

\* The node is a pointer.
reference_english_pointer ==
  /\ BeginEnglish /\ Room(1)
  /\ c_ast_new(<<Free1>>)
  /\ \E kind \in References \cap Derived :
       /\ h' = [h EXCEPT ![Free1] = NewAst("pointer", ast_depth)]
       /\ values' = Append(values, [Value("ref", Free1) EXCEPT
                                      !.ops = <<Op(kind, <<>>, NIL)>>])
  /\ EnglishFrame

\* reference_english: here the node is created first.
reference_english ==
  /\ BeginEnglish /\ Room(1)
  /\ c_ast_new(<<Free1>>)
  /\ \E kind \in References \cap Derived :
       /\ h' = [h EXCEPT ![Free1] = NewAst(kind, ast_depth)]
       /\ values' = Append(values, [Value("ref", Free1) EXCEPT
                                      !.ops = <<Op(kind, <<>>, NIL)>>])
  /\ EnglishFrame

reference_decl_english ==
  /\ ParsingEnglish /\ TopTwo({"ref"}, {"decl"})
  /\ h' = c_ast_set_parent(h, Top.ast, Below.ast)
  /\ values' = Replace(2, [Top EXCEPT !.ast = Below.ast,
                             !.ops = Below.ops \o @])
  /\ UNCHANGED <<live, gc, recursive, count>>
  /\ EnglishFrame

\* decl_list_english: the first declaration of a list, or one more.
decl_list_english ==
  /\ ParsingEnglish /\ TopIs({"decl"})
  /\ LET Extended(list) ==
           [list EXCEPT !.list = c_ast_list_append(@, Top.ast), !.ops = Append(@, Top.ops),
                        !.proper = @ /\ Top.proper /\ Legal(Top.ops)]
     IN  \/ values' = Replace(1, Extended(Value("list", NIL)))
         \/ TopTwo({"list"}, {"decl"}) /\ values' = Replace(2, Extended(Below))
  /\ UNCHANGED ast
  /\ EnglishFrame

\* func_decl_english: the last k values are its argument list and return type.
func_decl_english(k, list, ret) ==
  /\ c_ast_new(<<Free1>>)
  /\ h' = c_ast_set_parent([h EXCEPT ![Free1] =
            [NewAst("function", ast_depth) EXCEPT !.args = list.list]],
            ret.ast, Free1)
  /\ values' = Replace(k, [ret EXCEPT !.ast = Free1,
                 !.ops = <<Op("function", list.ops, NIL)>> \o @,
                 !.proper = @ /\ list.proper])
  /\ EnglishFrame

\* returning_english_opt without "returning": the function returns void.
returning_void_english ==
  /\ ParsingEnglish /\ Room(1)
  /\ h' = [h EXCEPT ![Free1] = [NewAst("builtin", ast_depth) EXCEPT
                                  !.type = "void"]]
  /\ c_ast_new(<<Free1>>)
  /\ values' = Append(values, [Value("void", Free1) EXCEPT
                                 !.ops = Meaning(h', Free1)])
  /\ EnglishFrame

NoList == Value("list", NIL)

\* With and without arguments.
FuncDeclEnglish ==
  /\ ParsingEnglish /\ TopIs({"decl", "void"}) /\ Room(1)
  /\ \/ func_decl_english(1, NoList, [Top EXCEPT !.tag = "decl"])
     \/ /\ TopTwo({"list"}, {"decl", "void"})
        /\ func_decl_english(2, Below, [Top EXCEPT !.tag = "decl"])

EnglishProduction ==
  \/ type_english
  \/ pointer_decl_english \/ array_decl_english
  \/ reference_english \/ reference_decl_english
  \/ decl_list_english \/ returning_void_english \/ FuncDeclEnglish

-----------------------------------------------------------------------------
(* The end of an English command.                                          *)

EndEnglish == ParsingEnglish /\ Len(values) = 1 /\ TopIs({"decl"})

\* declare_english: checks, prints, and the AST is collected either way.
declare_english ==
  /\ EndEnglish /\ command = "declare"
  /\ Ended(Outcome(c_ast_check(h, Top.ast), subject,
                   Meaning(h, Top.ast), Top.ops, Top.proper))
  /\ parse_cleanup
  /\ UNCHANGED <<typedefs, ast_depth>>

\* cast_english: the three forms of a cast differ in what is printed around it.
cast_english ==
  /\ EndEnglish /\ command = "cast"
  /\ Ended(Outcome(c_ast_check_cast(h, Top.ast), NIL,
                   Meaning(h, Top.ast), Top.ops, Top.proper))
  /\ parse_cleanup
  /\ UNCHANGED <<typedefs, ast_depth>>

\* The node created first is marked.
Released_first(l, marked) ==
  recursive' = (recursive \cup (IF l = <<>> THEN {} ELSE {l[Len(l)]})) \ marked

\* c_ast_gc_release on the list l: the node created last is marked.
Released(l, marked) ==
  recursive' = (recursive \cup (IF l = <<>> THEN {} ELSE {l[1]})) \ marked

\* The list is kept.
AddTypedef_keep(t, root) ==
  /\ typedefs' = [typedefs EXCEPT ![t] = root]
  /\ values' = <<>> /\ typeStack' = <<>>
  /\ UNCHANGED <<live, gc, recursive, count>>

\* A new name: c_typedef_add takes the AST, which leaves garbage collection.
AddTypedef(t, root) ==
  /\ typedefs' = [typedefs EXCEPT ![t] = root]
  /\ Released(gc, {})
  /\ gc' = <<>>
  /\ values' = <<>> /\ typeStack' = <<>>
  /\ UNCHANGED <<live, count>>

\* An existing type name is defined anew.
define_english_anew ==
  /\ EndEnglish /\ command = "define"
  /\ LET check == c_ast_check(h, Top.ast)
         verdict == IF check = "accepted" THEN "defined" ELSE check
     IN  /\ Ended(Outcome(verdict, subject,
                          Meaning(h, Top.ast), Top.ops, Top.proper))
         /\ IF verdict = "defined"
            THEN AddTypedef(subject, Top.ast) /\ UNCHANGED h
            ELSE parse_cleanup /\ UNCHANGED typedefs
  /\ UNCHANGED ast_depth

\* define_english with a Y_NAME, and with a Y_TYPEDEF_TYPE.
define_english ==
  /\ EndEnglish /\ command = "define"
  /\ LET check == c_ast_check(h, Top.ast)
         same == c_ast_equiv(h, typedefs, typedefs[subject], Top.ast)
         verdict == IF check # "accepted" THEN check
                    ELSE IF subject \in Undefined THEN "defined"
                    ELSE IF same THEN "accepted" ELSE "redefinition"
     IN  /\ Ended(Outcome(verdict, subject,
                          Meaning(h, Top.ast), Top.ops, Top.proper))
         /\ IF check = "accepted" /\ subject \in Undefined
            THEN AddTypedef(subject, Top.ast) /\ UNCHANGED h
            ELSE parse_cleanup /\ UNCHANGED typedefs
  /\ UNCHANGED ast_depth

-----------------------------------------------------------------------------
(* Gibberish declarations and casts.                                       *)

StartGibberish ==
  /\ phase = "idle"
  /\ command' \in Commands \cap Gibberish
  /\ phase' = "parse" /\ last' = NoOutcome
  /\ UNCHANGED <<subject, ast, typedefs, in_attr, ast_depth>>

ParsingGibberish == phase = "parse" /\ command \in Gibberish

\* The productions of casts, which arguments share, are in force.
InCast ==
  command = "explain cast" \/ \E i \in DOMAIN values : values[i].tag = "args"

\* A type_ast_c may begin here; a declarator may begin here.
BeginType == ParsingGibberish /\ (values = <<>> \/ TopIs({"args"}))
BeginDeclarator == ParsingGibberish /\ TopIs({"type", "nested"} \cup Pointing)

\* The pointers and references read before the declarator on top.
Enclosing ==
  LET before == SelectSeq(Reverse(values), LAMBDA v : v.tag \in Pointing)
  IN  [i \in DOMAIN before |-> Op(before[i].tag, <<>>, NIL)]

type_peek == Head(typeStack)
Declarator == {"decl2", "decl"}

\* Pushes an AST on the value stack and on the type stack.
PushType(tag, n) ==
  /\ values' = Append(values, Value(tag, n))
  /\ typeStack' = <<n>> \o typeStack

type_ast_c ==
  /\ BeginType /\ Room(1)
  /\ builtin_type_ast_c \/ typedef_type_ast_c
  /\ c_ast_new(<<Free1>>)
  /\ PushType("type", Free1)
  /\ ProductionFrame /\ UNCHANGED ast_depth

\* A pointer or reference to the type on top of the type stack.
derived_type_c(kind) ==
  /\ BeginDeclarator /\ Room(1) /\ kind \in Derived
  /\ c_ast_new(<<Free1>>)
  /\ h' = c_ast_set_parent([h EXCEPT ![Free1] = NewAst(kind, ast_depth)],
                           type_peek, Free1)
  /\ PushType(kind, Free1)
  /\ ProductionFrame /\ UNCHANGED ast_depth

pointer_type_c == derived_type_c("pointer")
reference_type_c == \E kind \in References : derived_type_c(kind)

\* '(' of nested_decl_c and nested_cast_c.
placeholder_type_ast_c ==
  /\ BeginDeclarator /\ Room(1) /\ ast_depth < MaxDepth
  /\ c_ast_new(<<Free1>>)
  /\ h' = [h EXCEPT ![Free1] = NewAst("placeholder", ast_depth)]
  /\ PushType("nested", Free1)
  /\ ast_depth' = ast_depth + 1
  /\ ProductionFrame

name_c ==
  /\ BeginDeclarator
  /\ \E t \in Undefined : h' = [h EXCEPT ![type_peek].name = t]
  /\ values' = Append(values, Value("decl2", type_peek))
  /\ UNCHANGED <<live, gc, recursive, count, typeStack, ast_depth>>
  /\ ProductionFrame

\* typedef_type_ast_c as a declarator: a name that is a type name already.
typedef_decl_c ==
  /\ BeginDeclarator /\ ~InCast /\ Room(1)
  /\ typedef_type_ast_c
  /\ c_ast_new(<<Free1>>)
  /\ values' = Append(values, [Value("decl2", Free1) EXCEPT !.proper = FALSE])
  /\ UNCHANGED <<typeStack, ast_depth>>
  /\ ProductionFrame

\* cast_opt_c without a cast.
no_cast_c ==
  /\ BeginDeclarator /\ InCast
  /\ values' = Append(values, Value("decl", NIL))
  /\ UNCHANGED <<ast, typeStack, ast_depth>>
  /\ ProductionFrame

\* The array, with a placeholder for what it is an array of.
AddArray ==
  /\ ParsingGibberish /\ TopIs({"decl2"}) /\ Room(2)
  /\ LET array == Free1
         place == Free2
         g == c_ast_set_parent(
                [h EXCEPT ![array] = NewAst("array", ast_depth),
                          ![place] = NewAst("placeholder", ast_depth)],
                place, array)
         nested == Top.target # NIL
         ops == Append(Top.ops, Op("array", <<>>, NIL))
         r == c_ast_add_array(g, IF nested THEN Top.target ELSE Top.ast, array)
     IN  IF r.h = Failed THEN Abort("assert: c_ast_add_array", ops \o Enclosing, Top.proper)
         ELSE /\ h' = r.h
              /\ c_ast_new(<<array, place>>)
              /\ values' = Replace(1, [Top EXCEPT
                    !.ast = IF nested THEN @ ELSE r.rv,
                    !.target = IF nested THEN r.rv ELSE NIL,
                    !.ops = ops])
              /\ UNCHANGED <<typeStack, ast_depth>>
              /\ ProductionFrame

array_decl_c == ~InCast /\ AddArray
array_cast_c == InCast /\ AddArray

\* '(' after a declarator: an argument list.
ArgsOpen ==
  /\ ParsingGibberish /\ TopIs({"decl2"})
  /\ values' = Append(values, Value("args", NIL))
  /\ UNCHANGED <<ast, typeStack, ast_depth>>
  /\ ProductionFrame

\* Without type_pop.
arg_c_push ==
  /\ ParsingGibberish /\ TopTwo({"type"}, Declarator)
  /\ Len(values) > 2 /\ values[Len(values) - 2].tag = "args"
  /\ LET n == IF Top.ast # NIL THEN Top.ast ELSE Below.ast
     IN  values' = Replace(3, [values[Len(values) - 2] EXCEPT
                                 !.list = c_ast_list_append(@, n)])
  /\ UNCHANGED <<ast, typeStack, ast_depth>>
  /\ ProductionFrame

\* arg_c and arg_list_c.
arg_c ==
  /\ ParsingGibberish /\ TopTwo({"type"}, Declarator)
  /\ Len(values) > 2 /\ values[Len(values) - 2].tag = "args"
  /\ LET n == IF Top.ast # NIL THEN Top.ast ELSE Below.ast
         args == values[Len(values) - 2]
         ops == Top.ops \o Meaning(h, Below.ast)
     IN  /\ h' = IF h[n].name = NIL
                 THEN [h EXCEPT ![n].name = c_ast_name(h, n)] ELSE h
         /\ values' = Replace(3, [args EXCEPT !.list = c_ast_list_append(@, n),
                        !.ops = Append(@, ops),
                        !.proper = @ /\ Proper(Top) /\ ArgumentRead(ops)])
  /\ typeStack' = Tail(typeStack)
  /\ UNCHANGED <<live, gc, recursive, count, ast_depth>>
  /\ ProductionFrame

\* The function returns the type on top of the type stack.
AddFunction ==
  /\ ParsingGibberish /\ TopTwo({"decl2"}, {"args"}) /\ Room(1)
  /\ LET func == Free1
         g == [h EXCEPT ![func] = [NewAst("function", ast_depth) EXCEPT
                                     !.args = Top.list]]
         nested == Below.target # NIL
         ops == Append(Below.ops, Op("function", Top.ops, NIL))
         proper == Below.proper /\ Top.proper
         r == c_ast_add_func(g, IF nested THEN Below.target ELSE Below.ast,
                             type_peek, func)
     IN  IF r.h = Failed THEN Abort("assert: c_ast_add_func", ops \o Enclosing, proper)
         ELSE /\ h' = r.h
              /\ c_ast_new(<<func>>)
              /\ values' = Replace(2, [Below EXCEPT
                    !.ast = IF nested THEN @ ELSE r.rv,
                    !.target = r.h[func].of,
                    !.ops = ops, !.proper = proper])
              /\ UNCHANGED <<typeStack, ast_depth>>
              /\ ProductionFrame

\* Whether it is a cast is told before the argument list.
CastFunction ==
  command = "explain cast" \/ \E i \in 1..Len(values) - 1 : values[i].tag = "args"
func_decl_c == ~CastFunction /\ AddFunction
func_cast_c == CastFunction /\ AddFunction

\* pointer_decl_c, reference_decl_c and their casts: a cast returns the patched
\* AST; a declaration returns the declarator, and only pointers patch it.
derived_decl_c(kind) ==
  /\ ParsingGibberish /\ TopTwo({kind}, Declarator)
  /\ LET r == c_ast_patch_placeholder(h, Below.ast, Top.ast)
         patch == InCast \/ kind = "pointer"
         ops == Append(Top.ops, Op(kind, <<>>, NIL))
     IN  IF patch /\ r.h = Failed
         THEN Abort("assert: c_ast_patch_placeholder", ops \o Enclosing, Proper(Top))
         ELSE /\ h' = IF patch THEN r.h ELSE h
              /\ values' = Replace(2,
                     [Top EXCEPT !.tag = "decl", !.ops = ops,
                                 !.proper = Proper(Top),
                                 !.ast = IF InCast THEN r.rv ELSE @,
                                 !.target = IF InCast THEN NIL ELSE @])
              /\ typeStack' = Tail(typeStack)
              /\ UNCHANGED <<live, gc, recursive, count, ast_depth>>
              /\ ProductionFrame

pointer_decl_c == ~InCast /\ derived_decl_c("pointer")
reference_decl_c == ~InCast /\ \E kind \in References : derived_decl_c(kind)
pointer_cast_c == InCast /\ derived_decl_c("pointer")
reference_cast_c == InCast /\ \E kind \in References : derived_decl_c(kind)

\* The ')' of a nested declarator.
Unnest ==
  /\ ParsingGibberish /\ TopTwo({"nested"}, Declarator)
  /\ values' = Replace(2, [Top EXCEPT !.tag = "decl2",
             !.proper = Proper(Top) /\ Top.tag = "decl" /\ Top.ops # <<>>])
  /\ typeStack' = Tail(typeStack)
  /\ ast_depth' = ast_depth - 1
  /\ UNCHANGED ast
  /\ ProductionFrame

nested_decl_c == ~InCast /\ Unnest
nested_cast_c == InCast /\ Unnest

GibberishProduction ==
  \/ type_ast_c \/ name_c \/ typedef_decl_c \/ no_cast_c
  \/ pointer_type_c \/ pointer_decl_c \/ pointer_cast_c
  \/ reference_type_c \/ reference_decl_c \/ reference_cast_c
  \/ placeholder_type_ast_c \/ nested_decl_c \/ nested_cast_c
  \/ array_decl_c \/ array_cast_c
  \/ ArgsOpen \/ arg_c \/ func_decl_c \/ func_cast_c

-----------------------------------------------------------------------------
(* The end of a gibberish command: values are the type and the declarator.  *)

EndGibberish ==
  /\ ParsingGibberish
  /\ Len(values) = 2 /\ TopTwo({"type"}, Declarator)

\* What the declarator and the type say by the rule of C.
Meant == Top.ops \o Meaning(h, Below.ast)

\* Checks, prints the English and collects.  A declaration must have a name.
Explain ==
  /\ EndGibberish /\ command # "typedef"
  /\ LET r == c_ast_patch_placeholder(h, Below.ast, Top.ast)
         verdict == IF command = "explain"
                    THEN c_ast_check(r.h, r.rv) ELSE c_ast_check_cast(r.h, r.rv)
         why == CASE r.h = Failed -> "assert: c_ast_patch_placeholder"
                  [] verdict \notin {"accepted", "rejected"} -> verdict
                  [] /\ command = "explain" /\ verdict = "accepted"
                     /\ c_ast_name(r.h, r.rv) = NIL -> "assert: name"
                  [] OTHER -> "none"
     IN  IF why # "none" THEN Abort(why, Meant, Proper(Top))
         ELSE /\ Ended(Outcome(verdict, NIL, Meaning(r.h, r.rv), Meant,
                               Proper(Top)))
              /\ parse_cleanup
              /\ UNCHANGED <<typedefs, ast_depth>>

explain_declaration_c == command = "explain" /\ Explain
explain_cast_c == command = "explain cast" /\ Explain

\* The list is collected instead, with the node that was freed already.
DropDuplicate_collect(g, root, decl) ==
  LET freed == c_ast_free(g, recursive, root) \o c_ast_free(g, recursive, decl)
  IN  /\ h' = Blank(g, ToSet(gc))
      /\ live' = live \ ToSet(gc)
      /\ count' = count - Len(gc) - Len(freed)
      /\ gc' = <<>>
      /\ values' = <<>> /\ typeStack' = <<>>
      /\ UNCHANGED <<recursive, typedefs>>

\* An existing name with an equivalent type: the new AST is freed, the list is
\* released and the AST of the declarator is freed too.
DropDuplicate(g, root, decl) ==
  LET freed == c_ast_free(g, recursive, root)
      marked == recursive \cup {gc[1]}
      both == freed \o c_ast_free(g, marked, decl)
  IN  /\ Released(gc, ToSet(both))
      /\ h' = Blank(g, ToSet(both))
      /\ live' = live \ ToSet(both)
      /\ count' = count - Len(both)
      /\ gc' = <<>>
      /\ values' = <<>> /\ typeStack' = <<>>
      /\ UNCHANGED typedefs

\* typedef_declaration_c.  When only the type is a type name, the declarator's
\* child is read as if it were a c_typedef: its next, NULL, as the type_name.
typedef_declaration_c ==
  /\ EndGibberish /\ command = "typedef"
  /\ LET type == Below.ast
         decl == Top.ast
         IsDef(n) == h[n].kind = "typedef"
         r == c_ast_patch_placeholder(h, type, decl)
         patched == ~IsDef(type) /\ ~IsDef(decl)
         root == IF patched THEN r.rv ELSE type
         g == IF patched THEN c_ast_take_name(r.h, root) ELSE h
         name == CASE patched -> c_ast_name(r.h, root)
                   [] IsDef(type) /\ IsDef(decl) -> h[type].name
                   [] IsDef(decl) /\ ~IsDef(type) -> h[decl].def
                   [] OTHER -> NIL
         proper == Proper(Top) /\ (IsDef(type) => decl = type)
         check == c_ast_check(g, root)
         why == CASE patched /\ r.h = Failed -> "assert: c_ast_patch_placeholder"
                  [] patched /\ name = NIL -> "assert: name"
                  [] check = "assert: placeholder" -> check
                  [] check # "rejected" /\ name = NIL -> "assert: name"
                  [] OTHER -> "none"
         verdict == IF check = "rejected" THEN check
                    ELSE IF name \in Undefined THEN "defined"
                    ELSE IF c_ast_equiv(g, typedefs, root, typedefs[name])
                    THEN "accepted" ELSE "redefinition"
     IN  IF why # "none" THEN Abort(why, Meant, proper)
         ELSE /\ Ended(Outcome(verdict, name, Meaning(g, root), Meant, proper))
              /\ CASE verdict = "defined" -> AddTypedef(name, root) /\ h' = g
                   [] verdict = "accepted" -> DropDuplicate(g, root, decl)
                   [] OTHER -> parse_cleanup /\ UNCHANGED typedefs
              /\ UNCHANGED ast_depth

\* yyerror, then an error production that aborts: the list is collected before
\* bison unwinds its stack, which is never touched again.
SyntaxError ==
  /\ phase = "parse"
  /\ Ended(Outcome("syntax error", NIL, <<>>, <<>>, FALSE))
  /\ parse_cleanup
  /\ UNCHANGED <<typedefs, ast_depth>>

-----------------------------------------------------------------------------
(* The exit.                                                               *)

quit ==
  /\ phase = "idle"
  /\ phase' = "exit" /\ last' = NoOutcome
  /\ UNCHANGED <<command, subject, ast, typedefs, in_attr, ast_depth>>

\* c_typedef_cleanup: rb_tree_free frees an entry, and c_typedef_free its AST.
FreeTypedef ==
  /\ phase = "exit"
  /\ \E t \in Defined :
       LET freed == c_ast_free(h, recursive, typedefs[t]) IN
       /\ h' = Blank(h, ToSet(freed))
       /\ live' = live \ ToSet(freed)
       /\ recursive' = recursive \ ToSet(freed)
       /\ count' = count - Len(freed)
       /\ typedefs' = [typedefs EXCEPT ![t] = NIL]
  /\ UNCHANGED <<phase, command, subject, gc, in_attr, ast_depth, last>>

\* c_ast_cleanup: an internal error unless every node was freed.
c_ast_cleanup ==
  /\ phase = "exit" /\ Defined = {}
  /\ phase' = "exited"
  /\ last' = [NoOutcome EXCEPT
                !.verdict = IF count > 0 THEN "internal error" ELSE "exit"]
  /\ UNCHANGED <<command, subject, ast, typedefs, in_attr, ast_depth>>

Terminated == phase \in {"exited", "aborted"} /\ UNCHANGED vars

-----------------------------------------------------------------------------
\* c_typedef_init has defined each predefined name as a built-in type, by
\* typedef commands of its own.
Init ==
  \E type \in [Predefined -> BuiltinType] :
    LET cell == CHOOSE c \in [Predefined -> Node] : IsInjective(c)
        At(n) == {t \in Predefined : cell[t] = n}
    IN  /\ phase = "idle" /\ command = NIL /\ subject = NIL
        /\ h = [n \in Node |->
                  IF At(n) = {} THEN NoAst
                  ELSE [NewAst("builtin", 0) EXCEPT
                          !.type = type[CHOOSE t \in At(n) : TRUE]]]
        /\ live = {cell[t] : t \in Predefined}
        /\ gc = <<>> /\ recursive = live /\ count = Cardinality(live)
        /\ typedefs = [t \in Name |-> IF t \in Predefined THEN cell[t] ELSE NIL]
        /\ values = <<>> /\ typeStack = <<>>
        /\ ast_depth = 0
        /\ last = NoOutcome

Next ==
  \/ StartEnglish \/ EnglishProduction \/ declare_english \/ define_english
  \/ cast_english
  \/ StartGibberish \/ GibberishProduction
  \/ explain_declaration_c \/ explain_cast_c \/ typedef_declaration_c
  \/ SyntaxError
  \/ quit \/ FreeTypedef \/ c_ast_cleanup
  \/ Terminated

Spec == Init /\ [][Next]_vars
-----------------------------------------------------------------------------
(* Properties.                                                             *)

Places == DOMAIN values \cup live
ListAt(p) == IF p \in live THEN h[p].args ELSE values[p].list

\* The parser never holds a node that has been freed, and its stacks, its
\* lists and the typedef table hold what their types say.
TypeOK ==
  /\ phase \in {"idle", "parse", "exit", "exited", "aborted"}
  /\ command \in Commands \cup {NIL} /\ subject \in Name \cup {NIL}
  /\ (phase = "idle") => (command = NIL)
  /\ ToSet(gc) \subseteq live /\ recursive \subseteq live
  /\ IsInjective(gc)
  /\ ToSet(typeStack) \subseteq ToSet(gc)
  /\ \A i \in DOMAIN values :
       values[i].ast \in live \cup {NIL} /\ values[i].target \in live \cup {NIL}
  /\ \A p \in Places : ToSet(ListAt(p)) \subseteq live
  /\ typedefs \in [Name -> live \cup {NIL}]
  /\ \A n \in live : h[n].kind \in Kind
  /\ ast_depth \in 0..MaxDepth
  /\ count \in Nat

\* A node has one next pointer, for the type stack and for the list of a
\* function's arguments: it is on one of them at most, and once.  Otherwise
\* type_pop, or the walk along an argument list, would go astray.
OneList ==
  /\ IsInjective(typeStack)
  /\ \A p \in Places : IsInjective(ListAt(p))
                       /\ ToSet(ListAt(p)) \cap ToSet(typeStack) = {}
  /\ \A p, q \in Places : p # q => ToSet(ListAt(p)) \cap ToSet(ListAt(q)) = {}

\* The last command has been read, with nothing that is read wrong.
Readable ==
  /\ last.proper
  /\ CASE last.command = "explain cast" ->
            CastRead(last.meant) /\ last.meant[1].kind \in Pointing
       [] last.command = "cast" ->
            Legal(last.meant) /\ last.meant[1].kind \notin {"array", "function"}
       [] last.command \in {"declare", "define"} -> Legal(last.meant)
       [] OTHER -> DeclarationRead(last.meant)

\* A readable declaration or cast is neither rejected nor fatal, and the AST
\* built for it denotes the type that was written, although the productions
\* link, relink and patch its nodes in the order of the tokens and whatever
\* ast_depth earlier errors have left behind.
ReadRight ==
  phase \in {"idle", "aborted"} /\ Readable =>
    /\ last.verdict \in {"accepted", "defined", "redefinition"}
    /\ last.built = last.meant

TypeOf(t) == Meaning(h, typedefs[t])

\* Once defined, a type name means the same until the exit, whatever commands
\* succeed or fail in between.
TypesKept ==
  [][phase # "exit" =>
       \A t \in Defined : t \in Defined' /\ TypeOf(t)' = TypeOf(t)]_vars

\* No type is defined by itself, directly or through others: c_ast_equiv goes
\* through the definitions of type names and would never return.
NotCircular ==
  \A T \in SUBSET Defined : T # {} =>
    \E t \in T : \A n \in ToSet(c_ast_free(h, Node, typedefs[t])) :
                   h[n].def \notin T

\* An accepted definition of a name that is a type name means its type, and a
\* refused one means another.
SameType ==
  /\ last.verdict = "accepted" => last.meant = TypeOf(last.name)
  /\ last.verdict = "redefinition" => last.meant # TypeOf(last.name)

\* define_english accepts a type name again if and only if the type is the same.
RedefinitionExact ==
  last.command = "define" /\ last.name \in Defined => SameType

\* The heap behaves as AstHeap says: a command either loses all its nodes or
\* gives the tree it defined to the table, which alone frees it.
Heap == INSTANCE AstHeap WITH
  gc <- ToSet(gc),
  head <- IF gc = <<>> THEN NIL ELSE gc[1],
  of <- [n \in Node |-> IF n \in ToSet(gc) THEN NIL ELSE h[n].of],
  args <- [n \in Node |-> IF n \in ToSet(gc) THEN {} ELSE ToSet(h[n].args)],
  roots <- {typedefs[t] : t \in Defined}
ImplementsHeap == Heap!Spec

-----------------------------------------------------------------------------
(* What the code says of itself and does not keep; see the findings.       *)

\* c_ast_cleanup, which counts the nodes, finds every node freed.
CleanExit == last.verdict # "internal error"

\* explain_declaration_c finds the name of a declaration.
NameFound == last.proper /\ Legal(last.meant) => last.verdict # "assert: name"
=============================================================================
