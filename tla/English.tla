------------------------------- MODULE English -------------------------------
(***************************************************************************)
(* A session in English under changing languages: declare, define, cast,   *)
(* show and set, with all that a declaration in English may say, read by   *)
(* the productions of parser.y.  What stands between a production's first  *)
(* word and its reduction is on bison's stack, here frames; the qualifiers *)
(* read before a production wait on in_attr's own stack.                   *)
(*                                                                         *)
(* A definition whose name ends in an underscore and a word in capitals is *)
(* another one with a mistake that a property must notice.                 *)
(***************************************************************************)
EXTENDS Checks

CONSTANTS
  Languages,  \* those that are set
  TypeNames,  \* what may be defined
  Predefined, \* the names defined at the start
  Commands,   \* of {"declare", "define", "cast", "static cast", "show"}
  Storages,   \* lists of storage classes
  Derived,    \* the productions that derive a declaration from another one
  Qualified,  \* the sets of qualifiers of each production
  Arrays,     \* sizes and qualifiers of arrays
  Types,      \* lists of words that are types
  Leaves,     \* other declarations that are not derived
  MaxNodes    \* bound of the model on the nodes of defined types and a declaration

ASSUME EnglishAssumption ==
  /\ Languages \subseteq Language /\ Predefined \subseteq TypeNames
  /\ Derived \subseteq {"pointer", "pointer to member", "array", "named"} \cup References
                       \cup Called
  /\ Qualified \in [Derived \cup {"type"} -> SUBSET SUBSET QualifierBit]
  /\ Leaves \subseteq {"x", "..."}
  /\ MaxNodes \in Nat

VARIABLES
  lang,           \* opt_lang
  typedefs,       \* the typedef table: the AST, what was said, and whether by the user
  command,        \* the command, the name it is about and its storage classes
  frames,         \* bison's stack, the outermost first
  qualifier_head, \* in_attr.qualifier_head, the innermost first
  value,          \* the declaration that has been reduced, or none
  said,           \* the words of the declaration, and those that go without saying
  last            \* the last command, while none is running

vars == <<lang, typedefs, command, frames, qualifier_head, value, said, last>>

Entry(ast, words, user) == [ast |-> ast, said |-> words, user_defined |-> user]
NoType == Entry(<<>>, <<>>, FALSE)
NoCommand == [is |-> "none", name |-> "", storage |-> {}]
Nothing == [is |-> "nothing", ok |-> FALSE, ast |-> <<>>, said |-> <<>>, old |-> NoType,
            types |-> <<>>]

Idle == command.is = "none"
Aborted == command.is = "aborted" \* an assertion failed
Defined(name) == name \in TypeNames /\ typedefs[name] # NoType
ast_of == [name \in TypeNames |-> typedefs[name].ast]

\* Qualifiers come in any order; they are read in this one.
Spelled(bits) == SelectSeq(NameOrder, LAMBDA b : b \in bits)

-----------------------------------------------------------------------------
(* Types: type_english.                                                    *)

Modifiers == {"complex", "long", "short", "signed", "unsigned", "register"}

Tagged == {"enum", "struct", "union", "class"}

\* The nodes of unmodified_type_english.
Unmodified(word) ==
  CASE word \in TypeNames -> [Node("typedef", {"type_name"}) EXCEPT !.tag = word]
    [] word \in Tagged ->
         [Node("ecsu", {word}) EXCEPT !.tag = "S"]
    [] OTHER -> Node("builtin", {word})

\* A tag is said after its word.
Spoken(words) ==
  FlattenSeq([k \in DOMAIN words |-> IF words[k] \in Tagged THEN <<words[k], "S">>
                                    ELSE <<words[k]>>])

\* type_modifier_list_english.
ModifierList(words) ==
  FoldLeft(LAMBDA list, w : IF list = {} THEN {w} ELSE c_type_add(list, {w}), {},
           SelectSeq(words, LAMBDA w : w \in Modifiers))

Bases(words) == SelectSeq(words, LAMBDA w : w \notin Modifiers)

\* Qualifiers and modifiers are added to the type, or to the implicit int.
TypeNode(l, words, qualifiers) ==
  LET base == IF Bases(words) = <<>> THEN Node("builtin", Implicit(l))
              ELSE Unmodified(Head(Bases(words)))
  IN  [base EXCEPT !.type = c_type_add(c_type_add(@, qualifiers), ModifierList(words))]

\* typedef unsigned long size_t, as it is parsed in the language of the start.
Builtins(l) ==
  LET words == <<"unsigned", "long">>
  IN  Entry(<<TypeNode(l, words, {})>>,
            words \o (IF Implicit(l) = {} THEN <<>> ELSE <<"int">>), FALSE)

Init ==
  /\ lang \in Languages
  /\ typedefs = [n \in TypeNames |-> IF n \in Predefined THEN Builtins(lang) ELSE NoType]
  /\ command = NoCommand /\ frames = <<>> /\ qualifier_head = <<>> /\ value = <<>>
  /\ said = <<>> /\ last = Nothing

-----------------------------------------------------------------------------
(* The commands begin, and fail.                                           *)

\* The qualifiers of the command stay for the next.
PARSE_ABORT_STALE(result) ==
  /\ command' = NoCommand /\ frames' = <<>> /\ value' = <<>>
  /\ said' = <<>> /\ last' = result
  /\ UNCHANGED <<lang, typedefs, qualifier_head>>

\* parse_cleanup clears the stacks.
PARSE_ABORT(result) ==
  /\ command' = NoCommand /\ frames' = <<>> /\ qualifier_head' = <<>> /\ value' = <<>>
  /\ said' = <<>> /\ last' = result
  /\ UNCHANGED <<lang, typedefs>>

\* The declaration, with the storage classes that were said first.
Stored == <<[Head(value) EXCEPT !.type = c_type_add(@, command.storage)]>> \o Tail(value)

Result(ok) == [is |-> command.is, ok |-> ok, ast |-> Stored,
               said |-> Spelled(command.storage) \o said,
               old |-> IF Defined(command.name) THEN typedefs[command.name] ELSE NoType,
               types |-> <<>>]

SyntaxError == ~Idle /\ ~Aborted /\ PARSE_ABORT(Nothing)

\* assert.
Abort == /\ command' = [NoCommand EXCEPT !.is = "aborted"]
         /\ frames' = <<>> /\ qualifier_head' = <<>> /\ value' = <<>>
         /\ said' = <<>> /\ last' = Nothing
         /\ UNCHANGED <<lang, typedefs>>

set_command ==
  /\ Idle /\ lang' \in Languages
  /\ last' = Nothing
  /\ UNCHANGED <<typedefs, command, frames, qualifier_head, value, said>>

\* What show prints of each type there is.
print_typedef == [n \in {m \in TypeNames : Defined(m)} |-> c_ast_english(typedefs[n].ast)]

print_typedef_visitor(which) ==
  Restrict(print_typedef,
           {n \in DOMAIN print_typedef :
              which \in {"all", IF typedefs[n].user_defined THEN "user" ELSE "predefined"}})

Show(is, types) ==
  /\ Idle /\ "show" \in Commands
  /\ last' = [Nothing EXCEPT !.is = is, !.types = types]
  /\ UNCHANGED <<lang, typedefs, command, frames, qualifier_head, value, said>>

show_type_command == \E n \in DOMAIN print_typedef : Show("one", Restrict(print_typedef, {n}))

show_types_command ==
  \E which \in {"all", "predefined", "user"} : Show(which, print_typedef_visitor(which))

\* The word auto is a storage class up to C++03, pure says virtual too.
Says(word) == IF word = "pure" THEN {"pure", "virtual"} ELSE {word}

storage_class_list_opt_english(words) ==
  FoldLeft(LAMBDA list, w : c_type_add(list, Says(w)), {}, words)

Begin(is, name, words) ==
  LET storage == storage_class_list_opt_english(words)
  IN  /\ Idle /\ is \in Commands
      /\ "auto" \in ToSet(words) => lang \in ok_langs("auto")
      /\ IF storage = Conflict THEN UNCHANGED command
         ELSE command' = [is |-> is, name |-> name, storage |-> storage]
      /\ last' = Nothing
      /\ UNCHANGED <<lang, typedefs, frames, qualifier_head, value, said>>

BeginDeclare == \E words \in Storages : Begin("declare", "x", words)
BeginDefine == \E n \in TypeNames, words \in Storages : Begin("define", n, words)
BeginCast == \E is \in {"cast", "static cast"} : Begin(is, "", <<>>)

-----------------------------------------------------------------------------
(* The productions of decl_english up to the declaration within.            *)

Frame(is) == [is |-> is, ref |-> {}, size |-> "none", quals |-> {}, args |-> <<>>,
              part |-> "decl"]
Top == Last(frames)

\* A declaration comes next.
Expecting == ~Idle /\ ~Aborted /\ value = <<>> /\ (frames # <<>> => Top.part # "closed")

\* Nodes: of an AST with its arguments, of a frame with what it returns.
RECURSIVE Weight(_)
Weight(ast) ==
  FoldLeft(LAMBDA n, node : FoldLeft(LAMBDA m, arg : m + Weight(arg), n + 1, node.args),
           0, ast)
FrameWeight(f) ==
  FoldLeft(LAMBDA m, arg : m + Weight(arg),
           IF f.is \in Called /\ f.part # "decl" THEN 2 ELSE 1, f.args)
TableWeight == FoldFunction(LAMBDA e, n : n + Weight(e.ast), 0, typedefs)

\* Whether n nodes more are within the bound.
Room(n) ==
  FoldLeft(LAMBDA m, f : m + FrameWeight(f), n + TableWeight + Weight(value), frames)
    <= MaxNodes

qualifier_push(qualifiers) == qualifier_head' = <<qualifiers>> \o qualifier_head

Shift(frame, words) ==
  /\ Expecting /\ Room(FrameWeight(frame) + IF frame.part = "closed" THEN 0 ELSE 1)
  /\ frames' = Append(frames, frame)
  /\ said' = said \o words
  /\ UNCHANGED <<lang, typedefs, command, value, last>>

array == /\ "array" \in Derived
         /\ \E a \in Arrays :
              Shift([Frame("array") EXCEPT !.size = a.size, !.quals = a.quals],
                    (IF a.size = "*" THEN <<"variable length">> ELSE <<>>)
                    \o <<"array">> \o Spelled(a.quals)
                    \o (IF a.size \in {"*", "none"} THEN <<>> ELSE <<a.size>>) \o <<"of">>)
         /\ UNCHANGED qualifier_head

pointer == /\ "pointer" \in Derived
           /\ \E q \in Qualified["pointer"] :
                /\ Shift(Frame("pointer"), Spelled(q) \o <<"pointer", "to">>)
                /\ qualifier_push(q)

pointer_to_member ==
  /\ "pointer to member" \in Derived
  /\ \E q \in Qualified["pointer to member"] :
       /\ Shift(Frame("pointer to member"),
                Spelled(q) \o <<"pointer to member of", "class", "S">>)
       /\ qualifier_push(q)

reference ==
  \E is \in References \cap Derived : \E q \in Qualified[is] :
    Shift(Frame(is), Spelled(q) \o <<is, "to">>) /\ qualifier_push(q)

\* With arguments or without.
function ==
  /\ "function" \in Derived
  /\ \E q \in Qualified["function"],
        ref \in {{}} \cup {{r} : r \in RefQualifierBit}, open \in BOOLEAN :
       /\ Shift([Frame("function") EXCEPT !.ref = ref, !.part = IF open THEN "args" ELSE "closed"],
                Spelled(q) \o Spelled(ref) \o <<"function">> \o IF open THEN <<"(">> ELSE <<>>)
       /\ qualifier_push(q)

block ==
  /\ "block" \in Derived
  /\ \E q \in Qualified["block"], open \in BOOLEAN :
       /\ Shift([Frame("block") EXCEPT !.part = IF open THEN "args" ELSE "closed"],
                Spelled(q) \o <<"block">> \o IF open THEN <<"(">> ELSE <<>>)
       /\ qualifier_push(q)

named == /\ "named" \in Derived
         /\ Shift(Frame("named"), <<"y", "as">>)
         /\ UNCHANGED qualifier_head

-----------------------------------------------------------------------------
(* The declarations that are not derived.                                  *)

Reduced(ast, words) ==
  /\ value' = ast /\ said' = said \o words
  /\ UNCHANGED <<lang, typedefs, command, frames, qualifier_head, last>>

\* Its own qualifiers are pushed and popped again.
type_english ==
  /\ Expecting
  /\ \E words \in Types, q \in Qualified["type"] :
       LET node == TypeNode(lang, words, q)
           implicit == IF Bases(words) = <<>> THEN Spelled(Implicit(lang)) ELSE <<>>
       IN  /\ \A w \in ToSet(words) : /\ w \in TypeNames => Defined(w)
                                      /\ w = "deduced" => lang \notin ok_langs("auto")
           /\ IF Conflict = node.type THEN PARSE_ABORT(Nothing)
              ELSE Reduced(<<node>>, Spelled(q) \o Spoken(words) \o implicit)

\* var_decl_english: a name alone, or an ellipsis.
var_decl_english ==
  /\ Expecting
  /\ \E leaf \in Leaves :
       Reduced(<<IF leaf = "..." THEN Node("variadic", {})
                 ELSE [Node("name", {}) EXCEPT !.name = leaf]>>, <<leaf>>)

-----------------------------------------------------------------------------
(* Reductions.                                                             *)

Complete == ~Idle /\ value # <<>>

\* The qualifiers are peeked after they have been popped.
qualifier_peek_LATE ==
  IF Len(qualifier_head) > 1 THEN qualifier_head[2] ELSE {}

qualifier_peek == Head(qualifier_head)

\* The node of the frame at the top, put above the declaration.
Derive(node) ==
  /\ value' = <<node>> \o value
  /\ frames' = Front(frames) /\ qualifier_head' = Tail(qualifier_head)
  /\ UNCHANGED <<lang, typedefs, command, said, last>>

pointer_decl_english ==
  /\ Complete /\ frames # <<>> /\ Top.is = "pointer"
  /\ Derive(Node("pointer", qualifier_peek))

pointer_to_member_decl_english ==
  /\ Complete /\ frames # <<>> /\ Top.is = "pointer to member"
  /\ Derive([Node("pointer to member", qualifier_peek \cup {"class"}) EXCEPT !.tag = "S"])

reference_decl_english ==
  /\ Complete /\ frames # <<>> /\ Top.is \in References
  /\ Derive(Node(Top.is, qualifier_peek))

array_decl_english ==
  /\ Complete /\ frames # <<>> /\ Top.is = "array"
  /\ value' = <<[Node("array", {}) EXCEPT !.size = Top.size, !.quals = Top.quals]>> \o value
  /\ frames' = Front(frames)
  /\ UNCHANGED <<lang, typedefs, command, qualifier_head, said, last>>

func_decl_english ==
  /\ Complete /\ frames # <<>> /\ Top.is \in Called /\ Top.part = "decl"
  /\ Derive([Node(Top.is, qualifier_peek \cup Top.ref) EXCEPT !.args = Top.args])

\* An argument is the declaration reduced; another follows or the list is closed.
decl_list_english ==
  /\ Complete /\ frames # <<>> /\ Top.part = "args"
  /\ \E more \in BOOLEAN :
       /\ more => Room(1)
       /\ frames' = Append(Front(frames), [Top EXCEPT !.args = Append(@, value),
                                                      !.part = IF more THEN @ ELSE "closed"])
       /\ said' = said \o <<IF more THEN "," ELSE ")">>
  /\ value' = <<>>
  /\ UNCHANGED <<lang, typedefs, command, qualifier_head, last>>

\* void goes without saying.
returning_opt_english ==
  /\ ~Idle /\ frames # <<>> /\ Top.part = "closed"
  /\ frames' = Append(Front(frames), [Top EXCEPT !.part = "decl"])
  /\ \/ /\ value' = <<Node("builtin", {"void"})>> /\ said' = said \o <<"returning", "void">>
     \/ /\ UNCHANGED value /\ said' = said \o <<"returning">>
  /\ UNCHANGED <<lang, typedefs, command, qualifier_head, last>>

\* NAME AS decl_english: nothing in the declaration has a name, or it aborts.
var_decl_named ==
  /\ Complete /\ frames # <<>> /\ Top.is = "named"
  /\ IF Head(value).name # "" THEN Abort
     ELSE /\ value' = <<[Head(value) EXCEPT !.name = "y"]>> \o Tail(value)
          /\ frames' = Front(frames)
          /\ UNCHANGED <<lang, typedefs, command, qualifier_head, said, last>>

-----------------------------------------------------------------------------
(* The commands end.                                                       *)

Finish(ok, table) ==
  /\ command' = NoCommand /\ frames' = <<>> /\ qualifier_head' = <<>> /\ value' = <<>>
  /\ said' = <<>> /\ last' = Result(ok)
  /\ typedefs' = table
  /\ UNCHANGED lang

AtEnd(is) == Complete /\ frames = <<>> /\ command.is = is

Accepted == Head(Stored).type # Conflict /\ c_ast_check(lang, Stored, "declare")

declare_english ==
  /\ AtEnd("declare")
  /\ IF Head(value).kind = "name" THEN PARSE_ABORT(Result(FALSE))
     ELSE IF Head(value).name # "" THEN Abort
     ELSE IF Accepted THEN Finish(TRUE, typedefs)
     ELSE PARSE_ABORT(Result(FALSE))

define_english ==
  /\ AtEnd("define")
  /\ LET n == command.name
     IN  IF Head(value).kind = "name" /\ ~Defined(n) THEN PARSE_ABORT(Result(FALSE))
         ELSE IF ~Accepted THEN PARSE_ABORT(Result(FALSE))
         ELSE IF ~Defined(n)
         THEN Finish(TRUE, [typedefs EXCEPT ![n] = Entry(Stored, Result(TRUE).said, TRUE)])
         ELSE IF c_ast_equiv(ast_of, typedefs[n].ast, Stored) THEN Finish(TRUE, typedefs)
         ELSE PARSE_ABORT(Result(FALSE))

cast_english ==
  /\ AtEnd("cast") \/ AtEnd("static cast")
  /\ IF /\ command.is = "static cast" => lang \in LANG_MIN("c++11")
        /\ c_ast_check(lang, value, "cast")
     THEN Finish(TRUE, typedefs) ELSE PARSE_ABORT(Result(FALSE))

Finished == Aborted /\ UNCHANGED vars

Next ==
  \/ SyntaxError \/ set_command \/ show_type_command \/ show_types_command
  \/ BeginDeclare \/ BeginDefine \/ BeginCast
  \/ array \/ pointer \/ pointer_to_member \/ reference \/ function \/ block \/ named
  \/ type_english \/ var_decl_english
  \/ pointer_decl_english \/ pointer_to_member_decl_english \/ reference_decl_english
  \/ array_decl_english \/ func_decl_english \/ decl_list_english
  \/ returning_opt_english \/ var_decl_named
  \/ declare_english \/ define_english \/ cast_english
  \/ Finished

Spec == Init /\ [][Next]_vars
-----------------------------------------------------------------------------
(* Properties.                                                             *)

\* The stack of qualifiers has one for each production that waits for its own, and
\* none is left over from a command that was given up.
TypeOK ==
  /\ lang \in Languages
  /\ Len(qualifier_head) = Len(SelectSeq(frames, LAMBDA f : f.is \notin {"array", "named"}))
  /\ Idle \/ Aborted => frames = <<>> /\ value = <<>> /\ said = <<>>
  /\ ~Idle => last = Nothing
  /\ \A n \in TypeNames : typedefs[n].ast = <<>> <=> typedefs[n] = NoType

\* An AST and all the arguments in it.
RECURSIVE Declarations(_, _)
Declarations(ast, argument) ==
  {[ast |-> ast, argument |-> argument]}
  \cup UNION {UNION {Declarations(arg, TRUE) : arg \in ToSet(n.args)} : n \in ToSet(ast)}

\* What a declaration is of: void, an object, ...
Sort(ast) ==
  LET n == Head(ast)
  IN  CASE n.kind \in {"array", "function"} -> n.kind
        [] n.kind \in References -> "reference"
        [] n.kind = "builtin" /\ "void" \in n.type -> "void"
        [] OTHER -> "object"

\* What each kind of node may be derived from.
From(kind) ==
  CASE kind = "array" -> {"object", "array"}
    [] kind \in Called -> {"object", "void", "reference"}
    [] kind \in {"pointer", "pointer to member"} -> {"object", "array", "function", "void"}
    [] kind \in References -> {"object", "array", "function"}

\* The languages of a kind of node.
KindLanguages(kind) ==
  CASE kind \in {"pointer to member", "reference"} -> LANG_CPP_ALL
    [] kind = "rvalue reference" -> LANG_MIN("c++11")
    [] OTHER -> Language

\* What a function may be said to be.
Callable(l, n) ==
  /\ n.type \cap {"auto", "__block", "mutable", "register", "thread_local"} = {}
  /\ n.kind = "function" =>
       /\ l \notin LANG_CPP_ALL => n.type \cap QualifierBit = {}
       /\ n.type \cap RefQualifierBit # {} =>
            l \in LANG_MIN("c++11") /\ n.type \cap {"extern", "static"} = {}
       /\ "pure" \in n.type => "virtual" \in n.type

\* What C says of the arguments of a function.
Arguable(l, args) ==
  \A k \in DOMAIN args :
    LET arg == Head(args[k])
    IN  /\ Sort(args[k]) = "void" => Len(args) = 1 /\ arg.name = ""
        /\ arg.kind = "variadic" => k > 1 /\ k = Len(args)
        /\ arg.kind = "name" => l \notin LANG_CPP_ALL
        /\ l = "knr" => arg.kind = "name"
        /\ arg.type \cap StorageBit \subseteq {"register"}

\* A declaration is legal if each part of it is derived from what it may be, and its
\* words are the language's.
Legal(l, ast) ==
  \A d \in Declarations(ast, FALSE) :
    /\ \A i \in DOMAIN d.ast :
         LET n == d.ast[i]
         IN  /\ l \in KindLanguages(n.kind)
             /\ c_type_check(l, n.type)
             /\ n.kind = "builtin" => n.type \cap TypeBit # {}
             /\ i < Len(d.ast) => Sort(SubSeq(d.ast, i + 1, Len(d.ast))) \in From(n.kind)
             /\ n.kind \in Called =>
                  /\ Callable(l, n) /\ Arguable(l, n.args)
                  /\ "deduced" \in d.ast[i + 1].type => l \in LANG_MIN("c++14")
             /\ "noreturn" \in n.type => n.kind = "function"
             /\ n.size = "*" \/ n.quals # {} => d.argument /\ l \in {"c99", "c11"}
             /\ "register" \in n.type => i = 1 /\ n.kind # "ecsu"
             /\ "inline" \in n.type /\ n.kind = "builtin" => l \in LANG_MIN("c++17")
    /\ d.argument => "deduced" \notin Head(d.ast).type
    /\ ~d.argument => Sort(d.ast) # "void"

\* The code allows more than C: references of references and arrays of them, what a
\* function returns in a register, a type name as if it were an object, and names and
\* ellipses that are no arguments.
Lax(ast) ==
  \E d \in Declarations(ast, FALSE) :
    \/ \E i \in 1..Len(d.ast) - 1 :
         LET n == d.ast[i] of == d.ast[i + 1]
         IN  \/ n.kind \in References \cup {"array"} /\ of.kind \in References
             \/ n.kind \in Called \cup {"array"} /\ "register" \in of.type
             \/ of.kind \in {"name", "variadic"}
    \/ \E i \in DOMAIN d.ast :
         d.ast[i].kind = "typedef" /\ Sort(typedefs[d.ast[i].tag].ast) # "object"
    \/ ~d.argument /\ Head(d.ast).kind \in {"name", "variadic"}

Castable(ast) ==
  /\ Head(ast).kind \notin {"array", "function"}
  /\ \A i \in DOMAIN ast : ast[i].type \cap StorageBit = {}

\* A declaration is accepted if and only if it is legal in the current language,
\* however deep in a declarator, or in the arguments of arguments, that is decided.
CheckedRight ==
  /\ last.is \in {"declare", "cast", "static cast"}
  /\ Head(last.ast).type # Conflict /\ ~Lax(last.ast)
  => (last.ok <=>
        /\ Legal(lang, last.ast)
        /\ last.is # "declare" => Castable(last.ast)
        /\ last.is = "static cast" => lang \in LANG_MIN("c++11"))

\* No type name has qualifiers or a storage class, which are lost when it is looked
\* through or printed.
RECURSIVE NamePlain(_)
NamePlain(ast) ==
  \A d \in Declarations(ast, FALSE) :
    \A i \in DOMAIN d.ast :
      d.ast[i].kind = "typedef" =>
        d.ast[i].type = {"type_name"} /\ NamePlain(typedefs[d.ast[i].tag].ast)

\* english.c prints no storage class of a pointer, prints register after the
\* qualifiers' place, an ellipsis as "variadic", and names of arguments only.
Printable(ast) ==
  /\ NamePlain(ast) /\ Head(ast).name = ""
  /\ \A d \in Declarations(ast, FALSE) :
       /\ \A i \in DOMAIN d.ast : /\ d.ast[i].type \cap StorageBit = {}
                                  /\ d.ast[i].kind # "variadic"
       /\ \A i \in 2..Len(d.ast) : d.ast[i].name = ""

\* Words without those that go without saying.
Normal(words) ==
  LET Said(i) == /\ words[i] # "signed"
                 /\ words[i] = "int" /\ i > 1 => words[i - 1] \notin IntegerBit
      at == SelectSeq([i \in DOMAIN words |-> i], Said)
  IN  [k \in DOMAIN at |-> words[at[k]]]

\* What show prints of each type is what was said when it was defined, and it prints
\* the types that were asked for, also after a predefined one was defined again.
ShownRight ==
  /\ \A n \in DOMAIN last.types :
       Printable(typedefs[n].ast) => Normal(last.types[n]) = Normal(typedefs[n].said)
  /\ last.is \in {"all", "predefined", "user"} =>
       DOMAIN last.types = {n \in TypeNames : /\ Defined(n)
                                              /\ last.is = "user" => n \notin Predefined
                                              /\ last.is = "predefined" => n \in Predefined}

\* The words with the definitions of type names in their place, and without names.
RECURSIVE Expanded(_)
Expanded(words) ==
  FlattenSeq([k \in DOMAIN words |->
    CASE words[k] \in {"x", "y", "as"} -> <<>>
      [] Defined(words[k]) -> Expanded(typedefs[words[k]].said)
      [] OTHER -> <<words[k]>>])

Again == last.is = "define" /\ last.old # NoType /\ Head(last.ast).type # Conflict

\* A type name is accepted again if and only if the declaration is legal and the words
\* are the same, with what the names in them mean and the int that each language
\* supplied, whatever the language was when either was defined.
RedefinedExact ==
  Again /\ NamePlain(last.ast) /\ NamePlain(last.old.ast) =>
    (last.ok <=> /\ c_ast_check(lang, last.ast, "declare")
                 /\ Expanded(last.said) = Expanded(last.old.said))
=============================================================================
