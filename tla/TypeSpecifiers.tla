--------------------------- MODULE TypeSpecifiers ---------------------------
(***************************************************************************)
(* The specifiers of a declaration: type_ast_c of parser.y reads them one  *)
(* at a time into the bits of a c_type_t, which c_type.c (CTypes) adds,    *)
(* checks and names.                                                       *)
(*                                                                         *)
(* The specifiers are those of arithmetic types and void, and a few storage *)
(* classes and qualifiers; what they are specifiers of has a parent in the *)
(* AST.                                                                    *)
(*                                                                         *)
(* A definition whose name ends in an underscore and a word in capitals is *)
(* another one with a mistake that a property must notice.                 *)
(***************************************************************************)
EXTENDS CTypes

CONSTANTS Languages, \* those that are set, of Language
          Builtin,   \* the tokens of builtin_type_c
          Modifier,  \* the tokens of type_modifier_c
          MaxTokens  \* bound of the model on the specifiers of a declaration

ASSUME TokenAssumption ==
  /\ Languages \subseteq Language
  /\ Builtin \subseteq {"void", "bool", "char", "wchar_t", "int", "float", "double"}
  /\ Modifier \subseteq {"short", "long", "signed", "unsigned", "complex",
                         "auto", "extern", "register", "static",
                         "const", "restrict", "volatile"}
  /\ MaxTokens \in Nat

-----------------------------------------------------------------------------
(* parser.y.                                                               *)

VARIABLES
  lang,   \* opt_lang
  tokens, \* the specifiers read
  before, \* type_modifier_list_c, before the built-in type
  base,   \* builtin_type_c, or {}
  after,  \* type_modifier_list_opt_c, after it
  verdict \* "reading", then "conflict", "illegal" or "legal"

vars == <<lang, tokens, before, base, after, verdict>>

Init ==
  /\ lang \in Languages
  /\ tokens = <<>> /\ before = {} /\ base = {} /\ after = {}
  /\ verdict = "reading"

Reading == verdict = "reading"

\* type_modifier_list_c: a list begins with its first modifier.
Extend(list, m) == IF list = {} THEN {m} ELSE c_type_add(list, {m})

\* The parser goes on after a conflict.
type_modifier_c_ON ==
  /\ Reading /\ Len(tokens) < MaxTokens
  /\ \E m \in Modifier :
       /\ tokens' = Append(tokens, m)
       /\ IF base = {} THEN before' = Extend(before, m) /\ UNCHANGED after
                       ELSE after' = Extend(after, m) /\ UNCHANGED before
  /\ UNCHANGED <<lang, base, verdict>>

type_modifier_c ==
  /\ Reading /\ Len(tokens) < MaxTokens
  /\ \E m \in Modifier :
       /\ tokens' = Append(tokens, m)
       /\ IF base = {} THEN before' = Extend(before, m) /\ UNCHANGED after
                       ELSE after' = Extend(after, m) /\ UNCHANGED before
  /\ verdict' = IF Conflict \in {before', after'} THEN "conflict" ELSE verdict
  /\ UNCHANGED <<lang, base>>

builtin_type_c ==
  /\ Reading /\ Len(tokens) < MaxTokens /\ base = {}
  /\ \E b \in Builtin : base' = {b} /\ tokens' = Append(tokens, b)
  /\ UNCHANGED <<lang, before, after, verdict>>

\* The type that type_ast_c makes of its parts.
Type ==
  IF base = {} THEN c_type_add(Implicit(lang), before)
  ELSE c_type_add(c_type_add(base, before), after)

\* type_ast_c, then c_ast_check: a type without a type bit is an implicit int.
type_ast_c ==
  /\ Reading /\ tokens # <<>>
  /\ verdict' = IF Type = Conflict THEN "conflict"
                ELSE IF c_type_check(lang, Type) /\ Type \cap TypeBit # {} THEN "legal"
                ELSE "illegal"
  /\ UNCHANGED <<lang, tokens, before, base, after>>

Finished == ~Reading /\ UNCHANGED vars

Next == type_modifier_c \/ builtin_type_c \/ type_ast_c \/ Finished

Spec == Init /\ [][Next]_vars

-----------------------------------------------------------------------------
(* Properties.                                                             *)

Times(t) == Cardinality({i \in DOMAIN tokens : tokens[i] = t})

\* The bits that say what was written.
Written ==
  ToSet(tokens) \cup (IF Times("long") = 2 THEN {"long_long"} ELSE {})
                \cup (IF base = {} THEN Implicit(lang) ELSE {})

\* The specifiers are on both sides of a built-in type and say long on both, and
\* more than that after it.
LongAround == "long" \in before /\ "long" \in after /\ after # {"long"}

\* A declaration in which a modifier conflicts is given up at once.
TypeOK ==
  /\ lang \in Language
  /\ ToSet(tokens) \subseteq Builtin \cup Modifier
  /\ base \subseteq Builtin /\ Cardinality(base) <= 1
  /\ verdict # "conflict" =>
       before \cup after \subseteq Modifier \cup {"long_long"}
  /\ verdict \in {"reading", "conflict", "illegal", "legal"}

\* Whatever the order of the specifiers, and whichever are before and after the
\* built-in type, the type is what was written.
OrderFree ==
  verdict \in {"legal", "illegal"} /\ ~LongAround => Type = Written

\* The arithmetic types of C, without int where it goes without saying.
CType(l) ==
  LET Sign == IF l = "knr" THEN {{}, {"unsigned"}} ELSE {{}, {"signed"}, {"unsigned"}}
      Size == {{"short"}, {"long"}}
              \cup (IF Rank(l) >= Rank("c99") THEN {{"long", "long_long"}} ELSE {})
      Integer == {sign \cup size \cup int : sign \in Sign, size \in Size \cup {{}},
                                            int \in {{}, {"int"}}} \ {{}}
      Character == {sign \cup {"char"} : sign \in Sign}
  IN  Integer \cup Character \cup {{"float"}, {"double"}}
      \cup (IF l = "knr" THEN {{"long", "float"}} ELSE {{"void"}, {"long", "double"}})
      \cup (IF Rank(l) >= Rank("c95") THEN {{"wchar_t"}} ELSE {})
      \cup (IF Rank(l) >= Rank("c99")
            THEN {{"bool"}, {"complex"}, {"float", "complex"}, {"double", "complex"}}
            ELSE {})

\* A declaration is accepted if and only if no specifier is repeated, long twice,
\* and the language has the type.  complex alone passes and long double complex
\* does not, of which the C99 standard says the opposite.
LegalExact ==
  ~Reading /\ ~LongAround =>
    (verdict = "legal" <=>
       /\ \A t \in ToSet(tokens) : Times(t) <= (IF t = "long" THEN 2 ELSE 1)
       /\ Written \cap TypeBit \in CType(lang)
       /\ \A bit \in Written \ TypeBit : lang \in ok_langs(bit)
       /\ Cardinality(Written \cap StorageBit) <= 1)

\* What a list of modifiers adds up to.
AddAll(list) == FoldLeft(LAMBDA t, w : c_type_add(t, {w}), {}, list)

\* What a sequence of words means to type_ast_c.
Read(l, words) ==
  LET at == SelectInSeq(words, LAMBDA w : w \in Builtin)
  IN  IF at = 0 THEN AddAll(words)
      ELSE c_type_add(c_type_add({words[at]}, AddAll(SubSeq(words, 1, at - 1))),
                      AddAll(SubSeq(words, at + 1, Len(words))))

\* Two spellings of a type: signed and int are written or not.
Same(t, u) ==
  LET Plain(v) == (v \ (IF "char" \in v THEN {} ELSE {"signed"}))
                  \cup (IF v \cap Builtin = {} /\ v # {"complex"} THEN {"int"} ELSE {})
  IN  Plain(t) = Plain(u)

\* The name that cdecl prints of a legal type is read back as the same type.
NameReadBack ==
  verdict = "legal" /\ "wchar_t" \notin Type =>
    Same(Read(lang, c_type_name(Type)), Type)
=============================================================================
