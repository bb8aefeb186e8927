------------------------------- MODULE CTypes -------------------------------
(***************************************************************************)
(* The languages of c_lang.h, and c_type.c: which bits a c_type_t may have *)
(* in them, how bits are added, and how they are named.                    *)
(*                                                                         *)
(* A c_type_t is the set of the names of its bits.                         *)
(*                                                                         *)
(* A definition whose name ends in an underscore and a word in capitals is *)
(* the one after it with a mistake that a property must notice.            *)
(***************************************************************************)
EXTENDS Integers, Sequences, FiniteSets, SequencesExt

\* The order of c_lang.h, in which LANG_MIN goes.
LanguageOrder == <<"knr", "c89", "c95", "c99", "c11",
                   "c++98", "c++03", "c++11", "c++14", "c++17">>
Language == ToSet(LanguageOrder)
Rank(l) == CHOOSE i \in DOMAIN LanguageOrder : LanguageOrder[i] = l
LANG_MIN(l) == {m \in Language : Rank(m) >= Rank(l)}
LANG_MAX(l) == {m \in Language : Rank(m) <= Rank(l)}
LANG_CPP_ALL == LANG_MIN("c++98")

StorageBit == {"auto", "__block", "extern", "register", "static", "thread_local",
               "typedef", "constexpr", "final", "friend", "inline", "mutable",
               "noreturn", "override", "virtual", "pure"}
QualifierBit == {"const", "restrict", "volatile", "_Atomic"}
RefQualifierBit == {"reference", "rvalue_reference"}
IntegerBit == {"short", "long", "long_long", "signed", "unsigned"}
TypeBit == IntegerBit \cup
           {"void", "deduced", "bool", "char", "char16_t", "char32_t", "wchar_t", "int",
            "float", "double", "complex", "enum", "struct", "union", "class", "type_name"}

\* C_STORAGE_INFO, C_TYPE_INFO and C_QUALIFIER_INFO: the languages of a bit.  The
\* auto of C++11 is the type "deduced".
ok_langs(bit) ==
  CASE bit = "auto" -> LANG_MAX("c++03")
    [] bit = "noreturn" -> {"c11"}
    [] bit \in {"thread_local", "char16_t", "char32_t"} -> {"c11"} \cup LANG_MIN("c++11")
    [] bit = "restrict" -> LANG_MIN("c89") \ LANG_CPP_ALL
    [] bit \in {"const", "volatile", "void", "bool", "long_long", "signed", "enum"}
         -> LANG_MIN("c89")
    [] bit = "wchar_t" -> LANG_MIN("c95")
    [] bit \in {"complex", "inline"} -> LANG_MIN("c99")
    [] bit = "_Atomic" -> LANG_MIN("c11")
    [] bit \in {"friend", "mutable", "virtual", "pure", "class"} -> LANG_CPP_ALL
    [] bit \in {"constexpr", "final", "override", "deduced"} \cup RefQualifierBit
         -> LANG_MIN("c++11")
    [] OTHER -> Language

\* OK_TYPE_LANGS, its lower triangle: where one type bit may stand by itself, or
\* two together.
OK_TYPE_LANGS(pair) ==
  CASE pair \in {{"void"}, {"signed"}, {"enum"}} \cup
                {{"signed", b} : b \in {"char", "short", "int", "long", "long_long"}} \cup
                {{"unsigned", "long_long"}, {"double", "long"}}
         -> LANG_MIN("c89")
    [] pair = {"wchar_t"} -> LANG_MIN("c95")
    [] pair \in {{"bool"}, {"complex"}, {"long_long"}, {"int", "long_long"},
                 {"complex", "float"}, {"complex", "double"}}
         -> LANG_MIN("c99")
    [] pair \in {{"char16_t"}, {"char32_t"}} -> {"c11"} \cup LANG_MIN("c++11")
    [] pair = {"float", "long"} -> {"knr"}
    [] pair = {"class"} -> LANG_CPP_ALL
    [] pair \in {{"deduced"}, {"enum", "struct"}, {"enum", "class"}} -> LANG_MIN("c++11")
    [] pair \in {{"int", "short"}, {"int", "long"}, {"long", "long_long"}} \cup
                {{"unsigned", b} : b \in {"char", "short", "int", "long"}} \cup
                {{b} : b \in {"unsigned", "short", "long", "char", "int", "float", "double",
                               "struct", "union", "type_name"}}
         -> Language
    [] OTHER -> {}

\* OK_STORAGE_LANGS, its lower triangle.
OK_STORAGE_LANGS(pair) ==
  CASE pair \in {{b} : b \in {"auto", "__block", "extern", "register", "static", "typedef"}}
               \cup {{"__block", b} : b \in {"auto", "extern", "register", "typedef"}}
         -> Language
    [] pair \in {{"thread_local"}} \cup
                {{"thread_local", b} : b \in {"__block", "extern", "static"}}
         -> {"c11"} \cup LANG_MIN("c++11")
    [] pair \in {{"inline"}, {"inline", "extern"}, {"inline", "static"}} -> LANG_MIN("c99")
    [] pair \in {{"noreturn"}} \cup
                {{"noreturn", b} : b \in {"extern", "static", "inline"}} \cup
                {{"override", "inline"}}
         -> LANG_MIN("c11")
    [] pair \in {{"friend"}, {"inline", "friend"}, {"virtual"}, {"virtual", "inline"},
                 {"pure"}, {"pure", "inline"}, {"pure", "virtual"}}
         -> LANG_CPP_ALL
    [] pair = {"mutable"} -> LANG_MIN("c++03")
    [] pair \in {{"constexpr"}, {"final"}, {"override"}, {"inline", "constexpr"},
                 {"inline", "final"}} \cup
                {{"constexpr", b} : b \in {"auto", "__block", "extern", "static", "friend"}} \cup
                {{"override", b} : b \in {"final", "virtual", "pure"}} \cup
                {{"virtual", "final"}}
         -> LANG_MIN("c++11")
    [] OTHER -> {}

\* Rows of the table that begin with a pair only.
c_type_check_ROW(lang, type) ==
  /\ \A bit \in type : lang \in ok_langs(bit)
  /\ \A row \in type \cap TypeBit : lang \in OK_TYPE_LANGS({row})

\* Whether c_type_check finds the type legal in the current language.
c_type_check(lang, type) ==
  /\ \A bit \in type : lang \in ok_langs(bit)
  /\ \A row, col \in type \cap StorageBit : lang \in OK_STORAGE_LANGS({row, col})
  /\ \A row, col \in type \cap TypeBit : lang \in OK_TYPE_LANGS({row, col})

is_long_int(type) == "long" \in type /\ type \cap {"float", "double"} = {}

\* What c_type_add leaves in *dest_type, or the parser gives up.
Conflict == {"can not be combined"}

\* The first long may be the second one.
c_type_add_FIRST(dest, new) ==
  LET added == IF dest # {} /\ is_long_int(new) THEN {"long_long"} ELSE new
  IN  IF Conflict \in {dest, new} \/ dest \cap added # {} THEN Conflict
      ELSE dest \cup added

\* long and long are long long.
c_type_add(dest, new) ==
  LET added == IF is_long_int(dest) /\ is_long_int(new) THEN {"long_long"} ELSE new
  IN  IF Conflict \in {dest, new} \/ dest \cap added # {} THEN Conflict
      ELSE dest \cup added

\* The order c_type_name names bits in.
NameOrder == <<"auto", "__block", "extern", "friend", "register", "mutable", "static",
               "thread_local", "typedef", "pure", "virtual", "inline", "constexpr",
               "noreturn", "override", "final",
               "const", "restrict", "volatile", "reference", "rvalue_reference", "_Atomic",
               "signed", "unsigned", "long", "short", "void", "deduced", "bool", "char",
               "char16_t", "char32_t", "long_long", "int", "complex", "float", "double",
               "enum", "struct", "union", "class">>

\* signed is never said.
Unsaid_SIGNED(type) ==
  {"signed"} \cup (IF type \cap {"unsigned", "short", "long", "long_long"} # {}
                   THEN {"int"} ELSE {})

\* signed goes without saying but for char, and int next to a modifier of it.
Unsaid(type) ==
  (IF "char" \in type THEN {} ELSE {"signed"})
  \cup (IF type \cap {"unsigned", "short", "long", "long_long"} # {}
        THEN {"int"} ELSE {})

\* The names of bits in that order, appended one by one.
Names(bits) ==
  LET names[i \in 0..Len(NameOrder)] ==
        IF i = 0 THEN <<>>
        ELSE IF NameOrder[i] \in bits THEN Append(names[i - 1], NameOrder[i])
        ELSE names[i - 1]
  IN  names[Len(NameOrder)]

\* The words c_type_name prints; more than one of them, and wchar_t is not there.
c_type_name(type) ==
  LET names == IF Cardinality(type) = 1 THEN SetToSeq(type)
               ELSE Names(type \ Unsaid(type))
  IN  [i \in DOMAIN names |-> IF names[i] = "long_long" THEN "long" ELSE names[i]]

\* int goes without saying before C99.
Implicit(lang) == IF Rank(lang) < Rank("c99") THEN {"int"} ELSE {}
=============================================================================
