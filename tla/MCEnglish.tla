----------------------------- MODULE MCEnglish -----------------------------
EXTENDS English

Array(size, quals) == [size |-> size, quals |-> quals]
Const == {{}, {"const"}}

\* Declarations and casts, with functions that are const.
DeclareStorages == {<<>>, <<"static">>, <<"pure">>, <<"static", "static">>}
DeclareQualified ==
  [is \in Derived \cup {"type"} |-> IF is = "function" THEN Const ELSE {{}}]
DeclareArrays == {Array("*", {})}
DeclareTypes == {<<"int">>, <<"void">>, <<"register", "int">>, <<"deduced">>}

\* Types that are defined, shown and defined again.
DefineStorages == {<<>>}
DefineQualified ==
  [is \in Derived \cup {"type"} |-> IF is = "function" THEN {{}} ELSE Const]
DefineArrays == {Array("2", {}), Array("*", {"const"})}
DefineTypes == {<<"unsigned", "long">>, <<"size_t">>, <<"t">>}
=============================================================================
