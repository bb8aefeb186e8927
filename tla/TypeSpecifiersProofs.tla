----------------------- MODULE TypeSpecifiersProofs -----------------------
(***************************************************************************)
(* Proofs about TypeSpecifiers, for any number of specifiers.  The         *)
(* inductive invariant counts the longs: two on one side of the built-in   *)
(* type have become long long, and a third is a conflict.  For what is     *)
(* legal it counts every specifier, and the tables of CTypes are compared  *)
(* with the types of C, a pair of bits at a time.  A name is read back by  *)
(* what the loops over its words leave, step by step.                      *)
(***************************************************************************)
EXTENDS TypeSpecifiers, FiniteSetTheorems, NaturalsInduction, WellFoundedInduction, TLAPS

\* How many times long was read for a list to be what it is.
Longs(list) ==
  IF "long_long" \in list THEN 2 ELSE IF "long" \in list THEN 1 ELSE 0

\* A list that has not met a conflict.
Fine(list) ==
  /\ list \subseteq Modifier \cup {"long_long"}
  /\ "long_long" \in list => "long" \in list

\* What the lists say of the specifiers read.
Counted ==
  /\ Fine(before) /\ Fine(after)
  /\ ToSet(tokens) = (before \cup base \cup after) \ {"long_long"}
  /\ Times("long") = Longs(before) + Longs(after)

\* The inductive invariant.
IInv ==
  /\ TypeOK
  /\ tokens \in Seq(Builtin \cup Modifier)
  /\ base = {} => after = {}
  /\ verdict # "conflict" => Counted
  /\ verdict \in {"legal", "illegal"} => Type # Conflict

-----------------------------------------------------------------------------
\* The tokens of built-in types are none of the modifiers.
LEMMA Tokens ==
  /\ Builtin \cap Modifier = {}
  /\ "long" \notin Builtin /\ "long_long" \notin Builtin /\ "long_long" \notin Modifier
  /\ "int" \notin Modifier /\ "float" \notin Modifier /\ "double" \notin Modifier
  /\ "can not be combined" \notin Builtin \cup Modifier
BY TokenAssumption

\* How often t is in q.
CountOf(q, t) == Cardinality({i \in DOMAIN q : q[i] = t})

\* One more specifier is in the set of those that were read, and counted.
LEMMA AppendToken ==
  ASSUME NEW W, NEW q \in Seq(W), NEW m \in W
  PROVE  /\ Append(q, m) \in Seq(W)
         /\ ToSet(Append(q, m)) = ToSet(q) \cup {m}
         /\ \A t : /\ CountOf(q, t) \in Nat
                   /\ t = m => CountOf(Append(q, m), t) = CountOf(q, t) + 1
                   /\ t # m => CountOf(Append(q, m), t) = CountOf(q, t)
<1>1. /\ Append(q, m) \in Seq(W) /\ Len(q) \in Nat
      /\ DOMAIN q = 1..Len(q) /\ DOMAIN Append(q, m) = 1..Len(q) + 1
      /\ Append(q, m)[Len(q) + 1] = m /\ \A i \in 1..Len(q) : Append(q, m)[i] = q[i]
  OBVIOUS
<1>2. ToSet(Append(q, m)) = ToSet(q) \cup {m}
  BY <1>1 DEF ToSet
<1>3. ASSUME NEW t
      PROVE  /\ CountOf(q, t) \in Nat
             /\ t = m => CountOf(Append(q, m), t) = CountOf(q, t) + 1
             /\ t # m => CountOf(Append(q, m), t) = CountOf(q, t)
  <2> DEFINE S == {i \in DOMAIN q : q[i] = t}
  <2>1. IsFiniteSet(S) /\ Cardinality(S) \in Nat
    <3>1. IsFiniteSet(1..Len(q))
      BY <1>1, FS_Interval
    <3>. QED
      BY <1>1, <3>1, FS_Subset, FS_CardinalityType
  <2>2. Len(q) + 1 \notin S
    BY <1>1
  <2>3. {i \in DOMAIN Append(q, m) : Append(q, m)[i] = t}
          = IF t = m THEN S \cup {Len(q) + 1} ELSE S
    BY <1>1
  <2>4. Cardinality(S \cup {Len(q) + 1}) = Cardinality(S) + 1
    BY <2>1, <2>2, FS_AddElement
  <2>. QED
    BY <2>1, <2>3, <2>4 DEF CountOf
<1>. QED
  BY <1>1, <1>2, <1>3

\* The list e is list with m in it.
Takes(list, e, m) ==
  /\ Fine(e)
  /\ e \ {"long_long"} = (list \ {"long_long"}) \cup {m}
  /\ m = "long" => Longs(list) + 1 = Longs(e)
  /\ m # "long" => Longs(e) = Longs(list)

\* A list takes a modifier that it does not have, and long twice.
LEMMA Extended ==
  ASSUME NEW list, Fine(list), NEW m \in Modifier
  PROVE  Extend(list, m) = Conflict \/ Takes(list, Extend(list, m), m)
<1>1. list \cap {"float", "double"} = {} /\ list # Conflict /\ {m} # Conflict
      /\ m \notin {"float", "double", "long_long"}
  BY Tokens DEF Fine, Conflict
<1>2. CASE list = {}
  <2>1. Extend(list, m) = {m}
    BY <1>2 DEF Extend
  <2>2. Fine({m}) /\ {m} \ {"long_long"} = (list \ {"long_long"}) \cup {m}
    BY <1>1, <1>2 DEF Fine
  <2>3. Longs(list) = 0 /\ (m = "long" => Longs({m}) = 1) /\ (m # "long" => Longs({m}) = 0)
    BY <1>1, <1>2 DEF Longs
  <2>4. m = "long" => Longs(list) + 1 = Longs({m})
    BY <2>3
  <2>5. m # "long" => Longs({m}) = Longs(list)
    BY <2>3
  <2>6. Takes(list, {m}, m)
    BY <2>2, <2>4, <2>5 DEF Takes
  <2>. QED
    BY <2>1, <2>6
<1>3. CASE list # {} /\ "long" \in list /\ m = "long"
  <2>1. is_long_int(list) /\ is_long_int({m})
    BY <1>1, <1>3 DEF is_long_int
  <2>2. Extend(list, m) = IF list \cap {"long_long"} # {} THEN Conflict
                          ELSE list \cup {"long_long"}
    BY <1>1, <1>3, <2>1 DEF Extend, c_type_add
  <2>3. CASE "long_long" \in list
    BY <2>2, <2>3
  <2>4. CASE "long_long" \notin list
    <3> DEFINE e == list \cup {"long_long"}
    <3>1. Extend(list, m) = e
      BY <2>2, <2>4
    <3>2. Fine(e) /\ e \ {"long_long"} = (list \ {"long_long"}) \cup {m}
      BY <1>3 DEF Fine
    <3>3. Longs(list) = 1 /\ Longs(e) = 2
      BY <1>3, <2>4 DEF Longs
    <3> HIDE DEF e
    <3>4. Longs(list) + 1 = Longs(e)
      BY <3>3
    <3>5. Takes(list, e, m)
      BY <1>3, <3>2, <3>4 DEF Takes
    <3>. QED
      BY <3>1, <3>5
  <2>. QED
    BY <2>3, <2>4
<1>4. CASE list # {} /\ ~ ("long" \in list /\ m = "long")
  <2>1. ~ (is_long_int(list) /\ is_long_int({m}))
    BY <1>4 DEF is_long_int
  <2>2. Extend(list, m) = IF list \cap {m} # {} THEN Conflict ELSE list \cup {m}
    BY <1>1, <1>4, <2>1 DEF Extend, c_type_add
  <2>3. CASE m \in list
    BY <2>2, <2>3
  <2>4. CASE m \notin list
    <3> DEFINE e == list \cup {m}
    <3>1. Extend(list, m) = e
      BY <2>2, <2>4
    <3>2. Fine(e) /\ e \ {"long_long"} = (list \ {"long_long"}) \cup {m}
      BY <1>1 DEF Fine
    <3>3. /\ "long_long" \in e <=> "long_long" \in list
          /\ "long" \in e <=> "long" \in list \/ m = "long"
      BY <1>1
    <3> HIDE DEF e
    <3>4. m # "long" => Longs(e) = Longs(list)
      BY <3>3 DEF Longs
    <3>5. m = "long" => Longs(e) = 1 /\ Longs(list) = 0
      BY <2>4, <3>3 DEF Longs, Fine
    <3>6. m = "long" => Longs(list) + 1 = Longs(e)
      BY <3>5
    <3>7. Takes(list, e, m)
      BY <3>2, <3>4, <3>6 DEF Takes
    <3>. QED
      BY <3>1, <3>7
  <2>. QED
    BY <2>3, <2>4
<1>. QED
  BY <1>2, <1>3, <1>4

\* Nothing has been read.
LEMMA InitInvariant == Init => IInv
<1> SUFFICES ASSUME Init PROVE IInv
  OBVIOUS
<1>1. /\ lang \in Languages /\ tokens = <<>> /\ before = {} /\ base = {} /\ after = {}
      /\ verdict = "reading"
  BY DEF Init
<1>2. ToSet(tokens) = {} /\ Times("long") = 0
  <2>1. DOMAIN tokens = {}
    BY <1>1
  <2>. QED
    BY <2>1, FS_EmptySet DEF ToSet, Times
<1>. QED
  BY <1>1, <1>2, TokenAssumption, FS_EmptySet DEF IInv, TypeOK, Counted, Fine, Longs

\* A modifier, before or after the built-in type.
LEMMA ModifierStep == IInv /\ type_modifier_c => IInv'
<1> SUFFICES ASSUME IInv, type_modifier_c PROVE IInv'
  OBVIOUS
<1>1. PICK m \in Modifier :
        /\ tokens' = Append(tokens, m)
        /\ IF base = {} THEN before' = Extend(before, m) /\ after' = after
                        ELSE after' = Extend(after, m) /\ before' = before
  BY DEF type_modifier_c
<1>2. /\ verdict = "reading" /\ lang' = lang /\ base' = base
      /\ verdict' = IF Conflict \in {before', after'} THEN "conflict" ELSE verdict
  BY DEF type_modifier_c, Reading
<1>3. /\ Fine(before) /\ Fine(after)
      /\ ToSet(tokens) = (before \cup base \cup after) \ {"long_long"}
      /\ Times("long") = Longs(before) + Longs(after)
      /\ base = {} => after = {}
  BY <1>2 DEF IInv, Counted
<1>4. /\ lang \in Language /\ ToSet(tokens) \subseteq Builtin \cup Modifier
      /\ base \subseteq Builtin /\ Cardinality(base) <= 1
      /\ tokens \in Seq(Builtin \cup Modifier)
  BY DEF IInv, TypeOK
<1>5. /\ tokens' \in Seq(Builtin \cup Modifier)
      /\ ToSet(tokens') = ToSet(tokens) \cup {m}
      /\ Times("long") \in Nat
      /\ m = "long" => Times("long")' = Times("long") + 1
      /\ m # "long" => Times("long")' = Times("long")
  <2>1. m \in Builtin \cup Modifier
    OBVIOUS
  <2>2. /\ tokens' \in Seq(Builtin \cup Modifier)
        /\ ToSet(tokens') = ToSet(tokens) \cup {m}
        /\ \A t : /\ CountOf(tokens, t) \in Nat
                  /\ t = m => CountOf(tokens', t) = CountOf(tokens, t) + 1
                  /\ t # m => CountOf(tokens', t) = CountOf(tokens, t)
    BY <2>1, <1>1, <1>4, AppendToken
  <2>3. Times("long") = CountOf(tokens, "long") /\ Times("long")' = CountOf(tokens', "long")
    BY DEF Times, CountOf
  <2>. QED
    BY <2>2, <2>3
<1>6. ASSUME verdict' # "conflict" PROVE Counted'
  <2>1. before' # Conflict /\ after' # Conflict
    BY <1>2, <1>6
  <2>2. Longs(before) \in Nat /\ Longs(after) \in Nat
    BY DEF Longs
  <2>3. CASE base = {}
    <3>1. before' = Extend(before, m) /\ after' = after
      BY <1>1, <2>3
    <3>2. /\ Fine(before') /\ before' \ {"long_long"} = (before \ {"long_long"}) \cup {m}
          /\ m = "long" => Longs(before) + 1 = Longs(before')
          /\ m # "long" => Longs(before') = Longs(before)
      BY <1>3, <2>1, <3>1, Extended DEF Takes
    <3>3. ToSet(tokens') = (before' \cup base' \cup after') \ {"long_long"}
      BY <1>2, <1>3, <1>5, <3>1, <3>2
    <3>4. CASE m = "long"
      <4>1. Times("long")' = Longs(before) + Longs(after) + 1
        BY <1>3, <1>5, <3>4
      <4>2. Times("long")' = Longs(before') + Longs(after')
        <5>1. Longs(before') \in Nat /\ Longs(after') \in Nat
          BY DEF Longs
        <5>2. Longs(before) + 1 = Longs(before')
          BY <3>2, <3>4
        <5>3. Longs(after') = Longs(after)
          BY <3>1
        <5>. QED
          BY <2>2, <4>1, <5>1, <5>2, <5>3
      <4>. QED
        BY <1>3, <3>1, <3>2, <3>3, <4>2 DEF Counted
    <3>5. CASE m # "long"
      <4>1. Times("long")' = Longs(before') + Longs(after')
        BY <1>3, <1>5, <3>1, <3>2, <3>5
      <4>. QED
        BY <1>3, <3>1, <3>2, <3>3, <4>1 DEF Counted
    <3>. QED
      BY <3>4, <3>5
  <2>4. CASE base # {}
    <3>1. after' = Extend(after, m) /\ before' = before
      BY <1>1, <2>4
    <3>2. /\ Fine(after') /\ after' \ {"long_long"} = (after \ {"long_long"}) \cup {m}
          /\ m = "long" => Longs(after) + 1 = Longs(after')
          /\ m # "long" => Longs(after') = Longs(after)
      BY <1>3, <2>1, <3>1, Extended DEF Takes
    <3>3. ToSet(tokens') = (before' \cup base' \cup after') \ {"long_long"}
      BY <1>2, <1>3, <1>5, <3>1, <3>2
    <3>4. CASE m = "long"
      <4>1. Times("long")' = Longs(before) + Longs(after) + 1
        BY <1>3, <1>5, <3>4
      <4>2. Times("long")' = Longs(before') + Longs(after')
        <5>1. Longs(before') \in Nat /\ Longs(after') \in Nat
          BY DEF Longs
        <5>2. Longs(after) + 1 = Longs(after')
          BY <3>2, <3>4
        <5>3. Longs(before') = Longs(before)
          BY <3>1
        <5>. QED
          BY <2>2, <4>1, <5>1, <5>2, <5>3
      <4>. QED
        BY <1>3, <3>1, <3>2, <3>3, <4>2 DEF Counted
    <3>5. CASE m # "long"
      <4>1. Times("long")' = Longs(before') + Longs(after')
        BY <1>3, <1>5, <3>1, <3>2, <3>5
      <4>. QED
        BY <1>3, <3>1, <3>2, <3>3, <4>1 DEF Counted
    <3>. QED
      BY <3>4, <3>5
  <2>. QED
    BY <2>3, <2>4
<1>7. base' = {} => after' = {}
  BY <1>1, <1>2, <1>3
<1>8. TypeOK'
  BY <1>2, <1>4, <1>5, <1>6 DEF TypeOK, Counted, Fine
<1>. QED
  BY <1>2, <1>5, <1>6, <1>7, <1>8 DEF IInv
\* The built-in type, which parts the modifiers.
LEMMA BuiltinStep == IInv /\ builtin_type_c => IInv'
<1> SUFFICES ASSUME IInv, builtin_type_c PROVE IInv'
  OBVIOUS
<1>1. PICK b \in Builtin : base' = {b} /\ tokens' = Append(tokens, b)
  BY DEF builtin_type_c
<1>2. /\ verdict = "reading" /\ base = {} /\ lang' = lang /\ before' = before /\ after' = after
      /\ verdict' = verdict
  BY DEF builtin_type_c, Reading
<1>3. /\ Fine(before) /\ Fine(after)
      /\ ToSet(tokens) = (before \cup base \cup after) \ {"long_long"}
      /\ Times("long") = Longs(before) + Longs(after)
      /\ after = {}
  BY <1>2 DEF IInv, Counted
<1>4. /\ lang \in Language /\ ToSet(tokens) \subseteq Builtin \cup Modifier
      /\ tokens \in Seq(Builtin \cup Modifier)
  BY DEF IInv, TypeOK
<1>5. /\ tokens' \in Seq(Builtin \cup Modifier)
      /\ ToSet(tokens') = ToSet(tokens) \cup {b}
      /\ Times("long")' = Times("long")
  <2>1. b \in Builtin \cup Modifier /\ b # "long"
    BY Tokens
  <2>2. /\ tokens' \in Seq(Builtin \cup Modifier)
        /\ ToSet(tokens') = ToSet(tokens) \cup {b}
        /\ \A t : t # b => CountOf(tokens', t) = CountOf(tokens, t)
    BY <2>1, <1>1, <1>4, AppendToken
  <2>3. Times("long") = CountOf(tokens, "long") /\ Times("long")' = CountOf(tokens', "long")
    BY DEF Times, CountOf
  <2>. QED
    BY <2>1, <2>2, <2>3
<1>6. Counted'
  <2>1. ToSet(tokens') = (before' \cup base' \cup after') \ {"long_long"}
    BY <1>1, <1>2, <1>3, <1>5, Tokens
  <2>2. Times("long")' = Longs(before') + Longs(after')
    BY <1>2, <1>3, <1>5
  <2>. QED
    BY <1>2, <1>3, <2>1, <2>2 DEF Counted
<1>7. base' \subseteq Builtin /\ Cardinality(base') <= 1 /\ base' # {}
  <2>1. Cardinality({b}) = 1
    BY FS_Singleton
  <2>. QED
    BY <1>1, <2>1
<1>8. TypeOK'
  BY <1>2, <1>3, <1>4, <1>5, <1>7 DEF TypeOK, Fine
<1>. QED
  BY <1>2, <1>5, <1>6, <1>7, <1>8 DEF IInv

\* The end of the specifiers, which changes nothing but the verdict.
LEMMA EndStep == IInv /\ type_ast_c => IInv'
<1> SUFFICES ASSUME IInv, type_ast_c PROVE IInv'
  OBVIOUS
<1>1. /\ verdict = "reading" /\ lang' = lang /\ tokens' = tokens
      /\ before' = before /\ base' = base /\ after' = after
  BY DEF type_ast_c, Reading
<1>2. /\ verdict' \in {"conflict", "legal", "illegal"}
      /\ verdict' \in {"legal", "illegal"} => Type # Conflict
  BY DEF type_ast_c
<1>3. Type' = Type /\ Times("long")' = Times("long") /\ Counted
  BY <1>1 DEF Type, Times, IInv
<1>4. Counted'
  BY <1>1, <1>3 DEF Counted
<1>5. TypeOK'
  BY <1>1, <1>2 DEF IInv, TypeOK
<1>. QED
  BY <1>1, <1>2, <1>3, <1>4, <1>5 DEF IInv

\* Every step of the parser keeps the invariant.
LEMMA StepInvariant == IInv /\ [Next]_vars => IInv'
<1> SUFFICES ASSUME IInv, [Next]_vars PROVE IInv'
  OBVIOUS
<1>1. CASE type_modifier_c
  BY <1>1, ModifierStep
<1>2. CASE builtin_type_c
  BY <1>2, BuiltinStep
<1>3. CASE type_ast_c
  BY <1>3, EndStep
<1>4. CASE UNCHANGED vars
  <2>1. /\ lang' = lang /\ tokens' = tokens /\ before' = before /\ base' = base /\ after' = after
        /\ verdict' = verdict
    BY <1>4 DEF vars
  <2>2. Type' = Type /\ Times("long")' = Times("long")
    BY <2>1 DEF Type, Times
  <2>. QED
    BY <2>1, <2>2 DEF IInv, TypeOK, Counted
<1>. QED
  BY <1>1, <1>2, <1>3, <1>4 DEF Next, Finished

\* The type that the parts add up to, where they do not conflict, is all of them,
\* with a long on each side of the built-in type made long long.
LEMMA AddedUp ==
  ASSUME Fine(before), Fine(after), base \subseteq Builtin, Cardinality(base) <= 1,
         base = {} => after = {}, Type # Conflict, ~ LongAround
  PROVE  /\ base = {} => Type = before \cup Implicit(lang)
         /\ base # {} /\ ~ ("long" \in before /\ "long" \in after) =>
              Type = before \cup base \cup after /\ before \cap after = {}
         /\ base # {} /\ "long" \in before /\ "long" \in after =>
              /\ Type = before \cup base \cup {"long_long"}
              /\ "long_long" \notin before /\ after = {"long"}
<1>1. Implicit(lang) \subseteq {"int"}
  BY DEF Implicit
<1>2. ASSUME base = {} PROVE Type = before \cup Implicit(lang)
  <2>1. ~ is_long_int(Implicit(lang))
    BY <1>1 DEF is_long_int
  <2>2. Type = IF Conflict \in {Implicit(lang), before} \/ Implicit(lang) \cap before # {}
               THEN Conflict ELSE Implicit(lang) \cup before
    BY <1>2, <2>1 DEF Type, c_type_add
  <2>. QED
    BY <2>2
<1>3. ASSUME base # {}
      PROVE  /\ ~ ("long" \in before /\ "long" \in after) =>
                  Type = before \cup base \cup after /\ before \cap after = {}
             /\ "long" \in before /\ "long" \in after =>
                  /\ Type = before \cup base \cup {"long_long"}
                  /\ "long_long" \notin before /\ after = {"long"}
  <2> DEFINE first == c_type_add(base, before)
  <2>1. Type = c_type_add(first, after)
    BY <1>3 DEF Type
  <2>2. first = IF Conflict \in {base, before} \/ base \cap before # {}
                THEN Conflict ELSE base \cup before
    BY Tokens DEF c_type_add, is_long_int
  <2> HIDE DEF first
  <2>3. first # Conflict
    BY <2>1 DEF c_type_add
  <2>4. first = base \cup before
    BY <2>2, <2>3
  <2>5. ASSUME ~ ("long" \in before /\ "long" \in after)
        PROVE  Type = before \cup base \cup after /\ before \cap after = {}
    <3>1. ~ (is_long_int(first) /\ is_long_int(after))
      BY <2>4, <2>5, Tokens DEF is_long_int
    <3>2. Type = IF Conflict \in {first, after} \/ first \cap after # {}
                 THEN Conflict ELSE first \cup after
      BY <2>1, <3>1 DEF c_type_add
    <3>3. Type = first \cup after /\ first \cap after = {}
      BY <3>2
    <3>. QED
      BY <2>4, <3>3
  <2>6. ASSUME "long" \in before, "long" \in after
        PROVE  /\ Type = before \cup base \cup {"long_long"}
               /\ "long_long" \notin before /\ after = {"long"}
    <3>1. after = {"long"}
      BY <2>6 DEF LongAround
    <3>2. CASE is_long_int(first)
      <4>1. is_long_int(after)
        BY <3>1 DEF is_long_int
      <4>2. Type = IF Conflict \in {first, after} \/ first \cap {"long_long"} # {}
                   THEN Conflict ELSE first \cup {"long_long"}
        BY <2>1, <3>2, <4>1 DEF c_type_add
      <4>. QED
        BY <2>4, <3>1, <4>2
    <3>3. CASE ~ is_long_int(first)
      <4>1. first \cap after # {}
        BY <2>4, <2>6
      <4>2. Type = Conflict
        BY <2>1, <3>3, <4>1 DEF c_type_add
      <4>. QED
        BY <4>2
    <3>. QED
      BY <3>2, <3>3
  <2>. QED
    BY <2>5, <2>6
<1>. QED
  BY <1>2, <1>3

\* The invariant is what makes the order of the specifiers irrelevant.
LEMMA InvariantOrder == IInv => OrderFree
<1> SUFFICES ASSUME IInv, verdict \in {"legal", "illegal"}, ~ LongAround
             PROVE  Type = Written
  BY DEF OrderFree
<1>1. /\ Fine(before) /\ Fine(after)
      /\ ToSet(tokens) = (before \cup base \cup after) \ {"long_long"}
  BY DEF IInv, Counted
<1>8. Times("long") = Longs(before) + Longs(after)
  BY DEF IInv, Counted
<1>2. base \subseteq Builtin /\ Cardinality(base) <= 1 /\ (base = {} => after = {})
      /\ Type # Conflict
  BY DEF IInv, TypeOK
<1>3. /\ base = {} => Type = before \cup Implicit(lang)
      /\ base # {} /\ ~ ("long" \in before /\ "long" \in after) =>
           Type = before \cup base \cup after /\ before \cap after = {}
      /\ base # {} /\ "long" \in before /\ "long" \in after =>
           /\ Type = before \cup base \cup {"long_long"}
           /\ "long_long" \notin before /\ after = {"long"}
  BY <1>1, <1>2, AddedUp
<1>4. "long_long" \notin base
  BY <1>2, Tokens
<1>5. CASE base = {}
  <2>1. Times("long") = 2 <=> "long_long" \in before
    <3>1. Longs(after) = 0
      BY <1>2, <1>5 DEF Longs
    <3>2. "long_long" \in before => Longs(before) = 2
      BY DEF Longs
    <3>3. "long_long" \notin before => Longs(before) \in {0, 1}
      BY DEF Longs
    <3>4. CASE "long_long" \in before
      <4>1. Longs(before) = 2
        BY <3>2, <3>4
      <4>2. Longs(before) + Longs(after) = 2
        BY <3>1, <4>1
      <4>. QED
        BY <1>8, <3>4, <4>2
    <3>5. CASE "long_long" \notin before
      <4>1. Longs(before) \in {0, 1}
        BY <3>3, <3>5
      <4>2. Longs(before) + Longs(after) # 2
        BY <3>1, <4>1
      <4>. QED
        BY <1>8, <3>5, <4>2
    <3>. QED
      BY <3>4, <3>5
  <2>. QED
    BY <1>1, <1>2, <1>3, <1>5, <2>1 DEF Written
<1>6. CASE base # {} /\ ~ ("long" \in before /\ "long" \in after)
  <2>1. Times("long") = 2 <=> "long_long" \in before \/ "long_long" \in after
    <3>1. Longs(before) = 0 \/ Longs(after) = 0
      BY <1>1, <1>6 DEF Longs, Fine
    <3> DEFINE b == Longs(before)
               a == Longs(after)
    <3>4. b \in {0, 1, 2} /\ a \in {0, 1, 2}
      BY DEF Longs
    <3> HIDE DEF a, b
    <3>5. (b = 0 \/ a = 0) => (b + a = 2 <=> b = 2 \/ a = 2)
      BY <3>4
    <3>6. Times("long") = 2 <=> b = 2 \/ a = 2
      BY <1>8, <3>1, <3>5 DEF a, b
    <3>7. ASSUME NEW l PROVE Longs(l) = 2 <=> "long_long" \in l
      <4>1. CASE "long_long" \in l
        BY <4>1 DEF Longs
      <4>2. CASE "long_long" \notin l
        <5>1. Longs(l) \in {0, 1}
          BY <4>2 DEF Longs
        <5>2. Longs(l) # 2
          BY <5>1
        <5>. QED
          BY <4>2, <5>2
      <4>. QED
        BY <4>1, <4>2
    <3>. QED
      BY <3>6, <3>7 DEF a, b
  <2>. QED
    BY <1>1, <1>3, <1>4, <1>6, <2>1 DEF Written
<1>7. CASE base # {} /\ "long" \in before /\ "long" \in after
  <2>1. Times("long") = 2
    <3>1. Longs(before) = 1 /\ Longs(after) = 1
      BY <1>3, <1>7 DEF Longs
    <3>2. Longs(before) + Longs(after) = 2
      BY <3>1
    <3>. QED
      BY <1>8, <3>2
  <2>. QED
    BY <1>1, <1>3, <1>4, <1>7, <2>1 DEF Written
<1>. QED
  BY <1>5, <1>6, <1>7

-----------------------------------------------------------------------------
(* The table of c_type_check.                                              *)

\* Languages as new as a standard.
Since89(l) == l # "knr"
Since95(l) == l \notin {"knr", "c89"}
Since99(l) == l \notin {"knr", "c89", "c95"}

\* The rank of a language is its place in c_lang.h.
LEMMA RankIs ==
  \A i \in 1..10 : Rank(LanguageOrder[i]) = i
<1>1. DOMAIN LanguageOrder = 1..10
  BY DEF LanguageOrder
<1>2. \A i, j \in 1..10 : LanguageOrder[i] = LanguageOrder[j] => i = j
  <2>1. \A i \in 1..10 : i = 1 \/ i = 2 \/ i = 3 \/ i = 4 \/ i = 5 \/ i = 6
                        \/ i = 7 \/ i = 8 \/ i = 9 \/ i = 10
    OBVIOUS
  <2> QED BY <2>1 DEF LanguageOrder
<1>3. ASSUME NEW i \in 1..10 PROVE Rank(LanguageOrder[i]) = i
  <2>1. \A j \in DOMAIN LanguageOrder : LanguageOrder[j] = LanguageOrder[i] <=> j = i
    BY <1>1, <1>2
  <2>2. (CHOOSE j \in DOMAIN LanguageOrder : LanguageOrder[j] = LanguageOrder[i]) = i
    BY <1>1, <2>1
  <2> QED BY <2>2 DEF Rank
<1> QED BY <1>3

\* The languages that a C standard begins.
LEMMA Standards ==
  /\ Language = {"knr", "c89", "c95", "c99", "c11",
                 "c++98", "c++03", "c++11", "c++14", "c++17"}
  /\ \A l \in Language :
       /\ l \in LANG_MIN("c89") <=> Since89(l)
       /\ l \in LANG_MIN("c95") <=> Since95(l)
       /\ l \in LANG_MIN("c99") <=> Since99(l)
       /\ Rank(l) >= Rank("c95") <=> Since95(l)
       /\ Rank(l) >= Rank("c99") <=> Since99(l)
<1>1. DOMAIN LanguageOrder = 1..10
  BY DEF LanguageOrder
<1>2. Language = {LanguageOrder[i] : i \in 1..10}
  BY <1>1 DEF Language, ToSet
<1>3. \A i \in 1..10 : i = 1 \/ i = 2 \/ i = 3 \/ i = 4 \/ i = 5 \/ i = 6
                        \/ i = 7 \/ i = 8 \/ i = 9 \/ i = 10
  OBVIOUS
<1>4. Language = {"knr", "c89", "c95", "c99", "c11",
                 "c++98", "c++03", "c++11", "c++14", "c++17"}
  BY <1>2, <1>3 DEF LanguageOrder
<1>5. /\ Rank("knr") = 1 /\ Rank("c89") = 2 /\ Rank("c95") = 3 /\ Rank("c99") = 4
      /\ Rank("c11") = 5 /\ Rank("c++98") = 6 /\ Rank("c++03") = 7 /\ Rank("c++11") = 8
      /\ Rank("c++14") = 9 /\ Rank("c++17") = 10
  BY RankIs DEF LanguageOrder
<1> QED BY <1>4, <1>5 DEF LANG_MIN, Since89, Since95, Since99

\* The type bits that a specifier sets.
Bits == {"void", "bool", "char", "wchar_t", "int", "float", "double",
         "short", "long", "long_long", "signed", "unsigned", "complex"}

\* Whether the language has the type of one bit.
Alone(l, a) ==
  /\ a \in {"void", "signed"} => Since89(l)
  /\ a = "wchar_t" => Since95(l)
  /\ a \in {"bool", "complex", "long_long"} => Since99(l)

\* Whether a language has types with both bits, of which one comes first here.
Goes(l, a, b) ==
  \/ a = "signed" /\ b \in {"char", "short", "int", "long", "long_long"} /\ Since89(l)
  \/ a = "unsigned" /\ (b = "long_long" /\ Since89(l))
  \/ a = "unsigned" /\ b \in {"char", "short", "int", "long"}
  \/ a = "double" /\ (b = "long" /\ Since89(l))
  \/ a = "int" /\ (b = "long_long" /\ Since99(l))
  \/ a = "complex" /\ b \in {"float", "double"} /\ Since99(l)
  \/ a = "float" /\ (b = "long" /\ l = "knr")
  \/ a = "int" /\ b \in {"short", "long"}
  \/ a = "long" /\ b = "long_long"

\* The arms of OK_TYPE_LANGS.
Arm89(pair) ==
  pair \in {{"void"}, {"signed"}, {"enum"}} \cup
           {{"signed", b} : b \in {"char", "short", "int", "long", "long_long"}} \cup
           {{"unsigned", "long_long"}, {"double", "long"}}
Arm99(pair) ==
  pair \in {{"bool"}, {"complex"}, {"long_long"}, {"int", "long_long"},
            {"complex", "float"}, {"complex", "double"}}
ArmCpp(pair) == pair \in {{"deduced"}, {"enum", "struct"}, {"enum", "class"}}
ArmAll(pair) ==
  pair \in {{"int", "short"}, {"int", "long"}, {"long", "long_long"}} \cup
           {{"unsigned", b} : b \in {"char", "short", "int", "long"}} \cup
           {{b} : b \in {"unsigned", "short", "long", "char", "int", "float", "double",
                         "struct", "union", "type_name"}}

\* Two bits of a type, in no order.
Two(a, b) == {a, b}

\* A pair of bits is the same either way round.
LEMMA TwoIs ==
  \A a, b, c, d : Two(a, b) = Two(c, d) <=> (a = c /\ b = d) \/ (a = d /\ b = c)
BY DEF Two

\* A pair of bits, and one bit twice, as sets.
LEMMA TwoAre ==
  /\ \A c : Two(c, c) = {c}
  /\ \A c, d : Two(c, d) = {c, d}
BY DEF Two

\* Which pairs have the languages since C89.
LEMMA Arm89Is ==
  \A pair :
    Arm89(pair) <=>
       \/ \E c \in {"void", "signed", "enum"} : pair = Two(c, c)
       \/ \E c \in {"char", "short", "int", "long", "long_long"} : pair = Two("signed", c)
       \/ pair = Two("unsigned", "long_long")
       \/ pair = Two("double", "long")
<1> TAKE pair
<1>1. Arm89(pair) <=>
       \/ \E c \in {"void", "signed", "enum"} : pair = {c}
       \/ \E c \in {"char", "short", "int", "long", "long_long"} : pair = {"signed", c}
       \/ pair = {"unsigned", "long_long"}
       \/ pair = {"double", "long"}
  BY Zenon DEF Arm89
<1> QED BY <1>1, TwoAre, Zenon

\* Which pairs have those since C99.
LEMMA Arm99Is ==
  \A pair :
    Arm99(pair) <=>
       \/ \E c \in {"bool", "complex", "long_long"} : pair = Two(c, c)
       \/ pair = Two("int", "long_long")
       \/ pair = Two("complex", "float")
       \/ pair = Two("complex", "double")
<1> TAKE pair
<1>1. Arm99(pair) <=>
       \/ \E c \in {"bool", "complex", "long_long"} : pair = {c}
       \/ pair = {"int", "long_long"}
       \/ pair = {"complex", "float"}
       \/ pair = {"complex", "double"}
  BY Zenon DEF Arm99
<1> QED BY <1>1, TwoAre, Zenon

\* Which pairs have those since C++11.
LEMMA ArmCppIs ==
  \A pair :
    ArmCpp(pair) <=>
       \/ \E c \in {"deduced"} : pair = Two(c, c)
       \/ pair = Two("enum", "struct")
       \/ pair = Two("enum", "class")
<1> TAKE pair
<1>1. ArmCpp(pair) <=>
       \/ \E c \in {"deduced"} : pair = {c}
       \/ pair = {"enum", "struct"}
       \/ pair = {"enum", "class"}
  BY Zenon DEF ArmCpp
<1> QED BY <1>1, TwoAre, Zenon

\* Which pairs have every language.
LEMMA ArmAllIs ==
  \A pair :
    ArmAll(pair) <=>
       \/ \E c \in {"unsigned", "short", "long", "char", "int", "float", "double",
                    "struct", "union", "type_name"} : pair = Two(c, c)
       \/ \E c \in {"char", "short", "int", "long"} : pair = Two("unsigned", c)
       \/ pair = Two("int", "short") \/ pair = Two("int", "long")
       \/ pair = Two("long", "long_long")
<1> TAKE pair
<1>1. ArmAll(pair) <=>
       \/ \E c \in {"unsigned", "short", "long", "char", "int", "float", "double",
                    "struct", "union", "type_name"} : pair = {c}
       \/ \E c \in {"char", "short", "int", "long"} : pair = {"unsigned", c}
       \/ pair = {"int", "short"} \/ pair = {"int", "long"}
       \/ pair = {"long", "long_long"}
  BY Zenon DEF ArmAll
<1> QED BY <1>1, TwoAre, Zenon

\* At most one arm of OK_TYPE_LANGS is for a pair.
Apart(pair) ==
  /\ Arm89(pair) => pair # {"wchar_t"} /\ ~Arm99(pair) /\ pair # {"float", "long"} /\ ~ArmAll(pair)
  /\ pair = {"wchar_t"} => ~Arm99(pair) /\ pair # {"float", "long"} /\ ~ArmAll(pair)
  /\ Arm99(pair) => pair # {"float", "long"} /\ ~ArmAll(pair)
  /\ pair = {"float", "long"} => ~ArmAll(pair)

\* The languages of a pair are those of its arm.
LEMMA Arms ==
  ASSUME NEW pair, NEW l \in Language, Apart(pair),
         pair \notin {{"char16_t"}, {"char32_t"}}, pair # {"class"}, ~ ArmCpp(pair)
  PROVE  l \in OK_TYPE_LANGS(pair) <=>
           IF Arm89(pair) THEN l \in LANG_MIN("c89")
           ELSE IF pair = {"wchar_t"} THEN l \in LANG_MIN("c95")
           ELSE IF Arm99(pair) THEN l \in LANG_MIN("c99")
           ELSE IF pair = {"float", "long"} THEN l = "knr"
           ELSE ArmAll(pair)
<1> DEFINE v == OK_TYPE_LANGS(pair)
           p1 == Arm89(pair)
           p2 == pair = {"wchar_t"}
           p3 == Arm99(pair)
           p4 == pair \in {{"char16_t"}, {"char32_t"}}
           p5 == pair = {"float", "long"}
           p6 == pair = {"class"}
           p7 == ArmCpp(pair)
           p8 == ArmAll(pair)
<1>1. v = CASE p1 -> LANG_MIN("c89")
            [] p2 -> LANG_MIN("c95")
            [] p3 -> LANG_MIN("c99")
            [] p4 -> {"c11"} \cup LANG_MIN("c++11")
            [] p5 -> {"knr"}
            [] p6 -> LANG_CPP_ALL
            [] p7 -> LANG_MIN("c++11")
            [] p8 -> Language
            [] OTHER -> {}
  BY DEF OK_TYPE_LANGS, Arm89, Arm99, ArmCpp, ArmAll
<1>2. /\ p1 => ~p2 /\ ~p3 /\ ~p5 /\ ~p8
      /\ p2 => ~p3 /\ ~p5 /\ ~p8
      /\ p3 => ~p5 /\ ~p8
      /\ p5 => ~p8
      /\ ~p4 /\ ~p6 /\ ~p7
  BY DEF Apart
<1> HIDE DEF v, p1, p2, p3, p4, p5, p6, p7, p8
<1>3. /\ p1 => v = LANG_MIN("c89")
      /\ p2 => v = LANG_MIN("c95")
      /\ p3 => v = LANG_MIN("c99")
      /\ p5 => v = {"knr"}
      /\ p8 => v = Language
      /\ ~p1 /\ ~p2 /\ ~p3 /\ ~p5 /\ ~p8 => v = {}
  BY <1>1, <1>2
<1> QED BY <1>2, <1>3 DEF v, p1, p2, p3, p4, p5, p6, p7, p8

\* The diagonal of the table, which is narrower than the languages of the bit.
LEMMA AloneIs ==
  ASSUME NEW l \in Language, NEW a \in Bits
  PROVE  /\ l \in OK_TYPE_LANGS({a, a}) <=> Alone(l, a)
         /\ Alone(l, a) => l \in ok_langs(a)
<1>6. a \notin {"enum", "struct", "class", "deduced"}
  BY DEF Bits
<1> DEFINE p == Two(a, a)
<1>1. \A c, d : p = Two(c, d) <=> a = c /\ a = d
  BY TwoIs
<1>2. \A c : {c} = Two(c, c)
  BY DEF Two
<1>3. {"float", "long"} = Two("float", "long")
  BY DEF Two
<1> HIDE DEF p
<1>4. l \in OK_TYPE_LANGS(p) <=> Alone(l, a)
  <2>1. Arm89(p) <=> a \in {"void", "signed"}
    <3>1. a \in {"void", "signed", "enum"} => Arm89(p)
      BY <1>1, Arm89Is
    <3>2. p # Two("unsigned", "long_long")
      <4>1. p = Two("unsigned", "long_long") => a = "unsigned" /\ a = "long_long"
        BY <1>1, Zenon
      <4>2. ~ (a = "unsigned" /\ a = "long_long")
        OBVIOUS
      <4> QED BY <4>1, <4>2
    <3>3. Arm89(p) => a \in {"void", "signed", "enum"}
      <4>1. p # Two("double", "long")
        BY <1>1
      <4>2. /\ \A c : p = Two("signed", c) => a = "signed"
            /\ \A c : p = Two(c, c) => a = c
        BY <1>1, Zenon
      <4>3. "signed" \in {"void", "signed", "enum"}
        OBVIOUS
      <4> QED BY <3>2, <4>1, <4>2, <4>3, Arm89Is, Zenon
    <3> QED BY <1>6, <3>1, <3>3
  <2>2. Arm99(p) <=> a \in {"bool", "complex", "long_long"}
    BY <1>1, Arm99Is
  <2>3. ~ ArmCpp(p)
    BY <1>1, <1>6, ArmCppIs
  <2>4. ArmAll(p) <=> a \in {"unsigned", "short", "long", "char", "int", "float", "double"}
    BY <1>1, ArmAllIs DEF Bits
  <2>5. \A c : p = {c} <=> a = c
    BY <1>1, <1>2
  <2>6. p # {"float", "long"}
    BY <1>1, <1>3
  <2>7. p \notin {{"char16_t"}, {"char32_t"}} /\ p # {"class"}
    BY <2>5 DEF Bits
  <2>8. Apart(p)
    BY <2>1, <2>2, <2>4, <2>5, <2>6 DEF Apart
  <2>9. l \in OK_TYPE_LANGS(p) <=>
          IF Arm89(p) THEN l \in LANG_MIN("c89")
          ELSE IF p = {"wchar_t"} THEN l \in LANG_MIN("c95")
          ELSE IF Arm99(p) THEN l \in LANG_MIN("c99")
          ELSE IF p = {"float", "long"} THEN l = "knr"
          ELSE ArmAll(p)
    BY <2>3, <2>7, <2>8, Arms
  <2> QED BY <2>1, <2>2, <2>4, <2>5, <2>6, <2>9, Standards DEF Alone, Bits
<1>5. Alone(l, a) => l \in ok_langs(a)
  BY Standards DEF ok_langs, Alone, RefQualifierBit, Since89, Since95, Since99, Bits
<1> QED BY <1>4, <1>5 DEF p, Two

\* The rest of the table.
LEMMA GoesIs ==
  ASSUME NEW l \in Language, NEW a \in Bits, NEW b \in Bits, a # b
  PROVE  l \in OK_TYPE_LANGS({a, b}) <=> Goes(l, a, b) \/ Goes(l, b, a)
<1>6. {a, b} \cap {"enum", "struct", "class", "deduced"} = {}
  BY DEF Bits
<1> DEFINE p == Two(a, b)
           Is(c, d) == (a = c /\ b = d) \/ (a = d /\ b = c)
<1>1. \A c, d : p = Two(c, d) <=> Is(c, d)
  BY TwoIs
<1>2. \A c : p # Two(c, c)
  BY <1>1
<1>3. {"float", "long"} = Two("float", "long") /\ \A c : {c} = Two(c, c)
  BY DEF Two
<1> HIDE DEF p
<1>4. l \in OK_TYPE_LANGS(p) <=> Goes(l, a, b) \/ Goes(l, b, a)
  <2>1. Arm89(p) <=> \/ \E c \in {"char", "short", "int", "long", "long_long"} : Is("signed", c)
                     \/ Is("unsigned", "long_long") \/ Is("double", "long")
    <3> HIDE DEF Is
    <3> QED BY <1>1, <1>2, Arm89Is
  <2>2. Arm99(p) <=> Is("int", "long_long") \/ Is("complex", "float") \/ Is("complex", "double")
    <3> HIDE DEF Is
    <3> QED BY <1>1, <1>2, Arm99Is
  <2>3. ~ ArmCpp(p)
    BY <1>1, <1>6, ArmCppIs
  <2>4. ArmAll(p) <=> \/ Is("int", "short") \/ Is("int", "long") \/ Is("long", "long_long")
                      \/ \E c \in {"char", "short", "int", "long"} : Is("unsigned", c)
    <3> HIDE DEF Is
    <3> QED BY <1>1, <1>2, ArmAllIs
  <2>5. \A c : p # {c}
    BY <1>2, <1>3
  <2>6. p = {"float", "long"} <=> Is("float", "long")
    BY <1>1, <1>3
  <2>7. p \notin {{"char16_t"}, {"char32_t"}} /\ p # {"class"} /\ p # {"wchar_t"}
    BY <2>5
  <2>8. Apart(p)
    <3>1. Arm89(p) => ~Arm99(p) /\ ~ Is("float", "long") /\ ~ArmAll(p)
      BY <2>1, <2>2, <2>4
    <3>2. Arm99(p) => ~ Is("float", "long") /\ ~ArmAll(p)
      BY <2>2, <2>4
    <3>3. Is("float", "long") => ~ArmAll(p)
      BY <2>4
    <3> HIDE DEF Is
    <3> QED BY <2>6, <2>7, <3>1, <3>2, <3>3 DEF Apart
  <2>9. l \in OK_TYPE_LANGS(p) <=>
          IF Arm89(p) THEN l \in LANG_MIN("c89")
          ELSE IF p = {"wchar_t"} THEN l \in LANG_MIN("c95")
          ELSE IF Arm99(p) THEN l \in LANG_MIN("c99")
          ELSE IF p = {"float", "long"} THEN l = "knr"
          ELSE ArmAll(p)
    BY <2>3, <2>7, <2>8, Arms
  <2>10. l \in OK_TYPE_LANGS(p) <=>
          IF Arm89(p) THEN Since89(l)
          ELSE IF Arm99(p) THEN Since99(l)
          ELSE IF Is("float", "long") THEN l = "knr"
          ELSE ArmAll(p)
    BY <2>6, <2>7, <2>9, Standards
  <2>11. /\ \E c \in {"char", "short", "int", "long", "long_long"} : Is("signed", c)
              <=> \/ a = "signed" /\ b \in {"char", "short", "int", "long", "long_long"}
                  \/ b = "signed" /\ a \in {"char", "short", "int", "long", "long_long"}
         /\ \E c \in {"char", "short", "int", "long"} : Is("unsigned", c)
              <=> \/ a = "unsigned" /\ b \in {"char", "short", "int", "long"}
                  \/ b = "unsigned" /\ a \in {"char", "short", "int", "long"}
    OBVIOUS
  <2> QED BY <2>1, <2>2, <2>4, <2>10, <2>11 DEF Goes, Since89
<1> QED BY <1>4 DEF p, Two

\* The integer types, and the others that have no sign.
IsInteger(l, T) ==
  /\ T # {} /\ T \subseteq IntegerBit \cup {"int"}
  /\ ~ ("signed" \in T /\ "unsigned" \in T) /\ ("signed" \in T => Since89(l))
  /\ ~ ("short" \in T /\ "long" \in T)
  /\ "long_long" \in T => "long" \in T /\ Since99(l)

\* The parts of an integer type.
Signs(l) == IF l = "knr" THEN {{}, {"unsigned"}} ELSE {{}, {"signed"}, {"unsigned"}}
Sizes(l) == {{"short"}, {"long"}} \cup (IF Since99(l) THEN {{"long", "long_long"}} ELSE {})
Sums(l) ==
  {sign \cup size \cup int : sign \in Signs(l), size \in Sizes(l) \cup {{}},
                             int \in {{}, {"int"}}} \ {{}}

\* A sum of a sign, a size and int, without the words of CType.
LEMMA IntegerIs ==
  ASSUME NEW l \in Language, NEW T
  PROVE  T \in Sums(l) <=> IsInteger(l, T)
<1> DEFINE Sign == Signs(l)
           Size == Sizes(l)
           Sum == Sums(l)
<1> USE DEF Signs, Sizes, Sums
<1>1. ASSUME T \in Sum PROVE IsInteger(l, T)
  <2>1. PICK sign \in Sign, size \in Size \cup {{}}, int \in {{}, {"int"}} :
          T = sign \cup size \cup int
    BY <1>1
  <2>2. sign \in {{}, {"signed"}, {"unsigned"}} /\ (sign = {"signed"} => Since89(l))
    BY DEF Since89
  <2>3. size \in {{}, {"short"}, {"long"}, {"long", "long_long"}}
        /\ ("long_long" \in size => Since99(l))
    OBVIOUS
  <2> HIDE DEF Sign, Size
  <2> QED BY <1>1, <2>1, <2>2, <2>3 DEF IsInteger, IntegerBit
<1>2. ASSUME IsInteger(l, T) PROVE T \in Sum
  <2> DEFINE sign == T \cap {"signed", "unsigned"}
             size == T \cap {"short", "long", "long_long"}
             int == T \cap {"int"}
  <2>1. T = sign \cup size \cup int /\ T # {}
    BY <1>2 DEF IsInteger, IntegerBit
  <2>2. sign \in Sign
    BY <1>2 DEF IsInteger, Since89
  <2>3. size \in Size \cup {{}}
    <3>1. "long_long" \in T => "long" \in T /\ Since99(l)
      BY <1>2 DEF IsInteger
    <3>2. ~ ("short" \in T /\ "long" \in T)
      BY <1>2 DEF IsInteger
    <3>3. CASE "long_long" \in T
      <4>1. size = {"long", "long_long"}
        BY <3>1, <3>2, <3>3
      <4> QED BY <3>1, <3>3, <4>1
    <3>4. CASE "long_long" \notin T
      <4>1. size \in {{}, {"short"}, {"long"}}
        BY <3>2, <3>4
      <4> QED BY <4>1
    <3> QED BY <3>3, <3>4
  <2>4. int \in {{}, {"int"}}
    OBVIOUS
  <2> HIDE DEF sign, size, int, Signs, Sizes
  <2> QED BY <2>1, <2>2, <2>3, <2>4
<1> QED BY <1>1, <1>2

\* The types that are not integer types.
IsOther(l, T) ==
  \/ T \in {{"char"}, {"unsigned", "char"}, {"float"}, {"double"}}
  \/ (T = {"signed", "char"} /\ Since89(l))
  \/ (T = {"long", "float"} /\ l = "knr")
  \/ (T \in {{"void"}, {"long", "double"}} /\ Since89(l))
  \/ (T = {"wchar_t"} /\ Since95(l))
  \/ (T \in {{"bool"}, {"complex"}, {"float", "complex"}, {"double", "complex"}} /\ Since99(l))

\* The arithmetic types and void are the integer types and the others.
LEMMA CTypeIs ==
  ASSUME NEW l \in Language, NEW T
  PROVE  T \in CType(l) <=> IsInteger(l, T) \/ IsOther(l, T)
<1> DEFINE Integer == Sums(l)
           Character == {sign \cup {"char"} : sign \in Signs(l)}
           Rest ==
             {{"float"}, {"double"}}
             \cup (IF l = "knr" THEN {{"long", "float"}} ELSE {{"void"}, {"long", "double"}})
             \cup (IF Since95(l) THEN {{"wchar_t"}} ELSE {})
             \cup (IF Since99(l)
                   THEN {{"bool"}, {"complex"}, {"float", "complex"}, {"double", "complex"}}
                   ELSE {})
<1>1. CType(l) = Integer \cup Character \cup Rest
  <2>1. (Rank(l) >= Rank("c95")) = Since95(l) /\ (Rank(l) >= Rank("c99")) = Since99(l)
    BY Standards DEF Since95, Since99
  <2> DEFINE Size(c99) == {{"short"}, {"long"}}
                          \cup (IF c99 THEN {{"long", "long_long"}} ELSE {})
             Whole(c95, c99) ==
               ({sign \cup size \cup int : sign \in Signs(l), size \in Size(c99) \cup {{}},
                                           int \in {{}, {"int"}}} \ {{}})
               \cup {sign \cup {"char"} : sign \in Signs(l)}
               \cup {{"float"}, {"double"}}
               \cup (IF l = "knr" THEN {{"long", "float"}} ELSE {{"void"}, {"long", "double"}})
               \cup (IF c95 THEN {{"wchar_t"}} ELSE {})
               \cup (IF c99
                     THEN {{"bool"}, {"complex"}, {"float", "complex"}, {"double", "complex"}}
                     ELSE {})
  <2>2. CType(l) = Whole(Rank(l) >= Rank("c95"), Rank(l) >= Rank("c99"))
    BY DEF CType, Signs
  <2>5. Whole(Since95(l), Since99(l)) = Whole(Rank(l) >= Rank("c95"), Rank(l) >= Rank("c99"))
    <3> HIDE DEF Whole
    <3> QED BY <2>1
  <2>3. Whole(Since95(l), Since99(l))
          = Integer \cup Character \cup {{"float"}, {"double"}}
            \cup (IF l = "knr" THEN {{"long", "float"}} ELSE {{"void"}, {"long", "double"}})
            \cup (IF Since95(l) THEN {{"wchar_t"}} ELSE {})
            \cup (IF Since99(l)
                  THEN {{"bool"}, {"complex"}, {"float", "complex"}, {"double", "complex"}}
                  ELSE {})
    BY DEF Sums, Sizes
  <2> HIDE DEF Integer, Character, Whole
  <2>4. \A A, B, C, D, E, F :
          A \cup B \cup C \cup D \cup E \cup F = A \cup B \cup (C \cup D \cup E \cup F)
    OBVIOUS
  <2> QED BY <2>2, <2>3, <2>4, <2>5, Zenon
<1>2. T \in Integer <=> IsInteger(l, T)
  BY IntegerIs
<1>3. T \in Character <=> T \in {{"char"}, {"unsigned", "char"}}
                            \/ (T = {"signed", "char"} /\ Since89(l))
  <2>1. {} \cup {"char"} = {"char"} /\ {"unsigned"} \cup {"char"} = {"unsigned", "char"}
        /\ {"signed"} \cup {"char"} = {"signed", "char"}
    OBVIOUS
  <2>2. CASE l = "knr"
    <3>1. Signs(l) = {{}, {"unsigned"}}
      BY <2>2 DEF Signs
    <3>2. T \in Character <=> T = {} \cup {"char"} \/ T = {"unsigned"} \cup {"char"}
      BY <3>1, Zenon
    <3> HIDE DEF Character
    <3>3. ~ Since89(l)
      BY <2>2 DEF Since89
    <3> QED BY <2>1, <3>2, <3>3, Zenon
  <2>3. CASE l # "knr"
    <3>1. Signs(l) = {{}, {"signed"}, {"unsigned"}}
      BY <2>3 DEF Signs
    <3>2. T \in Character <=> T = {} \cup {"char"} \/ T = {"signed"} \cup {"char"}
                              \/ T = {"unsigned"} \cup {"char"}
      BY <3>1, Zenon
    <3> HIDE DEF Character
    <3>3. Since89(l)
      BY <2>3 DEF Since89
    <3> QED BY <2>1, <3>2, <3>3, Zenon
  <2> QED BY <2>2, <2>3
<1>4. T \in Rest <=>
        \/ T \in {{"float"}, {"double"}}
        \/ (T = {"long", "float"} /\ l = "knr")
        \/ (T \in {{"void"}, {"long", "double"}} /\ Since89(l))
        \/ (T = {"wchar_t"} /\ Since95(l))
        \/ (T \in {{"bool"}, {"complex"}, {"float", "complex"}, {"double", "complex"}} /\ Since99(l))
  BY Zenon DEF Since89
<1> HIDE DEF Integer, Character, Rest
<1>5. T \in CType(l) <=> T \in Integer \/ T \in Character \/ T \in Rest
  BY <1>1
<1> QED BY <1>2, <1>3, <1>4, <1>5, Zenon DEF IsOther

\* The bits go together two by two if and only if they are a type of the language.
LEMMA Clique ==
  ASSUME NEW l \in Language, NEW T, T \subseteq Bits, T # {},
         "long_long" \in T => "long" \in T
  PROVE  (\A a, b \in T : l \in OK_TYPE_LANGS({a, b})) <=> T \in CType(l)
<1> DEFINE Goal == IsInteger(l, T) \/ IsOther(l, T)
           Paired(a, b) == Goes(l, a, b) \/ Goes(l, b, a)
<1>1. \A a \in T : l \in OK_TYPE_LANGS({a, a}) <=> Alone(l, a)
  BY AloneIs
<1>2. \A a, b \in T : a # b => (l \in OK_TYPE_LANGS({a, b}) <=> Paired(a, b))
  BY GoesIs
<1>3. ASSUME \A a, b \in T : l \in OK_TYPE_LANGS({a, b}) PROVE Goal
  <2>1. \A a \in T : Alone(l, a)
    BY <1>1, <1>3
  <2>2. \A a, b \in T : a # b => Paired(a, b)
    BY <1>2, <1>3
  <2>3. \A b \in T : b \in Bits
    OBVIOUS
  <2>4. ASSUME NEW a \in {"void", "bool", "wchar_t"}, a \in T PROVE Goal
    <3>1. \A b : ~ Paired(a, b)
      BY DEF Goes
    <3>2. T = {a}
      BY <2>2, <2>4, <3>1
    <3> QED BY <2>1, <2>4, <3>2 DEF Alone, IsOther
  <2>5. ASSUME "char" \in T PROVE Goal
    <3>1. \A b : Paired("char", b) <=> b = "unsigned" \/ (b = "signed" /\ Since89(l))
      BY DEF Goes, Since89, Since99
    <3>2. ~ Paired("signed", "unsigned")
      BY DEF Goes
    <3>3. \A b \in T : b \in {"char", "signed", "unsigned"}
      BY <2>2, <2>5, <3>1
    <3>4. ~ ("signed" \in T /\ "unsigned" \in T)
      BY <2>2, <3>2
    <3>5. "signed" \in T => Since89(l)
      BY <2>2, <2>5, <3>1
    <3>6. T = {"char"} \/ T = {"unsigned", "char"} \/ (T = {"signed", "char"} /\ Since89(l))
      BY <2>5, <3>3, <3>4, <3>5 DEF Since89, Since99
    <3> QED BY <3>6 DEF IsOther
  <2>6. ASSUME "float" \in T PROVE Goal
    <3>1. \A b : Paired("float", b) <=> (b = "long" /\ l = "knr") \/ (b = "complex" /\ Since99(l))
      BY DEF Goes, Since89, Since99
    <3>2. ~ Paired("complex", "long")
      BY DEF Goes
    <3>3. \A b \in T : b \in {"float", "long", "complex"}
      BY <2>2, <2>6, <3>1
    <3>4. ~ ("complex" \in T /\ "long" \in T)
      BY <2>2, <3>2
    <3>5. ("long" \in T => l = "knr") /\ ("complex" \in T => Since99(l))
      BY <2>2, <2>6, <3>1
    <3>6. T = {"float"} \/ (T = {"long", "float"} /\ l = "knr")
          \/ (T = {"float", "complex"} /\ Since99(l))
      BY <2>6, <3>3, <3>4, <3>5 DEF Since89, Since99
    <3> QED BY <3>6 DEF IsOther
  <2>7. ASSUME "double" \in T PROVE Goal
    <3>1. \A b : Paired("double", b) <=> (b = "long" /\ Since89(l)) \/ (b = "complex" /\ Since99(l))
      BY DEF Goes, Since89, Since99
    <3>2. ~ Paired("complex", "long")
      BY DEF Goes
    <3>3. \A b \in T : b \in {"double", "long", "complex"}
      BY <2>2, <2>7, <3>1
    <3>4. ~ ("complex" \in T /\ "long" \in T)
      BY <2>2, <3>2
    <3>5. ("long" \in T => Since89(l)) /\ ("complex" \in T => Since99(l))
      BY <2>2, <2>7, <3>1
    <3>6. T = {"double"} \/ (T = {"long", "double"} /\ Since89(l))
          \/ (T = {"double", "complex"} /\ Since99(l))
      BY <2>7, <3>3, <3>4, <3>5 DEF Since89, Since99
    <3> QED BY <3>6 DEF IsOther
  <2>8. ASSUME "complex" \in T, "float" \notin T, "double" \notin T PROVE Goal
    <3>1. \A b : Paired("complex", b) => b \in {"float", "double"}
      BY DEF Goes
    <3>2. T = {"complex"}
      BY <2>2, <2>8, <3>1
    <3> QED BY <2>1, <2>8, <3>2 DEF Alone, IsOther
  <2>9. ASSUME T \subseteq IntegerBit \cup {"int"} PROVE Goal
    <3>1. ~ Paired("signed", "unsigned") /\ ~ Paired("short", "long")
      BY DEF Goes
    <3>2. ~ ("signed" \in T /\ "unsigned" \in T) /\ ~ ("short" \in T /\ "long" \in T)
      BY <2>2, <3>1
    <3>3. ("signed" \in T => Since89(l)) /\ ("long_long" \in T => Since99(l))
      BY <2>1 DEF Alone
    <3> QED BY <2>9, <3>2, <3>3 DEF IsInteger
  <2>10. \/ \E a \in {"void", "bool", "wchar_t"} : a \in T
         \/ "char" \in T \/ "float" \in T \/ "double" \in T \/ "complex" \in T
         \/ T \subseteq IntegerBit \cup {"int"}
    BY DEF Bits, IntegerBit
  <2> QED BY <2>4, <2>5, <2>6, <2>7, <2>8, <2>9, <2>10
<1>4. ASSUME Goal PROVE \A a, b \in T : l \in OK_TYPE_LANGS({a, b})
  <2>1. \A a \in T : Alone(l, a)
    BY <1>4 DEF Alone, IsInteger, IsOther, IntegerBit, Since89, Since95, Since99
  <2>2. \A a, b \in T : a # b => Paired(a, b)
    <3>1. CASE IsInteger(l, T)
      BY <3>1 DEF Goes, IsInteger, IntegerBit, Since89, Since99
    <3>2. CASE IsOther(l, T)
      BY <3>2 DEF Goes, IsOther, Since89, Since99
    <3> QED BY <1>4, <3>1, <3>2
  <2>3. ASSUME NEW a \in T, NEW b \in T PROVE l \in OK_TYPE_LANGS({a, b})
    <3>1. CASE a = b
      BY <1>1, <2>1, <3>1
    <3>2. CASE a # b
      BY <1>2, <2>2, <3>2
    <3> QED BY <3>1, <3>2
  <2> QED BY <2>3
<1> QED BY <1>3, <1>4, CTypeIs

\* The storage classes that a specifier gives.
Classes == {"auto", "extern", "register", "static"}

\* No two storage classes of those that a specifier gives go together.
LEMMA ClassesAre ==
  ASSUME NEW l \in Language, NEW pair, pair \subseteq Classes
  PROVE  l \in OK_STORAGE_LANGS(pair) <=> \E c \in Classes : pair = {c}
<1> DEFINE p1 == pair \in {{b} : b \in {"auto", "__block", "extern", "register", "static", "typedef"}}
                          \cup {{"__block", b} : b \in {"auto", "extern", "register", "typedef"}}
           p2 == pair \in {{"thread_local"}} \cup
                          {{"thread_local", b} : b \in {"__block", "extern", "static"}}
           p3 == pair \in {{"inline"}, {"inline", "extern"}, {"inline", "static"}}
           p4 == pair \in {{"noreturn"}} \cup
                          {{"noreturn", b} : b \in {"extern", "static", "inline"}} \cup
                          {{"override", "inline"}}
           p5 == pair \in {{"friend"}, {"inline", "friend"}, {"virtual"}, {"virtual", "inline"},
                           {"pure"}, {"pure", "inline"}, {"pure", "virtual"}}
           p6 == pair = {"mutable"}
           p7 == pair \in {{"constexpr"}, {"final"}, {"override"}, {"inline", "constexpr"},
                           {"inline", "final"}} \cup
                          {{"constexpr", b} : b \in {"auto", "__block", "extern", "static", "friend"}}
                          \cup {{"override", b} : b \in {"final", "virtual", "pure"}} \cup
                          {{"virtual", "final"}}
           v == OK_STORAGE_LANGS(pair)
<1>1. /\ "thread_local" \notin pair /\ "inline" \notin pair /\ "noreturn" \notin pair
      /\ "override" \notin pair /\ "friend" \notin pair /\ "virtual" \notin pair
      /\ "pure" \notin pair /\ "mutable" \notin pair /\ "constexpr" \notin pair
      /\ "final" \notin pair /\ "__block" \notin pair /\ "typedef" \notin pair
  BY DEF Classes
<1>2. p1 <=> \E c \in Classes : pair = {c}
  <2>1. p1 <=> \/ \E b \in {"auto", "__block", "extern", "register", "static", "typedef"} : pair = {b}
               \/ \E b \in {"auto", "extern", "register", "typedef"} : pair = {"__block", b}
    BY Zenon
  <2>2. \A b : pair # {"__block", b} /\ pair # {"__block"} /\ pair # {"typedef"}
    BY <1>1
  <2> HIDE DEF p1
  <2> QED BY <2>1, <2>2 DEF Classes
<1>3. ~p2 /\ ~p3
  <2>1. \A b : /\ pair # {"thread_local", b} /\ pair # {"thread_local"}
               /\ pair # {"inline", b} /\ pair # {"inline"}
    BY <1>1
  <2> QED BY <2>1, Zenon
<1>4. ~p4 /\ ~p5 /\ ~p6
  <2>1. \A b : /\ pair # {"noreturn", b} /\ pair # {"noreturn"} /\ pair # {"override", b}
               /\ pair # {"friend"} /\ pair # {"inline", b} /\ pair # {"virtual"}
               /\ pair # {"virtual", b} /\ pair # {"pure"} /\ pair # {"pure", b}
               /\ pair # {"mutable"}
    BY <1>1
  <2> QED BY <2>1, Zenon
<1>5. ~p7
  <2>1. \A b : /\ pair # {"constexpr"} /\ pair # {"final"} /\ pair # {"override"}
               /\ pair # {"inline", b} /\ pair # {"constexpr", b} /\ pair # {"override", b}
               /\ pair # {"virtual", b}
    BY <1>1
  <2> QED BY <2>1, Zenon
<1>6. v = CASE p1 -> Language
            [] p2 -> {"c11"} \cup LANG_MIN("c++11")
            [] p3 -> LANG_MIN("c99")
            [] p4 -> LANG_MIN("c11")
            [] p5 -> LANG_CPP_ALL
            [] p6 -> LANG_MIN("c++03")
            [] p7 -> LANG_MIN("c++11")
            [] OTHER -> {}
  BY DEF OK_STORAGE_LANGS
<1> HIDE DEF p1, p2, p3, p4, p5, p6, p7, v
<1>7. (p1 => v = Language) /\ (~p1 => v = {})
  BY <1>3, <1>4, <1>5, <1>6
<1> QED BY <1>2, <1>7 DEF v

\* Storage classes go together two by two if there is one at most.
LEMMA OneClass ==
  ASSUME NEW l \in Language, NEW S, S \subseteq Classes
  PROVE  (\A a, b \in S : l \in OK_STORAGE_LANGS({a, b})) <=> Cardinality(S) <= 1
<1>1. IsFiniteSet(S)
  <2>1. IsFiniteSet(Classes)
    <3>1. Classes = {"auto"} \cup {"extern"} \cup {"register"} \cup {"static"}
      BY DEF Classes
    <3> QED BY <3>1, FS_Singleton, FS_Union
  <2> QED BY <2>1, FS_Subset
<1>2. Cardinality(S) <= 1 <=> \A a, b \in S : a = b
  <2>1. ASSUME \A a, b \in S : a = b PROVE Cardinality(S) <= 1
    <3>1. CASE S = {}
      BY <3>1, FS_EmptySet
    <3>2. CASE S # {}
      <4>1. PICK a \in S : S = {a}
        BY <2>1, <3>2
      <4> QED BY <4>1, FS_Singleton
    <3> QED BY <3>1, <3>2
  <2>2. ASSUME NEW a \in S, NEW b \in S, a # b PROVE ~ (Cardinality(S) <= 1)
    <3>1. Cardinality({a}) = 1 /\ IsFiniteSet({a})
      BY FS_Singleton
    <3>2. Cardinality({a} \cup {b}) = 2
      BY <2>2, <3>1, FS_AddElement
    <3>3. {a} \cup {b} \subseteq S
      OBVIOUS
    <3>4. Cardinality({a} \cup {b}) <= Cardinality(S) /\ Cardinality(S) \in Nat
      BY <1>1, <3>3, FS_Subset, FS_CardinalityType
    <3> QED BY <3>2, <3>4
  <2> QED BY <2>1, <2>2
<1>3. \A a, b \in S : l \in OK_STORAGE_LANGS({a, b}) <=> a = b
  <2> TAKE a \in S, b \in S
  <2>1. {a, b} \subseteq Classes /\ a \in Classes
    OBVIOUS
  <2>2. l \in OK_STORAGE_LANGS({a, b}) <=> \E c \in Classes : {a, b} = {c}
    BY <2>1, ClassesAre
  <2>3. (\E c \in Classes : {a, b} = {c}) <=> a = b
    BY <2>1
  <2> QED BY <2>2, <2>3
<1> QED BY <1>2, <1>3

\* The table: what c_type_check finds legal among what the specifiers give.
LEMMA Table ==
  ASSUME NEW l \in Language, NEW W,
         W \subseteq Bits \cup Classes \cup {"const", "restrict", "volatile"},
         "long_long" \in W => "long" \in W
  PROVE  (c_type_check(l, W) /\ W \cap TypeBit # {})
           <=> /\ W \cap TypeBit \in CType(l)
               /\ \A bit \in W \ TypeBit : l \in ok_langs(bit)
               /\ Cardinality(W \cap StorageBit) <= 1
<1> DEFINE T == W \cap TypeBit
           S == W \cap StorageBit
<1>1. T \subseteq Bits /\ ("long_long" \in T => "long" \in T) /\ S \subseteq Classes
  BY DEF Bits, Classes, TypeBit, IntegerBit, StorageBit
<1>2. T # {} => ((\A a, b \in T : l \in OK_TYPE_LANGS({a, b})) <=> T \in CType(l))
  BY <1>1, Clique
<1>3. T \in CType(l) => T # {}
  <2>1. ~ IsInteger(l, {}) /\ ~ IsOther(l, {})
    BY DEF IsInteger, IsOther
  <2> QED BY <2>1, CTypeIs
<1>4. (\A a, b \in S : l \in OK_STORAGE_LANGS({a, b})) <=> Cardinality(S) <= 1
  BY <1>1, OneClass
<1>5. (\A a, b \in T : l \in OK_TYPE_LANGS({a, b})) => \A bit \in T : l \in ok_langs(bit)
  <2> SUFFICES ASSUME \A a, b \in T : l \in OK_TYPE_LANGS({a, b}), NEW bit \in T
               PROVE  l \in ok_langs(bit)
    OBVIOUS
  <2>1. l \in OK_TYPE_LANGS({bit, bit}) /\ bit \in Bits
    BY <1>1
  <2> QED BY <2>1, AloneIs
<1>6. c_type_check(l, W) <=>
        /\ \A bit \in T : l \in ok_langs(bit)
        /\ \A bit \in W \ TypeBit : l \in ok_langs(bit)
        /\ \A a, b \in S : l \in OK_STORAGE_LANGS({a, b})
        /\ \A a, b \in T : l \in OK_TYPE_LANGS({a, b})
  BY DEF c_type_check
<1> HIDE DEF S
<1> QED BY <1>2, <1>3, <1>4, <1>5, <1>6 DEF S

-----------------------------------------------------------------------------
(* What is legal.                                                          *)

\* How many times t was read for a list to be what it is.
Held(list, t) == IF t = "long" THEN Longs(list) ELSE IF t \in list THEN 1 ELSE 0

\* The lists say how often every specifier was read.
Reckoned ==
  \A t \in Builtin \cup Modifier : Times(t) = Held(before, t) + Held(base, t) + Held(after, t)

\* A specifier is there too often.
Repeated == \E t \in ToSet(tokens) : Times(t) > (IF t = "long" THEN 2 ELSE 1)

\* What a conflict shows of the specifiers read.
Refusable ==
  LongAround \/ Repeated \/ ("long_long" \in Written /\ Written \cap {"float", "double"} # {})

\* The inductive invariant of what is legal.
LInv ==
  /\ IInv
  /\ verdict # "conflict" => Reckoned
  /\ verdict = "conflict" => Refusable
  /\ verdict \in {"legal", "illegal"} =>
       (verdict = "legal" <=> c_type_check(lang, Type) /\ Type \cap TypeBit # {})

\* A list refuses what it has, and long when it has it twice.
LEMMA Refused ==
  ASSUME NEW list, Fine(list), NEW m \in Modifier
  PROVE  Extend(list, m) = Conflict <=> (m \in list /\ (m = "long" => "long_long" \in list))
<1>1. /\ list \cap {"float", "double"} = {} /\ list # Conflict /\ {m} # Conflict
      /\ m \notin {"float", "double", "long_long"} /\ "can not be combined" \notin list
      /\ m # "can not be combined" /\ ("long_long" \in list => "long" \in list)
  BY Tokens DEF Fine, Conflict
<1>2. CASE list = {}
  BY <1>1, <1>2 DEF Extend
<1>3. CASE list # {} /\ "long" \in list /\ m = "long"
  <2>1. is_long_int(list) /\ is_long_int({m})
    BY <1>1, <1>3 DEF is_long_int
  <2>2. Extend(list, m) = IF list \cap {"long_long"} # {} THEN Conflict
                          ELSE list \cup {"long_long"}
    BY <1>1, <1>3, <2>1 DEF Extend, c_type_add
  <2>3. list \cup {"long_long"} # Conflict
    BY <1>1, <1>3 DEF Conflict
  <2> QED BY <1>3, <2>2, <2>3
<1>4. CASE list # {} /\ ~ ("long" \in list /\ m = "long")
  <2>1. ~ (is_long_int(list) /\ is_long_int({m}))
    BY <1>4 DEF is_long_int
  <2>2. Extend(list, m) = IF list \cap {m} # {} THEN Conflict ELSE list \cup {m}
    BY <1>1, <1>4, <2>1 DEF Extend, c_type_add
  <2>3. list \cup {m} # Conflict
    BY <1>1 DEF Conflict
  <2> QED BY <1>1, <1>4, <2>2, <2>3
<1> QED BY <1>2, <1>3, <1>4

\* A count of a list is a small number.
LEMMA HeldIsNat == \A list, t : Held(list, t) \in {0, 1, 2}
BY DEF Held, Longs

\* A list that takes a specifier counts it.
LEMMA HeldMore ==
  ASSUME NEW list, Fine(list), NEW m \in Modifier, Extend(list, m) # Conflict
  PROVE  \A t \in Builtin \cup Modifier :
           Held(Extend(list, m), t) = Held(list, t) + (IF t = m THEN 1 ELSE 0)
<1> DEFINE e == Extend(list, m)
<1>1. Takes(list, e, m)
  BY Extended
<1> HIDE DEF e
<1>2. m # "long" => m \notin list
  BY Refused DEF e
<1> TAKE t \in Builtin \cup Modifier
<1>3. t # "long_long"
  BY Tokens
<1>4. e \ {"long_long"} = (list \ {"long_long"}) \cup {m}
  BY <1>1 DEF Takes
<1>5. t \in e <=> t \in list \/ t = m
  BY <1>3, <1>4
<1>6. Longs(list) \in Nat /\ Longs(e) \in Nat
  BY DEF Longs
<1>7. CASE t = "long"
  <2>1. Held(e, t) = Longs(e) /\ Held(list, t) = Longs(list)
    BY <1>7 DEF Held
  <2>2. CASE m = "long"
    <3>1. Longs(list) + 1 = Longs(e)
      BY <1>1, <2>2 DEF Takes
    <3> QED BY <1>6, <1>7, <2>1, <2>2, <3>1 DEF e
  <2>3. CASE m # "long"
    <3>1. Longs(list) = Longs(e)
      BY <1>1, <2>3 DEF Takes
    <3> QED BY <1>6, <1>7, <2>1, <2>3, <3>1 DEF e
  <2> QED BY <2>2, <2>3
<1>8. CASE t # "long"
  <2>1. Held(e, t) = (IF t \in e THEN 1 ELSE 0) /\ Held(list, t) = (IF t \in list THEN 1 ELSE 0)
    BY <1>8 DEF Held
  <2>2. t = m => t \notin list
    BY <1>2, <1>8
  <2> QED BY <1>5, <2>1, <2>2 DEF e
<1> QED BY <1>7, <1>8

\* Nothing has been read.
LEMMA LInit == Init => LInv
<1> SUFFICES ASSUME Init PROVE LInv
  OBVIOUS
<1>1. tokens = <<>> /\ before = {} /\ base = {} /\ after = {} /\ verdict = "reading"
  BY DEF Init
<1>2. \A t : Times(t) = 0
  <2>1. \A t : {i \in DOMAIN tokens : tokens[i] = t} = {}
    BY <1>1
  <2> QED BY <2>1, FS_EmptySet DEF Times
<1>3. \A t : Held({}, t) = 0
  BY DEF Held, Longs
<1> QED BY <1>1, <1>2, <1>3, InitInvariant DEF LInv, Reckoned

\* What AppendToken says of a step that reads m.
LEMMA OneMore ==
  ASSUME tokens \in Seq(Builtin \cup Modifier), NEW m \in Builtin \cup Modifier,
         tokens' = Append(tokens, m)
  PROVE  /\ ToSet(tokens') = ToSet(tokens) \cup {m}
         /\ \A t : /\ Times(t) \in Nat
                   /\ t = m => Times(t)' = Times(t) + 1
                   /\ t # m => Times(t)' = Times(t)
<1>1. /\ ToSet(tokens') = ToSet(tokens) \cup {m}
      /\ \A t : /\ CountOf(tokens, t) \in Nat
                /\ t = m => CountOf(tokens', t) = CountOf(tokens, t) + 1
                /\ t # m => CountOf(tokens', t) = CountOf(tokens, t)
  BY AppendToken
<1>2. \A t : Times(t) = CountOf(tokens, t) /\ Times(t)' = CountOf(tokens', t)
  BY DEF Times, CountOf
<1> QED BY <1>1, <1>2

\* A modifier that is taken is counted; one that is not is there too often.
LEMMA LModifier == LInv /\ type_modifier_c => LInv'
<1> SUFFICES ASSUME LInv, type_modifier_c PROVE LInv'
  OBVIOUS
<1>1. PICK m \in Modifier :
        /\ tokens' = Append(tokens, m)
        /\ IF base = {} THEN before' = Extend(before, m) /\ after' = after
                        ELSE after' = Extend(after, m) /\ before' = before
  BY DEF type_modifier_c
<1>2. /\ verdict = "reading" /\ lang' = lang /\ base' = base
      /\ verdict' = IF Conflict \in {before', after'} THEN "conflict" ELSE verdict
  BY DEF type_modifier_c, Reading
<1>3. IInv /\ IInv' /\ Reckoned /\ Fine(before) /\ Fine(after)
      /\ tokens \in Seq(Builtin \cup Modifier) /\ base \subseteq Builtin
  BY <1>2, ModifierStep DEF LInv, IInv, Counted, TypeOK
<1>4. /\ ToSet(tokens') = ToSet(tokens) \cup {m}
      /\ \A t : /\ Times(t) \in Nat
                /\ t = m => Times(t)' = Times(t) + 1
                /\ t # m => Times(t)' = Times(t)
  BY <1>1, <1>3, OneMore
<1>5. before # Conflict /\ after # Conflict
  BY <1>3, Tokens DEF Fine, Conflict
<1> DEFINE list == IF base = {} THEN before ELSE after
<1>6. Fine(list) /\ (verdict' = "conflict" <=> Extend(list, m) = Conflict)
  BY <1>1, <1>2, <1>3, <1>5
<1>7. ASSUME verdict' # "conflict" PROVE Reckoned'
  <2>1. Extend(list, m) # Conflict
    BY <1>6, <1>7
  <2>2. \A t \in Builtin \cup Modifier :
           Held(Extend(list, m), t) = Held(list, t) + (IF t = m THEN 1 ELSE 0)
    BY <1>6, <2>1, HeldMore
  <2>3. ASSUME NEW t \in Builtin \cup Modifier
        PROVE  Times(t)' = Held(before', t) + Held(base', t) + Held(after', t)
    <3>1. Times(t) = Held(before, t) + Held(base, t) + Held(after, t)
      BY <1>3 DEF Reckoned
    <3>2. Times(t)' = Times(t) + (IF t = m THEN 1 ELSE 0)
      BY <1>4
    <3>3. /\ Held(before, t) \in Int /\ Held(base, t) \in Int /\ Held(after, t) \in Int
          /\ (IF t = m THEN 1 ELSE 0) \in Int
      BY HeldIsNat
    <3> DEFINE d == IF t = m THEN 1 ELSE 0
    <3>4. CASE base = {}
      <4>1. Held(before', t) = Held(before, t) + d /\ Held(after', t) = Held(after, t)
            /\ Held(base', t) = Held(base, t)
        BY <1>1, <1>2, <2>2, <3>4
      <4> HIDE DEF d
      <4> QED BY <3>1, <3>2, <3>3, <4>1 DEF d
    <3>5. CASE base # {}
      <4>1. Held(after', t) = Held(after, t) + d /\ Held(before', t) = Held(before, t)
            /\ Held(base', t) = Held(base, t)
        BY <1>1, <1>2, <2>2, <3>5
      <4> HIDE DEF d
      <4> QED BY <3>1, <3>2, <3>3, <4>1 DEF d
    <3> QED BY <3>4, <3>5
  <2> QED BY <2>3 DEF Reckoned
<1>8. ASSUME verdict' = "conflict" PROVE Refusable'
  <2>1. m \in list /\ (m = "long" => "long_long" \in list)
    BY <1>6, <1>8, Refused
  <2>2. Held(list, m) = IF m = "long" THEN 2 ELSE 1
    BY <2>1 DEF Held, Longs
  <2>3. Times(m) = Held(before, m) + Held(base, m) + Held(after, m)
    BY <1>3 DEF Reckoned
  <2>4. Held(before, m) \in Nat /\ Held(base, m) \in Nat /\ Held(after, m) \in Nat
    BY HeldIsNat
  <2>5. Times(m) >= Held(list, m)
    <3> DEFINE x == Held(before, m)
               y == Held(base, m)
               z == Held(after, m)
    <3>1. Held(list, m) = x \/ Held(list, m) = z
      OBVIOUS
    <3> HIDE DEF x, y, z
    <3> QED BY <2>3, <2>4, <3>1 DEF x, y, z
  <2>6. Times(m)' = Times(m) + 1 /\ m \in ToSet(tokens') /\ Times(m) \in Nat
    BY <1>4
  <2>7. Times(m)' > (IF m = "long" THEN 2 ELSE 1)
    BY <2>2, <2>5, <2>6
  <2>8. Repeated'
    BY <2>6, <2>7 DEF Repeated
  <2> QED BY <2>8 DEF Refusable
<1> QED BY <1>2, <1>3, <1>7, <1>8 DEF LInv

\* The built-in type is counted in its own part.
LEMMA LBuiltin == LInv /\ builtin_type_c => LInv'
<1> SUFFICES ASSUME LInv, builtin_type_c PROVE LInv'
  OBVIOUS
<1>1. PICK b \in Builtin : base' = {b} /\ tokens' = Append(tokens, b)
  BY DEF builtin_type_c
<1>2. /\ verdict = "reading" /\ base = {} /\ before' = before /\ after' = after
      /\ verdict' = verdict
  BY DEF builtin_type_c, Reading
<1>3. IInv /\ IInv' /\ Reckoned /\ tokens \in Seq(Builtin \cup Modifier)
  BY <1>2, BuiltinStep DEF LInv, IInv
<1>4. \A t : /\ Times(t) \in Nat
             /\ t = b => Times(t)' = Times(t) + 1
             /\ t # b => Times(t)' = Times(t)
  BY <1>1, <1>3, OneMore
<1>5. \A t \in Builtin \cup Modifier : Held({}, t) = 0 /\ Held({b}, t) = IF t = b THEN 1 ELSE 0
  BY Tokens DEF Held, Longs
<1>6. ASSUME NEW t \in Builtin \cup Modifier
      PROVE  Times(t)' = Held(before', t) + Held(base', t) + Held(after', t)
  <2>1. Times(t) = Held(before, t) + Held(base, t) + Held(after, t)
    BY <1>3 DEF Reckoned
  <2>2. Held(before, t) \in Int /\ Held(after, t) \in Int
    BY HeldIsNat
  <2>3. Held(base, t) = 0 /\ Held(base', t) = IF t = b THEN 1 ELSE 0
    BY <1>1, <1>2, <1>5
  <2>4. Times(t)' = Times(t) + IF t = b THEN 1 ELSE 0
    BY <1>4
  <2> QED BY <1>2, <2>1, <2>2, <2>3, <2>4
<1>7. Reckoned'
  BY <1>6 DEF Reckoned
<1> QED BY <1>2, <1>3, <1>7 DEF LInv

\* The parts of a type conflict over what is repeated, or long float twice over.
LEMMA PartsConflict ==
  ASSUME IInv, Reckoned, verdict = "reading", Type = Conflict
  PROVE  Refusable
<1>1. /\ Fine(before) /\ Fine(after) /\ base \subseteq Builtin /\ Cardinality(base) <= 1
      /\ ToSet(tokens) = (before \cup base \cup after) \ {"long_long"}
      /\ base = {} => after = {}
      /\ tokens \in Seq(Builtin \cup Modifier)
  BY DEF IInv, Counted, TypeOK
<1>2. "can not be combined" \notin before \cup base \cup after \cup Implicit(lang)
  BY <1>1, Tokens DEF Fine, Implicit
<1>3. base # {}
  <2> SUFFICES ASSUME base = {} PROVE FALSE
    OBVIOUS
  <2>1. Type = c_type_add(Implicit(lang), before)
    BY DEF Type
  <2>2. Implicit(lang) \cap before = {} /\ ~ is_long_int(Implicit(lang))
    BY <1>1, Tokens DEF Implicit, Fine, is_long_int
  <2>3. Type = Implicit(lang) \cup before
    BY <1>2, <2>1, <2>2 DEF c_type_add, Conflict
  <2> QED BY <1>2, <2>3 DEF Conflict
<1> DEFINE first == base \cup before
<1>4. Type = c_type_add(first, after)
  <2>1. base \cap before = {} /\ ~ is_long_int(base)
    BY <1>1, Tokens DEF Fine, is_long_int
  <2>2. c_type_add(base, before) = first
    BY <1>2, <2>1 DEF c_type_add, Conflict
  <2> QED BY <1>3, <2>2 DEF Type
<1>5. first # Conflict /\ after # Conflict /\ first \cup after # Conflict
  BY <1>2, <1>3 DEF Conflict
<1>6. ASSUME NEW t \in before, t \in after, t \notin {"long", "long_long"} PROVE Repeated
  <2>1. t \in Modifier /\ t \in ToSet(tokens)
    BY <1>1, <1>6 DEF Fine
  <2>2. Held(before, t) = 1 /\ Held(after, t) = 1 /\ Held(base, t) = 0
    BY <1>1, <1>6, <2>1, Tokens DEF Held
  <2>3. Times(t) = Held(before, t) + Held(base, t) + Held(after, t)
    BY <2>1 DEF Reckoned
  <2>4. Times(t) > 1
    BY <2>2, <2>3
  <2> QED BY <1>6, <2>1, <2>4 DEF Repeated
<1>7. CASE is_long_int(first) /\ is_long_int(after)
  <2>1. "long" \in before /\ "long" \in after
    BY <1>1, <1>7, Tokens DEF is_long_int
  <2>2. Type = IF first \cap {"long_long"} # {} THEN Conflict ELSE first \cup {"long_long"}
    BY <1>4, <1>5, <1>7 DEF c_type_add
  <2>3. first \cup {"long_long"} # Conflict
    BY <1>3, <1>2 DEF Conflict
  <2>4. "long_long" \in before
    BY <1>1, <2>2, <2>3, Tokens
  <2>5. Held(before, "long") = 2 /\ Held(after, "long") >= 1 /\ Held(after, "long") \in Nat
        /\ Held(base, "long") \in Nat
    BY <2>1, <2>4 DEF Held, Longs
  <2>6. "long" \in Modifier /\ "long" \in ToSet(tokens)
    BY <1>1, <2>1 DEF Fine
  <2>7. Times("long") = Held(before, "long") + Held(base, "long") + Held(after, "long")
    BY <2>6 DEF Reckoned
  <2>8. Times("long") > 2
    BY <2>5, <2>7
  <2>9. Repeated
    BY <2>6, <2>8 DEF Repeated
  <2> QED BY <2>9 DEF Refusable
<1>8. CASE ~ (is_long_int(first) /\ is_long_int(after))
  <2>1. first \cap after # {}
    BY <1>4, <1>5, <1>8 DEF c_type_add
  <2>2. PICK t \in before : t \in after
    BY <1>1, <2>1, Tokens DEF Fine
  <2>3. CASE t \notin {"long", "long_long"}
    BY <1>6, <2>2, <2>3 DEF Refusable
  <2>4. CASE t \in {"long", "long_long"}
    <3>1. "long" \in before /\ "long" \in after
      BY <1>1, <2>2, <2>4 DEF Fine
    <3>2. CASE after # {"long"}
      BY <3>1, <3>2 DEF Refusable, LongAround
    <3>3. CASE after = {"long"}
      <4>1. is_long_int(after) /\ ~ is_long_int(first)
        BY <1>8, <3>3 DEF is_long_int
      <4>2. base \cap {"float", "double"} # {}
        BY <1>1, <3>1, <4>1, Tokens DEF is_long_int, Fine
      <4>3. Longs(after) = 1
        BY <3>3 DEF Longs
      <4>4. Times("long") = Longs(before) + 1
        BY <4>3 DEF IInv, Counted
      <4>5. "long" \in Modifier /\ "long" \in ToSet(tokens)
        BY <1>1, <3>1 DEF Fine
      <4>6. CASE "long_long" \in before
        <5>1. Longs(before) = 2
          BY <4>6 DEF Longs
        <5>2. Times("long") > 2
          BY <4>4, <5>1
        <5>3. Repeated
          BY <4>5, <5>2 DEF Repeated
        <5> QED BY <5>3 DEF Refusable
      <4>7. CASE "long_long" \notin before
        <5>1. Longs(before) = 1
          BY <3>1, <4>7 DEF Longs
        <5>2. Times("long") = 2
          BY <4>4, <5>1
        <5>3. "long_long" \in Written
          BY <5>2 DEF Written
        <5>4. base \subseteq ToSet(tokens)
          BY <1>1, Tokens
        <5>5. Written \cap {"float", "double"} # {}
          BY <4>2, <5>4 DEF Written
        <5> QED BY <5>3, <5>5 DEF Refusable
      <4> QED BY <4>6, <4>7
    <3> QED BY <3>2, <3>3
  <2> QED BY <2>3, <2>4
<1> QED BY <1>7, <1>8

\* Parts that do not conflict have each specifier once, and long twice.
LEMMA PartsFit ==
  ASSUME IInv, Reckoned, Counted, Type # Conflict, ~ LongAround
  PROVE  ~ Repeated
<1>1. /\ Fine(before) /\ Fine(after) /\ base \subseteq Builtin /\ Cardinality(base) <= 1
      /\ ToSet(tokens) = (before \cup base \cup after) \ {"long_long"}
      /\ base = {} => after = {}
      /\ ToSet(tokens) \subseteq Builtin \cup Modifier
  BY DEF IInv, Counted, TypeOK
<1>2. /\ base # {} /\ ~ ("long" \in before /\ "long" \in after) => before \cap after = {}
      /\ base # {} /\ "long" \in before /\ "long" \in after =>
           "long_long" \notin before /\ after = {"long"}
  BY <1>1, AddedUp
<1> SUFFICES ASSUME NEW t \in ToSet(tokens)
             PROVE  ~ (Times(t) > (IF t = "long" THEN 2 ELSE 1))
  BY DEF Repeated
<1>3. t \in Builtin \cup Modifier /\ t # "long_long"
  BY <1>1
<1>4. Times(t) = Held(before, t) + Held(base, t) + Held(after, t)
  BY <1>3 DEF Reckoned
<1>5. CASE t = "long"
  <2>1. Held(base, t) = 0
    BY <1>1, <1>5, Tokens DEF Held, Longs
  <2>2. /\ Held(before, t) = Longs(before) /\ Held(after, t) = Longs(after)
        /\ Longs(before) \in {0, 1, 2} /\ Longs(after) \in {0, 1, 2}
    BY <1>5 DEF Held, Longs
  <2>3. \/ Longs(after) = 0 \/ Longs(before) = 0
        \/ Longs(before) = 1 /\ Longs(after) = 1
    BY <1>1, <1>2 DEF Longs, Fine
  <2>4. Times(t) <= 2
    <3> DEFINE x == Longs(before)
               z == Longs(after)
    <3>1. Times(t) = x + 0 + z /\ x \in {0, 1, 2} /\ z \in {0, 1, 2}
          /\ (z = 0 \/ x = 0 \/ (x = 1 /\ z = 1))
      BY <1>4, <2>1, <2>2, <2>3
    <3> HIDE DEF x, z
    <3> QED BY <3>1
  <2>5. Times(t) \in Nat
    BY <1>4, <2>1, <2>2
  <2> QED BY <1>5, <2>4, <2>5
<1>6. CASE t # "long"
  <2>1. /\ Held(base, t) = IF t \in base THEN 1 ELSE 0
        /\ Held(before, t) = IF t \in before THEN 1 ELSE 0
        /\ Held(after, t) = IF t \in after THEN 1 ELSE 0
    BY <1>6 DEF Held
  <2>2. /\ ~ (t \in base /\ t \in before) /\ ~ (t \in base /\ t \in after)
        /\ ~ (t \in before /\ t \in after)
    BY <1>1, <1>2, <1>3, <1>6, Tokens DEF Fine
  <2> QED BY <1>4, <1>6, <2>1, <2>2
<1> QED BY <1>5, <1>6

\* The verdict is that of c_type_check on the type of the parts.
LEMMA LEnd == LInv /\ type_ast_c => LInv'
<1> SUFFICES ASSUME LInv, type_ast_c PROVE LInv'
  OBVIOUS
<1>1. /\ verdict = "reading" /\ lang' = lang /\ tokens' = tokens
      /\ before' = before /\ base' = base /\ after' = after
      /\ verdict' = IF Type = Conflict THEN "conflict"
                    ELSE IF c_type_check(lang, Type) /\ Type \cap TypeBit # {} THEN "legal"
                    ELSE "illegal"
  BY DEF type_ast_c, Reading
<1>2. /\ Type' = Type /\ \A t : Times(t)' = Times(t)
      /\ Written' = Written
      /\ LongAround' = LongAround
  BY <1>1 DEF Type, Times, Written, LongAround
<1>3. IInv /\ IInv' /\ Reckoned
  BY <1>1, EndStep DEF LInv
<1>4. Reckoned'
  BY <1>1, <1>2, <1>3 DEF Reckoned
<1>5. Repeated' = Repeated
  BY <1>1, <1>2 DEF Repeated
<1>6. ASSUME verdict' = "conflict" PROVE Refusable'
  <2>1. Type = Conflict
    BY <1>1, <1>6
  <2>2. Refusable
    BY <1>1, <1>3, <2>1, PartsConflict
  <2> QED BY <1>2, <1>5, <2>2 DEF Refusable
<1>7. verdict' \in {"legal", "illegal"} =>
        (verdict' = "legal" <=> c_type_check(lang', Type') /\ Type' \cap TypeBit # {})
  BY <1>1, <1>2
<1> QED BY <1>3, <1>4, <1>6, <1>7 DEF LInv

\* Every step of the parser keeps the invariant.
LEMMA LStep == LInv /\ [Next]_vars => LInv'
<1> SUFFICES ASSUME LInv, [Next]_vars PROVE LInv'
  OBVIOUS
<1>1. CASE type_modifier_c
  BY <1>1, LModifier
<1>2. CASE builtin_type_c
  BY <1>2, LBuiltin
<1>3. CASE type_ast_c
  BY <1>3, LEnd
<1>4. CASE UNCHANGED vars
  <2>1. /\ lang' = lang /\ tokens' = tokens /\ before' = before /\ base' = base /\ after' = after
        /\ verdict' = verdict
    BY <1>4 DEF vars
  <2>2. /\ Type' = Type /\ \A t : Times(t)' = Times(t)
        /\ Written' = Written /\ LongAround' = LongAround
    BY <2>1 DEF Type, Times, Written, LongAround
  <2>3. Repeated' = Repeated /\ Reckoned' = Reckoned
    BY <2>1, <2>2 DEF Repeated, Reckoned
  <2>4. IInv'
    BY <1>4, StepInvariant DEF LInv
  <2> QED BY <2>1, <2>2, <2>3, <2>4 DEF LInv, Refusable
<1> QED BY <1>1, <1>2, <1>3, <1>4 DEF Next, Finished

\* The invariant says which declarations are accepted.
LEMMA InvariantLegal == LInv => LegalExact
<1> SUFFICES ASSUME LInv, ~Reading, ~LongAround
             PROVE  verdict = "legal" <=>
                      /\ \A t \in ToSet(tokens) : Times(t) <= (IF t = "long" THEN 2 ELSE 1)
                      /\ Written \cap TypeBit \in CType(lang)
                      /\ \A bit \in Written \ TypeBit : lang \in ok_langs(bit)
                      /\ Cardinality(Written \cap StorageBit) <= 1
  BY DEF LegalExact
<1>1. IInv /\ lang \in Language /\ verdict \in {"conflict", "illegal", "legal"}
      /\ ToSet(tokens) \subseteq Builtin \cup Modifier
  BY DEF LInv, IInv, TypeOK, Reading
<1>2. ~ Repeated <=> \A t \in ToSet(tokens) : Times(t) <= (IF t = "long" THEN 2 ELSE 1)
  <2>1. \A t : Times(t) \in Nat
    <3> TAKE t
    <3>1. IsFiniteSet(DOMAIN tokens)
      BY FS_Interval DEF IInv, LInv
    <3> QED BY <3>1, FS_Subset, FS_CardinalityType DEF Times
  <2> QED BY <2>1 DEF Repeated
<1>3. CASE verdict = "conflict"
  <2>1. Refusable /\ verdict # "legal"
    BY <1>3 DEF LInv
  <2>2. ASSUME "long_long" \in Written, Written \cap {"float", "double"} # {}
        PROVE  Written \cap TypeBit \notin CType(lang)
    <3> DEFINE T == Written \cap TypeBit
    <3>1. "long_long" \in T /\ ("float" \in T \/ "double" \in T)
      BY <2>2 DEF TypeBit, IntegerBit
    <3> HIDE DEF T
    <3>2. ~ IsInteger(lang, T)
      BY <3>1 DEF IsInteger, IntegerBit
    <3>3. ~ IsOther(lang, T)
      BY <3>1 DEF IsOther
    <3> QED BY <1>1, <3>2, <3>3, CTypeIs DEF T
  <2> QED BY <1>2, <2>1, <2>2 DEF Refusable
<1>4. CASE verdict \in {"illegal", "legal"}
  <2>1. Type = Written
    BY <1>1, <1>4, InvariantOrder DEF OrderFree
  <2>2. Type # Conflict /\ Counted /\ Reckoned
        /\ (verdict = "legal" <=> c_type_check(lang, Type) /\ Type \cap TypeBit # {})
    BY <1>1, <1>4 DEF LInv, IInv
  <2>3. ~ Repeated
    BY <1>1, <2>2, PartsFit
  <2>4. Written \subseteq Bits \cup Classes \cup {"const", "restrict", "volatile"}
    BY <1>1, TokenAssumption DEF Written, Implicit, Bits, Classes
  <2>5. "long_long" \in Written => "long" \in Written
    <3> SUFFICES ASSUME "long_long" \in Written PROVE "long" \in ToSet(tokens)
      BY DEF Written
    <3>1. "long_long" \notin ToSet(tokens) /\ "long_long" \notin Implicit(lang)
      BY <1>1, Tokens DEF Implicit
    <3>2. Times("long") = 2
      BY <3>1 DEF Written
    <3>3. Longs(before) # 0 \/ Longs(after) # 0
      BY <2>2, <3>2 DEF Counted
    <3>4. "long" \in before \cup after
      BY <2>2, <3>3 DEF Longs, Counted, Fine
    <3> QED BY <2>2, <3>4 DEF Counted
  <2>6. (c_type_check(lang, Written) /\ Written \cap TypeBit # {})
          <=> /\ Written \cap TypeBit \in CType(lang)
              /\ \A bit \in Written \ TypeBit : lang \in ok_langs(bit)
              /\ Cardinality(Written \cap StorageBit) <= 1
    BY <1>1, <2>4, <2>5, Table
  <2> QED BY <1>2, <2>1, <2>2, <2>3, <2>6
<1> QED BY <1>1, <1>3, <1>4

-----------------------------------------------------------------------------
(* Numbers.                                                                *)

\* A set of numbers that is not empty has a least element.
LEMMA LeastNumber == \A S \in SUBSET Nat : S # {} => \E m \in S : \A n \in S : m <= n
<1>1. TAKE S \in SUBSET Nat
<1>2. HAVE S # {}
<1>3. \E m \in S : \A n \in S : ~ (<<n, m>> \in OpToRel(<, Nat))
  BY <1>2, NatLessThanWellFounded, WFMin, Zenon
<1>4. \A m, n \in Nat : n < m => <<n, m>> \in OpToRel(<, Nat)
  BY DEF OpToRel
<1>5. \A m, n \in Nat : ~ (n < m) => m <= n
  OBVIOUS
<1> QED BY <1>1, <1>3, <1>4, <1>5

\* If a set of numbers has 0, and with each below N the next, it has all up to N.
LEMMA UpTo ==
  ASSUME NEW N \in Nat, NEW S, 0 \in S, \A n \in 0..N - 1 : n \in S => n + 1 \in S
  PROVE  \A n \in 0..N : n \in S
<1> DEFINE Bad == {n \in 0..N : n \notin S}
<1>1. SUFFICES ASSUME Bad # {} PROVE FALSE
  OBVIOUS
<1>2. PICK m \in Bad : \A n \in Bad : m <= n
  <2>1. Bad \in SUBSET Nat
    OBVIOUS
  <2> HIDE DEF Bad
  <2> QED BY <1>1, <2>1, LeastNumber
<1>3. m # 0 /\ m \in 0..N
  BY <1>2
<1>4. m - 1 \in 0..N - 1 /\ m - 1 \notin Bad
  BY <1>2, <1>3
<1>5. m - 1 \in S
  BY <1>4
<1> QED BY <1>2, <1>3, <1>4, <1>5

-----------------------------------------------------------------------------
(* Names.                                                                  *)

\* The bits of a name, with none twice.
LEMMA NameOrderIs ==
  /\ Len(NameOrder) = 41
  /\ \A i, j \in 1..41 : NameOrder[i] = NameOrder[j] => i = j
<1>1. Len(NameOrder) = 41
  BY DEF NameOrder
<1>2. \A i, j \in 1..41 : NameOrder[i] = NameOrder[j] => i = j
  BY SMTT(60) DEF NameOrder
<1> QED BY <1>1, <1>2

\* Names is built up bit by bit.
LEMMA NamesSteps ==
  ASSUME NEW bits
  PROVE  \E f : /\ f[0] = <<>> /\ Names(bits) = f[41]
                /\ \A n \in 1..41 : f[n] = IF NameOrder[n] \in bits
                                           THEN Append(f[n - 1], NameOrder[n]) ELSE f[n - 1]
<1> DEFINE Solves(f, m) ==
             f = [i \in 0..m |-> IF i = 0 THEN <<>>
                                 ELSE IF NameOrder[i] \in bits THEN Append(f[i - 1], NameOrder[i])
                                 ELSE f[i - 1]]
           Solved == {m \in Nat : \E f : Solves(f, m)}
<1>1. 0 \in Solved
  <2>1. Solves([i \in 0..0 |-> <<>>], 0)
    OBVIOUS
  <2> QED BY <2>1
<1>2. ASSUME NEW m \in Nat, m \in Solved PROVE m + 1 \in Solved
  <2>1. PICK f : Solves(f, m)
    BY <1>2
  <2> DEFINE g == [n \in 0..m + 1 |->
                     IF n = m + 1 THEN IF NameOrder[n] \in bits THEN Append(f[m], NameOrder[n]) ELSE f[m]
                     ELSE f[n]]
  <2>2. \A n \in 0..m : g[n] = f[n]
    OBVIOUS
  <2>3. g[m + 1] = IF NameOrder[m + 1] \in bits THEN Append(f[m], NameOrder[m + 1]) ELSE f[m]
    OBVIOUS
  <2>4. \A n \in 0..m : f[n] = IF n = 0 THEN <<>>
                               ELSE IF NameOrder[n] \in bits THEN Append(f[n - 1], NameOrder[n])
                               ELSE f[n - 1]
    BY <2>1
  <2>5. \A n \in 0..m + 1 : n # 0 => n - 1 \in 0..m
    OBVIOUS
  <2>6. g = [n \in 0..m + 1 |-> g[n]]
    OBVIOUS
  <2> HIDE DEF g
  <2>7. ASSUME NEW n \in 0..m + 1
        PROVE  g[n] = IF n = 0 THEN <<>>
                      ELSE IF NameOrder[n] \in bits THEN Append(g[n - 1], NameOrder[n])
                      ELSE g[n - 1]
    <3>1. CASE n = m + 1
      BY <2>2, <2>3, <2>5, <3>1
    <3>2. CASE n \in 0..m
      BY <2>2, <2>4, <2>5, <3>2
    <3> QED BY <3>1, <3>2
  <2>8. Solves(g, m + 1)
    BY <2>6, <2>7, Zenon
  <2>9. m + 1 \in Nat
    OBVIOUS
  <2> QED BY <2>8, <2>9
<1>3. Len(NameOrder) \in Solved
  <2> HIDE DEF Solved
  <2>1. \A n \in 0..41 : n \in Solved
    BY <1>1, <1>2, UpTo
  <2> QED BY <2>1, NameOrderIs
<1> DEFINE f == CHOOSE f : Solves(f, Len(NameOrder))
<1>4. Solves(f, Len(NameOrder))
  <2>1. \E g : Solves(g, Len(NameOrder))
    BY <1>3
  <2> HIDE DEF Solves
  <2> QED BY <2>1, Zenon
<1>5. Names(bits) = f[Len(NameOrder)]
  BY DEF Names
<1> HIDE DEF f
<1>6. f[0] = <<>> /\ \A n \in 1..41 : f[n] = IF NameOrder[n] \in bits
                                           THEN Append(f[n - 1], NameOrder[n]) ELSE f[n - 1]
  <2>1. f = [i \in 0..41 |-> IF i = 0 THEN <<>>
                             ELSE IF NameOrder[i] \in bits THEN Append(f[i - 1], NameOrder[i])
                             ELSE f[i - 1]]
    BY <1>4, NameOrderIs
  <2>2. \A n \in 1..41 : n \in 0..41 /\ n # 0
    OBVIOUS
  <2>3. 0 \in 0..41
    OBVIOUS
  <2> QED BY <2>1, <2>2, <2>3, Zenon
<1> QED BY <1>5, <1>6, NameOrderIs

\* A sequence that has every element of a set once, and no other.
Lists(s, S) ==
  /\ s \in Seq(S)
  /\ \A x \in S : \E i \in 1..Len(s) : s[i] = x
  /\ \A i, j \in 1..Len(s) : s[i] = s[j] => i = j

\* The loop of c_type_name over the table names each bit once, and no other.
LEMMA NamesList ==
  ASSUME NEW bits, \A b \in bits : \E i \in 1..41 : NameOrder[i] = b
  PROVE  Lists(Names(bits), bits)
<1>1. PICK f : /\ f[0] = <<>> /\ Names(bits) = f[41]
               /\ \A n \in 1..41 : f[n] = IF NameOrder[n] \in bits
                                          THEN Append(f[n - 1], NameOrder[n]) ELSE f[n - 1]
  BY NamesSteps
<1> DEFINE Upto(n) == {b \in bits : \E i \in 1..n : NameOrder[i] = b}
           Good == {n \in Nat : n <= 41 => Lists(f[n], Upto(n))}
<1>2. 0 \in Good
  <2>1. Upto(0) = {} /\ f[0] = <<>>
    BY <1>1
  <2> HIDE DEF Upto
  <2>2. Lists(f[0], Upto(0))
    BY <2>1 DEF Lists
  <2> QED BY <2>2
<1>3. ASSUME NEW n \in 0..40, n \in Good PROVE n + 1 \in Good
  <2> DEFINE b == NameOrder[n + 1]
  <2>1. Lists(f[n], Upto(n)) /\ n \in Nat /\ n + 1 \in Nat
    BY <1>3
  <2>2. f[n + 1] = IF b \in bits THEN Append(f[n], b) ELSE f[n]
    <3>1. n + 1 \in 1..41 /\ (n + 1) - 1 = n
      BY <1>3
    <3> HIDE DEF b
    <3> QED BY <1>1, <3>1 DEF b
  <2>3. Upto(n + 1) = IF b \in bits THEN Upto(n) \cup {b} ELSE Upto(n)
    <3>1. \A i : i \in 1..n + 1 <=> i \in 1..n \/ i = n + 1
      BY <2>1
    <3> HIDE DEF b
    <3> QED BY <3>1 DEF b
  <2>4. b \notin Upto(n)
    BY NameOrderIs
  <2> HIDE DEF b, Upto
  <2>5. CASE b \in bits
    <3>1. f[n + 1] = Append(f[n], b) /\ Upto(n + 1) = Upto(n) \cup {b}
      BY <2>2, <2>3, <2>5
    <3>2. f[n] \in Seq(Upto(n)) /\ Len(f[n]) \in Nat /\ \A i \in 1..Len(f[n]) : f[n][i] \in Upto(n)
      BY <2>1 DEF Lists
    <3> DEFINE s == f[n] k == Len(f[n]) S == Upto(n)
    <3>3. s \in Seq(S \cup {b})
      BY <3>2
    <3> HIDE DEF s, S
    <3>4. /\ Append(s, b) \in Seq(S \cup {b}) /\ Len(Append(s, b)) = Len(s) + 1
          /\ Append(s, b)[Len(s) + 1] = b
          /\ \A i \in 1..Len(s) : Append(s, b)[i] = s[i]
      BY <3>3
    <3>5. Lists(s, S) /\ b \notin S /\ Len(s) \in Nat /\ \A i \in 1..Len(s) : s[i] \in S
      BY <2>1, <2>4, <3>2 DEF s, S
    <3>6. \A i : i \in 1..Len(s) + 1 <=> i \in 1..Len(s) \/ i = Len(s) + 1
      BY <3>5
    <3>7. Lists(Append(s, b), S \cup {b})
      BY <3>4, <3>5, <3>6 DEF Lists
    <3> QED BY <2>1, <3>1, <3>7 DEF s, S
  <2>6. CASE b \notin bits
    BY <2>1, <2>2, <2>3, <2>6
  <2> QED BY <2>5, <2>6
<1>4. 41 \in Good
  <2> HIDE DEF Good
  <2>1. \A n \in 0..41 - 1 : n \in Good => n + 1 \in Good
    BY <1>3
  <2> QED BY <1>2, <2>1, UpTo
<1>5. Upto(41) = bits
  OBVIOUS
<1> HIDE DEF Upto
<1> QED BY <1>1, <1>4, <1>5

-----------------------------------------------------------------------------
(* What a list of modifiers adds up to.                                    *)

\* AddAll adds the modifiers one by one.
LEMMA AddAllSteps ==
  ASSUME NEW W, NEW list \in Seq(W)
  PROVE  \E f : /\ f[0] = {} /\ AddAll(list) = f[Len(list)]
                /\ \A n \in 1..Len(list) : f[n] = c_type_add(f[n - 1], {list[n]})
<1> DEFINE Solves(f, D) ==
             f = [s \in SUBSET D |-> IF s = {} THEN {}
                                     ELSE c_type_add(f[s \ {Max(s)}], {list[Max(s)]})]
           Solved == {m \in Nat : \E f : Solves(f, 1..m)}
<1>1. Len(list) \in Nat /\ DOMAIN list = 1..Len(list)
  OBVIOUS
<1>2. 0 \in Solved
  <2> DEFINE f == [s \in {{}} |-> {}]
  <2>1. SUBSET (1..0) = {{}}
    OBVIOUS
  <2>2. f = [s \in {{}} |-> IF s = {} THEN {} ELSE c_type_add(f[s \ {Max(s)}], {list[Max(s)]})]
    OBVIOUS
  <2> HIDE DEF f
  <2>3. Solves(f, 1..0)
    BY <2>1, <2>2
  <2> QED BY <2>3
<1>3. ASSUME NEW n \in Nat, NEW s, s \subseteq 1..n + 1, n + 1 \in s
      PROVE  Max(s) = n + 1
  <2>1. \A x \in s : n + 1 >= x
    BY <1>3
  <2>2. \A x \in s : x >= n + 1 => x = n + 1
    BY <1>3
  <2> QED BY <1>3, <2>1, <2>2 DEF Max
<1>4. ASSUME NEW m \in Nat, m \in Solved PROVE m + 1 \in Solved
  <2>1. PICK f : Solves(f, 1..m)
    BY <1>4
  <2> DEFINE D == SUBSET (1..m)
             E == SUBSET (1..m + 1)
             g == [s \in E |-> IF m + 1 \in s THEN c_type_add(f[s \ {m + 1}], {list[m + 1]})
                               ELSE f[s]]
  <2>2. /\ \A s \in E : m + 1 \notin s => s \in D
        /\ \A s \in E : s \ {m + 1} \in D
        /\ \A s \in D : s \in E /\ m + 1 \notin s
    OBVIOUS
  <2>3. \A s \in D : g[s] = f[s]
    BY <2>2
  <2>4. \A s \in E : m + 1 \in s => g[s] = c_type_add(f[s \ {m + 1}], {list[m + 1]})
    OBVIOUS
  <2>5. \A s \in D : f[s] = IF s = {} THEN {} ELSE c_type_add(f[s \ {Max(s)}], {list[Max(s)]})
    BY <2>1
  <2>6. g = [s \in E |-> g[s]]
    OBVIOUS
  <2>7. \A s \in E : m + 1 \in s => Max(s) = m + 1
    BY <1>3
  <2>8. \A s \in D : s \ {Max(s)} \in D
    OBVIOUS
  <2> HIDE DEF g, D, E
  <2>9. ASSUME NEW s \in E
        PROVE  g[s] = IF s = {} THEN {} ELSE c_type_add(g[s \ {Max(s)}], {list[Max(s)]})
    <3>1. CASE m + 1 \in s
      <4>1. Max(s) = m + 1 /\ s \ {m + 1} \in D /\ s # {}
        BY <2>2, <2>7, <3>1
      <4> QED BY <2>3, <2>4, <3>1, <4>1
    <3>2. CASE m + 1 \notin s
      <4>1. s \in D
        BY <2>2, <3>2
      <4> QED BY <2>3, <2>5, <2>8, <4>1
    <3> QED BY <3>1, <3>2
  <2>10. Solves(g, 1..m + 1)
    BY <2>6, <2>9, Zenon DEF E
  <2>11. m + 1 \in Nat
    OBVIOUS
  <2> QED BY <2>10, <2>11
<1>5. Len(list) \in Solved
  <2> HIDE DEF Solved
  <2>1. \A n \in 0..Len(list) : n \in Solved
    BY <1>1, <1>2, <1>4, UpTo
  <2> QED BY <1>1, <2>1
<1> DEFINE f == CHOOSE f : Solves(f, DOMAIN list)
<1>6. Solves(f, DOMAIN list)
  <2>1. \E g : Solves(g, 1..Len(list))
    BY <1>5
  <2>2. \E g : Solves(g, DOMAIN list)
    BY <1>1, <2>1
  <2> HIDE DEF Solves
  <2> QED BY <2>2, Zenon
<1>7. AddAll(list) = f[DOMAIN list]
  BY DEF AddAll, FoldLeft, MapThenFoldSet
<1> HIDE DEF f
<1> DEFINE h == [n \in 0..Len(list) |-> f[1..n]]
<1>8. \A s \in SUBSET (1..Len(list)) :
        f[s] = IF s = {} THEN {} ELSE c_type_add(f[s \ {Max(s)}], {list[Max(s)]})
  BY <1>1, <1>6
<1>9. h[0] = {} /\ AddAll(list) = h[Len(list)]
  <2>1. 1..0 = {} /\ 1..0 \in SUBSET (1..Len(list))
    OBVIOUS
  <2>2. f[1..0] = {}
    BY <1>8, <2>1
  <2>3. 0 \in 0..Len(list) /\ Len(list) \in 0..Len(list)
    BY <1>1
  <2> QED BY <1>1, <1>7, <2>2, <2>3
<1>10. ASSUME NEW n \in 1..Len(list) PROVE h[n] = c_type_add(h[n - 1], {list[n]})
  <2>1. /\ n - 1 \in Nat /\ n - 1 \in 0..Len(list) /\ n \in 0..Len(list) /\ (n - 1) + 1 = n
        /\ 1..n # {} /\ n \in 1..n
        /\ 1..n \in SUBSET (1..Len(list)) /\ (1..n) \ {n} = 1..n - 1
    BY <1>1
  <2>2. Max(1..n) = n
    BY <1>3, <2>1
  <2>3. f[1..n] = c_type_add(f[(1..n) \ {n}], {list[n]})
    BY <1>8, <2>1, <2>2
  <2>4. h[n] = f[1..n] /\ h[n - 1] = f[1..n - 1]
    BY <2>1
  <2> HIDE DEF h
  <2> QED BY <2>1, <2>3, <2>4
<1> HIDE DEF h
<1> QED BY <1>9, <1>10

\* What is added to what does not have it.
LEMMA AddNew ==
  ASSUME NEW t, NEW u, t # Conflict, u # Conflict, t \cap u = {}
  PROVE  c_type_add(t, u) = t \cup u
BY DEF c_type_add, is_long_int

\* And the second long.
LEMMA AddLong ==
  ASSUME NEW t, t # Conflict, {"long"} # Conflict,
         "long" \in t, "long_long" \notin t, t \cap {"float", "double"} = {}
  PROVE  c_type_add(t, {"long"}) = t \cup {"long_long"}
<1>1. is_long_int(t) /\ is_long_int({"long"})
  BY DEF is_long_int
<1> QED BY <1>1 DEF c_type_add

\* A conflict is none of the words.
LEMMA ConflictIs ==
  /\ Conflict # {}
  /\ \A b \in Bits \cup {"auto", "extern", "register", "static", "const", "restrict", "volatile"} :
       b \notin Conflict
<1>1. \A b \in Bits \cup {"auto", "extern", "register", "static", "const", "restrict", "volatile"} :
        b # "can not be combined"
  BY Zenon DEF Bits
<1> DEFINE c == "can not be combined"
<1>2. Conflict = {c}
  BY DEF Conflict
<1> HIDE DEF c
<1>3. \A b \in Bits \cup {"auto", "extern", "register", "static", "const", "restrict", "volatile"} :
        b # c
  BY <1>1, Zenon DEF c
<1> QED BY <1>2, <1>3, Zenon

\* Words that are all different but for the second long, at q, add up to themselves.
LEMMA AddAllIs ==
  ASSUME NEW W, NEW list \in Seq(W), NEW q \in Nat, "long_long" \notin W,
         W \cap Conflict = {}, "long_long" \notin Conflict, Conflict # {},
         \A i, j \in 1..Len(list) : i < j /\ list[i] = list[j] => j = q,
         q \in 1..Len(list) => /\ list[q] = "long" /\ \E p \in 1..q - 1 : list[p] = "long"
                               /\ W \cap {"float", "double"} = {}
  PROVE  AddAll(list) = {list[i] : i \in 1..Len(list)}
                        \cup (IF q \in 1..Len(list) THEN {"long_long"} ELSE {})
<1>1. PICK f : /\ f[0] = {} /\ AddAll(list) = f[Len(list)]
               /\ \A n \in 1..Len(list) : f[n] = c_type_add(f[n - 1], {list[n]})
  BY AddAllSteps
<1> DEFINE Sum(n) == {list[i] : i \in 1..n} \cup (IF q \in 1..n THEN {"long_long"} ELSE {})
           Good == {n \in Nat : n <= Len(list) => f[n] = Sum(n)}
<1>2. Len(list) \in Nat /\ \A i \in 1..Len(list) : list[i] \in W
  OBVIOUS
<1>3. 0 \in Good
  <2>1. Sum(0) = {}
    OBVIOUS
  <2> HIDE DEF Sum
  <2> QED BY <1>1, <2>1
<1>4. ASSUME NEW n \in 0..Len(list) - 1, n \in Good PROVE n + 1 \in Good
  <2> DEFINE w == list[n + 1]
             t == {list[i] : i \in 1..n}
  <2>1. /\ n \in Nat /\ n + 1 \in Nat /\ n + 1 \in 1..Len(list) /\ (n + 1) - 1 = n
        /\ n <= Len(list) /\ (n + 1 <= Len(list)) /\ 1..n \subseteq 1..Len(list)
        /\ \A i \in 1..n : i < n + 1
        /\ \A i : i \in 1..n + 1 <=> i \in 1..n \/ i = n + 1
        /\ n + 1 \notin 1..n
    BY <1>2
  <2>2. f[n] = Sum(n) /\ f[n + 1] = c_type_add(f[n], {w})
    <3>1. f[n] = Sum(n)
      BY <1>4, <2>1
    <3>2. f[n + 1] = c_type_add(f[(n + 1) - 1], {list[n + 1]})
      BY <1>1, <2>1
    <3> QED BY <2>1, <3>1, <3>2
  <2>3. w \in W /\ t \subseteq W
    BY <1>2, <2>1
  <2>4. {list[i] : i \in 1..n + 1} = t \cup {w}
    BY <2>1
  <2>5. n + 1 # q => w \notin t
    BY <2>1
  <2>6. n + 1 = q => q \notin 1..n /\ w = "long" /\ w \in t /\ W \cap {"float", "double"} = {}
    <3> SUFFICES ASSUME n + 1 = q PROVE q \notin 1..n /\ w = "long" /\ w \in t /\ W \cap {"float", "double"} = {}
      OBVIOUS
    <3>1. q \in 1..Len(list) /\ q - 1 = n
      BY <2>1
    <3>2. PICK p \in 1..q - 1 : list[p] = "long"
      BY <3>1
    <3>3. p \in 1..n /\ w = "long"
      BY <3>1, <3>2
    <3> QED BY <2>1, <3>1, <3>2, <3>3
  <2>7. (q \in 1..n + 1) <=> (q \in 1..n \/ q = n + 1)
    BY <2>1
  <2>8. Sum(n + 1) = t \cup {w} \cup (IF q \in 1..n \/ q = n + 1 THEN {"long_long"} ELSE {})
    BY <2>4, <2>7
  <2>9. Sum(n) = t \cup (IF q \in 1..n THEN {"long_long"} ELSE {})
    OBVIOUS
  <2> HIDE DEF Sum, w, t
  <2>10. {w} # Conflict /\ Sum(n) # Conflict
    BY <2>3, <2>9
  <2>11. CASE n + 1 = q
    <3>1. Sum(n) = t /\ w = "long" /\ "long" \in t /\ W \cap {"float", "double"} = {}
      BY <2>6, <2>9, <2>11
    <3>2. t # Conflict /\ {"long"} # Conflict /\ "long_long" \notin t /\ t \cap {"float", "double"} = {}
      BY <2>3, <2>10, <3>1
    <3>3. c_type_add(t, {"long"}) = t \cup {"long_long"}
      BY <3>1, <3>2, AddLong
    <3>4. Sum(n + 1) = t \cup {"long_long"}
      BY <2>8, <2>11, <3>1
    <3>5. f[n + 1] = Sum(n + 1)
      BY <2>2, <3>1, <3>3, <3>4
    <3> QED BY <2>1, <3>5
  <2>12. CASE n + 1 # q
    <3>1. Sum(n) \cap {w} = {}
      BY <2>3, <2>5, <2>9, <2>12
    <3>2. c_type_add(Sum(n), {w}) = Sum(n) \cup {w}
      BY <2>10, <3>1, AddNew
    <3>3. Sum(n + 1) = Sum(n) \cup {w}
      BY <2>8, <2>9, <2>12
    <3>4. f[n + 1] = Sum(n + 1)
      BY <2>2, <3>2, <3>3
    <3> QED BY <2>1, <3>4
  <2> QED BY <2>11, <2>12
<1>5. Len(list) \in Good
  <2> HIDE DEF Good
  <2>1. \A n \in 0..Len(list) - 1 : n \in Good => n + 1 \in Good
    BY <1>4
  <2>2. \A n \in 0..Len(list) : n \in Good
    BY <1>2, <1>3, <2>1, UpTo
  <2> QED BY <1>2, <2>2
<1> HIDE DEF Sum
<1>6. AddAll(list) = Sum(Len(list))
  BY <1>1, <1>2, <1>5
<1> QED BY <1>6 DEF Sum

\* The words of a name, as type_ast_c reads them, mean the bits that are named.
LEMMA ReadIs ==
  ASSUME NEW l, NEW names, NEW N, Lists(names, N), N \cap Conflict = {}, Conflict # {},
         "long_long" \notin Conflict, "long" \notin Conflict,
         "long_long" \in N => "long" \in N /\ N \cap (Builtin \cup {"float", "double"}) = {}
  PROVE  Read(l, [i \in DOMAIN names |-> IF names[i] = "long_long" THEN "long" ELSE names[i]]) = N
<1> DEFINE words == [i \in DOMAIN names |-> IF names[i] = "long_long" THEN "long" ELSE names[i]]
           at == SelectInSeq(words, LAMBDA w : w \in Builtin)
<1>1. /\ Len(names) \in Nat /\ DOMAIN names = 1..Len(names) /\ names \in Seq(N)
      /\ \A i \in 1..Len(names) : names[i] \in N
      /\ \A x \in N : \E i \in 1..Len(names) : names[i] = x
      /\ \A i, j \in 1..Len(names) : names[i] = names[j] => i = j
  BY DEF Lists
<1>2. Read(l, words) = IF at = 0 THEN AddAll(words)
                       ELSE c_type_add(c_type_add({words[at]}, AddAll(SubSeq(words, 1, at - 1))),
                                       AddAll(SubSeq(words, at + 1, Len(words))))
  BY DEF Read
<1>3. "long" \notin Builtin
  BY Tokens
<1>4. CASE "long_long" \in N
  <2> DEFINE W == (N \ {"long_long"}) \cup {"long"}
  <2>1. /\ words \in Seq(W) /\ Len(words) = Len(names)
        /\ \A i \in 1..Len(names) : words[i] = IF names[i] = "long_long" THEN "long" ELSE names[i]
    BY <1>1
  <2>2. W \cap Builtin = {} /\ W \cap {"float", "double"} = {} /\ "long_long" \notin W
        /\ W \cap Conflict = {} /\ W \cup {"long_long"} = N
    BY <1>3, <1>4
  <2>3. at = 0
    <3>1. {i \in 1..Len(words) : words[i] \in Builtin} = {}
      BY <2>1, <2>2
    <3> QED BY <3>1 DEF SelectInSeq
  <2>4. PICK a \in 1..Len(names), b \in 1..Len(names) :
           names[a] = "long" /\ names[b] = "long_long"
    BY <1>1, <1>4
  <2> DEFINE q == IF a < b THEN b ELSE a
             p == IF a < b THEN a ELSE b
  <2>5. /\ q \in 1..Len(names) /\ q \in Nat /\ p \in 1..q - 1
        /\ words[p] = "long" /\ words[q] = "long"
    BY <1>1, <2>1, <2>4
  <2>6. \A i, j \in 1..Len(words) : i < j /\ words[i] = words[j] => j = q
    <3> SUFFICES ASSUME NEW i \in 1..Len(names), NEW j \in 1..Len(names), i < j, words[i] = words[j]
                 PROVE  j = q
      BY <2>1
    <3>1. names[i] # names[j]
      BY <1>1
    <3>2. {names[i], names[j]} = {"long", "long_long"}
      BY <2>1, <3>1
    <3>3. (i = a /\ j = b) \/ (i = b /\ j = a)
      BY <1>1, <2>4, <3>2
    <3> QED BY <3>3
  <2>7. {words[i] : i \in 1..Len(words)} = W
    <3>1. \A i \in 1..Len(words) : words[i] \in W
      BY <2>1
    <3>2. ASSUME NEW x \in W PROVE \E i \in 1..Len(words) : words[i] = x
      <4>1. CASE x = "long"
        BY <2>1, <2>4, <4>1
      <4>2. CASE x # "long"
        <5>1. x \in N /\ x # "long_long"
          BY <4>2
        <5> QED BY <1>1, <2>1, <5>1
      <4> QED BY <4>1, <4>2
    <3> QED BY <3>1, <3>2
  <2> HIDE DEF words, W, p, q
  <2>8. AddAll(words) = {words[i] : i \in 1..Len(words)}
                        \cup (IF q \in 1..Len(words) THEN {"long_long"} ELSE {})
    BY <2>1, <2>2, <2>5, <2>6, AddAllIs
  <2>9. AddAll(words) = N
    BY <2>1, <2>2, <2>5, <2>7, <2>8
  <2>10. Read(l, words) = N
    BY <1>2, <2>3, <2>9
  <2> QED BY <2>10 DEF words
<1>5. CASE "long_long" \notin N
  <2>1. words = names
    BY <1>1, <1>5
  <2> DEFINE I == {i \in 1..Len(names) : names[i] \in Builtin}
  <2>2. at = IF I # {} THEN Min(I) ELSE 0
    BY <2>1 DEF SelectInSeq
  <2>3. ASSUME NEW s \in Seq(N), \A i, j \in 1..Len(s) : s[i] = s[j] => i = j
        PROVE  AddAll(s) = {s[i] : i \in 1..Len(s)}
    <3>1. 0 \in Nat /\ 0 \notin 1..Len(s)
      OBVIOUS
    <3>2. \A i, j \in 1..Len(s) : i < j /\ s[i] = s[j] => j = 0
      BY <2>3
    <3>3. AddAll(s) = {s[i] : i \in 1..Len(s)} \cup (IF 0 \in 1..Len(s) THEN {"long_long"} ELSE {})
      BY <1>5, <3>1, <3>2, AddAllIs
    <3> QED BY <3>1, <3>3
  <2>4. {names[i] : i \in 1..Len(names)} = N
    BY <1>1
  <2>5. CASE I = {}
    <3>1. AddAll(names) = N
      BY <1>1, <2>3, <2>4
    <3> QED BY <1>2, <2>1, <2>2, <2>5, <3>1
  <2>6. CASE I # {}
    <3>1. at \in I
      <4>1. I \in SUBSET Nat
        OBVIOUS
      <4> HIDE DEF I
      <4>2. \E m \in I : \A n \in I : m <= n
        BY <2>6, <4>1, LeastNumber
      <4>3. Min(I) \in I
        BY <4>2 DEF Min
      <4> QED BY <2>2, <2>6, <4>3
    <3> HIDE DEF at
    <3> DEFINE k == Len(names)
               s == SubSeq(names, 1, at - 1)
               u == SubSeq(names, at + 1, k)
    <3>2. /\ at \in 1..k /\ at \in Nat /\ at # 0 /\ names[at] \in Builtin /\ k \in Nat
          /\ names[at] \in N
      BY <1>1, <3>1
    <3>3. /\ s \in Seq(N) /\ Len(s) = at - 1 /\ \A i \in 1..at - 1 : s[i] = names[i]
      BY <1>1, <3>2
    <3>4. /\ u \in Seq(N) /\ Len(u) = k - at /\ \A i \in 1..k - at : u[i] = names[at + i]
      <4>1. u \in Seq(N)
        <5> DEFINE m == at + 1
        <5>1. m \in Int /\ k \in Int /\ \A i \in m..k : i \in 1..k /\ names[i] \in N
          BY <1>1, <3>2
        <5>2. names \in Seq(N)
          BY <1>1
        <5> HIDE DEF m, k
        <5>3. SubSeq(names, m, k) \in Seq(N)
          BY <5>1, <5>2
        <5> QED BY <5>3 DEF m
      <4>2. Len(u) = k - at
        <5> DEFINE m == at + 1
        <5>1. m \in Int /\ k \in Int /\ (m <= k => (k - m) + 1 = k - at) /\ (~ (m <= k) => 0 = k - at)
          <6>1. \A x, y \in Nat :
                  x <= y => /\ x + 1 \in Int /\ y \in Int
                            /\ (x + 1 <= y) => (y - (x + 1)) + 1 = y - x
                            /\ ~ (x + 1 <= y) => 0 = y - x
            OBVIOUS
          <6>2. at \in Nat /\ k \in Nat /\ at <= k
            BY <3>2
          <6> HIDE DEF k
          <6> QED BY <6>1, <6>2
        <5> HIDE DEF m, k
        <5>2. Len(SubSeq(names, m, k)) = IF m <= k THEN (k - m) + 1 ELSE 0
          BY <5>1
        <5> QED BY <5>1, <5>2 DEF m
      <4>3. ASSUME NEW i \in 1..k - at PROVE u[i] = names[at + i]
        <5>1. /\ at + 1 \in Int /\ k \in Int /\ i \in 1..(k - (at + 1)) + 1
              /\ ((at + 1) + i) - 1 = at + i
          BY <3>2
        <5>2. u[i] = names[((at + 1) + i) - 1]
          BY <1>1, <5>1
        <5> QED BY <5>1, <5>2
      <4> QED BY <4>1, <4>2, <4>3
    <3> DEFINE A == {s[i] : i \in 1..Len(s)}
               B == {u[i] : i \in 1..Len(u)}
               w == names[at]
    <3>5. AddAll(s) = A
      <4>1. \A i, j \in 1..Len(s) : s[i] = s[j] => i = j
        BY <1>1, <3>2, <3>3
      <4> HIDE DEF s, A
      <4> QED BY <2>3, <3>3, <4>1 DEF A
    <3>6. AddAll(u) = B
      <4>1. \A i, j \in 1..Len(u) : u[i] = u[j] => i = j
        <5> SUFFICES ASSUME NEW i \in 1..k - at, NEW j \in 1..k - at, u[i] = u[j] PROVE i = j
          BY <3>4
        <5>1. at + i \in 1..k /\ at + j \in 1..k
          BY <3>2
        <5>2. names[at + i] = names[at + j]
          BY <3>4
        <5>3. at + i = at + j
          BY <1>1, <5>1, <5>2
        <5> QED BY <3>2, <5>3
      <4> HIDE DEF u, B
      <4> QED BY <2>3, <3>4, <4>1 DEF B
    <3>7. A \subseteq N /\ B \subseteq N /\ w \in N /\ w \notin A /\ w \notin B /\ A \cap B = {}
      <4>1. \A x \in A : \E i \in 1..at - 1 : x = names[i]
        BY <3>3
      <4>2. \A x \in B : \E i \in at + 1..k : x = names[i]
        <5> TAKE x \in B
        <5>1. PICK i \in 1..k - at : x = u[i]
          BY <3>4
        <5>2. at + i \in at + 1..k
          BY <3>2
        <5>3. x = names[at + i]
          BY <3>4, <5>1
        <5> QED BY <5>2, <5>3
      <4>3. \A i \in 1..at - 1 : i \in 1..k /\ i # at /\ i \notin at + 1..k
        BY <3>2
      <4>4. \A i \in at + 1..k : i \in 1..k /\ i # at
        BY <3>2
      <4> HIDE DEF A, B
      <4> QED BY <1>1, <3>2, <4>1, <4>2, <4>3, <4>4
    <3>8. A \cup B \cup {w} = N
      <4>1. ASSUME NEW x \in N PROVE x \in A \cup B \cup {w}
        <5>1. PICK i \in 1..k : x = names[i]
          BY <1>1
        <5>2. CASE i < at
          <6>1. i \in 1..at - 1
            BY <3>2, <5>2
          <6> QED BY <3>3, <5>1, <6>1
        <5>3. CASE i = at
          BY <5>1, <5>3
        <5>4. CASE i > at
          <6>1. i - at \in 1..k - at /\ at + (i - at) = i
            BY <3>2, <5>4
          <6>2. u[i - at] = x
            BY <3>4, <5>1, <6>1
          <6> QED BY <3>4, <6>1, <6>2
        <5>5. i < at \/ i = at \/ i > at
          BY <3>2
        <5> QED BY <5>2, <5>3, <5>4, <5>5
      <4> QED BY <3>7, <4>1
    <3> HIDE DEF A, B, s, u, w
    <3>9. {w} # Conflict /\ A # Conflict /\ B # Conflict /\ {w} \cup A # Conflict
      BY <3>7
    <3>10. c_type_add({w}, A) = {w} \cup A
      <4>1. {w} \cap A = {}
        BY <3>7
      <4> QED BY <3>9, <4>1, AddNew
    <3>11. c_type_add({w} \cup A, B) = ({w} \cup A) \cup B
      <4>1. ({w} \cup A) \cap B = {}
        BY <3>7
      <4> QED BY <3>9, <4>1, AddNew
    <3>12. Read(l, words) = c_type_add(c_type_add({w}, AddAll(s)), AddAll(u))
      BY <1>2, <2>1, <3>2 DEF w, s, u
    <3> QED BY <3>5, <3>6, <3>8, <3>10, <3>11, <3>12
  <2> QED BY <2>5, <2>6
<1> QED BY <1>4, <1>5

-----------------------------------------------------------------------------
(* What the name of a legal type is read back as.                          *)

\* The bits of the types of the model.
Words == Bits \cup Classes \cup {"const", "restrict", "volatile"}

\* All of them but wchar_t are in NameOrder.
LEMMA WordsNamed == \A b \in Words \ {"wchar_t"} : \E i \in 1..41 : NameOrder[i] = b
<1>1. /\ NameOrder[1] = "auto" /\ NameOrder[3] = "extern" /\ NameOrder[5] = "register"
      /\ NameOrder[7] = "static" /\ NameOrder[17] = "const" /\ NameOrder[18] = "restrict"
      /\ NameOrder[19] = "volatile"
  BY DEF NameOrder
<1>2. /\ NameOrder[23] = "signed" /\ NameOrder[24] = "unsigned" /\ NameOrder[25] = "long"
      /\ NameOrder[26] = "short" /\ NameOrder[27] = "void" /\ NameOrder[29] = "bool"
      /\ NameOrder[30] = "char" /\ NameOrder[33] = "long_long" /\ NameOrder[34] = "int"
      /\ NameOrder[35] = "complex" /\ NameOrder[36] = "float" /\ NameOrder[37] = "double"
  BY DEF NameOrder
<1>3. Words \ {"wchar_t"} \subseteq
        {"auto", "extern", "register", "static", "const", "restrict", "volatile"} \cup
        {"signed", "unsigned", "long", "short", "void", "bool", "char", "long_long", "int",
         "complex", "float", "double"}
  BY DEF Words, Bits, Classes
<1> DEFINE Named == {NameOrder[i] : i \in 1..41}
<1>4. \A i \in 1..41 : NameOrder[i] \in Named
  OBVIOUS
<1>5. \A b \in Named : \E i \in 1..41 : NameOrder[i] = b
  OBVIOUS
<1> HIDE DEF Named
<1>6. {"auto", "extern", "register", "static", "const", "restrict", "volatile"} \subseteq Named
  BY <1>1, <1>4
<1>7. {"signed", "unsigned", "long", "short", "void", "bool", "char", "long_long", "int",
       "complex", "float", "double"} \subseteq Named
  BY <1>2, <1>4
<1>8. Words \ {"wchar_t"} \subseteq Named
  BY <1>3, <1>6, <1>7
<1> QED BY <1>5, <1>8

\* They are finitely many.
LEMMA WordsFinite == \A T : T \subseteq Words => IsFiniteSet(T)
<1> DEFINE D == 1..41
           S == {NameOrder[i] : i \in D}
           f == [i \in D |-> NameOrder[i]]
<1>1. 1 \in Int /\ 41 \in Int
  OBVIOUS
<1>2. IsFiniteSet(D)
  BY <1>1, FS_Interval, Zenon
<1>3. f \in Surjection(D, S)
  <2> HIDE DEF D
  <2> QED BY DEF Surjection
<1>4. Words \subseteq S \cup {"wchar_t"}
  BY WordsNamed
<1> HIDE DEF D, S, f
<1>5. IsFiniteSet(S)
  BY <1>2, <1>3, FS_Surjection
<1>6. IsFiniteSet(S \cup {"wchar_t"})
  BY <1>5, FS_AddElement
<1> QED BY <1>4, <1>6, FS_Subset

\* What the parser puts together of bits it can read.
LEMMA TypeWords ==
  ASSUME IInv, Counted, Type # Conflict
  PROVE  /\ Type \subseteq Words
         /\ "long_long" \in Type => "long" \in Type
<1>1. /\ before \cup base \cup after \cup Implicit(lang) \subseteq Words
      /\ "long_long" \in before \cup after => "long" \in before \cup after
      /\ "long_long" \notin base \cup Implicit(lang) /\ "long" \notin base \cup Implicit(lang)
      /\ "long_long" \in before => "long" \in before
      /\ "long_long" \in after => "long" \in after
  <2>1. before \cup after \subseteq Modifier \cup {"long_long"} /\ base \subseteq Builtin
    BY DEF IInv, TypeOK, Counted, Fine
  <2>2. Implicit(lang) \subseteq {"int"}
    BY DEF Implicit
  <2>3. Builtin \cup Modifier \cup {"int", "long_long"} \subseteq Words
    BY TokenAssumption DEF Words, Bits, Classes
  <2>4. /\ "long_long" \in before => "long" \in before
        /\ "long_long" \in after => "long" \in after
    BY DEF Counted, Fine
  <2> QED BY <2>1, <2>2, <2>3, <2>4, Tokens
<1>2. ASSUME NEW t, NEW u, c_type_add(t, u) # Conflict
      PROVE  c_type_add(t, u) = t \cup u
             \/ (c_type_add(t, u) = t \cup {"long_long"} /\ "long" \in t)
  BY <1>2 DEF c_type_add, is_long_int
<1>3. "long_long" \in Words
  BY DEF Words, Bits
<1>4. CASE base = {}
  <2>1. Type = c_type_add(Implicit(lang), before)
    BY <1>4 DEF Type
  <2>2. Type = Implicit(lang) \cup before
    BY <1>1, <1>2, <2>1
  <2> QED BY <1>1, <2>2
<1>5. CASE base # {}
  <2> DEFINE t == c_type_add(base, before)
  <2>1. Type = c_type_add(t, after)
    BY <1>5 DEF Type
  <2>2. t # Conflict
    BY <2>1 DEF c_type_add
  <2>3. t = base \cup before
    BY <1>1, <1>2, <2>2
  <2> HIDE DEF t
  <2>4. Type = t \cup after \/ (Type = t \cup {"long_long"} /\ "long" \in t)
    BY <1>2, <2>1
  <2> QED BY <1>1, <1>3, <2>3, <2>4
<1> QED BY <1>4, <1>5

\* The bits that are named: the only one, or all that do not go without saying.
Told(T) == IF Cardinality(T) = 1 THEN T ELSE T \ Unsaid(T)

\* The name of a type lists the bits that are told, long long as "long".
LEMMA NameIs ==
  ASSUME NEW T, T \subseteq Words \ {"wchar_t"}
  PROVE  \E names : /\ Lists(names, Told(T))
                    /\ c_type_name(T) = [i \in DOMAIN names |->
                                           IF names[i] = "long_long" THEN "long" ELSE names[i]]
<1>1. CASE Cardinality(T) = 1
  <2>1. PICK x : T = {x}
    <3>1. IsFiniteSet(T)
      BY WordsFinite
    <3> QED BY <1>1, <3>1, FS_Singleton
  <2> DEFINE s == [i \in 1..1 |-> x]
             names == SetToSeq(T)
  <2>2. s \in [1..1 -> {x}] /\ IsInjective(s)
    BY DEF IsInjective
  <2>3. names \in [1..1 -> {x}]
    <3>1. names = CHOOSE f \in [1..1 -> {x}] : IsInjective(f)
      BY <1>1, <2>1 DEF SetToSeq
    <3> HIDE DEF s, names
    <3> QED BY <2>2, <3>1, Zenon
  <2> HIDE DEF s, names
  <2>4. names \in Seq({x}) /\ Len(names) = 1 /\ names[1] = x
    BY <2>3
  <2>5. Lists(names, T)
    BY <2>1, <2>4 DEF Lists
  <2>6. c_type_name(T) = [i \in DOMAIN names |-> IF names[i] = "long_long" THEN "long" ELSE names[i]]
    BY <1>1 DEF c_type_name, names
  <2> QED BY <1>1, <2>5, <2>6 DEF Told
<1>2. CASE Cardinality(T) # 1
  <2> DEFINE names == Names(T \ Unsaid(T))
  <2>1. Lists(names, T \ Unsaid(T))
    BY WordsNamed, NamesList
  <2>2. c_type_name(T) = [i \in DOMAIN names |-> IF names[i] = "long_long" THEN "long" ELSE names[i]]
    BY <1>2 DEF c_type_name
  <2> HIDE DEF names
  <2> QED BY <1>2, <2>1, <2>2 DEF Told
<1> QED BY <1>1, <1>2

\* What is left unsaid makes no difference to the type.
LEMMA ToldSame ==
  ASSUME NEW l \in Language, NEW T, T \subseteq Words, T \cap TypeBit \in CType(l)
  PROVE  /\ Same(Told(T), T)
         /\ "long_long" \in Told(T) => /\ "long" \in Told(T)
                                       /\ Told(T) \cap (Builtin \cup {"float", "double"}) = {}
<1> DEFINE S == T \cap TypeBit
           N == Told(T)
<1>1. IsInteger(l, S) \/ IsOther(l, S)
  BY CTypeIs
<1>2. /\ \A b \in Builtin \cup IntegerBit \cup {"int", "complex", "char", "float", "double"} :
            b \in T <=> b \in S
      /\ Builtin \cap (IntegerBit \cup {"complex"}) = {}
  BY TokenAssumption DEF TypeBit, IntegerBit
<1>3. "int" \in T => T \cap Builtin \subseteq {"int"}
  <2> SUFFICES ASSUME "int" \in T PROVE T \cap Builtin \subseteq {"int"}
    OBVIOUS
  <2>1. "int" \in S
    BY <1>2
  <2>2. ~ IsOther(l, S)
    BY <2>1 DEF IsOther
  <2>3. S \subseteq IntegerBit \cup {"int"}
    BY <1>1, <2>2 DEF IsInteger
  <2> HIDE DEF S
  <2> QED BY <1>2, <2>3
<1>4. ~ ("complex" \in T /\ "signed" \in T)
  <2>1. "complex" \in S /\ "signed" \in S => ~ IsInteger(l, S) /\ ~ IsOther(l, S)
    BY DEF IsInteger, IsOther, IntegerBit
  <2>2. /\ "complex" \in T <=> "complex" \in S
        /\ "signed" \in T <=> "signed" \in S
    BY DEF TypeBit, IntegerBit
  <2> QED BY <1>1, <2>1, <2>2
<1>5. "long_long" \in T => "long" \in T /\ T \cap (Builtin \cup {"float", "double"}) \subseteq {"int"}
  <2> SUFFICES ASSUME "long_long" \in T
               PROVE  "long" \in T /\ T \cap (Builtin \cup {"float", "double"}) \subseteq {"int"}
    OBVIOUS
  <2>1. "long_long" \in S
    BY DEF TypeBit, IntegerBit
  <2>2. ~ IsOther(l, S)
    BY <2>1 DEF IsOther
  <2>3. S \subseteq IntegerBit \cup {"int"} /\ "long" \in S
    BY <1>1, <2>1, <2>2 DEF IsInteger
  <2>4. "float" \notin IntegerBit \cup {"int"} /\ "double" \notin IntegerBit \cup {"int"}
    BY DEF IntegerBit
  <2>5. "long" \in T
    BY <2>3
  <2> HIDE DEF S
  <2> QED BY <1>2, <2>3, <2>4, <2>5
<1>6. CASE Cardinality(T) = 1
  <2>1. N = T
    BY <1>6 DEF Told
  <2>2. "long_long" \in T => Cardinality(T) # 1
    <3> SUFFICES ASSUME "long_long" \in T PROVE FALSE
      BY <1>6
    <3>1. T = {"long_long"}
      <4>1. IsFiniteSet(T)
        BY WordsFinite
      <4> QED BY <1>6, <4>1, FS_Singleton
    <3> QED BY <1>5, <3>1
  <2> QED BY <1>6, <2>1, <2>2 DEF Same
<1>7. CASE Cardinality(T) # 1
  <2>1. N = T \ Unsaid(T) /\ T # {"complex"}
    BY <1>7, FS_Singleton DEF Told
  <2> HIDE DEF N, S
  <2>2. ASSUME "long_long" \in N
        PROVE  "long" \in N /\ N \cap (Builtin \cup {"float", "double"}) = {}
    <3>1. "long" \in T /\ T \cap (Builtin \cup {"float", "double"}) \subseteq {"int"}
      BY <1>5, <2>1, <2>2
    <3>2. "int" \in Unsaid(T) /\ "long" \notin Unsaid(T)
      BY <3>1 DEF Unsaid
    <3> QED BY <2>1, <3>1, <3>2
  <2> DEFINE Sign(v) == IF "char" \in v THEN {} ELSE {"signed"}
             Ints(v) == IF v \cap Builtin = {} /\ v # {"complex"} THEN {"int"} ELSE {}
             Plain(v) == (v \ Sign(v)) \cup Ints(v)
  <2>3. Same(N, T) <=> Plain(N) = Plain(T)
    BY Zenon DEF Same
  <2>4. Sign(N) = Sign(T)
    BY <2>1 DEF Unsaid
  <2> DEFINE M == T \cap {"unsigned", "short", "long", "long_long"}
  <2>5. CASE M # {} /\ "int" \in T
    <3>1. N = T \ (Sign(T) \cup {"int"})
      BY <2>1, <2>5 DEF Unsaid
    <3>2. N \cap Builtin = {} /\ N # {"complex"}
      BY <1>3, <2>5, <3>1
    <3>3. Ints(N) = {"int"} /\ Ints(T) \subseteq {"int"} /\ "int" \notin Sign(T)
      BY <3>2
    <3>4. Plain(N) = Plain(T)
      <4> HIDE DEF Sign, Ints
      <4> QED BY <2>4, <2>5, <3>1, <3>3
    <3> QED BY <2>2, <2>3, <3>4 DEF N
  <2>6. CASE ~ (M # {} /\ "int" \in T)
    <3>1. N = T \ Sign(T)
      BY <2>1, <2>6 DEF Unsaid
    <3>2. N \cap Builtin = T \cap Builtin
      BY <1>2, <3>1 DEF IntegerBit
    <3>3. N # {"complex"}
      BY <1>4, <2>1, <3>1
    <3>4. Ints(N) = Ints(T)
      BY <2>1, <3>2, <3>3
    <3>5. Plain(N) = Plain(T)
      <4> HIDE DEF Sign, Ints
      <4> QED BY <2>4, <3>1, <3>4
    <3> QED BY <2>2, <2>3, <3>5 DEF N
  <2> QED BY <2>5, <2>6
<1> QED BY <1>6, <1>7

\* The name of a legal type is read back as that type.
LEMMA InvariantName == LInv => NameReadBack
<1> SUFFICES ASSUME LInv, verdict = "legal", "wchar_t" \notin Type
             PROVE  Same(Read(lang, c_type_name(Type)), Type)
  BY DEF NameReadBack
<1>1. IInv /\ lang \in Language /\ Counted /\ Type # Conflict
      /\ c_type_check(lang, Type) /\ Type \cap TypeBit # {}
  BY DEF LInv, IInv, TypeOK
<1>2. Type \subseteq Words /\ ("long_long" \in Type => "long" \in Type)
  BY <1>1, TypeWords
<1>3. PICK T : T = Type
  OBVIOUS
<1>4. T \cap TypeBit \in CType(lang)
  BY <1>1, <1>2, <1>3, Table DEF Words
<1>5. /\ Same(Told(T), T)
      /\ "long_long" \in Told(T) => /\ "long" \in Told(T)
                                    /\ Told(T) \cap (Builtin \cup {"float", "double"}) = {}
  BY <1>1, <1>2, <1>3, <1>4, ToldSame
<1>6. PICK names : /\ Lists(names, Told(T))
                   /\ c_type_name(T) = [i \in DOMAIN names |->
                                          IF names[i] = "long_long" THEN "long" ELSE names[i]]
  BY <1>2, <1>3, NameIs
<1>7. Told(T) \cap Conflict = {} /\ Conflict # {} /\ "long_long" \notin Conflict /\ "long" \notin Conflict
  <2>1. \A b \in Words : b \notin Conflict
    BY ConflictIs DEF Words, Classes
  <2>2. Told(T) \subseteq Words /\ "long_long" \in Words /\ "long" \in Words
    BY <1>2, <1>3 DEF Told, Words, Bits
  <2> QED BY <2>1, <2>2, ConflictIs
<1>8. Read(lang, c_type_name(T)) = Told(T)
  BY <1>5, <1>6, <1>7, ReadIs
<1> QED BY <1>3, <1>5, <1>8

-----------------------------------------------------------------------------
\* The parser's lists hold modifiers, and long long, for as long as they have not
\* met a conflict, however many specifiers there are.
THEOREM TypeCorrect == Spec => []TypeOK
<1>1. Init => IInv
  BY InitInvariant
<1>2. IInv /\ [Next]_vars => IInv'
  BY StepInvariant
<1>3. IInv => TypeOK
  BY DEF IInv
<1>. QED
  BY <1>1, <1>2, <1>3, PTL DEF Spec

\* A type is the set of the specifiers written, in whichever order they are and
\* on whichever side of the built-in type, with long long for long and long.
THEOREM OrderIrrelevant == Spec => []OrderFree
<1>1. Init => IInv
  BY InitInvariant
<1>2. IInv /\ [Next]_vars => IInv'
  BY StepInvariant
<1>3. IInv => OrderFree
  BY InvariantOrder
<1>. QED
  BY <1>1, <1>2, <1>3, PTL DEF Spec

\* cdecl accepts exactly the arithmetic types of C that the language has, whatever
\* the number and the order of the specifiers.
THEOREM LegalTypes == Spec => []LegalExact
<1>1. Init => LInv
  BY LInit
<1>2. LInv /\ [Next]_vars => LInv'
  BY LStep
<1>3. LInv => LegalExact
  BY InvariantLegal
<1> QED BY <1>1, <1>2, <1>3, PTL DEF Spec

\* The name that cdecl prints of a legal type, whatever it was put together from,
\* is read back as the same type; wchar_t is left out of names.
THEOREM NamesReadBack == Spec => []NameReadBack
<1>1. Init => LInv
  BY LInit
<1>2. LInv /\ [Next]_vars => LInv'
  BY LStep
<1>3. LInv => NameReadBack
  BY InvariantName
<1> QED BY <1>1, <1>2, <1>3, PTL DEF Spec
=============================================================================
