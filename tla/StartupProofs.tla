---------------------------- MODULE StartupProofs ----------------------------
(***************************************************************************)
(* The indices of getopt_long stay within argv and in their order, a turn  *)
(* of the loop of exchange does its part of the rotation, and the options  *)
(* and what is no option come out as the arguments say, for every set of   *)
(* argument lists, however long.                                           *)
(*                                                                         *)
(* What options.c and main do with argv leaves getopt_long alone: the      *)
(* program implements GetOpt, and what is proved of GetOpt holds of it.    *)
(* Then what it reads and how it ends: an invariant (Started) that tells,  *)
(* stage by stage, how far it has got in what the arguments ask for.       *)
(***************************************************************************)
EXTENDS Startup, FiniteSetTheorems, SequenceTheorems, WellFoundedInduction, TLAPS

\* What GetOptTypeOK needs to be inductive: argv keeps its length and the type of
\* its elements, the locals are integers, and a letter is left wherever one is
\* processed next.
IInv ==
  /\ argv \in Seq(Elements) /\ argv0 \in Seq(Elements) /\ Len(argv) = Len(argv0)
  /\ optind \in Int /\ nextchar \in Nat /\ first_nonopt \in Int /\ last_nonopt \in Int
  /\ bottom \in Int /\ middle \in Int /\ top \in Int
  /\ GetOptTypeOK
  /\ 1 <= last_nonopt
  /\ IF pc = "short" THEN nextchar > 0 ELSE pc = "returned" \/ nextchar = 0

-----------------------------------------------------------------------------
(* What the loop of exchange does to argv.                                 *)

\* Swapping two segments keeps the length and the elements' type.
LEMMA SwappedSeq ==
  ASSUME NEW v \in Seq(Elements), NEW i \in Int, NEW j \in Int, NEW n \in Int,
         1 <= i, i + n - 1 <= Len(v), 1 <= j, j + n - 1 <= Len(v)
  PROVE  Swapped(v, i, j, n) \in Seq(Elements) /\ Len(Swapped(v, i, j, n)) = Len(v)
<1> DEFINE w == Swapped(v, i, j, n)
<1>1. w = [k \in 1..Len(v) |-> w[k]]
  <2>1. DOMAIN v = 1..Len(v)
    OBVIOUS
  <2>2. w = [k \in DOMAIN v |-> w[k]]
    BY Zenon DEF Swapped
  <2> QED BY <2>1, <2>2
<1>2. ASSUME NEW k \in 1..Len(v) PROVE w[k] \in Elements
  BY <1>2 DEF Swapped
<1> HIDE DEF w
<1>3. w \in Seq(Elements) /\ Len(w) = Len(v)
  BY <1>1, <1>2
<1> QED BY <1>3 DEF w

\* The right segment is longer: the left one goes to its far end.
LEMMA RotatesLeft ==
  ASSUME NEW v \in Seq(Elements), NEW b \in Int, NEW m \in Int, NEW t \in Int,
         1 <= b, b < m, m < t, t <= Len(v) + 1, t - m > m - b
  PROVE  Rotated(Swapped(v, b, t - (m - b), m - b), b, m, t - (m - b))
           = Rotated(v, b, m, t)
<1> DEFINE w == Swapped(v, b, t - (m - b), m - b)
           s == t - (m - b)
<1>1. DOMAIN w = 1..Len(v) /\ DOMAIN v = 1..Len(v)
  BY DEF Swapped
<1>2. \A k \in 1..Len(v) :
        w[k] = IF k \in b..(m - 1) THEN v[k - b + s]
               ELSE IF k \in s..(t - 1) THEN v[k - s + b] ELSE v[k]
  BY DEF Swapped
<1>3. s \in Int /\ m < s /\ s < t
  OBVIOUS
<1>4. s = t - (m - b)
  OBVIOUS
<1> HIDE DEF w, s
<1>5. ASSUME NEW k \in 1..Len(v)
      PROVE  (IF k \in b..(b + s - m - 1) THEN w[k + m - b]
              ELSE IF k \in (b + s - m)..(s - 1) THEN w[k - (s - m)] ELSE w[k])
             = (IF k \in b..(b + t - m - 1) THEN v[k + m - b]
                ELSE IF k \in (b + t - m)..(t - 1) THEN v[k - (t - m)] ELSE v[k])
  <2>1. CASE k \in b..(b + s - m - 1)
    <3>1. /\ k + m - b \in 1..Len(v)
          /\ k + m - b \notin b..(m - 1) /\ k + m - b \notin s..(t - 1)
      BY <1>3, <1>4, <2>1
    <3>2. w[k + m - b] = v[k + m - b]
      BY <1>2, <3>1
    <3>3. k \in b..(b + t - m - 1)
      BY <1>3, <2>1
    <3> QED BY <2>1, <3>2, <3>3
  <2>2. CASE k \in (b + s - m)..(s - 1) /\ k \in b..(b + t - m - 1)
    <3>1. k - (s - m) \in b..(m - 1) /\ k - (s - m) \in 1..Len(v)
      BY <1>3, <1>4, <2>2
    <3>2. w[k - (s - m)] = v[(k - (s - m)) - b + s]
      BY <1>2, <3>1
    <3>3. (k - (s - m)) - b + s = k + m - b
      BY <1>3
    <3>4. k \notin b..(b + s - m - 1)
      BY <1>3, <2>2
    <3> QED BY <2>2, <3>2, <3>3, <3>4
  <2>3. CASE k \notin b..(s - 1) /\ k \in s..(t - 1)
    <3>1. k \notin b..(m - 1)
      BY <1>3, <2>3
    <3>2. w[k] = v[k - s + b]
      BY <1>2, <2>3, <3>1
    <3>3. /\ k \notin b..(b + s - m - 1) /\ k \notin (b + s - m)..(s - 1)
          /\ k \notin b..(b + t - m - 1) /\ k \in (b + t - m)..(t - 1)
      BY <1>3, <1>4, <2>3
    <3>4. k - s + b = k - (t - m)
      BY <1>3, <1>4
    <3> QED BY <3>2, <3>3, <3>4
  <2>4. CASE k \notin b..(t - 1)
    <3>1. k \notin b..(m - 1) /\ k \notin s..(t - 1)
      BY <1>3, <2>4
    <3>2. w[k] = v[k]
      BY <1>2, <3>1
    <3>3. /\ k \notin b..(b + s - m - 1) /\ k \notin (b + s - m)..(s - 1)
          /\ k \notin b..(b + t - m - 1) /\ k \notin (b + t - m)..(t - 1)
      BY <1>3, <1>4, <2>4
    <3> QED BY <3>2, <3>3
  <2>5. \/ k \in b..(b + s - m - 1)
        \/ k \in (b + s - m)..(s - 1) /\ k \in b..(b + t - m - 1)
        \/ k \notin b..(s - 1) /\ k \in s..(t - 1)
        \/ k \notin b..(t - 1)
    BY <1>3, <1>4
  <2> QED BY <2>1, <2>2, <2>3, <2>4, <2>5
<1>6. Rotated(w, b, m, s) = Rotated(v, b, m, t)
  BY <1>1, <1>5 DEF Rotated
<1> QED BY <1>6 DEF w, s

\* The left segment is as long or longer: the right one goes to its near end.
LEMMA RotatesRight ==
  ASSUME NEW v \in Seq(Elements), NEW b \in Int, NEW m \in Int, NEW t \in Int,
         1 <= b, b < m, m < t, t <= Len(v) + 1, t - m <= m - b
  PROVE  Rotated(Swapped(v, b, m, t - m), b + (t - m), m, t) = Rotated(v, b, m, t)
<1> DEFINE w == Swapped(v, b, m, t - m)
           s == b + (t - m)
<1>1. DOMAIN w = 1..Len(v) /\ DOMAIN v = 1..Len(v)
  BY DEF Swapped
<1>2. \A k \in 1..Len(v) :
        w[k] = IF k \in b..(s - 1) THEN v[k - b + m]
               ELSE IF k \in m..(t - 1) THEN v[k - m + b] ELSE v[k]
  BY DEF Swapped
<1>3. s \in Int /\ b < s /\ s <= m
  OBVIOUS
<1>4. t - m = s - b
  OBVIOUS
<1> HIDE DEF w, s
<1>5. ASSUME NEW k \in 1..Len(v)
      PROVE  (IF k \in s..(s + t - m - 1) THEN w[k + m - s]
              ELSE IF k \in (s + t - m)..(t - 1) THEN w[k - (t - m)] ELSE w[k])
             = (IF k \in b..(b + t - m - 1) THEN v[k + m - b]
                ELSE IF k \in (b + t - m)..(t - 1) THEN v[k - (t - m)] ELSE v[k])
  <2>0. s + t - m = s + (t - m) /\ b + t - m = s
    BY <1>3, <1>4
  <2>1. CASE k \in s..(s + t - m - 1)
    <3>1. k + m - s \in m..(t - 1) /\ k + m - s \in 1..Len(v)
      BY <1>3, <2>1
    <3>2. w[k + m - s] = v[(k + m - s) - m + b]
      BY <1>2, <1>3, <3>1
    <3>3. (k + m - s) - m + b = k - (t - m)
      BY <1>3, <1>4
    <3>4. k \notin b..(b + t - m - 1) /\ k \in (b + t - m)..(t - 1)
      BY <1>3, <1>4, <2>1
    <3> QED BY <2>1, <3>2, <3>3, <3>4
  <2>2. CASE k \in (s + t - m)..(t - 1)
    <3>1. k - (t - m) \in s..(m - 1) /\ k - (t - m) \in 1..Len(v)
      BY <1>3, <1>4, <2>2
    <3>2. w[k - (t - m)] = v[k - (t - m)]
      BY <1>2, <1>3, <3>1
    <3>3. /\ k \notin s..(s + t - m - 1) /\ k \notin b..(b + t - m - 1)
          /\ k \in (b + t - m)..(t - 1)
      BY <1>3, <1>4, <2>2
    <3> QED BY <2>2, <3>2, <3>3
  <2>3. CASE k \notin s..(t - 1)
    <3>1. /\ k \notin s..(s + t - m - 1) /\ k \notin (s + t - m)..(t - 1)
          /\ k \notin (b + t - m)..(t - 1)
      BY <1>3, <1>4, <2>3
    <3>2. k \notin m..(t - 1)
      BY <1>3, <2>3
    <3>3. w[k] = IF k \in b..(s - 1) THEN v[k - b + m] ELSE v[k]
      BY <1>2, <3>2
    <3>4. k - b + m = k + m - b /\ b + t - m - 1 = s - 1
      BY <1>3, <1>4
    <3> QED BY <3>1, <3>3, <3>4
  <2>4. k \in s..(t - 1) => k \in s..(s + t - m - 1) \/ k \in (s + t - m)..(t - 1)
    BY <1>3
  <2> QED BY <2>1, <2>2, <2>3, <2>4
<1>6. Rotated(w, s, m, t) = Rotated(v, b, m, t)
  BY <1>1, <1>5 DEF Rotated
<1> QED BY <1>6 DEF w, s

\* Nothing is left to be rotated when one of the segments is empty.
LEMMA RotatesNothing ==
  ASSUME NEW v \in Seq(Elements), NEW b \in Int, NEW m \in Int, NEW t \in Int,
         b <= m, m <= t, ~(t > m /\ m > b)
  PROVE  Rotated(v, b, m, t) = v
<1>1. ASSUME NEW k \in DOMAIN v PROVE Rotated(v, b, m, t)[k] = v[k]
  BY <1>1 DEF Rotated
<1> QED BY <1>1 DEF Rotated
-----------------------------------------------------------------------------
(* The indices.                                                            *)

\* An element that is an option of one dash has a letter.
LEMMA HasLetter ==
  ASSUME NEW e \in Elements, e.dash = 1, ~NONOPTION_P(e)
  PROVE  Len(e.letters) > 0
BY DEF Elements, WellFormed, NONOPTION_P

\* getopt_long begins at the first element.
LEMMA InitIInv == GetOptInit => IInv
BY ArgumentsAssumption
   DEF GetOptInit, IInv, GetOptTypeOK, Indices, Segments, argc

\* Whatever is taken of it, optind is then behind the option and within argv.
LEMMA TakeArgumentIndex ==
  ASSUME NEW val, NEW text, NEW to \in Int, argv \in Seq(Elements), to <= argc,
         TakeArgument(val, text, to)
  PROVE  pc' = "returned" /\ optind' \in {to, to + 1} /\ optind' <= argc
<1>1. argc \in Int
  BY DEF argc
<1> QED BY <1>1 DEF TakeArgument, Return

\* A turn of exchange narrows the segments within their ends.
LEMMA SwapIInv == IInv /\ Swap => IInv'
<1> SUFFICES ASSUME IInv, Swap PROVE IInv'
  OBVIOUS
<1>0. /\ bottom \in Int /\ middle \in Int /\ top \in Int /\ argv \in Seq(Elements)
      /\ Segments /\ bottom < middle /\ middle < top
  BY DEF IInv, GetOptTypeOK, Swap
<1>1. argv' \in Seq(Elements) /\ Len(argv') = Len(argv)
  <2>1. CASE top - middle > middle - bottom
    <3>1. argv' = Swapped(argv, bottom, top - (middle - bottom), middle - bottom)
      BY <2>1 DEF Swap, SwapShorter
    <3> QED BY <1>0, <2>1, <3>1, SwappedSeq DEF Segments, argc
  <2>2. CASE top - middle <= middle - bottom
    <3>1. argv' = Swapped(argv, bottom, middle, top - middle)
      BY <1>0, <2>2 DEF Swap, SwapShorter
    <3> QED BY <1>0, <2>2, <3>1, SwappedSeq DEF Segments, argc
  <2> QED BY <1>0, <2>1, <2>2
<1>2. bottom' \in Int /\ top' \in Int /\ Segments'
  BY <1>1 DEF IInv, GetOptTypeOK, Segments, Swap, Narrow, argc
<1> QED BY <1>1, <1>2
        DEF IInv, GetOptTypeOK, Indices, Swap, Narrow, argc

\* The steps between two elements.
LEMMA AdvanceIInv == IInv /\ (Advance \/ Exchanged \/ Skip \/ getopt_long) => IInv'
<1> SUFFICES ASSUME IInv PROVE Advance \/ Exchanged \/ Skip \/ getopt_long => IInv'
  OBVIOUS
<1> USE DEF IInv, GetOptTypeOK, Indices, Segments, argc, exchange_vars
<1>1. Advance => IInv'
  BY DEF Advance, Exchange
<1>2. Exchanged => IInv'
  BY DEF Exchanged
<1>3. Skip => IInv'
  BY DEF Skip
<1>4. getopt_long => IInv'
  BY DEF getopt_long
<1> QED BY <1>1, <1>2, <1>3, <1>4

\* The ways in which the options end.
LEMMA EndIInv == IInv /\ (EndOfOptions \/ Stop \/ EndOfArguments \/ NonOption) => IInv'
<1> SUFFICES ASSUME IInv PROVE EndOfOptions \/ Stop \/ EndOfArguments \/ NonOption => IInv'
  OBVIOUS
<1> USE DEF IInv, GetOptTypeOK, Indices, Segments, argc, exchange_vars
<1>1. EndOfOptions => IInv'
  BY DEF EndOfOptions, AtElement, Exchange
<1>2. Stop => IInv'
  BY DEF Stop, Return
<1>3. EndOfArguments => IInv'
  BY DEF EndOfArguments, Return
<1>4. NonOption => IInv'
  BY DEF NonOption, AtElement, Return
<1> QED BY <1>1, <1>2, <1>3, <1>4

\* A long option.
LEMMA LongIInv == IInv /\ process_long_option => IInv'
<1> SUFFICES ASSUME IInv, process_long_option PROVE IInv'
  OBVIOUS
<1>1. /\ pc' = "returned" /\ nextchar' = 0
      /\ optind' \in {optind + 1, optind + 2} /\ optind' <= argc
  BY TakeArgumentIndex
     DEF process_long_option, Return, AtElement, IInv, GetOptTypeOK, argc
<1> QED BY <1>1
        DEF process_long_option, OptionFrame, AtElement, IInv, GetOptTypeOK, Indices,
            Segments, argc, exchange_vars

\* A letter of an element of short options.
LEMMA ShortIInv == IInv /\ process_short_option => IInv'
<1> SUFFICES ASSUME IInv, process_short_option PROVE IInv'
  OBVIOUS
<1> DEFINE e == argv[optind]
           atEnd == nextchar + 1 = Len(e.letters)
           to == IF atEnd THEN optind + 1 ELSE optind
<1>0. optind \in 1..Len(argv)
  BY DEF process_short_option, AtElement, IInv, GetOptTypeOK, argc
<1>1. optind < argc /\ e \in Elements /\ Len(e.letters) \in Nat
  <2>1. e \in Elements
    BY <1>0 DEF IInv
  <2>2. e.letters \in Seq(STRING)
    BY <2>1 DEF Elements
  <2> QED BY <1>0, <2>1, <2>2 DEF argc, IInv
<1>2. nextchar + 1 <= Len(e.letters)
  BY <1>1, HasLetter DEF process_short_option, AtElement, IInv, GetOptTypeOK
<1>3. /\ pc' = "returned" /\ optind' \in {to, to + 1} /\ optind' <= argc
      /\ \/ nextchar' = 0
         \/ ~atEnd /\ nextchar' = nextchar + 1 /\ optind' = optind
  BY <1>1, TakeArgumentIndex DEF process_short_option, Return, IInv, argc
<1> QED BY <1>1, <1>2, <1>3
        DEF process_short_option, OptionFrame, AtElement, IInv, GetOptTypeOK, Indices,
            Segments, argc, exchange_vars

\* Each step of getopt_long keeps the indices in order.
LEMMA NextIInv == IInv /\ [GetOptNext]_getopt_vars => IInv'
<1>1. IInv /\ UNCHANGED getopt_vars => IInv'
  BY DEF getopt_vars, exchange_vars, IInv, GetOptTypeOK, Indices, Segments, argc
<1> QED BY <1>1, SwapIInv, AdvanceIInv, EndIInv, LongIInv, ShortIInv
        DEF GetOptNext, Scan

\* The indices of getopt_long are within argv and in their order, the segments
\* that are exchanged too, and a letter is left wherever one is processed next,
\* for any arguments.
THEOREM TypeCorrect == GetOptSpec => []GetOptTypeOK
<1>1. IInv => GetOptTypeOK
  BY DEF IInv
<1> QED BY <1>1, InitIInv, NextIInv, PTL DEF GetOptSpec

\* Every exchange swaps its two segments as wholes, for any arguments and any
\* lengths of the segments.
THEOREM ExchangeCorrect == GetOptSpec => ExchangeRotates
<1> DEFINE Turn == pc = "exchange" =>
              IF pc' = "exchange"
              THEN Rotated(argv, bottom, middle, top)' = Rotated(argv, bottom, middle, top)
              ELSE argv' = Rotated(argv, bottom, middle, top)
<1>1. IInv /\ [GetOptNext]_getopt_vars => [Turn]_getopt_vars
  <2> SUFFICES ASSUME IInv, GetOptNext, pc = "exchange" PROVE Turn
    OBVIOUS
  <2>1. CASE Swap
    <3>1. CASE top - middle > middle - bottom
      BY <2>1, <3>1, RotatesLeft
         DEF IInv, GetOptTypeOK, Segments, Swap, SwapShorter, Narrow, argc
    <3>2. CASE top - middle <= middle - bottom
      BY <2>1, <3>2, RotatesRight
         DEF IInv, GetOptTypeOK, Segments, Swap, SwapShorter, Narrow, argc
    <3> QED BY <3>1, <3>2 DEF IInv
  <2>2. CASE Exchanged
    BY <2>2, RotatesNothing DEF IInv, GetOptTypeOK, Segments, Exchanged
  <2> QED BY <2>1, <2>2
          DEF GetOptNext, Scan, Advance, Skip, EndOfOptions, Stop, EndOfArguments,
              NonOption, process_long_option, process_short_option, getopt_long, AtElement
<1> QED BY <1>1, InitIInv, NextIInv, PTL DEF GetOptSpec, ExchangeRotates
-----------------------------------------------------------------------------
(* Recursions along a sequence.                                            *)

\* A set of numbers has a least one: the form of induction that is used here.
LEMMA LeastNumber == \A S \in SUBSET Nat : S # {} => \E m \in S : \A n \in S : m <= n
<1>1. TAKE S \in SUBSET Nat
<1>2. HAVE S # {}
<1>3. \E m \in S : \A n \in S : ~ (<<n, m>> \in OpToRel(<, Nat))
  BY <1>2, NatLessThanWellFounded, WFMin, Zenon
<1>4. \A m, n \in Nat : n < m => <<n, m>> \in OpToRel(<, Nat)
  BY DEF OpToRel
<1>5. \A m, n \in Nat : ~ (n < m) => m <= n
  OBVIOUS
<1> QED BY <1>1, <1>3, <1>4, <1>5

\* If a set of numbers has 0, and with each below N the next, it has all up to N.
LEMMA UpTo ==
  ASSUME NEW N \in Nat, NEW S, 0 \in S, \A n \in 0..N - 1 : n \in S => n + 1 \in S
  PROVE  \A n \in 0..N : n \in S
<1> DEFINE Bad == {n \in 0..N : n \notin S}
<1>1. SUFFICES ASSUME Bad # {} PROVE FALSE
  OBVIOUS
<1>2. PICK m \in Bad : \A n \in Bad : m <= n
  <2>1. Bad \in SUBSET Nat
    OBVIOUS
  <2> HIDE DEF Bad
  <2> QED BY <1>1, <2>1, LeastNumber
<1>3. m # 0 /\ m \in 0..N
  BY <1>2
<1>4. m - 1 \in 0..N - 1 /\ m - 1 \notin Bad
  BY <1>2, <1>3
<1>5. m - 1 \in S
  BY <1>4
<1> QED BY <1>2, <1>3, <1>4, <1>5

\* Reading is the function that its definition says.
LEMMA ReadingSteps ==
  ASSUME NEW list, NEW ord, Len(list) \in Nat
  PROVE  /\ Reading(list, ord)[0] = Unread
         /\ \A n \in 1..Len(list) :
              Reading(list, ord)[n] = ReadElement(Reading(list, ord)[n - 1], list[n], ord)
<1> DEFINE Solves(f, m) ==
             f = [n \in 0..m |-> IF n = 0 THEN Unread
                                 ELSE ReadElement(f[n - 1], list[n], ord)]
<1> DEFINE Solved == {m \in Nat : \E f : Solves(f, m)}
<1>1. 0 \in Solved
  <2>1. Solves([n \in 0..0 |-> Unread], 0)
    OBVIOUS
  <2> QED BY <2>1
<1>2. ASSUME NEW m \in Nat, m \in Solved PROVE m + 1 \in Solved
  <2>1. PICK f : Solves(f, m)
    BY <1>2
  <2> DEFINE g == [n \in 0..m + 1 |-> IF n = m + 1
                                      THEN ReadElement(f[m], list[m + 1], ord) ELSE f[n]]
  <2>2. \A n \in 0..m : g[n] = f[n]
    OBVIOUS
  <2>3. g[m + 1] = ReadElement(f[m], list[m + 1], ord)
    OBVIOUS
  <2>4. f[0] = Unread /\ \A n \in 1..m : f[n] = ReadElement(f[n - 1], list[n], ord)
    BY <2>1
  <2>5. \A n \in 1..m : n - 1 \in 0..m
    OBVIOUS
  <2>6. g[0] = Unread /\ \A n \in 1..m + 1 : g[n] = ReadElement(g[n - 1], list[n], ord)
    BY <2>2, <2>3, <2>4, <2>5
  <2>7. g = [n \in 0..m + 1 |-> g[n]]
    OBVIOUS
  <2> HIDE DEF g
  <2>8. ASSUME NEW n \in 0..m + 1
        PROVE  g[n] = IF n = 0 THEN Unread ELSE ReadElement(g[n - 1], list[n], ord)
    <3>1. n # 0 => n \in 1..m + 1
      OBVIOUS
    <3> QED BY <2>6, <3>1
  <2>9. Solves(g, m + 1)
    BY <2>7, <2>8, Zenon
  <2>10. m + 1 \in Nat
    OBVIOUS
  <2> QED BY <2>9, <2>10
<1>3. Len(list) \in Solved
  <2> HIDE DEF Solved
  <2>1. \A n \in 0..Len(list) - 1 : n \in Solved => n + 1 \in Solved
    BY <1>2
  <2>2. \A n \in 0..Len(list) : n \in Solved
    BY <1>1, <2>1, UpTo
  <2> QED BY <2>2
<1>4. Solves(Reading(list, ord), Len(list))
  BY <1>3 DEF Reading
<1> QED BY <1>4

\* So is ReadLetters.
LEMMA LettersSteps ==
  ASSUME NEW r, NEW e, Len(e.letters) \in Nat
  PROVE  /\ ReadLetters(r, e)[0] = r
         /\ \A n \in 1..Len(e.letters) :
              ReadLetters(r, e)[n] = ReadLetter(ReadLetters(r, e)[n - 1], e.letters[n], e.text)
<1> DEFINE Solves(f, m) ==
             f = [n \in 0..m |-> IF n = 0 THEN r
                                 ELSE ReadLetter(f[n - 1], e.letters[n], e.text)]
<1> DEFINE Solved == {m \in Nat : \E f : Solves(f, m)}
<1>1. 0 \in Solved
  <2>1. Solves([n \in 0..0 |-> r], 0)
    OBVIOUS
  <2> QED BY <2>1
<1>2. ASSUME NEW m \in Nat, m \in Solved PROVE m + 1 \in Solved
  <2>1. PICK f : Solves(f, m)
    BY <1>2
  <2> DEFINE g == [n \in 0..m + 1 |-> IF n = m + 1
                                      THEN ReadLetter(f[m], e.letters[m + 1], e.text)
                                      ELSE f[n]]
  <2>2. \A n \in 0..m : g[n] = f[n]
    OBVIOUS
  <2>3. g[m + 1] = ReadLetter(f[m], e.letters[m + 1], e.text)
    OBVIOUS
  <2>4. f[0] = r /\ \A n \in 1..m : f[n] = ReadLetter(f[n - 1], e.letters[n], e.text)
    BY <2>1
  <2>5. \A n \in 1..m : n - 1 \in 0..m
    OBVIOUS
  <2>6. /\ g[0] = r
        /\ \A n \in 1..m + 1 : g[n] = ReadLetter(g[n - 1], e.letters[n], e.text)
    BY <2>2, <2>3, <2>4, <2>5
  <2>7. g = [n \in 0..m + 1 |-> g[n]]
    OBVIOUS
  <2> HIDE DEF g
  <2>8. ASSUME NEW n \in 0..m + 1
        PROVE  g[n] = IF n = 0 THEN r ELSE ReadLetter(g[n - 1], e.letters[n], e.text)
    <3>1. n # 0 => n \in 1..m + 1
      OBVIOUS
    <3> QED BY <2>6, <3>1
  <2>9. Solves(g, m + 1)
    BY <2>7, <2>8, Zenon
  <2>10. m + 1 \in Nat
    OBVIOUS
  <2> QED BY <2>9, <2>10
<1>3. Len(e.letters) \in Solved
  <2> HIDE DEF Solved
  <2>1. \A n \in 0..Len(e.letters) - 1 : n \in Solved => n + 1 \in Solved
    BY <1>2
  <2>2. \A n \in 0..Len(e.letters) : n \in Solved
    BY <1>1, <2>1, UpTo
  <2> QED BY <2>2
<1>4. Solves(ReadLetters(r, e), Len(e.letters))
  BY <1>3 DEF ReadLetters
<1> QED BY <1>4
-----------------------------------------------------------------------------
(* What a list of arguments says, read from left to right.                 *)

Vals == required_argument \cup no_argument \cup {"h"}
Opts == [val : Vals, arg : Elements \cup {NULL}]
Reads == [options : Seq(Opts), rest : Seq(Elements), want : Vals \cup {"none"},
          ended : BOOLEAN, wrong : BOOLEAN]
IsRead(r) == r \in Reads

\* s is r after more was read: options are not taken back, nor a mistake.
Onward(r, s) ==
  IsRead(s) /\ IsPrefix(r.options, s.options) /\ (r.wrong => s.wrong)

\* A sequence begins with itself.
LEMMA PrefixSelf ==
  ASSUME NEW S, NEW s \in Seq(S) PROVE IsPrefix(s, s)
<1>1. Len(s) \in Nat
  OBVIOUS
<1> QED BY <1>1 DEF IsPrefix

\* It begins an appended one.
LEMMA PrefixAppend ==
  ASSUME NEW S, NEW s \in Seq(S), NEW x \in S PROVE IsPrefix(s, Append(s, x))
<1>1. /\ Len(s) \in Nat /\ Len(Append(s, x)) = Len(s) + 1
      /\ \A i \in 1..Len(s) : Append(s, x)[i] = s[i]
  OBVIOUS
<1>2. SubSeq(Append(s, x), 1, Len(s)) = SubSeq(s, 1, Len(s))
  BY <1>1
<1> QED BY <1>1, <1>2 DEF IsPrefix

\* What begins the beginning of a sequence begins the sequence.
LEMMA PrefixTrans ==
  ASSUME NEW S, NEW s \in Seq(S), NEW t \in Seq(S), NEW u \in Seq(S),
         IsPrefix(s, t), IsPrefix(t, u)
  PROVE  IsPrefix(s, u)
<1>1. /\ Len(s) \in Nat /\ Len(t) \in Nat /\ Len(u) \in Nat
      /\ Len(s) <= Len(t) /\ Len(t) <= Len(u)
  BY DEF IsPrefix
<1>2. \A i \in 1..Len(t) : t[i] = u[i]
  <2>1. SubSeq(t, 1, Len(t)) = SubSeq(u, 1, Len(t))
    BY DEF IsPrefix
  <2>2. \A i \in 1..Len(t) : SubSeq(t, 1, Len(t))[i] = t[i] /\ SubSeq(u, 1, Len(t))[i] = u[i]
    BY <1>1
  <2> QED BY <2>1, <2>2
<1>3. SubSeq(u, 1, Len(s)) = SubSeq(t, 1, Len(s))
  BY <1>1, <1>2
<1> QED BY <1>1, <1>3 DEF IsPrefix

\* Reading nothing more takes nothing back.
LEMMA OnwardSelf == ASSUME NEW r, IsRead(r) PROVE Onward(r, r)
BY PrefixSelf DEF IsRead, Reads, Onward

\* Reading on and on takes nothing back either.
LEMMA OnwardTrans ==
  ASSUME NEW r, NEW s, NEW t, IsRead(r), Onward(r, s), Onward(s, t)
  PROVE  Onward(r, t)
<1>1. IsPrefix(r.options, t.options)
  <2>1. r.options \in Seq(Opts) /\ s.options \in Seq(Opts) /\ t.options \in Seq(Opts)
    BY DEF Onward, IsRead, Reads
  <2> QED BY <2>1, PrefixTrans DEF Onward
<1> QED BY <1>1 DEF Onward

\* Steps that each go onward go onward together.
LEMMA OnwardSteps ==
  ASSUME NEW f, NEW N \in Nat, IsRead(f[0]),
         \A n \in 1..N : IsRead(f[n - 1]) => Onward(f[n - 1], f[n])
  PROVE  \A m \in 0..N : IsRead(f[m]) /\ \A n \in m..N : Onward(f[m], f[n])
<1> DEFINE Good == {n \in 0..N : \A m \in 0..n : IsRead(f[m]) /\ Onward(f[m], f[n])}
<1>1. 0 \in Good
  BY OnwardSelf
<1>2. ASSUME NEW n \in 0..N - 1, n \in Good PROVE n + 1 \in Good
  <2>1. n + 1 \in 1..N /\ (n + 1) - 1 = n /\ n + 1 \in 0..N
    OBVIOUS
  <2>2. Onward(f[n], f[n + 1]) /\ IsRead(f[n + 1])
    BY <1>2, <2>1 DEF Onward
  <2>3. ASSUME NEW m \in 0..n + 1 PROVE IsRead(f[m]) /\ Onward(f[m], f[n + 1])
    <3>1. CASE m = n + 1
      BY <2>2, <3>1, OnwardSelf
    <3>2. CASE m # n + 1
      <4>1. m \in 0..n
        BY <3>2
      <4>2. IsRead(f[m]) /\ Onward(f[m], f[n])
        BY <1>2, <4>1
      <4> QED BY <2>2, <4>2, OnwardTrans
    <3> QED BY <3>1, <3>2
  <2> QED BY <2>1, <2>2, <2>3
<1> HIDE DEF Good
<1>3. \A n \in 0..N : n \in Good
  BY <1>1, <1>2, UpTo
<1> QED BY <1>3 DEF Good

\* An option, or the letter of one, that has been read.
LEMMA GiveReads ==
  ASSUME NEW r, IsRead(r), NEW val \in Vals, NEW text \in Seq(STRING)
  PROVE  /\ Onward(r, Give(r, val, text))
         /\ Give(r, val, text).rest = r.rest /\ Give(r, val, text).ended = r.ended
         /\ Give(r, val, text).wrong = r.wrong
         /\ val \notin required_argument =>
              Give(r, val, text) = [r EXCEPT !.options = Append(r.options, Option(val, NULL))]
         /\ val \in required_argument /\ text # <<>> =>
              Give(r, val, text) =
                [r EXCEPT !.options = Append(r.options, Option(val, Plain(text)))]
         /\ val \in required_argument /\ text = <<>> =>
              Give(r, val, text) = [r EXCEPT !.want = val]
<1>1. r \in Reads /\ r.options \in Seq(Opts)
  BY DEF IsRead, Reads
<1>2. Option(val, NULL) \in Opts /\ Option(val, Plain(text)) \in Opts
  <2>1. Plain(text) \in Elements
    BY DEF Plain, Element, Elements, WellFormed
  <2> QED BY <2>1 DEF Option, Opts
<1>3. ASSUME NEW o \in Opts
      PROVE  /\ Onward(r, [r EXCEPT !.options = Append(r.options, o)])
             /\ [r EXCEPT !.options = Append(r.options, o)].rest = r.rest
             /\ [r EXCEPT !.options = Append(r.options, o)].ended = r.ended
             /\ [r EXCEPT !.options = Append(r.options, o)].wrong = r.wrong
  <2>1. IsPrefix(r.options, Append(r.options, o))
    BY <1>1, PrefixAppend
  <2>2. Append(r.options, o) \in Seq(Opts)
    BY <1>1
  <2> QED BY <1>1, <2>1, <2>2 DEF Onward, IsRead, Reads
<1>4. /\ Onward(r, [r EXCEPT !.want = val])
      /\ [r EXCEPT !.want = val].rest = r.rest /\ [r EXCEPT !.want = val].ended = r.ended
      /\ [r EXCEPT !.want = val].wrong = r.wrong
  <2>1. IsPrefix(r.options, r.options)
    BY <1>1, PrefixSelf
  <2> QED BY <1>1, <2>1 DEF IsRead, Reads, Onward
<1> QED BY <1>2, <1>3, <1>4 DEF Give

\* A mistake is all that it adds to what is read.
LEMMA WrongReads ==
  ASSUME NEW r, IsRead(r)
  PROVE  /\ Onward(r, Wrong(r)) /\ Wrong(r).wrong
         /\ Wrong(r).rest = r.rest /\ Wrong(r).ended = r.ended
<1>1. r \in Reads /\ r.options \in Seq(Opts)
  BY DEF IsRead, Reads
<1>2. IsPrefix(r.options, r.options)
  BY <1>1, PrefixSelf
<1> QED BY <1>1, <1>2 DEF IsRead, Reads, Onward, Wrong

\* The letters of an element change nothing but the options, what they want and
\* whether there is a mistake.
LEMMA LettersRead ==
  ASSUME NEW r, IsRead(r), NEW e \in Elements
  PROVE  /\ Len(e.letters) \in Nat
         /\ \A m \in 0..Len(e.letters) :
              /\ IsRead(ReadLetters(r, e)[m])
              /\ \A n \in m..Len(e.letters) :
                   Onward(ReadLetters(r, e)[m], ReadLetters(r, e)[n])
<1>1. e.letters \in Seq(STRING) /\ e.text \in Seq(STRING)
  BY DEF Elements
<1>2. Len(e.letters) \in Nat
  BY <1>1
<1> DEFINE f == ReadLetters(r, e)
<1>3. f[0] = r /\ \A n \in 1..Len(e.letters) : f[n] = ReadLetter(f[n - 1], e.letters[n], e.text)
  BY <1>2, LettersSteps
<1> HIDE DEF f
<1>4. ASSUME NEW n \in 1..Len(e.letters), IsRead(f[n - 1]) PROVE Onward(f[n - 1], f[n])
  <2>1. f[n] = ReadLetter(f[n - 1], e.letters[n], e.text)
    BY <1>3
  <2>2. CASE f[n - 1].wrong \/ e.letters[n] \notin required_argument \cup no_argument
    BY <1>4, <2>1, <2>2, WrongReads DEF ReadLetter
  <2>3. CASE ~f[n - 1].wrong /\ e.letters[n] \in required_argument \cup no_argument
    <3>1. e.letters[n] \in Vals
      BY <2>3 DEF Vals
    <3>2. f[n] = Give(f[n - 1], e.letters[n], e.text)
      BY <2>1, <2>3 DEF ReadLetter
    <3> QED BY <1>1, <1>4, <3>1, <3>2, GiveReads
  <2> QED BY <2>2, <2>3
<1>5. \A m \in 0..Len(e.letters) :
        IsRead(f[m]) /\ \A n \in m..Len(e.letters) : Onward(f[m], f[n])
  BY <1>2, <1>3, <1>4, OnwardSteps
<1> QED BY <1>2, <1>5 DEF f

\* Every name is given in two parts.
LEMMA NamesAreTwo ==
  ASSUME NEW q \in LONG_OPTS
  PROVE  Len(q.name) = 2 /\ \E S : q.name \in Seq(S)
<1>1. PICK a, b : q.name = <<a, b>>
  BY DEF LONG_OPTS
<1>2. <<a, b>> \in Seq({a, b}) /\ Len(<<a, b>>) = 2
  OBVIOUS
<1> QED BY <1>1, <1>2

\* No name of an option begins another one.
LEMMA NamesDiffer ==
  ASSUME NEW o \in LONG_OPTS, NEW p \in LONG_OPTS, IsPrefix(o.name, p.name)
  PROVE  o = p
<1>1. \A q \in LONG_OPTS : Len(q.name) = 2 /\ \E S : q.name \in Seq(S)
  BY NamesAreTwo
<1>2. SubSeq(o.name, 1, 2) = SubSeq(p.name, 1, 2)
  BY <1>1 DEF IsPrefix
<1>3. o.name[1] = p.name[1] /\ o.name[2] = p.name[2]
  <2>1. \A q \in LONG_OPTS : /\ SubSeq(q.name, 1, 2)[1] = q.name[1]
                            /\ SubSeq(q.name, 1, 2)[2] = q.name[2]
    BY <1>1
  <2> QED BY <1>2, <2>1
<1>4. \A q \in LONG_OPTS :
        \/ q.name[2] = "nfig" /\ q = [name |-> <<"co", "nfig">>, val |-> "c"]
        \/ q.name[2] = "lor" /\ q = [name |-> <<"co", "lor">>, val |-> "k"]
        \/ q.name[2] = "config" /\ q = [name |-> <<"no-", "config">>, val |-> "C"]
        \/ q.name[2] = "semicolon" /\ q = [name |-> <<"no-", "semicolon">>, val |-> "s"]
        \/ q.name[2] = "typedefs" /\ q = [name |-> <<"no-", "typedefs">>, val |-> "t"]
        \/ q.name[2] = "ile" /\ q = [name |-> <<"f", "ile">>, val |-> "f"]
        \/ q.name[2] = "elp" /\ q = [name |-> <<"h", "elp">>, val |-> "h"]
        \/ q.name[2] = "nteractive" /\ q = [name |-> <<"i", "nteractive">>, val |-> "i"]
        \/ q.name[2] = "utput" /\ q = [name |-> <<"o", "utput">>, val |-> "o"]
        \/ q.name[2] = "uiet" /\ q = [name |-> <<"q", "uiet">>, val |-> "q"]
        \/ q.name[2] = "ersion" /\ q = [name |-> <<"v", "ersion">>, val |-> "v"]
        \/ q.name[2] = "anguage" /\ q = [name |-> <<"l", "anguage">>, val |-> "x"]
  BY DEF LONG_OPTS
<1> QED BY <1>3, <1>4

\* So an exact match is the only one.
LEMMA MatchesBegin ==
  ASSUME NEW name
  PROVE  Matches(name) = {o \in LONG_OPTS : IsPrefix(name, o.name)}
<1> DEFINE exact == {o \in LONG_OPTS : o.name = name}
<1>1. CASE exact = {}
  BY <1>1 DEF Matches
<1>2. CASE exact # {}
  <2>1. PICK p \in LONG_OPTS : p.name = name
    BY <1>2
  <2>2. \A o \in LONG_OPTS : IsPrefix(name, o.name) => o = p
    BY <2>1, NamesDiffer
  <2>3. IsPrefix(name, p.name)
    <3>1. \E S : name \in Seq(S)
      BY <2>1, NamesAreTwo
    <3> QED BY <2>1, <3>1, PrefixSelf
  <2>4. {o \in LONG_OPTS : IsPrefix(name, o.name)} = {p}
    BY <2>2, <2>3
  <2>5. exact = {p}
    BY <2>1, <2>2, <2>3
  <2>6. Matches(name) = exact
    BY <1>2 DEF Matches
  <2> QED BY <2>4, <2>5, <2>6
<1> QED BY <1>1, <1>2

\* The only option that a name can mean has a value.
LEMMA NameVal ==
  ASSUME NEW found \in SUBSET LONG_OPTS, Cardinality(found) = 1
  PROVE  (CHOOSE o \in found : TRUE).val \in Vals
<1>1. found # {}
  BY FS_EmptySet
<1>2. \A o \in LONG_OPTS : o.val \in Vals
  BY DEF LONG_OPTS, Vals, required_argument, no_argument
<1> QED BY <1>1, <1>2

\* Nor does a name.
LEMMA NameRead ==
  ASSUME NEW r, IsRead(r), NEW e \in Elements
  PROVE  Onward(r, ReadName(r, e))
<1> DEFINE begin == {o \in LONG_OPTS : IsPrefix(e.name, o.name)}
           val == (CHOOSE o \in begin : TRUE).val
<1>1. CASE Cardinality(begin) # 1 \/ (val \notin required_argument /\ e.text # <<>>)
  BY <1>1, WrongReads DEF ReadName
<1>2. CASE ~(Cardinality(begin) # 1 \/ (val \notin required_argument /\ e.text # <<>>))
  <2>1. val \in Vals
    BY <1>2, NameVal
  <2>2. e.text \in Seq(STRING)
    BY DEF Elements
  <2>3. ReadName(r, e) = Give(r, val, e.text)
    BY <1>2 DEF ReadName
  <2> QED BY <2>1, <2>2, <2>3, GiveReads
<1> QED BY <1>1, <1>2

\* What one element says goes onward from what was read before it.
LEMMA ElementRead ==
  ASSUME NEW r, IsRead(r), NEW e \in Elements, NEW ord
  PROVE  Onward(r, ReadElement(r, e, ord))
<1>0. r \in Reads /\ r.options \in Seq(Opts) /\ IsPrefix(r.options, r.options)
  BY PrefixSelf DEF IsRead, Reads
<1>1. CASE r.wrong
  BY <1>1, OnwardSelf DEF ReadElement
<1>2. CASE ~r.wrong /\ r.want # "none"
  <2>1. Option(r.want, e) \in Opts
    BY <1>0, <1>2 DEF Option, Opts, Reads
  <2>2. /\ IsPrefix(r.options, Append(r.options, Option(r.want, e)))
        /\ Append(r.options, Option(r.want, e)) \in Seq(Opts)
    BY <1>0, <2>1, PrefixAppend
  <2>3. ReadElement(r, e, ord)
          = [r EXCEPT !.want = "none", !.options = Append(r.options, Option(r.want, e))]
    BY <1>2 DEF ReadElement
  <2> QED BY <1>0, <1>2, <2>2, <2>3 DEF Onward, IsRead, Reads
<1>3. CASE ~r.wrong /\ r.want = "none" /\ (r.ended \/ NONOPTION_P(e))
  <2>1. ReadElement(r, e, ord)
          = [r EXCEPT !.rest = Append(r.rest, e),
                      !.ended = r.ended \/ ord = "REQUIRE_ORDER"]
    BY <1>3 DEF ReadElement
  <2>2. Append(r.rest, e) \in Seq(Elements)
    BY <1>0 DEF Reads
  <2> QED BY <1>0, <1>3, <2>1, <2>2 DEF Onward, IsRead, Reads
<1>4. CASE ~r.wrong /\ r.want = "none" /\ ~(r.ended \/ NONOPTION_P(e)) /\ e = DashDash
  BY <1>0, <1>4 DEF ReadElement, Onward, IsRead, Reads
<1>5. CASE /\ ~r.wrong /\ r.want = "none" /\ ~(r.ended \/ NONOPTION_P(e)) /\ e # DashDash
           /\ e.dash = 1
  <2>1. /\ ReadElement(r, e, ord) = ReadLetters(r, e)[Len(e.letters)]
        /\ Len(e.letters) \in Nat /\ ReadLetters(r, e)[0] = r
    BY <1>5, LettersRead, LettersSteps DEF ReadElement
  <2>2. 0 \in 0..Len(e.letters) /\ Len(e.letters) \in 0..Len(e.letters)
    BY <2>1
  <2>3. Onward(ReadLetters(r, e)[0], ReadLetters(r, e)[Len(e.letters)])
    BY <2>2, LettersRead
  <2> QED BY <2>1, <2>3
<1>6. CASE /\ ~r.wrong /\ r.want = "none" /\ ~(r.ended \/ NONOPTION_P(e)) /\ e # DashDash
           /\ e.dash # 1
  BY <1>6, NameRead DEF ReadElement
<1> QED BY <1>1, <1>2, <1>3, <1>4, <1>5, <1>6

\* What is read after some arguments stays read after more of them.
LEMMA ReadingRead ==
  ASSUME NEW list \in Seq(Elements), NEW ord
  PROVE  \A m \in 0..Len(list) :
           /\ IsRead(Reading(list, ord)[m])
           /\ \A n \in m..Len(list) : Onward(Reading(list, ord)[m], Reading(list, ord)[n])
<1> DEFINE f == Reading(list, ord)
<1>1. Len(list) \in Nat
  OBVIOUS
<1>2. /\ f[0] = Unread
      /\ \A n \in 1..Len(list) : f[n] = ReadElement(f[n - 1], list[n], ord)
  BY <1>1, ReadingSteps
<1> HIDE DEF f
<1>3. IsRead(f[0])
  <2>1. <<>> \in Seq(Opts) /\ <<>> \in Seq(Elements)
    OBVIOUS
  <2> QED BY <1>2, <2>1 DEF Unread, IsRead, Reads
<1>4. ASSUME NEW n \in 1..Len(list), IsRead(f[n - 1]) PROVE Onward(f[n - 1], f[n])
  <2>1. list[n] \in Elements
    OBVIOUS
  <2> QED BY <1>2, <1>4, <2>1, ElementRead
<1>5. \A m \in 0..Len(list) : IsRead(f[m]) /\ \A n \in m..Len(list) : Onward(f[m], f[n])
  BY <1>1, <1>3, <1>4, OnwardSteps
<1> QED BY <1>5 DEF f

\* t is s followed by the elements of list after the first k.
Continues(s, t, list, k) ==
  /\ Len(t) = Len(s) + (Len(list) - k)
  /\ \A i \in 1..Len(s) : t[i] = s[i]
  /\ \A j \in k + 1..Len(list) : t[Len(s) + (j - k)] = list[j]

\* When the options have ended, all that follows is kept as it is.
LEMMA EndedReads ==
  ASSUME NEW list \in Seq(Elements), NEW ord, NEW k \in 0..Len(list),
         NEW r, r = Reading(list, ord)[k], r.ended, ~r.wrong, r.want = "none",
         NEW s, s = Reading(list, ord)[Len(list)], NEW len \in Nat, len = Len(r.rest)
  PROVE  /\ s.options = r.options /\ ~s.wrong /\ s.want = "none"
         /\ Continues(r.rest, s.rest, list, k)
<1> DEFINE f == Reading(list, ord)
<1>1. Len(list) \in Nat
  OBVIOUS
<1>2. \A n \in 1..Len(list) : f[n] = ReadElement(f[n - 1], list[n], ord)
  BY <1>1, ReadingSteps
<1>3. \A n \in 0..Len(list) : f[n] \in Reads
  BY ReadingRead DEF IsRead
<1>4. f[k].ended /\ ~f[k].wrong /\ f[k].want = "none" /\ len = Len(f[k].rest)
  OBVIOUS
<1> HIDE DEF f
<1> DEFINE Kept(n) ==
             /\ f[n].options = f[k].options /\ ~f[n].wrong /\ f[n].want = "none" /\ f[n].ended
             /\ Len(f[n].rest) = len + (n - k)
             /\ \A i \in 1..len : f[n].rest[i] = f[k].rest[i]
             /\ \A j \in k + 1..n : f[n].rest[len + (j - k)] = list[j]
<1> DEFINE Good == {i \in 0..Len(list) - k : Kept(k + i)}
<1>6. 0 \in Good
  <2>1. k + 0 = k
    OBVIOUS
  <2>2. Kept(k)
    BY <1>4
  <2> QED BY <1>1, <2>1, <2>2
<1>7. ASSUME NEW i \in 0..(Len(list) - k) - 1, i \in Good PROVE i + 1 \in Good
  <2> DEFINE n == k + i
  <2>1. /\ n + 1 \in 1..Len(list) /\ n \in 0..Len(list) /\ (n + 1) - 1 = n
        /\ k + (i + 1) = n + 1 /\ i + 1 \in 0..Len(list) - k /\ n - k = i
        /\ (n + 1) - k = i + 1
    BY <1>1
  <2>2. Kept(n)
    BY <1>7
  <2>13. len + ((n + 1) - k) = (len + i) + 1
    <3>1. i \in Int /\ k \in Int /\ len \in Int
      BY <1>1
    <3>2. \A x, y, z \in Int : z + (((x + y) + 1) - x) = (z + y) + 1
      OBVIOUS
    <3> QED BY <3>1, <3>2, Zenon
  <2> HIDE DEF n
  <2>3. f[n + 1] = ReadElement(f[n], list[n + 1], ord)
    BY <1>2, <2>1
  <2>4. f[n + 1] = [f[n] EXCEPT !.rest = Append(f[n].rest, list[n + 1]),
                               !.ended = f[n].ended \/ ord = "REQUIRE_ORDER"]
    BY <2>2, <2>3 DEF ReadElement
  <2>5. /\ f[n] \in Reads /\ f[n].rest \in Seq(Elements) /\ list[n + 1] \in Elements
    BY <1>3, <2>1 DEF Reads
  <2>6. /\ f[n + 1].options = f[n].options /\ f[n + 1].wrong = f[n].wrong
        /\ f[n + 1].want = f[n].want /\ f[n + 1].ended
        /\ f[n + 1].rest = Append(f[n].rest, list[n + 1])
    BY <2>2, <2>4, <2>5 DEF Reads
  <2>7. /\ Len(f[n + 1].rest) = Len(f[n].rest) + 1
        /\ f[n + 1].rest[Len(f[n].rest) + 1] = list[n + 1]
        /\ \A q \in 1..Len(f[n].rest) : f[n + 1].rest[q] = f[n].rest[q]
    BY <2>5, <2>6
  <2>8. Len(f[n].rest) = len + i
    BY <2>1, <2>2
  <2>9. \A q \in 1..len : f[n + 1].rest[q] = f[k].rest[q]
    <3>1. \A q \in 1..len : q \in 1..Len(f[n].rest)
      BY <2>8
    <3> QED BY <2>2, <2>7, <3>1
  <2>10. \A j \in k + 1..n + 1 : f[n + 1].rest[len + (j - k)] = list[j]
    <3>1. TAKE j \in k + 1..n + 1
    <3>2. CASE j = n + 1
      <4>1. len + (j - k) = Len(f[n].rest) + 1
        BY <2>8, <2>13, <3>2
      <4> QED BY <2>7, <3>2, <4>1
    <3>3. CASE j # n + 1
      <4>1. j \in k + 1..n
        BY <2>1, <3>3
      <4>2. len + (j - k) \in 1..Len(f[n].rest)
        BY <2>1, <2>8, <4>1
      <4> QED BY <2>2, <2>7, <4>1, <4>2
    <3> QED BY <3>2, <3>3
  <2>11. Len(f[n + 1].rest) = len + ((n + 1) - k)
    BY <2>7, <2>8, <2>13
  <2>12. Kept(n + 1)
    BY <2>2, <2>6, <2>9, <2>10, <2>11
  <2> QED BY <2>1, <2>12
<1> HIDE DEF Good
<1>8. /\ Len(list) - k \in Nat /\ k + (Len(list) - k) = Len(list)
      /\ Len(list) - k \in 0..Len(list) - k
  BY <1>1
<1>9. Len(list) - k \in Good
  BY <1>6, <1>7, <1>8, UpTo
<1>10. Kept(Len(list))
  BY <1>8, <1>9 DEF Good
<1> QED BY <1>4, <1>10 DEF f, Continues
-----------------------------------------------------------------------------
(* What has been done with what has been read.                             *)

\* What the elements before optind say, and the letters processed of the one there.
Before == Reading(argv0, ordering)[optind - 1]
Heard == IF nextchar = 0 THEN Before ELSE ReadLetters(Before, argv0[optind])[nextchar]

\* argv as it is when the exchange is done, and where the non-options are then.
Final == IF pc = "exchange" THEN Rotated(argv, bottom, middle, top) ELSE argv
Start == IF pc = "exchange" THEN first_nonopt + (optind - last_nonopt) ELSE first_nonopt
End == IF pc \in {"exchange", "stop"} \/ (pc = "skip" /\ ordering = "PERMUTE")
       THEN optind ELSE last_nonopt

\* v has list from a up to b.
Holds(v, a, b, list) == b - a = Len(list) /\ \A i \in 1..Len(list) : v[a + i - 1] = list[i]

Stopping == pc = "stop" \/ (pc = "exchange" /\ after = "stop")

\* The options that have been said are given, and there is no mistake so far.
Hearing ==
  /\ ~Before.wrong /\ Before.want = "none" /\ (Before.ended <=> Stopping)
  /\ Heard = [Before EXCEPT !.options = given]
  /\ ordering = "REQUIRE_ORDER" => Before.rest = <<>>

\* What is no option is in its place, or the exchange brings it there, and the
\* elements from optind on are as they were.
Placed ==
  /\ Holds(Final, Start, End, Before.rest)
  /\ \A j \in optind..Len(argv0) : Final[j] = argv0[j]
  /\ pc = "exchange" => top <= optind

\* What is at optind when it is processed.
AtOption ==
  /\ pc = "element" /\ ordering = "PERMUTE" =>
       last_nonopt = optind /\ (optind < argc => ~NONOPTION_P(argv[optind]))
  /\ nextchar > 0 => argv[optind].dash = 1

Over == pc = "returned" /\ opt \in {Done, Error}
Progress == Hearing /\ Placed /\ AtOption
Prog == IF Over THEN OptionsRight ELSE Progress

\* Rotating two segments moves the first, and leaves what is behind them.
LEMMA HoldsMoved ==
  ASSUME NEW v \in Seq(Elements), NEW b \in Int, NEW m \in Int, NEW t \in Int,
         1 <= b, b <= m, m <= t, t <= Len(v) + 1,
         NEW list \in Seq(Elements), Holds(v, b, m, list)
  PROVE  /\ Holds(Rotated(v, b, m, t), b + (t - m), t, list)
         /\ \A j \in t..Len(v) : Rotated(v, b, m, t)[j] = v[j]
<1> DEFINE w == Rotated(v, b, m, t)
           len == Len(list)
<1>1. len \in Nat /\ m - b = len /\ \A i \in 1..len : v[b + i - 1] = list[i]
  BY DEF Holds
<1>2. \A k \in 1..Len(v) : w[k] = IF k \in b..(b + t - m - 1) THEN v[k + m - b]
                                  ELSE IF k \in (b + t - m)..(t - 1) THEN v[k - (t - m)]
                                  ELSE v[k]
  BY DEF Rotated
<1> HIDE DEF w, len
<1>3. ASSUME NEW i \in 1..len PROVE w[(b + (t - m)) + i - 1] = list[i]
  <2> DEFINE k == (b + (t - m)) + i - 1
  <2>1. /\ k \in 1..Len(v) /\ k \notin b..(b + t - m - 1)
        /\ k \in (b + t - m)..(t - 1) /\ k - (t - m) = b + i - 1
    BY <1>1
  <2> HIDE DEF k
  <2>2. w[k] = v[b + i - 1]
    BY <1>2, <2>1
  <2> QED BY <1>1, <2>2 DEF k
<1>4. t - (b + (t - m)) = len
  BY <1>1
<1>5. ASSUME NEW j \in t..Len(v) PROVE w[j] = v[j]
  <2>1. j \in 1..Len(v) /\ j \notin b..(b + t - m - 1) /\ j \notin (b + t - m)..(t - 1)
    OBVIOUS
  <2> QED BY <1>2, <2>1
<1> QED BY <1>3, <1>4, <1>5 DEF Holds, w, len

\* A segment and the element behind it are a segment.
LEMMA HoldsMore ==
  ASSUME NEW v, NEW a \in Int, NEW b \in Int, NEW list \in Seq(Elements),
         v[b] \in Elements, Holds(v, a, b, list)
  PROVE  Holds(v, a, b + 1, Append(list, v[b]))
<1> DEFINE s == Append(list, v[b])
<1>1. /\ Len(list) \in Nat /\ b - a = Len(list)
      /\ \A i \in 1..Len(list) : v[a + i - 1] = list[i]
  BY DEF Holds
<1>2. /\ Len(s) = Len(list) + 1 /\ s[Len(list) + 1] = v[b]
      /\ \A i \in 1..Len(list) : s[i] = list[i]
  OBVIOUS
<1> HIDE DEF s
<1>3. ASSUME NEW i \in 1..Len(list) + 1 PROVE v[a + i - 1] = s[i]
  <2>1. CASE i = Len(list) + 1
    <3>1. a + i - 1 = b
      BY <1>1, <2>1
    <3> QED BY <1>2, <2>1, <3>1
  <2>2. CASE i # Len(list) + 1
    <3>1. i \in 1..Len(list)
      BY <1>1, <2>2
    <3> QED BY <1>1, <1>2, <3>1
  <2> QED BY <2>1, <2>2
<1>4. (b + 1) - a = Len(list) + 1
  BY <1>1
<1> QED BY <1>2, <1>3, <1>4 DEF Holds, s

\* What the readings are of.
LEMMA ReadBefore ==
  ASSUME IInv
  PROVE  /\ Len(argv0) \in Nat /\ Len(argv) = Len(argv0) /\ argc = Len(argv0) + 1
         /\ optind \in 1..argc /\ optind - 1 \in 0..Len(argv0) /\ ordering \in AllOrderings
         /\ \A n \in 0..Len(argv0) : Reading(argv0, ordering)[n] \in Reads
         /\ Before \in Reads
         /\ optind < argc =>
              /\ optind \in 1..Len(argv0) /\ argv0[optind] \in Elements
              /\ argv[optind] \in Elements
              /\ Reading(argv0, ordering)[optind] = ReadElement(Before, argv0[optind], ordering)
<1>1. /\ argv \in Seq(Elements) /\ argv0 \in Seq(Elements) /\ Len(argv) = Len(argv0)
      /\ optind \in Int /\ 1 <= optind /\ optind <= argc /\ ordering \in AllOrderings
  BY ArgumentsAssumption DEF IInv, GetOptTypeOK
<1>2. Len(argv0) \in Nat /\ argc = Len(argv0) + 1
  BY <1>1 DEF argc
<1>3. optind - 1 \in 0..Len(argv0) /\ optind \in 1..argc
  BY <1>1, <1>2
<1>4. \A n \in 0..Len(argv0) : Reading(argv0, ordering)[n] \in Reads
  BY <1>1, ReadingRead DEF IsRead
<1>5. Before \in Reads
  BY <1>3, <1>4 DEF Before
<1>6. ASSUME optind < argc
      PROVE  /\ optind \in 1..Len(argv0) /\ argv0[optind] \in Elements
             /\ argv[optind] \in Elements
             /\ Reading(argv0, ordering)[optind] = ReadElement(Before, argv0[optind], ordering)
  <2>1. optind \in 1..Len(argv0)
    BY <1>1, <1>2, <1>6
  <2>2. argv0[optind] \in Elements /\ argv[optind] \in Elements
    BY <1>1, <2>1
  <2> QED BY <1>2, <2>1, <2>2, ReadingSteps DEF Before
<1> QED BY <1>1, <1>2, <1>3, <1>4, <1>5, <1>6

\* Nothing more has been read where these are unchanged.
LEMMA SameReading ==
  ASSUME UNCHANGED <<argv0, ordering, optind, nextchar>>
  PROVE  Before' = Before /\ Heard' = Heard
BY DEF Before, Heard

\* The options that were returned are the first of those that are said.
LEMMA GivenSaid ==
  ASSUME IInv, Progress
  PROVE  /\ given \in Seq(Opts) /\ Heard \in Reads /\ Heard.options = given
         /\ IsPrefix(given, Said(argv0, ordering).options)
<1> DEFINE all == Reading(argv0, ordering)[Len(argv0)]
<1>1. /\ Before \in Reads /\ all \in Reads /\ optind - 1 \in 0..Len(argv0)
      /\ Len(argv0) \in Nat /\ argv0 \in Seq(Elements)
  BY ReadBefore DEF IInv
<1>2. Heard = [Before EXCEPT !.options = given]
  BY DEF Progress, Hearing
<1>3. Heard \in Reads /\ IsPrefix(Heard.options, all.options)
  <2>1. CASE nextchar = 0
    <3>1. Onward(Before, all)
      BY <1>1, ReadingRead DEF Before
    <3> QED BY <1>1, <2>1, <3>1 DEF Heard, Onward
  <2>2. CASE nextchar # 0
    <3> DEFINE e == argv0[optind]
               L == ReadLetters(Before, e)
               r == Reading(argv0, ordering)[optind]
    <3>1. /\ optind < argc /\ nextchar \in Nat /\ nextchar < Len(argv[optind].letters)
          /\ argv[optind].dash = 1 /\ pc # "exchange"
      BY <2>2 DEF IInv, GetOptTypeOK, Progress, AtOption
    <3>2. optind \in 1..Len(argv0) /\ e \in Elements /\ r = ReadElement(Before, e, ordering)
      BY <3>1, ReadBefore
    <3>3. argv[optind] = e
      BY <3>1, <3>2 DEF Progress, Placed, Final
    <3>4. r = L[Len(e.letters)]
      <4>1. ~NONOPTION_P(e) /\ e # DashDash
        <5>1. e.letters # <<>>
          BY <3>1, <3>3
        <5> QED BY <3>1, <3>3, <5>1 DEF NONOPTION_P, DashDash, Long, Element
      <4>2. ~Before.wrong /\ Before.want = "none" /\ ~Before.ended
        BY <3>1, <2>2 DEF Progress, Hearing, Stopping, IInv
      <4> QED BY <3>1, <3>2, <3>3, <4>1, <4>2 DEF ReadElement
    <3>5. /\ Len(e.letters) \in Nat /\ nextchar \in 0..Len(e.letters)
          /\ Len(e.letters) \in nextchar..Len(e.letters)
      BY <1>1, <3>1, <3>2, <3>3, LettersRead DEF IsRead
    <3>6. Heard = L[nextchar]
      BY <2>2 DEF Heard
    <3>7. IsRead(Heard) /\ Onward(Heard, r)
      BY <1>1, <3>2, <3>4, <3>5, <3>6, LettersRead DEF IsRead
    <3>8. IsRead(r) /\ Onward(r, all)
      BY <1>1, <3>2, ReadingRead
    <3>9. Onward(Heard, all)
      BY <3>7, <3>8, OnwardTrans
    <3> QED BY <3>7, <3>9 DEF IsRead, Onward
  <2> QED BY <2>1, <2>2
<1>4. Heard.options = given
  BY <1>1, <1>2 DEF Reads
<1>5. Said(argv0, ordering).options = all.options
  BY <1>1 DEF Said, Reads
<1> QED BY <1>3, <1>4, <1>5 DEF Reads

\* Nothing has been read yet.
LEMMA InitProg == GetOptInit => Prog
<1> SUFFICES ASSUME GetOptInit PROVE Prog
  OBVIOUS
<1>1. Before = Unread /\ Heard = Unread
  <2>1. Len(argv0) \in Nat
    BY ArgumentsAssumption DEF GetOptInit
  <2> QED BY <2>1, ReadingSteps DEF GetOptInit, Before, Heard
<1>2. Hearing
  BY <1>1 DEF Hearing, Unread, Stopping, GetOptInit
<1>3. Placed
  <2>1. Before.rest = <<>> /\ Len(<<>>) = 0 /\ Start = 1 /\ End = 1 /\ Final = argv0
    BY <1>1 DEF Unread, Start, End, Final, GetOptInit
  <2> QED BY <2>1 DEF Placed, Holds, GetOptInit
<1>4. AtOption /\ ~Over
  BY DEF AtOption, Over, GetOptInit
<1> QED BY <1>2, <1>3, <1>4 DEF Prog, Progress

-----------------------------------------------------------------------------
(* The steps between two elements.                                         *)

\* The exchange is to be done: what it will bring behind the options is what is
\* before them now.
LEMMA ExchangeProgress ==
  ASSUME IInv, Placed, NEW to \in Int, NEW then, Exchange(to, then), UNCHANGED argv,
         pc # "exchange", 1 <= first_nonopt, first_nonopt <= last_nonopt,
         last_nonopt <= to, to <= argc, optind <= to, optind' = to,
         UNCHANGED <<argv0, first_nonopt, last_nonopt>>,
         Before.rest \in Seq(Elements), Before'.rest = Before.rest, End = last_nonopt
  PROVE  Placed'
<1>1. /\ pc' = "exchange" /\ bottom' = first_nonopt /\ middle' = last_nonopt /\ top' = to
      /\ argv' = argv
  BY DEF Exchange
<1>2. /\ Final' = Rotated(argv, first_nonopt, last_nonopt, to)
      /\ Start' = first_nonopt + (to - last_nonopt) /\ End' = to
  BY <1>1 DEF Final, Start, End
<1>3. /\ Holds(argv, first_nonopt, last_nonopt, Before.rest)
      /\ \A j \in optind..Len(argv0) : argv[j] = argv0[j]
  BY DEF Placed, Final, Start, End
<1>4. /\ argv \in Seq(Elements) /\ first_nonopt \in Int /\ last_nonopt \in Int
      /\ to <= Len(argv) + 1 /\ Len(argv) = Len(argv0) /\ optind \in Int
  BY DEF IInv, argc
<1>5. /\ Holds(Final', Start', End', Before.rest)
      /\ \A j \in to..Len(argv) : Final'[j] = argv[j]
  BY <1>2, <1>3, <1>4, HoldsMoved
<1>6. \A j \in to..Len(argv0) : Final'[j] = argv0[j]
  <2>1. TAKE j \in to..Len(argv0)
  <2>2. j \in optind..Len(argv0) /\ j \in to..Len(argv)
    BY <1>4
  <2> QED BY <1>3, <1>5, <2>2
<1>7. top' <= optind'
  BY <1>1
<1> QED BY <1>5, <1>6, <1>7 DEF Placed

\* Options that followed non-options are put before them; the reading stays the same.
LEMMA AdvanceProgress ==
  ASSUME IInv, Progress, Advance PROVE Progress'
<1>0. /\ pc = "advance" /\ nextchar = 0 /\ optind \in Int /\ first_nonopt \in Int
      /\ last_nonopt \in Int /\ 1 <= first_nonopt /\ first_nonopt <= last_nonopt
      /\ last_nonopt <= optind /\ optind <= argc
  BY DEF Advance, IInv, GetOptTypeOK, Indices
<1>1. Before' = Before /\ Heard' = Heard /\ given' = given /\ ordering' = ordering
  BY SameReading DEF Advance
<1>2. Before.rest \in Seq(Elements)
  BY ReadBefore DEF Reads
<1>3. Stopping' <=> Stopping
  BY <1>0 DEF Advance, Stopping, Exchange
<1>4. Hearing'
  BY <1>1, <1>3 DEF Progress, Hearing
<1>5. AtOption'
  BY <1>0 DEF Advance, AtOption, Exchange
<1>6. Placed'
  <2>1. CASE ordering = "PERMUTE" /\ first_nonopt # last_nonopt /\ last_nonopt # optind
    <3>1. /\ Exchange(optind, "skip")
          /\ UNCHANGED <<argv, argv0, optind, first_nonopt, last_nonopt>>
      BY <2>1 DEF Advance
    <3>2. End = last_nonopt
      BY <1>0 DEF End
    <3> QED BY <1>0, <1>1, <1>2, <3>1, <3>2, ExchangeProgress DEF Progress
  <2>2. CASE ~(ordering = "PERMUTE" /\ first_nonopt # last_nonopt /\ last_nonopt # optind)
    <3>1. /\ pc' = "skip" /\ UNCHANGED <<argv, argv0, optind, last_nonopt, ordering>>
          /\ first_nonopt' = IF ordering = "PERMUTE" /\ last_nonopt # optind
                             THEN optind ELSE first_nonopt
      BY <2>2 DEF Advance
    <3>2. /\ Final' = argv /\ Final = argv /\ Start' = first_nonopt' /\ Start = first_nonopt
          /\ End' = (IF ordering = "PERMUTE" THEN optind ELSE last_nonopt)
          /\ End = last_nonopt
      BY <1>0, <3>1 DEF Final, Start, End
    <3>3. Holds(argv, first_nonopt, last_nonopt, Before.rest)
      BY <3>2 DEF Progress, Placed
    <3>4. Holds(Final', Start', End', Before.rest)
      <4>1. CASE ordering = "PERMUTE" /\ last_nonopt # optind
        <5>1. Len(Before.rest) = 0
          BY <1>0, <2>2, <3>3, <4>1 DEF Holds
        <5>2. Start' = optind /\ End' = optind
          BY <3>1, <3>2, <4>1
        <5> QED BY <1>0, <5>1, <5>2 DEF Holds
      <4>2. CASE ~(ordering = "PERMUTE" /\ last_nonopt # optind)
        <5>1. Start' = first_nonopt /\ End' = last_nonopt
          BY <3>1, <3>2, <4>2
        <5> QED BY <3>2, <3>3, <5>1
      <4> QED BY <4>1, <4>2
    <3> QED BY <1>1, <3>1, <3>2, <3>4 DEF Progress, Placed
  <2> QED BY <2>1, <2>2
<1> QED BY <1>4, <1>5, <1>6 DEF Progress

\* A piece is exchanged: the outcome of the exchange stays what it was.
LEMMA SwapProgress ==
  ASSUME IInv, Progress, Swap PROVE Progress'
<1>0. /\ pc = "exchange" /\ UNCHANGED <<argv0, ordering, optind, nextchar, first_nonopt,
                                       last_nonopt, pc, after, middle, given>>
  BY DEF Swap
<1>1. Before' = Before /\ Heard' = Heard
  BY <1>0, SameReading
<1>2. nextchar = 0
  BY <1>0 DEF IInv
<1>3. Rotated(argv', bottom', middle', top') = Rotated(argv, bottom, middle, top)
  <2>1. CASE top - middle > middle - bottom
    BY <2>1, RotatesLeft
       DEF IInv, GetOptTypeOK, Segments, Swap, SwapShorter, Narrow, argc
  <2>2. CASE top - middle <= middle - bottom
    BY <2>2, RotatesRight
       DEF IInv, GetOptTypeOK, Segments, Swap, SwapShorter, Narrow, argc
  <2> QED BY <2>1, <2>2 DEF IInv
<1>4. Final' = Final /\ Start' = Start /\ End' = End
  BY <1>0, <1>3 DEF Final, Start, End
<1>5. top' <= optind'
  <2>1. top <= optind /\ top \in Int /\ bottom \in Int /\ middle \in Int /\ optind \in Int
    BY <1>0 DEF Progress, Placed, IInv
  <2>2. top' <= top
    BY <2>1 DEF Swap, Narrow
  <2>3. top' \in Int
    BY SwapIInv DEF IInv
  <2> QED BY <1>0, <2>1, <2>2, <2>3
<1>6. Placed'
  BY <1>0, <1>1, <1>4, <1>5 DEF Progress, Placed
<1>7. Hearing' /\ AtOption'
  BY <1>0, <1>1, <1>2 DEF Progress, Hearing, AtOption, Stopping
<1> QED BY <1>6, <1>7 DEF Progress

\* The exchange is over: the non-options are where they will be at the end.
LEMMA ExchangedProgress ==
  ASSUME IInv, Progress, Exchanged PROVE Progress'
<1>0. /\ pc = "exchange" /\ pc' = after /\ last_nonopt' = optind
      /\ UNCHANGED <<argv, argv0, ordering, optind, nextchar, after, given>>
      /\ first_nonopt' = first_nonopt + (optind - last_nonopt)
      /\ after \in {"skip", "stop"} /\ nextchar = 0
  BY DEF Exchanged, IInv, GetOptTypeOK
<1>1. Before' = Before /\ Heard' = Heard
  BY <1>0, SameReading
<1>2. Rotated(argv, bottom, middle, top) = argv
  BY <1>0, RotatesNothing DEF IInv, GetOptTypeOK, Segments, Exchanged
<1>3. Final' = Final /\ Start' = Start /\ End' = End
  BY <1>0, <1>2 DEF Final, Start, End
<1>4. Placed'
  BY <1>0, <1>1, <1>3 DEF Progress, Placed
<1>5. Hearing' /\ AtOption'
  BY <1>0, <1>1 DEF Progress, Hearing, AtOption, Stopping
<1> QED BY <1>4, <1>5 DEF Progress

\* The non-options at optind are passed over, none of which is an option.
LEMMA SkipProgress ==
  ASSUME IInv, Progress, Skip PROVE Progress'
<1>0. /\ pc = "skip" /\ nextchar = 0 /\ optind \in Int /\ first_nonopt \in Int
      /\ UNCHANGED <<argv, argv0, ordering, nextchar, first_nonopt, given>>
      /\ ordering \in AllOrderings
  BY ReadBefore DEF Skip, IInv
<1>1. /\ Final = argv /\ Start = first_nonopt
      /\ Holds(argv, first_nonopt, End, Before.rest)
      /\ \A j \in optind..Len(argv0) : argv[j] = argv0[j]
  BY <1>0 DEF Progress, Placed, Final, Start
<1>2. CASE ordering = "PERMUTE" /\ optind < argc /\ NONOPTION_P(argv[optind])
  <2>1. optind' = optind + 1 /\ pc' = "skip"
    BY <1>0, <1>2 DEF Skip
  <2>2. /\ optind \in 1..Len(argv0) /\ argv[optind] \in Elements /\ Before \in Reads
        /\ Reading(argv0, ordering)[optind] = ReadElement(Before, argv0[optind], ordering)
    BY <1>2, ReadBefore
  <2>3. argv0[optind] = argv[optind]
    BY <1>1, <2>2
  <2>4. ~Before.wrong /\ Before.want = "none" /\ ~Before.ended
    BY <1>0 DEF Progress, Hearing, Stopping
  <2>5. Before' = Reading(argv0, ordering)[optind]
    <3>1. optind' - 1 = optind
      BY <1>0, <2>1
    <3> QED BY <1>0, <3>1 DEF Before
  <2>6. Before' = [Before EXCEPT !.rest = Append(Before.rest, argv[optind]), !.ended = FALSE]
    BY <1>2, <2>2, <2>3, <2>4, <2>5 DEF ReadElement
  <2>7. Heard' = Before' /\ Heard = Before
    BY <1>0 DEF Heard
  <2>8. Before.options = given
    BY <1>0, <2>2, <2>7 DEF Progress, Hearing, Reads
  <2>9. /\ Before' \in Reads /\ ~Before'.wrong /\ Before'.want = "none" /\ ~Before'.ended
        /\ Before'.options = given /\ Before'.rest = Append(Before.rest, argv[optind])
    <3>1. Append(Before.rest, argv[optind]) \in Seq(Elements)
      BY <2>2 DEF Reads
    <3> QED BY <2>2, <2>4, <2>6, <2>8, <3>1 DEF Reads
  <2>10. Hearing'
    <3>1. Before' = [Before' EXCEPT !.options = given']
      BY <1>0, <2>9 DEF Reads
    <3>2. ~Stopping'
      BY <2>1 DEF Stopping
    <3>3. ordering' # "REQUIRE_ORDER"
      BY <1>0, <1>2
    <3> QED BY <2>7, <2>9, <3>1, <3>2, <3>3 DEF Hearing
  <2>11. /\ Final' = argv /\ Start' = first_nonopt /\ End' = optind + 1
         /\ End = optind
    BY <1>0, <1>2, <2>1 DEF Final, Start, End
  <2>12. Holds(argv, first_nonopt, optind + 1, Append(Before.rest, argv[optind]))
    <3>1. Before.rest \in Seq(Elements)
      BY <2>2 DEF Reads
    <3> QED BY <1>0, <1>1, <2>2, <2>11, <3>1, HoldsMore
  <2>13. \A j \in optind'..Len(argv0') : Final'[j] = argv0'[j]
    <3>1. \A j \in optind + 1..Len(argv0) : j \in optind..Len(argv0)
      BY <1>0
    <3> QED BY <1>0, <1>1, <2>1, <2>11, <3>1
  <2>14. Placed'
    BY <2>1, <2>9, <2>11, <2>12, <2>13 DEF Placed
  <2>15. AtOption'
    BY <1>0, <2>1 DEF AtOption
  <2> QED BY <2>10, <2>14, <2>15 DEF Progress
<1>3. CASE ~(ordering = "PERMUTE" /\ optind < argc /\ NONOPTION_P(argv[optind]))
  <2>1. /\ last_nonopt' = IF ordering = "PERMUTE" THEN optind ELSE last_nonopt
        /\ pc' = "element" /\ optind' = optind
    BY <1>3 DEF Skip
  <2>2. Before' = Before /\ Heard' = Heard
    BY <1>0, <2>1, SameReading
  <2>3. Final' = Final /\ Start' = Start /\ End' = End
    BY <1>0, <2>1 DEF Final, Start, End
  <2>4. Placed'
    BY <1>0, <2>1, <2>2, <2>3 DEF Progress, Placed
  <2>5. Hearing'
    BY <1>0, <2>1, <2>2 DEF Progress, Hearing, Stopping
  <2>6. argc' = argc
    BY <1>0 DEF argc
  <2>7. AtOption'
    BY <1>0, <1>3, <2>1, <2>6 DEF AtOption
  <2> QED BY <2>4, <2>5, <2>7 DEF Progress
<1> QED BY <1>2, <1>3

\* "--" ends the options.
LEMMA EndOfOptionsProgress ==
  ASSUME IInv, Progress, EndOfOptions PROVE Progress'
<1>0. /\ pc = "element" /\ nextchar = 0 /\ optind \in Int /\ first_nonopt \in Int
      /\ last_nonopt \in Int /\ 1 <= first_nonopt /\ first_nonopt <= last_nonopt
      /\ last_nonopt <= optind /\ optind < argc /\ argc \in Int
      /\ optind' = optind + 1 /\ argv[optind] = DashDash
      /\ UNCHANGED <<argv, argv0, ordering, nextchar, last_nonopt, given>>
  BY ReadBefore DEF EndOfOptions, AtElement, IInv, GetOptTypeOK, Indices
<1>1. /\ optind \in 1..Len(argv0) /\ Before \in Reads /\ Before.rest \in Seq(Elements)
      /\ Reading(argv0, ordering)[optind] = ReadElement(Before, argv0[optind], ordering)
  BY <1>0, ReadBefore DEF Reads
<1>2. /\ Final = argv /\ Start = first_nonopt /\ End = last_nonopt
  BY <1>0 DEF Final, Start, End
<1>3. /\ Holds(argv, first_nonopt, last_nonopt, Before.rest)
      /\ \A j \in optind..Len(argv0) : argv[j] = argv0[j]
  BY <1>2 DEF Progress, Placed
<1>4. argv0[optind] = DashDash
  BY <1>0, <1>1, <1>3
<1>5. ~Before.wrong /\ Before.want = "none" /\ ~Before.ended
  BY <1>0 DEF Progress, Hearing, Stopping
<1>6. Before' = Reading(argv0, ordering)[optind]
  <2>1. optind' - 1 = optind
    BY <1>0
  <2> QED BY <1>0, <2>1 DEF Before
<1>7. Before' = [Before EXCEPT !.ended = TRUE]
  <2>1. ~NONOPTION_P(DashDash)
    BY DEF NONOPTION_P, DashDash, Long, Element
  <2> QED BY <1>1, <1>4, <1>5, <1>6, <2>1 DEF ReadElement
<1>8. Heard' = Before' /\ Heard = Before
  BY <1>0 DEF Heard
<1>9. Before.options = given
  BY <1>1, <1>8 DEF Progress, Hearing, Reads
<1>10. /\ Before' \in Reads /\ ~Before'.wrong /\ Before'.want = "none" /\ Before'.ended
       /\ Before'.options = given /\ Before'.rest = Before.rest
  BY <1>1, <1>5, <1>7, <1>9 DEF Reads
<1>11. Stopping'
  BY DEF EndOfOptions, Exchange, Stopping
<1>12. Hearing'
  <2>1. Before' = [Before' EXCEPT !.options = given']
    BY <1>0, <1>10 DEF Reads
  <2> QED BY <1>0, <1>8, <1>10, <1>11, <2>1 DEF Hearing, Progress
<1>13. AtOption'
  BY <1>0 DEF EndOfOptions, Exchange, AtOption
<1>14. Placed'
  <2>1. CASE first_nonopt # last_nonopt /\ last_nonopt # optind + 1
    <3>1. Exchange(optind + 1, "stop") /\ UNCHANGED first_nonopt
      BY <2>1 DEF EndOfOptions
    <3>2. /\ optind + 1 \in Int /\ last_nonopt <= optind + 1 /\ optind + 1 <= argc
          /\ optind <= optind + 1 /\ pc # "exchange"
      BY <1>0
    <3> QED BY <1>0, <1>1, <1>2, <1>10, <3>1, <3>2, ExchangeProgress DEF Progress
  <2>2. CASE ~(first_nonopt # last_nonopt /\ last_nonopt # optind + 1)
    <3>1. first_nonopt = last_nonopt /\ first_nonopt' = optind + 1 /\ pc' = "stop"
      BY <1>0, <2>2 DEF EndOfOptions
    <3>2. Final' = argv /\ Start' = optind + 1 /\ End' = optind + 1
      BY <1>0, <3>1 DEF Final, Start, End
    <3>3. Len(Before.rest) = 0
      BY <1>0, <1>3, <3>1 DEF Holds
    <3>4. Holds(argv, optind + 1, optind + 1, Before.rest)
      BY <1>0, <3>3 DEF Holds
    <3>5. \A j \in optind'..Len(argv0') : Final'[j] = argv0'[j]
      <4>1. \A j \in optind + 1..Len(argv0) : j \in optind..Len(argv0)
        BY <1>0
      <4> QED BY <1>0, <1>3, <3>2, <4>1
    <3> QED BY <1>10, <3>1, <3>2, <3>4, <3>5 DEF Placed
  <2> QED BY <2>1, <2>2
<1> QED BY <1>12, <1>13, <1>14 DEF Progress

\* Another call goes on where the last one stopped.
LEMMA CallProgress ==
  ASSUME IInv, Progress, getopt_long PROVE Progress'
<1>0. /\ pc = "returned" /\ pc' = IF nextchar = 0 THEN "advance" ELSE "short"
      /\ UNCHANGED <<argv, argv0, ordering, optind, nextchar, given, first_nonopt, last_nonopt>>
  BY DEF getopt_long
<1>1. Before' = Before /\ Heard' = Heard
  BY <1>0, SameReading
<1>2. Final' = Final /\ Start' = Start /\ End' = End
  BY <1>0 DEF Final, Start, End
<1>3. Placed' /\ Hearing' /\ AtOption'
  BY <1>0, <1>1, <1>2 DEF Progress, Placed, Hearing, AtOption, Stopping
<1> QED BY <1>3 DEF Progress

-----------------------------------------------------------------------------
(* The end of the options.                                                 *)

\* Sequences are the same if their elements are.
LEMMA SameSeq ==
  ASSUME NEW S, NEW s \in Seq(S), NEW t \in Seq(S), Len(s) = Len(t),
         \A i \in 1..Len(s) : s[i] = t[i]
  PROVE  s = t
OBVIOUS

\* What is behind optind is what is no option, if the reading comes to it.
LEMMA RestHeld ==
  ASSUME NEW list \in Seq(Elements), NEW v \in Seq(Elements), Len(v) = Len(list),
         NEW a \in Int, NEW b \in Int, 1 <= a, a <= b, b <= Len(list) + 1,
         NEW r \in Seq(Elements), NEW s \in Seq(Elements), Holds(v, a, b, r),
         \A j \in b..Len(list) : v[j] = list[j],
         NEW k \in Nat, k = b - 1, Continues(r, s, list, k)
  PROVE  SubSeq(v, a, Len(list)) = s
<1> DEFINE n == Len(list)
           w == SubSeq(v, a, n)
<1>1. n \in Nat /\ Len(r) \in Nat /\ Len(r) = b - a /\ Len(s) = n + 1 - a
  BY DEF Holds, Continues
<1>2. /\ w \in Seq(Elements) /\ Len(w) = n + 1 - a
      /\ \A i \in 1..n + 1 - a : w[i] = v[a + i - 1]
  BY <1>1
<1> HIDE DEF w
<1>3. ASSUME NEW i \in 1..n + 1 - a PROVE v[a + i - 1] = s[i]
  <2>1. CASE i \in 1..Len(r)
    BY <2>1 DEF Holds, Continues
  <2>2. CASE i \notin 1..Len(r)
    <3> DEFINE j == a + i - 1
    <3>1. j \in b..n /\ j \in k + 1..n /\ Len(r) + (j - k) = i
      BY <1>1, <2>2
    <3> QED BY <3>1 DEF Continues
  <2> QED BY <2>1, <2>2
<1>4. w = s
  <2>1. Len(w) = Len(s) /\ \A i \in 1..Len(w) : w[i] = s[i]
    BY <1>1, <1>2, <1>3
  <2> QED BY <1>2, <2>1, SameSeq
<1> QED BY <1>4 DEF w

\* The last call, when what was read is what the arguments say.
LEMMA DoneRight ==
  ASSUME NEW list \in Seq(Elements), NEW ord, NEW v,
         ~Reading(list, ord)[Len(list)].wrong,
         Reading(list, ord)[Len(list)].want = "none",
         Len(v)= Len(list),
         argv' = v, argv0' = list, ordering' = ord, opt' = Done,
         given' = Reading(list, ord)[Len(list)].options,
         SubSeq(v, optind', Len(list)) = Reading(list, ord)[Len(list)].rest
  PROVE  OptionsRight'
<1> DEFINE all == Reading(list, ord)[Len(list)]
           said == Said(list, ord)
<1>1. all \in Reads /\ Len(list) \in Nat
  BY ReadingRead DEF IsRead
<1>2. ~all.wrong /\ all.want = "none" /\ given' = all.options
  OBVIOUS
<1>3. said = [all EXCEPT !.wrong = all.wrong \/ all.want # "none"]
  BY DEF Said
<1>4. SubSeq(v, optind', Len(list)) = all.rest
  OBVIOUS
<1> HIDE DEF all, said
<1>5. said.options = all.options /\ said.rest = all.rest /\ ~said.wrong
  BY <1>1, <1>2, <1>3 DEF Reads
<1>6. IsPrefix(given', said.options)
  BY <1>1, <1>2, <1>5, PrefixSelf DEF Reads
<1>7. argc' - 1 = Len(list)
  BY <1>1 DEF argc
<1>8. opt' # Error
  BY DEF Done, Error, Option
<1> QED BY <1>2, <1>4, <1>5, <1>6, <1>7, <1>8 DEF OptionsRight, said

\* Behind "--" nothing is an option: what was given is all there is.
LEMMA StopRight ==
  ASSUME IInv, Progress, Stop PROVE OptionsRight'
<1> DEFINE N == Len(argv0)
           all == Reading(argv0, ordering)[N]
           k == optind - 1
<1>0. /\ pc = "stop" /\ nextchar = 0 /\ optind \in Int /\ first_nonopt \in Int
      /\ 1 <= first_nonopt /\ first_nonopt <= argc
      /\ pc' = "returned" /\ opt' = Done /\ given' = given /\ optind' = first_nonopt
      /\ UNCHANGED <<argv, argv0, ordering>>
  BY DEF Stop, Return, IInv, GetOptTypeOK
<1>1. /\ N \in Nat /\ Len(argv) = N /\ argc = N + 1 /\ k \in 0..N /\ optind <= N + 1
      /\ Before \in Reads /\ all \in Reads
      /\ argv0 \in Seq(Elements) /\ argv \in Seq(Elements)
      /\ Before.rest \in Seq(Elements) /\ all.rest \in Seq(Elements)
  BY ReadBefore DEF IInv, Reads
<1>2. /\ ~Before.wrong /\ Before.want = "none" /\ Before.ended /\ Before.options = given
  BY <1>0, <1>1 DEF Progress, Hearing, Stopping, Heard, Reads
<1>3. /\ all.options = Before.options /\ ~all.wrong /\ all.want = "none"
      /\ Continues(Before.rest, all.rest, argv0, k)
  <2>1. Before = Reading(argv0, ordering)[k] /\ Len(Before.rest) \in Nat
    BY <1>1 DEF Before
  <2>2. /\ argv0 \in Seq(Elements) /\ k \in 0..Len(argv0)
        /\ all = Reading(argv0, ordering)[Len(argv0)]
    BY <1>1
  <2>3. Before.ended /\ ~Before.wrong /\ Before.want = "none"
    BY <1>2
  <2> HIDE DEF k, all, N
  <2> QED BY <2>1, <2>2, <2>3, EndedReads
<1>4. /\ Holds(argv, first_nonopt, optind, Before.rest)
      /\ \A j \in optind..N : argv[j] = argv0[j]
  BY <1>0 DEF Progress, Placed, Final, Start, End
<1>5. first_nonopt <= optind
  <2>1. optind - first_nonopt = Len(Before.rest) /\ Len(Before.rest) \in Nat
    BY <1>1, <1>4 DEF Holds
  <2> QED BY <1>0, <2>1
<1>6. SubSeq(argv, first_nonopt, N) = all.rest
  <2>1. /\ k = optind - 1 /\ k \in Nat /\ Len(argv) = Len(argv0) /\ optind <= Len(argv0) + 1
        /\ \A j \in optind..Len(argv0) : argv[j] = argv0[j]
    BY <1>1, <1>4
  <2>2. /\ argv0 \in Seq(Elements) /\ argv \in Seq(Elements)
        /\ Before.rest \in Seq(Elements) /\ all.rest \in Seq(Elements)
    BY <1>1
  <2>3. /\ Holds(argv, first_nonopt, optind, Before.rest)
        /\ Continues(Before.rest, all.rest, argv0, k)
    BY <1>3, <1>4
  <2>4. first_nonopt \in Int /\ optind \in Int /\ 1 <= first_nonopt
    BY <1>0
  <2> HIDE DEF k, all
  <2> QED BY <1>5, <2>1, <2>2, <2>3, <2>4, RestHeld
<1> QED BY <1>0, <1>1, <1>2, <1>3, <1>6, DoneRight

\* The scan comes to the end of argv: what was given is all there is.
LEMMA EndOfArgumentsRight ==
  ASSUME IInv, Progress, EndOfArguments PROVE OptionsRight'
<1> DEFINE N == Len(argv0)
           all == Reading(argv0, ordering)[N]
<1>0. /\ pc = "element" /\ nextchar = 0 /\ optind = argc /\ first_nonopt \in Int
      /\ last_nonopt \in Int /\ 1 <= first_nonopt /\ first_nonopt <= argc
      /\ opt' = Done /\ given' = given
      /\ optind' = (IF first_nonopt # last_nonopt THEN first_nonopt ELSE optind)
      /\ UNCHANGED <<argv, argv0, ordering>>
  BY DEF EndOfArguments, Return, IInv, GetOptTypeOK
<1>1. /\ N \in Nat /\ Len(argv) = N /\ argc = N + 1 /\ ordering \in AllOrderings
      /\ Before \in Reads /\ argv0 \in Seq(Elements) /\ argv \in Seq(Elements)
      /\ Before.rest \in Seq(Elements)
  BY ReadBefore DEF IInv, Reads
<1>2. Before = all
  <2>1. optind - 1 = N
    BY <1>0, <1>1
  <2> QED BY <2>1 DEF Before
<1>3. /\ ~all.wrong /\ all.want = "none" /\ all.options = given
      /\ ordering = "REQUIRE_ORDER" => all.rest = <<>>
  BY <1>0, <1>1, <1>2 DEF Progress, Hearing, Heard, Reads
<1>4. /\ Holds(argv, first_nonopt, last_nonopt, all.rest)
      /\ ordering = "PERMUTE" => last_nonopt = optind
  BY <1>0, <1>2 DEF Progress, Placed, AtOption, Final, Start, End
<1>5. SubSeq(argv, optind', N) = all.rest
  <2>1. CASE ordering = "PERMUTE"
    <3>1. optind' = first_nonopt /\ last_nonopt = N + 1
      BY <1>0, <1>1, <1>4, <2>1
    <3>2. Continues(all.rest, all.rest, argv0, N)
      BY <1>1, <1>2 DEF Continues
    <3>3. \A j \in N + 1..Len(argv0) : argv[j] = argv0[j]
      BY <1>1
    <3>4. /\ first_nonopt <= N + 1 /\ N + 1 \in Int /\ N + 1 <= Len(argv0) + 1
          /\ N = (N + 1) - 1 /\ 1 <= first_nonopt /\ first_nonopt \in Int
      BY <1>0, <1>1
    <3>5. /\ Holds(argv, first_nonopt, N + 1, all.rest) /\ all.rest \in Seq(Elements)
      BY <1>1, <1>2, <1>4, <3>1
    <3>6. /\ argv0 \in Seq(Elements) /\ argv \in Seq(Elements) /\ Len(argv) = Len(argv0)
          /\ N \in Nat
      BY <1>1
    <3>7. N = Len(argv0)
      OBVIOUS
    <3> HIDE DEF N, all
    <3>8. SubSeq(argv, first_nonopt, Len(argv0)) = all.rest
      BY <3>2, <3>3, <3>4, <3>5, <3>6, RestHeld
    <3> QED BY <3>1, <3>7, <3>8
  <2>2. CASE ordering # "PERMUTE"
    <3>1. all.rest = <<>>
      BY <1>1, <1>3, <2>2 DEF AllOrderings
    <3>2. first_nonopt = last_nonopt
      BY <1>0, <1>4, <3>1 DEF Holds
    <3>3. optind' = N + 1
      BY <1>0, <1>1, <3>2
    <3>4. SubSeq(argv, N + 1, N) = <<>>
      BY <1>1
    <3> QED BY <3>1, <3>3, <3>4
  <2> QED BY <2>1, <2>2
<1> QED BY <1>0, <1>1, <1>3, <1>5, DoneRight

\* The first element that is no option, and all that follows.
LEMMA NonOptionRight ==
  ASSUME IInv, Progress, NonOption PROVE OptionsRight'
<1> DEFINE N == Len(argv0)
           all == Reading(argv0, ordering)[N]
           r == Reading(argv0, ordering)[optind]
           e == argv[optind]
<1>0. /\ pc = "element" /\ nextchar = 0 /\ optind # argc /\ NONOPTION_P(e)
      /\ opt' = Done /\ given' = given /\ optind' = optind
      /\ UNCHANGED <<argv, argv0, ordering>>
  BY DEF NonOption, AtElement, Return, IInv
<1>1. /\ N \in Nat /\ Len(argv) = N /\ argc = N + 1 /\ ordering \in AllOrderings
      /\ optind \in 1..N /\ e \in Elements
      /\ r = ReadElement(Before, argv0[optind], ordering)
      /\ Before \in Reads /\ all \in Reads
      /\ argv0 \in Seq(Elements) /\ argv \in Seq(Elements)
      /\ Before.rest \in Seq(Elements)
  <2>1. optind \in 1..argc /\ argc = N + 1 /\ N \in Nat
    BY ReadBefore
  <2>2. optind < argc
    BY <1>0, <2>1
  <2> QED BY <2>1, <2>2, ReadBefore DEF IInv, Reads
<1>2. ordering = "REQUIRE_ORDER"
  <2>1. optind < argc
    BY <1>1
  <2> QED BY <1>0, <1>1, <2>1 DEF Progress, AtOption, AllOrderings
<1>3. /\ ~Before.wrong /\ Before.want = "none" /\ Before.options = given
      /\ Before.rest = <<>> /\ ~Before.ended
  BY <1>0, <1>1, <1>2 DEF Progress, Hearing, Heard, Stopping, Reads
<1>4. \A j \in optind..N : argv[j] = argv0[j]
  BY <1>0 DEF Progress, Placed, Final
<1>5. r = [Before EXCEPT !.rest = Append(Before.rest, e), !.ended = TRUE]
  <2>1. argv0[optind] = e
    BY <1>1, <1>4
  <2> QED BY <1>0, <1>1, <1>2, <1>3, <2>1 DEF ReadElement
<1>6. /\ ~r.wrong /\ r.want = "none" /\ r.options = given /\ r.ended
      /\ r.rest = Append(Before.rest, e)
  BY <1>1, <1>3, <1>5 DEF Reads
<1>7. r.rest \in Seq(Elements) /\ Len(r.rest) \in Nat /\ all.rest \in Seq(Elements)
  BY <1>1, <1>6 DEF Reads
<1>8. /\ all.options = r.options /\ ~all.wrong /\ all.want = "none"
      /\ Continues(r.rest, all.rest, argv0, optind)
  <2>1. /\ argv0 \in Seq(Elements) /\ optind \in 0..Len(argv0)
        /\ r = Reading(argv0, ordering)[optind]
        /\ all = Reading(argv0, ordering)[Len(argv0)]
    BY <1>1
  <2>2. r.ended /\ ~r.wrong /\ r.want = "none" /\ Len(r.rest) \in Nat
    BY <1>6, <1>7
  <2> HIDE DEF r, all
  <2> QED BY <2>1, <2>2, EndedReads
<1>9. Holds(argv, optind, optind + 1, r.rest)
  <2>1. Holds(argv, optind, optind, Before.rest)
    BY <1>1, <1>3 DEF Holds
  <2>2. optind \in Int
    BY <1>1
  <2> QED BY <1>1, <1>6, <2>1, <2>2, HoldsMore
<1>10. SubSeq(argv, optind, Len(argv0)) = all.rest
  <2> DEFINE next == optind + 1
  <2>1. /\ optind = next - 1 /\ optind \in Nat /\ next \in Int /\ optind \in Int
        /\ 1 <= optind /\ optind <= next /\ next <= Len(argv0) + 1
        /\ Len(argv) = Len(argv0) /\ argv0 \in Seq(Elements) /\ argv \in Seq(Elements)
    BY <1>1
  <2>2. \A j \in next..Len(argv0) : argv[j] = argv0[j]
    BY <1>1, <1>4
  <2>3. Holds(argv, optind, next, r.rest)
    BY <1>9
  <2> HIDE DEF r, all, next
  <2> QED BY <1>7, <1>8, <2>1, <2>2, <2>3, RestHeld
<1> QED BY <1>0, <1>1, <1>6, <1>8, <1>10, DoneRight

-----------------------------------------------------------------------------
(* The options.                                                            *)

\* An option is none of the other results of getopt_long.
LEMMA OptionGiven ==
  ASSUME NEW val \in Vals, NEW arg PROVE Option(val, arg) \notin {Done, Error}
BY DEF Vals, required_argument, no_argument, Option, Done, Error

\* Once there is a mistake it stays, and getopt_long may report it.
LEMMA MistakeRight ==
  ASSUME IInv, Progress, pc' = "returned", opt' = Error, given' = given,
         UNCHANGED <<argv0, ordering>>,
         NEW n \in 0..Len(argv0),
         \/ Reading(argv0, ordering)[n].wrong
         \/ n = Len(argv0) /\ Reading(argv0, ordering)[n].want # "none"
  PROVE  OptionsRight'
<1> DEFINE r == Reading(argv0, ordering)[n]
           all == Reading(argv0, ordering)[Len(argv0)]
           said == Said(argv0, ordering)
<1>1. /\ argv0 \in Seq(Elements) /\ all \in Reads /\ Len(argv0) \in Nat
      /\ n \in 0..Len(argv0) /\ Len(argv0) \in n..Len(argv0)
  BY ReadBefore DEF IInv
<1>2. r.wrong => all.wrong
  BY <1>1, ReadingRead DEF Onward
<1>3. said = [all EXCEPT !.wrong = all.wrong \/ all.want # "none"]
  BY DEF Said
<1>4. r.wrong \/ (n = Len(argv0) /\ r.want # "none")
  OBVIOUS
<1>5. n = Len(argv0) => r = all
  OBVIOUS
<1> HIDE DEF r, all, said
<1>6. said.wrong
  BY <1>1, <1>2, <1>3, <1>4, <1>5 DEF Reads
<1>7. IsPrefix(given', said.options)
  BY GivenSaid DEF said
<1>8. opt' # Done
  BY DEF Done, Error, Option
<1> QED BY <1>6, <1>7, <1>8 DEF OptionsRight, said

\* An option was returned that the arguments say there.
LEMMA NextProgress ==
  ASSUME IInv, Progress, OptionFrame, pc \in {"element", "short"}, pc' = "returned",
         optind' \in Int, optind <= optind', ~Before'.wrong, Before'.want = "none",
         ~Before'.ended, Before'.rest = Before.rest,
         Heard' = [Before' EXCEPT !.options = given'],
         nextchar' > 0 => argv[optind'].dash = 1
  PROVE  Progress'
<1>0. UNCHANGED <<argv, ordering, first_nonopt, last_nonopt, argv0>>
  BY DEF OptionFrame
<1>1. /\ Final = argv /\ Final' = argv /\ Start' = Start /\ End' = End
  BY <1>0 DEF Final, Start, End
<1>2. \A j \in optind'..Len(argv0') : Final'[j] = argv0'[j]
  <2>1. optind \in Int
    BY DEF IInv
  <2>2. \A j \in optind'..Len(argv0) : j \in optind..Len(argv0)
    BY <2>1
  <2> QED BY <1>0, <1>1, <2>2 DEF Progress, Placed
<1>3. Placed'
  BY <1>1, <1>2 DEF Progress, Placed
<1>4. Hearing'
  BY <1>0 DEF Progress, Hearing, Stopping
<1>5. AtOption'
  BY <1>0 DEF AtOption
<1> QED BY <1>3, <1>4, <1>5 DEF Progress

\* The option that is heard ends at optind.
LEMMA WholeProgress ==
  ASSUME IInv, Progress, OptionFrame, pc \in {"element", "short"}, pc' = "returned",
         nextchar' = 0, optind < argc, NEW o \in Opts,
         NEW n \in 0..Len(argv0), optind <= n, optind' = n + 1,
         Reading(argv0, ordering)[n] = [Heard EXCEPT !.options = Append(given, o)],
         given' = Append(given, o)
  PROVE  Progress'
<1>1. /\ Before \in Reads /\ Heard \in Reads /\ Heard = [Before EXCEPT !.options = given]
      /\ ~Before.wrong /\ Before.want = "none" /\ ~Before.ended /\ optind \in Int
  BY ReadBefore, GivenSaid DEF Progress, Hearing, Stopping, IInv
<1>2. Before' = Reading(argv0, ordering)[n]
  <2>1. optind' - 1 = n
    OBVIOUS
  <2> QED BY <2>1 DEF Before, OptionFrame
<1>3. Heard' = Before'
  BY DEF Heard
<1>4. given \in Seq(Opts) /\ Append(given, o) \in Seq(Opts)
  BY GivenSaid
<1>5. Before' = [Heard EXCEPT !.options = Append(given, o)]
  BY <1>2
<1>6. /\ ~Before'.wrong /\ Before'.want = "none" /\ ~Before'.ended
      /\ Before'.rest = Before.rest /\ Heard' = [Before' EXCEPT !.options = given']
  BY <1>1, <1>3, <1>4, <1>5 DEF Reads
<1>7. optind' \in Int /\ optind <= optind' /\ ~(nextchar' > 0)
  BY <1>1
<1> QED BY <1>6, <1>7, NextProgress

\* An option with an argument, which is the text or the next element.
LEMMA TakenProgress ==
  ASSUME IInv, Progress, OptionFrame, pc \in {"element", "short"},
         nextchar' = 0, optind < argc, NEW val \in required_argument, NEW text \in Seq(STRING),
         Reading(argv0, ordering)[optind] = Give(Heard, val, text),
         TakeArgument(val, text, optind + 1)
  PROVE  Prog'
<1>0. /\ Len(argv0) \in Nat /\ Len(argv) = Len(argv0) /\ argc = Len(argv0) + 1
      /\ optind \in 1..Len(argv0) /\ UNCHANGED <<argv, argv0, ordering>>
  BY ReadBefore DEF OptionFrame
<1>1. Heard \in Reads /\ Heard.options = given /\ val \in Vals /\ given \in Seq(Opts)
  BY GivenSaid DEF Vals
<1>2. Heard = [Before EXCEPT !.options = given] /\ Before \in Reads
  BY ReadBefore DEF Progress, Hearing
<1>3. ~Before.wrong /\ Before.want = "none" /\ ~Before.ended
  BY DEF Progress, Hearing, Stopping
<1>4. CASE text # <<>>
  <2> DEFINE o == Option(val, Plain(text))
  <2>1. opt' = o /\ o \notin {Done, Error} /\ pc' = "returned" /\ optind' = optind + 1
        /\ given' = Append(given, o)
    BY <1>1, <1>4, OptionGiven DEF TakeArgument, Return
  <2>2. o \in Opts
    <3>1. Plain(text) \in Elements
      BY DEF Plain, Element, Elements, WellFormed
    <3> QED BY <1>1, <3>1 DEF Option, Opts
  <2>3. Reading(argv0, ordering)[optind] = [Heard EXCEPT !.options = Append(given, o)]
    BY <1>1, <1>4 DEF Give
  <2> HIDE DEF o
  <2>4. optind \in 0..Len(argv0) /\ optind <= optind
    BY <1>0
  <2>5. Progress'
    BY <2>1, <2>2, <2>3, <2>4, WholeProgress
  <2> QED BY <2>1, <2>5 DEF Prog, Over
<1>5. CASE text = <<>> /\ optind + 1 = argc
  <2>1. opt' = Error /\ pc' = "returned" /\ given' = given
    BY <1>5 DEF TakeArgument, Return
  <2>2. Reading(argv0, ordering)[optind] = [Heard EXCEPT !.want = val]
    BY <1>5 DEF Give
  <2>3. val # "none"
    BY DEF required_argument
  <2>4. optind \in 0..Len(argv0) /\ optind = Len(argv0)
    BY <1>0, <1>5
  <2>5. Reading(argv0, ordering)[optind].want # "none"
    BY <1>1, <2>2, <2>3 DEF Reads
  <2>6. OptionsRight'
    BY <1>0, <2>1, <2>4, <2>5, MistakeRight
  <2> QED BY <2>1, <2>6 DEF Prog, Over
<1>6. CASE text = <<>> /\ optind + 1 # argc
  <2> DEFINE e == argv[optind + 1]
             o == Option(val, e)
             n == optind + 1
  <2>1. /\ opt' = o /\ o \notin {Done, Error} /\ pc' = "returned" /\ optind' = n + 1
        /\ given' = Append(given, o)
    BY <1>1, <1>6, OptionGiven DEF TakeArgument, Return
  <2>2. n \in 1..Len(argv0) /\ n \in 0..Len(argv0) /\ n - 1 = optind /\ optind <= n
    BY <1>0, <1>6
  <2>3. e \in Elements
    BY <1>0, <2>2 DEF IInv
  <2>4. o \in Opts
    BY <1>1, <2>3 DEF Option, Opts
  <2>5. argv0[n] = e
    <3>1. n \in optind..Len(argv0) /\ pc # "exchange"
      BY <1>0, <2>2
    <3> QED BY <3>1 DEF Progress, Placed, Final
  <2>6. Reading(argv0, ordering)[n]
          = ReadElement(Reading(argv0, ordering)[optind], e, ordering)
    BY <1>0, <2>2, <2>5, ReadingSteps
  <2>7. Reading(argv0, ordering)[optind] = [Heard EXCEPT !.want = val]
    BY <1>6 DEF Give
  <2>8. val # "none"
    BY DEF required_argument
  <2> DEFINE r == Reading(argv0, ordering)[optind]
  <2>9. r.want = val /\ ~r.wrong /\ r.options = given
    BY <1>1, <1>2, <1>3, <2>7 DEF Reads
  <2>10. Reading(argv0, ordering)[n] = [r EXCEPT !.want = "none",
                                                 !.options = Append(given, o)]
    BY <2>6, <2>8, <2>9 DEF ReadElement
  <2>11. Reading(argv0, ordering)[n] = [Heard EXCEPT !.options = Append(given, o)]
    <3>1. Heard.want = "none"
      BY <1>2, <1>3 DEF Reads
    <3> QED BY <1>1, <2>7, <2>10, <3>1 DEF Reads
  <2> HIDE DEF o, n
  <2>12. Progress'
    BY <2>1, <2>2, <2>4, <2>11, WholeProgress
  <2> QED BY <2>1, <2>12 DEF Prog, Over
<1> QED BY <1>4, <1>5, <1>6

\* A long option is given as the reference reads it, or the mistake is reported.
LEMMA LongProg ==
  ASSUME IInv, Progress, process_long_option PROVE Prog'
<1> DEFINE e == argv[optind]
           found == Matches(e.name)
           val == (CHOOSE o \in found : TRUE).val
           bad == Cardinality(found) # 1 \/ (val \notin required_argument /\ e.text # <<>>)
<1>0. /\ pc = "element" /\ optind # argc /\ e.dash = 2 /\ e # DashDash /\ nextchar' = 0
      /\ nextchar = 0 /\ OptionFrame
      /\ IF bad THEN Return(Error) /\ optind' = optind + 1
         ELSE IF val \in required_argument THEN TakeArgument(val, e.text, optind + 1)
         ELSE Return(Option(val, NULL)) /\ optind' = optind + 1
  BY DEF process_long_option, AtElement, IInv
<1>1. /\ optind < argc /\ optind \in 1..Len(argv0) /\ e \in Elements /\ Before \in Reads
      /\ optind \in 0..Len(argv0) /\ Len(argv0) \in Nat
      /\ Reading(argv0, ordering)[optind] = ReadElement(Before, argv0[optind], ordering)
  <2>1. optind \in 1..argc /\ Len(argv0) \in Nat /\ argc = Len(argv0) + 1
    BY ReadBefore
  <2>2. optind < argc
    BY <1>0, <2>1
  <2> QED BY <2>1, <2>2, ReadBefore
<1>2. argv0[optind] = e
  BY <1>0, <1>1 DEF Progress, Placed, Final
<1>3. ~Before.wrong /\ Before.want = "none" /\ ~Before.ended /\ Heard = Before
  BY <1>0 DEF Progress, Hearing, Stopping, Heard
<1>4. Reading(argv0, ordering)[optind] = ReadName(Heard, e)
  BY <1>0, <1>1, <1>2, <1>3 DEF ReadElement, NONOPTION_P
<1>5. ReadName(Heard, e) = IF bad THEN Wrong(Heard) ELSE Give(Heard, val, e.text)
  <2> DEFINE begin == {o \in LONG_OPTS : IsPrefix(e.name, o.name)}
  <2>1. begin = found
    BY MatchesBegin
  <2>2. ReadName(Heard, e)
          = IF Cardinality(begin) # 1
               \/ ((CHOOSE o \in begin : TRUE).val \notin required_argument /\ e.text # <<>>)
            THEN Wrong(Heard) ELSE Give(Heard, (CHOOSE o \in begin : TRUE).val, e.text)
    BY DEF ReadName
  <2> HIDE DEF begin
  <2> QED BY <2>1, <2>2
<1>6. e.text \in Seq(STRING)
  BY <1>1 DEF Elements
<1>7. ~bad => val \in Vals
  <2>1. found \in SUBSET LONG_OPTS
    BY MatchesBegin
  <2> HIDE DEF found
  <2> QED BY <2>1, NameVal
<1> HIDE DEF bad, val, e
<1>8. CASE bad
  <2>1. opt' = Error /\ pc' = "returned" /\ given' = given
    BY <1>0, <1>8 DEF Return
  <2>2. Reading(argv0, ordering)[optind].wrong
    BY <1>1, <1>3, <1>4, <1>5, <1>8, WrongReads DEF IsRead
  <2>3. OptionsRight'
    BY <1>0, <1>1, <2>1, <2>2, MistakeRight DEF OptionFrame
  <2> QED BY <2>1, <2>3 DEF Prog, Over
<1>9. CASE ~bad /\ val \in required_argument
  <2>1. TakeArgument(val, e.text, optind + 1)
    BY <1>0, <1>9
  <2>2. Reading(argv0, ordering)[optind] = Give(Heard, val, e.text)
    BY <1>4, <1>5, <1>9
  <2> QED BY <1>0, <1>1, <1>6, <1>9, <2>1, <2>2, TakenProgress
<1>10. CASE ~bad /\ val \notin required_argument
  <2> DEFINE o == Option(val, NULL)
  <2>1. /\ opt' = o /\ o \notin {Done, Error} /\ pc' = "returned" /\ optind' = optind + 1
        /\ given' = Append(given, o)
    BY <1>0, <1>7, <1>10, OptionGiven DEF Return
  <2>2. o \in Opts
    BY <1>7, <1>10 DEF Option, Opts
  <2>3. Heard.options = given
    BY GivenSaid
  <2>4. Reading(argv0, ordering)[optind] = [Heard EXCEPT !.options = Append(given, o)]
    BY <1>4, <1>5, <1>10, <2>3 DEF Give
  <2> HIDE DEF o
  <2>5. optind <= optind
    BY <1>1
  <2>6. Progress'
    BY <1>0, <1>1, <2>1, <2>2, <2>4, <2>5, WholeProgress
  <2> QED BY <2>1, <2>6 DEF Prog, Over
<1> QED BY <1>8, <1>9, <1>10

\* The letters of a well-formed element: one with an argument is the last.
LEMMA ShortProg ==
  ASSUME IInv, Progress, process_short_option PROVE Prog'
<1> DEFINE e == argv[optind]
           len == Len(e.letters)
           c == e.letters[nextchar + 1]
           L == ReadLetters(Before, e)
           to == IF nextchar + 1 = len THEN optind + 1 ELSE optind
<1>0. /\ pc \in {"element", "short"} /\ OptionFrame
      /\ pc = "element" => optind # argc /\ e.dash = 1 /\ nextchar = 0 /\ ~NONOPTION_P(e)
      /\ pc = "short" => nextchar > 0
      /\ IF c \in required_argument THEN TakeArgument(c, e.text, to) /\ nextchar' = 0
         ELSE /\ Return(IF c \in no_argument THEN Option(c, NULL) ELSE Error)
              /\ optind' = to
              /\ nextchar' = IF nextchar + 1 = len THEN 0 ELSE nextchar + 1
  BY DEF process_short_option, AtElement, IInv
<1>1. /\ optind < argc /\ optind \in 1..Len(argv0) /\ e \in Elements /\ Before \in Reads
      /\ optind \in 0..Len(argv0) /\ Len(argv0) \in Nat /\ optind \in Int
      /\ Reading(argv0, ordering)[optind] = ReadElement(Before, argv0[optind], ordering)
  <2>1. optind \in 1..argc /\ Len(argv0) \in Nat /\ argc = Len(argv0) + 1
    BY ReadBefore
  <2>2. optind < argc
    BY <1>0, <2>1 DEF IInv, GetOptTypeOK
  <2> QED BY <2>1, <2>2, ReadBefore
<1>2. argv0[optind] = e
  BY <1>0, <1>1 DEF Progress, Placed, Final
<1>3. ~Before.wrong /\ Before.want = "none" /\ ~Before.ended
  BY <1>0 DEF Progress, Hearing, Stopping
<1>4. /\ e.letters \in Seq(STRING) /\ e.text \in Seq(STRING) /\ len \in Nat /\ e.dash = 1
      /\ nextchar \in Nat /\ nextchar < len
  <2>1. e.letters \in Seq(STRING) /\ e.text \in Seq(STRING) /\ nextchar \in Nat
    BY <1>1 DEF Elements, IInv
  <2>2. CASE pc = "element"
    BY <1>0, <1>1, <2>1, <2>2, HasLetter
  <2>3. CASE pc = "short"
    BY <1>0, <2>1, <2>3 DEF IInv, GetOptTypeOK, Progress, AtOption
  <2> QED BY <1>0, <2>1, <2>2, <2>3
<1>5. Reading(argv0, ordering)[optind] = L[len]
  <2>1. ~NONOPTION_P(e) /\ e # DashDash
    <3>1. e.letters # <<>>
      BY <1>4
    <3> QED BY <1>4, <3>1 DEF NONOPTION_P, DashDash, Long, Element
  <2> QED BY <1>1, <1>2, <1>3, <1>4, <2>1 DEF ReadElement
<1>6. Heard = L[nextchar]
  BY <1>1, <1>2, <1>4, LettersSteps DEF Heard
<1>7. L[nextchar + 1] = ReadLetter(Heard, c, e.text)
  <2>1. nextchar + 1 \in 1..len /\ (nextchar + 1) - 1 = nextchar
    BY <1>4
  <2>2. \A n \in 1..len : L[n] = ReadLetter(L[n - 1], e.letters[n], e.text)
    BY <1>4, LettersSteps
  <2>3. L[nextchar + 1] = ReadLetter(L[(nextchar + 1) - 1], c, e.text)
    BY <2>1, <2>2, Zenon
  <2> QED BY <1>6, <2>1, <2>3
<1>8. /\ Heard \in Reads /\ Heard.options = given /\ given \in Seq(Opts)
      /\ Heard = [Before EXCEPT !.options = given]
  BY GivenSaid DEF Progress, Hearing
<1>9. ~Heard.wrong /\ Heard.want = "none" /\ ~Heard.ended /\ Heard.rest = Before.rest
  BY <1>1, <1>3, <1>8 DEF Reads
<1>10. Onward(L[nextchar + 1], L[len])
  <2>1. nextchar + 1 \in 0..len /\ len \in nextchar + 1..len
    BY <1>4
  <2> QED BY <1>1, <2>1, LettersRead DEF IsRead
<1>11. c \in required_argument => nextchar + 1 = len
  <2>1. WellFormed(e)
    BY <1>1 DEF Elements
  <2>2. nextchar + 1 # len => nextchar + 1 \in 1..len - 1
    BY <1>4
  <2> QED BY <1>4, <2>1, <2>2 DEF WellFormed
<1> HIDE DEF c, len, L
<1>12. CASE c \in required_argument
  <2>1. TakeArgument(c, e.text, optind + 1) /\ nextchar' = 0
    BY <1>0, <1>11, <1>12
  <2>2. Reading(argv0, ordering)[optind] = Give(Heard, c, e.text)
    BY <1>5, <1>7, <1>9, <1>11, <1>12 DEF ReadLetter
  <2> HIDE DEF e
  <2> QED BY <1>0, <1>1, <1>4, <1>12, <2>1, <2>2, TakenProgress
<1>13. CASE c \notin required_argument \cup no_argument
  <2>1. opt' = Error /\ pc' = "returned" /\ given' = given
    BY <1>0, <1>13 DEF Return
  <2>2. L[nextchar + 1].wrong
    BY <1>7, <1>8, <1>13, WrongReads DEF ReadLetter, IsRead
  <2>3. Reading(argv0, ordering)[optind].wrong
    BY <1>5, <1>10, <2>2 DEF Onward
  <2>4. OptionsRight'
    BY <1>0, <1>1, <2>1, <2>3, MistakeRight DEF OptionFrame
  <2> QED BY <2>1, <2>4 DEF Prog, Over
<1>14. CASE c \notin required_argument /\ c \in no_argument
  <2> DEFINE o == Option(c, NULL)
  <2>0. c \in Vals
    BY <1>14 DEF Vals
  <2>1. /\ opt' = o /\ o \notin {Done, Error} /\ pc' = "returned" /\ optind' = to
        /\ given' = Append(given, o)
        /\ nextchar' = IF nextchar + 1 = len THEN 0 ELSE nextchar + 1
    BY <1>0, <1>14, <2>0, OptionGiven DEF Return
  <2>2. o \in Opts
    BY <2>0 DEF Option, Opts
  <2>3. L[nextchar + 1] = [Heard EXCEPT !.options = Append(given, o)]
    BY <1>7, <1>8, <1>9, <1>14 DEF ReadLetter, Give
  <2> HIDE DEF o
  <2>4. CASE nextchar + 1 = len
    <3>1. Reading(argv0, ordering)[optind] = [Heard EXCEPT !.options = Append(given, o)]
      BY <1>5, <2>3, <2>4
    <3>2. nextchar' = 0 /\ optind' = optind + 1 /\ optind <= optind
      BY <1>1, <2>1, <2>4
    <3>3. Progress'
      BY <1>0, <1>1, <2>1, <2>2, <3>1, <3>2, WholeProgress
    <3> QED BY <2>1, <3>3 DEF Prog, Over
  <2>5. CASE nextchar + 1 # len
    <3>1. optind' = optind /\ nextchar' = nextchar + 1 /\ argv' = argv /\ argv0' = argv0
          /\ ordering' = ordering
      BY <1>0, <2>1, <2>5 DEF OptionFrame
    <3>2. Before' = Before
      BY <3>1 DEF Before
    <3>3. Heard' = [Heard EXCEPT !.options = Append(given, o)]
      <4>1. nextchar' # 0
        BY <1>4, <3>1
      <4>2. Heard' = ReadLetters(Before, argv0[optind])[nextchar + 1]
        BY <3>1, <3>2, <4>1 DEF Heard
      <4> QED BY <1>2, <2>3, <4>2 DEF L
    <3>4. Heard' = [Before' EXCEPT !.options = given']
      <4>1. Append(given, o) \in Seq(Opts)
        BY <1>8, <2>2
      <4> QED BY <1>1, <1>8, <2>1, <3>2, <3>3, <4>1 DEF Reads
    <3>5. argv[optind'].dash = 1
      BY <1>4, <3>1
    <3>6. optind' \in Int /\ optind <= optind'
      BY <1>1, <3>1
    <3>7. Progress'
      BY <1>0, <1>3, <2>1, <3>2, <3>4, <3>5, <3>6, NextProgress
    <3> QED BY <2>1, <3>7 DEF Prog, Over
  <2> QED BY <2>4, <2>5
<1> QED BY <1>12, <1>13, <1>14

\* Each step of getopt_long keeps what is known of the options.
LEMMA ProgNext == IInv /\ Prog /\ [GetOptNext]_getopt_vars => Prog'
<1> SUFFICES ASSUME IInv, Prog, [GetOptNext]_getopt_vars PROVE Prog'
  OBVIOUS
<1>1. CASE UNCHANGED getopt_vars
  BY <1>1 DEF getopt_vars, exchange_vars, Prog, Over, OptionsRight, Progress, Hearing, Placed,
              AtOption, Before, Heard, Final, Start, End, Stopping, argc
<1>2. CASE GetOptNext
  <2>1. Progress
    BY <1>2 DEF GetOptNext, Scan, Prog, Over, Advance, Swap, Exchanged, Skip, EndOfOptions,
                Stop, EndOfArguments, NonOption, process_long_option, process_short_option,
                getopt_long, AtElement
  <2>2. CASE Advance \/ Swap \/ Exchanged \/ Skip \/ EndOfOptions \/ getopt_long
    <3>1. Progress'
      BY <2>1, <2>2, AdvanceProgress, SwapProgress, ExchangedProgress, SkipProgress,
         EndOfOptionsProgress, CallProgress
    <3>2. pc' # "returned"
      BY <2>2 DEF Advance, Swap, Exchanged, Skip, EndOfOptions, getopt_long, Exchange, IInv,
                  GetOptTypeOK
    <3> QED BY <3>1, <3>2 DEF Prog, Over
  <2>3. CASE Stop \/ EndOfArguments \/ NonOption
    <3>1. OptionsRight'
      BY <2>1, <2>3, StopRight, EndOfArgumentsRight, NonOptionRight
    <3>2. pc' = "returned" /\ opt' = Done
      BY <2>3 DEF Stop, EndOfArguments, NonOption, Return
    <3> QED BY <3>1, <3>2 DEF Prog, Over
  <2>4. CASE process_long_option \/ process_short_option
    BY <2>1, <2>4, LongProg, ShortProg
  <2> QED BY <1>2, <2>2, <2>3, <2>4 DEF GetOptNext, Scan
<1> QED BY <1>1, <1>2

\* getopt_long returns the options of any arguments, each once, in their order and
\* with their arguments, leaves what is no option behind optind in its order, and
\* reports a mistake just if there is one.
THEOREM OptionsCorrect == GetOptSpec => []OptionsRight
<1>1. IInv /\ Prog => OptionsRight
  <2> SUFFICES ASSUME IInv, Prog, ~Over PROVE OptionsRight
    BY DEF Prog
  <2>1. IsPrefix(given, Said(argv0, ordering).options)
    BY GivenSaid DEF Prog
  <2> QED BY <2>1 DEF OptionsRight, Over
<1> QED BY <1>1, InitIInv, NextIInv, InitProg, ProgNext, PTL DEF GetOptSpec

-----------------------------------------------------------------------------
\* What getopt_long may return, and what parse_files may be given.
Returned == [val : Letters \cup {"h"}, arg : Elements \cup {NULL}]

MainInv ==
  /\ IInv /\ TypeOK
  /\ opt \in Returned \cup {Done, Error}
  /\ options \in [Letters -> Elements \cup {NULL, Unset}]
  /\ opts_given \subseteq Letters
  /\ files \in Seq(Elements)

\* A text that is not empty, as an argument of an option.
LEMMA PlainElement ==
  ASSUME NEW text \in Seq(STRING) PROVE Plain(text) \in Elements
BY DEF Plain, Element, Elements, WellFormed

\* The number of the matches of a name is 1 only if there is one.
LEMMA MatchHasOption ==
  ASSUME NEW name, Cardinality(Matches(name)) = 1
  PROVE  (CHOOSE o \in Matches(name) : TRUE).val \in Letters \cup {"h"}
<1>1. Matches(name) # {}
  BY FS_EmptySet
<1>2. Matches(name) \subseteq LONG_OPTS
  BY DEF Matches
<1>3. \A o \in LONG_OPTS : o.val \in Letters \cup {"h"}
  BY DEF LONG_OPTS, Letters, required_argument, no_argument
<1> QED BY <1>1, <1>2, <1>3

\* What getopt_long returns when it takes an argument.
LEMMA TakeArgumentOption ==
  ASSUME NEW val \in Letters \cup {"h"}, NEW text \in Seq(STRING), NEW to \in Int,
         1 <= to, to <= argc, argv \in Seq(Elements), TakeArgument(val, text, to)
  PROVE  opt' \in Returned \cup {Done, Error}
<1>1. CASE text # <<>>
  BY <1>1, PlainElement DEF TakeArgument, Return, Option, Returned
<1>2. CASE text = <<>> /\ to = argc
  BY <1>2 DEF TakeArgument, Return
<1>3. CASE text = <<>> /\ to # argc
  <2>1. argv[to] \in Elements
    BY <1>3 DEF argc
  <2> QED BY <1>3, <2>1 DEF TakeArgument, Return, Option, Returned
<1> QED BY <1>1, <1>2, <1>3

\* A call returns an option there is, the end or an error.
LEMMA ScanOption ==
  ASSUME IInv, opt \in Returned \cup {Done, Error}, Scan
  PROVE  opt' \in Returned \cup {Done, Error}
<1>1. CASE process_long_option
  <2> DEFINE e == argv[optind]
             val == (CHOOSE o \in Matches(e.name) : TRUE).val
  <2>1. optind \in 1..Len(argv)
    BY <1>1 DEF process_long_option, AtElement, IInv, GetOptTypeOK, argc
  <2>2. e.text \in Seq(STRING)
    <3>1. e \in Elements
      BY <2>1 DEF IInv
    <3> QED BY <3>1 DEF Elements
  <2>3. CASE opt' = Error
    BY <2>3
  <2>4. CASE opt' # Error
    <3>1. Cardinality(Matches(e.name)) = 1
      BY <1>1, <2>4 DEF process_long_option, Return
    <3>2. val \in Letters \cup {"h"}
      BY <3>1, MatchHasOption
    <3>3. \/ TakeArgument(val, e.text, optind + 1)
          \/ opt' = Option(val, NULL)
      BY <1>1, <2>4 DEF process_long_option, Return
    <3> QED BY <2>1, <2>2, <3>2, <3>3, TakeArgumentOption
            DEF IInv, argc, Option, Returned
  <2> QED BY <2>3, <2>4
<1>2. CASE process_short_option
  <2> DEFINE e == argv[optind]
             c == e.letters[nextchar + 1]
             to == IF nextchar + 1 = Len(e.letters) THEN optind + 1 ELSE optind
  <2>1. optind \in 1..Len(argv)
    BY <1>2 DEF process_short_option, AtElement, IInv, GetOptTypeOK, argc
  <2>2. e.text \in Seq(STRING) /\ to \in Int /\ 1 <= to /\ to <= argc
    <3>1. e \in Elements
      BY <2>1 DEF IInv
    <3>2. e.text \in Seq(STRING)
      BY <3>1 DEF Elements
    <3> QED BY <2>1, <3>2 DEF IInv, argc
  <2>3. CASE c \in required_argument
    <3>1. TakeArgument(c, e.text, to)
      BY <1>2, <2>3 DEF process_short_option
    <3> QED BY <2>2, <2>3, <3>1, TakeArgumentOption DEF IInv, Letters
  <2>4. CASE c \notin required_argument
    <3>1. (opt' = Option(c, NULL) /\ c \in no_argument) \/ opt' = Error
      BY <1>2, <2>4 DEF process_short_option, Return
    <3> QED BY <3>1 DEF Option, Returned, Letters
  <2> QED BY <2>3, <2>4
<1>3. CASE Stop \/ EndOfArguments \/ NonOption
  BY <1>3 DEF Stop, EndOfArguments, NonOption, Return
<1>4. CASE Advance \/ Swap \/ Exchanged \/ Skip \/ EndOfOptions
  BY <1>4 DEF Advance, Swap, Exchanged, Skip, EndOfOptions
<1> QED BY <1>1, <1>2, <1>3, <1>4 DEF Scan

-----------------------------------------------------------------------------
(* The program implements getopt_long.                                     *)

\* Every step of the program is one of getopt_long, or leaves it alone.
LEMMA StepImplements == [Next]_vars => [GetOptNext]_getopt_vars
<1>1. getopt \/ parse_options => GetOptNext
  BY DEF getopt, parse_options, GetOptNext
<1>2. usage \/ NoMoreOptions \/ check_mutually_exclusive \/ open_files => UNCHANGED getopt_vars
  BY DEF usage, NoMoreOptions, check_mutually_exclusive, open_files
<1>3. c_typedef_init \/ read_conf_file \/ parse_argv \/ parse_files => UNCHANGED getopt_vars
  BY DEF c_typedef_init, read_conf_file, parse_argv, parse_files, MainFrame
<1>4. Exited \/ UNCHANGED vars => UNCHANGED getopt_vars
  BY DEF Exited, vars
<1> QED BY <1>1, <1>2, <1>3, <1>4 DEF Next, Step

\* main and options.c call getopt_long as GetOpt has it, from its first call to its
\* last, whatever the arguments are and whatever the files contain.
THEOREM Implements == Spec => GetOptSpec
<1>1. Init => GetOptInit
  BY DEF Init
<1> QED BY <1>1, StepImplements, PTL DEF Spec, GetOptSpec

\* The exchange of two segments of argv is right in the program too.
THEOREM StartupExchange == Spec => ExchangeRotates
BY Implements, ExchangeCorrect

\* So are the options that it is given, and what it is left of argv.
THEOREM StartupOptions == Spec => []OptionsRight
BY Implements, OptionsCorrect

-----------------------------------------------------------------------------
(* The variables of main.                                                  *)

\* The program begins with no option seen.
LEMMA InitMain == Init => MainInv
<1> SUFFICES ASSUME Init PROVE MainInv
  OBVIOUS
<1>1. IInv /\ GetOptTypeOK
  BY InitIInv DEF Init, IInv
<1>2. <<>> \in Seq(Elements)
  OBVIOUS
<1> QED BY <1>1, <1>2 DEF Init, MainInv, TypeOK, GetOptInit

\* A file name that is cut at its first blank is a name still.
LEMMA CutElement == ASSUME NEW e \in Elements PROVE Cut(e) \in Elements
<1>1. CASE e.text = <<>>
  <2>1. Cut(e) = e
    BY <1>1 DEF Cut, Elements
  <2> QED BY <2>1
<1>2. CASE e.text # <<>>
  <2>1. Cut(e) = [e EXCEPT !.text = <<Head(e.text)>>]
    BY <1>2 DEF Cut
  <2>2. <<Head(e.text)>> \in Seq(STRING)
    BY <1>2 DEF Elements
  <2> QED BY <1>2, <2>1, <2>2 DEF Elements, WellFormed
<1> QED BY <1>1, <1>2

\* A step that leaves getopt_long alone keeps what is known of it.
LEMMA KeepsGetOpt ==
  ASSUME MainInv, UNCHANGED getopt_vars
  PROVE  IInv' /\ GetOptTypeOK' /\ opt' \in Returned \cup {Done, Error}
<1>1. IInv'
  BY NextIInv DEF MainInv
<1> QED BY <1>1 DEF IInv, MainInv, getopt_vars

\* A call of getopt_long, or options.c looking at what it returned.
LEMMA GetOptSteps == MainInv /\ (getopt \/ parse_options) => MainInv'
<1> SUFFICES ASSUME MainInv, getopt \/ parse_options PROVE MainInv'
  OBVIOUS
<1>1. IInv' /\ GetOptTypeOK'
  BY NextIInv DEF MainInv, getopt, parse_options, GetOptNext, IInv
<1>2. CASE getopt
  BY <1>1, <1>2, ScanOption DEF MainInv, getopt, TypeOK, main_vars
<1>3. CASE parse_options
  <2>1. opt.val \in Letters /\ opt.arg \in Elements \cup {NULL}
    BY <1>3 DEF MainInv, parse_options, Returned
  <2>2. opt.arg # Unset
    BY <2>1 DEF Unset, NULL, Element, Elements
  <2>3. opt' = opt
    BY <1>3 DEF parse_options, getopt_long
  <2>4. opts_given' = {l \in Letters : options'[l] # Unset}
    BY <1>3, <2>1, <2>2 DEF MainInv, TypeOK, parse_options
  <2>5. options' \in [Letters -> Elements \cup {NULL, Unset}] /\ opts_given' \subseteq Letters
    BY <1>3, <2>1 DEF MainInv, parse_options
  <2> QED BY <1>1, <1>3, <2>3, <2>4, <2>5 DEF MainInv, TypeOK, parse_options
<1> QED BY <1>2, <1>3

\* The end of the options, and the checks of them all.
LEMMA OptionSteps ==
  MainInv /\ (usage \/ NoMoreOptions \/ check_mutually_exclusive \/ open_files) => MainInv'
<1> SUFFICES ASSUME MainInv,
                    usage \/ NoMoreOptions \/ check_mutually_exclusive \/ open_files
             PROVE  MainInv'
  OBVIOUS
<1>1. /\ UNCHANGED getopt_vars /\ UNCHANGED <<options, opts_given, files>>
      /\ stage' \in {"check", "open", "typedefs", "exit"}
      /\ (status' = "running") = (stage' # "exit")
  BY DEF usage, NoMoreOptions, check_mutually_exclusive, open_files, exit, MainInv, TypeOK,
         main_vars
<1> QED BY <1>1, KeepsGetOpt DEF MainInv, TypeOK

\* The program reads a source.
LEMMA MainSteps ==
  MainInv /\ (c_typedef_init \/ read_conf_file \/ parse_argv \/ parse_files) => MainInv'
<1> SUFFICES ASSUME MainInv,
                    c_typedef_init \/ read_conf_file \/ parse_argv \/ parse_files
             PROVE  MainInv'
  OBVIOUS
<1>1. UNCHANGED getopt_vars /\ UNCHANGED <<options, opts_given>>
  BY DEF c_typedef_init, read_conf_file, parse_argv, parse_files, MainFrame
<1>2. /\ stage' \in {"conf", "argv", "files", "exit"}
      /\ (status' = "running") = (stage' # "exit")
  BY DEF c_typedef_init, read_conf_file, parse_argv, parse_files, parse_stdin,
         parse_command_line, Parse, ExitWith, exit, MainInv, TypeOK
<1>3. files' \in Seq(Elements) /\ (stage' = "files" => files' # <<>>)
  <2>1. CASE c_typedef_init \/ read_conf_file
    BY <2>1 DEF c_typedef_init, read_conf_file, Parse, exit, MainInv, TypeOK
  <2>2. CASE parse_argv /\ Operands # <<>>
    <3>1. Operands \in Seq(Elements)
      BY DEF Operands, MainInv, IInv, GetOptTypeOK, argc
    <3>2. <<Cut(Head(Operands))>> \o Tail(Operands) \in Seq(Elements) \ {<<>>}
      BY <2>2, <3>1, CutElement
    <3> QED BY <2>2, <3>2
            DEF parse_argv, parse_command_line, Parse, ExitWith, exit, MainInv
  <2>3. CASE parse_argv /\ Operands = <<>>
    BY <2>3 DEF parse_argv, parse_stdin, Parse, ExitWith, exit, MainInv
  <2>4. CASE parse_files
    <3>1. files \in Seq(Elements) /\ files # <<>>
      BY <2>4 DEF parse_files, MainInv, TypeOK
    <3>2. Len(files) = 1 => stage' = "exit"
      BY <2>4 DEF parse_files, parse_stdin, Parse, ExitWith, exit
    <3>3. files' = Tail(files)
      BY <2>4 DEF parse_files
    <3>4. Len(files) # 1 => Tail(files) # <<>>
      <4>1. Len(files) \in Nat /\ Len(files) # 0
        BY <3>1, EmptySeq
      <4>2. Len(Tail(files)) = Len(files) - 1
        BY <3>1
      <4>3. Len(<<>>) = 0
        OBVIOUS
      <4> QED BY <4>1, <4>2, <4>3
    <3>5. Tail(files) \in Seq(Elements)
      BY <3>1
    <3> QED BY <3>2, <3>3, <3>4, <3>5
  <2> QED BY <2>1, <2>2, <2>3, <2>4
<1> QED BY <1>1, <1>2, <1>3, KeepsGetOpt DEF MainInv, TypeOK

\* Each step of the program keeps the types of its variables and getopt's.
LEMMA NextMain == MainInv /\ [Next]_vars => MainInv'
<1>1. MainInv /\ (Exited \/ UNCHANGED vars) => MainInv'
  <2> SUFFICES ASSUME MainInv, Exited \/ UNCHANGED vars PROVE MainInv'
    OBVIOUS
  <2>1. UNCHANGED getopt_vars /\ UNCHANGED <<options, opts_given, files, stage, status>>
    BY DEF Exited, vars, main_vars
  <2> QED BY <2>1, KeepsGetOpt DEF MainInv, TypeOK
<1> QED BY <1>1, GetOptSteps, OptionSteps, MainSteps DEF Next, Step

\* The state of main and that of getopt_long agree at every step, for any
\* arguments: the indices are within argv, what was given is what is set, and a
\* file is left wherever one is opened.
THEOREM StartupTypes == Spec => []TypeOK
<1>1. MainInv => TypeOK
  BY DEF MainInv
<1> QED BY <1>1, InitMain, NextMain, PTL DEF Spec

-----------------------------------------------------------------------------
(* Lists of options, sources and words.                                    *)

\* The greatest of some numbers is one of them.
LEMMA MaxOf ==
  ASSUME NEW n \in Nat, NEW S \in SUBSET (1..n), S # {}
  PROVE  Max(S) \in S /\ \A k \in S : k <= Max(S)
<1> DEFINE T == {n - k : k \in S}
<1>1. T \in SUBSET Nat /\ T # {}
  <2>1. \A k \in S : n - k \in Nat
    OBVIOUS
  <2> QED BY <2>1
<1>2. PICK m \in T : \A i \in T : m <= i
  BY <1>1, LeastNumber
<1>3. PICK x \in S : m = n - x
  BY <1>2
<1>4. \A k \in S : x >= k
  <2>1. TAKE k \in S
  <2>2. n - k \in T
    OBVIOUS
  <2>3. n - x <= n - k
    BY <1>2, <1>3, <2>2
  <2>4. n \in Int /\ x \in Int /\ k \in Int
    OBVIOUS
  <2> QED BY <2>3, <2>4
<1>5. Max(S) \in S /\ \A k \in S : Max(S) >= k
  BY <1>4 DEF Max
<1>6. \A k \in S : k \in Int
  OBVIOUS
<1> QED BY <1>5, <1>6

\* An option that is given has an argument, NULL at least.
LEMMA GivenArgument ==
  ASSUME NEW o \in Opts PROVE o.arg # Unset
BY DEF Opts, Unset, NULL, Element, Elements

\* The last of a list that has one more.
LEMMA LastOfAppend ==
  ASSUME NEW list \in Seq(Opts), NEW o \in Opts, NEW l, NEW d
  PROVE  LastOf(Append(list, o), l, d) = IF o.val = l THEN o.arg ELSE LastOf(list, l, d)
<1> DEFINE n == Len(list)
           s == Append(list, o)
           of == {k \in DOMAIN list : list[k].val = l}
           of1 == {k \in DOMAIN s : s[k].val = l}
<1>1. /\ n \in Nat /\ DOMAIN list = 1..n /\ DOMAIN s = 1..n + 1 /\ s[n + 1] = o
      /\ \A k \in 1..n : s[k] = list[k]
  OBVIOUS
<1> HIDE DEF s
<1>2. CASE o.val = l
  <2>1. n + 1 \in of1 /\ of1 \in SUBSET (1..n + 1) /\ n + 1 \in Nat
    BY <1>1, <1>2
  <2>2. Max(of1) \in of1 /\ n + 1 <= Max(of1)
    <3> HIDE DEF of1
    <3> QED BY <2>1, MaxOf
  <2>3. Max(of1) = n + 1
    <3>1. Max(of1) \in 1..n + 1
      BY <2>1, <2>2
    <3> HIDE DEF of1
    <3> QED BY <1>1, <2>2, <3>1
  <2>4. LastOf(s, l, d) = s[Max(of1)].arg
    BY <2>1 DEF LastOf
  <2> QED BY <1>1, <1>2, <2>3, <2>4 DEF s
<1>3. CASE o.val # l
  <2>1. of1 = of
    BY <1>1, <1>3
  <2>2. of # {} => Max(of) \in 1..n
    <3>1. of \in SUBSET (1..n)
      BY <1>1
    <3> HIDE DEF of
    <3> QED BY <1>1, <3>1, MaxOf
  <2>3. LastOf(s, l, d) = IF of1 = {} THEN d ELSE s[Max(of1)].arg
    BY DEF LastOf
  <2>4. LastOf(list, l, d) = IF of = {} THEN d ELSE list[Max(of)].arg
    BY DEF LastOf
  <2> HIDE DEF of, of1
  <2>5. LastOf(s, l, d) = LastOf(list, l, d)
    BY <1>1, <2>1, <2>2, <2>3, <2>4
  <2> QED BY <1>3, <2>5 DEF s
<1> QED BY <1>2, <1>3

\* The default counts just if there is none.
LEMMA LastOfDefault ==
  ASSUME NEW list \in Seq(Opts), NEW l, NEW d
  PROVE  /\ LastOf(list, l, Unset) # Unset <=> \E k \in DOMAIN list : list[k].val = l
         /\ LastOf(list, l, d) = IF LastOf(list, l, Unset) = Unset THEN d
                                 ELSE LastOf(list, l, Unset)
<1> DEFINE of == {k \in DOMAIN list : list[k].val = l}
<1>1. Len(list) \in Nat /\ DOMAIN list = 1..Len(list) /\ of \in SUBSET (1..Len(list))
  OBVIOUS
<1>2. /\ LastOf(list, l, d) = IF of = {} THEN d ELSE list[Max(of)].arg
      /\ LastOf(list, l, Unset) = IF of = {} THEN Unset ELSE list[Max(of)].arg
  BY DEF LastOf
<1>3. of # {} <=> \E k \in DOMAIN list : list[k].val = l
  OBVIOUS
<1> HIDE DEF of
<1>4. of # {} => Max(of) \in 1..Len(list)
  BY <1>1, MaxOf
<1>5. of # {} => list[Max(of)].arg # Unset
  <2> SUFFICES ASSUME of # {} PROVE list[Max(of)].arg # Unset
    OBVIOUS
  <2>1. list[Max(of)] \in Opts
    BY <1>4
  <2> QED BY <2>1, GivenArgument
<1> QED BY <1>2, <1>3, <1>5

\* What SequencesExt!FlattenSeq does with one part after the other.
Flat(parts) ==
  LET flatten[i \in 1..Len(parts)] ==
        IF i = 1 THEN parts[i] ELSE flatten[i - 1] \o parts[i]
  IN  flatten

\* Sequences one after another, from the first to the last.
LEMMA FlatSteps ==
  ASSUME NEW parts, Len(parts) \in Nat, Len(parts) # 0
  PROVE  /\ FlattenSeq(parts) = Flat(parts)[Len(parts)]
         /\ Flat(parts)[1] = parts[1]
         /\ \A i \in 2..Len(parts) : Flat(parts)[i] = Flat(parts)[i - 1] \o parts[i]
<1> DEFINE Solves(f, m) ==
             f = [i \in 1..m |-> IF i = 1 THEN parts[i] ELSE f[i - 1] \o parts[i]]
<1> DEFINE Solved == {m \in Nat : \E f : Solves(f, m)}
<1>1. 0 \in Solved
  <2>1. Solves([i \in 1..0 |-> 0], 0)
    OBVIOUS
  <2> QED BY <2>1
<1>2. ASSUME NEW m \in Nat, m \in Solved PROVE m + 1 \in Solved
  <2>1. PICK f : Solves(f, m)
    BY <1>2
  <2> DEFINE g == [i \in 1..m + 1 |-> IF i \in 1..m THEN f[i] ELSE
                     IF m + 1 = 1 THEN parts[m + 1] ELSE f[m] \o parts[m + 1]]
  <2>2. \A i \in 1..m : g[i] = f[i]
    OBVIOUS
  <2>3. g[m + 1] = IF m + 1 = 1 THEN parts[m + 1] ELSE f[m] \o parts[m + 1]
    OBVIOUS
  <2>4. \A i \in 1..m : f[i] = IF i = 1 THEN parts[i] ELSE f[i - 1] \o parts[i]
    BY <2>1
  <2>5. \A i \in 1..m : i # 1 => i - 1 \in 1..m
    OBVIOUS
  <2>6. m + 1 # 1 => m \in 1..m /\ (m + 1) - 1 = m
    OBVIOUS
  <2>7. g = [i \in 1..m + 1 |-> g[i]]
    OBVIOUS
  <2> HIDE DEF g
  <2>8. ASSUME NEW i \in 1..m + 1
        PROVE  g[i] = IF i = 1 THEN parts[i] ELSE g[i - 1] \o parts[i]
    <3>1. CASE i \in 1..m
      BY <2>2, <2>4, <2>5, <3>1
    <3>2. CASE i \notin 1..m
      <4>1. i = m + 1
        BY <3>2
      <4> QED BY <2>2, <2>3, <2>6, <4>1
    <3> QED BY <3>1, <3>2
  <2>9. Solves(g, m + 1)
    BY <2>7, <2>8, Zenon
  <2>10. m + 1 \in Nat
    OBVIOUS
  <2> QED BY <2>9, <2>10
<1>3. Len(parts) \in Solved
  <2> HIDE DEF Solved
  <2>1. \A m \in 0..Len(parts) - 1 : m \in Solved => m + 1 \in Solved
    BY <1>2
  <2>2. \A m \in 0..Len(parts) : m \in Solved
    BY <1>1, <2>1, UpTo
  <2> QED BY <2>2
<1>4. Solves(Flat(parts), Len(parts))
  BY <1>3 DEF Flat
<1>5. FlattenSeq(parts) = Flat(parts)[Len(parts)]
  BY DEF FlattenSeq, Flat
<1>6. \A i \in 1..Len(parts) :
        Flat(parts)[i] = IF i = 1 THEN parts[i] ELSE Flat(parts)[i - 1] \o parts[i]
  BY <1>4
<1>7. 1 \in 1..Len(parts) /\ \A i \in 2..Len(parts) : i \in 1..Len(parts) /\ i # 1
  OBVIOUS
<1> HIDE DEF Solves, Solved
<1>8. Flat(parts)[1] = parts[1]
  BY <1>6, <1>7
<1>9. \A i \in 2..Len(parts) : Flat(parts)[i] = Flat(parts)[i - 1] \o parts[i]
  BY <1>6, <1>7
<1> QED BY <1>5, <1>8, <1>9

\* Two lists of parts that differ in how their first words are parted.
LEMMA FlatSplit ==
  ASSUME NEW p, NEW q, NEW n \in Nat, Len(p) = n + 1, Len(q) = n + 2, q[1] \o q[2] = p[1],
         \A i \in 2..n + 1 : q[i + 1] = p[i]
  PROVE  FlattenSeq(q) = FlattenSeq(p)
<1>1. /\ Flat(p)[1] = p[1] /\ \A i \in 2..n + 1 : Flat(p)[i] = Flat(p)[i - 1] \o p[i]
      /\ FlattenSeq(p) = Flat(p)[n + 1]
  <2>1. Len(p) \in Nat /\ Len(p) # 0
    OBVIOUS
  <2> QED BY <2>1, FlatSteps
<1>2. /\ Flat(q)[1] = q[1] /\ \A i \in 2..n + 2 : Flat(q)[i] = Flat(q)[i - 1] \o q[i]
      /\ FlattenSeq(q) = Flat(q)[n + 2]
  <2>1. Len(q) \in Nat /\ Len(q) # 0
    OBVIOUS
  <2> QED BY <2>1, FlatSteps
<1> DEFINE Good == {i \in 0..n : Flat(q)[i + 2] = Flat(p)[i + 1]}
<1>3. 0 \in Good
  <2>1. 2 \in 2..n + 2 /\ 2 - 1 = 1 /\ 0 + 2 = 2 /\ 0 + 1 = 1 /\ 0 \in 0..n
    OBVIOUS
  <2>2. Flat(q)[2] = q[1] \o q[2]
    BY <1>2, <2>1
  <2> QED BY <1>1, <2>1, <2>2
<1>4. ASSUME NEW i \in 0..n - 1, i \in Good PROVE i + 1 \in Good
  <2>1. /\ i + 2 \in 2..n + 1 /\ i + 3 \in 2..n + 2 /\ (i + 3) - 1 = i + 2
        /\ (i + 2) - 1 = i + 1 /\ (i + 2) + 1 = i + 3 /\ (i + 1) + 2 = i + 3
        /\ (i + 1) + 1 = i + 2 /\ i + 1 \in 0..n
    OBVIOUS
  <2>2. Flat(q)[i + 3] = Flat(q)[i + 2] \o q[i + 3]
    BY <1>2, <2>1
  <2>3. Flat(p)[i + 2] = Flat(p)[i + 1] \o p[i + 2]
    BY <1>1, <2>1
  <2>4. q[i + 3] = p[i + 2]
    BY <2>1
  <2>5. Flat(q)[i + 2] = Flat(p)[i + 1]
    BY <1>4
  <2> QED BY <2>1, <2>2, <2>3, <2>4, <2>5
<1> HIDE DEF Good
<1>5. n \in Good
  <2>1. \A i \in 0..n - 1 : i \in Good => i + 1 \in Good
    BY <1>4
  <2>2. \A i \in 0..n : i \in Good
    BY <1>3, <2>1, UpTo
  <2> QED BY <2>2
<1> QED BY <1>1, <1>2, <1>5 DEF Good
-----------------------------------------------------------------------------
(* Lists of anything.                                                      *)

IsList(s) == \E S : s \in Seq(S)

\* A list has a length, which is its domain.
LEMMA ListFacts ==
  ASSUME NEW s, IsList(s)
  PROVE  Len(s) \in Nat /\ DOMAIN s = 1..Len(s) /\ (s = <<>> <=> Len(s) = 0)
<1>1. PICK S : s \in Seq(S)
  BY DEF IsList
<1> QED BY <1>1

\* A list with one more element.
LEMMA ListAppend ==
  ASSUME NEW s, NEW x, IsList(s)
  PROVE  /\ IsList(Append(s, x)) /\ Len(Append(s, x)) = Len(s) + 1
         /\ Append(s, x)[Len(s) + 1] = x /\ \A k \in 1..Len(s) : Append(s, x)[k] = s[k]
<1>1. PICK S : s \in Seq(S)
  BY DEF IsList
<1> DEFINE T == S \cup {x}
<1>2. s \in Seq(T) /\ x \in T
  BY <1>1
<1> HIDE DEF T
<1>3. Append(s, x) \in Seq(T)
  BY <1>2
<1> QED BY <1>2, <1>3 DEF IsList

\* u is s and then t.
Joins(u, s, t) ==
  /\ IsList(u) /\ Len(u) = Len(s) + Len(t)
  /\ \A k \in 1..Len(s) : u[k] = s[k]
  /\ \A k \in 1..Len(t) : u[Len(s) + k] = t[k]

\* Two lists make one.
LEMMA ListConcat ==
  ASSUME NEW s, NEW t, IsList(s), IsList(t) PROVE Joins(s \o t, s, t)
<1>1. PICK S : s \in Seq(S)
  BY DEF IsList
<1>2. PICK T : t \in Seq(T)
  BY DEF IsList
<1> DEFINE U == S \cup T
<1>3. s \in Seq(U) /\ t \in Seq(U)
  BY <1>1, <1>2
<1> HIDE DEF U
<1>4. s \o t \in Seq(U)
  BY <1>3
<1>5. Len(s) \in Nat /\ Len(t) \in Nat /\ Len(s \o t) = Len(s) + Len(t)
  BY <1>3
<1>6. \A k \in 1..Len(t) : Len(s) + k \in 1..Len(s) + Len(t) /\ ~(Len(s) + k <= Len(s))
                           /\ (Len(s) + k) - Len(s) = k
  BY <1>5
<1>7. \A k \in 1..Len(t) : (s \o t)[Len(s) + k] = t[k]
  BY <1>3, <1>5, <1>6
<1>8. \A k \in 1..Len(s) : (s \o t)[k] = s[k]
  BY <1>3
<1> QED BY <1>4, <1>5, <1>7, <1>8 DEF IsList, Joins

\* What was read is the first of what list asks for.
ReadFrom(s, list) ==
  Len(s) <= Len(list) /\ \A k \in 1..Len(s) : Plainly(s[k]) = list[k]

\* What was read so far is the beginning of what is asked for.
LEMMA ReadPrefix ==
  ASSUME NEW s, NEW list, IsList(s), IsList(list), ReadFrom(s, list)
  PROVE  IsPrefix([k \in DOMAIN s |-> Plainly(s[k])], list)
<1> DEFINE r == [k \in DOMAIN s |-> Plainly(s[k])]
           R == {Plainly(s[k]) : k \in DOMAIN s}
<1>1. Len(s) \in Nat /\ Len(list) \in Nat /\ DOMAIN s = 1..Len(s)
  BY ListFacts
<1>2. r \in Seq(R) /\ Len(r) = Len(s)
  BY <1>1
<1>3. \A k \in 1..Len(s) : r[k] = list[k]
  BY <1>1 DEF ReadFrom
<1> HIDE DEF r, R
<1>4. SubSeq(r, 1, Len(r)) = SubSeq(list, 1, Len(r))
  BY <1>1, <1>2, <1>3 DEF ReadFrom
<1> QED BY <1>2, <1>4 DEF ReadFrom, IsPrefix, r

\* One source more, the next of list.
LEMMA ReadMore ==
  ASSUME NEW s, NEW list, NEW from, NEW text, NEW result, IsList(s),
         ReadFrom(s, list), Len(s) < Len(list), Len(list) \in Nat,
         list[Len(s) + 1] = Source(from, IF from = "command" THEN Words(text) ELSE text)
  PROVE  ReadFrom(Append(s, [Source(from, text) EXCEPT !.result = result]), list)
<1> DEFINE x == [Source(from, text) EXCEPT !.result = result]
           t == Append(s, x)
<1>1. Len(s) \in Nat
  BY ListFacts
<1>2. /\ Len(t) = Len(s) + 1 /\ t[Len(s) + 1] = x
      /\ \A k \in 1..Len(s) : t[k] = s[k]
  BY ListAppend
<1>3. Plainly(x) = Source(from, IF from = "command" THEN Words(text) ELSE text)
  <2>1. x.from = from /\ x.text = text
    BY DEF Source
  <2> QED BY <2>1 DEF Plainly
<1> HIDE DEF x, t
<1>4. Len(t) <= Len(list)
  BY <1>1, <1>2
<1>5. ASSUME NEW k \in 1..Len(t) PROVE Plainly(t[k]) = list[k]
  <2>1. CASE k = Len(s) + 1
    BY <1>2, <1>3, <2>1
  <2>2. CASE k # Len(s) + 1
    <3>1. k \in 1..Len(s)
      BY <1>1, <1>2, <2>2
    <3> QED BY <1>2, <3>1 DEF ReadFrom
  <2> QED BY <2>1, <2>2
<1> QED BY <1>4, <1>5 DEF ReadFrom, t, x

-----------------------------------------------------------------------------
(* Commands.                                                               *)

\* A word is cut off the first of some elements: the words are the same.
LEMMA WordsSplit ==
  ASSUME NEW list \in Seq(Elements), list # <<>>, Head(list).dash = 0,
         Head(list).text # <<>>
  PROVE  Words(<<Cut(Head(list)), Plain(Tail(Head(list).text))>> \o Tail(list))
           = Words(list)
<1> DEFINE e == Head(list)
           cut == Cut(e)
           left == Plain(Tail(e.text))
           other == <<cut, left>> \o Tail(list)
           p == [k \in DOMAIN list |-> WordsOf(list[k])]
           q == [k \in DOMAIN other |-> WordsOf(other[k])]
           n == Len(list) - 1
<1>1. /\ n \in Nat /\ Len(list) = n + 1 /\ list[1] = e /\ e \in Elements
      /\ \A i \in 2..n + 1 : Tail(list)[i - 1] = list[i]
      /\ Tail(list) \in Seq(Elements) /\ Len(Tail(list)) = n /\ DOMAIN list = 1..n + 1
  OBVIOUS
<1>2. /\ e.text \in Seq(STRING) /\ Len(e.text) \in Nat \ {0} /\ e.text[1] \in STRING
      /\ Head(e.text) = e.text[1] /\ Tail(e.text) \in Seq(STRING)
      /\ Len(Tail(e.text)) = Len(e.text) - 1
      /\ \A i \in 1..Len(e.text) - 1 : Tail(e.text)[i] = e.text[i + 1]
  <2>1. e.text \in Seq(STRING)
    BY <1>1 DEF Elements
  <2>2. ASSUME NEW S, NEW t \in Seq(S), t # <<>>
        PROVE  /\ Len(t) \in Nat \ {0} /\ t[1] \in S /\ Head(t) = t[1]
               /\ Tail(t) \in Seq(S) /\ Len(Tail(t)) = Len(t) - 1
               /\ \A i \in 1..Len(t) - 1 : Tail(t)[i] = t[i + 1]
    <3>1. Len(t) \in Nat \ {0}
      BY <2>2
    <3>2. t[1] \in S /\ Head(t) = t[1] /\ Tail(t) \in Seq(S) /\ Len(Tail(t)) = Len(t) - 1
      BY <2>2, <3>1
    <3>3. \A i \in 1..Len(t) - 1 : Tail(t)[i] = t[i + 1]
      BY <2>2, <3>1
    <3> QED BY <3>1, <3>2, <3>3
  <2> QED BY <2>1, <2>2
<1>3. /\ cut.dash = 0 /\ cut.text = <<e.text[1]>> /\ left.dash = 0
      /\ left.text = Tail(e.text)
  <2>1. cut = [e EXCEPT !.text = <<Head(e.text)>>]
    BY DEF Cut
  <2>2. cut.dash = 0 /\ cut.text = <<Head(e.text)>>
    BY <1>1, <2>1 DEF Elements
  <2> QED BY <1>2, <2>2 DEF Plain, Element
<1>4. /\ IsList(other) /\ Len(other) = n + 2 /\ other[1] = cut /\ other[2] = left
      /\ \A i \in 2..n + 1 : other[i + 1] = list[i]
  <2> DEFINE two == <<cut, left>>
  <2>1. IsList(two) /\ Len(two) = 2 /\ two[1] = cut /\ two[2] = left
    <3>1. two \in Seq({cut, left})
      OBVIOUS
    <3> QED BY <3>1 DEF IsList
  <2>2. IsList(Tail(list))
    BY <1>1 DEF IsList
  <2> DEFINE rest == Tail(list)
  <2> HIDE DEF two, cut, left, rest
  <2>3. /\ IsList(two \o rest) /\ Len(two \o rest) = 2 + Len(rest)
        /\ \A k \in 1..2 : (two \o rest)[k] = two[k]
        /\ \A k \in 1..Len(rest) : (two \o rest)[2 + k] = rest[k]
    <3>1. IsList(rest)
      BY <2>2 DEF rest
    <3>2. Joins(two \o rest, two, rest)
      BY <2>1, <3>1, ListConcat
    <3> QED BY <2>1, <3>2 DEF Joins
  <2>4. /\ other = two \o rest /\ Len(rest) = n
        /\ \A i \in 2..n + 1 : rest[i - 1] = list[i]
    BY <1>1 DEF two, rest
  <2> HIDE DEF other
  <2>5. ASSUME NEW i \in 2..n + 1 PROVE other[i + 1] = list[i]
    <3>1. i - 1 \in 1..n /\ 2 + (i - 1) = i + 1
      BY <1>1
    <3>2. other[2 + (i - 1)] = rest[i - 1]
      BY <2>3, <2>4, <3>1
    <3> QED BY <2>4, <3>1, <3>2
  <2>6. 2 + n = n + 2 /\ 1 \in 1..2 /\ 2 \in 1..2
    BY <1>1
  <2>7. IsList(other) /\ Len(other) = n + 2 /\ other[1] = cut /\ other[2] = left
    BY <1>1, <2>1, <2>3, <2>4, <2>6
  <2> QED BY <2>5, <2>7
<1> HIDE DEF cut, left, other, n
<1>5. DOMAIN other = 1..n + 2
  BY <1>4, ListFacts
<1>6. /\ Len(p) = n + 1 /\ Len(q) = n + 2 /\ q[1] = WordsOf(cut) /\ q[2] = WordsOf(left)
      /\ p[1] = WordsOf(e) /\ \A i \in 2..n + 1 : q[i + 1] = p[i]
  <2>1. /\ 1 \in 1..n + 2 /\ 2 \in 1..n + 2 /\ 1 \in 1..n + 1
        /\ \A i \in 2..n + 1 : i + 1 \in 1..n + 2 /\ i \in 1..n + 1
    BY <1>1
  <2>2. Len(p) = n + 1
    BY <1>1
  <2>3. Len(q) = n + 2
    BY <1>1, <1>5
  <2> QED BY <1>1, <1>4, <1>5, <2>1, <2>2, <2>3
<1>7. WordsOf(cut) \o WordsOf(left) = WordsOf(e)
  <2> DEFINE m == Len(e.text)
             a == <<Plain(<<e.text[1]>>)>>
             b == [j \in 1..m - 1 |-> Plain(<<e.text[j + 1]>>)]
             c == [j \in 1..m |-> Plain(<<e.text[j]>>)]
  <2>1. WordsOf(cut) = a
    BY <1>3 DEF WordsOf
  <2>2. WordsOf(left) = b
    BY <1>2, <1>3 DEF WordsOf
  <2>3. WordsOf(e) = c
    BY <1>2 DEF WordsOf
  <2>4. a \o b = c
    <3>1. m \in Nat /\ m >= 1
      BY <1>2
    <3> HIDE DEF m
    <3> QED BY <3>1
  <2> QED BY <2>1, <2>2, <2>3, <2>4
<1> HIDE DEF p, q
<1>8. FlattenSeq(q) = FlattenSeq(p)
  BY <1>1, <1>6, <1>7, FlatSplit
<1> QED BY <1>8 DEF Words, p, q, other, cut, left

-----------------------------------------------------------------------------
(* What the arguments ask for.                                             *)

\* What the arguments say.
AllSaid == Said(argv0, ordering)
All == AskedFirst(AllSaid) \o AskedThen(AllSaid)

\* What the arguments say is options and a rest of the elements.
LEMMA SaidTyped ==
  ASSUME argv0 \in Seq(Elements)
  PROVE  AllSaid.options \in Seq(Opts) /\ AllSaid.rest \in Seq(Elements)
<1> DEFINE n == Len(argv0)
           all == Reading(argv0, ordering)[n]
<1>1. n \in 0..n /\ all \in Reads
  <2>1. n \in 0..n
    OBVIOUS
  <2> QED BY <2>1, ReadingRead DEF IsRead
<1>2. AllSaid.options = all.options /\ AllSaid.rest = all.rest
  BY <1>1 DEF AllSaid, Said, Reads
<1> QED BY <1>1, <1>2 DEF Reads

\* A list of one.
LEMMA ListOne == ASSUME NEW x PROVE IsList(<<x>>) /\ Len(<<x>>) = 1 /\ <<x>>[1] = x
<1>1. <<x>> \in Seq({x})
  OBVIOUS
<1> QED BY <1>1 DEF IsList

\* The list of none.
LEMMA ListNone == IsList(<<>>) /\ Len(<<>>) = 0
<1>1. <<>> \in Seq({})
  OBVIOUS
<1> QED BY <1>1 DEF IsList

\* The built-in types, if they are wanted.
Builtins == IF Given(AllSaid, "t") THEN 0 ELSE 1
ConfWanted == ~Given(AllSaid, "C") /\ AskedConf(AllSaid) \in Readable

\* What is read first: the predefined types and the configuration file, if wanted.
LEMMA FirstAsked ==
  /\ IsList(AskedFirst(AllSaid))
  /\ Len(AskedFirst(AllSaid)) = Builtins + (IF ConfWanted THEN 1 ELSE 0)
  /\ Builtins = 1 => AskedFirst(AllSaid)[1] = Source("builtin", <<>>)
  /\ ConfWanted => AskedFirst(AllSaid)[Builtins + 1] = Source("conf", AskedConf(AllSaid))
<1> DEFINE s == IF Given(AllSaid, "t") THEN <<>> ELSE <<Source("builtin", <<>>)>>
           t == IF Given(AllSaid, "C") \/ AskedConf(AllSaid) \notin Readable THEN <<>>
                ELSE <<Source("conf", AskedConf(AllSaid))>>
<1>1. /\ IsList(s) /\ Len(s) = Builtins /\ Builtins \in {0, 1}
      /\ Builtins = 1 => s[1] = Source("builtin", <<>>)
  BY ListOne, ListNone DEF Builtins
<1>2. /\ IsList(t) /\ Len(t) = IF ConfWanted THEN 1 ELSE 0
      /\ ConfWanted => t[1] = Source("conf", AskedConf(AllSaid))
  BY ListOne, ListNone DEF ConfWanted
<1>3. AskedFirst(AllSaid) = s \o t
  BY DEF AskedFirst
<1> HIDE DEF s, t
<1>4. Joins(AskedFirst(AllSaid), s, t)
  BY <1>1, <1>2, <1>3, ListConcat
<1> QED BY <1>1, <1>2, <1>4 DEF Joins

\* What is read then: the command, the files, or the input.
LEMMA ThenAsked ==
  ASSUME argv0 \in Seq(Elements)
  PROVE  /\ IsList(AskedThen(AllSaid)) /\ Len(AskedThen(AllSaid)) > 0
         /\ AllSaid.rest = <<>> \/ AsksCommand(AllSaid) => Len(AskedThen(AllSaid)) = 1
         /\ AllSaid.rest = <<>> => AskedThen(AllSaid)[1] = AskedInput(AllSaid)
         /\ AllSaid.rest # <<>> /\ AsksCommand(AllSaid) =>
              AskedThen(AllSaid)[1] =
                Source("command", Words((IF is_command(me) THEN <<me>> ELSE <<>>)
                                        \o AllSaid.rest))
         /\ AllSaid.rest # <<>> /\ ~AsksCommand(AllSaid) =>
              /\ Len(AskedThen(AllSaid)) = Len(AllSaid.rest)
              /\ \A k \in 1..Len(AllSaid.rest) :
                   AskedThen(AllSaid)[k] = IF AllSaid.rest[k] = Dash THEN AskedInput(AllSaid)
                                           ELSE Source("file", AllSaid.rest[k])
<1> DEFINE rest == AllSaid.rest
           command == Source("command", Words((IF is_command(me) THEN <<me>> ELSE <<>>) \o rest))
           of(k) == IF rest[k] = Dash THEN AskedInput(AllSaid) ELSE Source("file", rest[k])
           list == [k \in DOMAIN rest |-> of(k)]
<1>1. rest \in Seq(Elements) /\ DOMAIN rest = 1..Len(rest) /\ Len(rest) \in Nat
  <2>1. rest \in Seq(Elements)
    BY SaidTyped
  <2> HIDE DEF rest
  <2> QED BY <2>1
<1>2. AskedThen(AllSaid) = IF rest = <<>> THEN <<AskedInput(AllSaid)>>
                           ELSE IF AsksCommand(AllSaid) THEN <<command>> ELSE list
  BY DEF AskedThen
<1>3. IsList(list) /\ Len(list) = Len(rest) /\ \A k \in 1..Len(rest) : list[k] = of(k)
  <2> DEFINE S == {of(k) : k \in DOMAIN rest}
  <2> HIDE DEF rest, of
  <2>1. list \in Seq(S) /\ Len(list) = Len(rest) /\ \A k \in 1..Len(rest) : list[k] = of(k)
    BY <1>1
  <2> QED BY <2>1 DEF IsList
<1>4. rest # <<>> => Len(rest) > 0
  <2> HIDE DEF rest
  <2> QED BY <1>1
<1> HIDE DEF list, command
<1>5. CASE rest = <<>>
  BY <1>2, <1>5, ListOne
<1>6. CASE rest # <<>> /\ AsksCommand(AllSaid)
  BY <1>2, <1>6, ListOne DEF command
<1>7. CASE rest # <<>> /\ ~AsksCommand(AllSaid)
  BY <1>2, <1>3, <1>4, <1>7
<1> QED BY <1>5, <1>6, <1>7

\* All that is to be read.
LEMMA AllAsked ==
  ASSUME argv0 \in Seq(Elements)
  PROVE  Joins(All, AskedFirst(AllSaid), AskedThen(AllSaid))
BY FirstAsked, ThenAsked, ListConcat DEF All

-----------------------------------------------------------------------------
(* What is known of the program on its way to what it reads.               *)

\* An option has been returned that options.c has not looked at.
Fresh == pc = "returned" /\ opt \notin {Done, Error}
Handled == IF Fresh THEN SubSeq(given, 1, Len(given) - 1) ELSE given

\* The options of list are right, and the variables of options.c are set from them.
SetFrom(list) ==
  /\ \A l \in Letters : options[l] = LastOf(list, l, Unset)
  /\ \A k \in DOMAIN list : list[k].val # "h" /\ ~Invalid(list[k])

\* After the options, they are what the arguments say.
Known == ~AllSaid.wrong /\ SetFrom(AllSaid.options) /\ Operands = AllSaid.rest

\* The input can be read and the output has been created.
Opened ==
  /\ options["f"] \in Readable \cup {Unset} /\ options["o"] \in Creatable \cup {Unset}
  /\ created = {options["o"]} \ {Unset}

Fails(s, k) == k \in DOMAIN s /\ s[k].result = "error"
Quits(s) == \E k \in DOMAIN s : s[k].result = "quit"

\* The files read so far are the first of the operands, and the others are left.
FilesRead ==
  \E j \in 0..Len(AllSaid.rest) - 1 :
    /\ Len(sources) = Len(AskedFirst(AllSaid)) + j
    /\ ReadFrom(sources, All)
    /\ files = SubSeq(AllSaid.rest, j + 1, Len(AllSaid.rest))
    /\ \A k \in 1..j : ~Fails(sources, Len(AskedFirst(AllSaid)) + k)

Started ==
  /\ given \in Seq(Opts) /\ IsList(sources)
  /\ stage = "options" =>
       /\ SetFrom(Handled)
       /\ Fresh => Len(given) > 0 /\ given[Len(given)] = opt
  /\ stage \in {"options", "check", "open", "typedefs"} => sources = <<>>
  /\ stage \in {"options", "check", "open"} => created = {}
  /\ stage \notin {"options", "exit"} => Known
  /\ stage \notin {"options", "check", "exit"} =>
       ~AskedWrong(AllSaid) /\ ~Given(AllSaid, "v")
  /\ stage \notin {"options", "check", "open", "exit"} => Opened /\ ~Quits(sources)
  /\ stage = "conf" => Len(sources) = Builtins
  /\ stage \in {"argv", "files"} => ~Asked(AllSaid).noconf
  /\ stage = "argv" => Len(sources) = Len(AskedFirst(AllSaid))
  /\ stage \in {"conf", "argv"} => ReadFrom(sources, All)
  /\ stage = "files" =>
       /\ AllSaid.rest # <<>> /\ ~AsksCommand(AllSaid)
       /\ BlankName(Asked(AllSaid)) \/ FilesRead
  /\ stage = "exit" => StartedRight

\* What is asked for stays the same while argv was the same to begin with.
LEMMA SameSaid ==
  ASSUME UNCHANGED <<argv0, ordering, me>>
  PROVE  /\ AllSaid' = AllSaid /\ Asked(AllSaid)' = Asked(AllSaid)
         /\ AskedFirst(AllSaid)' = AskedFirst(AllSaid) /\ All' = All
         /\ AskedThen(AllSaid)' = AskedThen(AllSaid)
         /\ AskedWrong(AllSaid)' = AskedWrong(AllSaid) /\ Builtins' = Builtins
         /\ AsksCommand(AllSaid)' = AsksCommand(AllSaid)
BY DEF AllSaid, Asked, AskedFirst, AskedThen, AsksCommand, AskedWrong, All, Builtins

\* What the variables say depends on getopt and options.c only.
LEMMA SameKnown ==
  ASSUME UNCHANGED <<getopt_vars, me, options>> PROVE Known' <=> Known
BY DEF Known, AllSaid, SetFrom, Operands, argc, getopt_vars

\* The variables of options.c are what the arguments say.
LEMMA AskedIs ==
  ASSUME MainInv, SetFrom(AllSaid.options)
  PROVE  /\ \A l \in Letters : Given(AllSaid, l) <=> options[l] # Unset
         /\ AskedConf(AllSaid) = IF options["c"] = Unset THEN Default ELSE options["c"]
         /\ AskedInput(AllSaid) = Source("fin", Input)
         /\ LastOf(AllSaid.options, "f", Unset) = options["f"]
         /\ LastOf(AllSaid.options, "o", Unset) = options["o"]
<1>1. AllSaid.options \in Seq(Opts)
  BY SaidTyped DEF MainInv, IInv
<1>2. {"c", "f", "o"} \subseteq Letters
  BY DEF Letters, required_argument
<1>3. \A l \in Letters : options[l] = LastOf(AllSaid.options, l, Unset)
  BY DEF SetFrom
<1>4. LastOf(AllSaid.options, "c", Default)
        = IF LastOf(AllSaid.options, "c", Unset) = Unset THEN Default
          ELSE LastOf(AllSaid.options, "c", Unset)
  BY <1>1, LastOfDefault
<1>5. LastOf(AllSaid.options, "f", Dash)
        = IF LastOf(AllSaid.options, "f", Unset) = Unset THEN Dash
          ELSE LastOf(AllSaid.options, "f", Unset)
  BY <1>1, LastOfDefault
<1> QED BY <1>2, <1>3, <1>4, <1>5 DEF Given, AskedConf, AskedInput, Input

\* check_mutually_exclusive finds what is wrong with right options.
LEMMA WrongIs ==
  ASSUME MainInv, ~AllSaid.wrong, SetFrom(AllSaid.options)
  PROVE  /\ AskedWrong(AllSaid) <=> MutuallyExclusive({"v"}, Letters \ {"v"})
         /\ Given(AllSaid, "v") <=> "v" \in opts_given
<1> DEFINE list == AllSaid.options
<1>1. list \in Seq(Opts)
  BY SaidTyped DEF MainInv, IInv
<1>2. \A l \in Letters : options[l] = LastOf(list, l, Unset)
  BY DEF SetFrom
<1>3. \A l \in Letters : LastOf(list, l, Unset) # Unset <=> \E k \in DOMAIN list : list[k].val = l
  <2> HIDE DEF list
  <2> QED BY <1>1, LastOfDefault
<1>4. opts_given = {l \in Letters : options[l] # Unset}
  BY DEF MainInv, TypeOK
<1>5. \A k \in DOMAIN list : list[k].val \in Letters /\ list[k].val # "h" /\ ~Invalid(list[k])
  <2>1. \A k \in DOMAIN list : list[k].val # "h" /\ ~Invalid(list[k])
    BY DEF SetFrom
  <2> HIDE DEF list
  <2>2. \A k \in DOMAIN list : list[k] \in Opts
    BY <1>1
  <2> QED BY <2>1, <2>2 DEF Opts, Vals, Letters
<1>6. "v" \in Letters
  BY DEF Letters, no_argument
<1>7. Given(AllSaid, "v") <=> "v" \in opts_given
  BY <1>2, <1>4, <1>6 DEF Given
<1>8. AskedWrong(AllSaid) <=> Given(AllSaid, "v") /\ \E k \in DOMAIN list : list[k].val # "v"
  BY <1>5 DEF AskedWrong
<1> HIDE DEF list
<1>9. (\E k \in DOMAIN list : list[k].val # "v") <=> opts_given \cap (Letters \ {"v"}) # {}
  BY <1>2, <1>3, <1>4, <1>5
<1> QED BY <1>7, <1>8, <1>9 DEF MutuallyExclusive

-----------------------------------------------------------------------------
(* What StartedRight asks of the sources s and the created files c.         *)

Shows(asked, s, c) ==
  /\ ReadFrom(s, asked.first \o asked.then)
  /\ \A k \in Len(asked.first) + 1..Len(s) - 1 : ~Fails(s, k)
  /\ c \subseteq {asked.fout} \ {Unset}
  /\ s # <<>> \/ c # {} =>
       /\ ~asked.wrong /\ ~asked.version
       /\ asked.fin \in Readable \cup {Unset}
       /\ c = {asked.fout} \ {Unset}

StatusFor(asked, s) ==
  IF asked.wrong THEN "EX_USAGE"
  ELSE IF asked.version THEN "EX_OK"
  ELSE IF asked.fin \notin Readable \cup {Unset} THEN "EX_NOINPUT"
  ELSE IF asked.fout \notin Creatable \cup {Unset} THEN "EX_CANTCREAT"
  ELSE IF Quits(s) THEN "EX_OK"
  ELSE IF asked.noconf THEN "EX_NOINPUT"
  ELSE IF Len(s) > Len(asked.first) /\ Fails(s, Len(s)) THEN "EX_DATAERR"
  ELSE IF s # <<>> /\ Len(s) = Len(asked.first \o asked.then) THEN "EX_OK"
  ELSE IF /\ (asked.first \o asked.then)[Len(s) + 1].from = "file"
          /\ (asked.first \o asked.then)[Len(s) + 1].text \notin Readable
       THEN "EX_NOINPUT"
  ELSE "running"

\* What the arguments ask for, part by part.
LEMMA AskedFields ==
  /\ Asked(AllSaid).rest = AllSaid.rest /\ Asked(AllSaid).wrong = AskedWrong(AllSaid)
  /\ Asked(AllSaid).version = Given(AllSaid, "v")
  /\ Asked(AllSaid).fin = LastOf(AllSaid.options, "f", Unset)
  /\ Asked(AllSaid).fout = LastOf(AllSaid.options, "o", Unset)
  /\ Asked(AllSaid).noconf =
       (Given(AllSaid, "c") /\ ~Given(AllSaid, "C") /\ AskedConf(AllSaid) \notin Readable)
  /\ Asked(AllSaid).first = AskedFirst(AllSaid) /\ Asked(AllSaid).then = AskedThen(AllSaid)
  /\ Asked(AllSaid).first \o Asked(AllSaid).then = All
BY DEF Asked, All

\* The program has done what the arguments ask, if it shows that and its status agrees.
LEMMA StartedIs ==
  ASSUME argv0 \in Seq(Elements), IsList(sources),
         BlankName(Asked(AllSaid)) \/
           /\ Shows(Asked(AllSaid), sources, created)
           /\ stage = "exit" => status = StatusFor(Asked(AllSaid), sources)
  PROVE  StartedRight
<1> DEFINE A == Asked(AllSaid)
<1>1. SUFFICES ASSUME ~BlankName(A) PROVE StartedAs(A)
  BY DEF StartedRight, AllSaid
<1>2. IsList(All) /\ A.first \o A.then = All
  BY AllAsked, AskedFields DEF Joins
<1> HIDE DEF A
<1>3. /\ Shows(A, sources, created)
      /\ stage = "exit" => status = StatusFor(A, sources)
  BY <1>1 DEF A
<1>4. IsPrefix([k \in DOMAIN sources |-> Plainly(sources[k])], A.first \o A.then)
  BY <1>2, <1>3, ReadPrefix DEF Shows
<1>5. stage = "exit" => status = StatusOf(A)
  BY <1>3 DEF StatusOf, StatusFor, Quit, Quits, Failed, Fails
<1> QED BY <1>3, <1>4, <1>5 DEF StartedAs, Shows, Failed, Fails

\* The same of the next state, when it is an exit.
LEMMA ExitIs ==
  ASSUME argv0 \in Seq(Elements), IsList(sources'), UNCHANGED <<argv0, ordering, me>>,
         BlankName(Asked(AllSaid)) \/
           /\ Shows(Asked(AllSaid), sources', created')
           /\ status' = StatusFor(Asked(AllSaid), sources')
  PROVE  StartedRight'
<1> DEFINE A == Asked(AllSaid)
<1>0. Asked(Said(argv0, ordering))' = A
  BY SameSaid DEF AllSaid
<1>1. SUFFICES ASSUME NEW asked, asked = A, ~BlankName(asked) PROVE StartedAs(asked)'
  BY <1>0 DEF StartedRight
<1>2. IsList(All) /\ asked.first \o asked.then = All
  BY <1>1, AllAsked, AskedFields DEF Joins
<1> HIDE DEF A
<1>3. Shows(asked, sources', created') /\ status' = StatusFor(asked, sources')
  BY <1>1 DEF A
<1>4. IsPrefix([k \in DOMAIN sources' |-> Plainly(sources'[k])], asked.first \o asked.then)
  BY <1>2, <1>3, ReadPrefix DEF Shows
<1>5. status' = StatusOf(asked)'
  BY <1>3 DEF StatusOf, StatusFor, Quit, Quits, Failed, Fails
<1> QED BY <1>3, <1>4, <1>5 DEF StartedAs, Shows, Failed, Fails

\* Nothing is read and nothing created.
LEMMA ShowsNothing ==
  ASSUME argv0 \in Seq(Elements)
  PROVE  Shows(Asked(AllSaid), <<>>, {}) /\ ~Quits(<<>>) /\ \A k : ~Fails(<<>>, k)
<1>1. IsList(All) /\ IsList(AskedFirst(AllSaid))
  BY AllAsked, FirstAsked DEF Joins
<1>2. Len(All) \in Nat /\ Len(AskedFirst(AllSaid)) \in Nat
  BY <1>1, ListFacts
<1>3. Len(<<>>) = 0 /\ DOMAIN <<>> = {}
  OBVIOUS
<1> QED BY <1>2, <1>3, AskedFields DEF Shows, ReadFrom, Quits, Fails

-----------------------------------------------------------------------------
(* The options.                                                            *)

\* A step of getopt_long gives one option, which it returns, or none.
LEMMA ScanGiven ==
  ASSUME IInv, Scan
  PROVE  /\ pc # "returned"
         /\ \/ given' = given /\ ~Fresh'
            \/ given' = Append(given, opt') /\ Fresh'
<1>1. CASE Advance \/ Swap \/ Exchanged \/ Skip \/ EndOfOptions
  BY <1>1 DEF Advance, Swap, Exchanged, Skip, EndOfOptions, Exchange, AtElement, Fresh,
              IInv, GetOptTypeOK
<1>2. CASE Stop \/ EndOfArguments \/ NonOption
  BY <1>2 DEF Stop, EndOfArguments, NonOption, Return, Fresh, AtElement
<1>3. CASE process_long_option \/ process_short_option
  <2>1. \E o : Return(o)
    BY <1>3 DEF process_long_option, process_short_option, TakeArgument
  <2>2. pc # "returned"
    BY <1>3 DEF process_long_option, process_short_option, AtElement
  <2> QED BY <2>1, <2>2 DEF Return, Fresh
<1> QED BY <1>1, <1>2, <1>3 DEF Scan

\* The beginning of a sequence.
LEMMA FirstOf ==
  ASSUME NEW S, NEW s \in Seq(S), NEW m \in Nat, m <= Len(s)
  PROVE  /\ SubSeq(s, 1, m) \in Seq(S) /\ Len(SubSeq(s, 1, m)) = m
         /\ \A k \in 1..m : SubSeq(s, 1, m)[k] = s[k]
OBVIOUS

\* An option that is returned is recorded; options.c has not looked at it yet.
LEMMA GetOptStarted ==
  ASSUME MainInv, MainInv', Started, getopt PROVE Started'
<1>1. /\ stage = "options" /\ stage' = "options" /\ Scan
      /\ UNCHANGED <<me, options, sources, created>>
  BY DEF getopt, main_vars
<1>2. /\ given \in Seq(Opts) /\ IsList(sources) /\ SetFrom(given) /\ sources = <<>>
      /\ created = {}
  BY <1>1, ScanGiven DEF Started, Handled, Fresh, MainInv
<1>3. CASE given' = given /\ ~Fresh'
  <2>1. Handled' = given
    BY <1>3 DEF Handled
  <2>2. SetFrom(Handled)'
    BY <1>1, <1>2, <2>1 DEF SetFrom
  <2> QED BY <1>1, <1>2, <1>3, <2>2 DEF Started
<1>4. CASE given' = Append(given, opt') /\ Fresh'
  <2>1. opt' \in Opts
    BY <1>4 DEF MainInv, Returned, Fresh, Opts, Vals, Letters
  <2>2. /\ given' \in Seq(Opts) /\ Len(given') = Len(given) + 1 /\ Len(given) \in Nat
        /\ given'[Len(given) + 1] = opt' /\ \A k \in 1..Len(given) : given'[k] = given[k]
    BY <1>2, <1>4, <2>1
  <2>3. Handled' = given
    <3>1. Handled' = SubSeq(given', 1, Len(given') - 1)
      BY <1>4 DEF Handled
    <3>2. SubSeq(given', 1, Len(given') - 1) = given
      BY <1>2, <2>2
    <3> QED BY <3>1, <3>2
  <2>4. SetFrom(Handled)'
    BY <1>1, <1>2, <2>3 DEF SetFrom
  <2> QED BY <1>1, <1>2, <2>2, <2>4 DEF Started
<1> QED BY <1>1, <1>3, <1>4, ScanGiven DEF MainInv

\* options.c records it.
LEMMA ParseOptionsStarted ==
  ASSUME MainInv, Started, parse_options PROVE Started'
<1> DEFINE n == Len(given)
           before == SubSeq(given, 1, n - 1)
<1>1. /\ stage = "options" /\ stage' = "options" /\ Fresh /\ ~Fresh'
      /\ opt.val # "h" /\ ~Invalid(opt)
      /\ options' = [options EXCEPT ![opt.val] = opt.arg]
      /\ UNCHANGED <<given, me, sources, created>>
  BY DEF parse_options, getopt_long, Fresh
<1>2. /\ given \in Seq(Opts) /\ IsList(sources) /\ SetFrom(before) /\ sources = <<>>
      /\ created = {} /\ n > 0 /\ given[n] = opt
  BY <1>1 DEF Started, Handled
<1>3. n \in Nat /\ before \in Seq(Opts) /\ given = Append(before, opt) /\ opt \in Opts
  <2>1. n \in Nat /\ n - 1 \in Nat /\ n \in 1..n
    BY <1>2
  <2>2. opt \in Opts
    BY <1>2, <2>1
  <2>3. /\ before \in Seq(Opts) /\ Len(before) = n - 1
        /\ \A k \in 1..n - 1 : before[k] = given[k]
    <3>1. n - 1 <= Len(given)
      BY <2>1
    <3> QED BY <1>2, <2>1, <3>1, FirstOf
  <2>4. Append(before, opt) \in Seq(Opts) /\ Len(Append(before, opt)) = n
    <3> HIDE DEF before, n
    <3>1. Len(Append(before, opt)) = (n - 1) + 1
      BY <2>2, <2>3
    <3> QED BY <2>1, <2>2, <2>3, <3>1
  <2>5. \A k \in 1..n : Append(before, opt)[k] = given[k]
    <3> HIDE DEF before
    <3>1. \A k \in 1..n - 1 : Append(before, opt)[k] = before[k]
      BY <2>1, <2>2, <2>3
    <3>2. Append(before, opt)[n] = opt
      BY <2>1, <2>2, <2>3
    <3>3. \A k \in 1..n : k = n \/ k \in 1..n - 1
      BY <2>1
    <3> QED BY <1>2, <2>3, <3>1, <3>2, <3>3
  <2> HIDE DEF before
  <2>6. given = Append(before, opt)
    BY <1>2, <2>1, <2>4, <2>5
  <2> QED BY <2>1, <2>2, <2>3, <2>6
<1> HIDE DEF before, n
<1>4. Handled' = given
  BY <1>1 DEF Handled
<1>5. \A l \in Letters : options'[l] = LastOf(given, l, Unset)
  <2>1. \A l \in Letters :
          LastOf(given, l, Unset) = IF opt.val = l THEN opt.arg ELSE LastOf(before, l, Unset)
    BY <1>3, LastOfAppend
  <2>2. \A l \in Letters : options[l] = LastOf(before, l, Unset)
    BY <1>2 DEF SetFrom
  <2>3. DOMAIN options = Letters
    BY DEF MainInv
  <2> QED BY <1>1, <2>1, <2>2, <2>3
<1>6. \A k \in DOMAIN given : given[k].val # "h" /\ ~Invalid(given[k])
  <2>1. \A k \in DOMAIN before : before[k].val # "h" /\ ~Invalid(before[k])
    BY <1>2 DEF SetFrom
  <2>2. \A k \in DOMAIN given : given[k] = opt \/ (k \in DOMAIN before /\ given[k] = before[k])
    BY <1>3
  <2> QED BY <1>1, <2>1, <2>2
<1>7. SetFrom(Handled)'
  BY <1>4, <1>5, <1>6 DEF SetFrom
<1> QED BY <1>1, <1>2, <1>7 DEF Started

\* What was returned is among what the arguments say.
LEMMA GivenPrefix ==
  ASSUME MainInv, OptionsRight, given \in Seq(Opts)
  PROVE  \A k \in DOMAIN given : k \in DOMAIN AllSaid.options /\ AllSaid.options[k] = given[k]
<1> DEFINE list == AllSaid.options
<1>1. list \in Seq(Opts) /\ IsPrefix(given, list)
  BY SaidTyped DEF MainInv, IInv, OptionsRight, AllSaid
<1> HIDE DEF list
<1>2. Len(given) \in Nat /\ Len(list) \in Nat /\ Len(given) <= Len(list)
      /\ SubSeq(given, 1, Len(given)) = SubSeq(list, 1, Len(given))
  BY <1>1 DEF IsPrefix
<1>3. \A k \in 1..Len(given) :
        SubSeq(given, 1, Len(given))[k] = given[k] /\ SubSeq(list, 1, Len(given))[k] = list[k]
  BY <1>1, <1>2
<1>4. DOMAIN given = 1..Len(given) /\ DOMAIN list = 1..Len(list)
  BY <1>1
<1> QED BY <1>2, <1>3, <1>4 DEF list

\* An exit of options.c: what argv asks for is wrong.
LEMMA UsageStarted ==
  ASSUME MainInv, OptionsRight, Started, usage PROVE Started'
<1>1. /\ stage = "options" /\ stage' = "exit" /\ status' = "EX_USAGE" /\ pc = "returned"
      /\ opt # Done /\ (opt = Error \/ opt.val = "h" \/ Invalid(opt))
      /\ UNCHANGED <<given, me, sources, created, argv0, ordering>>
  BY DEF usage, exit, getopt_vars, main_vars
<1>2. given \in Seq(Opts) /\ IsList(sources) /\ sources = <<>> /\ created = {}
  BY <1>1 DEF Started
<1>3. AskedWrong(AllSaid)
  <2>1. CASE opt = Error
    BY <1>1, <2>1 DEF OptionsRight, AskedWrong, AllSaid
  <2>2. CASE opt # Error
    <3>1. Len(given) > 0 /\ given[Len(given)] = opt
      BY <1>1, <2>2 DEF Started, Fresh
    <3>2. Len(given) \in DOMAIN given
      BY <1>2, <3>1
    <3>3. Len(given) \in DOMAIN AllSaid.options /\ AllSaid.options[Len(given)] = opt
      BY <1>2, <3>1, <3>2, GivenPrefix
    <3> QED BY <1>1, <2>2, <3>3 DEF AskedWrong
  <2> QED BY <2>1, <2>2
<1>4. Shows(Asked(AllSaid), sources', created')
  BY <1>1, <1>2, ShowsNothing DEF MainInv, IInv
<1>5. status' = StatusFor(Asked(AllSaid), sources')
  BY <1>1, <1>3, AskedFields DEF StatusFor
<1>6. StartedRight'
  BY <1>1, <1>2, <1>4, <1>5, ExitIs DEF MainInv, IInv
<1> QED BY <1>1, <1>2, <1>6 DEF Started

\* getopt_long is done: its options and the rest are what the arguments say.
LEMMA NoMoreStarted ==
  ASSUME MainInv, OptionsRight, Started, NoMoreOptions PROVE Started'
<1>1. /\ stage = "options" /\ stage' = "check" /\ pc = "returned" /\ opt = Done
      /\ UNCHANGED <<getopt_vars, me, options, sources, created>>
  BY DEF NoMoreOptions, main_vars
<1>2. /\ given \in Seq(Opts) /\ IsList(sources) /\ sources = <<>> /\ created = {}
      /\ SetFrom(given)
  BY <1>1 DEF Started, Handled, Fresh
<1>3. ~AllSaid.wrong /\ given = AllSaid.options /\ Operands = AllSaid.rest
  BY <1>1 DEF OptionsRight, AllSaid, Operands
<1>4. Known'
  BY <1>1, <1>2, <1>3, SameKnown DEF Known
<1> QED BY <1>1, <1>2, <1>4 DEF Started, getopt_vars

\* The options are checked against one another; -v prints the version and ends.
LEMMA CheckStarted ==
  ASSUME MainInv, Started, check_mutually_exclusive PROVE Started'
<1>1. /\ stage = "check"
      /\ UNCHANGED <<getopt_vars, me, options, sources, created, opts_given>>
      /\ UNCHANGED <<given, argv0, ordering>>
  BY DEF check_mutually_exclusive, main_vars, getopt_vars
<1>2. given \in Seq(Opts) /\ IsList(sources) /\ sources = <<>> /\ created = {} /\ Known
  BY <1>1 DEF Started
<1>3. /\ AskedWrong(AllSaid) <=> MutuallyExclusive({"v"}, Letters \ {"v"})
      /\ Given(AllSaid, "v") <=> "v" \in opts_given
  BY <1>2, WrongIs DEF Known
<1>4. CASE AskedWrong(AllSaid) \/ Given(AllSaid, "v")
  <2>1. stage' = "exit" /\ status' = IF AskedWrong(AllSaid) THEN "EX_USAGE" ELSE "EX_OK"
    BY <1>3, <1>4 DEF check_mutually_exclusive, exit
  <2>2. Shows(Asked(AllSaid), sources', created')
    BY <1>1, <1>2, ShowsNothing DEF MainInv, IInv
  <2>3. status' = StatusFor(Asked(AllSaid), sources')
    BY <1>4, <2>1, AskedFields DEF StatusFor
  <2>4. StartedRight'
    BY <1>1, <1>2, <2>2, <2>3, ExitIs DEF MainInv, IInv
  <2> QED BY <1>1, <1>2, <2>1, <2>4 DEF Started
<1>5. CASE ~AskedWrong(AllSaid) /\ ~Given(AllSaid, "v")
  <2>1. stage' = "open"
    BY <1>3, <1>5 DEF check_mutually_exclusive
  <2>2. Known'
    BY <1>1, <1>2, SameKnown
  <2>3. ~AskedWrong(AllSaid)' /\ ~Given(AllSaid, "v")'
    BY <1>1, <1>5, SameSaid
  <2> QED BY <1>1, <1>2, <2>1, <2>2, <2>3 DEF Started
<1> QED BY <1>4, <1>5

-----------------------------------------------------------------------------
(* The sources.                                                            *)

\* What StartedRight asks once the arguments are known to be right.
LEMMA ShowsRead ==
  ASSUME MainInv, Known, Opened, ~AskedWrong(AllSaid), ~Given(AllSaid, "v"),
         NEW s, ReadFrom(s, All),
         \A k \in Len(AskedFirst(AllSaid)) + 1..Len(s) - 1 : ~Fails(s, k)
  PROVE  /\ Shows(Asked(AllSaid), s, created)
         /\ StatusFor(Asked(AllSaid), s)
              = IF Quits(s) THEN "EX_OK"
                ELSE IF Asked(AllSaid).noconf THEN "EX_NOINPUT"
                ELSE IF Len(s) > Len(AskedFirst(AllSaid)) /\ Fails(s, Len(s))
                THEN "EX_DATAERR"
                ELSE IF s # <<>> /\ Len(s) = Len(All) THEN "EX_OK"
                ELSE IF All[Len(s) + 1].from = "file" /\ All[Len(s) + 1].text \notin Readable
                THEN "EX_NOINPUT" ELSE "running"
<1> DEFINE A == Asked(AllSaid)
<1>1. /\ A.fin = options["f"] /\ A.fout = options["o"] /\ ~A.wrong /\ ~A.version
      /\ A.first \o A.then = All /\ A.first = AskedFirst(AllSaid)
  BY AskedIs, AskedFields DEF Known
<1> HIDE DEF A
<1>2. Shows(A, s, created)
  BY <1>1 DEF Shows, Opened
<1>3. StatusFor(A, s)
        = IF Quits(s) THEN "EX_OK"
          ELSE IF A.noconf THEN "EX_NOINPUT"
          ELSE IF Len(s) > Len(A.first) /\ Fails(s, Len(s)) THEN "EX_DATAERR"
          ELSE IF s # <<>> /\ Len(s) = Len(All) THEN "EX_OK"
          ELSE IF All[Len(s) + 1].from = "file" /\ All[Len(s) + 1].text \notin Readable
          THEN "EX_NOINPUT" ELSE "running"
  BY <1>1 DEF StatusFor, Opened
<1> QED BY <1>1, <1>2, <1>3 DEF A

\* t is s and a source more, parsed with this result.
Extends(t, s, result) ==
  /\ IsList(t) /\ Len(t) = Len(s) + 1 /\ Len(s) \in Nat /\ t # <<>>
  /\ Quits(t) <=> result = "quit"
  /\ Fails(t, Len(t)) <=> result = "error"
  /\ \A k \in 1..Len(s) : Fails(t, k) <=> Fails(s, k)

\* A source that was read, after which no source before it has quit.
LEMMA Parsed ==
  ASSUME NEW s, IsList(s), ~Quits(s), NEW from, NEW text, NEW result
  PROVE  Extends(Append(s, [Source(from, text) EXCEPT !.result = result]), s, result)
<1> DEFINE x == [Source(from, text) EXCEPT !.result = result]
           t == Append(s, x)
<1>1. Len(s) \in Nat /\ DOMAIN s = 1..Len(s)
  BY ListFacts
<1>2. x.result = result
  BY DEF Source
<1> HIDE DEF x
<1>3. IsList(t) /\ Len(t) = Len(s) + 1 /\ t[Len(s) + 1] = x
      /\ \A k \in 1..Len(s) : t[k] = s[k]
  BY ListAppend
<1> HIDE DEF t
<1>4. DOMAIN t = 1..Len(s) + 1 /\ t # <<>>
  BY <1>1, <1>3, ListFacts
<1>5. Quits(t) <=> result = "quit"
  <2>1. \A k \in 1..Len(s) : t[k].result # "quit"
    BY <1>1, <1>3 DEF Quits
  <2>2. \A k \in 1..Len(s) + 1 : k = Len(s) + 1 \/ k \in 1..Len(s)
    BY <1>1
  <2>3. Len(s) + 1 \in 1..Len(s) + 1
    BY <1>1
  <2> QED BY <1>2, <1>3, <1>4, <2>1, <2>2, <2>3 DEF Quits
<1>6. Fails(t, Len(t)) <=> result = "error"
  BY <1>1, <1>2, <1>3, <1>4 DEF Fails
<1>7. \A k \in 1..Len(s) : Fails(t, k) <=> Fails(s, k)
  BY <1>1, <1>3, <1>4 DEF Fails
<1> QED BY <1>1, <1>3, <1>4, <1>5, <1>6, <1>7 DEF t, x, Extends

\* The files of -f and -o are opened; one that cannot be is an error.
LEMMA OpenStarted ==
  ASSUME MainInv, Started, open_files PROVE Started'
<1> DEFINE fin == options["f"]
           fout == options["o"]
<1>1. /\ stage = "open" /\ UNCHANGED <<getopt_vars, me, options, sources, opts_given>>
      /\ UNCHANGED <<given, argv0, ordering>>
  BY DEF open_files, getopt_vars
<1>2. /\ given \in Seq(Opts) /\ IsList(sources) /\ sources = <<>> /\ created = {} /\ Known
      /\ ~AskedWrong(AllSaid) /\ ~Given(AllSaid, "v")
  BY <1>1 DEF Started
<1>3. Asked(AllSaid).fin = fin /\ Asked(AllSaid).fout = fout
  BY <1>2, AskedIs, AskedFields DEF Known
<1>4. \/ /\ fin \notin Readable \cup {Unset} /\ stage' = "exit" /\ status' = "EX_NOINPUT"
         /\ created' = created
      \/ /\ fin \in Readable \cup {Unset} /\ fout \notin Creatable \cup {Unset}
         /\ stage' = "exit" /\ status' = "EX_CANTCREAT" /\ created' = created
      \/ /\ fin \in Readable \cup {Unset} /\ fout \in Creatable \cup {Unset}
         /\ stage' = "typedefs" /\ created' = {fout} \ {Unset}
  BY DEF open_files, exit
<1>5. CASE stage' = "exit"
  <2>1. Shows(Asked(AllSaid), sources', created')
    BY <1>1, <1>2, <1>4, <1>5, ShowsNothing DEF MainInv, IInv
  <2>2. status' = StatusFor(Asked(AllSaid), sources')
    BY <1>2, <1>3, <1>4, <1>5, AskedFields DEF StatusFor
  <2>3. StartedRight'
    BY <1>1, <1>2, <2>1, <2>2, ExitIs DEF MainInv, IInv
  <2> QED BY <1>1, <1>2, <1>5, <2>3 DEF Started
<1>6. CASE stage' # "exit"
  <2>1. stage' = "typedefs" /\ Opened'
    BY <1>1, <1>4, <1>6 DEF Opened
  <2>2. Known'
    BY <1>1, <1>2, SameKnown
  <2>3. ~AskedWrong(AllSaid)' /\ ~Given(AllSaid, "v")'
    BY <1>1, <1>2, SameSaid
  <2>4. ~Quits(sources)'
    BY <1>1, <1>2, ShowsNothing DEF MainInv, IInv
  <2> QED BY <1>1, <1>2, <2>1, <2>2, <2>3, <2>4 DEF Started
<1> QED BY <1>5, <1>6

\* What the steps of main leave as it is.
LEMMA MainKeeps ==
  ASSUME Started, Known, Opened, ~AskedWrong(AllSaid), ~Given(AllSaid, "v"), MainFrame
  PROVE  /\ given' \in Seq(Opts) /\ Known' /\ Opened'
         /\ ~AskedWrong(AllSaid)' /\ ~Given(AllSaid, "v")'
         /\ UNCHANGED <<argv0, ordering, me, created>>
<1>1. UNCHANGED <<getopt_vars, me, options, created>> /\ UNCHANGED <<given, argv0, ordering>>
  BY DEF MainFrame, getopt_vars
<1>2. Known'
  BY <1>1, SameKnown
<1>3. ~AskedWrong(AllSaid)' /\ ~Given(AllSaid, "v")'
  BY <1>1, SameSaid
<1> QED BY <1>1, <1>2, <1>3 DEF Started, Opened

\* The predefined types are read, unless -t was given.
LEMMA TypedefsStarted ==
  ASSUME MainInv, Started, c_typedef_init PROVE Started'
<1> DEFINE builtin == Source("builtin", <<>>)
<1>1. stage = "typedefs" /\ stage' = "conf" /\ MainFrame
  BY DEF c_typedef_init
<1>2. /\ IsList(sources) /\ sources = <<>> /\ Known /\ Opened
      /\ ~AskedWrong(AllSaid) /\ ~Given(AllSaid, "v") /\ ~Quits(sources)
  BY <1>1 DEF Started
<1>3. /\ given' \in Seq(Opts) /\ Known' /\ Opened'
      /\ ~AskedWrong(AllSaid)' /\ ~Given(AllSaid, "v")'
      /\ UNCHANGED <<argv0, ordering, me, created>>
  BY <1>1, <1>2, MainKeeps
<1>4. Builtins' = Builtins /\ All' = All
  BY <1>3, SameSaid
<1>5. "t" \in Letters
  BY DEF Letters, no_argument
<1>6. sources' = IF Builtins = 1 THEN <<builtin>> ELSE <<>>
  BY <1>2, <1>5, AskedIs DEF c_typedef_init, Known, Builtins
<1>7. Joins(All, AskedFirst(AllSaid), AskedThen(AllSaid))
  BY AllAsked DEF MainInv, IInv
<1>8. Len(All) \in Nat /\ Len(AskedFirst(AllSaid)) \in Nat
  BY <1>7, FirstAsked, ListFacts DEF Joins
<1>9. IsList(sources') /\ Len(sources') = Builtins /\ ~Quits(sources') /\ ReadFrom(sources', All)
  <2>1. CASE Builtins = 1
    <3>1. /\ IsList(<<builtin>>) /\ Len(<<builtin>>) = 1 /\ <<builtin>>[1] = builtin
          /\ DOMAIN <<builtin>> = 1..1
      BY ListOne, ListFacts
    <3>2. All[1] = builtin /\ Len(All) >= 1
      <4>1. Len(AskedFirst(AllSaid)) >= 1 /\ AskedFirst(AllSaid)[1] = builtin
        BY <2>1, FirstAsked
      <4>2. 1 \in 1..Len(AskedFirst(AllSaid))
        BY <1>8, <4>1
      <4>3. Len(AskedThen(AllSaid)) \in Nat
        BY ThenAsked, ListFacts DEF MainInv, IInv
      <4> QED BY <1>7, <1>8, <4>1, <4>2, <4>3 DEF Joins
    <3>3. Plainly(builtin) = builtin /\ builtin.result # "quit"
      BY DEF Plainly, Source
    <3> HIDE DEF builtin
    <3>4. ReadFrom(<<builtin>>, All)
      BY <1>8, <3>1, <3>2, <3>3 DEF ReadFrom
    <3>5. ~Quits(<<builtin>>)
      BY <3>1, <3>3 DEF Quits
    <3> QED BY <1>6, <2>1, <3>1, <3>4, <3>5
  <2>2. CASE Builtins # 1
    <3>1. Builtins = 0
      BY <2>2 DEF Builtins
    <3>2. ReadFrom(<<>>, All)
      BY <1>8, ListNone DEF ReadFrom
    <3> QED BY <1>2, <1>6, <2>2, <3>1, <3>2, ListNone
  <2> QED BY <2>1, <2>2
<1>10. Len(sources') = Builtins' /\ ReadFrom(sources', All')
  BY <1>4, <1>9
<1> QED BY <1>1, <1>3, <1>9, <1>10 DEF Started

\* How long the list of what argv asks for is.
LEMMA Lengths ==
  ASSUME MainInv
  PROVE  /\ IsList(All) /\ Len(All) \in Nat /\ Len(AskedFirst(AllSaid)) \in Nat
         /\ Len(AskedThen(AllSaid)) \in Nat /\ Len(AskedThen(AllSaid)) > 0
         /\ Len(All) = Len(AskedFirst(AllSaid)) + Len(AskedThen(AllSaid))
         /\ \A k \in 1..Len(AskedFirst(AllSaid)) : All[k] = AskedFirst(AllSaid)[k]
         /\ \A k \in 1..Len(AskedThen(AllSaid)) :
              All[Len(AskedFirst(AllSaid)) + k] = AskedThen(AllSaid)[k]
<1>1. Joins(All, AskedFirst(AllSaid), AskedThen(AllSaid))
  BY AllAsked DEF MainInv, IInv
<1>2. /\ IsList(AskedFirst(AllSaid)) /\ IsList(AskedThen(AllSaid))
      /\ Len(AskedThen(AllSaid)) > 0
  BY FirstAsked, ThenAsked DEF MainInv, IInv
<1> QED BY <1>1, <1>2, ListFacts DEF Joins

\* The configuration file is read, if it is wanted and can be.
LEMMA ConfStarted ==
  ASSUME MainInv, Started, read_conf_file PROVE Started'
<1> DEFINE name == IF options["c"] = Unset THEN Default ELSE options["c"]
           F == Len(AskedFirst(AllSaid))
           t(result) == Append(sources, [Source("conf", name) EXCEPT !.result = result])
           noconf == Asked(AllSaid).noconf
<1>1. stage = "conf" /\ MainFrame
  BY DEF read_conf_file
<1>2. /\ IsList(sources) /\ Known /\ Opened /\ ~AskedWrong(AllSaid) /\ ~Given(AllSaid, "v")
      /\ ~Quits(sources) /\ ReadFrom(sources, All) /\ Len(sources) = Builtins
  BY <1>1 DEF Started
<1>3. /\ given' \in Seq(Opts) /\ Known' /\ Opened'
      /\ ~AskedWrong(AllSaid)' /\ ~Given(AllSaid, "v")'
      /\ UNCHANGED <<argv0, ordering, me, created>>
  BY <1>1, <1>2, MainKeeps
<1>4. /\ Len(AskedFirst(AllSaid))' = F /\ All' = All /\ noconf' = noconf
  BY <1>3, SameSaid
<1>5. /\ AskedConf(AllSaid) = name
      /\ Given(AllSaid, "c") <=> options["c"] # Unset
      /\ Given(AllSaid, "C") <=> options["C"] # Unset
  <2>1. "c" \in Letters /\ "C" \in Letters
    BY DEF Letters, required_argument, no_argument
  <2> QED BY <1>2, <2>1, AskedIs DEF Known
<1>6. /\ ConfWanted <=> options["C"] = Unset /\ name \in Readable
      /\ noconf <=> options["c"] # Unset /\ options["C"] = Unset /\ name \notin Readable
  BY <1>5, AskedFields DEF ConfWanted
<1>7. /\ Builtins \in {0, 1} /\ F = Builtins + (IF ConfWanted THEN 1 ELSE 0)
      /\ F \in Nat /\ Len(All) \in Nat /\ F < Len(All)
      /\ ConfWanted => All[Builtins + 1] = Source("conf", name)
  <2>1. Builtins \in {0, 1}
    BY DEF Builtins
  <2>2. ConfWanted => Builtins + 1 \in 1..F
    BY <2>1, FirstAsked
  <2>3. ConfWanted => All[Builtins + 1] = Source("conf", name)
    BY <1>5, <2>2, Lengths, FirstAsked
  <2>4. F = Builtins + (IF ConfWanted THEN 1 ELSE 0)
    BY FirstAsked
  <2>5. F \in Nat /\ Len(All) \in Nat /\ F < Len(All)
    BY Lengths
  <2> QED BY <2>1, <2>3, <2>4, <2>5
<1> HIDE DEF name, F, noconf
<1>8. CASE ConfWanted
  <2>1. PICK result \in Results :
          /\ sources' = t(result)
          /\ IF result = "quit" THEN stage' = "exit" /\ status' = "EX_OK"
             ELSE stage' = "argv"
    BY <1>6, <1>8 DEF read_conf_file, Parse, exit, name
  <2>2. /\ IsList(sources') /\ Len(sources') = Len(sources) + 1
        /\ Quits(sources') <=> result = "quit"
    <3>1. Extends(t(result), sources, result)
      BY <1>2, Parsed
    <3> QED BY <2>1, <3>1 DEF Extends
  <2>3. ReadFrom(sources', All)
    <3>1. /\ Len(sources) < Len(All) /\ "conf" # "command"
          /\ All[Len(sources) + 1] = Source("conf", name)
      BY <1>2, <1>7, <1>8
    <3>2. ReadFrom(t(result), All)
      BY <1>2, <1>7, <3>1, ReadMore
    <3> QED BY <2>1, <3>2
  <2>4. Len(sources') = F
    BY <1>2, <1>7, <1>8, <2>2
  <2>5. CASE result = "quit"
    <3>1. \A k \in F + 1..Len(sources') - 1 : ~Fails(sources', k)
      BY <1>7, <2>4
    <3>2. /\ Shows(Asked(AllSaid), sources', created)
          /\ StatusFor(Asked(AllSaid), sources') = "EX_OK"
      <4> HIDE DEF t
      <4> QED BY <1>2, <2>2, <2>3, <2>5, <3>1, ShowsRead DEF F
    <3>3. StartedRight'
      BY <1>3, <2>1, <2>2, <2>5, <3>2, ExitIs DEF MainInv, IInv
    <3> QED BY <1>3, <2>1, <2>2, <2>5, <3>3 DEF Started
  <2>6. CASE result # "quit"
    <3>1. stage' = "argv" /\ ~Quits(sources')
      BY <2>1, <2>2, <2>6
    <3>2. ~noconf'
      BY <1>4, <1>6, <1>8
    <3>3. Len(sources') = Len(AskedFirst(AllSaid))' /\ ReadFrom(sources', All')
      BY <1>4, <2>3, <2>4
    <3> QED BY <1>3, <2>2, <3>1, <3>2, <3>3 DEF Started, noconf
  <2> QED BY <2>5, <2>6
<1>9. CASE ~ConfWanted
  <2>1. sources' = sources /\ Len(sources) = F
    BY <1>2, <1>6, <1>7, <1>9 DEF read_conf_file, name
  <2>2. CASE noconf
    <3>1. stage' = "exit" /\ status' = "EX_NOINPUT"
      BY <1>6, <2>2 DEF read_conf_file, exit, name
    <3>2. \A k \in F + 1..Len(sources) - 1 : ~Fails(sources, k)
      BY <1>7, <2>1
    <3>3. /\ Shows(Asked(AllSaid), sources, created)
          /\ StatusFor(Asked(AllSaid), sources) = "EX_NOINPUT"
      BY <1>2, <2>2, <3>2, ShowsRead DEF F, noconf
    <3>4. StartedRight'
      BY <1>2, <1>3, <2>1, <3>1, <3>3, ExitIs DEF MainInv, IInv
    <3> QED BY <1>2, <1>3, <2>1, <3>1, <3>4 DEF Started
  <2>3. CASE ~noconf
    <3>1. stage' = "argv"
      BY <1>6, <1>9, <2>3 DEF read_conf_file, name
    <3>2. ~noconf' /\ Len(sources') = Len(AskedFirst(AllSaid))' /\ ReadFrom(sources', All')
      BY <1>2, <1>4, <2>1, <2>3
    <3> QED BY <1>2, <1>3, <2>1, <3>1, <3>2 DEF Started, noconf
  <2> QED BY <2>2, <2>3
<1> QED BY <1>8, <1>9

-----------------------------------------------------------------------------
(* What main makes of argv.                                                *)

\* What is known when argv and its files are looked at.
LEMMA OnTheWay ==
  ASSUME MainInv, Started, MainFrame, stage \in {"argv", "files"}
  PROVE  /\ IsList(sources) /\ Known /\ Opened /\ ~AskedWrong(AllSaid)
         /\ ~Given(AllSaid, "v") /\ ~Quits(sources) /\ ~Asked(AllSaid).noconf
         /\ Operands = AllSaid.rest /\ AllSaid.rest \in Seq(Elements)
         /\ AskedInput(AllSaid) = Source("fin", Input)
         /\ given' \in Seq(Opts) /\ Known' /\ Opened'
         /\ ~AskedWrong(AllSaid)' /\ ~Given(AllSaid, "v")'
         /\ UNCHANGED <<argv0, ordering, me, created>>
<1>1. /\ IsList(sources) /\ Known /\ Opened /\ ~AskedWrong(AllSaid)
      /\ ~Given(AllSaid, "v") /\ ~Quits(sources) /\ ~Asked(AllSaid).noconf
  BY DEF Started
<1>2. AskedInput(AllSaid) = Source("fin", Input)
  BY <1>1, AskedIs DEF Known
<1>3. AllSaid.rest \in Seq(Elements)
  BY SaidTyped DEF MainInv, IInv
<1>4. Operands = AllSaid.rest
  BY <1>1 DEF Known
<1> QED BY <1>1, <1>2, <1>3, <1>4, MainKeeps

\* The command or the input is the only source that argv asks for.
LEMMA LastStarted ==
  ASSUME MainInv, Started, stage = "argv", MainFrame,
         AllSaid.rest = <<>> \/ AsksCommand(AllSaid),
         NEW from, NEW text, NEW result \in Results,
         AskedThen(AllSaid)[1] = Source(from, IF from = "command" THEN Words(text) ELSE text),
         sources' = Append(sources, [Source(from, text) EXCEPT !.result = result]),
         stage' = "exit", status' = IF result = "error" THEN "EX_DATAERR" ELSE "EX_OK"
  PROVE  Started'
<1> DEFINE F == Len(AskedFirst(AllSaid))
           t == Append(sources, [Source(from, text) EXCEPT !.result = result])
<1>1. /\ IsList(sources) /\ Known /\ Opened /\ ~AskedWrong(AllSaid)
      /\ ~Given(AllSaid, "v") /\ ~Quits(sources) /\ ~Asked(AllSaid).noconf
      /\ given' \in Seq(Opts) /\ UNCHANGED <<argv0, ordering, me, created>>
  BY OnTheWay
<1>2. ReadFrom(sources, All) /\ Len(sources) = F
  BY DEF Started
<1>3. /\ F \in Nat /\ Len(All) \in Nat /\ Len(All) = F + 1
      /\ All[F + 1] = AskedThen(AllSaid)[1]
  <2>1. Len(AskedThen(AllSaid)) = 1
    BY ThenAsked DEF MainInv, IInv
  <2> QED BY <2>1, Lengths
<1> HIDE DEF F
<1>4. ReadFrom(t, All)
  <2>1. /\ Len(sources) < Len(All)
        /\ All[Len(sources) + 1]
             = Source(from, IF from = "command" THEN Words(text) ELSE text)
    BY <1>2, <1>3
  <2> QED BY <1>1, <1>2, <1>3, <2>1, ReadMore
<1>5. Extends(t, sources, result)
  BY <1>1, Parsed
<1> HIDE DEF t
<1>6. /\ IsList(t) /\ Len(t) = F + 1 /\ t # <<>>
      /\ Quits(t) <=> result = "quit"
      /\ Fails(t, Len(t)) <=> result = "error"
  BY <1>2, <1>5 DEF Extends
<1>7. \A k \in F + 1..Len(t) - 1 : ~Fails(t, k)
  BY <1>3, <1>6
<1>8. /\ Shows(Asked(AllSaid), t, created)
      /\ StatusFor(Asked(AllSaid), t) = IF result = "error" THEN "EX_DATAERR" ELSE "EX_OK"
  <2>1. /\ Shows(Asked(AllSaid), t, created)
        /\ StatusFor(Asked(AllSaid), t)
             = IF Quits(t) THEN "EX_OK"
               ELSE IF Asked(AllSaid).noconf THEN "EX_NOINPUT"
               ELSE IF Len(t) > Len(AskedFirst(AllSaid)) /\ Fails(t, Len(t))
               THEN "EX_DATAERR"
               ELSE IF t # <<>> /\ Len(t) = Len(All) THEN "EX_OK"
               ELSE IF All[Len(t) + 1].from = "file" /\ All[Len(t) + 1].text \notin Readable
               THEN "EX_NOINPUT" ELSE "running"
    BY <1>1, <1>4, <1>7, ShowsRead DEF F
  <2>2. Len(t) > Len(AskedFirst(AllSaid)) /\ Len(t) = Len(All)
    BY <1>3, <1>6 DEF F
  <2> QED BY <1>1, <1>6, <2>1, <2>2
<1>9. StartedRight'
  BY <1>1, <1>6, <1>8, ExitIs DEF MainInv, IInv, t
<1> QED BY <1>1, <1>6, <1>9 DEF Started, t

\* The first word of the first operand tells whether it is a command.
LEMMA CommandIs ==
  ASSUME NEW e \in Elements
  PROVE  /\ is_command(Cut(e)) <=>
              e.dash = 0 /\ e.text # <<>> /\ Head(e.text) \in commands
         /\ is_command(e) => is_command(Cut(e))
         /\ e = Dash => Cut(e) = e
<1>1. CASE e.text = <<>>
  <2>1. Cut(e) = e
    BY <1>1 DEF Cut, Elements
  <2>2. ~is_command(e)
    BY <1>1 DEF is_command
  <2> QED BY <1>1, <2>1, <2>2
<1>2. CASE e.text # <<>>
  <2>1. Cut(e) = [e EXCEPT !.text = <<Head(e.text)>>]
    BY <1>2 DEF Cut
  <2>2. Cut(e).dash = e.dash /\ Cut(e).text = <<Head(e.text)>>
    BY <2>1 DEF Elements
  <2>3. Len(<<Head(e.text)>>) = 1 /\ Head(<<Head(e.text)>>) = Head(e.text)
    OBVIOUS
  <2>4. is_command(Cut(e)) <=> e.dash = 0 /\ Head(e.text) \in commands
    BY <2>2, <2>3 DEF is_command
  <2>5. e # Dash
    BY <1>2 DEF Dash, Element
  <2> QED BY <1>2, <2>4, <2>5 DEF is_command
<1> QED BY <1>1, <1>2

\* Nothing, then a sequence.
LEMMA NoneBefore == ASSUME NEW s \in Seq(Elements) PROVE <<>> \o s = s
OBVIOUS

\* The program takes its operands as a command, as files, or reads its input.
LEMMA ArgvStarted ==
  ASSUME MainInv, Started, parse_argv PROVE Started'
<1> DEFINE rest == AllSaid.rest
           h == Head(rest)
           first == Cut(h)
<1>1. stage = "argv" /\ MainFrame
  BY DEF parse_argv
<1>2. /\ IsList(sources) /\ Known /\ Opened /\ ~AskedWrong(AllSaid)
      /\ ~Given(AllSaid, "v") /\ ~Quits(sources) /\ ~Asked(AllSaid).noconf
      /\ Operands = rest /\ rest \in Seq(Elements)
      /\ AskedInput(AllSaid) = Source("fin", Input)
      /\ given' \in Seq(Opts) /\ Known' /\ Opened'
      /\ ~AskedWrong(AllSaid)' /\ ~Given(AllSaid, "v")'
      /\ UNCHANGED <<argv0, ordering, me, created>>
  BY <1>1, OnTheWay
<1>3. /\ rest = <<>> => AskedThen(AllSaid)[1] = AskedInput(AllSaid)
      /\ rest # <<>> /\ AsksCommand(AllSaid) =>
           AskedThen(AllSaid)[1] =
             Source("command", Words((IF is_command(me) THEN <<me>> ELSE <<>>) \o rest))
      /\ rest # <<>> /\ ~AsksCommand(AllSaid) =>
           AskedThen(AllSaid)[1] = IF rest[1] = Dash THEN AskedInput(AllSaid)
                                   ELSE Source("file", rest[1])
  <2>1. rest # <<>> => 1 \in 1..Len(rest)
    <3> HIDE DEF rest
    <3> QED BY <1>2
  <2> QED BY <2>1, ThenAsked DEF MainInv, IInv
<1>4. rest # <<>> => h \in Elements /\ h = rest[1]
  <2> HIDE DEF rest
  <2> QED BY <1>2
<1>5. AsksCommand(AllSaid) <=>
        is_command(me) \/ (h.dash = 0 /\ h.text # <<>> /\ Head(h.text) \in commands)
  BY DEF AsksCommand
<1>6. rest # <<>> =>
        /\ AsksCommand(AllSaid) <=> is_command(me) \/ is_command(first)
        /\ is_command(h) => is_command(first)
        /\ h = Dash => first = h
  <2> HIDE DEF rest, h
  <2> QED BY <1>4, <1>5, CommandIs
<1>7. CASE rest = <<>>
  <2>1. PICK result \in Results :
          /\ sources' = Append(sources, [Source("fin", Input) EXCEPT !.result = result])
          /\ stage' = "exit" /\ status' = IF result = "error" THEN "EX_DATAERR" ELSE "EX_OK"
    BY <1>2, <1>7 DEF parse_argv, parse_stdin, Parse, ExitWith, exit
  <2>2. AskedThen(AllSaid)[1] = Source("fin", IF "fin" = "command" THEN Words(Input) ELSE Input)
    BY <1>2, <1>3, <1>7
  <2> QED BY <1>1, <1>7, <2>1, <2>2, LastStarted
<1>8. CASE rest # <<>> /\ AsksCommand(AllSaid)
  <2>1. \E result \in Results : \E text :
          /\ Words(text) = Words((IF is_command(me) THEN <<me>> ELSE <<>>) \o rest)
          /\ sources' = Append(sources, [Source("command", text) EXCEPT !.result = result])
          /\ stage' = "exit" /\ status' = IF result = "error" THEN "EX_DATAERR" ELSE "EX_OK"
    <3> HIDE DEF rest
    <3>1. CASE is_command(me)
      BY <1>2, <1>8, <3>1
         DEF parse_argv, parse_command_line, Parse, ExitWith, exit
    <3>2. CASE ~is_command(me) /\ is_command(h)
      BY <1>2, <1>8, <3>2, Zenon
         DEF parse_argv, parse_command_line, Parse, ExitWith, exit
    <3>3. CASE ~is_command(me) /\ ~is_command(h)
      <4>1. is_command(first)
        BY <1>6, <1>8, <3>3
      <4>2. Words(<<first, Plain(Tail(h.text))>> \o Tail(rest)) = Words(rest)
        BY <1>2, <1>5, <1>8, <3>3, WordsSplit
      <4>3. <<>> \o rest = rest
        BY <1>2, NoneBefore
      <4> QED BY <1>2, <1>8, <3>3, <4>1, <4>2, <4>3
              DEF parse_argv, parse_command_line, Parse, ExitWith, exit
    <3> QED BY <3>1, <3>2, <3>3
  <2>2. PICK result \in Results : \E text :
          /\ Words(text) = Words((IF is_command(me) THEN <<me>> ELSE <<>>) \o rest)
          /\ sources' = Append(sources, [Source("command", text) EXCEPT !.result = result])
          /\ stage' = "exit" /\ status' = IF result = "error" THEN "EX_DATAERR" ELSE "EX_OK"
    BY <2>1
  <2>3. PICK text :
          /\ Words(text) = Words((IF is_command(me) THEN <<me>> ELSE <<>>) \o rest)
          /\ sources' = Append(sources, [Source("command", text) EXCEPT !.result = result])
          /\ stage' = "exit" /\ status' = IF result = "error" THEN "EX_DATAERR" ELSE "EX_OK"
    BY <2>2
  <2>4. AskedThen(AllSaid)[1]
          = Source("command", IF "command" = "command" THEN Words(text) ELSE text)
    BY <1>3, <1>8, <2>3
  <2> QED BY <1>1, <1>8, <2>3, <2>4, LastStarted
<1>9. CASE rest # <<>> /\ ~AsksCommand(AllSaid)
  <2>1. stage' = "files" /\ files' = <<first>> \o Tail(rest) /\ sources' = sources
    BY <1>2, <1>6, <1>9 DEF parse_argv
  <2>2. BlankName(Asked(AllSaid)) \/ first = h
    <3>1. ASSUME first # h PROVE BlankName(Asked(AllSaid))
      <4>1. AskedThen(AllSaid)[1] = Source("file", h)
        BY <1>3, <1>4, <1>6, <1>9, <3>1
      <4>2. Head(AskedThen(AllSaid)) = AskedThen(AllSaid)[1]
        OBVIOUS
      <4> QED BY <1>9, <3>1, <4>1, <4>2, AskedFields DEF BlankName, Source
    <3> QED BY <3>1
  <2>3. ASSUME first = h PROVE FilesRead'
    <3>1. files' = SubSeq(rest, 0 + 1, Len(rest)) /\ 0 \in 0..Len(rest) - 1
      <4>1. files' = <<rest[1]>> \o Tail(rest)
        BY <1>4, <1>9, <2>1, <2>3
      <4> HIDE DEF rest
      <4>2. Len(rest) \in Nat \ {0}
        BY <1>2, <1>9
      <4>3. <<rest[1]>> \o Tail(rest) = rest
        BY <1>2, <1>9, <4>2
      <4>4. SubSeq(rest, 1, Len(rest)) = rest
        BY <1>2, <4>2
      <4> QED BY <4>1, <4>2, <4>3, <4>4
    <3>2. Len(sources) = Len(AskedFirst(AllSaid)) /\ ReadFrom(sources, All)
      BY <1>1 DEF Started
    <3>3. Len(AskedFirst(AllSaid)) + 0 = Len(AskedFirst(AllSaid))
      BY Lengths
    <3>4. /\ Len(sources') = Len(AskedFirst(AllSaid))' + 0 /\ ReadFrom(sources', All')
          /\ AllSaid' = AllSaid
      BY <1>2, <2>1, <3>2, <3>3, SameSaid
    <3>5. \A k \in 1..0 : ~Fails(sources', Len(AskedFirst(AllSaid))' + k)
      OBVIOUS
    <3> QED BY <3>1, <3>4, <3>5 DEF FilesRead
  <2>4. /\ AllSaid'.rest # <<>> /\ ~AsksCommand(AllSaid)' /\ ~Asked(AllSaid)'.noconf
        /\ BlankName(Asked(AllSaid))' <=> BlankName(Asked(AllSaid))
    BY <1>2, <1>9, SameSaid DEF BlankName
  <2> QED BY <1>2, <2>1, <2>2, <2>3, <2>4 DEF Started
<1> QED BY <1>7, <1>8, <1>9

\* The next of the files is read.
LEMMA FilesStarted ==
  ASSUME MainInv, Started, parse_files PROVE Started'
<1> DEFINE rest == AllSaid.rest
           F == Len(AskedFirst(AllSaid))
           e == Head(files)
           from == IF e = Dash THEN "fin" ELSE "file"
           text == IF e = Dash THEN Input ELSE e
           t(result) == Append(sources, [Source(from, text) EXCEPT !.result = result])
<1>1. stage = "files" /\ MainFrame /\ files' = Tail(files)
  BY DEF parse_files
<1>2. /\ IsList(sources) /\ Known /\ Opened /\ ~AskedWrong(AllSaid)
      /\ ~Given(AllSaid, "v") /\ ~Quits(sources) /\ ~Asked(AllSaid).noconf
      /\ rest \in Seq(Elements)
      /\ AskedInput(AllSaid) = Source("fin", Input)
      /\ given' \in Seq(Opts) /\ Known' /\ Opened'
      /\ ~AskedWrong(AllSaid)' /\ ~Given(AllSaid, "v")'
      /\ UNCHANGED <<argv0, ordering, me, created>>
  BY <1>1, OnTheWay
<1>3. /\ rest # <<>> /\ ~AsksCommand(AllSaid)
      /\ BlankName(Asked(AllSaid)) \/ FilesRead
  BY <1>1 DEF Started
<1>4. /\ AllSaid' = AllSaid /\ All' = All /\ Len(AskedFirst(AllSaid))' = F
      /\ ~AsksCommand(AllSaid)' /\ ~Asked(AllSaid)'.noconf
      /\ BlankName(Asked(AllSaid))' <=> BlankName(Asked(AllSaid))
  BY <1>2, <1>3, SameSaid DEF BlankName
\* A source that is read, or a file that cannot be.
<1>5. \/ \E result \in Results :
           /\ sources' = t(result) /\ (e = Dash \/ e \in Readable)
           /\ IF result = "quit" THEN stage' = "exit" /\ status' = "EX_OK"
              ELSE IF result = "error" \/ Len(files) = 1
              THEN stage' = "exit" /\ status' = IF result = "error" THEN "EX_DATAERR"
                                                ELSE "EX_OK"
              ELSE stage' = stage
      \/ /\ e # Dash /\ e \notin Readable /\ sources' = sources
         /\ stage' = "exit" /\ status' = "EX_NOINPUT"
  <2>1. CASE e = Dash
    BY <2>1 DEF parse_files, parse_stdin, Parse, ExitWith, exit
  <2>2. CASE e # Dash /\ e \in Readable
    BY <2>2 DEF parse_files, parse_stdin, Parse, ExitWith, exit
  <2>3. CASE e # Dash /\ e \notin Readable
    BY <2>3 DEF parse_files, parse_stdin, Parse, ExitWith, exit
  <2> QED BY <2>1, <2>2, <2>3
<1>6. \A result : Extends(t(result), sources, result)
  BY <1>2, Parsed
<1>7. IsList(sources') /\ (stage' = "files" => ~Quits(sources'))
  <2> HIDE DEF t
  <2> QED BY <1>1, <1>2, <1>5, <1>6 DEF Extends
<1>8. stage' \in {"files", "exit"}
  <2> HIDE DEF t
  <2> QED BY <1>1, <1>5
<1>9. CASE BlankName(Asked(AllSaid))
  <2>1. StartedRight'
    BY <1>2, <1>7, <1>9, ExitIs DEF MainInv, IInv
  <2> HIDE DEF t
  <2> QED BY <1>2, <1>3, <1>4, <1>7, <1>8, <1>9, <2>1 DEF Started
<1>10. CASE FilesRead
  <2> DEFINE n == Len(rest)
  <2>1. PICK j \in 0..n - 1 :
          /\ Len(sources) = F + j /\ ReadFrom(sources, All)
          /\ files = SubSeq(rest, j + 1, n)
          /\ \A k \in 1..j : ~Fails(sources, F + k)
    BY <1>10 DEF FilesRead
  <2>2. n \in Nat /\ j \in Nat /\ j < n /\ j + 1 \in 1..n /\ F \in Nat
    <3>1. n \in Nat
      <4> HIDE DEF rest
      <4> QED BY <1>2
    <3> HIDE DEF n
    <3> QED BY <3>1, Lengths
  <2>3. Len(files) = n - j /\ e = rest[j + 1] /\ Tail(files) = SubSeq(rest, (j + 1) + 1, n)
    <3>1. rest \in Seq(Elements)
      BY <1>2
    <3> HIDE DEF rest, n
    <3>2. Len(files) = n - j
      BY <2>1, <2>2, <3>1
    <3>3. Head(files) = rest[j + 1]
      BY <2>1, <2>2, <3>1
    <3>4. Tail(files) = SubSeq(rest, (j + 1) + 1, n)
      BY <2>1, <2>2, <3>1
    <3> QED BY <3>2, <3>3, <3>4
  <2>4. /\ Len(All) \in Nat /\ Len(All) = F + n /\ Len(sources) < Len(All)
        /\ All[Len(sources) + 1] = Source(from, text)
    <3>1. /\ Len(AskedThen(AllSaid)) = n
          /\ AskedThen(AllSaid)[j + 1] = Source(from, text)
      BY <1>2, <1>3, <2>2, <2>3, ThenAsked DEF MainInv, IInv
    <3>2. /\ Len(All) \in Nat /\ Len(All) = F + n
          /\ All[F + (j + 1)] = AskedThen(AllSaid)[j + 1]
      BY <2>2, <3>1, Lengths
    <3>3. F + (j + 1) = (F + j) + 1 /\ F + j < F + n
      BY <2>2
    <3> QED BY <2>1, <3>1, <3>2, <3>3
  <2> HIDE DEF rest, n, F, e, from, text, t
  <2>5. CASE e # Dash /\ e \notin Readable
    <3>1. /\ sources' = sources /\ stage' = "exit" /\ status' = "EX_NOINPUT"
      BY <1>5, <2>5
    <3>2. \A k \in F + 1..Len(sources) : ~Fails(sources, k)
      <4>1. TAKE k \in F + 1..Len(sources)
      <4>2. k - F \in 1..j /\ F + (k - F) = k
        BY <2>1, <2>2
      <4> QED BY <2>1, <4>2
    <3>3. ~(Len(sources) > F /\ Fails(sources, Len(sources)))
      BY <2>1, <2>2, <3>2
    <3>4. /\ All[Len(sources) + 1].from = "file" /\ All[Len(sources) + 1].text = e
      BY <2>4, <2>5 DEF Source, from, text
    <3>5. \A k \in F + 1..Len(sources) - 1 : ~Fails(sources, k)
      BY <2>1, <2>2, <3>2
    <3>6. /\ Shows(Asked(AllSaid), sources, created)
          /\ StatusFor(Asked(AllSaid), sources) = "EX_NOINPUT"
      <4>1. /\ Shows(Asked(AllSaid), sources, created)
            /\ StatusFor(Asked(AllSaid), sources)
                 = IF Quits(sources) THEN "EX_OK"
                   ELSE IF Asked(AllSaid).noconf THEN "EX_NOINPUT"
                   ELSE IF Len(sources) > Len(AskedFirst(AllSaid)) /\ Fails(sources, Len(sources))
                   THEN "EX_DATAERR"
                   ELSE IF sources # <<>> /\ Len(sources) = Len(All) THEN "EX_OK"
                   ELSE IF /\ All[Len(sources) + 1].from = "file"
                           /\ All[Len(sources) + 1].text \notin Readable
                   THEN "EX_NOINPUT" ELSE "running"
        BY <1>2, <2>1, <3>5, ShowsRead DEF F
      <4>2. Len(sources) # Len(All)
        BY <2>1, <2>2, <2>4
      <4> QED BY <1>2, <2>5, <3>3, <3>4, <4>1, <4>2 DEF F
    <3>7. StartedRight'
      BY <1>2, <3>1, <3>6, ExitIs DEF MainInv, IInv
    <3> QED BY <1>2, <1>7, <3>1, <3>7 DEF Started
  <2>6. CASE e = Dash \/ e \in Readable
    <3>1. PICK result \in Results :
           /\ sources' = t(result)
           /\ IF result = "quit" THEN stage' = "exit" /\ status' = "EX_OK"
              ELSE IF result = "error" \/ Len(files) = 1
              THEN stage' = "exit" /\ status' = IF result = "error" THEN "EX_DATAERR"
                                                ELSE "EX_OK"
              ELSE stage' = stage
      BY <1>5, <2>6
    <3>2. Extends(sources', sources, result)
      BY <1>6, <3>1
    <3>3. ReadFrom(sources', All)
      <4>1. All[Len(sources) + 1]
              = Source(from, IF from = "command" THEN Words(text) ELSE text)
        BY <2>4 DEF from
      <4>2. ReadFrom(t(result), All)
        BY <1>2, <2>1, <2>4, <4>1, ReadMore DEF t
      <4> QED BY <3>1, <4>2
    <3>4. /\ Len(sources') = F + (j + 1) /\ sources' # <<>>
          /\ Quits(sources') <=> result = "quit"
          /\ Fails(sources', Len(sources')) <=> result = "error"
      BY <2>1, <2>2, <3>2 DEF Extends
    <3>5. \A k \in F + 1..Len(sources') - 1 : ~Fails(sources', k)
      <4>1. TAKE k \in F + 1..Len(sources') - 1
      <4>2. k - F \in 1..j /\ F + (k - F) = k /\ k \in 1..Len(sources)
        BY <2>1, <2>2, <3>4
      <4> QED BY <2>1, <3>2, <4>2 DEF Extends
    <3>6. CASE stage' = "exit"
      <4>1. /\ Shows(Asked(AllSaid), sources', created)
            /\ StatusFor(Asked(AllSaid), sources')
                 = IF Quits(sources') THEN "EX_OK"
                   ELSE IF Asked(AllSaid).noconf THEN "EX_NOINPUT"
                   ELSE IF Len(sources') > Len(AskedFirst(AllSaid))
                           /\ Fails(sources', Len(sources'))
                   THEN "EX_DATAERR"
                   ELSE IF sources' # <<>> /\ Len(sources') = Len(All) THEN "EX_OK"
                   ELSE IF /\ All[Len(sources') + 1].from = "file"
                           /\ All[Len(sources') + 1].text \notin Readable
                   THEN "EX_NOINPUT" ELSE "running"
        BY <1>2, <3>3, <3>5, ShowsRead DEF F
      <4>2. Len(sources') > F
        BY <2>2, <3>4
      <4>3. Len(files) = 1 => Len(sources') = Len(All)
        <5>1. n - j = 1 => F + (j + 1) = F + n
          BY <2>2
        <5> QED BY <2>3, <2>4, <3>4, <5>1
      <4>4. result = "quit" \/ result = "error" \/ Len(files) = 1
        BY <1>1, <3>1, <3>6
      <4>5. status' = IF result = "error" THEN "EX_DATAERR" ELSE "EX_OK"
        BY <1>1, <3>1, <3>6
      <4>6. status' = StatusFor(Asked(AllSaid), sources')
        BY <1>2, <3>4, <4>1, <4>2, <4>3, <4>4, <4>5 DEF F
      <4>7. StartedRight'
        BY <1>2, <1>7, <4>1, <4>6, ExitIs DEF MainInv, IInv
      <4> QED BY <1>2, <1>7, <3>6, <4>7 DEF Started
    <3>7. CASE stage' # "exit"
      <4>1. result # "quit" /\ result # "error" /\ Len(files) # 1 /\ stage' = "files"
        BY <1>1, <3>1, <3>7
      <4>2. j + 1 \in 0..n - 1
        BY <2>2, <2>3, <4>1
      <4>3. \A k \in 1..j + 1 : ~Fails(sources', F + k)
        <5>1. TAKE k \in 1..j + 1
        <5>2. F + k \in F + 1..Len(sources') - 1 \/ F + k = Len(sources')
          BY <2>2, <3>4
        <5> QED BY <3>4, <3>5, <4>1, <5>2
      <4>4. FilesRead'
        BY <1>1, <1>4, <2>3, <3>3, <3>4, <4>2, <4>3 DEF FilesRead, n, rest, F
      <4> QED BY <1>2, <1>3, <1>4, <1>7, <4>1, <4>4 DEF Started, rest
    <3> QED BY <3>6, <3>7
  <2> QED BY <2>5, <2>6
<1> QED BY <1>3, <1>9, <1>10

\* The program has read nothing yet.
LEMMA InitStarted == Init => Started
<1> SUFFICES ASSUME Init PROVE Started
  OBVIOUS
<1>1. /\ stage = "options" /\ given = <<>> /\ ~Fresh /\ sources = <<>> /\ created = {}
      /\ options = [l \in Letters |-> Unset]
  BY DEF Init, GetOptInit, Fresh
<1>2. <<>> \in Seq(Opts) /\ IsList(<<>>) /\ DOMAIN <<>> = {}
  BY ListNone
<1>3. \A l : LastOf(<<>>, l, Unset) = Unset
  BY <1>2 DEF LastOf
<1>4. SetFrom(Handled)
  BY <1>1, <1>2, <1>3 DEF SetFrom, Handled
<1> QED BY <1>1, <1>2, <1>4 DEF Started

\* Each step of the program does what the arguments ask.
LEMMA NextStarted ==
  MainInv /\ MainInv' /\ OptionsRight /\ Started /\ [Next]_vars => Started'
<1> SUFFICES ASSUME MainInv, MainInv', OptionsRight, Started, [Next]_vars PROVE Started'
  OBVIOUS
<1>1. CASE Exited \/ UNCHANGED vars
  <2>1. UNCHANGED <<getopt_vars, me, options, stage, created, sources, files, status>>
    BY <1>1 DEF Exited, vars, main_vars
  <2>2. UNCHANGED <<given, argv0, ordering, pc, opt>>
    BY <2>1 DEF getopt_vars
  <2>3. /\ AllSaid' = AllSaid /\ Asked(AllSaid)' = Asked(AllSaid) /\ All' = All
        /\ AskedFirst(AllSaid)' = AskedFirst(AllSaid) /\ Builtins' = Builtins
        /\ AskedWrong(AllSaid)' = AskedWrong(AllSaid)
        /\ AsksCommand(AllSaid)' = AsksCommand(AllSaid)
    BY <2>1, <2>2, SameSaid
  <2>4. Known' <=> Known
    BY <2>1, SameKnown
  <2>5. /\ SetFrom(Handled)' <=> SetFrom(Handled)
        /\ Fresh' <=> Fresh
        /\ Opened' <=> Opened
        /\ FilesRead' <=> FilesRead
    BY <2>1, <2>2, <2>3 DEF SetFrom, Handled, Fresh, Opened, FilesRead
  <2>6. stage = "exit" => StartedRight'
    <3>1. SUFFICES ASSUME stage = "exit" PROVE StartedRight'
      OBVIOUS
    <3>2. StartedRight
      BY <3>1 DEF Started
    <3>3. Asked(Said(argv0, ordering))' = Asked(Said(argv0, ordering))
      BY <2>3 DEF AllSaid
    <3> QED BY <2>1, <3>2, <3>3
            DEF StartedRight, StartedAs, StatusOf, Failed, Quit
  <2> QED BY <2>1, <2>2, <2>3, <2>4, <2>5, <2>6 DEF Started, BlankName
<1>2. CASE getopt \/ parse_options \/ usage \/ NoMoreOptions \/ check_mutually_exclusive
  BY <1>2, GetOptStarted, ParseOptionsStarted, UsageStarted, NoMoreStarted, CheckStarted
<1>3. CASE open_files \/ c_typedef_init \/ read_conf_file \/ parse_argv \/ parse_files
  BY <1>3, OpenStarted, TypedefsStarted, ConfStarted, ArgvStarted, FilesStarted
<1> QED BY <1>1, <1>2, <1>3 DEF Next, Step

\* What is known at each stage tells that the program does what it is asked.
LEMMA StartedShows == MainInv /\ Started => StartedRight
<1> SUFFICES ASSUME MainInv, Started, stage # "exit" PROVE StartedRight
  BY DEF Started
<1>1. argv0 \in Seq(Elements) /\ IsList(sources)
  BY DEF MainInv, IInv, Started
<1>2. CASE stage \in {"options", "check", "open"}
  <2>1. sources = <<>> /\ created = {}
    BY <1>2 DEF Started
  <2>2. Shows(Asked(AllSaid), sources, created)
    BY <1>1, <2>1, ShowsNothing
  <2> QED BY <1>1, <2>2, StartedIs
<1>3. CASE stage \in {"typedefs", "conf", "argv", "files"}
  <2>1. Known /\ Opened /\ ~AskedWrong(AllSaid) /\ ~Given(AllSaid, "v")
    BY <1>3 DEF Started
  <2>2. \/ BlankName(Asked(AllSaid))
        \/ /\ ReadFrom(sources, All)
           /\ \A k \in Len(AskedFirst(AllSaid)) + 1..Len(sources) - 1 : ~Fails(sources, k)
    <3>1. Len(AskedFirst(AllSaid)) \in Nat /\ Len(sources) \in Nat /\ Len(All) \in Nat
      BY <1>1, Lengths, ListFacts
    <3>2. CASE stage = "typedefs"
      BY <3>1, <3>2, ListNone DEF Started, ReadFrom
    <3>3. CASE stage \in {"conf", "argv"}
      <4>1. ReadFrom(sources, All) /\ Len(sources) <= Len(AskedFirst(AllSaid))
        <5>1. Builtins \in {0, 1} /\ Builtins <= Len(AskedFirst(AllSaid))
          BY FirstAsked DEF Builtins
        <5>2. \/ Len(sources) = Builtins
              \/ Len(sources) = Len(AskedFirst(AllSaid))
          BY <3>3 DEF Started
        <5>3. ReadFrom(sources, All)
          BY <3>3 DEF Started
        <5> QED BY <3>1, <5>1, <5>2, <5>3
      <4> QED BY <3>1, <4>1
    <3>4. CASE stage = "files" /\ FilesRead
      <4>1. PICK j \in 0..Len(AllSaid.rest) - 1 :
              /\ Len(sources) = Len(AskedFirst(AllSaid)) + j /\ ReadFrom(sources, All)
              /\ \A k \in 1..j : ~Fails(sources, Len(AskedFirst(AllSaid)) + k)
        BY <3>4 DEF FilesRead
      <4>2. ASSUME NEW k \in Len(AskedFirst(AllSaid)) + 1..Len(sources) - 1
            PROVE  ~Fails(sources, k)
        <5> DEFINE F == Len(AskedFirst(AllSaid))
        <5>1. F \in Nat /\ k \in F + 1..(F + j) - 1 /\ j \in Int
          BY <3>1, <4>1
        <5> HIDE DEF F
        <5>2. k - F \in 1..j /\ F + (k - F) = k
          BY <5>1
        <5> QED BY <4>1, <5>2 DEF F
      <4> QED BY <4>1, <4>2
    <3>5. stage = "files" => BlankName(Asked(AllSaid)) \/ FilesRead
      BY DEF Started
    <3> QED BY <1>3, <3>2, <3>3, <3>4, <3>5
  <2>3. BlankName(Asked(AllSaid)) \/ Shows(Asked(AllSaid), sources, created)
    BY <2>1, <2>2, ShowsRead
  <2> QED BY <1>1, <2>3, StartedIs
<1> QED BY <1>2, <1>3 DEF MainInv, TypeOK

\* Whatever the arguments are, and whichever files there are: what is read is what
\* the arguments ask for, in that order and up to the first that fails, the output
\* is created only if they are right, and the exit status tells what went wrong.
THEOREM StartedCorrect == Spec => []StartedRight
BY InitMain, NextMain, InitStarted, NextStarted, StartedShows, StartupOptions, PTL DEF Spec
=============================================================================
