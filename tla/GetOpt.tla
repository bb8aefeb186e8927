------------------------------- MODULE GetOpt -------------------------------
(***************************************************************************)
(* getopt_long (lib/getopt.c), as options.c calls it: again and again, until *)
(* it returns -1 or '?'.  It permutes argv as it goes, so that when it is   *)
(* done the options precede what is not an option.                         *)
(*                                                                         *)
(* A call is several steps: the exchange of the options just processed with *)
(* the non-options before them, a turn of its loop at a time; the skipping  *)
(* of further non-options; and the option.  A first character of '-' or '+' *)
(* in SHORT_OPTS, optional arguments and long_only are not used by cdecl.  *)
(*                                                                         *)
(* A definition whose name ends in an underscore and a word in capitals is *)
(* the one after it with a mistake that a property must notice.            *)
(***************************************************************************)
EXTENDS Integers, Sequences, FiniteSets, SequencesExt

CONSTANTS Arguments, \* argument lists, without the name of the program
          Orderings  \* of AllOrderings: POSIXLY_CORRECT is set or not

AllOrderings == {"PERMUTE", "REQUIRE_ORDER"}

(* An element of argv.  "word word" has no dash; "-" and "-abtext" have one, *)
(* "--" and "--name=text" have two.  A text is the sequence of its words,   *)
(* empty if there is none.                                                 *)
Element(dash, letters, name, text) ==
  [dash |-> dash, letters |-> letters, name |-> name, text |-> text]
Plain(text) == Element(0, <<>>, <<>>, text)
Dash == Element(1, <<>>, <<>>, <<>>)
Short(letters, text) == Element(1, letters, <<>>, text)
Long(name, text) == Element(2, <<>>, name, text)
DashDash == Long(<<>>, <<>>)
NULL == Element(3, <<>>, <<>>, <<>>)

NONOPTION_P(e) == e.dash = 0 \/ (e.dash = 1 /\ e.letters = <<>> /\ e.text = <<>>)

\* SHORT_OPTS; '?' stands for any other letter.
required_argument == {"c", "f", "k", "o", "x"}
no_argument == {"C", "i", "q", "s", "t", "v"}

\* LONG_OPTS.  A name is the sequence of the parts at which the names diverge.
LONG_OPTS ==
  {[name |-> <<"co", "nfig">>, val |-> "c"], [name |-> <<"co", "lor">>, val |-> "k"],
   [name |-> <<"no-", "config">>, val |-> "C"],
   [name |-> <<"no-", "semicolon">>, val |-> "s"],
   [name |-> <<"no-", "typedefs">>, val |-> "t"],
   [name |-> <<"f", "ile">>, val |-> "f"], [name |-> <<"h", "elp">>, val |-> "h"],
   [name |-> <<"i", "nteractive">>, val |-> "i"],
   [name |-> <<"o", "utput">>, val |-> "o"], [name |-> <<"q", "uiet">>, val |-> "q"],
   [name |-> <<"v", "ersion">>, val |-> "v"], [name |-> <<"l", "anguage">>, val |-> "x"]}

(* Letters without an argument may be followed by one with an argument, whose *)
(* argument is the rest of the element, if any.                            *)
WellFormed(e) ==
  /\ e.dash = 1 => \A i \in 1..Len(e.letters) - 1 : e.letters[i] \notin required_argument
  /\ e.dash = 1 /\ e.text # <<>> =>
       e.letters # <<>> /\ Last(e.letters) \in required_argument

Elements ==
  {e \in [dash : 0..2, letters : Seq(STRING), name : Seq(STRING), text : Seq(STRING)] :
     WellFormed(e)}

ASSUME ArgumentsAssumption ==
  /\ Arguments \subseteq Seq(Elements)
  /\ Orderings \subseteq AllOrderings

VARIABLES
  argv,         \* argv from 1 on, permuted
  ordering,     \* __ordering
  optind,       \* optind
  nextchar,     \* the letters of argv[optind] processed, 0 if __nextchar is NULL
                \* or at the end
  first_nonopt, \* __first_nonopt
  last_nonopt,  \* __last_nonopt
  pc,           \* "advance", "exchange", "skip", "element", "stop", "short",
                \* "returned"
  after,        \* where pc goes after the exchange
  bottom, middle, top, \* the locals of exchange
  opt,          \* what the last call returned
  given,        \* the options returned so far, with their arguments
  argv0         \* argv as it was given

exchange_vars == <<bottom, middle, top>>
getopt_vars == <<argv, ordering, optind, nextchar, first_nonopt, last_nonopt, pc,
                 after, exchange_vars, opt, given, argv0>>

argc == Len(argv) + 1

Option(val, arg) == [val |-> val, arg |-> arg]
Done == Option("-1", NULL)
Error == Option("?", NULL)

\* _getopt_initialize.
GetOptInit ==
  /\ argv \in Arguments /\ argv0 = argv /\ ordering \in Orderings
  /\ optind = 1 /\ first_nonopt = 1 /\ last_nonopt = 1 /\ nextchar = 0
  /\ pc = "advance" /\ after = "skip"
  /\ bottom = 1 /\ middle = 1 /\ top = 1
  /\ opt = Done /\ given = <<>>

-----------------------------------------------------------------------------
(* exchange.                                                               *)

\* exchange [first_nonopt, last_nonopt) with [last_nonopt, to).
Exchange(to, then) ==
  /\ pc' = "exchange" /\ after' = then
  /\ bottom' = first_nonopt /\ middle' = last_nonopt /\ top' = to

\* v with the n elements from i on swapped with those from j on.
Swapped(v, i, j, n) ==
  [k \in DOMAIN v |-> IF k \in i..(i + n - 1) THEN v[k - i + j]
                      ELSE IF k \in j..(j + n - 1) THEN v[k - j + i]
                      ELSE v[k]]

\* The segment that is left is not narrowed.
Narrow_NOT(len, right) ==
  IF right THEN top' = top - len /\ UNCHANGED bottom ELSE UNCHANGED <<bottom, top>>

\* len elements are at their place: at the right end or at the left one.
Narrow(len, right) ==
  IF right THEN top' = top - len /\ UNCHANGED bottom
           ELSE bottom' = bottom + len /\ UNCHANGED top

\* The shorter segment is swapped with the near end of the longer one.
SwapShorter_NEAR(left, right) ==
  argv' = Swapped(argv, bottom, middle, IF right > left THEN left ELSE right)

\* The shorter segment is swapped with the far end of the longer one.
SwapShorter(left, right) ==
  argv' = IF right > left THEN Swapped(argv, bottom, top - left, left)
                          ELSE Swapped(argv, bottom, middle, right)

\* A turn of the loop.
Swap ==
  /\ pc = "exchange" /\ top > middle /\ middle > bottom
  /\ LET left == middle - bottom
         right == top - middle
     IN  /\ SwapShorter(left, right)
         /\ Narrow(IF right > left THEN left ELSE right, right > left)
  /\ UNCHANGED <<ordering, optind, nextchar, first_nonopt, last_nonopt, pc, after,
                 middle, opt, given, argv0>>

Exchanged ==
  /\ pc = "exchange" /\ ~(top > middle /\ middle > bottom)
  /\ first_nonopt' = first_nonopt + (optind - last_nonopt)
  /\ last_nonopt' = optind
  /\ pc' = after
  /\ UNCHANGED <<argv, ordering, optind, nextchar, after, exchange_vars, opt, given,
                 argv0>>

-----------------------------------------------------------------------------
(* The next element of argv.                                               *)

\* Options that followed non-options are put before them.
Advance ==
  /\ pc = "advance"
  /\ IF ordering = "PERMUTE" /\ first_nonopt # last_nonopt /\ last_nonopt # optind
     THEN Exchange(optind, "skip") /\ UNCHANGED first_nonopt
     ELSE /\ pc' = "skip"
          /\ first_nonopt' = IF ordering = "PERMUTE" /\ last_nonopt # optind
                             THEN optind ELSE first_nonopt
          /\ UNCHANGED <<after, exchange_vars>>
  /\ UNCHANGED <<argv, ordering, optind, nextchar, last_nonopt, opt, given, argv0>>

\* The non-options from optind on are skipped, one at a time, and counted.
Skip ==
  /\ pc = "skip"
  /\ IF ordering = "PERMUTE" /\ optind < argc /\ NONOPTION_P(argv[optind])
     THEN optind' = optind + 1 /\ UNCHANGED <<last_nonopt, pc>>
     ELSE /\ last_nonopt' = IF ordering = "PERMUTE" THEN optind ELSE last_nonopt
          /\ pc' = "element" /\ UNCHANGED optind
  /\ UNCHANGED <<argv, ordering, nextchar, first_nonopt, after, exchange_vars, opt,
                 given, argv0>>

Return(o) ==
  /\ pc' = "returned" /\ opt' = o
  /\ given' = IF o \in {Done, Error} THEN given ELSE Append(given, o)

AtElement == pc = "element" /\ optind # argc

\* "--" is no option, and is not exchanged with what precedes it.
EndOfOptions_LEFT ==
  /\ AtElement /\ argv[optind] = DashDash
  /\ optind' = optind + 1
  /\ first_nonopt' = IF first_nonopt = last_nonopt THEN optind + 1 ELSE first_nonopt
  /\ pc' = "stop"
  /\ UNCHANGED <<argv, ordering, nextchar, last_nonopt, after, exchange_vars, opt, given,
                 argv0>>

\* "--" is skipped like an option; the rest are non-options.
EndOfOptions ==
  /\ AtElement /\ argv[optind] = DashDash
  /\ optind' = optind + 1
  /\ IF first_nonopt # last_nonopt /\ last_nonopt # optind + 1
     THEN Exchange(optind + 1, "stop") /\ UNCHANGED first_nonopt
     ELSE /\ first_nonopt' = IF first_nonopt = last_nonopt THEN optind + 1
                             ELSE first_nonopt
          /\ pc' = "stop" /\ UNCHANGED <<after, exchange_vars>>
  /\ UNCHANGED <<argv, ordering, nextchar, last_nonopt, opt, given, argv0>>

Stop ==
  /\ pc = "stop"
  /\ last_nonopt' = argc
  /\ optind' = IF first_nonopt # argc THEN first_nonopt ELSE argc
  /\ Return(Done)
  /\ UNCHANGED <<argv, ordering, nextchar, first_nonopt, after, exchange_vars, argv0>>

\* optind goes back over the non-options that were skipped.
EndOfArguments ==
  /\ pc = "element" /\ optind = argc
  /\ optind' = IF first_nonopt # last_nonopt THEN first_nonopt ELSE optind
  /\ Return(Done)
  /\ UNCHANGED <<argv, ordering, nextchar, first_nonopt, last_nonopt, after,
                 exchange_vars, argv0>>

\* POSIXLY_CORRECT: the first non-option ends the options.
NonOption ==
  /\ AtElement /\ NONOPTION_P(argv[optind])
  /\ Return(Done)
  /\ UNCHANGED <<argv, ordering, optind, nextchar, first_nonopt, last_nonopt, after,
                 exchange_vars, argv0>>

-----------------------------------------------------------------------------
(* An option.  to is optind behind what has been consumed of it.            *)

OptionFrame ==
  UNCHANGED <<argv, ordering, first_nonopt, last_nonopt, after, exchange_vars, argv0>>

\* The end of argv is an argument too.
TakeArgument_END(val, text, to) ==
  IF text # <<>> THEN Return(Option(val, Plain(text))) /\ optind' = to
  ELSE /\ Return(Option(val, IF to = argc THEN NULL ELSE argv[to]))
       /\ optind' = to + 1

\* The argument is the text in the element, or the whole next element.
TakeArgument(val, text, to) ==
  IF text # <<>> THEN Return(Option(val, Plain(text))) /\ optind' = to
  ELSE IF to = argc THEN Return(Error) /\ optind' = to
  ELSE Return(Option(val, argv[to])) /\ optind' = to + 1

\* An exact match, or else everything that begins with name.
Matches(name) ==
  LET exact == {o \in LONG_OPTS : o.name = name}
  IN  IF exact # {} THEN exact ELSE {o \in LONG_OPTS : IsPrefix(name, o.name)}

process_long_option ==
  /\ AtElement /\ argv[optind].dash = 2 /\ argv[optind] # DashDash
  /\ LET e == argv[optind]
         found == Matches(e.name)
         val == (CHOOSE o \in found : TRUE).val
     IN  IF Cardinality(found) # 1 \/ (val \notin required_argument /\ e.text # <<>>)
         THEN Return(Error) /\ optind' = optind + 1
         ELSE IF val \in required_argument THEN TakeArgument(val, e.text, optind + 1)
         ELSE Return(Option(val, NULL)) /\ optind' = optind + 1
  /\ nextchar' = 0
  /\ OptionFrame

\* The next letter of the element.
process_short_option ==
  /\ \/ AtElement /\ argv[optind].dash = 1 /\ ~NONOPTION_P(argv[optind])
     \/ pc = "short"
  /\ LET e == argv[optind]
         c == e.letters[nextchar + 1]
         atEnd == nextchar + 1 = Len(e.letters)
         to == IF atEnd THEN optind + 1 ELSE optind
     IN  IF c \in required_argument
         THEN TakeArgument(c, e.text, to) /\ nextchar' = 0
         ELSE /\ Return(IF c \in no_argument THEN Option(c, NULL) ELSE Error)
              /\ optind' = to
              /\ nextchar' = IF atEnd THEN 0 ELSE nextchar + 1
  /\ OptionFrame

\* getopt_long is called again.
getopt_long ==
  /\ pc = "returned" /\ opt \notin {Done, Error}
  /\ pc' = IF nextchar = 0 THEN "advance" ELSE "short"
  /\ UNCHANGED <<argv, ordering, optind, nextchar, first_nonopt, last_nonopt, after,
                 exchange_vars, opt, given, argv0>>

Scan == \/ Advance \/ Swap \/ Exchanged \/ Skip \/ EndOfOptions \/ Stop
        \/ EndOfArguments \/ NonOption
        \/ process_long_option \/ process_short_option

GetOptNext == Scan \/ getopt_long
GetOptSpec == GetOptInit /\ [][GetOptNext]_getopt_vars

-----------------------------------------------------------------------------
(* Properties.                                                             *)

\* The indices are in their order, until the last call has found the end; only
\* what is to be skipped may not be counted yet.
Indices ==
  /\ first_nonopt <= optind /\ last_nonopt <= optind
  /\ first_nonopt <= last_nonopt \/ (pc = "skip" /\ ordering = "PERMUTE")
Segments == bottom <= middle /\ middle <= top /\ 1 <= bottom /\ top <= argc
GetOptTypeOK ==
  /\ pc \in {"advance", "exchange", "skip", "element", "stop", "short", "returned"}
  /\ after \in {"skip", "stop"} /\ ordering \in Orderings
  /\ DOMAIN argv = DOMAIN argv0
  /\ nextchar > 0 => optind < argc /\ nextchar < Len(argv[optind].letters)
  /\ 1 <= first_nonopt /\ first_nonopt <= argc /\ 1 <= optind /\ optind <= argc
  /\ pc = "stop" \/ (pc = "returned" /\ opt = Done) \/ Indices
  /\ pc = "exchange" => Segments

\* v with the segments [b, m) and [m, t) exchanged.
Rotated(v, b, m, t) ==
  [k \in DOMAIN v |-> IF k \in b..(b + t - m - 1) THEN v[k + m - b]
                      ELSE IF k \in (b + t - m)..(t - 1) THEN v[k - (t - m)]
                      ELSE v[k]]

\* A turn of the loop of exchange leaves to be done what makes the same of argv,
\* and the loop ends when nothing is left: it exchanges the two segments, each of
\* which keeps its order, although it swaps pieces of them in place.
ExchangeRotates ==
  [][pc = "exchange" =>
       IF pc' = "exchange"
       THEN Rotated(argv, bottom, middle, top)' = Rotated(argv, bottom, middle, top)
       ELSE argv' = Rotated(argv, bottom, middle, top)]_getopt_vars

\* What a list of arguments says, read from left to right: the options with
\* their arguments, the rest, and whether there is a mistake.  want is the
\* option that the next element is the argument of.
Unread == [options |-> <<>>, rest |-> <<>>, want |-> "none", ended |-> FALSE, wrong |-> FALSE]
Wrong(r) == [r EXCEPT !.wrong = TRUE]
Give(r, val, text) ==
  IF val \notin required_argument
  THEN [r EXCEPT !.options = Append(@, Option(val, NULL))]
  ELSE IF text = <<>> THEN [r EXCEPT !.want = val]
  ELSE [r EXCEPT !.options = Append(@, Option(val, Plain(text)))]

ReadLetter(r, c, text) ==
  IF r.wrong \/ c \notin required_argument \cup no_argument THEN Wrong(r)
  ELSE Give(r, c, text)
ReadLetters(r, e) ==
  LET After[n \in 0..Len(e.letters)] ==
        IF n = 0 THEN r ELSE ReadLetter(After[n - 1], e.letters[n], e.text)
  IN  After
ReadName(r, e) ==
  LET begin == {o \in LONG_OPTS : IsPrefix(e.name, o.name)}
      val == (CHOOSE o \in begin : TRUE).val
  IN  IF Cardinality(begin) # 1 \/ (val \notin required_argument /\ e.text # <<>>)
      THEN Wrong(r) ELSE Give(r, val, e.text)

ReadElement(r, e, ord) ==
  IF r.wrong THEN r
  ELSE IF r.want # "none"
  THEN [r EXCEPT !.want = "none", !.options = Append(@, Option(r.want, e))]
  ELSE IF r.ended \/ NONOPTION_P(e)
  THEN [r EXCEPT !.rest = Append(@, e), !.ended = @ \/ ord = "REQUIRE_ORDER"]
  ELSE IF e = DashDash THEN [r EXCEPT !.ended = TRUE]
  ELSE IF e.dash = 1 THEN ReadLetters(r, e)[Len(e.letters)]
  ELSE ReadName(r, e)
Reading(list, ord) ==
  LET After[n \in 0..Len(list)] ==
        IF n = 0 THEN Unread ELSE ReadElement(After[n - 1], list[n], ord)
  IN  After

Said(list, ord) ==
  LET all == Reading(list, ord)[Len(list)]
  IN  [all EXCEPT !.wrong = @ \/ all.want # "none"]

\* getopt_long returns every option once, in order and with its argument, and
\* leaves all that is no option in order behind optind, whatever exchanges it
\* took; it reports a mistake if there is one.
OptionsRight ==
  LET said == Said(argv0, ordering)
  IN  /\ IsPrefix(given, said.options)
      /\ pc = "returned" /\ opt = Done =>
           ~said.wrong /\ given = said.options /\ SubSeq(argv, optind, argc - 1) = said.rest
      /\ pc = "returned" /\ opt = Error => said.wrong
=============================================================================
