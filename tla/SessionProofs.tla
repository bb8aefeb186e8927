---------------------------- MODULE SessionProofs ----------------------------
(***************************************************************************)
(* Proofs about Session, for text of any length in any number of sources,  *)
(* a buffer of any size and all the ways to call the program: that nothing *)
(* of a source is left for the next one (TypeOK), that its commands are    *)
(* executed in order, each once and whole (InOrder), and that the exit     *)
(* status tells whether it failed (StatusRight).                           *)
(*                                                                         *)
(* The invariant says how far the program has got in what the source says: *)
(* there is a token up to which Hearing has the program's own state, and   *)
(* the buffers have what comes after it.                                   *)
(*                                                                         *)
(* Then the place where an error is shown (ErrorShown), for a terminal of  *)
(* any width that leaves room for the dots, unless it is at a word with a  *)
(* synonym.  Its invariant says where in its line the program is, in       *)
(* tokens and in columns, until there is an error; then which line it is   *)
(* in, and where.                                                          *)
(***************************************************************************)
EXTENDS Session, SequenceTheorems, WellFoundedInduction, TLAPS

Toks == Token \cup End
Origins == {"builtin", "conf"} \cup AllModes
Over == stage \in {"main", "read"} \/ status \in {"EX_OK", "EX_DATAERR"}

\* What is said up to the k-th token, and that it is what the program has.
At(s, k) == Hearing(Heard(s))[k]
Failing(s, k) == At(s, k).end = "failed" /\ At(s, k).done = s.executed
Upto(s, k, c) ==
  At(s, k).end = "all" /\ At(s, k).last = c /\ At(s, k).done = s.executed

\* The buffers have what comes after the k-th token.
Remains(s, k) ==
  LET text == FlattenSeq(s.lines)
  IN  /\ Len(text) = k + Len(buffer) + Len(unread)
      /\ \A i \in 1..Len(buffer) : text[k + i] = buffer[i]
      /\ \A i \in 1..Len(unread) : text[k + Len(buffer) + i] = unread[i]

Following(s) ==
  IF skipping THEN \E k \in 0..Len(FlattenSeq(s.lines)) : Failing(s, k)
  ELSE IF is_eof THEN Upto(s, Len(Heard(s)), <<>>) /\ command = <<>>
  ELSE \E k \in 0..Len(FlattenSeq(s.lines)) : Upto(s, k, command) /\ Remains(s, k)

LastOnly(tok) ==
  unread # <<>> => /\ \A i \in 1..Len(buffer) : buffer[i] # tok
                   /\ \A i \in 1..Len(unread) - 1 : unread[i] # tok

SourceType ==
  [from : Origins, lines : Seq(Seq(Toks)), executed : Seq(Seq(Token))]
Typed ==
  /\ sources \in Seq(SourceType)
  /\ buffer \in Seq(Toks) /\ unread \in Seq(Toks) /\ command \in Seq(Token)
  /\ buf \in Seq(Token) /\ input_len \in Nat
  /\ {ok, atEnd, is_eof, skipping} \subseteq BOOLEAN

AtEndInv == atEnd => input_len = 0
OriginInv ==
  /\ Origin \in AllModes => Origin = mode
  /\ stage \in {"main", "read"} => Origin \notin {"argument", "stream"}
  /\ stage = "parse" => sources # <<>>
OkInv ==
  /\ Origin \notin AllModes => ok
  /\ stage \in {"main", "read"} /\ Fits(Source) =>
       /\ Origin = "terminal" => (ok <=> Say(Source).end # "failed")
       /\ Origin = "file" => Say(Source).end # "failed"
ParseInv ==
  stage = "parse" =>
    /\ LastOnly("newline")
    /\ Fits(Source) => LastOnly("semicolon") /\ Following(Source)
PastInv ==
  \A i \in 1..Current - 1 : Fits(sources[i]) =>
    /\ sources[i].executed = Say(sources[i]).done
    /\ sources[i].from = "file" => Say(sources[i]).end # "failed"
OverInv ==
  Over /\ sources # <<>> /\ Fits(Source) => Source.executed = Say(Source).done
AbortInv ==
  status = "aborted" /\ sources # <<>> /\ Fits(Source) =>
    \E k \in 0..Len(Heard(Source)) : At(Source, k).done = Source.executed
StatusInv ==
  status \in {"EX_OK", "EX_DATAERR"} /\ Fits(Source) =>
    (status = "EX_DATAERR" <=> Origin \in AllModes /\ Say(Source).end = "failed")
-----------------------------------------------------------------------------
(* What a text says, and the text of several lines.                        *)

\* A set of numbers has a least one: the form of induction that is used here.
LEMMA LeastNumber == \A S \in SUBSET Nat : S # {} => \E m \in S : \A n \in S : m <= n
<1>1. TAKE S \in SUBSET Nat
<1>2. HAVE S # {}
<1>3. \E m \in S : \A n \in S : ~ (<<n, m>> \in OpToRel(<, Nat))
  BY <1>2, NatLessThanWellFounded, WFMin, Zenon
<1>4. \A m, n \in Nat : n < m => <<n, m>> \in OpToRel(<, Nat)
  BY DEF OpToRel
<1>5. \A m, n \in Nat : ~ (n < m) => m <= n
  OBVIOUS
<1>. QED
  BY <1>1, <1>3, <1>4, <1>5

\* If a set of numbers has 0, and with each below N the next, it has all up to N.
LEMMA UpTo ==
  ASSUME NEW N \in Nat, NEW S, 0 \in S, \A n \in 0..N - 1 : n \in S => n + 1 \in S
  PROVE  \A n \in 0..N : n \in S
<1> DEFINE Bad == {n \in 0..N : n \notin S}
<1>1. SUFFICES ASSUME Bad # {} PROVE FALSE
  OBVIOUS
<1>2. PICK m \in Bad : \A n \in Bad : m <= n
  <2>1. Bad \in SUBSET Nat
    OBVIOUS
  <2> HIDE DEF Bad
  <2>. QED
    BY <1>1, <2>1, LeastNumber
<1>3. m # 0 /\ m \in 0..N
  BY <1>2
<1>4. m - 1 \in 0..N - 1 /\ m - 1 \notin Bad
  BY <1>2, <1>3
<1>5. m - 1 \in S
  BY <1>4
<1>. QED
  BY <1>2, <1>3, <1>4, <1>5

\* Hearing is the function that its definition says.
LEMMA HearingSteps ==
  ASSUME NEW text \in Seq(Toks)
  PROVE  /\ Hearing(text)[0] = Nothing
         /\ \A n \in 1..Len(text) : Hearing(text)[n] = Hear(Hearing(text)[n - 1], text[n])
<1> DEFINE Solves(f, m) ==
             f = [n \in 0..m |-> IF n = 0 THEN Nothing ELSE Hear(f[n - 1], text[n])]
<1> DEFINE Solved == {m \in Nat : \E f : Solves(f, m)}
<1>1. Len(text) \in Nat
  OBVIOUS
<1>2. 0 \in Solved
  <2>1. Solves([n \in 0..0 |-> Nothing], 0)
    OBVIOUS
  <2>. QED
    BY <2>1
<1>3. ASSUME NEW m \in Nat, m \in Solved PROVE m + 1 \in Solved
  <2>1. PICK f : Solves(f, m)
    BY <1>3
  <2> DEFINE g == [n \in 0..m + 1 |-> IF n = m + 1 THEN Hear(f[m], text[m + 1]) ELSE f[n]]
  <2>2. \A n \in 0..m : g[n] = f[n]
    OBVIOUS
  <2>3. g[m + 1] = Hear(f[m], text[m + 1])
    OBVIOUS
  <2>4. f[0] = Nothing /\ \A n \in 1..m : f[n] = Hear(f[n - 1], text[n])
    BY <2>1
  <2>5. \A n \in 1..m : n - 1 \in 0..m
    OBVIOUS
  <2>6. g[0] = Nothing /\ \A n \in 1..m + 1 : g[n] = Hear(g[n - 1], text[n])
    BY <2>2, <2>3, <2>4, <2>5
  <2>7. g = [n \in 0..m + 1 |-> g[n]]
    OBVIOUS
  <2>8. ASSUME NEW n \in 0..m + 1
        PROVE  g[n] = IF n = 0 THEN Nothing ELSE Hear(g[n - 1], text[n])
    <3> HIDE DEF g
    <3>1. n # 0 => n \in 1..m + 1
      OBVIOUS
    <3>. QED
      BY <2>6, <3>1
  <2> HIDE DEF g
  <2>9. Solves(g, m + 1)
    BY <2>7, <2>8, Zenon
  <2>10. m + 1 \in Nat
    OBVIOUS
  <2>. QED
    BY <2>9, <2>10
<1>4. Len(text) \in Solved
  <2> HIDE DEF Solved
  <2>1. \A n \in 0..Len(text) - 1 : n \in Solved => n + 1 \in Solved
    BY <1>1, <1>3
  <2>2. \A n \in 0..Len(text) : n \in Solved
    BY <1>1, <1>2, <2>1, UpTo
  <2>. QED
    BY <1>1, <2>2
<1>5. Solves(Hearing(text), Len(text))
  BY <1>4 DEF Hearing
<1>. QED
  BY <1>1, <1>5

\* What is heard, whatever at is.
IsHeard(r) ==
  /\ r = [done |-> r.done, last |-> r.last, end |-> r.end, at |-> r.at, by |-> r.by]
  /\ r.done \in Seq(Seq(Token)) /\ r.last \in Seq(Token)
  /\ r.end \in {"all", "failed", "quit"}

\* What is heard before the first token.
LEMMA NothingHeard == IsHeard(Nothing)
BY DEF IsHeard, Nothing

\* After a failure, or quit, nothing more is heard.
LEMMA HearOver ==
  ASSUME NEW r, NEW tok, r.end # "all"
  PROVE  Hear(r, tok) = r
BY DEF Hear

\* The end of a command that is blank or complete.
LEMMA HearEnd ==
  ASSUME NEW r, IsHeard(r), r.end = "all", NEW tok \in End, ~LastIs(r, {"half", "illegal"})
  PROVE  /\ IsHeard(Hear(r, tok)) /\ Hear(r, tok).last = <<>>
         /\ r.last = <<>> => Hear(r, tok).done = r.done /\ Hear(r, tok).end = "all"
         /\ r.last # <<>> =>
              /\ Hear(r, tok).done = Append(r.done, r.last)
              /\ Hear(r, tok).end = IF r.last = <<"quit">> THEN "quit" ELSE "all"
<1>1. Hear(r, tok) = Completed(r, tok)
  BY DEF Hear
<1>2. CASE r.last = <<>>
  <2>1. Completed(r, tok) = [r EXCEPT !.at = Passed(r, tok)]
    BY <1>2 DEF Completed
  <2>2. [r EXCEPT !.at = Passed(r, tok)] =
          [done |-> r.done, last |-> r.last, end |-> r.end, at |-> Passed(r, tok),
           by |-> r.by]
    <3>1. r = [done |-> r.done, last |-> r.last, end |-> r.end, at |-> r.at, by |-> r.by]
      BY DEF IsHeard
    <3>. QED
      BY <3>1
  <2>. QED
    BY <1>1, <1>2, <2>1, <2>2 DEF IsHeard
<1>3. CASE r.last # <<>>
  <2>1. Completed(r, tok) =
          [r EXCEPT !.done = Append(r.done, r.last), !.last = <<>>, !.at = Passed(r, tok),
                    !.end = IF r.last = <<"quit">> THEN "quit" ELSE "all"]
    BY <1>3 DEF Completed
  <2>2. Completed(r, tok) =
          [done |-> Append(r.done, r.last), last |-> <<>>,
           end |-> IF r.last = <<"quit">> THEN "quit" ELSE "all",
           at |-> Passed(r, tok), by |-> r.by]
    BY <2>1 DEF IsHeard
  <2>3. Append(r.done, r.last) \in Seq(Seq(Token)) /\ <<>> \in Seq(Token)
    BY DEF IsHeard
  <2>. QED
    BY <1>1, <1>3, <2>2, <2>3 DEF IsHeard
<1>. QED
  BY <1>2, <1>3

\* A word of the command is no end of it.
LEMMA ContinuesWords ==
  ASSUME NEW r, NEW tok, Continues(r, tok)
  PROVE  tok \in Words /\ tok \in Token /\ tok \notin End
BY DEF Continues, Words, Token, End

\* A word of the command.
LEMMA HearWord ==
  ASSUME NEW r, IsHeard(r), r.end = "all", NEW tok, Continues(r, tok)
  PROVE  /\ IsHeard(Hear(r, tok)) /\ Hear(r, tok).end = "all"
         /\ Hear(r, tok).done = r.done /\ Hear(r, tok).last = Append(r.last, tok)
<1>1. tok \in Token /\ tok \notin End
  BY ContinuesWords
<1>2. Hear(r, tok) = [r EXCEPT !.last = Append(r.last, tok), !.at = Passed(r, tok)]
  BY <1>1 DEF Hear
<1>3. Hear(r, tok) = [done |-> r.done, last |-> Append(r.last, tok), end |-> r.end,
                      at |-> Passed(r, tok), by |-> r.by]
  BY <1>2 DEF IsHeard
<1>4. Append(r.last, tok) \in Seq(Token)
  BY <1>1 DEF IsHeard
<1>. QED
  BY <1>3, <1>4 DEF IsHeard

\* Any other token is wrong.
LEMMA HearWrong ==
  ASSUME NEW r, IsHeard(r), r.end = "all", NEW tok,
         ~ (tok \in End /\ ~LastIs(r, {"half", "illegal"})), ~Continues(r, tok)
  PROVE  /\ IsHeard(Hear(r, tok)) /\ Hear(r, tok).end = "failed"
         /\ Hear(r, tok).done = r.done /\ Hear(r, tok).last = r.last
         /\ Hear(r, tok).by = tok
<1>1. Hear(r, tok) = Failed(r, tok)
  BY DEF Hear
<1>2. PICK a : Failed(r, tok) = [r EXCEPT !.end = "failed", !.by = tok, !.at = a]
  BY DEF Failed, IsHeard
<1>3. Hear(r, tok) = [done |-> r.done, last |-> r.last, end |-> "failed", at |-> a, by |-> tok]
  BY <1>1, <1>2 DEF IsHeard
<1>. QED
  BY <1>3 DEF IsHeard

\* What is done by one more token.
LEMMA HearOne ==
  ASSUME NEW r, IsHeard(r), NEW tok \in Toks
  PROVE  /\ IsHeard(Hear(r, tok))
         /\ Hear(r, tok).done \in {r.done, Append(r.done, r.last)}
<1>1. CASE r.end # "all"
  BY <1>1, HearOver
<1>2. CASE r.end = "all"
  <2>1. CASE tok \in End /\ ~LastIs(r, {"half", "illegal"})
    BY <1>2, <2>1, HearEnd
  <2>2. CASE Continues(r, tok)
    BY <1>2, <2>2, HearWord
  <2>. QED
    BY <1>2, <2>1, <2>2, HearWrong
<1>. QED
  BY <1>1, <1>2

\* What Hearing has heard after any number of tokens has its type.
LEMMA HearingTyped ==
  ASSUME NEW text \in Seq(Toks)
  PROVE  \A n \in 0..Len(text) : IsHeard(Hearing(text)[n])
<1> DEFINE Good == {n \in 0..Len(text) : IsHeard(Hearing(text)[n])}
<1>1. Len(text) \in Nat /\ \A n \in 1..Len(text) : text[n] \in Toks
  OBVIOUS
<1>2. 0 \in Good
  BY <1>1, HearingSteps, NothingHeard
<1>3. ASSUME NEW n \in 0..Len(text) - 1, n \in Good PROVE n + 1 \in Good
  <2>1. n + 1 \in 1..Len(text) /\ (n + 1) - 1 = n
    BY <1>1
  <2>2. Hearing(text)[n + 1] = Hear(Hearing(text)[n], text[n + 1])
    BY <2>1, HearingSteps
  <2>. QED
    BY <1>1, <1>3, <2>1, <2>2, HearOne
<1> HIDE DEF Good
<1>4. \A n \in 0..Len(text) : n \in Good
  BY <1>1, <1>2, <1>3, UpTo
<1>. QED
  BY <1>4 DEF Good

\* What is heard depends on what has come.
LEMMA HearingAgrees ==
  ASSUME NEW text \in Seq(Toks), NEW more \in Seq(Toks), NEW m \in Nat,
         m <= Len(text), m <= Len(more), \A i \in 1..m : text[i] = more[i]
  PROVE  \A n \in 0..m : Hearing(text)[n] = Hearing(more)[n]
<1> DEFINE Good == {n \in 0..m : Hearing(text)[n] = Hearing(more)[n]}
<1>1. 0 \in Good
  BY HearingSteps
<1>2. ASSUME NEW n \in 0..m - 1, n \in Good PROVE n + 1 \in Good
  <2>1. n + 1 \in 1..Len(text) /\ n + 1 \in 1..Len(more) /\ n + 1 \in 1..m /\ (n + 1) - 1 = n
    OBVIOUS
  <2>2. Hearing(text)[n + 1] = Hear(Hearing(text)[n], text[n + 1])
    BY <2>1, HearingSteps
  <2>3. Hearing(more)[n + 1] = Hear(Hearing(more)[n], more[n + 1])
    BY <2>1, HearingSteps
  <2>. QED
    BY <1>2, <2>1, <2>2, <2>3
<1> HIDE DEF Good
<1>3. \A n \in 0..m : n \in Good
  BY <1>1, <1>2, UpTo
<1>. QED
  BY <1>3 DEF Good

\* A failure, and quit, is for good.
LEMMA HearingStays ==
  ASSUME NEW text \in Seq(Toks), NEW k \in 0..Len(text), Hearing(text)[k].end # "all"
  PROVE  Hearing(text)[Len(text)] = Hearing(text)[k]
<1> DEFINE Good == {n \in 0..Len(text) - k : Hearing(text)[k + n] = Hearing(text)[k]}
<1>1. Len(text) \in Nat /\ Len(text) - k \in Nat
  OBVIOUS
<1>2. 0 \in Good
  BY <1>1
<1>3. ASSUME NEW n \in 0..Len(text) - k - 1, n \in Good PROVE n + 1 \in Good
  <2>1. k + (n + 1) \in 1..Len(text) /\ (k + (n + 1)) - 1 = k + n /\ n + 1 \in 0..Len(text) - k
    BY <1>1
  <2>2. Hearing(text)[k + (n + 1)] = Hear(Hearing(text)[k + n], text[k + (n + 1)])
    BY <2>1, HearingSteps
  <2>. QED
    BY <1>3, <2>1, <2>2, HearOver
<1> HIDE DEF Good
<1>4. \A n \in 0..Len(text) - k : n \in Good
  BY <1>1, <1>2, <1>3, UpTo
<1>5. Len(text) - k \in Good
  BY <1>1, <1>4
<1>6. k + (Len(text) - k) = Len(text)
  BY <1>1
<1>. QED
  BY <1>5, <1>6 DEF Good

\* What is done is not undone.
LEMMA HearingGrows ==
  ASSUME NEW text \in Seq(Toks), NEW k \in 0..Len(text)
  PROVE  IsPrefix(Hearing(text)[k].done, Hearing(text)[Len(text)].done)
<1> DEFINE D(n) == Hearing(text)[n].done
<1> DEFINE Good == {n \in 0..Len(text) - k : IsPrefix(D(k), D(k + n))}
<1>1. Len(text) \in Nat /\ Len(text) - k \in Nat /\ \A n \in 1..Len(text) : text[n] \in Toks
  OBVIOUS
<1>2. \A n \in 0..Len(text) : D(n) \in Seq(Seq(Token)) /\ Hearing(text)[n].last \in Seq(Token)
  BY HearingTyped DEF IsHeard
<1>3. 0 \in Good
  BY <1>1, <1>2 DEF IsPrefix
<1>4. ASSUME NEW n \in 0..Len(text) - k - 1, n \in Good PROVE n + 1 \in Good
  <2>1. /\ k + (n + 1) \in 1..Len(text) /\ (k + (n + 1)) - 1 = k + n
        /\ n + 1 \in 0..Len(text) - k /\ k + n \in 0..Len(text)
    BY <1>1
  <2>2. Hearing(text)[k + (n + 1)] = Hear(Hearing(text)[k + n], text[k + (n + 1)])
    BY <2>1, HearingSteps
  <2>3. D(k + (n + 1)) \in {D(k + n), Append(D(k + n), Hearing(text)[k + n].last)}
    BY <1>1, <2>1, <2>2, HearOne, HearingTyped
  <2>4. IsPrefix(D(k), D(k + n))
    BY <1>4
  <2>5. ASSUME NEW d \in Seq(Seq(Token)), NEW e \in Seq(Seq(Token)), NEW x \in Seq(Token),
               IsPrefix(d, e)
        PROVE  IsPrefix(d, Append(e, x))
    <3>1. Len(d) \in Nat /\ Len(e) \in Nat /\ Len(Append(e, x)) = Len(e) + 1 /\ Len(d) <= Len(e)
      BY <2>5 DEF IsPrefix
    <3>2. \A i \in 1..Len(d) : Append(e, x)[i] = e[i]
      BY <3>1
    <3>3. SubSeq(Append(e, x), 1, Len(d)) = SubSeq(e, 1, Len(d))
      BY <3>1, <3>2
    <3>. QED
      BY <2>5, <3>1, <3>3 DEF IsPrefix
  <2> HIDE DEF D
  <2>6. IsPrefix(D(k), D(k + (n + 1)))
    BY <1>2, <2>1, <2>3, <2>4, <2>5
  <2>. QED
    BY <2>1, <2>6
<1> HIDE DEF Good
<1>5. \A n \in 0..Len(text) - k : n \in Good
  BY <1>1, <1>3, <1>4, UpTo
<1>6. Len(text) - k \in Good /\ k + (Len(text) - k) = Len(text)
  BY <1>1, <1>5
<1>. QED
  BY <1>6 DEF Good

\* The text of several lines is built up line by line.
LEMMA FlattenSteps ==
  ASSUME NEW S, NEW lines \in Seq(Seq(S)), lines # <<>>
  PROVE  \E f : /\ f[1] = lines[1] /\ FlattenSeq(lines) = f[Len(lines)]
                /\ \A n \in 2..Len(lines) : f[n] = f[n - 1] \o lines[n]
<1> DEFINE Solves(f, m) ==
             f = [i \in 1..m |-> IF i = 1 THEN lines[i] ELSE f[i - 1] \o lines[i]]
<1> DEFINE Solved == {m \in Nat : \E f : Solves(f, m)}
<1>1. Len(lines) \in Nat /\ Len(lines) # 0
  OBVIOUS
<1>2. 0 \in Solved
  <2>1. Solves([n \in 1..0 |-> <<>>], 0)
    OBVIOUS
  <2>. QED
    BY <2>1
<1>3. ASSUME NEW m \in Nat, m \in Solved PROVE m + 1 \in Solved
  <2>1. PICK f : Solves(f, m)
    BY <1>3
  <2> DEFINE g == [n \in 1..m + 1 |-> IF n = m + 1
                                      THEN IF n = 1 THEN lines[n] ELSE f[m] \o lines[n]
                                      ELSE f[n]]
  <2>2. \A n \in 1..m : g[n] = f[n]
    OBVIOUS
  <2>3. g[m + 1] = IF m + 1 = 1 THEN lines[m + 1] ELSE f[m] \o lines[m + 1]
    OBVIOUS
  <2>4. \A n \in 1..m : f[n] = IF n = 1 THEN lines[n] ELSE f[n - 1] \o lines[n]
    BY <2>1
  <2>5. \A n \in 1..m + 1 : n # 1 => n - 1 \in 1..m
    OBVIOUS
  <2>6. g = [n \in 1..m + 1 |-> g[n]]
    OBVIOUS
  <2> HIDE DEF g
  <2>7. ASSUME NEW n \in 1..m + 1
        PROVE  g[n] = IF n = 1 THEN lines[n] ELSE g[n - 1] \o lines[n]
    <3>1. CASE n = m + 1
      BY <2>2, <2>3, <2>5, <3>1
    <3>2. CASE n \in 1..m
      BY <2>2, <2>4, <2>5, <3>2
    <3>. QED
      BY <3>1, <3>2
  <2>8. Solves(g, m + 1)
    BY <2>6, <2>7, Zenon
  <2>9. m + 1 \in Nat
    OBVIOUS
  <2>. QED
    BY <2>8, <2>9
<1>4. Len(lines) \in Solved
  <2> HIDE DEF Solved
  <2>1. \A n \in 0..Len(lines) - 1 : n \in Solved => n + 1 \in Solved
    BY <1>1, <1>3
  <2>2. \A n \in 0..Len(lines) : n \in Solved
    BY <1>1, <1>2, <2>1, UpTo
  <2>. QED
    BY <1>1, <2>2
<1> DEFINE f == CHOOSE f : Solves(f, Len(lines))
<1>5. Solves(f, Len(lines))
  BY <1>4
<1>6. FlattenSeq(lines) = f[Len(lines)]
  BY <1>1 DEF FlattenSeq
<1> HIDE DEF f
<1>7. f[1] = lines[1] /\ \A n \in 2..Len(lines) : f[n] = f[n - 1] \o lines[n]
  <2>1. \A n \in 1..Len(lines) : f[n] = IF n = 1 THEN lines[n] ELSE f[n - 1] \o lines[n]
    BY <1>5
  <2>2. 1 \in 1..Len(lines) /\ \A n \in 2..Len(lines) : n \in 1..Len(lines) /\ n # 1
    BY <1>1
  <2>. QED
    BY <2>1, <2>2
<1>. QED
  BY <1>6, <1>7

\* Lines one after another, as a sequence of tokens, when a line is added.
LEMMA Flattening ==
  ASSUME NEW lines \in Seq(Seq(Toks)), NEW line \in Seq(Toks)
  PROVE  /\ FlattenSeq(<<>>) = <<>>
         /\ FlattenSeq(lines) \in Seq(Toks)
         /\ FlattenSeq(Append(lines, line)) = FlattenSeq(lines) \o line
<1> DEFINE more == Append(lines, line)
<1>1. FlattenSeq(<<>>) = <<>>
  BY DEF FlattenSeq
<1>2. /\ Len(lines) \in Nat /\ more \in Seq(Seq(Toks)) /\ more # <<>>
      /\ Len(more) = Len(lines) + 1 /\ more[Len(lines) + 1] = line
      /\ \A i \in 1..Len(lines) : more[i] = lines[i] /\ lines[i] \in Seq(Toks)
  OBVIOUS
<1> HIDE DEF more
<1>3. PICK g : /\ g[1] = more[1] /\ FlattenSeq(more) = g[Len(more)]
               /\ \A n \in 2..Len(more) : g[n] = g[n - 1] \o more[n]
  BY <1>2, FlattenSteps
<1>4. CASE lines = <<>>
  <2>1. Len(lines) = 0 /\ <<>> \o line = line /\ <<>> \in Seq(Toks)
    BY <1>4
  <2>2. FlattenSeq(more) = line
    BY <1>2, <1>3, <2>1
  <2>. QED
    BY <1>1, <1>4, <2>1, <2>2 DEF more
<1>5. CASE lines # <<>>
  <2>1. PICK f : /\ f[1] = lines[1] /\ FlattenSeq(lines) = f[Len(lines)]
                 /\ \A n \in 2..Len(lines) : f[n] = f[n - 1] \o lines[n]
    BY <1>5, FlattenSteps
  <2>2. Len(lines) \in Nat \ {0}
    BY <1>5
  <2> DEFINE Same == {n \in Nat : n + 1 \in 1..Len(lines) => f[n + 1] = g[n + 1] /\ f[n + 1] \in Seq(Toks)}
  <2>3. 0 \in Same
    BY <1>2, <1>3, <2>1, <2>2
  <2>4. ASSUME NEW n \in 0..Len(lines) - 2, n \in Same PROVE n + 1 \in Same
    <3>1. /\ (n + 1) + 1 \in 2..Len(lines) /\ ((n + 1) + 1) - 1 = n + 1
          /\ n + 1 \in 1..Len(lines) /\ (n + 1) + 1 \in 2..Len(more) /\ (n + 1) + 1 \in 1..Len(lines)
      BY <1>2, <2>2
    <3>2. f[(n + 1) + 1] = f[n + 1] \o lines[(n + 1) + 1]
      BY <2>1, <3>1
    <3>3. g[(n + 1) + 1] = g[n + 1] \o more[(n + 1) + 1]
      BY <1>3, <3>1
    <3>4. f[n + 1] = g[n + 1] /\ f[n + 1] \in Seq(Toks) /\ n + 1 \in Nat
      BY <2>4, <3>1
    <3>5. lines[(n + 1) + 1] \in Seq(Toks) /\ more[(n + 1) + 1] = lines[(n + 1) + 1]
      BY <1>2, <3>1
    <3>6. f[n + 1] \o lines[(n + 1) + 1] \in Seq(Toks)
      BY <3>4, <3>5
    <3>. QED
      BY <3>2, <3>3, <3>4, <3>5, <3>6
  <2>5. Len(lines) - 1 \in Same
    <3> HIDE DEF Same
    <3>1. Len(lines) - 1 \in Nat /\ (Len(lines) - 1) - 1 = Len(lines) - 2
      BY <2>2
    <3>2. \A n \in 0..(Len(lines) - 1) - 1 : n \in Same => n + 1 \in Same
      BY <2>4, <3>1
    <3>3. \A n \in 0..Len(lines) - 1 : n \in Same
      BY <2>3, <3>1, <3>2, UpTo
    <3>. QED
      BY <3>1, <3>3
  <2>6. f[Len(lines)] = g[Len(lines)] /\ f[Len(lines)] \in Seq(Toks)
    <3>1. (Len(lines) - 1) + 1 = Len(lines) /\ Len(lines) \in 1..Len(lines)
      BY <2>2
    <3>. QED
      BY <2>5, <3>1
  <2>7. g[Len(lines) + 1] = g[Len(lines)] \o line
    <3>1. Len(lines) + 1 \in 2..Len(more) /\ (Len(lines) + 1) - 1 = Len(lines)
      BY <1>2, <2>2
    <3>. QED
      BY <1>2, <1>3, <3>1
  <2>. QED
    BY <1>1, <1>2, <1>3, <2>1, <2>6, <2>7 DEF more
<1>. QED
  BY <1>4, <1>5

-----------------------------------------------------------------------------
(* What a source says.                                                     *)

\* What is heard of a source is its lines, then the newline at the end.
LEMMA SourceText ==
  ASSUME NEW s \in SourceType
  PROVE  /\ FlattenSeq(s.lines) \in Seq(Toks) /\ Len(FlattenSeq(s.lines)) \in Nat
         /\ Heard(s) \in Seq(Toks) /\ Len(Heard(s)) = Len(FlattenSeq(s.lines)) + 1
         /\ \A i \in 1..Len(FlattenSeq(s.lines)) : Heard(s)[i] = FlattenSeq(s.lines)[i]
         /\ Heard(s)[Len(FlattenSeq(s.lines)) + 1] = "newline"
<1>1. s.lines \in Seq(Seq(Toks)) /\ <<>> \in Seq(Toks) /\ "newline" \in Toks
  BY DEF SourceType, Toks, End
<1>2. FlattenSeq(s.lines) \in Seq(Toks)
  BY <1>1, Flattening
<1> DEFINE text == FlattenSeq(s.lines)
<1>3. Heard(s) = Append(text, "newline")
  BY DEF Heard
<1> HIDE DEF text
<1>4. text \in Seq(Toks)
  BY <1>2 DEF text
<1>5. /\ Len(text) \in Nat /\ Append(text, "newline") \in Seq(Toks)
      /\ Len(Append(text, "newline")) = Len(text) + 1
      /\ \A i \in 1..Len(text) : Append(text, "newline")[i] = text[i]
      /\ Append(text, "newline")[Len(text) + 1] = "newline"
  BY <1>1, <1>4
<1>. QED
  BY <1>3, <1>4, <1>5 DEF text

\* What a source says up to a token, one token at a time.
LEMMA AtSteps ==
  ASSUME NEW s \in SourceType
  PROVE  /\ At(s, 0) = Nothing
         /\ \A k \in 0..Len(Heard(s)) : IsHeard(At(s, k))
         /\ \A k \in 0..Len(FlattenSeq(s.lines)) :
              At(s, k + 1) = Hear(At(s, k), Heard(s)[k + 1])
<1>1. /\ Heard(s) \in Seq(Toks) /\ Len(Heard(s)) = Len(FlattenSeq(s.lines)) + 1
      /\ Len(FlattenSeq(s.lines)) \in Nat
  BY SourceText
<1>2. \A k \in 0..Len(FlattenSeq(s.lines)) : k + 1 \in 1..Len(Heard(s)) /\ (k + 1) - 1 = k
  BY <1>1
<1>3. \A k \in 0..Len(Heard(s)) : IsHeard(At(s, k))
  BY <1>1, HearingTyped DEF At
<1>. QED
  BY <1>1, <1>2, <1>3, HearingSteps DEF At

\* What the program has once the source is over.
LEMMA AtFailing ==
  ASSUME NEW s \in SourceType, NEW k \in 0..Len(Heard(s)), Failing(s, k)
  PROVE  Say(s).done = s.executed /\ Say(s).end = "failed"
<1>1. Heard(s) \in Seq(Toks) /\ Hearing(Heard(s))[k].end # "all"
  BY SourceText DEF Failing, At
<1>2. Say(s) = At(s, k)
  BY <1>1, HearingStays DEF Say, At
<1>. QED
  BY <1>2 DEF Failing

\* What the program has executed is some of what the source says.
LEMMA AtPrefix ==
  ASSUME NEW s \in SourceType, NEW k \in 0..Len(Heard(s)), At(s, k).done = s.executed
  PROVE  IsPrefix(s.executed, Say(s).done)
<1>1. Heard(s) \in Seq(Toks)
  BY SourceText
<1>. QED
  BY <1>1, HearingGrows DEF Say, At

\* Another line leaves what was said.
LEMMA AtAgain ==
  ASSUME NEW s \in SourceType, NEW t \in SourceType, NEW line \in Seq(Toks),
         t.lines = Append(s.lines, line)
  PROVE  /\ FlattenSeq(t.lines) = FlattenSeq(s.lines) \o line
         /\ \A k \in 0..Len(FlattenSeq(s.lines)) : At(t, k) = At(s, k)
         /\ Fits(t) => Fits(s) /\ (Single(line) \/ Len(line) <= Capacity)
<1> DEFINE a == FlattenSeq(s.lines)
           b == FlattenSeq(t.lines)
<1>1. s.lines \in Seq(Seq(Toks)) /\ t.lines \in Seq(Seq(Toks))
  BY DEF SourceType
<1>2. b = a \o line
  BY <1>1, Flattening
<1>3. /\ a \in Seq(Toks) /\ Len(a) \in Nat /\ Heard(s) \in Seq(Toks)
      /\ Len(Heard(s)) = Len(a) + 1 /\ \A i \in 1..Len(a) : Heard(s)[i] = a[i]
  BY SourceText
<1>4. /\ b \in Seq(Toks) /\ Len(b) \in Nat /\ Heard(t) \in Seq(Toks)
      /\ Len(Heard(t)) = Len(b) + 1 /\ \A i \in 1..Len(b) : Heard(t)[i] = b[i]
  BY SourceText
<1> HIDE DEF a, b
<1>5. Len(b) = Len(a) + Len(line) /\ Len(line) \in Nat /\ \A i \in 1..Len(a) : b[i] = a[i]
  BY <1>2, <1>3
<1>6. /\ Len(a) <= Len(Heard(s)) /\ Len(a) <= Len(Heard(t))
      /\ \A i \in 1..Len(a) : Heard(s)[i] = Heard(t)[i]
  BY <1>3, <1>4, <1>5
<1>7. \A k \in 0..Len(a) : At(t, k) = At(s, k)
  BY <1>3, <1>4, <1>6, HearingAgrees DEF At
<1>8. Fits(t) => Fits(s) /\ (Single(line) \/ Len(line) <= Capacity)
  <2>1. /\ DOMAIN s.lines = 1..Len(s.lines) /\ DOMAIN t.lines = 1..Len(s.lines) + 1
        /\ Len(s.lines) \in Nat
        /\ \A i \in 1..Len(s.lines) : t.lines[i] = s.lines[i]
        /\ t.lines[Len(s.lines) + 1] = line
    BY <1>1
  <2>2. \A i \in 1..Len(s.lines) : i \in 1..Len(s.lines) + 1
    BY <2>1
  <2>3. Len(s.lines) + 1 \in 1..Len(s.lines) + 1
    BY <2>1
  <2>. QED
    BY <2>1, <2>2, <2>3 DEF Fits
<1>. QED
  BY <1>2, <1>7, <1>8 DEF a, b

\* The sources, with another one in the place of the last.
WithLast(ss, s) == [ss EXCEPT ![Len(ss)] = s]

\* The sources are the same but for the last.
LEMMA LastReplaced ==
  ASSUME NEW ss \in Seq(SourceType), ss # <<>>, NEW s \in SourceType
  PROVE  /\ WithLast(ss, s) \in Seq(SourceType) /\ WithLast(ss, s) # <<>>
         /\ Len(WithLast(ss, s)) = Len(ss) /\ Last(WithLast(ss, s)) = s
         /\ \A i \in 1..Len(ss) - 1 : WithLast(ss, s)[i] = ss[i]
<1> DEFINE r == WithLast(ss, s)
<1>1. Len(ss) \in Nat /\ Len(ss) # 0 /\ Len(ss) \in 1..Len(ss)
  OBVIOUS
<1>2. r \in Seq(SourceType) /\ Len(r) = Len(ss)
      /\ \A j \in 1..Len(ss) : r[j] = IF j = Len(ss) THEN s ELSE ss[j]
  BY <1>1, ExceptSeq DEF WithLast
<1> HIDE DEF r
<1>3. r # <<>> /\ Last(r) = s
  BY <1>1, <1>2 DEF Last
<1>4. \A i \in 1..Len(ss) - 1 : r[i] = ss[i]
  <2>1. \A i \in 1..Len(ss) - 1 : i \in 1..Len(ss) /\ i # Len(ss)
    BY <1>1
  <2>. QED
    BY <1>2, <2>1
<1>. QED
  BY <1>2, <1>3, <1>4 DEF r

\* The last source is one of them.
LEMMA LastSource ==
  ASSUME NEW ss \in Seq(SourceType), ss # <<>>
  PROVE  Last(ss) \in SourceType /\ Len(ss) \in Nat \ {0} /\ \A i \in 1..Len(ss) : ss[i] \in SourceType
<1>1. Len(ss) \in Nat /\ Len(ss) # 0 /\ Len(ss) \in 1..Len(ss)
  OBVIOUS
<1>. QED
  BY <1>1 DEF Last

-----------------------------------------------------------------------------
(* The invariant, and the steps.                                           *)

IInv ==
  /\ Typed /\ TypeOK /\ AtEndInv /\ OriginInv /\ OkInv /\ ParseInv
  /\ PastInv /\ OverInv /\ AbortInv /\ StatusInv

\* What a step leaves alone when it leaves the sources alone.
LEMMA SameSources ==
  ASSUME sources' = sources
  PROVE  /\ Source' = Source /\ Current' = Current /\ Origin' = Origin
         /\ Fits(Source)' <=> Fits(Source)
         /\ Say(Source)' = Say(Source)
         /\ Len(Heard(Source))' = Len(Heard(Source))
         /\ \A k : At(Source, k)' = At(Source, k)
         /\ PastInv => PastInv'
<1>1. Source' = Source /\ Current' = Current /\ Origin' = Origin
  BY DEF Source, Current, Origin
<1>2. Fits(Source)' <=> Fits(Source)
  BY <1>1 DEF Fits
<1>3. Heard(Source)' = Heard(Source)
  BY <1>1 DEF Heard
<1>4. Say(Source)' = Say(Source)
  BY <1>1, <1>3 DEF Say
<1>5. \A k : At(Source, k)' = At(Source, k)
  BY <1>1, <1>3 DEF At
<1>6. PastInv => PastInv'
  <2>1. \A i : (Fits(sources[i])' <=> Fits(sources[i])) /\ Say(sources[i])' = Say(sources[i])
    BY DEF Fits, Say, Heard
  <2>. QED
    BY <1>1, <2>1 DEF PastInv
<1>. QED
  BY <1>1, <1>2, <1>3, <1>4, <1>5, <1>6

\* A parse returns, or the program exits, and what the source says is done.
Told(success) ==
  Fits(Source) => /\ Say(Source).done = Source.executed
                  /\ success <=> Say(Source).end # "failed"
Clean ==
  /\ ~is_eof' /\ unread' = <<>> /\ input_len' = 0 /\ column' = 0
  /\ atEnd' = atEnd /\ (atEnd => buffer' = <<>>)

\* yyparse returns, and what it has executed is what the source says, if the lexer
\* has nothing left of it.
LEMMA ReturnStep ==
  ASSUME IInv, stage = "parse", NEW success \in BOOLEAN, Return(success), Told(success),
         Clean, Typed', sources' = sources, mode' = mode, command_line' = command_line
  PROVE  IInv'
<1>1. /\ Source' = Source /\ Current' = Current /\ Origin' = Origin
      /\ Fits(Source)' <=> Fits(Source)
      /\ Say(Source)' = Say(Source)
  BY SameSources
<1>2. PastInv'
  BY SameSources DEF IInv
<1>3. status = "running"
  BY DEF IInv, TypeOK
<1>4. sources # <<>> /\ sources' # <<>> /\ (Origin \in AllModes => Origin = mode)
  BY DEF IInv, OriginInv
<1>5. Origin \notin AllModes => ok
  BY DEF IInv, OkInv
<1>6. success => Status(success) = "EX_OK"
  BY DEF Status
<1>7. ~success => Status(success) = "EX_DATAERR"
  BY DEF Status
<1>8. CASE /\ Origin \in {"builtin", "conf"} \/ (Origin = "file" /\ success /\ Another)
           /\ stage' = "main" /\ UNCHANGED <<ok, status>>
  <2>1. Origin \notin {"argument", "stream", "terminal"}
    BY <1>8
  <2>2. TypeOK'
    BY <1>1, <1>3, <1>8 DEF IInv, TypeOK, Clean, Typed
  <2>3. AtEndInv' /\ OriginInv'
    BY <1>1, <1>4, <1>8, <2>1 DEF AtEndInv, OriginInv, Clean
  <2>4. OkInv'
    BY <1>1, <1>5, <1>8, <2>1 DEF OkInv, Told, AllModes
  <2>5. ParseInv' /\ OverInv' /\ AbortInv' /\ StatusInv'
    BY <1>1, <1>3, <1>8 DEF ParseInv, OverInv, AbortInv, StatusInv, Told
  <2>. QED
    BY <1>2, <2>2, <2>3, <2>4, <2>5 DEF IInv
<1>9. CASE Origin = "terminal" /\ stage' = "main" /\ ok' = success /\ UNCHANGED status
  <2>2. TypeOK'
    BY <1>1, <1>3, <1>9 DEF IInv, TypeOK, Clean, Typed
  <2>3. AtEndInv' /\ OriginInv'
    BY <1>1, <1>4, <1>9 DEF AtEndInv, OriginInv, Clean
  <2>4. OkInv'
    BY <1>1, <1>9 DEF OkInv, Told, AllModes
  <2>5. ParseInv' /\ OverInv' /\ AbortInv' /\ StatusInv'
    BY <1>1, <1>3, <1>9 DEF ParseInv, OverInv, AbortInv, StatusInv, Told
  <2>. QED
    BY <1>2, <2>2, <2>3, <2>4, <2>5 DEF IInv
<1>10. CASE Origin \in AllModes \ {"terminal"} /\ exit(Status(success)) /\ UNCHANGED ok
  <2>1. stage' = "exited" /\ status' = Status(success) /\ ok' = ok
    BY <1>10 DEF exit
  <2>2. TypeOK'
    BY <1>1, <1>6, <1>7, <2>1 DEF IInv, TypeOK, Clean, Typed
  <2>3. AtEndInv' /\ OriginInv'
    BY <1>1, <1>4, <2>1 DEF AtEndInv, OriginInv, Clean
  <2>4. OkInv'
    BY <1>1, <1>5, <2>1 DEF OkInv
  <2>5. ParseInv' /\ OverInv' /\ AbortInv'
    BY <1>1, <1>6, <1>7, <2>1 DEF ParseInv, OverInv, AbortInv, Told
  <2>6. StatusInv'
    BY <1>1, <1>6, <1>7, <1>10, <2>1 DEF StatusInv, Told
  <2>. QED
    BY <1>2, <2>2, <2>3, <2>4, <2>5, <2>6 DEF IInv
<1>. QED
  BY <1>8, <1>9, <1>10 DEF Return

\* An assertion fails, in a parse or between two.
LEMMA AbortStep ==
  ASSUME IInv, exit("aborted"), Typed', sources' = sources,
         UNCHANGED <<mode, ok, command_line, lexer>>,
         atEnd' = atEnd, atEnd => \A i \in DOMAIN buffer' : i = 1 /\ buffer'[i] \in Words,
         is_eof => buffer' = <<>>,
         sources # <<>> /\ Fits(Source) =>
           \E k \in 0..Len(Heard(Source)) : At(Source, k).done = Source.executed
  PROVE  IInv'
<1>1. /\ Source' = Source /\ Current' = Current /\ Origin' = Origin
      /\ Fits(Source)' <=> Fits(Source)
      /\ Say(Source)' = Say(Source)
      /\ Len(Heard(Source))' = Len(Heard(Source))
      /\ \A k : At(Source, k)' = At(Source, k)
  BY SameSources
<1>2. PastInv'
  BY SameSources DEF IInv
<1>3. stage' = "exited" /\ status' = "aborted"
  BY DEF exit
<1>4. TypeOK'
  BY <1>1, <1>3 DEF IInv, TypeOK, lexer
<1>5. AtEndInv' /\ OriginInv' /\ OkInv'
  BY <1>1, <1>3 DEF IInv, AtEndInv, OriginInv, OkInv, lexer
<1>6. ParseInv' /\ OverInv' /\ StatusInv'
  BY <1>3 DEF ParseInv, OverInv, Over, StatusInv
<1>7. AbortInv'
  BY <1>1 DEF AbortInv
<1>. QED
  BY <1>2, <1>4, <1>5, <1>6, <1>7 DEF IInv

\* A source is read from its beginning.
LEMMA StartStep ==
  ASSUME IInv, stage \in {"main", "read"}, NEW from \in Origins, yyparse(from),
         from \in AllModes => from = mode, from \notin AllModes => Origin \notin AllModes,
         buf' \in Seq(Token), command_line' \in 0..Current + 1
  PROVE  IInv'
<1> DEFINE new == [NoSource EXCEPT !.from = from]
<1>1. new = [from |-> from, lines |-> <<>>, executed |-> <<>>]
  BY DEF NoSource
<1>2. new \in SourceType
  <2>1. <<>> \in Seq(Seq(Toks)) /\ <<>> \in Seq(Seq(Token))
    OBVIOUS
  <2> HIDE DEF new
  <2>. QED
    BY <1>1, <2>1 DEF SourceType
<1>3. FlattenSeq(new.lines) = <<>>
  BY <1>1 DEF FlattenSeq
<1>4. Upto(new, 0, <<>>)
  BY <1>1, <1>2, AtSteps DEF Upto, Nothing
<1>5. new.from = from
  BY <1>1
<1>6. sources' = Append(sources, new)
  BY DEF yyparse
<1> HIDE DEF new
<1>7. /\ sources \in Seq(SourceType) /\ Current \in Nat /\ Current' = Current + 1
      /\ sources' \in Seq(SourceType) /\ sources' # <<>> /\ Source' = new /\ Origin' = from
      /\ \A i \in 1..Current : sources'[i] = sources[i]
  <2>1. sources \in Seq(SourceType)
    BY DEF IInv, Typed
  <2>2. /\ sources' \in Seq(SourceType) /\ sources' # <<>> /\ Len(sources') = Len(sources) + 1
        /\ Len(sources) \in Nat
        /\ \A i \in 1..Len(sources) : sources'[i] = sources[i]
        /\ sources'[Len(sources) + 1] = new
    BY <1>2, <1>6, <2>1, AppendProperties, LenProperties
  <2>. QED
    BY <1>5, <2>1, <2>2 DEF Current, Source, Origin, Last
<1>8. Typed'
  <2>1. <<>> \in Seq(Toks) /\ <<>> \in Seq(Token)
    OBVIOUS
  <2>2. unread \in Seq(Toks) /\ input_len \in Nat /\ {ok, atEnd, is_eof, skipping} \subseteq BOOLEAN
    BY DEF IInv, Typed
  <2>3. /\ buffer' = <<>> /\ command' = <<>> /\ skipping' = FALSE /\ atEnd' = FALSE
        /\ unread' = unread /\ input_len' = input_len /\ is_eof' = is_eof /\ ok' = ok
    BY DEF yyparse, lexer
  <2>. QED
    BY <1>7, <2>1, <2>2, <2>3 DEF Typed
<1>9. /\ stage' = "parse" /\ status = "running" /\ status' = status /\ ok' = ok /\ mode' = mode
      /\ ~is_eof' /\ unread' = <<>> /\ input_len' = 0 /\ ~atEnd' /\ buffer' = <<>>
      /\ command' = <<>> /\ ~skipping'
  BY DEF IInv, TypeOK, yyparse, lexer
<1>10. TypeOK'
  BY <1>7, <1>9 DEF IInv, TypeOK
<1>11. AtEndInv' /\ OriginInv' /\ OverInv' /\ AbortInv' /\ StatusInv'
  BY <1>7, <1>9 DEF AtEndInv, OriginInv, OverInv, Over, AbortInv, StatusInv
<1>12. OkInv'
  BY <1>7, <1>9 DEF IInv, OkInv
<1>13. Following(Source)'
  <2>1. Remains(new, 0)'
    BY <1>3, <1>6, <1>9 DEF Remains, new
  <2>2. Upto(new, 0, <<>>)'
    BY <1>4 DEF Upto, new
  <2>. QED
    BY <1>3, <1>7, <1>9, <2>1, <2>2 DEF Following, Upto, Remains
<1>14. ParseInv'
  BY <1>9, <1>13 DEF ParseInv, LastOnly
<1>15. PastInv'
  <2>1. ASSUME NEW i \in 1..Current, Fits(sources[i])
        PROVE  /\ sources[i].executed = Say(sources[i]).done
               /\ sources[i].from = "file" => Say(sources[i]).end # "failed"
    <3>1. CASE i \in 1..Current - 1
      BY <2>1, <3>1 DEF IInv, PastInv
    <3>2. CASE i = Current
      <4>1. sources # <<>> /\ Source = sources[i]
        BY <1>7, <2>1, <3>2 DEF Source, Current, Last
      <4>. QED
        BY <2>1, <4>1 DEF IInv, OverInv, Over, OkInv, Origin
    <3>. QED
      BY <1>7, <3>1, <3>2
  <2>2. ASSUME NEW i \in 1..Current
        PROVE  /\ sources[i]' = sources[i] /\ (Fits(sources[i])' <=> Fits(sources[i]))
               /\ Say(sources[i])' = Say(sources[i])
    BY <1>7 DEF Fits, Say, Heard
  <2>3. \A i \in 1..Current' - 1 : i \in 1..Current
    BY <1>7
  <2>. QED
    BY <2>1, <2>2, <2>3 DEF PastInv
<1>. QED
  BY <1>8, <1>10, <1>11, <1>12, <1>14, <1>15 DEF IInv

\* The texts of the model are sequences of tokens.
LEMMA TextTyped == \A n : Text(n) \subseteq Seq(Token)
<1>1. \A n : \A k \in 1..n : k \in Nat
  OBVIOUS
<1>2. \A k \in Nat : [1..k -> Token] \subseteq Seq(Token)
  BY SeqDef
<1>. QED
  BY <1>1, <1>2 DEF Text

\* Between two sources there is nothing, or the one before is over.
LEMMA BetweenFacts ==
  ASSUME IInv, stage \in {"main", "read"}
  PROVE  /\ status = "running" /\ buf \in Seq(Token) /\ ok \in BOOLEAN
         /\ Current \in Nat /\ command_line \in 0..Current /\ sources \in Seq(SourceType)
         /\ Origin \in {"none", "builtin", "conf", "file", "terminal"}
         /\ Origin = "none" => sources = <<>> /\ Current = 0
         /\ Origin \in AllModes => Origin = mode
         /\ mode \in AllModes
<1>1. /\ status = "running" /\ buf \in Seq(Token) /\ ok \in BOOLEAN /\ mode \in AllModes
      /\ command_line \in 0..Current /\ sources \in Seq(SourceType)
      /\ Origin \in AllModes => Origin = mode
      /\ Origin \notin {"argument", "stream"}
  BY SessionAssumption DEF IInv, Typed, TypeOK, OriginInv
<1>2. CASE sources = <<>>
  BY <1>1, <1>2 DEF Origin, Source, NoSource, Current
<1>3. CASE sources # <<>>
  <2>1. Source \in SourceType /\ Current \in Nat
    BY <1>1, <1>3, LastSource DEF Source, Current
  <2>2. Origin \in Origins
    BY <2>1 DEF Origin, SourceType
  <2>. QED
    BY <1>1, <2>1, <2>2 DEF Origins, AllModes
<1>. QED
  BY <1>2, <1>3

\* A step of main that begins with a source, or ends without one.
LEMMA SourceSteps ==
  ASSUME IInv, \/ c_typedef_parse_builtins \/ read_conf_file \/ parse_command_line
               \/ parse_files \/ parse_stdin
  PROVE  IInv'
<1>1. stage \in {"main", "read"}
  BY DEF c_typedef_parse_builtins, read_conf_file, parse_command_line, parse_files, parse_stdin,
         AtStart
<1>2. /\ buf \in Seq(Token) /\ Current \in Nat /\ command_line \in 0..Current
      /\ sources \in Seq(SourceType) /\ (Origin = "none" => Current = 0)
      /\ command_line \in 0..Current + 1
  BY <1>1, BetweenFacts
<1>3. "none" \notin AllModes /\ "builtin" \notin AllModes /\ "conf" \notin AllModes
  BY DEF AllModes
<1>4. {"builtin", "conf", "argument", "file", "stream"} \subseteq Origins
  BY DEF Origins, AllModes
<1>5. \A from : yyparse(from) => Len(sources') = Current + 1
  <2>1. \A x : Len(Append(sources, x)) = Current + 1
    BY <1>2 DEF Current
  <2>. QED
    BY <2>1 DEF yyparse
<1>6. CASE c_typedef_parse_builtins
  <2>1. /\ yyparse("builtin") /\ Origin = "none" /\ command_line' = 1 /\ buf' = buf
        /\ Origin \notin AllModes
    BY <1>3, <1>6 DEF c_typedef_parse_builtins, ReadSoFar
  <2>2. command_line' \in 0..Current + 1
    BY <1>2, <2>1
  <2>. QED
    BY <1>1, <1>2, <1>3, <1>4, <2>1, <2>2, StartStep
<1>7. CASE read_conf_file
  <2>1. /\ yyparse("conf") /\ Origin \in {"none", "builtin"} /\ command_line' = command_line
        /\ buf' = buf /\ Origin \notin AllModes
    BY <1>3, <1>7 DEF read_conf_file, ReadSoFar
  <2>. QED
    BY <1>1, <1>2, <1>3, <1>4, <2>1, StartStep
<1>8. CASE parse_command_line
  <2>1. /\ yyparse("argument") /\ mode = "argument" /\ command_line' = Len(sources')
        /\ buf' = buf
    BY <1>8 DEF parse_command_line
  <2>2. command_line' \in 0..Current + 1 /\ "argument" \in AllModes
    BY <1>2, <1>5, <2>1 DEF AllModes
  <2>. QED
    BY <1>1, <1>2, <1>4, <2>1, <2>2, StartStep
<1>9. CASE parse_files
  <2>1. /\ yyparse("file") /\ mode = "file" /\ command_line' = command_line /\ buf' = buf
        /\ "file" \in AllModes
    BY <1>9 DEF parse_files, AllModes
  <2>. QED
    BY <1>1, <1>2, <1>4, <2>1, StartStep
<1>10. CASE parse_stdin
  <2>1. /\ yyparse("stream") /\ mode = "stream" /\ command_line' = command_line /\ buf' = buf
        /\ "stream" \in AllModes
    BY <1>10 DEF parse_stdin, AllModes
  <2>. QED
    BY <1>1, <1>2, <1>4, <2>1, StartStep
<1>. QED
  BY <1>6, <1>7, <1>8, <1>9, <1>10

\* A line that is typed is parsed, unless it is empty.
LEMMA TypedLine ==
  ASSUME IInv, stage \in {"main", "read"}, mode = "terminal", NEW line \in Seq(Token),
         parse_string(line)
  PROVE  IInv'
<1>1. /\ buf' = line /\ Current \in Nat /\ command_line \in 0..Current
      /\ sources \in Seq(SourceType)
  BY BetweenFacts DEF parse_string
<1>2. CASE line = <<>>
  <2>1. exit("aborted") /\ UNCHANGED <<command_line, notTyping>>
    BY <1>2 DEF parse_string
  <2>2. Typed'
    BY <1>1, <2>1 DEF IInv, Typed, notTyping, lexer
  <2>3. ASSUME sources # <<>>, Fits(Source)
        PROVE  \E k \in 0..Len(Heard(Source)) : At(Source, k).done = Source.executed
    <3>1. Source \in SourceType
      BY <1>1, <2>3, LastSource DEF Source
    <3>2. Len(Heard(Source)) \in 0..Len(Heard(Source))
      BY <3>1, SourceText
    <3>3. At(Source, Len(Heard(Source))).done = Source.executed
      BY <2>3 DEF IInv, OverInv, Over, Say, At
    <3>. QED
      BY <3>2, <3>3
  <2>4. /\ sources' = sources /\ UNCHANGED <<mode, ok, command_line, lexer>>
        /\ atEnd' = atEnd /\ (is_eof => buffer' = <<>>)
        /\ atEnd => \A i \in DOMAIN buffer' : i = 1 /\ buffer'[i] \in Words
    BY <2>1 DEF IInv, TypeOK, notTyping
  <2>. QED
    BY <2>1, <2>2, <2>3, <2>4, AbortStep
<1>3. CASE line # <<>>
  <2>1. /\ yyparse("terminal")
        /\ command_line' = IF command_line = 0 THEN Len(sources') ELSE command_line
    BY <1>3 DEF parse_string
  <2>2. \A x : Len(Append(sources, x)) = Current + 1
    BY <1>1 DEF Current
  <2>3. Len(sources') = Current + 1
    BY <2>1, <2>2 DEF yyparse
  <2>4. command_line' \in 0..Current + 1
    BY <1>1, <2>1, <2>3
  <2>5. "terminal" \in Origins /\ "terminal" \in AllModes
    BY DEF Origins, AllModes
  <2>. QED
    BY <1>1, <2>1, <2>4, <2>5, StartStep
<1>. QED
  BY <1>2, <1>3

\* A line is read from the terminal: cdecl parses what was typed so far, waits for more of
\* it, or ends.
LEMMA InputStep == IInv /\ read_input_line => IInv'
<1>1. SUFFICES ASSUME IInv, read_input_line PROVE IInv'
  OBVIOUS
<1> DEFINE sofar == IF stage = "read" THEN buf ELSE <<>>
<1>2. mode = "terminal" /\ stage \in {"main", "read"}
  BY <1>1 DEF read_input_line
<1>3. /\ status = "running" /\ buf \in Seq(Token) /\ ok \in BOOLEAN
      /\ Origin \in AllModes => Origin = "terminal"
  BY <1>1, <1>2, BetweenFacts
<1>4. /\ sofar \in Seq(Token) /\ <<>> \in Seq(Token)
      /\ \A n : \A line \in Text(n) : line \in Seq(Token) /\ sofar \o line \in Seq(Token)
  <2>1. sofar \in Seq(Token) /\ <<>> \in Seq(Token)
    BY <1>3
  <2> HIDE DEF sofar
  <2>2. \A line \in Seq(Token) : sofar \o line \in Seq(Token)
    BY <2>1
  <2>. QED
    BY <2>1, <2>2, TextTyped
<1>5. CASE stage = "read" /\ parse_string(sofar)
  <2> HIDE DEF sofar
  <2>. QED
    BY <1>1, <1>2, <1>4, <1>5, TypedLine
<1>6. ASSUME NEW line \in Text(Room), parse_string(sofar \o line) PROVE IInv'
  <2>1. sofar \o line \in Seq(Token)
    BY <1>4
  <2>. QED
    BY <1>1, <1>2, <1>6, <2>1, TypedLine
<1>7. ASSUME NEW line \in Text(Min({1, Room})) \cup {<<>>}, stage' = "read", buf' = sofar \o line,
             UNCHANGED <<command_line, status, notTyping>>
      PROVE  IInv'
  <2>1. /\ sources' = sources /\ mode' = mode /\ ok' = ok /\ atEnd' = atEnd /\ buffer' = buffer
        /\ command' = command /\ skipping' = skipping /\ unread' = unread
        /\ input_len' = input_len /\ is_eof' = is_eof /\ column' = column
        /\ command_line' = command_line /\ status' = status
    BY <1>7 DEF notTyping, lexer
  <2>2. buf' \in Seq(Token)
    <3>1. line \in Seq(Token)
      BY <1>4
    <3>2. sofar \in Seq(Token)
      BY <1>4
    <3> HIDE DEF sofar
    <3>. QED
      BY <1>7, <3>1, <3>2
  <2>3. Typed'
    BY <1>1, <2>1, <2>2 DEF IInv, Typed
  <2>4. /\ Source' = Source /\ Current' = Current /\ Origin' = Origin
        /\ Fits(Source)' <=> Fits(Source)
        /\ Say(Source)' = Say(Source)
    BY <2>1, SameSources
  <2>5. PastInv'
    BY <1>1, <2>1, SameSources DEF IInv
  <2>6. TypeOK' /\ AtEndInv'
    BY <1>1, <1>2, <1>7, <2>1, <2>4 DEF IInv, TypeOK, AtEndInv
  <2>7. OriginInv' /\ OkInv'
    BY <1>1, <1>2, <1>7, <2>1, <2>4 DEF IInv, OriginInv, OkInv
  <2>8. ParseInv' /\ OverInv' /\ AbortInv' /\ StatusInv'
    BY <1>1, <1>2, <1>3, <1>7, <2>1, <2>4 DEF IInv, ParseInv, OverInv, Over, AbortInv, StatusInv
  <2>. QED
    BY <2>3, <2>5, <2>6, <2>7, <2>8 DEF IInv
<1>8. CASE exit(Status(ok)) /\ buf' = <<>> /\ UNCHANGED <<command_line, notTyping>>
  <2>1. /\ sources' = sources /\ mode' = mode /\ ok' = ok /\ atEnd' = atEnd /\ buffer' = buffer
        /\ command' = command /\ skipping' = skipping /\ unread' = unread
        /\ input_len' = input_len /\ is_eof' = is_eof /\ column' = column
        /\ command_line' = command_line /\ status' = Status(ok) /\ stage' = "exited"
        /\ buf' = <<>>
    BY <1>8 DEF notTyping, lexer, exit
  <2>2. Typed'
    BY <1>1, <1>4, <2>1 DEF IInv, Typed
  <2>3. /\ Source' = Source /\ Current' = Current /\ Origin' = Origin
        /\ Fits(Source)' <=> Fits(Source)
        /\ Say(Source)' = Say(Source)
    BY <2>1, SameSources
  <2>4. PastInv'
    BY <1>1, <2>1, SameSources DEF IInv
  <2>5. (ok => Status(ok) = "EX_OK") /\ (~ok => Status(ok) = "EX_DATAERR")
    BY DEF Status
  <2>6. TypeOK' /\ AtEndInv'
    BY <1>1, <2>1, <2>3, <2>5 DEF IInv, TypeOK, AtEndInv
  <2>7. OriginInv' /\ OkInv'
    BY <1>1, <2>1, <2>3 DEF IInv, OriginInv, OkInv
  <2>8. ParseInv' /\ OverInv' /\ AbortInv'
    BY <1>1, <1>2, <2>1, <2>3, <2>5 DEF IInv, ParseInv, OverInv, Over, AbortInv
  <2>9. StatusInv'
    BY <1>1, <1>2, <1>3, <2>1, <2>3, <2>5 DEF IInv, OkInv, StatusInv
  <2>. QED
    BY <2>2, <2>4, <2>6, <2>7, <2>8, <2>9 DEF IInv
<1>. QED
  BY <1>1, <1>2, <1>5, <1>6, <1>7, <1>8 DEF read_input_line

\* A line has its end at its end.
LEMMA LineTyped ==
  ASSUME IInv, NEW line \in Line
  PROVE  line \in Seq(Toks) /\ \A i \in 1..Len(line) - 1 : line[i] # "newline"
<1>1. "newline" \in Toks /\ "word" \in Token /\ Token \subseteq Toks /\ "newline" \notin Token
  BY DEF Toks, Token, Words, End
<1>2. ASSUME NEW t \in Seq(Token)
      PROVE  /\ t \in Seq(Toks) /\ Len(t) \in Nat
             /\ \A i \in 1..Len(t) : t[i] # "newline"
  <2>1. t \in Seq(Toks)
    BY <1>1, SeqMonotonic
  <2>2. \A i \in 1..Len(t) : t[i] \in Token
    OBVIOUS
  <2>. QED
    BY <1>1, <2>1, <2>2
<1>3. ASSUME NEW t \in Seq(Token), line = Append(t, "newline")
      PROVE  line \in Seq(Toks) /\ \A i \in 1..Len(line) - 1 : line[i] # "newline"
  <2>1. /\ t \in Seq(Toks) /\ Len(t) \in Nat /\ \A i \in 1..Len(t) : t[i] # "newline"
    BY <1>2
  <2>2. /\ Append(t, "newline") \in Seq(Toks) /\ Len(Append(t, "newline")) = Len(t) + 1
        /\ \A i \in 1..Len(t) : Append(t, "newline")[i] = t[i]
    BY <1>1, <2>1
  <2>3. (Len(t) + 1) - 1 = Len(t)
    BY <2>1
  <2>. QED
    BY <1>3, <2>1, <2>2, <2>3
<1>4. ASSUME line \in Seq(Token)
      PROVE  line \in Seq(Toks) /\ \A i \in 1..Len(line) - 1 : line[i] # "newline"
  <2>1. /\ line \in Seq(Toks) /\ Len(line) \in Nat /\ \A i \in 1..Len(line) : line[i] # "newline"
    BY <1>2, <1>4
  <2>2. \A i \in 1..Len(line) - 1 : i \in 1..Len(line)
    BY <2>1
  <2>. QED
    BY <2>1, <2>2
<1>5. <<"word">> \in Seq(Token) /\ <<>> \in Seq(Token) /\ buf \in Seq(Token)
  BY <1>1 DEF IInv, Typed
<1>6. \/ line = <<"word">> \/ line = buf \/ line \in Text(Room)
      \/ \E t \in {<<>>} \cup Text(Room - 1) : line = Append(t, "newline")
  BY DEF Line
<1>. QED
  BY <1>3, <1>4, <1>5, <1>6, TextTyped

\* flex's buffer has some of the text behind what was in it, and the rest is left.
LEMMA Filled ==
  ASSUME NEW text \in Seq(Toks), buffer \in Seq(Toks), Fill(text)
  PROVE  \E m \in 0..Len(text) :
           /\ buffer' \in Seq(Toks) /\ Len(buffer') = Len(buffer) + m
           /\ \A i \in 1..Len(buffer) : buffer'[i] = buffer[i]
           /\ \A i \in 1..m : buffer'[Len(buffer) + i] = text[i]
           /\ unread' \in Seq(Toks) /\ Len(unread') = Len(text) - m
           /\ \A i \in 1..Len(text) - m : unread'[i] = text[m + i]
           /\ unread' # <<>> => Capacity < Len(text) /\ m < Len(text)
<1>1. Capacity \in Nat \ {0}
  BY SessionAssumption
<1>2. /\ Len(text) \in Nat /\ \A i \in 1..Len(text) : text[i] \in Toks
      /\ Len(buffer) \in Nat
  OBVIOUS
<1> DEFINE m == Min({Capacity, Len(text)})
           part == SubSeq(text, 1, m)
<1>3. m = IF Capacity <= Len(text) THEN Capacity ELSE Len(text)
  <2>1. \A x \in {Capacity, Len(text)} :
          (\A y \in {Capacity, Len(text)} : x <= y) <=>
            x = IF Capacity <= Len(text) THEN Capacity ELSE Len(text)
    BY <1>1, <1>2
  <2>. QED
    BY <1>1, <1>2, <2>1 DEF Min
<1>4. buffer' = buffer \o part /\ unread' = SubSeq(text, Capacity + 1, Len(text))
  BY DEF Fill
<1> HIDE DEF m
<1>5. m \in Nat /\ m <= Len(text) /\ m <= Capacity
  BY <1>1, <1>2, <1>3
<1>6. part \in Seq(Toks) /\ Len(part) = m /\ \A i \in 1..m : part[i] = text[i]
  <2>1. /\ SubSeq(text, 1, m) \in Seq(Toks)
        /\ Len(SubSeq(text, 1, m)) = IF 1 <= m THEN m - 1 + 1 ELSE 0
        /\ \A i \in 1..m - 1 + 1 : SubSeq(text, 1, m)[i] = text[1 + i - 1]
    <3>1. \A i \in 1..m : text[i] \in Toks
      BY <1>2, <1>5
    <3>2. 1 \in Int /\ m \in Int
      BY <1>5
    <3>. QED
      BY <3>1, <3>2, SubSeqProperties
  <2>2. m - 1 + 1 = m /\ \A i \in 1..m : 1 + i - 1 = i
    BY <1>5
  <2>3. ~ (1 <= m) => m = 0
    BY <1>5
  <2>. QED
    BY <2>1, <2>2, <2>3
<1> HIDE DEF part
<1>7. /\ buffer' \in Seq(Toks) /\ Len(buffer') = Len(buffer) + m
      /\ \A i \in 1..Len(buffer) : buffer'[i] = buffer[i]
      /\ \A i \in 1..m : buffer'[Len(buffer) + i] = text[i]
  <2>1. /\ buffer \o part \in Seq(Toks) /\ Len(buffer \o part) = Len(buffer) + Len(part)
        /\ \A i \in 1..Len(buffer) + Len(part) :
             (buffer \o part)[i] = IF i <= Len(buffer) THEN buffer[i] ELSE part[i - Len(buffer)]
    BY <1>6, ConcatProperties
  <2>2. \A i \in 1..Len(buffer) : i \in 1..Len(buffer) + m /\ i <= Len(buffer)
    BY <1>2, <1>5
  <2>3. \A i \in 1..m : /\ Len(buffer) + i \in 1..Len(buffer) + m
                        /\ ~ (Len(buffer) + i <= Len(buffer))
                        /\ (Len(buffer) + i) - Len(buffer) = i
    BY <1>2, <1>5
  <2>. QED
    BY <1>4, <1>6, <2>1, <2>2, <2>3
<1>8. /\ unread' \in Seq(Toks)
      /\ Len(unread') = IF Capacity < Len(text) THEN Len(text) - Capacity ELSE 0
      /\ \A i \in 1..Len(text) - Capacity : unread'[i] = text[Capacity + i]
  <2>1. /\ SubSeq(text, Capacity + 1, Len(text)) \in Seq(Toks)
        /\ Len(SubSeq(text, Capacity + 1, Len(text))) =
             IF Capacity + 1 <= Len(text) THEN Len(text) - (Capacity + 1) + 1 ELSE 0
        /\ \A i \in 1..Len(text) - (Capacity + 1) + 1 :
             SubSeq(text, Capacity + 1, Len(text))[i] = text[(Capacity + 1) + i - 1]
    <3>1. \A i \in Capacity + 1..Len(text) : text[i] \in Toks
      BY <1>1, <1>2
    <3>2. Capacity + 1 \in Int /\ Len(text) \in Int
      BY <1>1, <1>2
    <3>. QED
      BY <3>1, <3>2, SubSeqProperties
  <2>2. /\ Len(text) - (Capacity + 1) + 1 = Len(text) - Capacity
        /\ \A i \in 1..Len(text) - Capacity : (Capacity + 1) + i - 1 = Capacity + i
        /\ Capacity + 1 <= Len(text) <=> Capacity < Len(text)
    BY <1>1, <1>2
  <2>. QED
    BY <1>4, <2>1, <2>2
<1>9. /\ m \in 0..Len(text) /\ Len(unread') = Len(text) - m
      /\ \A i \in 1..Len(text) - m : unread'[i] = text[m + i]
      /\ unread' # <<>> => Capacity < Len(text) /\ m < Len(text)
  <2>1. CASE Capacity < Len(text)
    <3>1. m = Capacity
      BY <1>1, <1>2, <1>3, <2>1
    <3>. QED
      BY <1>1, <1>2, <1>8, <2>1, <3>1
  <2>2. CASE ~ (Capacity < Len(text))
    <3>1. m = Len(text) /\ Len(unread') = 0
      BY <1>1, <1>2, <1>3, <1>8, <2>2
    <3>2. unread' = <<>>
      BY <1>8, <3>1
    <3>. QED
      BY <1>2, <3>1, <3>2
  <2>. QED
    BY <2>1, <2>2
<1>. QED
  BY <1>7, <1>8, <1>9

\* Text b is, from token k on, what is in first and then what is in rest.
Parts(b, k, first, rest) ==
  /\ Len(b) = k + Len(first) + Len(rest)
  /\ \A i \in 1..Len(first) : b[k + i] = first[i]
  /\ \A i \in 1..Len(rest) : b[k + Len(first) + i] = rest[i]

\* What flex has, and what it is filled from, are the same text as before.
LEMMA FilledText ==
  ASSUME NEW text \in Seq(Toks), buffer \in Seq(Toks), Fill(text), NEW b, NEW k \in Nat,
         Parts(b, k, buffer, text)
  PROVE  Parts(b, k, buffer', unread')
<1>1. /\ Len(text) \in Nat /\ Len(buffer) \in Nat
      /\ Len(b) = k + Len(buffer) + Len(text)
      /\ \A i \in 1..Len(buffer) : b[k + i] = buffer[i]
      /\ \A i \in 1..Len(text) : b[k + Len(buffer) + i] = text[i]
  BY DEF Parts
<1>2. PICK m \in 0..Len(text) :
        /\ Len(buffer') = Len(buffer) + m
        /\ \A i \in 1..Len(buffer) : buffer'[i] = buffer[i]
        /\ \A i \in 1..m : buffer'[Len(buffer) + i] = text[i]
        /\ Len(unread') = Len(text) - m
        /\ \A i \in 1..Len(text) - m : unread'[i] = text[m + i]
  BY Filled
<1>3. Len(b) = k + Len(buffer') + Len(unread')
  BY <1>1, <1>2
<1>4. ASSUME NEW i \in 1..Len(buffer') PROVE b[k + i] = buffer'[i]
  <2>1. CASE i <= Len(buffer)
    <3>1. i \in 1..Len(buffer)
      BY <1>1, <2>1
    <3>. QED
      BY <1>1, <1>2, <3>1
  <2>2. CASE ~ (i <= Len(buffer))
    <3>1. PICK j \in 1..m : i = Len(buffer) + j
      <4>1. i - Len(buffer) \in 1..m /\ i = Len(buffer) + (i - Len(buffer))
        BY <1>1, <1>2, <2>2
      <4>. QED
        BY <4>1
    <3>2. j \in 1..Len(text) /\ k + i = k + Len(buffer) + j
      BY <1>1, <3>1
    <3>. QED
      BY <1>1, <1>2, <3>1, <3>2
  <2>. QED
    BY <2>1, <2>2
<1>5. ASSUME NEW i \in 1..Len(unread') PROVE b[k + Len(buffer') + i] = unread'[i]
  <2>1. /\ i \in 1..Len(text) - m /\ m + i \in 1..Len(text)
        /\ k + Len(buffer') + i = k + Len(buffer) + (m + i)
    BY <1>1, <1>2
  <2>. QED
    BY <1>1, <1>2, <2>1
<1>. QED
  BY <1>3, <1>4, <1>5 DEF Parts

\* What fills the buffers has a token at its end only, if the text has, and flex has
\* none of it.
LEMMA FilledLast ==
  ASSUME NEW text \in Seq(Toks), buffer \in Seq(Toks), Fill(text), NEW tok,
         \A i \in 1..Len(buffer) : buffer[i] # tok,
         \A i \in 1..Len(text) - 1 : text[i] # tok
  PROVE  LastOnly(tok)'
<1>1. Len(text) \in Nat /\ Len(buffer) \in Nat
  OBVIOUS
<1>2. PICK m \in 0..Len(text) :
        /\ Len(buffer') = Len(buffer) + m
        /\ \A i \in 1..Len(buffer) : buffer'[i] = buffer[i]
        /\ \A i \in 1..m : buffer'[Len(buffer) + i] = text[i]
        /\ Len(unread') = Len(text) - m
        /\ \A i \in 1..Len(text) - m : unread'[i] = text[m + i]
        /\ unread' # <<>> => m < Len(text)
  BY Filled
<1>3. ASSUME unread' # <<>>, NEW i \in 1..Len(buffer') PROVE buffer'[i] # tok
  <2>1. CASE i <= Len(buffer)
    <3>1. i \in 1..Len(buffer)
      BY <1>1, <2>1
    <3>. QED
      BY <1>2, <3>1
  <2>2. CASE ~ (i <= Len(buffer))
    <3>1. PICK j \in 1..m : i = Len(buffer) + j
      <4>1. i - Len(buffer) \in 1..m /\ i = Len(buffer) + (i - Len(buffer))
        BY <1>1, <1>2, <2>2
      <4>. QED
        BY <4>1
    <3>2. j \in 1..Len(text) - 1
      BY <1>1, <1>2, <1>3, <3>1
    <3>. QED
      BY <1>2, <3>1, <3>2
  <2>. QED
    BY <2>1, <2>2
<1>4. ASSUME unread' # <<>>, NEW i \in 1..Len(unread') - 1 PROVE unread'[i] # tok
  <2>1. i \in 1..Len(text) - m /\ m + i \in 1..Len(text) - 1
    BY <1>1, <1>2
  <2>. QED
    BY <1>2, <2>1
<1>. QED
  BY <1>3, <1>4 DEF LastOnly

\* flex asks for text only if it has none, or one word.
LEMMA WantingFacts ==
  ASSUME IInv, Wanting
  PROVE  /\ stage = "parse" /\ ~atEnd /\ ~is_eof /\ status = "running"
         /\ sources \in Seq(SourceType) /\ sources # <<>> /\ buffer \in Seq(Toks)
         /\ unread \in Seq(Toks) /\ input_len \in Nat /\ Len(unread) \in Nat
         /\ Len(unread) <= input_len /\ Len(buffer) \in 0..1
         /\ \A i \in DOMAIN buffer : i = 1 /\ buffer[i] \in Words
         /\ \A i \in 1..Len(buffer) : buffer[i] \in Words /\ buffer[i] \notin End
<1>1. /\ stage = "parse" /\ ~atEnd /\ ~is_eof /\ status = "running"
      /\ sources \in Seq(SourceType) /\ sources # <<>> /\ buffer \in Seq(Toks)
      /\ unread \in Seq(Toks) /\ input_len \in Nat /\ Len(unread) <= input_len
  BY DEF Wanting, IInv, TypeOK, Typed, OriginInv
<1>2. Len(unread) \in Nat /\ DOMAIN buffer = 1..Len(buffer)
  BY <1>1
<1>3. buffer = <<>> \/ (Len(buffer) = 1 /\ buffer[1] \in Words)
  BY <1>1 DEF Wanting
<1>4. buffer = <<>> => Len(buffer) = 0
  OBVIOUS
<1>5. Words \cap End = {}
  BY DEF Words, End
<1>6. /\ Len(buffer) \in 0..1
      /\ \A i \in 1..Len(buffer) : i = 1 /\ buffer[i] \in Words /\ buffer[i] \notin End
  <2>1. CASE Len(buffer) = 0
    BY <2>1
  <2>2. CASE Len(buffer) = 1 /\ buffer[1] \in Words
    <3>1. \A i \in 1..Len(buffer) : i = 1
      BY <2>2
    <3>. QED
      BY <1>5, <2>2, <3>1
  <2>. QED
    BY <1>3, <1>4, <2>1, <2>2
<1>. QED
  BY <1>1, <1>2, <1>6

\* A line is read of a source, and nothing else of it changes.
LEMMA LineAppended ==
  ASSUME NEW s \in SourceType, NEW line \in Seq(Toks)
  PROVE  LET t == [s EXCEPT !.lines = Append(@, line)]
         IN  /\ t = [from |-> s.from, lines |-> Append(s.lines, line),
                     executed |-> s.executed]
             /\ t \in SourceType /\ t.from = s.from /\ t.lines = Append(s.lines, line)
<1> DEFINE t == [s EXCEPT !.lines = Append(@, line)]
<1>1. Append(s.lines, line) \in Seq(Seq(Toks))
  BY DEF SourceType
<1>2. s = [from |-> s.from, lines |-> s.lines, executed |-> s.executed]
  BY DEF SourceType
<1>3. t = [from |-> s.from, lines |-> Append(s.lines, line), executed |-> s.executed]
  <2>1. \A l : [s EXCEPT !.lines = l]
                = [from |-> s.from, lines |-> l, executed |-> s.executed]
    BY <1>2
  <2>. QED
    BY <2>1
<1>4. s.from \in Origins /\ s.executed \in Seq(Seq(Token))
  BY DEF SourceType
<1>. QED
  BY <1>1, <1>3, <1>4 DEF SourceType

\* flex takes what fits in its buffer of what is left of the source.
LEMMA FetchStep == IInv /\ lexer_get_input => IInv'
<1>1. SUFFICES ASSUME IInv, lexer_get_input PROVE IInv'
  OBVIOUS
<1>2. /\ stage = "parse" /\ ~atEnd /\ ~is_eof /\ status = "running"
      /\ sources \in Seq(SourceType) /\ sources # <<>> /\ buffer \in Seq(Toks)
      /\ \A i \in 1..Len(buffer) : buffer[i] \notin End
      /\ \A i \in DOMAIN buffer : i = 1 /\ buffer[i] \in Words
  BY <1>1, WantingFacts DEF lexer_get_input
<1>3. /\ mode' = mode /\ stage' = "parse" /\ buf' = buf /\ ok' = ok /\ is_eof' = is_eof
      /\ command' = command /\ skipping' = skipping /\ command_line' = command_line
      /\ status' = status
  BY <1>1, <1>2 DEF lexer_get_input
<1>4. /\ unread \in Seq(Toks) /\ input_len \in Nat /\ Len(unread) <= input_len
      /\ Len(unread) \in Nat /\ Len(buffer) \in Nat
  BY <1>1, WantingFacts DEF lexer_get_input
<1> DEFINE s == Source
<1>5. s \in SourceType /\ s = Last(sources) /\ Current \in Nat \ {0}
  BY <1>2, LastSource DEF Source, Current
<1> HIDE DEF s
<1>6. CASE unread # <<>> /\ Fill(unread) /\ UNCHANGED <<sources, input_len, atEnd>>
  <2>1. /\ sources' = sources /\ input_len' = input_len /\ atEnd' = atEnd
    BY <1>6
  <2>2. /\ buffer' \in Seq(Toks) /\ unread' \in Seq(Toks)
        /\ Len(unread') \in Nat /\ Len(unread') <= Len(unread)
    BY <1>2, <1>4, <1>6, Filled
  <2>3. Typed'
    BY <1>1, <1>3, <2>1, <2>2 DEF IInv, Typed
  <2>4. /\ Source' = Source /\ Current' = Current /\ Origin' = Origin
        /\ Fits(Source)' <=> Fits(Source)
        /\ Say(Source)' = Say(Source)
        /\ \A k : At(Source, k)' = At(Source, k)
    BY <2>1, SameSources
  <2>5. PastInv'
    BY <1>1, <2>1, SameSources DEF IInv
  <2>6. TypeOK' /\ AtEndInv'
    BY <1>1, <1>2, <1>3, <1>4, <2>1, <2>2, <2>4 DEF IInv, TypeOK, AtEndInv
  <2>7. OriginInv' /\ OkInv' /\ OverInv' /\ AbortInv' /\ StatusInv'
    BY <1>1, <1>2, <1>3, <2>1, <2>4
    DEF IInv, OriginInv, OkInv, OverInv, Over, AbortInv, StatusInv
  <2>8. \A tok \in End : LastOnly(tok) => LastOnly(tok)'
    BY <1>2, <1>4, <1>6, FilledLast DEF LastOnly
  <2>9. Following(Source) => Following(Source)'
    <3>1. FlattenSeq(Source.lines)' = FlattenSeq(Source.lines) /\ Heard(Source)' = Heard(Source)
      BY <2>4 DEF Heard
    <3>2. \A k : Failing(Source, k) => Failing(Source, k)'
      BY <2>4 DEF Failing
    <3>3. ASSUME NEW k \in 0..Len(FlattenSeq(Source.lines)), Upto(Source, k, command),
                 Remains(Source, k)
          PROVE  Upto(Source, k, command)' /\ Remains(Source, k)'
      <4>1. Upto(Source, k, command)'
        BY <1>3, <2>4, <3>3 DEF Upto
      <4> DEFINE text == FlattenSeq(Source.lines)
      <4>2. /\ Len(text) = k + Len(buffer) + Len(unread)
            /\ \A i \in 1..Len(buffer) : text[k + i] = buffer[i]
            /\ \A i \in 1..Len(unread) : text[k + Len(buffer) + i] = unread[i]
        BY <3>3 DEF Remains
      <4>3. k \in Nat
        OBVIOUS
      <4> HIDE DEF text
      <4>4. /\ Len(text) = k + Len(buffer') + Len(unread')
            /\ \A i \in 1..Len(buffer') : text[k + i] = buffer'[i]
            /\ \A i \in 1..Len(unread') : text[k + Len(buffer') + i] = unread'[i]
        <5>1. Parts(text, k, buffer, unread)
          BY <4>2 DEF Parts
        <5>2. Parts(text, k, buffer', unread')
          BY <1>2, <1>4, <1>6, <4>3, <5>1, FilledText
        <5>. QED
          BY <5>2 DEF Parts
      <4>. QED
        BY <3>1, <4>1, <4>4 DEF Remains, text
    <3>. QED
      BY <1>2, <1>3, <3>1, <3>2, <3>3 DEF Following
  <2>10. ParseInv'
    <3>1. {"newline", "semicolon"} \subseteq End
      BY DEF End
    <3>. QED
      BY <1>1, <1>2, <1>3, <2>4, <2>8, <2>9, <3>1 DEF IInv, ParseInv
  <2>. QED
    BY <2>3, <2>5, <2>6, <2>7, <2>10 DEF IInv
<1>7. ASSUME unread = <<>>, NEW line \in Line, input_len' = Len(line), Fill(line),
             sources' = [sources EXCEPT ![Current].lines = Append(@, line)], atEnd' = atEnd
      PROVE  IInv'
  <2>1. line \in Seq(Toks) /\ \A i \in 1..Len(line) - 1 : line[i] # "newline"
    BY <1>1, LineTyped
  <2> DEFINE t == [s EXCEPT !.lines = Append(@, line)]
  <2>2. /\ t = [from |-> s.from, lines |-> Append(s.lines, line), executed |-> s.executed]
        /\ t \in SourceType
    BY <1>5, <2>1, LineAppended
  <2>3. sources' = WithLast(sources, t)
    BY <1>5, <1>7 DEF Last, Current, WithLast
  <2>4. t.from = s.from /\ t.lines = Append(s.lines, line) /\ t.executed = s.executed
    BY <2>2
  <2> HIDE DEF t
  <2>5. /\ sources' \in Seq(SourceType) /\ sources' # <<>> /\ Len(sources') = Len(sources)
        /\ Last(sources') = t
        /\ \A i \in 1..Len(sources) - 1 : sources'[i] = sources[i]
    BY <1>2, <2>2, <2>3, LastReplaced
  <2>6. Source' = t /\ Current' = Current /\ Origin' = Origin
    BY <2>4, <2>5 DEF Source, Current, Origin, s
  <2>7. /\ buffer' \in Seq(Toks) /\ unread' \in Seq(Toks)
        /\ Len(line) \in Nat /\ Len(unread') \in Nat /\ Len(unread') <= Len(line)
        /\ unread' # <<>> => Capacity < Len(line)
    BY <1>2, <1>7, <2>1, Filled
  <2>8. Typed'
    BY <1>1, <1>3, <1>7, <2>5, <2>7 DEF IInv, Typed
  <2>9. TypeOK' /\ AtEndInv'
    BY <1>1, <1>2, <1>3, <1>7, <2>6, <2>7 DEF IInv, TypeOK, AtEndInv
  <2>10. OriginInv' /\ OkInv' /\ OverInv' /\ AbortInv' /\ StatusInv'
    BY <1>1, <1>2, <1>3, <2>5, <2>6
    DEF IInv, OriginInv, OkInv, OverInv, Over, AbortInv, StatusInv
  <2>11. PastInv'
    <3>1. ASSUME NEW i \in 1..Current - 1
          PROVE  /\ sources[i]' = sources[i] /\ (Fits(sources[i])' <=> Fits(sources[i]))
                 /\ Say(sources[i])' = Say(sources[i])
      BY <2>5 DEF Fits, Say, Heard, Current
    <3>. QED
      BY <1>1, <2>6, <3>1 DEF IInv, PastInv
  <2>12. /\ FlattenSeq(t.lines) = FlattenSeq(s.lines) \o line
         /\ \A k \in 0..Len(FlattenSeq(s.lines)) : At(t, k) = At(s, k)
         /\ Fits(t) => Fits(s) /\ (Single(line) \/ Len(line) <= Capacity)
    BY <1>5, <2>1, <2>2, <2>4, AtAgain
  <2>13. LastOnly("newline")'
    BY <1>2, <1>7, <2>1, FilledLast DEF End
  <2>14. Fits(t) => LastOnly("semicolon")'
    <3>1. CASE Single(line)
      BY <1>2, <1>7, <2>1, <3>1, FilledLast DEF Single, End
    <3>2. CASE Len(line) <= Capacity
      <4>1. Capacity \in Nat
        BY SessionAssumption
      <4>2. unread' = <<>>
        BY <2>7, <3>2, <4>1
      <4>. QED
        BY <4>2 DEF LastOnly
    <3>. QED
      BY <2>12, <3>1, <3>2
  <2>15. ASSUME Following(s) PROVE Following(Source)'
    <3> DEFINE a == FlattenSeq(s.lines)
               b == FlattenSeq(t.lines)
    <3>1. a \in Seq(Toks) /\ Len(a) \in Nat
      BY <1>5, SourceText
    <3>2. b = a \o line
      BY <2>12
    <3> HIDE DEF a, b
    <3>3. /\ Len(b) = Len(a) + Len(line) /\ \A i \in 1..Len(a) : b[i] = a[i]
          /\ \A i \in 1..Len(line) : b[Len(a) + i] = line[i]
      <4>1. /\ Len(a \o line) = Len(a) + Len(line)
            /\ \A i \in 1..Len(a) + Len(line) :
                 (a \o line)[i] = IF i <= Len(a) THEN a[i] ELSE line[i - Len(a)]
        BY <2>1, <3>1, ConcatProperties
      <4>2. \A i \in 1..Len(line) : /\ Len(a) + i \in 1..Len(a) + Len(line)
                                    /\ ~ (Len(a) + i <= Len(a)) /\ (Len(a) + i) - Len(a) = i
        BY <2>7, <3>1
      <4>3. \A i \in 1..Len(a) : i \in 1..Len(a) + Len(line) /\ i <= Len(a)
        BY <2>7, <3>1
      <4>. QED
        BY <3>2, <4>1, <4>2, <4>3
    <3>4. \A k \in 0..Len(a) : k \in 0..Len(b) /\ At(t, k) = At(s, k)
      BY <2>7, <2>12, <3>1, <3>3 DEF a
    <3>5. CASE skipping
      <4>1. PICK k \in 0..Len(a) : Failing(s, k)
        BY <2>15, <3>5 DEF Following, a
      <4>2. Failing(t, k) /\ k \in 0..Len(b)
        BY <2>4, <3>4, <4>1 DEF Failing
      <4>3. skipping'
        BY <1>3, <3>5
      <4>. QED
        BY <2>6, <4>2, <4>3 DEF Following, b, Failing, At, Heard
    <3>6. CASE ~skipping
      <4>1. PICK k \in 0..Len(a) : Upto(s, k, command) /\ Remains(s, k)
        BY <1>2, <2>15, <3>6 DEF Following, a
      <4>2. /\ k \in Nat /\ Len(a) = k + Len(buffer)
            /\ \A i \in 1..Len(buffer) : a[k + i] = buffer[i]
        BY <1>4, <1>7, <3>1, <4>1 DEF Remains, a
      <4>3. Upto(t, k, command) /\ k \in 0..Len(b)
        BY <2>4, <3>4, <4>1 DEF Upto
      <4>4. \A i \in 1..Len(buffer) : b[k + i] = buffer[i]
        <5>1. \A i \in 1..Len(buffer) : k + i \in 1..Len(a)
          BY <1>4, <4>2
        <5>. QED
          BY <3>3, <4>2, <5>1
      <4>5. /\ Len(b) = k + Len(buffer') + Len(unread')
            /\ \A i \in 1..Len(buffer') : b[k + i] = buffer'[i]
            /\ \A i \in 1..Len(unread') : b[k + Len(buffer') + i] = unread'[i]
        <5>1. \A i \in 1..Len(line) : b[k + Len(buffer) + i] = line[i]
          BY <3>3, <4>2
        <5>2. Len(b) = k + Len(buffer) + Len(line)
          BY <3>3, <4>2
        <5>3. Parts(b, k, buffer, line)
          BY <4>4, <5>1, <5>2 DEF Parts
        <5>4. Parts(b, k, buffer', unread')
          BY <1>2, <1>7, <2>1, <4>2, <5>3, FilledText
        <5>. QED
          BY <5>4 DEF Parts
      <4>6. ~skipping' /\ ~is_eof' /\ command' = command
        BY <1>2, <1>3, <3>6
      <4>. QED
        BY <2>6, <4>3, <4>5, <4>6 DEF Following, Remains, Upto, At, Heard, b
    <3>. QED
      BY <3>5, <3>6
  <2>16. ParseInv'
    <3>1. Fits(Source)' <=> Fits(t)
      BY <2>6 DEF Fits
    <3>. QED
      BY <3>1, <1>1, <1>2, <1>3, <2>6, <2>12, <2>13, <2>14, <2>15 DEF IInv, ParseInv, s
  <2>. QED
    BY <2>8, <2>9, <2>10, <2>11, <2>16 DEF IInv
<1>8. CASE /\ input_len' = 0 /\ atEnd' = TRUE /\ unread = <<>>
           /\ UNCHANGED <<sources, buffer, unread>>
  <2>1. /\ sources' = sources /\ unread' = unread /\ buffer' = buffer
    BY <1>8
  <2>2. Typed'
    BY <1>1, <1>3, <1>8 DEF IInv, Typed
  <2>3. /\ Source' = Source /\ Current' = Current /\ Origin' = Origin
        /\ Fits(Source)' <=> Fits(Source)
        /\ Say(Source)' = Say(Source)
        /\ \A k : At(Source, k)' = At(Source, k)
    BY <2>1, SameSources
  <2>4. PastInv'
    BY <1>1, <2>1, SameSources DEF IInv
  <2>5. TypeOK' /\ AtEndInv'
    BY <1>1, <1>2, <1>3, <1>4, <1>8, <2>1, <2>3 DEF IInv, TypeOK, AtEndInv
  <2>6. OriginInv' /\ OkInv' /\ OverInv' /\ AbortInv' /\ StatusInv'
    BY <1>1, <1>2, <1>3, <2>1, <2>3
    DEF IInv, OriginInv, OkInv, OverInv, Over, AbortInv, StatusInv
  <2>7. Following(Source)' <=> Following(Source)
    BY <1>2, <1>3, <2>1, <2>3 DEF Following, Failing, Upto, Remains, Heard
  <2>8. ParseInv'
    BY <1>1, <1>2, <1>3, <2>1, <2>3, <2>7 DEF IInv, ParseInv, LastOnly
  <2>. QED
    BY <2>2, <2>4, <2>5, <2>6, <2>8 DEF IInv
<1>. QED
  BY <1>1, <1>6, <1>7, <1>8 DEF lexer_get_input

\* An error, after which the parse returns or an assertion has failed.
LEMMA ErrorStep ==
  ASSUME IInv, stage = "parse", NEW at, NEW c, Error(TRUE, at, c), skipping' = skipping,
         UNCHANGED <<mode, buf, atEnd, command_line>>, buffer' \in Seq(Toks),
         atEnd => buffer' = <<>>, Told(FALSE)
  PROVE  IInv'
<1>1. sources' = sources /\ command' = command
  BY DEF Error
<1>2. sources \in Seq(SourceType) /\ sources # <<>>
  BY DEF IInv, Typed, OriginInv
<1>3. Source \in SourceType
  BY <1>2, LastSource DEF Source
<1>4. CASE exit("aborted") /\ UNCHANGED <<ok, lexer>>
  <2>1. Typed'
    BY <1>1, <1>4 DEF IInv, Typed, lexer
  <2>2. ASSUME Fits(Source)
        PROVE  \E k \in 0..Len(Heard(Source)) : At(Source, k).done = Source.executed
    <3>1. Len(Heard(Source)) \in 0..Len(Heard(Source))
      BY <1>3, SourceText
    <3>2. At(Source, Len(Heard(Source))).done = Source.executed
      BY <2>2 DEF Told, Say, At
    <3>. QED
      BY <3>1, <3>2
  <2>3. /\ atEnd => \A i \in DOMAIN buffer' : i = 1 /\ buffer'[i] \in Words
        /\ is_eof => buffer' = <<>>
    <3>1. DOMAIN <<>> = {}
      OBVIOUS
    <3>. QED
      BY <3>1 DEF IInv, TypeOK
  <2>. QED
    BY <1>1, <1>4, <2>1, <2>2, <2>3, AbortStep
<1>5. CASE lexer_reset(TRUE, at) /\ Return(FALSE)
  <2>1. ~is_eof' /\ is_eof' \in BOOLEAN /\ unread' = <<>> /\ input_len' = 0 /\ column' = 0
    BY <1>5 DEF lexer_reset
  <2>2. ok' \in BOOLEAN
    BY <1>5 DEF IInv, Typed, Return
  <2>3. Typed'
    <3>1. <<>> \in Seq(Toks) /\ 0 \in Nat
      OBVIOUS
    <3>. QED
      BY <1>1, <2>1, <2>2, <3>1 DEF IInv, Typed
  <2>4. Clean
    BY <2>1 DEF Clean
  <2>. QED
    BY <1>1, <1>5, <2>3, <2>4, ReturnStep
<1>. QED
  BY <1>4, <1>5 DEF Error

\* What the buffers have after the token.
RemainsAfter(s, k) ==
  LET text == FlattenSeq(s.lines)
  IN  /\ Len(text) = k + Len(buffer') + Len(unread)
      /\ \A i \in 1..Len(buffer') : text[k + i] = buffer'[i]
      /\ \A i \in 1..Len(unread) : text[k + Len(buffer') + i] = unread[i]

\* The token is the next one of what the source says.
IsNext(at, k) ==
  /\ Heard(Source)[k + 1] = at.token
  /\ at.eof => k = Len(FlattenSeq(Source.lines))
  /\ ~at.eof => k + 1 <= Len(FlattenSeq(Source.lines)) /\ RemainsAfter(Source, k + 1)

Taking(at) ==
  /\ stage = "parse" /\ ~is_eof /\ at.token \in Toks /\ at.eof \in BOOLEAN
  /\ UNCHANGED <<mode, buf, atEnd, command_line>>
  /\ buffer' \in Seq(Toks) /\ (atEnd => buffer' = <<>>) /\ (at.eof => atEnd)
  /\ at.token = "newline" => unread = <<>>
  /\ Fits(Source) /\ at.token \in End => unread = <<>>
  /\ \A tok : LastOnly(tok) =>
       (unread # <<>> => /\ \A i \in 1..Len(buffer') : buffer'[i] # tok
                         /\ \A i \in 1..Len(unread) - 1 : unread[i] # tok)
  /\ \A k \in 0..Len(FlattenSeq(Source.lines)) : Remains(Source, k) => IsNext(at, k)

\* What is heard with the token, unless the program has failed before it.
LEMMA HeardNext ==
  ASSUME IInv, NEW at, Taking(at), Fits(Source), ~skipping
  PROVE  \E k \in 0..Len(FlattenSeq(Source.lines)) :
           /\ Upto(Source, k, command) /\ IsNext(at, k) /\ k + 1 \in 0..Len(Heard(Source))
           /\ IsHeard(At(Source, k)) /\ At(Source, k + 1) = Hear(At(Source, k), at.token)
<1>1. Source \in SourceType
  BY LastSource DEF IInv, Typed, OriginInv, Taking, Source
<1>2. Following(Source) /\ ~is_eof
  BY DEF IInv, ParseInv, Taking
<1>3. PICK k \in 0..Len(FlattenSeq(Source.lines)) : Upto(Source, k, command) /\ Remains(Source, k)
  BY <1>2 DEF Following
<1>4. IsNext(at, k)
  BY <1>3 DEF Taking
<1>5. /\ k \in 0..Len(Heard(Source)) /\ k + 1 \in 0..Len(Heard(Source))
  BY <1>1, SourceText
<1>6. /\ IsHeard(At(Source, k)) /\ At(Source, k + 1) = Hear(At(Source, k), Heard(Source)[k + 1])
  BY <1>1, <1>5, AtSteps
<1>. QED
  BY <1>3, <1>4, <1>5, <1>6 DEF IsNext

\* bison skips a token after an error.
LEMMA SkippedStep ==
  ASSUME IInv, NEW at, Taking(at), skipping, Skipped(at)
  PROVE  IInv'
<1>1. /\ stage' = "parse" /\ stage = "parse" /\ ok' = ok /\ sources' = sources
      /\ command' = command /\ skipping' = skipping /\ status' = status /\ is_eof' = at.eof
      /\ unread' = unread /\ input_len' = input_len
      /\ mode' = mode /\ buf' = buf /\ atEnd' = atEnd /\ command_line' = command_line
  BY DEF Skipped, Taking, Resume
<1>2. Typed'
  BY <1>1 DEF IInv, Typed, Taking
<1>3. /\ Source' = Source /\ Current' = Current /\ Origin' = Origin
      /\ Fits(Source)' <=> Fits(Source)
      /\ \A k : At(Source, k)' = At(Source, k)
  BY <1>1, SameSources
<1>4. PastInv'
  BY <1>1, SameSources DEF IInv
<1>5. TypeOK' /\ AtEndInv'
  BY <1>1, <1>3 DEF IInv, TypeOK, AtEndInv, Taking
<1>6. status = "running"
  BY <1>1 DEF IInv, TypeOK
<1>7. OriginInv' /\ OkInv' /\ OverInv' /\ AbortInv' /\ StatusInv'
  BY <1>1, <1>3, <1>6 DEF IInv, OriginInv, OkInv, OverInv, Over, AbortInv, StatusInv
<1>8. \A tok : LastOnly(tok) => LastOnly(tok)'
  BY <1>1 DEF LastOnly, Taking
<1>9. Following(Source) => Following(Source)'
  BY <1>1, <1>3 DEF Following, Failing
<1>10. ParseInv'
  BY <1>1, <1>3, <1>8, <1>9 DEF IInv, ParseInv
<1>. QED
  BY <1>2, <1>4, <1>5, <1>7, <1>10 DEF IInv

\* bison comes to the end of what it skips, and yyparse fails.
LEMMA SkipEndsStep ==
  ASSUME IInv, NEW at, Taking(at), skipping, SkipEnds(at)
  PROVE  IInv'
<1>1. /\ stage = "parse" /\ sources' = sources /\ command' = command /\ skipping' = skipping
      /\ mode' = mode /\ buf' = buf /\ atEnd' = atEnd /\ command_line' = command_line
      /\ Return(FALSE) /\ is_eof' = FALSE /\ unread' = <<>> /\ input_len' = 0 /\ column' = 0
  BY DEF SkipEnds, Taking, lexer_reset
<1>2. ok' \in BOOLEAN
  BY <1>1 DEF IInv, Typed, Return
<1>3. Typed'
  <2>1. <<>> \in Seq(Toks)
    OBVIOUS
  <2>. QED
    BY <1>1, <1>2, <2>1 DEF IInv, Typed, Taking
<1>4. Clean
  BY <1>1 DEF Clean, Taking
<1>5. Told(FALSE)
  <2>1. SUFFICES ASSUME Fits(Source)
                 PROVE  Say(Source).done = Source.executed /\ Say(Source).end = "failed"
    BY DEF Told
  <2>2. Source \in SourceType
    BY <1>1, LastSource DEF IInv, Typed, OriginInv, Source
  <2>3. PICK k \in 0..Len(FlattenSeq(Source.lines)) : Failing(Source, k)
    BY <1>1, <2>1 DEF IInv, ParseInv, Following
  <2>4. k \in 0..Len(Heard(Source))
    BY <2>2, SourceText
  <2>. QED
    BY <2>2, <2>3, <2>4, AtFailing
<1>. QED
  BY <1>1, <1>3, <1>4, <1>5, ReturnStep

\* What the parser does with a token is what is heard.
LEMMA SameCommand ==
  ASSUME NEW r, r.last = command
  PROVE  /\ TakesNoMore(r) <=> Closed
         /\ LastIs(r, {"illegal"}) <=> IsIllegal
         /\ \A tok : Continues(r, tok) <=> GoesOn(tok)
         /\ \A tok : Ends(tok) <=> tok \in End /\ ~LastIs(r, {"half", "illegal"})
<1>1. LastIs(r, {"illegal"}) <=> IsIllegal
  BY DEF LastIs, IsIllegal
<1>2. TakesNoMore(r) <=> Closed
  BY <1>1 DEF TakesNoMore, Closed
<1>3. \A tok : Continues(r, tok) <=> GoesOn(tok)
  BY <1>2 DEF Continues, GoesOn
<1>4. \A tok : Ends(tok) <=> tok \in End /\ ~LastIs(r, {"half", "illegal"})
  BY DEF Ends, LastIs
<1>. QED
  BY <1>1, <1>2, <1>3, <1>4

\* A token that does not end the command is a part of it.
LEMMA WordStep ==
  ASSUME IInv, NEW at, Taking(at), ~skipping, GoesOn(at.token), Word(at)
  PROVE  IInv'
<1>1. /\ stage' = "parse" /\ stage = "parse" /\ ok' = ok /\ sources' = sources
      /\ command' = Append(command, at.token) /\ skipping' = skipping /\ status' = status
      /\ is_eof' = at.eof /\ unread' = unread /\ input_len' = input_len
      /\ mode' = mode /\ buf' = buf /\ atEnd' = atEnd /\ command_line' = command_line
  BY DEF Word, Taking, Resume
<1>2. at.token \in Words /\ at.token \in Token /\ at.token \notin End
  BY DEF GoesOn, Words, Token, End
<1>3. Typed'
  <2>1. Append(command, at.token) \in Seq(Token)
    BY <1>2 DEF IInv, Typed
  <2>. QED
    BY <1>1, <2>1 DEF IInv, Typed, Taking
<1>4. /\ Source' = Source /\ Current' = Current /\ Origin' = Origin
      /\ Fits(Source)' <=> Fits(Source)
      /\ Heard(Source)' = Heard(Source)
      /\ \A k : At(Source, k)' = At(Source, k)
  BY <1>1, SameSources DEF Heard
<1>5. PastInv'
  BY <1>1, SameSources DEF IInv
<1>6. TypeOK' /\ AtEndInv'
  BY <1>1, <1>4 DEF IInv, TypeOK, AtEndInv, Taking
<1>7. status = "running"
  BY <1>1 DEF IInv, TypeOK
<1>8. OriginInv' /\ OkInv' /\ OverInv' /\ AbortInv' /\ StatusInv'
  BY <1>1, <1>4, <1>7 DEF IInv, OriginInv, OkInv, OverInv, Over, AbortInv, StatusInv
<1>9. \A tok : LastOnly(tok) => LastOnly(tok)'
  BY <1>1 DEF LastOnly, Taking
<1>10. ASSUME Fits(Source) PROVE Following(Source)'
  <2>1. PICK k \in 0..Len(FlattenSeq(Source.lines)) :
           /\ Upto(Source, k, command) /\ IsNext(at, k) /\ k + 1 \in 0..Len(Heard(Source))
           /\ IsHeard(At(Source, k)) /\ At(Source, k + 1) = Hear(At(Source, k), at.token)
    BY <1>10, HeardNext
  <2>2. Source \in SourceType
    BY <1>1, LastSource DEF IInv, Typed, OriginInv, Source
  <2>3. ~at.eof
    BY <1>2, <2>1, <2>2, SourceText DEF IsNext, End
  <2>4. k + 1 <= Len(FlattenSeq(Source.lines)) /\ RemainsAfter(Source, k + 1)
    BY <2>1, <2>3 DEF IsNext
  <2>5. k + 1 \in 0..Len(FlattenSeq(Source.lines))
    BY <2>2, <2>4, SourceText
  <2>6. At(Source, k).end = "all" /\ At(Source, k).last = command /\ At(Source, k).done = Source.executed
    BY <2>1 DEF Upto
  <2>7. /\ At(Source, k + 1).end = "all" /\ At(Source, k + 1).done = Source.executed
        /\ At(Source, k + 1).last = command'
    BY <1>1, <2>1, <2>6, HearWord, SameCommand
  <2>8. Upto(Source, k + 1, command)'
    BY <1>4, <2>7 DEF Upto
  <2>9. Remains(Source, k + 1)'
    BY <1>1, <1>4, <2>4 DEF Remains, RemainsAfter
  <2>10. ~is_eof' /\ ~skipping'
    BY <1>1, <2>3
  <2>11. k + 1 \in 0..Len(FlattenSeq(Source'.lines))
    BY <1>4, <2>5
  <2>. QED
    BY <2>8, <2>9, <2>10, <2>11 DEF Following, Upto, Remains
<1>11. ParseInv'
  BY <1>1, <1>4, <1>9, <1>10 DEF IInv, ParseInv
<1>. QED
  BY <1>3, <1>5, <1>6, <1>8, <1>11 DEF IInv

\* A token that no command has there.
LEMMA FailStep ==
  ASSUME IInv, NEW at, Taking(at), ~skipping, ~Ends(at.token), ~GoesOn(at.token), Fail(at)
  PROVE  IInv'
<1>1. PICK c : Error(TRUE, at, c)
  BY DEF Fail
<1>2. /\ Error(TRUE, at, c) /\ skipping' = skipping /\ stage = "parse"
      /\ UNCHANGED <<mode, buf, atEnd, command_line>> /\ buffer' \in Seq(Toks)
      /\ atEnd => buffer' = <<>>
  BY <1>1 DEF Fail, Taking
<1>3. Told(FALSE)
  <2>1. SUFFICES ASSUME Fits(Source)
                 PROVE  Say(Source).done = Source.executed /\ Say(Source).end = "failed"
    BY DEF Told
  <2>2. Source \in SourceType
    BY <1>2, LastSource DEF IInv, Typed, OriginInv, Source
  <2>3. PICK k \in 0..Len(FlattenSeq(Source.lines)) :
           /\ Upto(Source, k, command) /\ IsNext(at, k) /\ k + 1 \in 0..Len(Heard(Source))
           /\ IsHeard(At(Source, k)) /\ At(Source, k + 1) = Hear(At(Source, k), at.token)
    BY <2>1, HeardNext
  <2>4. At(Source, k).end = "all" /\ At(Source, k).last = command /\ At(Source, k).done = Source.executed
    BY <2>3 DEF Upto
  <2>5. /\ At(Source, k + 1).end = "failed" /\ At(Source, k + 1).done = Source.executed
    BY <2>3, <2>4, HearWrong, SameCommand
  <2>. QED
    BY <2>2, <2>3, <2>5, AtFailing DEF Failing
<1>. QED
  BY <1>2, <1>3, ErrorStep

\* A wrong array size, after which tokens are skipped.
LEMMA SkipStep ==
  ASSUME IInv, NEW at, Taking(at), ~skipping, Skips(at.token), Skip(at)
  PROVE  IInv'
<1>1. /\ stage = "parse" /\ Error(FALSE, at, lexer_loc(at)) /\ skipping' = TRUE
      /\ sources' = sources
      /\ command' = command /\ mode' = mode /\ buf' = buf /\ atEnd' = atEnd
      /\ command_line' = command_line
  BY DEF Skip, Error, Taking
<1>2. Source \in SourceType
  BY <1>1, LastSource DEF IInv, Typed, OriginInv, Source
<1>3. at.token = "hole"
  BY DEF Skips
<1>4. ASSUME Fits(Source)
      PROVE  \E k \in 0..Len(FlattenSeq(Source.lines)) :
               Failing(Source, k) /\ k \in 0..Len(Heard(Source))
  <2>1. PICK k \in 0..Len(FlattenSeq(Source.lines)) :
           /\ Upto(Source, k, command) /\ IsNext(at, k) /\ k + 1 \in 0..Len(Heard(Source))
           /\ IsHeard(At(Source, k)) /\ At(Source, k + 1) = Hear(At(Source, k), at.token)
    BY <1>4, HeardNext
  <2>2. At(Source, k).end = "all" /\ At(Source, k).last = command /\ At(Source, k).done = Source.executed
    BY <2>1 DEF Upto
  <2>3. "hole" \notin End /\ ~Continues(At(Source, k), "hole")
    BY DEF End, Continues
  <2>4. At(Source, k + 1).end = "failed" /\ At(Source, k + 1).done = Source.executed
    BY <1>3, <2>1, <2>2, <2>3, HearWrong
  <2>5. k # Len(FlattenSeq(Source.lines))
    BY <1>2, <1>3, <2>1, SourceText DEF IsNext
  <2>6. k + 1 \in 0..Len(FlattenSeq(Source.lines))
    BY <1>2, <2>5, SourceText
  <2>. QED
    BY <2>1, <2>4, <2>6 DEF Failing
<1>5. CASE exit("aborted") /\ UNCHANGED <<ok, lexer>>
  <2>1. Typed'
    BY <1>1, <1>5 DEF IInv, Typed, lexer, Taking
  <2>2. ASSUME Fits(Source)
        PROVE  \E k \in 0..Len(Heard(Source)) : At(Source, k).done = Source.executed
    BY <1>4, <2>2 DEF Failing
  <2>3. /\ UNCHANGED <<mode, ok, command_line, lexer>>
        /\ atEnd' = atEnd /\ (atEnd => buffer' = <<>>)
    BY <1>1, <1>5 DEF Taking
  <2>4. /\ atEnd => \A i \in DOMAIN buffer' : i = 1 /\ buffer'[i] \in Words
        /\ is_eof => buffer' = <<>>
    <3>1. DOMAIN <<>> = {}
      OBVIOUS
    <3>. QED
      BY <2>3, <3>1 DEF IInv, TypeOK
  <2>. QED
    BY <1>1, <1>5, <2>1, <2>2, <2>3, <2>4, AbortStep
<1>6. CASE lexer_reset(FALSE, at) /\ UNCHANGED <<stage, ok, status>>
  <2>1. /\ is_eof' = at.eof /\ unread' = <<>> /\ input_len' = 0
        /\ stage' = stage /\ ok' = ok /\ status' = status /\ status = "running"
    BY <1>1, <1>6 DEF lexer_reset, Taking, IInv, TypeOK
  <2>2. Typed'
    <3>1. <<>> \in Seq(Toks)
      OBVIOUS
    <3>. QED
      BY <1>1, <2>1, <3>1 DEF IInv, Typed, Taking
  <2>3. /\ Source' = Source /\ Current' = Current /\ Origin' = Origin
        /\ Fits(Source)' <=> Fits(Source)
        /\ \A k : At(Source, k)' = At(Source, k)
    BY <1>1, SameSources
  <2>4. PastInv'
    BY <1>1, SameSources DEF IInv
  <2>5. TypeOK' /\ AtEndInv'
    BY <1>1, <2>1, <2>3 DEF IInv, TypeOK, AtEndInv, Taking
  <2>6. OriginInv' /\ OkInv' /\ OverInv' /\ AbortInv' /\ StatusInv'
    BY <1>1, <2>1, <2>3 DEF IInv, OriginInv, OkInv, OverInv, Over, AbortInv, StatusInv
  <2>7. \A tok : LastOnly(tok)'
    BY <2>1 DEF LastOnly
  <2>8. ASSUME Fits(Source) PROVE Following(Source)'
    BY <1>1, <1>4, <2>3, <2>8 DEF Following, Failing
  <2>9. ParseInv'
    BY <1>1, <2>1, <2>3, <2>7, <2>8 DEF ParseInv, IInv, OriginInv
  <2>. QED
    BY <2>2, <2>4, <2>5, <2>6, <2>9 DEF IInv
<1>. QED
  BY <1>1, <1>5, <1>6 DEF Error

\* The end of a command, which is executed unless it is blank.
LEMMA CompleteStep ==
  ASSUME IInv, NEW at, Taking(at), ~skipping, Ends(at.token), Complete(at)
  PROVE  IInv'
<1> DEFINE s == Source
           t == IF command = <<>> THEN s ELSE [s EXCEPT !.executed = Append(@, command)]
<1>1. /\ stage = "parse" /\ status = "running" /\ command' = <<>> /\ ok' = ok
      /\ skipping' = skipping /\ mode' = mode /\ buf' = buf /\ atEnd' = atEnd
      /\ command_line' = command_line /\ at.token \in End
      /\ sources \in Seq(SourceType) /\ sources # <<>> /\ command \in Seq(Token)
  BY DEF Complete, Taking, Ends, IInv, TypeOK, Typed, OriginInv
<1>2. s \in SourceType /\ s = Last(sources)
  BY <1>1, LastSource DEF Source
<1> HIDE DEF s
<1>3. /\ t \in SourceType /\ t.from = s.from /\ t.lines = s.lines
      /\ t.executed = IF command = <<>> THEN s.executed ELSE Append(s.executed, command)
  <2>1. CASE command = <<>>
    BY <1>2, <2>1
  <2>2. CASE command # <<>>
    <3>1. s = [from |-> s.from, lines |-> s.lines, executed |-> s.executed]
      BY <1>2 DEF SourceType
    <3>2. t = [from |-> s.from, lines |-> s.lines, executed |-> Append(s.executed, command)]
      BY <2>2, <3>1
    <3>3. Append(s.executed, command) \in Seq(Seq(Token))
      BY <1>1, <1>2 DEF SourceType
    <3>4. s.from \in Origins /\ s.lines \in Seq(Seq(Toks))
      BY <1>2 DEF SourceType
    <3>. QED
      BY <2>2, <3>2, <3>3, <3>4 DEF SourceType
  <2>. QED
    BY <2>1, <2>2
<1>4. /\ sources' \in Seq(SourceType) /\ sources' # <<>> /\ Len(sources') = Len(sources)
      /\ Last(sources') = t
      /\ \A i \in 1..Len(sources) - 1 : sources'[i] = sources[i]
  <2>1. CASE command = <<>>
    BY <1>1, <1>2, <2>1 DEF Complete
  <2>2. CASE command # <<>>
    <3>1. sources' = WithLast(sources, t)
      BY <1>2, <2>2 DEF Complete, Last, Current, WithLast
    <3> HIDE DEF t
    <3>. QED
      BY <1>1, <1>3, <3>1, LastReplaced
  <2>. QED
    BY <2>1, <2>2
<1> HIDE DEF t
<1>5. Source' = t /\ Current' = Current /\ Origin' = Origin
  BY <1>1, <1>3, <1>4 DEF Source, Current, Origin, s
<1>6. /\ Heard(t) = Heard(s) /\ Say(t) = Say(s) /\ (Fits(t) <=> Fits(s))
      /\ \A k : At(t, k) = At(s, k)
  BY <1>3 DEF Heard, Say, Fits, At
<1>7. /\ Fits(Source)' <=> Fits(s)
      /\ Say(Source)' = Say(s)
      /\ Heard(Source)' = Heard(s)
      /\ \A k : At(Source, k)' = At(s, k)
  <2>1. (Fits(Source)' <=> Fits(t)) /\ Say(Source)' = Say(t) /\ Heard(Source)' = Heard(t)
    BY <1>5 DEF Fits, Say, Heard
  <2>2. \A k : At(Source, k)' = At(t, k)
    BY <1>5 DEF At, Heard
  <2>. QED
    BY <1>6, <2>1, <2>2
<1>8. PastInv'
  <2>1. ASSUME NEW i \in 1..Current - 1
        PROVE  /\ sources[i]' = sources[i] /\ (Fits(sources[i])' <=> Fits(sources[i]))
               /\ Say(sources[i])' = Say(sources[i])
    BY <1>4 DEF Fits, Say, Heard, Current
  <2>. QED
    BY <1>5, <2>1 DEF IInv, PastInv
<1>9. /\ is_eof' \in BOOLEAN /\ input_len' \in Nat /\ unread' \in Seq(Toks)
      /\ Len(unread') <= input_len' /\ (atEnd => unread' = <<>> /\ input_len' = 0)
      /\ (is_eof' => atEnd') /\ (atEnd => buffer' = <<>>)
  <2>1. <<>> \in Seq(Toks) /\ Len(<<>>) = 0
    OBVIOUS
  <2>2. CASE UNCHANGED lexer
    BY <1>1, <2>2 DEF lexer, IInv, Typed, TypeOK, AtEndInv, Taking
  <2>3. CASE lexer_reset(FALSE, at)
    BY <1>1, <2>1, <2>3 DEF lexer_reset, Taking
  <2>. QED
    BY <2>2, <2>3 DEF Complete
<1>10. Typed'
  <2>1. <<>> \in Seq(Token)
    OBVIOUS
  <2>. QED
    BY <1>1, <1>4, <1>9, <2>1 DEF IInv, Typed, Taking
<1>11. ASSUME Fits(s)
       PROVE  \E k \in 0..Len(FlattenSeq(s.lines)) :
                /\ IsNext(at, k) /\ k + 1 \in 0..Len(Heard(s)) /\ unread = <<>>
                /\ At(s, k + 1).last = <<>> /\ At(s, k + 1).done = t.executed
                /\ At(s, k + 1).end = IF command = <<"quit">> THEN "quit" ELSE "all"
  <2>1. PICK k \in 0..Len(FlattenSeq(Source.lines)) :
           /\ Upto(Source, k, command) /\ IsNext(at, k) /\ k + 1 \in 0..Len(Heard(Source))
           /\ IsHeard(At(Source, k)) /\ At(Source, k + 1) = Hear(At(Source, k), at.token)
    BY <1>11, HeardNext DEF s
  <2>2. At(s, k).end = "all" /\ At(s, k).last = command /\ At(s, k).done = s.executed
    BY <2>1 DEF Upto, s
  <2>3. ~LastIs(At(s, k), {"half", "illegal"})
    BY <2>2, SameCommand
  <2>4. IsHeard(At(s, k)) /\ At(s, k + 1) = Hear(At(s, k), at.token)
    BY <2>1 DEF s
  <2>5. /\ At(s, k + 1).last = <<>>
        /\ command = <<>> => At(s, k + 1).done = s.executed /\ At(s, k + 1).end = "all"
        /\ command # <<>> =>
             /\ At(s, k + 1).done = Append(s.executed, command)
             /\ At(s, k + 1).end = IF command = <<"quit">> THEN "quit" ELSE "all"
    BY <1>1, <2>2, <2>3, <2>4, HearEnd
  <2>6. unread = <<>>
    BY <1>1, <1>11 DEF Taking, s
  <2>7. command = <<>> => command # <<"quit">>
    OBVIOUS
  <2>. QED
    BY <1>3, <2>1, <2>5, <2>6, <2>7 DEF s
<1>12. CASE command = <<"quit">>
  <2>1. stage' = "exited" /\ status' = "EX_OK" /\ UNCHANGED lexer
    BY <1>12 DEF Complete, exit
  <2>2. TypeOK'
    BY <1>1, <1>5, <1>9, <2>1 DEF IInv, TypeOK, Taking
  <2>3. AtEndInv' /\ OriginInv' /\ ParseInv' /\ AbortInv'
    BY <1>1, <1>4, <1>5, <1>9, <2>1 DEF IInv, AtEndInv, OriginInv, ParseInv, AbortInv
  <2>4. OkInv'
    BY <1>1, <1>5, <2>1 DEF IInv, OkInv
  <2>5. ASSUME Fits(s) PROVE Say(s).done = t.executed /\ Say(s).end = "quit"
    <3>1. PICK k \in 0..Len(FlattenSeq(s.lines)) :
            /\ k + 1 \in 0..Len(Heard(s)) /\ At(s, k + 1).done = t.executed
            /\ At(s, k + 1).end = "quit"
      BY <1>11, <1>12, <2>5
    <3>2. Heard(s) \in Seq(Toks)
      BY <1>2, SourceText
    <3>3. At(s, k + 1) = Say(s)
      BY <3>1, <3>2, HearingStays DEF At, Say
    <3>. QED
      BY <3>1, <3>3
  <2>6. OverInv' /\ StatusInv'
    BY <1>5, <1>7, <2>1, <2>5 DEF OverInv, StatusInv
  <2>. QED
    BY <1>8, <1>10, <2>2, <2>3, <2>4, <2>6 DEF IInv
<1>13. CASE command # <<"quit">>
  <2>1. /\ stage' = "parse" /\ status' = "running" /\ is_eof' = at.eof /\ unread' = <<>>
    BY <1>1, <1>13 DEF Complete, lexer_reset, Taking
  <2>2. TypeOK'
    BY <1>1, <1>5, <1>9, <2>1 DEF IInv, TypeOK, Taking
  <2>3. AtEndInv' /\ OriginInv' /\ OverInv' /\ AbortInv' /\ StatusInv'
    BY <1>1, <1>4, <1>5, <1>9, <2>1
    DEF IInv, AtEndInv, OriginInv, OverInv, Over, AbortInv, StatusInv
  <2>4. OkInv'
    BY <1>1, <1>5, <2>1 DEF IInv, OkInv
  <2>5. \A tok : LastOnly(tok)'
    BY <2>1 DEF LastOnly
  <2>6. ASSUME Fits(s) PROVE Following(Source)'
    <3>1. PICK k \in 0..Len(FlattenSeq(s.lines)) :
                /\ IsNext(at, k) /\ k + 1 \in 0..Len(Heard(s)) /\ unread = <<>>
                /\ At(s, k + 1).last = <<>> /\ At(s, k + 1).done = t.executed
                /\ At(s, k + 1).end = "all"
      BY <1>11, <1>13, <2>6
    <3>2. Upto(Source, k + 1, <<>>)'
      BY <1>5, <1>7, <3>1 DEF Upto
    <3>3. FlattenSeq(Source.lines)' = FlattenSeq(s.lines)
      BY <1>3, <1>5
    <3>4. CASE at.eof
      <4>1. k + 1 = Len(Heard(s))
        BY <1>2, <3>1, <3>4, SourceText DEF IsNext, s
      <4>2. Upto(Source, Len(Heard(Source)), <<>>)'
        BY <1>7, <3>2, <4>1 DEF Upto
      <4>. QED
        BY <1>1, <2>1, <3>4, <4>2 DEF Following
    <3>5. CASE ~at.eof
      <4>1. k + 1 <= Len(FlattenSeq(s.lines)) /\ RemainsAfter(s, k + 1)
        BY <3>1, <3>5 DEF IsNext, s
      <4>2. k + 1 \in 0..Len(FlattenSeq(s.lines))
        BY <1>2, <4>1, SourceText
      <4>3. Remains(Source, k + 1)'
        BY <2>1, <3>1, <3>3, <4>1 DEF Remains, RemainsAfter
      <4>4. k + 1 \in 0..Len(FlattenSeq(Source'.lines))
        BY <3>3, <4>2
      <4>. QED
        BY <1>1, <2>1, <3>2, <3>5, <4>3, <4>4 DEF Following, Upto, Remains
    <3>. QED
      BY <1>1, <3>4, <3>5 DEF Taking
  <2>7. ParseInv'
    BY <1>4, <1>7, <2>5, <2>6 DEF ParseInv
  <2>. QED
    BY <1>8, <1>10, <2>2, <2>3, <2>4, <2>7 DEF IInv
<1>. QED
  BY <1>12, <1>13

\* bison takes a token, whichever it is and whatever state it is in.
LEMMA TakeStep ==
  ASSUME IInv, NEW at, Taking(at), Take(at)
  PROVE  IInv'
BY SkipEndsStep, SkippedStep, CompleteStep, WordStep, SkipStep, FailStep DEF Take

\* Where the lexer is once it has scanned a token.
LEMMA ScannedIs ==
  ASSUME NEW tok, NEW at \in Scanned(tok)
  PROVE  /\ at.token = tok /\ at.eof = is_eof
         /\ tok = "newline" =>
              /\ at.column = 0
              /\ at.column_newline = column + Len(Before(tok)) + Len(Spelled(tok))
         /\ tok # "newline" => at.column = column + Len(Before(tok)) + Len(Spelled(tok))
         /\ tok # "synonym" => at.len = Len(Spelled(tok))
<1> DEFINE c == column + Len(Before(tok)) + Len(Spelled(tok))
<1>1. PICK len \in Lengths(tok) :
        at = IF tok = "newline" THEN Scan(tok, len, is_eof, 0, c)
             ELSE Scan(tok, len, is_eof, c, column_newline)
  BY DEF Scanned
<1>2. tok # "synonym" => len = Len(Spelled(tok))
  BY DEF Lengths
<1> HIDE DEF c
<1>3. CASE tok = "newline"
  BY <1>1, <1>2, <1>3 DEF Scan, c
<1>4. CASE tok # "newline"
  BY <1>1, <1>2, <1>4 DEF Scan, c
<1>. QED
  BY <1>3, <1>4

\* The lexer returns the next token.
LEMMA TokenStep == IInv /\ yylex => IInv'
<1>1. SUFFICES ASSUME IInv, yylex PROVE IInv'
  OBVIOUS
<1>2. PICK at \in Scanned(Head(buffer)) : Take(at)
  BY <1>1 DEF yylex
<1>3. /\ stage = "parse" /\ buffer # <<>> /\ buffer' = Tail(buffer)
      /\ UNCHANGED <<mode, buf, atEnd, command_line>>
      /\ buffer \in Seq(Toks) /\ unread \in Seq(Toks) /\ is_eof \in BOOLEAN
      /\ ~is_eof /\ (atEnd => \A i \in DOMAIN buffer : i = 1)
  BY <1>1 DEF yylex, IInv, Typed, TypeOK
<1>4. /\ Head(buffer) = buffer[1] /\ buffer[1] \in Toks /\ Tail(buffer) \in Seq(Toks)
      /\ Len(Tail(buffer)) = Len(buffer) - 1 /\ Len(buffer) \in Nat \ {0} /\ Len(unread) \in Nat
      /\ \A i \in 1..Len(buffer) - 1 : Tail(buffer)[i] = buffer[i + 1]
  BY <1>3
<1>5. at.token = buffer[1] /\ at.eof = is_eof
  BY <1>2, <1>4, ScannedIs
<1>6. \A tok : LastOnly(tok) /\ buffer[1] = tok => unread = <<>>
  BY <1>4 DEF LastOnly
<1>7. LastOnly("newline") /\ (Fits(Source) => LastOnly("semicolon"))
  BY <1>1, <1>3 DEF IInv, ParseInv
<1>8. ASSUME NEW tok, LastOnly(tok), unread # <<>>
      PROVE  /\ \A i \in 1..Len(buffer') : buffer'[i] # tok
             /\ \A i \in 1..Len(unread) - 1 : unread[i] # tok
  <2>1. \A i \in 1..Len(buffer) - 1 : i + 1 \in 1..Len(buffer)
    BY <1>4
  <2>. QED
    BY <1>3, <1>4, <1>8, <2>1 DEF LastOnly
<1>9. ASSUME NEW k \in 0..Len(FlattenSeq(Source.lines)), Remains(Source, k)
      PROVE  IsNext(at, k)
  <2> DEFINE text == FlattenSeq(Source.lines)
  <2>1. Source \in SourceType
    BY <1>1, <1>3, LastSource DEF IInv, Typed, OriginInv, Source
  <2>2. /\ text \in Seq(Toks) /\ Len(text) \in Nat
        /\ \A i \in 1..Len(text) : Heard(Source)[i] = text[i]
    BY <2>1, SourceText
  <2>3. /\ Len(text) = k + Len(buffer) + Len(unread)
        /\ \A i \in 1..Len(buffer) : text[k + i] = buffer[i]
        /\ \A i \in 1..Len(unread) : text[k + Len(buffer) + i] = unread[i]
    BY <1>9 DEF Remains
  <2> HIDE DEF text
  <2>4. k \in Nat /\ k + 1 \in 1..Len(text) /\ 1 \in 1..Len(buffer)
    BY <1>4, <2>2, <2>3
  <2>5. Heard(Source)[k + 1] = at.token
    BY <1>5, <2>2, <2>3, <2>4
  <2>6. Len(text) = (k + 1) + Len(buffer') + Len(unread)
    BY <1>3, <1>4, <2>3, <2>4
  <2>7. ASSUME NEW i \in 1..Len(buffer') PROVE text[(k + 1) + i] = buffer'[i]
    <3>1. i + 1 \in 1..Len(buffer) /\ k + (i + 1) = (k + 1) + i /\ i \in 1..Len(buffer) - 1
      BY <1>3, <1>4, <2>4
    <3>. QED
      BY <1>3, <1>4, <2>3, <3>1
  <2>8. ASSUME NEW i \in 1..Len(unread) PROVE text[(k + 1) + Len(buffer') + i] = unread[i]
    <3>1. (k + 1) + Len(buffer') + i = k + Len(buffer) + i
      BY <1>3, <1>4, <2>4
    <3>. QED
      BY <2>3, <3>1
  <2>9. RemainsAfter(Source, k + 1)
    BY <2>6, <2>7, <2>8 DEF RemainsAfter, text
  <2>10. k + 1 <= Len(text)
    BY <2>4
  <2>. QED
    BY <1>3, <1>5, <2>5, <2>9, <2>10 DEF IsNext, text
<1>10. Taking(at)
  <2>1. at.token = "newline" => unread = <<>>
    BY <1>5, <1>6, <1>7
  <2>2. Fits(Source) /\ at.token \in End => unread = <<>>
    BY <1>5, <1>6, <1>7 DEF End
  <2>3. atEnd => buffer' = <<>>
    <3>1. SUFFICES ASSUME atEnd PROVE Tail(buffer) = <<>>
      BY <1>3
    <3>2. Len(buffer) \in DOMAIN buffer
      <4>1. DOMAIN buffer = 1..Len(buffer)
        BY <1>3
      <4>. QED
        BY <1>4, <4>1
    <3>3. Len(buffer) = 1
      BY <1>3, <1>4, <3>1, <3>2
    <3>4. \A q \in Seq(Toks) : Len(q) = 0 => q = <<>>
      OBVIOUS
    <3>5. Len(Tail(buffer)) = 0 /\ Tail(buffer) \in Seq(Toks)
      BY <1>4, <3>3
    <3>. QED
      BY <3>4, <3>5
  <2>. QED
    BY <1>3, <1>4, <1>5, <1>8, <1>9, <2>1, <2>2, <2>3 DEF Taking
<1>. QED
  BY <1>1, <1>2, <1>10, TakeStep

\* The end of the file, the first time the end of a command.
LEMMA EndStep == IInv /\ EndOfFile => IInv'
<1>1. SUFFICES ASSUME IInv, EndOfFile PROVE IInv'
  OBVIOUS
<1>2. /\ stage = "parse" /\ buffer = <<>> /\ unread = <<>> /\ atEnd /\ buffer' = <<>>
      /\ mode' = mode /\ buf' = buf /\ atEnd' = atEnd /\ command_line' = command_line
      /\ is_eof \in BOOLEAN /\ sources # <<>> /\ sources \in Seq(SourceType)
      /\ status = "running"
  BY <1>1 DEF EndOfFile, AtEof, IInv, Typed, OriginInv, TypeOK
<1>3. <<>> \in Seq(Toks) /\ Len(<<>>) = 0
  OBVIOUS
<1>4. Source \in SourceType
  BY <1>2, LastSource DEF Source
<1>5. CASE ~is_eof
  <2> DEFINE at == ScanEof(TRUE)
  <2>1. at.token = "newline" /\ at.eof = TRUE
    BY DEF ScanEof, Scan
  <2>2. Take(at)
    BY <1>1, <1>5 DEF EndOfFile
  <2> HIDE DEF at
  <2>3. "newline" \in Toks
    BY DEF Toks, End
  <2>4. ASSUME NEW k \in 0..Len(FlattenSeq(Source.lines)), Remains(Source, k)
        PROVE  IsNext(at, k)
    <3>1. k = Len(FlattenSeq(Source.lines))
      BY <1>2, <1>3, <1>4, <2>4, SourceText DEF Remains
    <3>. QED
      BY <1>4, <2>1, <3>1, SourceText DEF IsNext
  <2>5. Taking(at)
    BY <1>2, <1>3, <1>5, <2>1, <2>3, <2>4 DEF Taking
  <2>. QED
    BY <1>1, <2>2, <2>5, TakeStep
<1>6. CASE is_eof
  <2> DEFINE at == ScanEof(FALSE)
  <2>1. at.eof = FALSE /\ at.column = 0
    BY DEF ScanEof, Scan
  <2>2. EndOfInput
    BY <1>1, <1>6 DEF EndOfFile
  <2>3. ASSUME Fits(Source), skipping
        PROVE  Say(Source).done = Source.executed /\ Say(Source).end = "failed"
    <3>1. PICK k \in 0..Len(FlattenSeq(Source.lines)) : Failing(Source, k)
      BY <1>1, <1>2, <2>3 DEF IInv, ParseInv, Following
    <3>2. k \in 0..Len(Heard(Source))
      BY <1>4, SourceText
    <3>. QED
      BY <1>4, <3>1, <3>2, AtFailing
  <2>4. ASSUME Fits(Source), ~skipping
        PROVE  /\ Say(Source).done = Source.executed /\ Say(Source).end = "all"
               /\ command = <<>>
    BY <1>1, <1>2, <1>6, <2>4 DEF IInv, ParseInv, Following, Upto, At, Say
  <2>5. CASE ~skipping /\ command # <<>>
    <3>1. /\ skipping' = skipping
          /\ \E c : Error(TRUE, at, c)
      BY <2>2, <2>5 DEF EndOfInput, Fail
    <3>2. Told(FALSE)
      BY <2>4, <2>5 DEF Told
    <3>. QED
      BY <1>1, <1>2, <1>3, <3>1, <3>2, ErrorStep
  <2>6. CASE ~ (~skipping /\ command # <<>>)
    <3>1. /\ Return(~skipping) /\ sources' = sources /\ command' = command
          /\ skipping' = skipping /\ is_eof' = FALSE /\ column' = 0 /\ unread' = unread
          /\ input_len' = input_len
      BY <2>1, <2>2, <2>6 DEF EndOfInput, Resume
    <3>2. Told(~skipping)
      BY <2>3, <2>4 DEF Told
    <3>3. skipping \in BOOLEAN /\ ok' \in BOOLEAN /\ (~skipping) \in BOOLEAN /\ input_len = 0
      <4>1. skipping \in BOOLEAN /\ ok \in BOOLEAN /\ input_len = 0
        BY <1>1, <1>2 DEF IInv, Typed, AtEndInv
      <4>2. ok' = ok \/ ok' = (~skipping)
        BY <3>1 DEF Return
      <4>. QED
        BY <4>1, <4>2
    <3>4. Typed'
      BY <1>1, <1>2, <1>3, <3>1, <3>3 DEF IInv, Typed
    <3>5. Clean
      BY <1>2, <3>1, <3>3 DEF Clean
    <3>. QED
      BY <1>1, <1>2, <3>1, <3>2, <3>3, <3>4, <3>5, ReturnStep
  <2>. QED
    BY <2>5, <2>6
<1>. QED
  BY <1>2, <1>5, <1>6

\* The invariant is about the variables only.
LEMMA StutterStep == IInv /\ UNCHANGED vars => IInv'
<1>1. SUFFICES ASSUME IInv, UNCHANGED vars PROVE IInv'
  OBVIOUS
<1>2. UNCHANGED <<mode, stage, buf, joined, ok, sources, unread, input_len, atEnd, buffer,
                  is_eof, column, column_newline, command, skipping, command_line, shown,
                  status>>
  BY <1>1 DEF vars
<1>3. /\ Source' = Source /\ Current' = Current /\ Origin' = Origin
      /\ Fits(Source)' <=> Fits(Source)
      /\ Say(Source)' = Say(Source) /\ Heard(Source)' = Heard(Source)
      /\ \A k : At(Source, k)' = At(Source, k)
  BY <1>2, SameSources DEF Heard
<1>4. PastInv'
  BY <1>1, <1>2, SameSources DEF IInv
<1>5. Typed' /\ TypeOK' /\ AtEndInv' /\ OriginInv' /\ OkInv'
  BY <1>1, <1>2, <1>3 DEF IInv, Typed, TypeOK, AtEndInv, OriginInv, OkInv
<1>6. Following(Source)' <=> Following(Source)
  BY <1>2, <1>3 DEF Following, Failing, Upto, Remains
<1>7. ParseInv'
  BY <1>1, <1>2, <1>3, <1>6 DEF IInv, ParseInv, LastOnly
<1>8. OverInv' /\ AbortInv' /\ StatusInv'
  BY <1>1, <1>2, <1>3 DEF IInv, OverInv, Over, AbortInv, StatusInv
<1>. QED
  BY <1>4, <1>5, <1>7, <1>8 DEF IInv

\* Nothing has been read yet.
LEMMA InitIInv == Init => IInv
<1>1. SUFFICES ASSUME Init PROVE IInv
  OBVIOUS
<1>2. Source = NoSource /\ Current = 0 /\ Origin = "none" /\ sources = <<>>
  BY <1>1 DEF Init, Source, Current, Origin, NoSource
<1>3. Typed
  <2>1. <<>> \in Seq(SourceType) /\ <<>> \in Seq(Toks) /\ <<>> \in Seq(Token)
    OBVIOUS
  <2>. QED
    BY <1>1, <2>1 DEF Init, Typed
<1>4. "none" \notin AllModes
  BY DEF AllModes
<1>5. TypeOK /\ AtEndInv
  BY <1>1, <1>2 DEF Init, TypeOK, AtEndInv
<1>6. OriginInv /\ OkInv /\ ParseInv /\ PastInv /\ OverInv /\ AbortInv /\ StatusInv
  BY <1>1, <1>2, <1>4
  DEF Init, OriginInv, OkInv, ParseInv, PastInv, OverInv, AbortInv, StatusInv
<1>. QED
  BY <1>3, <1>5, <1>6 DEF IInv

\* Each step of the program keeps the invariant.
LEMMA NextIInv == IInv /\ [Next]_vars => IInv'
BY SourceSteps, InputStep, FetchStep, TokenStep, EndStep, StutterStep
DEF Next, Step, Exited

-----------------------------------------------------------------------------
(* The theorems.                                                           *)

\* The invariant, whatever is typed, wherever the buffers end, and whichever
\* commands fail.
THEOREM Invariance == Spec => []IInv
<1>1. Init => IInv
  BY InitIInv
<1>2. IInv /\ [Next]_vars => IInv'
  BY NextIInv
<1>. QED
  BY <1>1, <1>2, PTL DEF Spec

\* Nothing that the lexer has of a source, in its buffers, its column or its end
\* of file, is left when the next one is read.
THEOREM NothingLeft == Spec => []TypeOK
<1>1. IInv => TypeOK
  BY DEF IInv
<1>. QED
  BY <1>1, Invariance, PTL

\* The invariant tells what was executed of each source.
LEMMA InvariantOrder == IInv => InOrder
<1>1. SUFFICES ASSUME IInv, NEW i \in DOMAIN sources, Fits(sources[i]) PROVE Executed(i)
  BY DEF InOrder
<1>2. /\ sources \in Seq(SourceType) /\ sources # <<>> /\ i \in 1..Current
      /\ Current \in Nat /\ sources[i] \in SourceType
  BY <1>1 DEF IInv, Typed, Current
<1>3. CASE i < Current
  <2>1. i \in 1..Current - 1
    BY <1>2, <1>3
  <2>. QED
    BY <1>1, <1>3, <2>1 DEF IInv, PastInv, Executed, Finished
<1>4. CASE i = Current
  <2>1. Source = sources[i]
    BY <1>2, <1>4 DEF Source, Current, Last
  <2>2. CASE Over
    BY <1>1, <1>2, <2>1, <2>2 DEF IInv, OverInv, Over, Executed, Finished
  <2>3. CASE ~Over
    <3>1. ~Finished(i)
      BY <1>2, <1>4, <2>3 DEF Finished, Over
    <3>2. stage = "parse" \/ status = "aborted"
      BY <1>1, <2>3 DEF IInv, TypeOK, Over
    <3>3. \E k \in 0..Len(Heard(Source)) : At(Source, k).done = Source.executed
      <4>1. Len(Heard(Source)) = Len(FlattenSeq(Source.lines)) + 1
            /\ Len(FlattenSeq(Source.lines)) \in Nat
        BY <1>2, <2>1, SourceText
      <4>2. CASE stage = "parse"
        <5>1. Following(Source)
          BY <1>1, <2>1, <4>2 DEF IInv, ParseInv
        <5>2. Len(Heard(Source)) \in 0..Len(Heard(Source))
          BY <4>1
        <5>3. \A k \in 0..Len(FlattenSeq(Source.lines)) : k \in 0..Len(Heard(Source))
          BY <4>1
        <5>. QED
          BY <5>1, <5>2, <5>3 DEF Following, Failing, Upto
      <4>3. CASE status = "aborted"
        BY <1>1, <1>2, <2>1, <4>3 DEF IInv, AbortInv
      <4>. QED
        BY <3>2, <4>2, <4>3
    <3>4. IsPrefix(Source.executed, Say(Source).done)
      BY <1>2, <2>1, <3>3, AtPrefix
    <3>. QED
      BY <2>1, <3>1, <3>4 DEF Executed
  <2>. QED
    BY <2>2, <2>3
<1>. QED
  BY <1>2, <1>3, <1>4

\* The commands of a source are executed in order, each once and whole, up to the
\* first that fails, wherever the lines and the reads of flex divide them.
THEOREM CommandsInOrder == Spec => []InOrder
<1>1. IInv => InOrder
  BY InvariantOrder
<1>. QED
  BY <1>1, Invariance, PTL

\* At the end the invariant tells what the status says.
LEMMA InvariantStatus == IInv => StatusRight
<1>1. SUFFICES ASSUME IInv, status \in {"EX_OK", "EX_DATAERR"},
                      \A i \in DOMAIN sources : Fits(sources[i])
               PROVE  /\ status = "EX_DATAERR" <=>
                           Origin \in AllModes /\ Say(Source).end = "failed"
                      /\ \A i \in 1..Current - 1 :
                           sources[i].from = "file" => Say(sources[i]).end # "failed"
  BY DEF StatusRight
<1>2. /\ sources \in Seq(SourceType) /\ Current \in Nat /\ DOMAIN sources = 1..Current
  BY <1>1 DEF IInv, Typed, Current
<1>3. Fits(Source)
  <2>1. CASE sources = <<>>
    <3>1. Source.lines = <<>>
      BY <2>1 DEF Source, NoSource
    <3>. QED
      BY <3>1 DEF Fits
  <2>2. CASE sources # <<>>
    <3>1. Current \in DOMAIN sources /\ Source = sources[Current]
      BY <1>2, <2>2 DEF Source, Current, Last
    <3>. QED
      BY <1>1, <3>1
  <2>. QED
    BY <2>1, <2>2
<1>4. \A i \in 1..Current - 1 : i \in DOMAIN sources
  BY <1>2
<1>. QED
  BY <1>1, <1>3, <1>4 DEF IInv, StatusInv, PastInv

\* The exit status tells whether the last source failed, and no file is read after
\* one that did.
THEOREM StatusTells == Spec => []StatusRight
<1>1. IInv => StatusRight
  BY InvariantStatus
<1>. QED
  BY <1>1, Invariance, PTL

-----------------------------------------------------------------------------
Shows(tok) == Before(tok) \o Spelled(tok)

\* What a line says up to its k-th token.
Within(line, k) == Hearing(Append(line, "newline"))[k]

\* A line that ends with an end of a command.
Ended(line) == line # <<>> /\ Last(line) \in End

-----------------------------------------------------------------------------
(* The column below which the '^' is put.                                  *)

\* A token of the line has a character, and ends within the line.
LEMMA TokenLength ==
  ASSUME NEW line, Len(line) \in Nat, NEW c \in Nat, c < Len(line)
  PROVE  token_len(line, c) \in 1..Len(line) - c
<1> DEFINE Stops(n) == c + n = Len(line) \/ Class(line[c + n + 1]) # Class(line[c + 1])
           S == {n \in 1..Len(line) - c : Stops(n)}
<1>1. Len(line) - c \in S
  OBVIOUS
<1>2. S \in SUBSET Nat
  OBVIOUS
<1>3. token_len(line, c) = Min(S)
  BY DEF token_len
<1>4. \A x \in S : x \in 1..Len(line) - c
  OBVIOUS
<1> HIDE DEF S
<1>5. \E m \in S : \A n \in S : m <= n
  BY <1>1, <1>2, LeastNumber
<1>. QED
  BY <1>3, <1>4, <1>5 DEF Min

\* A token of k columns in column c of a line of n columns: unless it is under the
\* dots or there is no room for it, the '^' is below it.
LEMMA CutRight ==
  ASSUME NEW n \in Nat, NEW c \in Nat, NEW k \in Nat, k >= 1, c + k <= n + 1,
         ~ (n >= TermColumns /\ c >= TermColumns - 4 /\ c + k <= TermColumns),
         ~ (c + k > TermColumns /\ k + 3 + (IF c + k < n THEN 3 ELSE 0) >= TermColumns)
  PROVE  CutLine(n, c, k) = c
<1>1. TermColumns \in Nat /\ TermColumns > 8 /\ MORE_LEN = 3
  BY DiagnosticsAssumption DEF MORE_LEN
<1> DEFINE term_columns == TermColumns - 1
           end == c + k - 1
           long == n > term_columns
           fit == IF long THEN term_columns ELSE n
           left == end > fit
           right == long /\ end < n - 1
           upTo == IF right THEN fit - 3 ELSE fit
           caret == IF left THEN upTo - k ELSE c
           print_offset == IF left THEN 3 + (c - caret) ELSE 0
           dots == IF left THEN 3 ELSE 0
           below == print_offset + Abs(caret) - dots
           stop == print_offset + upTo - dots
<1>2. CutLine(n, c, k) =
        IF Abs(caret) < dots \/ below > stop \/ (below = stop /\ stop < n)
        THEN Hidden ELSE below
  BY <1>1 DEF CutLine
<1>3. caret \in Int /\ (caret >= 0 => Abs(caret) = caret)
  BY <1>1 DEF Abs
<1>4. CASE left
  <2>1. caret >= 3
    BY <1>1, <1>4
  <2>2. Abs(caret) = caret
    BY <1>3, <2>1
  <2>3. below = c
    BY <1>1, <1>4, <2>2
  <2>4. ~ (Abs(caret) < dots)
    <3>1. dots = 3
      BY <1>4
    <3> HIDE DEF dots, caret
    <3>. QED
      BY <1>3, <2>1, <2>2, <3>1
  <2>5. ~ (below > stop)
    BY <1>1, <1>4, <2>2, <2>3
  <2>6. ~ (below = stop /\ stop < n)
    BY <1>1, <1>4, <2>2, <2>3
  <2>. QED
    BY <1>2, <2>3, <2>4, <2>5, <2>6
<1>5. CASE ~left
  <2>1. caret = c /\ Abs(caret) = c /\ below = c /\ stop = upTo /\ dots = 0
    BY <1>1, <1>3, <1>5
  <2>2. ~ (below > stop) /\ ~ (below = stop /\ stop < n) /\ ~ (c < 0)
    BY <1>1, <1>5, <2>1
  <2>. QED
    BY <1>2, <2>1, <2>2
<1>. QED
  BY <1>4, <1>5

\* So it is in a line with an end, the end of the line included.
LEMMA CaretPlaced ==
  ASSUME NEW line, Len(line) \in Nat, line # <<>>, line[Len(line)] = "newline",
         NEW c \in Nat, c < Len(line), NEW place \in Nat,
         place = c \/ (c = Len(line) - 1 /\ place = Len(line)),
         ~UnderDots(line, c), ~NoRoom(line, c)
  PROVE  print_caret(line, place) = c
<1>1. TermColumns \in Nat /\ TermColumns > 8 /\ MORE_LEN = 3
  BY DiagnosticsAssumption DEF MORE_LEN
<1> DEFINE n == Len(line)
           k == token_len(line, c)
<1>2. k \in Nat /\ k >= 1 /\ c + k <= n /\ n \in Nat /\ n > 0
  BY TokenLength
<1>3. ~ (n - 1 >= TermColumns /\ c >= TermColumns - 4 /\ c + k <= TermColumns)
  <2>1. ~ (n > TermColumns /\ c >= TermColumns - 1 - 3 /\ c + k <= TermColumns)
    BY <1>1 DEF UnderDots
  <2> HIDE DEF k
  <2>. QED
    BY <1>1, <1>2, <2>1
<1>4. ~ (c + k > TermColumns /\ k + 3 + (IF c + k < n - 1 THEN 3 ELSE 0) >= TermColumns)
  BY <1>1 DEF NoRoom
<1>5. (IF place > 0 /\ place = n THEN place - 1 ELSE place) = c
  OBVIOUS
<1>6. print_caret(line, place) = CutLine(n - 1, c, k)
  BY <1>5 DEF print_caret
<1>7. CutLine(n - 1, c, k) = c
  <2>1. n - 1 \in Nat /\ c + k <= (n - 1) + 1
    BY <1>2
  <2> HIDE DEF n, k
  <2>. QED
    BY <1>2, <1>3, <1>4, <2>1, CutRight
<1>. QED
  BY <1>6, <1>7

-----------------------------------------------------------------------------
(* Tokens and columns.                                                     *)

\* The characters of a token, with the blanks before it.
LEMMA Spellings ==
  ASSUME NEW tok \in Toks
  PROVE  /\ Before(tok) \in Seq(Char) /\ Spelled(tok) \in Seq(Char) /\ Shows(tok) \in Seq(Char)
         /\ Len(Before(tok)) \in Nat /\ Len(Spelled(tok)) \in Nat \ {0}
         /\ Len(Shows(tok)) = Len(Before(tok)) + Len(Spelled(tok))
         /\ tok = "newline" => Before(tok) = <<>> /\ Spelled(tok) = <<"newline">>
                               /\ Len(Before(tok)) = 0 /\ Len(Spelled(tok)) = 1
         /\ tok = "hole" => Len(Before(tok)) = 1 /\ Len(Spelled(tok)) = 1
<1>1. Before(tok) \in Seq(Char) /\ Spelled(tok) \in Seq(Char)
  <2>1. {"space", "alnum", "punct", "newline"} \subseteq Char
    BY DEF Char
  <2>2. ASSUME NEW x \in Char
        PROVE  /\ <<>> \in Seq(Char) /\ <<x>> \in Seq(Char)
               /\ <<x, x>> \in Seq(Char) /\ <<x, x, x>> \in Seq(Char)
    OBVIOUS
  <2>3. Before(tok) \in {<<"space">>, <<"punct">>, <<>>}
    BY DEF Before
  <2>4. \/ Spelled(tok) \in {<<"alnum">>, <<"alnum", "alnum">>, <<"alnum", "alnum", "alnum">>}
        \/ Spelled(tok) \in {<<"newline">>, <<"punct">>}
    BY DEF Spelled
  <2>. QED
    BY <2>1, <2>2, <2>3, <2>4
<1>2. Len(Before(tok)) \in Nat /\ Len(Spelled(tok)) \in Nat \ {0}
  <2>1. \A x : Len(<<x>>) = 1 /\ Len(<<x, x>>) = 2 /\ Len(<<x, x, x>>) = 3
    OBVIOUS
  <2>2. Len(Spelled(tok)) \in {1, 2, 3}
    BY <2>1 DEF Spelled
  <2>3. Len(Before(tok)) \in Nat
    BY <1>1
  <2>. QED
    BY <2>2, <2>3
<1>3. tok = "newline" => Before(tok) = <<>> /\ Spelled(tok) = <<"newline">>
                         /\ Len(Before(tok)) = 0 /\ Len(Spelled(tok)) = 1
  <2>1. tok = "newline" => Before(tok) = <<>> /\ Spelled(tok) = <<"newline">>
    BY DEF Before, Spelled, Words
  <2>2. Len(<<>>) = 0 /\ Len(<<"newline">>) = 1
    OBVIOUS
  <2>. QED
    BY <2>1, <2>2
<1>4. tok = "hole" => Len(Before(tok)) = 1 /\ Len(Spelled(tok)) = 1
  <2>1. tok = "hole" => Before(tok) = <<"punct">> /\ Spelled(tok) = <<"punct">>
    BY DEF Before, Spelled, Words
  <2>2. Len(<<"punct">>) = 1
    OBVIOUS
  <2>. QED
    BY <2>1, <2>2
<1>5. /\ Shows(tok) \in Seq(Char)
      /\ Len(Shows(tok)) = Len(Before(tok)) + Len(Spelled(tok))
  BY <1>1 DEF Shows
<1>. QED
  BY <1>1, <1>2, <1>3, <1>4, <1>5

\* The characters of a line are those of its tokens, one after the other.
LEMMA CharsSteps ==
  ASSUME NEW line \in Seq(Toks), line # <<>>
  PROVE  \E f : /\ f[1] = Shows(line[1]) /\ Chars(line) = f[Len(line)]
                /\ \A n \in 1..Len(line) : f[n] \in Seq(Char)
                /\ \A n \in 2..Len(line) : f[n] = f[n - 1] \o Shows(line[n])
<1> DEFINE parts == [i \in DOMAIN line |-> Before(line[i]) \o Spelled(line[i])]
<1>1. Len(line) \in Nat \ {0} /\ DOMAIN line = 1..Len(line) /\ \A i \in 1..Len(line) : line[i] \in Toks
  OBVIOUS
<1>2. \A i \in 1..Len(line) : parts[i] = Shows(line[i]) /\ parts[i] \in Seq(Char)
  BY <1>1, Spellings DEF Shows
<1>3. parts \in Seq(Seq(Char)) /\ Len(parts) = Len(line) /\ parts # <<>>
  <2>1. parts = [i \in 1..Len(line) |-> parts[i]]
    BY <1>1
  <2> HIDE DEF parts
  <2>2. parts \in [1..Len(line) -> Seq(Char)]
    BY <1>2, <2>1
  <2>3. parts \in Seq(Seq(Char))
    BY <1>1, <2>2, SeqDef
  <2>4. Len(parts) = Len(line)
    BY <1>1, <2>2, <2>3, LenProperties
  <2>. QED
    BY <1>1, <2>3, <2>4
<1>4. Chars(line) = FlattenSeq(parts)
  BY DEF Chars
<1> HIDE DEF parts
<1>5. PICK f : /\ f[1] = parts[1] /\ FlattenSeq(parts) = f[Len(parts)]
               /\ \A n \in 2..Len(parts) : f[n] = f[n - 1] \o parts[n]
  BY <1>3, FlattenSteps
<1>6. /\ f[1] = Shows(line[1]) /\ Chars(line) = f[Len(line)]
      /\ \A n \in 2..Len(line) : f[n] = f[n - 1] \o Shows(line[n])
  <2>1. 1 \in 1..Len(line) /\ \A n \in 2..Len(line) : n \in 1..Len(line)
    BY <1>1
  <2>. QED
    BY <1>2, <1>3, <1>4, <1>5, <2>1
<1> DEFINE Good == {n \in Nat : n + 1 \in 1..Len(line) => f[n + 1] \in Seq(Char)}
<1>7. 0 \in Good
  BY <1>1, <1>6, Spellings
<1>8. ASSUME NEW n \in 0..Len(line) - 1, n \in Good PROVE n + 1 \in Good
  <2>1. SUFFICES ASSUME (n + 1) + 1 \in 1..Len(line) PROVE f[(n + 1) + 1] \in Seq(Char)
    OBVIOUS
  <2>2. n + 1 \in 1..Len(line) /\ (n + 1) + 1 \in 2..Len(line) /\ ((n + 1) + 1) - 1 = n + 1
    BY <1>1, <2>1
  <2>3. f[(n + 1) + 1] = f[n + 1] \o Shows(line[(n + 1) + 1])
    BY <1>6, <2>2
  <2>4. f[n + 1] \in Seq(Char) /\ Shows(line[(n + 1) + 1]) \in Seq(Char)
    BY <1>1, <1>8, <2>1, <2>2, Spellings
  <2>. QED
    BY <2>3, <2>4
<1> HIDE DEF Good
<1>9. \A n \in 0..Len(line) : n \in Good
  BY <1>1, <1>7, <1>8, UpTo
<1>10. \A n \in 1..Len(line) : f[n] \in Seq(Char)
  <2>1. \A n \in 1..Len(line) : n - 1 \in 0..Len(line) /\ (n - 1) + 1 = n
    BY <1>1
  <2>2. \A n \in 1..Len(line) : (n - 1) \in Good
    BY <1>9, <2>1
  <2>. QED
    BY <2>1, <2>2 DEF Good
<1>. QED
  BY <1>6, <1>10

\* The last character of a line with an end.
LEMMA CharsEnd ==
  ASSUME NEW line \in Seq(Toks), line # <<>>, Last(line) = "newline"
  PROVE  /\ Chars(line) \in Seq(Char) /\ Chars(line) # <<>> /\ Len(Chars(line)) \in Nat
         /\ Chars(line)[Len(Chars(line))] = "newline"
<1>1. Len(line) \in Nat \ {0} /\ line[Len(line)] = "newline" /\ "newline" \in Toks
  BY DEF Last, Toks, End
<1>2. PICK f : /\ f[1] = Shows(line[1]) /\ Chars(line) = f[Len(line)]
               /\ \A n \in 1..Len(line) : f[n] \in Seq(Char)
               /\ \A n \in 2..Len(line) : f[n] = f[n - 1] \o Shows(line[n])
  BY CharsSteps
<1>3. Shows("newline") = <<"newline">>
  <2>1. Before("newline") = <<>> /\ Spelled("newline") = <<"newline">>
    BY <1>1, Spellings
  <2>2. \A x : <<>> \o <<x>> = <<x>>
    OBVIOUS
  <2>. QED
    BY <2>1, <2>2 DEF Shows
<1>4. ASSUME NEW x \in Seq(Char)
      PROVE  /\ x \o <<"newline">> # <<>> /\ Len(x \o <<"newline">>) = Len(x) + 1
             /\ (x \o <<"newline">>)[Len(x) + 1] = "newline"
  OBVIOUS
<1>5. CASE Len(line) = 1
  BY <1>1, <1>2, <1>3, <1>5
<1>6. CASE Len(line) # 1
  <2>1. Len(line) \in 2..Len(line) /\ Len(line) - 1 \in 1..Len(line) /\ Len(line) \in 1..Len(line)
    <3>1. \A n \in Nat \ {0} : n # 1 => n \in 2..n /\ n - 1 \in 1..n /\ n \in 1..n
      OBVIOUS
    <3>. QED
      BY <1>1, <1>6, <3>1
  <2>2. Chars(line) = f[Len(line) - 1] \o <<"newline">> /\ f[Len(line) - 1] \in Seq(Char)
    BY <1>1, <1>2, <1>3, <2>1
  <2>3. Chars(line) \in Seq(Char)
    BY <1>2, <2>1
  <2>. QED
    BY <1>4, <2>2, <2>3
<1>. QED
  BY <1>5, <1>6

\* What a line says by itself, one token at a time.
LEMMA WithinSteps ==
  ASSUME NEW line \in Seq(Toks)
  PROVE  /\ Len(line) \in Nat /\ Within(line, 0) = Nothing
         /\ \A k \in 0..Len(line) + 1 : IsHeard(Within(line, k))
         /\ \A k \in 0..Len(line) - 1 : Within(line, k + 1) = Hear(Within(line, k), line[k + 1])
         /\ Within(line, Len(line) + 1) = Hear(Within(line, Len(line)), "newline")
         /\ Alone(line) = Within(line, Len(line) + 1)
         /\ \A k \in 0..Len(line) + 1 :
              Within(line, k).end # "all" => Alone(line) = Within(line, k)
<1> DEFINE t == Append(line, "newline")
<1>1. "newline" \in Toks /\ <<>> \in Seq(Seq(Toks))
  BY DEF Toks, End
<1>2. /\ t \in Seq(Toks) /\ Len(t) = Len(line) + 1 /\ Len(line) \in Nat
      /\ \A k \in 1..Len(line) : t[k] = line[k]
      /\ t[Len(line) + 1] = "newline"
  BY <1>1
<1>3. Alone(line) = Hearing(t)[Len(t)]
  <2>1. FlattenSeq(<<line>>) = line
    <3>1. FlattenSeq(Append(<<>>, line)) = FlattenSeq(<<>>) \o line /\ FlattenSeq(<<>>) = <<>>
      BY <1>1, Flattening
    <3>2. Append(<<>>, line) = <<line>> /\ <<>> \o line = line
      OBVIOUS
    <3>. QED
      BY <3>1, <3>2
  <2>2. Heard([NoSource EXCEPT !.lines = <<line>>]) = t
    BY <2>1 DEF Heard, NoSource
  <2>. QED
    BY <2>2 DEF Alone, Say
<1> HIDE DEF t
<1>4. /\ Hearing(t)[0] = Nothing
      /\ \A n \in 1..Len(t) : Hearing(t)[n] = Hear(Hearing(t)[n - 1], t[n])
  BY <1>2, HearingSteps
<1>5. \A k \in 0..Len(t) : IsHeard(Hearing(t)[k])
  BY <1>2, HearingTyped
<1>6. \A k \in 0..Len(t) : Hearing(t)[k].end # "all" => Hearing(t)[Len(t)] = Hearing(t)[k]
  BY <1>2, HearingStays
<1>7. \A k : Within(line, k) = Hearing(t)[k]
  BY DEF Within, t
<1>8. \A k \in 0..Len(line) - 1 :
        k + 1 \in 1..Len(t) /\ k + 1 \in 1..Len(line) /\ (k + 1) - 1 = k
  BY <1>2
<1>9. Len(line) + 1 \in 1..Len(t) /\ (Len(line) + 1) - 1 = Len(line)
  BY <1>2
<1>10. \A k \in 0..Len(line) - 1 : Hearing(t)[k + 1] = Hear(Hearing(t)[k], line[k + 1])
  BY <1>2, <1>4, <1>8
<1>11. Hearing(t)[Len(line) + 1] = Hear(Hearing(t)[Len(line)], "newline")
  BY <1>2, <1>4, <1>9
<1>. QED
  BY <1>2, <1>3, <1>4, <1>5, <1>6, <1>7, <1>10, <1>11

\* What is heard goes on only after the whole of a token.
LEMMA HearPassed ==
  ASSUME NEW r, IsHeard(r), r.end = "all", NEW tok, Hear(r, tok).end = "all"
  PROVE  Hear(r, tok).at = Passed(r, tok)
<1>1. r = [done |-> r.done, last |-> r.last, end |-> r.end, at |-> r.at, by |-> r.by]
  BY DEF IsHeard
<1>2. CASE tok \in End /\ ~LastIs(r, {"half", "illegal"})
  <2>1. Hear(r, tok) = Completed(r, tok)
    BY <1>2 DEF Hear
  <2>2. CASE r.last = <<>>
    <3>1. Completed(r, tok) = [r EXCEPT !.at = Passed(r, tok)]
      BY <2>2 DEF Completed
    <3>2. Completed(r, tok) = [done |-> r.done, last |-> r.last, end |-> r.end,
                               at |-> Passed(r, tok), by |-> r.by]
      BY <1>1, <3>1
    <3>. QED
      BY <2>1, <3>2
  <2>3. CASE r.last # <<>>
    <3>1. Completed(r, tok) =
            [r EXCEPT !.done = Append(r.done, r.last), !.last = <<>>, !.at = Passed(r, tok),
                      !.end = IF r.last = <<"quit">> THEN "quit" ELSE "all"]
      BY <2>3 DEF Completed
    <3>2. Completed(r, tok) = [done |-> Append(r.done, r.last), last |-> <<>>,
                               end |-> IF r.last = <<"quit">> THEN "quit" ELSE "all",
                               at |-> Passed(r, tok), by |-> r.by]
      BY <1>1, <3>1
    <3>. QED
      BY <2>1, <3>2
  <2>. QED
    BY <2>2, <2>3
<1>3. CASE ~ (tok \in End /\ ~LastIs(r, {"half", "illegal"})) /\ Continues(r, tok)
  <2>1. Hear(r, tok) = [r EXCEPT !.last = Append(r.last, tok), !.at = Passed(r, tok)]
    BY <1>3 DEF Hear
  <2>2. Hear(r, tok) = [done |-> r.done, last |-> Append(r.last, tok), end |-> r.end,
                        at |-> Passed(r, tok), by |-> r.by]
    BY <1>1, <2>1
  <2>. QED
    BY <2>2
<1>4. CASE ~ (tok \in End /\ ~LastIs(r, {"half", "illegal"})) /\ ~Continues(r, tok)
  <2>1. Hear(r, tok).end = "failed"
    BY <1>4, HearWrong
  <2>. QED
    BY <2>1
<1>. QED
  BY <1>2, <1>3, <1>4

\* A token that is wrong is found where it begins, a '[' being part of it only after a
\* word; the end of a command with an illegal type is found at the type.
LEMMA HearFailed ==
  ASSUME NEW r, IsHeard(r), r.end = "all", NEW tok,
         ~ (tok \in End /\ ~LastIs(r, {"half", "illegal"})), ~Continues(r, tok)
  PROVE  /\ Hear(r, tok).end = "failed" /\ Hear(r, tok).by = tok
         /\ Hear(r, tok).at =
              IF tok \in End /\ LastIs(r, {"illegal"}) THEN r.at - Len(Spelled("illegal"))
              ELSE IF tok = "hole" /\ (r.last = <<>> \/ TakesNoMore(r)) THEN r.at
              ELSE r.at + Len(Before(tok))
<1> DEFINE a == IF tok \in End /\ LastIs(r, {"illegal"}) THEN r.at - Len(Spelled("illegal"))
                ELSE IF tok = "hole" /\ (r.last = <<>> \/ TakesNoMore(r)) THEN r.at
                ELSE r.at + Len(Before(tok))
<1>1. Hear(r, tok) = Failed(r, tok)
  BY DEF Hear
<1>2. Failed(r, tok) = [r EXCEPT !.end = "failed", !.by = tok, !.at = a]
  BY DEF Failed
<1> HIDE DEF a
<1>3. Failed(r, tok) = [done |-> r.done, last |-> r.last, end |-> "failed", at |-> a, by |-> tok]
  BY <1>2 DEF IsHeard
<1>. QED
  BY <1>1, <1>3 DEF a

\* While nothing is wrong, a line is heard token by token, and every character of
\* them is counted.
LEMMA Columns ==
  ASSUME NEW line \in Seq(Toks), NEW k \in 0..Len(line), Within(line, k).end = "all"
  PROVE  /\ Within(line, k).at \in Nat
         /\ k < Len(line) =>
              /\ Within(line, k).at + Len(Shows(line[k + 1])) <= Len(Chars(line))
              /\ k + 1 = Len(line) =>
                   Within(line, k).at + Len(Shows(line[k + 1])) = Len(Chars(line))
<1>1. CASE line = <<>>
  <2>1. Len(line) = 0
    BY <1>1
  <2>2. k = 0
    BY <2>1
  <2>3. Within(line, 0) = Nothing
    BY WithinSteps
  <2>. QED
    BY <2>1, <2>2, <2>3 DEF Nothing
<1>2. CASE line # <<>>
  <2>1. /\ Len(line) \in Nat /\ Len(line) > 0 /\ \A n \in 1..Len(line) : line[n] \in Toks
    BY <1>2
  <2>2. PICK f : /\ f[1] = Shows(line[1]) /\ Chars(line) = f[Len(line)]
                 /\ \A n \in 1..Len(line) : f[n] \in Seq(Char)
                 /\ \A n \in 2..Len(line) : f[n] = f[n - 1] \o Shows(line[n])
    BY <1>2, CharsSteps
  <2> DEFINE W(n) == IF n = 0 THEN 0 ELSE Len(f[n])
  <2>3. ASSUME NEW n \in 0..Len(line) - 1
        PROVE  /\ W(n) \in Nat /\ W(n + 1) \in Nat /\ Len(Shows(line[n + 1])) \in Nat
               /\ W(n + 1) = W(n) + Len(Shows(line[n + 1]))
    <3>1. n + 1 \in 1..Len(line) /\ line[n + 1] \in Toks
      BY <2>1
    <3>2. Shows(line[n + 1]) \in Seq(Char) /\ f[n + 1] \in Seq(Char)
      BY <2>2, <3>1, Spellings
    <3>3. CASE n = 0
      <4>1. W(0) = 0 /\ W(n + 1) = Len(f[1]) /\ f[1] = Shows(line[n + 1])
        BY <2>2, <3>3
      <4>. QED
        BY <3>2, <3>3, <4>1
    <3>4. CASE n # 0
      <4>1. n \in 1..Len(line) /\ n + 1 \in 2..Len(line) /\ (n + 1) - 1 = n /\ n + 1 # 0
        BY <2>1, <3>4
      <4>2. f[n] \in Seq(Char) /\ f[n + 1] = f[n] \o Shows(line[n + 1])
        BY <2>2, <4>1
      <4>3. W(n) = Len(f[n]) /\ W(n + 1) = Len(f[n + 1])
        BY <3>4, <4>1
      <4>4. \A x, y \in Seq(Char) : /\ Len(x \o y) = Len(x) + Len(y)
                                    /\ Len(x) \in Nat /\ Len(y) \in Nat /\ Len(x \o y) \in Nat
        OBVIOUS
      <4> HIDE DEF W
      <4>. QED
        BY <3>2, <4>2, <4>3, <4>4
    <3>. QED
      BY <3>3, <3>4
  <2>4. W(0) = 0 /\ W(Len(line)) = Len(Chars(line))
    BY <2>1, <2>2
  <2> HIDE DEF W
  <2> DEFINE Good == {n \in 0..Len(line) : Within(line, n).end = "all" => Within(line, n).at = W(n)}
  <2>5. 0 \in Good
    BY <2>1, <2>4, WithinSteps DEF Nothing
  <2>6. ASSUME NEW n \in 0..Len(line) - 1, n \in Good PROVE n + 1 \in Good
    <3>1. n + 1 \in 0..Len(line) /\ n \in 0..Len(line) + 1
      BY <2>1
    <3>2. SUFFICES ASSUME Within(line, n + 1).end = "all"
                   PROVE  Within(line, n + 1).at = W(n + 1)
      BY <3>1
    <3>3. /\ Within(line, n + 1) = Hear(Within(line, n), line[n + 1])
          /\ IsHeard(Within(line, n))
      BY <3>1, WithinSteps
    <3>4. Within(line, n).end = "all"
      BY <3>2, <3>3, HearOver
    <3>5. Within(line, n + 1).at = Passed(Within(line, n), line[n + 1])
      BY <3>2, <3>3, <3>4, HearPassed
    <3>6. Within(line, n).at = W(n)
      BY <2>6, <3>4
    <3>7. /\ Len(Shows(line[n + 1])) = Len(Before(line[n + 1])) + Len(Spelled(line[n + 1]))
          /\ Len(Before(line[n + 1])) \in Nat /\ Len(Spelled(line[n + 1])) \in Nat
      <4>1. n + 1 \in 1..Len(line)
        BY <2>1
      <4>. QED
        BY <2>1, <4>1, Spellings
    <3>8. W(n) \in Nat /\ W(n + 1) = W(n) + Len(Shows(line[n + 1]))
      BY <2>3
    <3>9. Passed(Within(line, n), line[n + 1]) =
            W(n) + Len(Before(line[n + 1])) + Len(Spelled(line[n + 1]))
      BY <3>6 DEF Passed
    <3>. QED
      BY <3>5, <3>7, <3>8, <3>9
  <2>7. k \in Good
    <3> HIDE DEF Good
    <3>. QED
      BY <2>1, <2>5, <2>6, UpTo
  <2>8. Within(line, k).at = W(k)
    BY <2>7
  <2> HIDE DEF Good
  <2>9. W(k) \in Nat
    <3>1. CASE k < Len(line)
      <4>1. k \in 0..Len(line) - 1
        BY <2>1, <3>1
      <4>. QED
        BY <2>3, <4>1
    <3>2. CASE k = Len(line)
      <4>1. k - 1 \in 0..Len(line) - 1 /\ (k - 1) + 1 = k
        BY <2>1, <3>2
      <4>2. W((k - 1) + 1) \in Nat
        BY <2>3, <4>1
      <4>. QED
        BY <4>1, <4>2
    <3>. QED
      BY <2>1, <3>1, <3>2
  <2>10. ASSUME NEW j \in 0..Len(line) - 1 PROVE W(j + 1) <= W(Len(line))
    <3> DEFINE Tall == {m \in 0..Len(line) - (j + 1) : W(j + 1) \in Nat /\ W((j + 1) + m) \in Nat
                                                    /\ W(j + 1) <= W((j + 1) + m)}
    <3>1. W(j + 1) \in Nat /\ j + 1 \in Nat /\ Len(line) - (j + 1) \in Nat
      <4>1. W(j + 1) \in Nat
        BY <2>3
      <4>. QED
        BY <2>1, <4>1
    <3>2. 0 \in Tall
      BY <3>1
    <3>3. ASSUME NEW m \in 0..(Len(line) - (j + 1)) - 1, m \in Tall PROVE m + 1 \in Tall
      <4>1. /\ (j + 1) + m \in 0..Len(line) - 1 /\ ((j + 1) + m) + 1 = (j + 1) + (m + 1)
            /\ m + 1 \in 0..Len(line) - (j + 1)
        BY <2>1
      <4>2. /\ W((j + 1) + (m + 1)) = W((j + 1) + m) + Len(Shows(line[((j + 1) + m) + 1]))
            /\ Len(Shows(line[((j + 1) + m) + 1])) \in Nat /\ W((j + 1) + (m + 1)) \in Nat
        BY <2>3, <4>1
      <4>3. W((j + 1) + m) \in Nat /\ W(j + 1) <= W((j + 1) + m)
        BY <3>3
      <4>4. W(j + 1) <= W((j + 1) + (m + 1))
        BY <3>1, <4>2, <4>3
      <4>. QED
        BY <3>1, <4>1, <4>2, <4>4
    <3> HIDE DEF Tall
    <3>4. Len(line) - (j + 1) \in Tall
      <4>1. \A m \in 0..Len(line) - (j + 1) : m \in Tall
        BY <3>1, <3>2, <3>3, UpTo
      <4>. QED
        BY <3>1, <4>1
    <3>5. (j + 1) + (Len(line) - (j + 1)) = Len(line)
      BY <2>1
    <3>. QED
      BY <3>4, <3>5 DEF Tall
  <2>11. ASSUME k < Len(line)
         PROVE  /\ W(k) + Len(Shows(line[k + 1])) <= W(Len(line))
                /\ k + 1 = Len(line) => W(k) + Len(Shows(line[k + 1])) = W(Len(line))
    <3>1. k \in 0..Len(line) - 1
      BY <2>1, <2>11
    <3>2. W(k + 1) = W(k) + Len(Shows(line[k + 1])) /\ W(k + 1) <= W(Len(line))
      BY <2>3, <2>10, <3>1
    <3>. QED
      BY <3>2
  <2>. QED
    BY <2>4, <2>8, <2>9, <2>11
<1>. QED
  BY <1>1, <1>2

\* There is room for the word that makes a type illegal before the end of the command.
LEMMA IllegalBehind ==
  ASSUME NEW line \in Seq(Toks), NEW k \in 0..Len(line), Within(line, k).end = "all",
         LastIs(Within(line, k), {"illegal"})
  PROVE  Within(line, k).at - Len(Spelled("illegal")) \in Nat
<1> DEFINE r == Within(line, k - 1)
           tok == line[k]
<1>1. Len(line) \in Nat /\ Within(line, 0) = Nothing
  BY WithinSteps
<1>2. k # 0
  BY <1>1 DEF LastIs, Nothing
<1>3. /\ k - 1 \in 0..Len(line) - 1 /\ (k - 1) + 1 = k /\ k - 1 \in 0..Len(line)
      /\ k - 1 \in 0..Len(line) + 1 /\ k \in 1..Len(line)
  BY <1>1, <1>2
<1>4. Within(line, k) = Hear(r, tok) /\ IsHeard(r)
  BY <1>3, WithinSteps
<1>5. r.end = "all"
  BY <1>4, HearOver
<1>6. r.at \in Nat
  BY <1>3, <1>5, Columns
<1>7. Within(line, k).at = Passed(r, tok)
  BY <1>4, <1>5, HearPassed
<1>8. tok = "illegal"
  <2>1. CASE tok \in End /\ ~LastIs(r, {"half", "illegal"})
    <3>1. Within(line, k).last = <<>>
      BY <1>4, <1>5, <2>1, HearEnd
    <3>. QED
      BY <3>1 DEF LastIs
  <2>2. CASE Continues(r, tok)
    <3>1. Within(line, k).last = Append(r.last, tok) /\ r.last \in Seq(Token)
      BY <1>4, <1>5, <2>2, HearWord DEF IsHeard
    <3>2. tok \in Token
      BY <2>2, ContinuesWords
    <3>3. \A q \in Seq(Token) : \A x \in Token : Last(Append(q, x)) = x
      BY DEF Last
    <3>4. Last(Within(line, k).last) = tok
      BY <3>1, <3>2, <3>3
    <3>. QED
      BY <3>4 DEF LastIs
  <2>. QED
    BY <1>4, <1>5, <2>1, <2>2, HearWrong
<1>9. "illegal" \in Toks
  BY DEF Toks, Token, Words
<1>10. Len(Before("illegal")) \in Nat /\ Len(Spelled("illegal")) \in Nat
  BY <1>9, Spellings
<1> HIDE DEF r, tok
<1>11. Within(line, k).at = r.at + Len(Before("illegal")) + Len(Spelled("illegal"))
  BY <1>7, <1>8 DEF Passed
<1>. QED
  BY <1>6, <1>10, <1>11

\* An end of a command is the end of what was said before it.
LEMMA LineEnds ==
  ASSUME NEW line \in Seq(Toks), Within(line, Len(line)).end = "all"
  PROVE  /\ Ended(line) => Within(line, Len(line)).last = <<>>
         /\ line = <<>> => Within(line, Len(line)) = Nothing
         /\ Within(line, Len(line)).last = <<>> => Alone(line).end = "all"
<1> DEFINE r == Within(line, Len(line))
<1>1. /\ Len(line) \in Nat /\ IsHeard(r) /\ Alone(line) = Hear(r, "newline")
      /\ line = <<>> => r = Nothing
  <2>1. Len(line) \in 0..Len(line) + 1 /\ (line = <<>> => Len(line) = 0)
    OBVIOUS
  <2>. QED
    BY <2>1, WithinSteps
<1>2. ASSUME r.last = <<>> PROVE Alone(line).end = "all"
  <2>1. "newline" \in End /\ ~LastIs(r, {"half", "illegal"})
    BY <1>2 DEF End, LastIs
  <2>. QED
    BY <1>1, <1>2, <2>1, HearEnd
<1>3. ASSUME Ended(line) PROVE r.last = <<>>
  <2>1. /\ Len(line) - 1 \in 0..Len(line) - 1 /\ (Len(line) - 1) + 1 = Len(line)
        /\ Len(line) - 1 \in 0..Len(line) + 1 /\ line[Len(line)] \in End
    BY <1>1, <1>3 DEF Ended, Last
  <2> DEFINE q == Within(line, Len(line) - 1)
  <2>2. r = Hear(q, line[Len(line)]) /\ IsHeard(q)
    BY <2>1, WithinSteps
  <2>3. q.end = "all"
    BY <2>2, HearOver
  <2>4. CASE ~LastIs(q, {"half", "illegal"})
    BY <2>1, <2>2, <2>3, <2>4, HearEnd
  <2>5. CASE LastIs(q, {"half", "illegal"})
    <3>1. ~Continues(q, line[Len(line)])
      BY <2>1, ContinuesWords
    <3>2. r.end = "failed"
      BY <2>2, <2>3, <2>5, <3>1, HearWrong
    <3>. QED
      BY <3>2
  <2>. QED
    BY <2>4, <2>5
<1>. QED
  BY <1>1, <1>2, <1>3

-----------------------------------------------------------------------------
(* The invariant.                                                          *)

Singles(lines) == \A i \in DOMAIN lines : Single(lines[i])

\* The buffers have what comes after the k-th token of the line.
Left(line, k) ==
  /\ Len(line) = k + Len(buffer) + Len(unread)
  /\ \A i \in 1..Len(buffer) : line[k + i] = buffer[i]
  /\ \A i \in 1..Len(unread) : line[k + Len(buffer) + i] = unread[i]

\* The program has heard what the line says up to its k-th token, and is in the
\* column after it.
Here(line, k) ==
  /\ Left(line, k)
  /\ Within(line, k).end = "all" /\ Within(line, k).last = command
  /\ IF k = Len(line) /\ Ended(line) THEN column = 0 ELSE column = Within(line, k).at
  /\ k < Len(line) /\ Last(line) = "newline" => input_len > 0

\* Nothing was wrong so far.
Reading ==
  /\ ~skipping
  /\ Lines = <<>> => buffer = <<>> /\ unread = <<>> /\ command = <<>> /\ column = 0
  /\ is_eof => command = <<>>
  /\ Lines # <<>> /\ ~is_eof => \E k \in 0..Len(Last(Lines)) : Here(Last(Lines), k)
  /\ \A i \in 1..Len(Lines) - 1 : Alone(Lines[i]).end # "failed"

\* The error is shown where it is in the line, unless it is at a synonym.
Pointed(line, error) ==
  Alone(line).by # "synonym" =>
    /\ Alone(line).at \in Nat
    /\ IF line # <<>> /\ Last(line) = "newline"
       THEN /\ error.line = "right" /\ Alone(line).at < Len(Chars(line))
            /\ \/ error.column = Alone(line).at
               \/ Alone(line).at = Len(Chars(line)) - 1 /\ error.column = Len(Chars(line))
       ELSE error.column = Alone(line).at

\* The error is in the first line that is wrong.
InFirst(lines, error) ==
  \E i \in DOMAIN lines :
    /\ Alone(lines[i]).end = "failed"
    /\ \A j \in 1..i - 1 : Alone(lines[j]).end # "failed"
    /\ Pointed(lines[i], error)

\* A line has its end at its end, and none if it was typed.
NewlineLast(lines, from) ==
  \A i \in DOMAIN lines : \A j \in 1..Len(lines[i]) :
    lines[i][j] = "newline" => j = Len(lines[i]) /\ from # "terminal"

EInv ==
  /\ NewlineLast(Lines, Origin)
  /\ stage = "parse" /\ shown.line # "none" => skipping
  /\ Singles(Lines) =>
       IF shown.line = "none" THEN stage = "parse" => Reading ELSE InFirst(Lines, shown)

\* The lines of the source are lines.
LEMMA LinesTyped ==
  ASSUME IInv
  PROVE  Lines \in Seq(Seq(Toks))
<1>1. CASE sources = <<>>
  <2>1. Lines = <<>>
    BY <1>1 DEF Lines, Source, NoSource
  <2>. QED
    BY <2>1
<1>2. CASE sources # <<>>
  <2>1. Source \in SourceType
    BY <1>2, LastSource DEF IInv, Typed, Source
  <2>. QED
    BY <2>1 DEF SourceType, Lines
<1>. QED
  BY <1>1, <1>2

\* The invariant tells in which line and column an error was shown.
LEMMA InvariantShown == IInv /\ EInv => ErrorShown
<1>1. SUFFICES ASSUME IInv, EInv, shown.line # "none", Singles(Lines)
               PROVE  LET first == Min({i \in DOMAIN Lines : Alone(Lines[i]).end = "failed"})
                          line == Lines[first]
                          wrong == Alone(line).at
                      IN  \/ Alone(line).by = "synonym"
                          \/ IF Origin = "terminal"
                             THEN ~joined =>
                                    print_caret_typed(shown.column) =
                                      (PROMPT_LEN + wrong) % TermColumns
                             ELSE Last(line) = "newline" =>
                                    /\ shown.line = "right"
                                    /\ \/ UnderDots(Chars(line), wrong) \/ NoRoom(Chars(line), wrong)
                                       \/ print_caret(Chars(line), shown.column) = wrong
  BY DEF ErrorShown, Singles
<1>2. Lines \in Seq(Seq(Toks)) /\ DOMAIN Lines = 1..Len(Lines) /\ Len(Lines) \in Nat
  BY <1>1, LinesTyped
<1>3. PICK i \in DOMAIN Lines :
        /\ Alone(Lines[i]).end = "failed"
        /\ \A j \in 1..i - 1 : Alone(Lines[j]).end # "failed"
        /\ Pointed(Lines[i], shown)
  BY <1>1 DEF EInv, InFirst
<1> DEFINE line == Lines[i]
           wrong == Alone(line).at
<1>4. Min({n \in DOMAIN Lines : Alone(Lines[n]).end = "failed"}) = i
  <2> DEFINE S == {n \in DOMAIN Lines : Alone(Lines[n]).end = "failed"}
  <2>1. i \in S /\ S \subseteq Nat /\ \A n \in S : n \in 1..Len(Lines) /\ n \notin 1..i - 1
    BY <1>2, <1>3
  <2> HIDE DEF S
  <2>2. \A n \in S : i <= n
    BY <1>2, <1>3, <2>1
  <2>3. \A x \in S : (\A n \in S : x <= n) => x = i
    BY <2>1, <2>2
  <2>4. Min(S) = CHOOSE x \in S : \A n \in S : x <= n
    BY DEF Min
  <2>5. Min(S) = i
    BY <2>1, <2>2, <2>3, <2>4
  <2>. QED
    BY <2>5 DEF S
<1>5. line \in Seq(Toks) /\ Len(line) \in Nat
  BY <1>2, <1>3
<1>6. line # <<>>
  <2>1. SUFFICES ASSUME line = <<>> PROVE FALSE
    OBVIOUS
  <2>2. Len(line) = 0 /\ Nothing.end = "all" /\ Nothing.last = <<>>
    BY <2>1 DEF Nothing
  <2>3. Within(line, Len(line)) = Nothing
    BY <1>5, <2>2, WithinSteps
  <2>4. Alone(line).end = "all"
    BY <1>5, <2>2, <2>3, LineEnds
  <2>. QED
    BY <1>3, <2>4
<1>0. CASE Alone(line).by = "synonym"
  BY <1>0, <1>4
<1>7. CASE Alone(line).by # "synonym" /\ Origin = "terminal"
  <2>1. Last(line) # "newline"
    BY <1>1, <1>2, <1>3, <1>5, <1>6, <1>7 DEF EInv, NewlineLast, Last
  <2>2. shown.column = wrong /\ wrong \in Nat
    BY <1>3, <1>7, <2>1 DEF Pointed
  <2>3. print_caret_typed(shown.column) = (PROMPT_LEN + wrong) % TermColumns
    <3>1. wrong + PROMPT_LEN = PROMPT_LEN + wrong
      BY <2>2 DEF PROMPT_LEN
    <3>. QED
      BY <2>2, <3>1 DEF print_caret_typed
  <2>. QED
    BY <1>4, <1>7, <2>3
<1>8. CASE Alone(line).by # "synonym" /\ Origin # "terminal"
  <2>1. SUFFICES ASSUME Last(line) = "newline"
                 PROVE  /\ shown.line = "right"
                        /\ \/ UnderDots(Chars(line), wrong) \/ NoRoom(Chars(line), wrong)
                           \/ print_caret(Chars(line), shown.column) = wrong
    BY <1>4, <1>8
  <2>2. /\ shown.line = "right" /\ wrong \in Nat /\ wrong < Len(Chars(line))
        /\ \/ shown.column = wrong
           \/ wrong = Len(Chars(line)) - 1 /\ shown.column = Len(Chars(line))
    BY <1>3, <1>6, <1>8, <2>1 DEF Pointed
  <2>3. /\ Chars(line) # <<>> /\ Len(Chars(line)) \in Nat
        /\ Chars(line)[Len(Chars(line))] = "newline"
    BY <1>5, <1>6, <2>1, CharsEnd
  <2>4. shown.column \in Nat
    BY <2>2, <2>3
  <2>5. \/ UnderDots(Chars(line), wrong) \/ NoRoom(Chars(line), wrong)
        \/ print_caret(Chars(line), shown.column) = wrong
    BY <2>2, <2>3, <2>4, CaretPlaced
  <2>. QED
    BY <2>2, <2>5
<1>. QED
  BY <1>0, <1>7, <1>8

-----------------------------------------------------------------------------
(* The steps.                                                              *)

\* There is no error yet.
LEMMA InitEInv == Init => EInv
<1>1. SUFFICES ASSUME Init PROVE EInv
  OBVIOUS
<1>2. Lines = <<>> /\ shown.line = "none" /\ stage = "main"
  BY <1>1 DEF Init, Lines, Source, NoSource, NoError
<1>. QED
  BY <1>2 DEF EInv, NewlineLast

\* A step that leaves the lines and the error alone.
LEMMA SameError ==
  ASSUME EInv, Lines' = Lines, Origin' = Origin, shown' = shown,
         stage' = "parse" => stage = "parse" /\ skipping' = skipping,
         Singles(Lines) /\ shown.line = "none" /\ stage' = "parse" => Reading'
  PROVE  EInv'
<1>1. NewlineLast(Lines, Origin)'
  BY DEF EInv, NewlineLast
<1>2. Singles(Lines)' <=> Singles(Lines)
  BY DEF Singles
<1>3. InFirst(Lines, shown) => InFirst(Lines, shown)'
  BY DEF InFirst, Pointed
<1>. QED
  BY <1>1, <1>2, <1>3 DEF EInv

\* One after which nothing is parsed.
LEMMA SameOver ==
  ASSUME EInv, sources' = sources, shown' = shown, stage' # "parse"
  PROVE  EInv'
<1>1. Lines' = Lines /\ Origin' = Origin
  BY DEF Lines, Origin, Source
<1>. QED
  BY <1>1, SameError

\* A step that shows an error.
LEMMA NewError ==
  ASSUME EInv, sources' = sources, shown'.line # "none", stage' = "parse" => skipping',
         Singles(Lines) => InFirst(Lines, shown')
  PROVE  EInv'
<1>0. Lines' = Lines /\ Origin' = Origin
  BY DEF Lines, Origin, Source
<1>1. NewlineLast(Lines, Origin)'
  BY <1>0 DEF EInv, NewlineLast
<1>2. Singles(Lines)' <=> Singles(Lines)
  BY <1>0 DEF Singles
<1>3. InFirst(Lines, shown') => InFirst(Lines, shown)'
  BY <1>0 DEF InFirst, Pointed
<1>. QED
  BY <1>1, <1>2, <1>3 DEF EInv

\* A parse begins.
LEMMA StartError ==
  ASSUME IInv, stage \in {"main", "read"}, NEW from, yyparse(from)
  PROVE  EInv'
<1>1. sources \in Seq(SourceType)
  BY BetweenFacts
<1> DEFINE s == [NoSource EXCEPT !.from = from]
<1>2. /\ sources' = Append(sources, s) /\ shown' = NoError /\ stage' = "parse"
      /\ skipping' = FALSE /\ buffer' = <<>> /\ command' = <<>>
      /\ UNCHANGED lexer
  BY DEF yyparse
<1>3. s.lines = <<>>
  BY DEF NoSource
<1> HIDE DEF s
<1>4. Last(Append(sources, s)) = s /\ Append(sources, s) # <<>>
  <2>1. /\ Len(Append(sources, s)) = Len(sources) + 1 /\ Append(sources, s)[Len(sources) + 1] = s
        /\ Len(sources) \in Nat
    BY <1>1
  <2>2. ASSUME Append(sources, s) = <<>> PROVE FALSE
    <3>1. Len(Append(sources, s)) = 0
      BY <2>2
    <3>. QED
      BY <2>1, <3>1
  <2>. QED
    BY <2>1, <2>2 DEF Last
<1>5. Lines' = <<>>
  BY <1>2, <1>3, <1>4 DEF Lines, Source
<1>6. ~is_eof' /\ unread' = <<>> /\ column' = 0
  BY <1>2 DEF lexer, IInv, TypeOK
<1>7. Reading'
  BY <1>2, <1>5, <1>6 DEF Reading
<1>8. NewlineLast(Lines, Origin)' /\ shown'.line = "none"
  BY <1>2, <1>5 DEF NewlineLast, NoError
<1>. QED
  BY <1>7, <1>8 DEF EInv

\* A source begins without an error.
LEMMA SourceErrors ==
  ASSUME IInv, \/ c_typedef_parse_builtins \/ read_conf_file \/ parse_command_line
               \/ parse_files \/ parse_stdin
  PROVE  EInv'
<1>1. stage \in {"main", "read"}
  BY DEF c_typedef_parse_builtins, read_conf_file, parse_command_line, parse_files, parse_stdin,
         AtStart
<1>2. \E from : yyparse(from)
  BY DEF c_typedef_parse_builtins, read_conf_file, parse_command_line, parse_files, parse_stdin
<1>. QED
  BY <1>1, <1>2, StartError

\* What was typed begins without an error; waiting for more of it shows none.
LEMMA InputErrors == IInv /\ EInv /\ read_input_line => EInv'
<1>1. SUFFICES ASSUME IInv, EInv, read_input_line PROVE EInv'
  OBVIOUS
<1>2. stage \in {"main", "read"}
  BY <1>1 DEF read_input_line
<1>3. ASSUME UNCHANGED notTyping, stage' # "parse" PROVE EInv'
  <2>1. sources' = sources /\ shown' = shown
    BY <1>3 DEF notTyping
  <2>. QED
    BY <1>1, <1>3, <2>1, SameOver
<1>4. ASSUME NEW line, parse_string(line) PROVE EInv'
  <2>1. CASE line = <<>>
    BY <1>3, <1>4, <2>1 DEF parse_string, exit
  <2>2. CASE line # <<>>
    <3>1. yyparse("terminal")
      BY <1>4, <2>2 DEF parse_string
    <3>. QED
      BY <1>1, <1>2, <3>1, StartError
  <2>. QED
    BY <2>1, <2>2
<1>. QED
  BY <1>1, <1>3, <1>4 DEF read_input_line, exit

\* Another chunk of what is not read yet.
LEMMA LeftFilled ==
  ASSUME NEW line, NEW k \in Nat, Left(line, k), buffer \in Seq(Toks), unread \in Seq(Toks),
         Fill(unread)
  PROVE  Left(line, k)'
<1>1. Parts(line, k, buffer, unread)
  BY DEF Left, Parts
<1>2. Parts(line, k, buffer', unread')
  BY <1>1, FilledText
<1>. QED
  BY <1>2 DEF Left, Parts

\* If flex wants more than a word of a line that is read to its end, the line has none.
LEMMA WordLast ==
  ASSUME IInv, Wanting, Reading, unread = <<>>, Lines # <<>>, buffer # <<>>
  PROVE  Last(Lines) # <<>> /\ Last(Last(Lines)) \in Words /\ Last(Last(Lines)) # "newline"
<1> DEFINE line == Last(Lines)
<1>1. /\ ~is_eof /\ buffer \in Seq(Toks) /\ Len(buffer) \in 0..1
      /\ \A i \in 1..Len(buffer) : buffer[i] \in Words
  BY WantingFacts
<1>2. PICK k \in 0..Len(line) : Here(line, k)
  BY <1>1 DEF Reading
<1> HIDE DEF line
<1>3. Len(buffer) = 1 /\ Len(unread) = 0
  <2>1. Len(buffer) # 0
    BY <1>1
  <2>. QED
    BY <1>1, <2>1
<1>4. k \in Nat /\ Len(line) = k + 1 /\ line[k + 1] = buffer[1]
  BY <1>2, <1>3 DEF Here, Left
<1>5. line # <<>> /\ Last(line) \in Words
  <2>1. Last(line) \in Words
    BY <1>1, <1>3, <1>4 DEF Last
  <2>2. line = <<>> => Len(line) = 0
    OBVIOUS
  <2>3. Len(line) # 0
    BY <1>4
  <2>. QED
    BY <2>1, <2>2, <2>3
<1>. QED
  BY <1>5 DEF line, Words

\* When a line has been read to its end nothing of it is left, unless it has no end.
LEMMA LineRead ==
  ASSUME IInv, Reading, ~is_eof, buffer = <<>>, unread = <<>>, Lines # <<>>
  PROVE  LET line == Last(Lines)
         IN  /\ line \in Seq(Toks) /\ Here(line, Len(line))
             /\ Ended(line) \/ line = <<>> =>
                  column = 0 /\ command = <<>> /\ Alone(line).end = "all"
<1> DEFINE line == Last(Lines)
<1>1. line \in Seq(Toks)
  <2>1. Lines \in Seq(Seq(Toks))
    BY LinesTyped
  <2>2. Len(Lines) \in 1..Len(Lines)
    BY <2>1
  <2>. QED
    BY <2>1, <2>2 DEF Last
<1>2. PICK k \in 0..Len(line) : Here(line, k)
  BY DEF Reading
<1> HIDE DEF line
<1>3. Len(line) \in Nat /\ Len(buffer) = 0 /\ Len(unread) = 0
  BY <1>1
<1>4. k = Len(line)
  BY <1>2, <1>3 DEF Here, Left
<1>5. Here(line, Len(line))
  BY <1>2, <1>4
<1>6. /\ Within(line, Len(line)).end = "all" /\ Within(line, Len(line)).last = command
      /\ Ended(line) => column = 0
      /\ ~Ended(line) => column = Within(line, Len(line)).at
  BY <1>5 DEF Here
<1>7. ASSUME Ended(line)
      PROVE  column = 0 /\ command = <<>> /\ Alone(line).end = "all"
  BY <1>1, <1>6, <1>7, LineEnds
<1>8. ASSUME line = <<>>
      PROVE  column = 0 /\ command = <<>> /\ Alone(line).end = "all"
  <2>1. Within(line, Len(line)) = Nothing /\ ~Ended(line)
    BY <1>1, <1>6, <1>8, LineEnds DEF Ended
  <2>. QED
    BY <1>1, <1>6, <2>1, LineEnds DEF Nothing
<1>. QED
  BY <1>1, <1>5, <1>7, <1>8 DEF line

\* Another line.
LEMMA AnotherLine ==
  ASSUME IInv, EInv, Wanting, unread = <<>>, HasNext,
         NEW line \in Line, Fill(line), input_len' = Len(line), shown' = shown,
         Lines' = Append(Lines, line), Origin' = Origin, stage' = stage, skipping' = skipping,
         is_eof' = is_eof, command' = command, column' = column
  PROVE  EInv'
<1>1. Lines \in Seq(Seq(Toks)) /\ line \in Seq(Toks) /\ \A i \in 1..Len(line) - 1 : line[i] # "newline"
  BY LinesTyped, LineTyped
<1>2. /\ Len(Lines) \in Nat /\ Len(Lines') = Len(Lines) + 1 /\ Lines' # <<>>
      /\ DOMAIN Lines = 1..Len(Lines) /\ DOMAIN Lines' = 1..Len(Lines) + 1
      /\ \A i \in 1..Len(Lines) : Lines'[i] = Lines[i] /\ i \in 1..Len(Lines) + 1
      /\ Lines'[Len(Lines) + 1] = line /\ Last(Lines') = line
      /\ Len(Lines) + 1 \in 1..Len(Lines) + 1
      /\ \A i \in 1..Len(Lines) + 1 : i \in 1..Len(Lines) \/ i = Len(Lines) + 1
  <2>1. \A ls \in Seq(Seq(Toks)) :
          /\ Len(ls) \in Nat /\ Len(Append(ls, line)) = Len(ls) + 1 /\ Append(ls, line) # <<>>
          /\ DOMAIN ls = 1..Len(ls) /\ DOMAIN Append(ls, line) = 1..Len(ls) + 1
          /\ \A i \in 1..Len(ls) : Append(ls, line)[i] = ls[i]
          /\ Append(ls, line)[Len(ls) + 1] = line
    <3>1. ASSUME NEW ls \in Seq(Seq(Toks))
          PROVE  /\ Len(ls) \in Nat /\ Len(Append(ls, line)) = Len(ls) + 1
                 /\ Append(ls, line) \in Seq(Seq(Toks))
                 /\ \A i \in 1..Len(ls) : Append(ls, line)[i] = ls[i]
                 /\ Append(ls, line)[Len(ls) + 1] = line
      BY <1>1
    <3>2. ASSUME NEW ls \in Seq(Seq(Toks))
          PROVE  DOMAIN ls = 1..Len(ls)
      OBVIOUS
    <3>3. ASSUME NEW ls \in Seq(Seq(Toks)), Len(ls) # 0
          PROVE  ls # <<>>
      BY <3>3
    <3>4. \A n \in Nat : n + 1 # 0
      OBVIOUS
    <3>. QED
      BY <3>1, <3>2, <3>3, <3>4
  <2>2. Last(Lines') = line
    BY <1>1, <2>1 DEF Last
  <2>3. \A n \in Nat : /\ \A i \in 1..n : i \in 1..n + 1
                       /\ n + 1 \in 1..n + 1
                       /\ \A i \in 1..n + 1 : i \in 1..n \/ i = n + 1
    OBVIOUS
  <2>. QED
    BY <1>1, <2>1, <2>2, <2>3
<1>3. Origin = "terminal" => line \in Seq(Token)
  <2>1. Origin = "terminal" => line = buf
    BY DEF Line
  <2>. QED
    BY <2>1 DEF IInv, Typed
<1>4. NewlineLast(Lines, Origin)'
  <2>1. ASSUME NEW j \in 1..Len(line), line[j] = "newline"
        PROVE  j = Len(line) /\ Origin # "terminal"
    <3>1. j = Len(line)
      BY <1>1, <2>1
    <3>2. Origin # "terminal"
      <4>1. "newline" \notin Token
        BY DEF Token, Words
      <4>. QED
        BY <1>3, <2>1, <4>1
    <3>. QED
      BY <3>1, <3>2
  <2>2. ASSUME NEW i \in 1..Len(Lines), NEW j \in 1..Len(Lines[i]), Lines[i][j] = "newline"
        PROVE  j = Len(Lines[i]) /\ Origin # "terminal"
    BY <1>2, <2>2 DEF EInv, NewlineLast
  <2>. QED
    BY <1>2, <2>1, <2>2 DEF NewlineLast
<1>5. Singles(Lines)' => Singles(Lines)
  BY <1>2 DEF Singles
<1>6. ASSUME InFirst(Lines, shown) PROVE InFirst(Lines, shown)'
  <2>1. PICK i \in 1..Len(Lines) :
          /\ Alone(Lines[i]).end = "failed"
          /\ \A j \in 1..i - 1 : Alone(Lines[j]).end # "failed"
          /\ Pointed(Lines[i], shown)
    BY <1>2, <1>6 DEF InFirst
  <2>2. \A j \in 1..i - 1 : j \in 1..Len(Lines)
    BY <1>2
  <2>3. i \in DOMAIN Lines' /\ Lines'[i] = Lines[i] /\ \A j \in 1..i - 1 : Lines'[j] = Lines[j]
    BY <1>2, <2>2
  <2>4. Pointed(Lines'[i], shown')
    BY <2>1, <2>3
  <2>. QED
    BY <2>1, <2>3, <2>4 DEF InFirst, Pointed
<1>7. ASSUME Reading PROVE Reading'
  <2>1. /\ Lines # <<>> => Len(Last(Lines)) \in Nat /\ Last(Lines) = Lines[Len(Lines)]
        /\ Len(Lines) = 0 => Lines = <<>>
    <3>1. Lines # <<>> => Len(Lines) \in 1..Len(Lines)
      BY <1>1
    <3>. QED
      BY <1>1, <3>1 DEF Last
  <2>2. Lines # <<>> => Ended(Last(Lines)) \/ Last(Lines) = <<>>
    BY DEF HasNext, Ended, End
  <2>8. /\ buffer = <<>> /\ Len(buffer) = 0 /\ buffer \in Seq(Toks) /\ ~is_eof
    <3>1. Lines # <<>> => Last(Last(Lines)) = "newline"
      BY DEF HasNext
    <3>2. Lines = <<>> => buffer = <<>>
      BY <1>7 DEF Reading
    <3>3. buffer = <<>>
      BY <1>7, <3>1, <3>2, WordLast
    <3>. QED
      BY <3>3, WantingFacts
  <2>3. command = <<>> /\ column = 0 /\ (Lines # <<>> => Alone(Last(Lines)).end = "all")
    <3>1. CASE Lines = <<>>
      BY <1>7, <3>1 DEF Reading
    <3>2. CASE Lines # <<>>
      BY <1>7, <2>2, <2>8, <3>2, LineRead
    <3>. QED
      BY <3>1, <3>2
  <2>4. \A i \in 1..Len(Lines') - 1 : Alone(Lines'[i]).end # "failed"
    <3>1. ASSUME NEW i \in 1..Len(Lines) PROVE Alone(Lines[i]).end # "failed"
      <4>1. CASE i \in 1..Len(Lines) - 1
        BY <1>7, <4>1 DEF Reading
      <4>2. CASE i = Len(Lines)
        <5>1. Lines # <<>>
          BY <1>2, <4>2
        <5>. QED
          BY <2>1, <2>3, <4>2, <5>1
      <4>3. i \in 1..Len(Lines) - 1 \/ i = Len(Lines)
        <5>1. \A n \in Nat : \A j \in 1..n : j \in 1..n - 1 \/ j = n
          OBVIOUS
        <5>. QED
          BY <1>2, <5>1
      <4>. QED
        BY <4>1, <4>2, <4>3
    <3>2. \A i \in 1..Len(Lines') - 1 : i \in 1..Len(Lines)
      BY <1>2
    <3>. QED
      BY <1>2, <3>1, <3>2
  <2>5. Here(line, 0)'
    <3>1. Len(line) \in Nat
      BY <1>1
    <3>2. Left(line, 0)'
      <4>1. /\ \A i \in 1..Len(buffer) : line[0 + i] = buffer[i]
            /\ \A i \in 1..Len(line) : line[0 + Len(buffer) + i] = line[i]
            /\ 0 + Len(buffer) + Len(line) = Len(line)
        <5>1. \A i \in 1..Len(line) : 0 + 0 + i = i
          OBVIOUS
        <5>2. 0 + 0 + Len(line) = Len(line) /\ \A i : i \notin 1..0
          BY <3>1
        <5>. QED
          BY <2>8, <5>1, <5>2
      <4>2. Parts(line, 0, buffer, line)
        BY <4>1 DEF Parts
      <4>3. Parts(line, 0, buffer', unread')
        <5>1. 0 \in Nat
          OBVIOUS
        <5>. QED
          BY <1>1, <2>8, <4>2, <5>1, FilledText
      <4>. QED
        BY <4>3 DEF Left, Parts
    <3>3. Within(line, 0).end = "all" /\ Within(line, 0).last = <<>> /\ Within(line, 0).at = 0
      <4>1. Within(line, 0) = Nothing
        BY <1>1, WithinSteps
      <4>. QED
        BY <4>1 DEF Nothing
    <3>4. 0 < Len(line) => input_len' > 0
      BY <3>1
    <3>5. command' = <<>> /\ column' = 0
      BY <2>3
    <3>. QED
      BY <3>2, <3>3, <3>4, <3>5 DEF Here, Within
  <2>6. \E k \in 0..Len(Last(Lines')) : Here(Last(Lines), k)'
    <3>1. 0 \in 0..Len(line)
      BY <1>1
    <3>2. Here(Last(Lines), 0)'
      BY <1>2, <2>5 DEF Here, Left, Within, Ended
    <3>. QED
      BY <1>2, <3>1, <3>2
  <2>7. ~skipping' /\ ~is_eof'
    BY <1>7, <2>8 DEF Reading
  <2>. QED
    BY <1>2, <2>4, <2>6, <2>7 DEF Reading
<1>. QED
  BY <1>4, <1>5, <1>6, <1>7 DEF EInv

\* Filling flex's buffer moves no column and shows no error.
LEMMA FetchErrors == IInv /\ EInv /\ lexer_get_input => EInv'
<1>1. SUFFICES ASSUME IInv, EInv, lexer_get_input PROVE EInv'
  OBVIOUS
<1>2. /\ Wanting /\ stage = "parse" /\ ~atEnd /\ ~is_eof
      /\ sources \in Seq(SourceType) /\ sources # <<>>
      /\ buffer \in Seq(Toks) /\ unread \in Seq(Toks)
  BY <1>1, WantingFacts DEF lexer_get_input
<1>3. /\ stage' = stage /\ is_eof' = is_eof /\ command' = command /\ skipping' = skipping
      /\ column' = column /\ shown' = shown
  BY <1>1 DEF lexer_get_input
<1>4. CASE unread # <<>> /\ Fill(unread) /\ UNCHANGED <<sources, input_len, atEnd>>
  <2>1. Lines' = Lines /\ Origin' = Origin /\ input_len' = input_len
    BY <1>4 DEF Lines, Origin, Source
  <2>2. ASSUME Reading PROVE Reading'
    <3>1. Lines # <<>>
      BY <1>4, <2>2 DEF Reading
    <3>2. PICK k \in 0..Len(Last(Lines)) : Here(Last(Lines), k)
      BY <1>2, <2>2, <3>1 DEF Reading
    <3>3. Left(Last(Lines), k)'
      <4>1. PICK line : line = Last(Lines)
        OBVIOUS
      <4>2. k \in Nat /\ Left(line, k)
        BY <3>2, <4>1 DEF Here, Left
      <4>3. Left(line, k)'
        BY <1>2, <1>4, <4>2, LeftFilled
      <4>. QED
        BY <2>1, <4>1, <4>3 DEF Left
    <3>4. Here(Last(Lines), k)'
      BY <1>3, <2>1, <3>2, <3>3 DEF Here, Within, Ended
    <3>. QED
      BY <1>3, <2>1, <2>2, <3>1, <3>4 DEF Reading, Alone
  <2>. QED
    BY <1>1, <1>2, <1>3, <2>1, <2>2, SameError DEF EInv
<1>5. ASSUME unread = <<>>, HasNext, NEW line \in Line, input_len' = Len(line), Fill(line),
             sources' = [sources EXCEPT ![Current].lines = Append(@, line)]
      PROVE  EInv'
  <2> DEFINE s == Source
             t == [s EXCEPT !.lines = Append(@, line)]
  <2>1. s \in SourceType /\ s = Last(sources)
    BY <1>2, LastSource DEF Source
  <2>2. line \in Seq(Toks)
    BY <1>1, LineTyped
  <2> HIDE DEF s
  <2>3. t \in SourceType /\ t.from = s.from /\ t.lines = Append(s.lines, line)
    BY <2>1, <2>2, LineAppended
  <2>4. sources' = WithLast(sources, t)
    BY <1>5, <2>1 DEF Last, Current, WithLast
  <2> HIDE DEF t
  <2>5. Source' = t
    BY <1>2, <2>3, <2>4, LastReplaced DEF Source
  <2>6. Lines' = Append(Lines, line) /\ Origin' = Origin
    BY <2>3, <2>5 DEF Lines, Origin, s
  <2>. QED
    BY <1>1, <1>2, <1>3, <1>5, <2>6, AnotherLine
<1>6. CASE input_len' = 0 /\ unread = <<>> /\ UNCHANGED <<sources, buffer, unread>>
  <2>1. Lines' = Lines /\ Origin' = Origin /\ buffer' = buffer /\ unread' = unread
    BY <1>6 DEF Lines, Origin, Source
  <2>2. ASSUME Reading PROVE Reading'
    <3>1. ASSUME Lines # <<>> PROVE \E k \in 0..Len(Last(Lines)) : Here(Last(Lines), k)'
      <4>1. PICK k \in 0..Len(Last(Lines)) : Here(Last(Lines), k)
        BY <1>2, <2>2, <3>1 DEF Reading
      <4>2. k < Len(Last(Lines)) => Last(Last(Lines)) # "newline"
        <5>1. CASE buffer = <<>>
          <6>1. Len(buffer) = 0 /\ Len(unread) = 0
            BY <1>6, <5>1
          <6>2. Len(Last(Lines)) = k
            BY <4>1, <6>1 DEF Here, Left
          <6>. QED
            BY <6>2
        <5>2. CASE buffer # <<>>
          BY <1>1, <1>2, <1>6, <2>2, <3>1, <5>2, WordLast
        <5>. QED
          BY <5>1, <5>2
      <4>3. Here(Last(Lines), k)'
        BY <1>3, <2>1, <4>1, <4>2 DEF Here, Left, Within, Ended
      <4>. QED
        BY <2>1, <4>3
    <3>. QED
      BY <1>3, <2>1, <2>2, <3>1 DEF Reading, Alone
  <2>. QED
    BY <1>1, <1>2, <1>3, <2>1, <2>2, SameError DEF EInv
<1>. QED
  BY <1>1, <1>4, <1>5, <1>6 DEF lexer_get_input

\* Where the lexer says that a token is, if it is what was written.
LEMMA Located ==
  ASSUME NEW tok \in Toks, NEW at \in Scanned(tok), tok # "synonym", column \in Nat
  PROVE  /\ lexer_loc(at) = IF tok = "newline" THEN column + 1 ELSE column + Len(Before(tok))
         /\ tok = "hole" => lexer_loc(at) - Len(Before("hole")) = column
<1>1. /\ Len(Before(tok)) \in Nat /\ Len(Spelled(tok)) \in Nat \ {0}
      /\ tok = "newline" => Len(Before(tok)) = 0 /\ Len(Spelled(tok)) = 1
      /\ tok = "hole" => Len(Before(tok)) = 1
  BY Spellings
<1>2. /\ tok = "newline" =>
           at.column = 0 /\ at.column_newline = column + Len(Before(tok)) + Len(Spelled(tok))
      /\ tok # "newline" => at.column = column + Len(Before(tok)) + Len(Spelled(tok))
      /\ at.len = Len(Spelled(tok))
  BY ScannedIs
<1>3. CASE tok = "newline"
  <2>1. lexer_loc(at) = column + Len(Before(tok)) + Len(Spelled(tok))
    BY <1>2, <1>3 DEF lexer_loc
  <2>2. Len(Before(tok)) = 0 /\ Len(Spelled(tok)) = 1
    BY <1>1, <1>3
  <2>3. lexer_loc(at) = column + 0 + 1
    BY <2>1, <2>2
  <2>. QED
    BY <1>3, <2>3
<1>4. CASE tok # "newline"
  <2>1. /\ at.column = column + Len(Before(tok)) + Len(Spelled(tok)) /\ at.column # 0
        /\ at.column - at.len = column + Len(Before(tok))
    BY <1>1, <1>2, <1>4
  <2>2. lexer_loc(at) = column + Len(Before(tok))
    BY <2>1 DEF lexer_loc
  <2>3. tok = "hole" => (column + Len(Before(tok))) - Len(Before("hole")) = column
    BY <1>1
  <2>. QED
    BY <1>4, <2>2, <2>3
<1>. QED
  BY <1>3, <1>4

\* An error that is printed is in a line, at the column given.
LEMMA Printed ==
  ASSUME NEW c, input_len \in Nat
  PROVE  /\ print_loc(c).line # "none" /\ print_loc(c).column = c
         /\ Origin # "terminal" /\ input_len > 0 /\ c \in 0..Len(Chars(Last(Lines))) =>
              print_loc(c).line = "right"
<1> DEFINE L == print_loc(c).line
<1>1. print_loc(c).column = c
  BY DEF print_loc
<1>2. Origin = "terminal" => L = "typed"
  BY DEF print_loc
<1>3. Origin # "terminal" /\ input_len > 0 =>
        L = IF c \in 0..Len(Chars(Last(Lines))) THEN "right" ELSE "assert"
  BY DEF print_loc
<1>4. Origin # "terminal" /\ input_len = 0 => L # "none"
  BY DEF print_loc
<1>. QED
  BY <1>1, <1>2, <1>3, <1>4

\* How far from the token before it a wrong token is found: a '[' that no command has
\* there is before the size that is the token.
Apart(tok) == IF tok = "hole" /\ (command = <<>> \/ Closed) THEN 0 ELSE Len(Before(tok))

\* Where a token is that is wrong, and where it is shown.
WrongAt(tok) ==
  IF tok \in End /\ IsIllegal THEN column - Len(Spelled("illegal")) ELSE column + Apart(tok)
ShownAt(tok) ==
  IF tok \in End /\ IsIllegal THEN column - Len(Spelled("illegal"))
  ELSE IF tok = "newline" THEN column + 1 ELSE column + Apart(tok)

\* What is heard of a token that is wrong.
LEMMA HeardWrong ==
  ASSUME NEW r, IsHeard(r), r.end = "all", r.last = command, r.at = column,
         column \in Nat, NEW tok, ~Ends(tok), ~GoesOn(tok)
  PROVE  Hear(r, tok).end = "failed" /\ Hear(r, tok).by = tok /\ Hear(r, tok).at = WrongAt(tok)
<1>1. /\ LastIs(r, {"illegal"}) <=> IsIllegal
      /\ TakesNoMore(r) <=> Closed
      /\ ~ (tok \in End /\ ~LastIs(r, {"half", "illegal"})) /\ ~Continues(r, tok)
  BY SameCommand
<1>2. "hole" \notin End /\ column + 0 = column
  BY DEF End
<1>. QED
  BY <1>1, <1>2, HearFailed DEF WrongAt, Apart

\* A token that is wrong in the last line, with nothing wrong before it: unless it is
\* a synonym the error is shown at the token, or at the end of the line, or at the '[',
\* or at the type that is illegal.
LEMMA TokenWrong ==
  ASSUME IInv, EInv, Reading, Lines # <<>>, NEW k \in 0..Len(Last(Lines)) - 1,
         Here(Last(Lines), k), NEW tok, tok = Last(Lines)[k + 1],
         ~Ends(tok), ~GoesOn(tok), NEW c, tok # "synonym" => c = ShownAt(tok)
  PROVE  InFirst(Lines, print_loc(c))
<1> DEFINE line == Last(Lines)
           r == Within(line, k)
           w == WrongAt(tok)
<1>1. /\ Lines \in Seq(Seq(Toks)) /\ Len(Lines) \in 1..Len(Lines) /\ DOMAIN Lines = 1..Len(Lines)
      /\ line \in Seq(Toks) /\ line = Lines[Len(Lines)] /\ Len(line) \in Nat
  <2>1. Lines \in Seq(Seq(Toks))
    BY LinesTyped
  <2>2. Len(Lines) \in 1..Len(Lines) /\ DOMAIN Lines = 1..Len(Lines)
    BY <2>1
  <2>. QED
    BY <2>1, <2>2 DEF Last
<1>2. \A i \in 1..Len(Lines) - 1 : Alone(Lines[i]).end # "failed"
  BY DEF Reading
<1>3. Here(line, k) /\ tok = line[k + 1] /\ k \in 0..Len(line) - 1
  OBVIOUS
<1>4. NewlineLast(Lines, Origin) /\ input_len \in Nat
  BY DEF EInv, IInv, Typed
<1> HIDE DEF line
<1>5. /\ k \in Nat /\ k < Len(line) /\ k # Len(line) /\ k \in 0..Len(line) /\ k + 1 \in 1..Len(line)
      /\ k \in 0..Len(line) + 1 /\ k + 1 \in 0..Len(line) + 1
  BY <1>1, <1>3
<1>6. tok \in Toks /\ line # <<>>
  BY <1>1, <1>3, <1>5
<1>7. /\ r.end = "all" /\ r.last = command /\ column = r.at
      /\ Last(line) = "newline" => input_len > 0
  BY <1>3, <1>5 DEF Here
<1>8. IsHeard(r) /\ Within(line, k + 1) = Hear(r, tok)
  BY <1>1, <1>3, <1>5, WithinSteps
<1>9. /\ column \in Nat /\ column + Len(Shows(tok)) <= Len(Chars(line))
      /\ k + 1 = Len(line) => column + Len(Shows(tok)) = Len(Chars(line))
  BY <1>1, <1>3, <1>5, <1>7, Columns
<1>10. /\ Len(Before(tok)) \in Nat /\ Len(Spelled(tok)) \in Nat \ {0}
       /\ Len(Shows(tok)) = Len(Before(tok)) + Len(Spelled(tok))
       /\ tok = "newline" => Len(Before(tok)) = 0 /\ Len(Spelled(tok)) = 1
  BY <1>6, Spellings
<1>11. /\ Apart(tok) \in Nat /\ Apart(tok) <= Len(Before(tok))
       /\ tok = "newline" => Apart(tok) = 0
  BY <1>10 DEF Apart
<1>12. Hear(r, tok).end = "failed" /\ Hear(r, tok).by = tok /\ Hear(r, tok).at = w
  BY <1>7, <1>8, <1>9, HeardWrong
<1>13. Alone(line).end = "failed" /\ Alone(line).by = tok /\ Alone(line).at = w
  <2>1. Within(line, k + 1).end # "all"
    BY <1>8, <1>12
  <2>2. Alone(line) = Within(line, k + 1)
    BY <1>1, <1>5, <2>1, WithinSteps
  <2>. QED
    BY <1>8, <1>12, <2>2
<1>14. tok = "newline" => k + 1 = Len(line)
  BY <1>1, <1>3, <1>4, <1>5 DEF NewlineLast
<1>15. Len(Chars(line)) \in Int
  <2>1. PICK f : Chars(line) = f[Len(line)] /\ \A n \in 1..Len(line) : f[n] \in Seq(Char)
    BY <1>1, <1>6, CharsSteps
  <2>2. Len(line) \in 1..Len(line)
    BY <1>1, <1>5
  <2>. QED
    BY <2>1, <2>2
<1>16. w \in Nat /\ w < Len(Chars(line))
  <2>1. CASE tok \in End /\ IsIllegal
    <3>1. LastIs(r, {"illegal"})
      BY <1>7, <2>1, SameCommand
    <3>2. r.at - Len(Spelled("illegal")) \in Nat
      BY <1>1, <1>5, <1>7, <3>1, IllegalBehind
    <3>3. Len(Spelled("illegal")) \in Nat
      BY Spellings DEF Toks, Token, Words
    <3>4. w = column - Len(Spelled("illegal"))
      BY <2>1 DEF WrongAt
    <3> HIDE DEF r, w
    <3>. QED
      BY <1>7, <1>9, <1>10, <1>15, <3>2, <3>3, <3>4
  <2>2. CASE ~ (tok \in End /\ IsIllegal)
    <3>1. w = column + Apart(tok)
      BY <2>2 DEF WrongAt
    <3> HIDE DEF r, w
    <3>. QED
      BY <1>9, <1>10, <1>11, <1>15, <3>1
  <2>. QED
    BY <2>1, <2>2
<1> HIDE DEF r
<1>17. ASSUME tok # "synonym"
       PROVE  \/ c = w
              \/ tok = "newline" /\ w = Len(Chars(line)) - 1 /\ c = Len(Chars(line))
  <2>1. CASE (tok \in End /\ IsIllegal) \/ tok # "newline"
    BY <1>17, <2>1 DEF ShownAt, WrongAt
  <2>2. CASE ~ (tok \in End /\ IsIllegal) /\ tok = "newline"
    <3>1. c = column + 1 /\ w = column + Apart(tok)
      BY <1>17, <2>2 DEF ShownAt, WrongAt
    <3>2. Apart(tok) = 0 /\ column + Len(Shows(tok)) = Len(Chars(line))
      BY <1>9, <1>11, <1>14, <2>2
    <3>3. Len(Shows(tok)) = 0 + 1
      BY <1>10, <2>2
    <3>4. w = column /\ Len(Chars(line)) = column + 1
      BY <1>9, <3>1, <3>2, <3>3
    <3> HIDE DEF w
    <3>. QED
      BY <1>9, <2>2, <3>1, <3>4
  <2>. QED
    BY <2>1, <2>2
<1>18. print_loc(c).column = c
  BY <1>4, Printed
<1> HIDE DEF w
<1>19. Pointed(line, print_loc(c))
  <2>1. CASE tok = "synonym"
    BY <1>13, <2>1 DEF Pointed
  <2>2. CASE tok # "synonym" /\ Last(line) = "newline"
    <3>1. Origin # "terminal"
      <4>1. Len(line) \in 1..Len(line) /\ line[Len(line)] = "newline"
        BY <1>1, <1>5, <2>2 DEF Last
      <4>. QED
        BY <1>1, <1>4, <4>1 DEF NewlineLast
    <3>2. c = w \/ (w = Len(Chars(line)) - 1 /\ c = Len(Chars(line)))
      BY <1>17, <2>2
    <3>3. c \in 0..Len(Chars(line))
      BY <1>15, <1>16, <3>2
    <3>4. print_loc(c).line = "right"
      BY <1>4, <1>7, <2>2, <3>1, <3>3, Printed DEF line
    <3>. QED
      BY <1>6, <1>13, <1>16, <1>18, <2>2, <3>2, <3>4 DEF Pointed
  <2>3. CASE tok # "synonym" /\ Last(line) # "newline"
    <3>1. tok # "newline"
      BY <1>3, <1>14, <2>3 DEF Last
    <3>2. c = w
      BY <1>17, <2>3, <3>1
    <3>. QED
      BY <1>13, <1>16, <1>18, <2>3, <3>2 DEF Pointed
  <2>. QED
    BY <2>1, <2>2, <2>3
<1>. QED
  BY <1>1, <1>2, <1>13, <1>19 DEF InFirst

\* What the buffers have after the token.
LeftAfter(line, k) ==
  /\ Len(line) = k + Len(buffer') + Len(unread)
  /\ \A i \in 1..Len(buffer') : line[k + i] = buffer'[i]
  /\ \A i \in 1..Len(unread) : line[k + Len(buffer') + i] = unread[i]

\* Taking a token from the buffer leaves the rest of the line behind it.
LEMMA LeftNext ==
  ASSUME NEW line, NEW k \in Nat, Left(line, k), buffer \in Seq(Toks), buffer # <<>>,
         unread \in Seq(Toks), buffer' = Tail(buffer)
  PROVE  /\ LeftAfter(line, k + 1)
         /\ k + 1 \in 0..Len(line) /\ k < Len(line) /\ line[k + 1] = buffer[1]
         /\ k + 1 = Len(line) => buffer' = <<>>
<1>1. /\ Tail(buffer) \in Seq(Toks) /\ Len(buffer) \in Nat \ {0}
      /\ Len(Tail(buffer)) = Len(buffer) - 1 /\ Len(unread) \in Nat
      /\ \A i \in 1..Len(buffer) - 1 : Tail(buffer)[i] = buffer[i + 1]
      /\ Len(Tail(buffer)) = 0 => Tail(buffer) = <<>>
  OBVIOUS
<1>2. /\ Len(line) = k + Len(buffer) + Len(unread)
      /\ \A i \in 1..Len(buffer) : line[k + i] = buffer[i]
      /\ \A i \in 1..Len(unread) : line[k + Len(buffer) + i] = unread[i]
  BY DEF Left
<1>3. Len(line) = (k + 1) + Len(buffer') + Len(unread)
  BY <1>1, <1>2
<1>4. ASSUME NEW i \in 1..Len(buffer') PROVE line[(k + 1) + i] = buffer'[i]
  <2>1. i + 1 \in 1..Len(buffer) /\ k + (i + 1) = (k + 1) + i /\ i \in 1..Len(buffer) - 1
    BY <1>1
  <2>. QED
    BY <1>1, <1>2, <2>1
<1>5. ASSUME NEW i \in 1..Len(unread) PROVE line[(k + 1) + Len(buffer') + i] = unread[i]
  <2>1. (k + 1) + Len(buffer') + i = k + Len(buffer) + i
    BY <1>1
  <2>. QED
    BY <1>2, <2>1
<1>6. k + 1 \in 0..Len(line) /\ k < Len(line) /\ line[k + 1] = buffer[1]
  <2>1. 1 \in 1..Len(buffer)
    BY <1>1
  <2>. QED
    BY <1>1, <1>2, <2>1
<1>7. k + 1 = Len(line) => buffer' = <<>>
  <2>1. k + 1 = Len(line) => Len(Tail(buffer)) = 0
    BY <1>1, <1>2
  <2>. QED
    BY <1>1, <2>1
<1>. QED
  BY <1>3, <1>4, <1>5, <1>6, <1>7 DEF LeftAfter

\* The lines are what they were when a command is executed.
LEMMA CompleteLines ==
  ASSUME IInv, stage = "parse", NEW at, Complete(at)
  PROVE  Lines' = Lines /\ Origin' = Origin
<1> DEFINE s == Source
           t == [s EXCEPT !.executed = Append(@, command)]
<1>1. sources \in Seq(SourceType) /\ sources # <<>> /\ command \in Seq(Token)
  BY DEF IInv, Typed, OriginInv
<1>2. s \in SourceType /\ s = Last(sources)
  BY <1>1, LastSource DEF Source
<1>3. CASE command = <<>>
  BY <1>3 DEF Complete, Lines, Origin, Source
<1>4. CASE command # <<>>
  <2> HIDE DEF s
  <2>1. t \in SourceType /\ t.from = s.from /\ t.lines = s.lines
    <3>1. s = [from |-> s.from, lines |-> s.lines, executed |-> s.executed]
      BY <1>2 DEF SourceType
    <3>2. t = [from |-> s.from, lines |-> s.lines, executed |-> Append(s.executed, command)]
      BY <3>1
    <3>3. Append(s.executed, command) \in Seq(Seq(Token))
      BY <1>1, <1>2 DEF SourceType
    <3>4. s.from \in Origins /\ s.lines \in Seq(Seq(Toks))
      BY <1>2 DEF SourceType
    <3>. QED
      BY <3>2, <3>3, <3>4 DEF SourceType
  <2>2. sources' = WithLast(sources, t)
    BY <1>2, <1>4 DEF Complete, Last, Current, WithLast
  <2> HIDE DEF t
  <2>3. Source' = t
    BY <1>1, <2>1, <2>2, LastReplaced DEF Source
  <2>. QED
    BY <2>1, <2>3 DEF Lines, Origin, s
<1>. QED
  BY <1>3, <1>4

\* The parser takes a token that the lexer has scanned.
LEMMA TokenErrors == IInv /\ EInv /\ yylex => EInv'
<1>1. SUFFICES ASSUME IInv, EInv, yylex PROVE EInv'
  OBVIOUS
<1> DEFINE tok == buffer[1]
           line == Last(Lines)
<1>0. PICK at \in Scanned(Head(buffer)) : Take(at)
  BY <1>1 DEF yylex
<1>2. /\ stage = "parse" /\ buffer # <<>> /\ buffer' = Tail(buffer) /\ Take(at)
      /\ at \in Scanned(tok)
      /\ ~is_eof /\ input_len \in Nat /\ unread \in Seq(Toks) /\ buffer \in Seq(Toks)
      /\ Lines \in Seq(Seq(Toks)) /\ NewlineLast(Lines, Origin)
  <2>1. Head(buffer) = buffer[1] /\ buffer \in Seq(Toks) /\ unread \in Seq(Toks)
    BY <1>1 DEF yylex, IInv, Typed
  <2>2. Lines \in Seq(Seq(Toks))
    BY <1>1, LinesTyped
  <2>. QED
    BY <1>0, <1>1, <2>1, <2>2 DEF yylex, IInv, Typed, TypeOK, EInv
<1>3. /\ tok \in Toks /\ Tail(buffer) \in Seq(Toks) /\ Len(buffer) \in Nat \ {0}
      /\ Len(Tail(buffer)) = Len(buffer) - 1 /\ Len(unread) \in Nat
      /\ \A i \in 1..Len(buffer) - 1 : Tail(buffer)[i] = buffer[i + 1]
  BY <1>2
<1>4. /\ at.token = tok /\ at.eof = is_eof
      /\ tok # "newline" => at.column = column + Len(Before(tok)) + Len(Spelled(tok))
  BY <1>2, ScannedIs
<1> HIDE DEF tok
<1>5. CASE skipping
  <2>1. CASE SkipEnds(at)
    BY <1>1, <2>1, SameOver DEF SkipEnds, Return, exit
  <2>2. CASE Skipped(at)
    <3>1. Lines' = Lines /\ Origin' = Origin
      BY <2>2 DEF Skipped, Lines, Origin, Source
    <3>. QED
      BY <1>1, <1>2, <1>5, <2>2, <3>1, SameError DEF Skipped, EInv, Reading
  <2>. QED
    BY <1>2, <1>5, <2>1, <2>2 DEF Take
<1>6. CASE ~skipping
  <2>1. shown.line = "none" /\ (Singles(Lines) => Reading)
    BY <1>1, <1>2, <1>6 DEF EInv
  <2>2. ASSUME Singles(Lines)
        PROVE  /\ Lines # <<>> /\ line \in Seq(Toks) /\ Single(line)
               /\ \A j \in 1..Len(line) : line[j] = "newline" => j = Len(line)
               /\ \E k \in 0..Len(line) - 1 : Here(line, k) /\ line[k + 1] = tok
    <3>1. Lines # <<>>
      BY <1>2, <2>1, <2>2 DEF Reading
    <3>2. Len(Lines) \in 1..Len(Lines) /\ Len(Lines) \in DOMAIN Lines
      BY <1>2, <3>1
    <3>3. line \in Seq(Toks) /\ Single(line) /\ Len(line) \in Nat
      BY <1>2, <2>2, <3>2 DEF Last, Singles
    <3>4. \A j \in 1..Len(line) : line[j] = "newline" => j = Len(line)
      BY <1>2, <3>2 DEF NewlineLast, Last
    <3>5. PICK k \in 0..Len(line) : Here(line, k)
      BY <1>2, <2>1, <2>2, <3>1 DEF Reading
    <3> HIDE DEF line
    <3>6. k < Len(line) /\ line[k + 1] = tok
      BY <1>2, <3>3, <3>5, LeftNext DEF Here, tok
    <3>7. k \in 0..Len(line) - 1
      BY <3>3, <3>6
    <3>. QED
      BY <3>1, <3>3, <3>4, <3>5, <3>6, <3>7
  <2>3. CASE GoesOn(tok) /\ Word(at)
    <3>1. /\ Lines' = Lines /\ Origin' = Origin /\ shown' = shown /\ skipping' = skipping
          /\ stage' = stage /\ command' = Append(command, tok) /\ is_eof' = is_eof
          /\ column' = column + Len(Before(tok)) + Len(Spelled(tok))
          /\ unread' = unread /\ input_len' = input_len
          /\ tok \in Words /\ tok \notin End /\ tok # "newline"
      <4>1. tok \in Words /\ tok \notin End /\ tok # "newline"
        BY <2>3 DEF GoesOn, Words, End
      <4>. QED
        BY <1>4, <2>3, <4>1 DEF Word, Resume, Lines, Origin, Source
    <3>2. ASSUME Singles(Lines) PROVE Reading'
      <4>1. PICK k \in 0..Len(line) - 1 : Here(line, k) /\ line[k + 1] = tok
        BY <2>2, <3>2
      <4>2. PICK l : l = line
        OBVIOUS
      <4>3. /\ l \in Seq(Toks) /\ Len(l) \in Nat /\ k \in 0..Len(l) - 1 /\ Here(l, k)
            /\ l[k + 1] = tok
        BY <2>2, <3>2, <4>1, <4>2
      <4>4. /\ k \in Nat /\ k < Len(l) /\ k # Len(l) /\ k + 1 \in 0..Len(l)
            /\ k \in 0..Len(l) + 1
        BY <4>3
      <4>5. /\ Within(l, k).end = "all" /\ Within(l, k).last = command
            /\ Within(l, k).at = column /\ Left(l, k)
            /\ Last(l) = "newline" => input_len > 0
        BY <4>3, <4>4 DEF Here
      <4>6. Within(l, k + 1) = Hear(Within(l, k), tok) /\ IsHeard(Within(l, k))
        BY <4>3, <4>4, WithinSteps
      <4>7. Within(l, k + 1).end = "all" /\ Within(l, k + 1).last = command'
        BY <2>3, <3>1, <4>5, <4>6, HearWord, SameCommand
      <4>8. Within(l, k + 1).at = column'
        <5>1. Within(l, k + 1).at = Passed(Within(l, k), tok)
          BY <4>5, <4>6, <4>7, HearPassed
        <5>. QED
          BY <3>1, <4>5, <5>1 DEF Passed
      <4>9. Left(l, k + 1)'
        <5>1. LeftAfter(l, k + 1)
          BY <1>2, <4>4, <4>5, LeftNext
        <5>. QED
          BY <3>1, <5>1 DEF Left, LeftAfter
      <4>10. ~ (k + 1 = Len(l) /\ Ended(l))
        BY <3>1, <4>3 DEF Ended, Last
      <4>11. Here(l, k + 1)'
        BY <3>1, <4>5, <4>7, <4>8, <4>9, <4>10 DEF Here, Within, Ended
      <4>12. l = Last(Lines')
        BY <3>1, <4>2
      <4>13. Here(Last(Lines), k + 1)'
        BY <4>11, <4>12 DEF Here, Left, Within, Ended
      <4>14. Lines' # <<>> /\ ~is_eof' /\ ~skipping' /\ k + 1 \in 0..Len(Last(Lines'))
        BY <1>2, <1>6, <2>2, <3>1, <3>2, <4>4, <4>12
      <4>15. \A i \in 1..Len(Lines') - 1 : Alone(Lines'[i]).end # "failed"
        BY <2>1, <3>1, <3>2 DEF Reading
      <4>. QED
        BY <4>13, <4>14, <4>15 DEF Reading, Alone
    <3>. QED
      BY <1>1, <1>2, <3>1, <3>2, SameError
  <2>4. CASE Ends(tok) /\ Complete(at)
    <3>1. /\ Lines' = Lines /\ Origin' = Origin /\ shown' = shown /\ skipping' = skipping
          /\ command' = <<>>
      BY <1>1, <1>2, <2>4, CompleteLines DEF Complete
    <3>2. CASE command = <<"quit">>
      BY <1>1, <2>4, <3>1, <3>2, SameError DEF Complete, exit
    <3>3. CASE command # <<"quit">>
      <4>1. /\ stage' = stage /\ ~is_eof' /\ unread' = <<>> /\ column' = 0
        <5>1. lexer_reset(FALSE, at) /\ stage' = stage
          BY <2>4, <3>3 DEF Complete
        <5>2. ~at.eof
          BY <1>2, <1>4
        <5>. QED
          BY <5>1, <5>2 DEF lexer_reset
      <4>2. ASSUME Singles(Lines) PROVE Reading'
        <5>1. PICK k \in 0..Len(line) - 1 : Here(line, k) /\ line[k + 1] = tok
          BY <2>2, <4>2
        <5>2. PICK l : l = line
          OBVIOUS
        <5>3. /\ l \in Seq(Toks) /\ Len(l) \in Nat /\ k \in 0..Len(l) - 1 /\ Here(l, k)
              /\ l[k + 1] = tok /\ Single(l)
              /\ \A j \in 1..Len(l) : l[j] = "newline" => j = Len(l)
          BY <2>2, <4>2, <5>1, <5>2
        <5>4. /\ k \in Nat /\ k < Len(l) /\ k # Len(l) /\ k + 1 \in 1..Len(l)
              /\ k \in 0..Len(l) + 1
          BY <5>3
        <5>5. tok \in End
          BY <2>4 DEF Ends
        <5>6. k + 1 = Len(l)
          <6>1. CASE tok = "newline"
            BY <5>3, <5>4, <6>1
          <6>2. CASE tok = "semicolon"
            <7>1. k + 1 \notin 1..Len(l) - 1
              BY <5>3, <6>2 DEF Single
            <7>. QED
              BY <5>3, <5>4, <7>1
          <6>. QED
            BY <5>5, <6>1, <6>2 DEF End
        <5>7. /\ Within(l, k).end = "all" /\ Within(l, k).last = command /\ Left(l, k)
          BY <5>3, <5>4 DEF Here
        <5>8. Within(l, k + 1) = Hear(Within(l, k), tok) /\ IsHeard(Within(l, k))
          BY <5>3, <5>4, WithinSteps
        <5>9. Within(l, k + 1).end = "all" /\ Within(l, k + 1).last = <<>>
          <6>1. ~LastIs(Within(l, k), {"half", "illegal"})
            BY <2>4, <5>7, SameCommand
          <6>2. /\ Within(l, k + 1).last = <<>>
                /\ command = <<>> => Within(l, k + 1).end = "all"
                /\ command # <<>> =>
                     Within(l, k + 1).end = IF command = <<"quit">> THEN "quit" ELSE "all"
            BY <5>5, <5>7, <5>8, <6>1, HearEnd
          <6>. QED
            BY <3>3, <6>2
        <5>10. buffer' = <<>> /\ Len(l) = (k + 1) + 0 + 0
          <6>1. buffer' = <<>>
            BY <1>2, <5>3, <5>4, <5>6, <5>7, LeftNext
          <6>. QED
            BY <5>3, <5>4, <5>6, <6>1
        <5>11. Left(l, k + 1)'
          <6>1. Len(<<>>) = 0
            OBVIOUS
          <6>. QED
            BY <4>1, <5>10, <6>1 DEF Left
        <5>12. Ended(l) /\ ~ (k + 1 < Len(l))
          BY <5>3, <5>4, <5>5, <5>6 DEF Ended, Last
        <5>13. Here(l, k + 1)'
          BY <3>1, <4>1, <5>6, <5>9, <5>11, <5>12 DEF Here, Within, Ended
        <5>14. l = Last(Lines')
          BY <3>1, <5>2
        <5>15. Here(Last(Lines), k + 1)'
          BY <5>13, <5>14 DEF Here, Left, Within, Ended
        <5>16. Lines' # <<>> /\ ~is_eof' /\ ~skipping' /\ k + 1 \in 0..Len(Last(Lines'))
          BY <1>2, <1>6, <2>2, <3>1, <4>1, <4>2, <5>4, <5>14
        <5>17. \A i \in 1..Len(Lines') - 1 : Alone(Lines'[i]).end # "failed"
          BY <2>1, <3>1, <4>2 DEF Reading
        <5>. QED
          BY <5>15, <5>16, <5>17 DEF Reading, Alone
      <4>. QED
        BY <1>1, <1>2, <3>1, <4>1, <4>2, SameError
    <3>. QED
      BY <3>2, <3>3
  <2>5. ASSUME ~Ends(tok), ~GoesOn(tok), NEW c, shown' = print_loc(c), sources' = sources,
               stage' = "parse" => skipping',
               Singles(Lines) /\ tok # "synonym" => c = ShownAt(tok)
        PROVE  EInv'
    <3>1. shown'.line # "none"
      BY <1>2, <2>5, Printed
    <3>2. Singles(Lines) => InFirst(Lines, shown')
      <4>1. ASSUME Singles(Lines) PROVE InFirst(Lines, print_loc(c))
        <5>1. Lines # <<>> /\ Reading
          BY <2>1, <2>2, <4>1
        <5>2. PICK k \in 0..Len(line) - 1 : Here(line, k) /\ line[k + 1] = tok
          BY <2>2, <4>1
        <5>. QED
          BY <1>1, <2>5, <4>1, <5>1, <5>2, TokenWrong
      <4>. QED
        BY <2>5, <4>1
    <3>. QED
      BY <1>1, <2>5, <3>1, <3>2, NewError
  <2>6. Singles(Lines) => column \in Nat
    <3>1. SUFFICES ASSUME Singles(Lines) PROVE column \in Nat
      OBVIOUS
    <3>2. PICK k \in 0..Len(line) - 1 : Here(line, k) /\ line[k + 1] = tok
      BY <2>2, <3>1
    <3>3. line \in Seq(Toks)
      BY <2>2, <3>1
    <3> HIDE DEF line
    <3>4. k \in 0..Len(line) /\ k # Len(line)
      BY <3>3
    <3>5. Within(line, k).end = "all" /\ Within(line, k).at = column
      BY <3>2, <3>4 DEF Here
    <3>. QED
      BY <3>3, <3>4, <3>5, Columns
  <2>7. CASE ~Ends(tok) /\ ~GoesOn(tok) /\ ~Skips(tok) /\ Fail(at)
    <3> DEFINE c == IF tok \in End /\ IsIllegal THEN column - Len(Spelled("illegal"))
                    ELSE IF tok = "hole" THEN lexer_loc(at) - Len(Before("hole"))
                    ELSE lexer_loc(at)
    <3>1. Error(TRUE, at, c)
      BY <1>4, <2>7 DEF Fail
    <3>2. shown' = print_loc(c) /\ sources' = sources /\ stage' # "parse"
      BY <3>1 DEF Error, Return, exit
    <3>3. ASSUME Singles(Lines), tok # "synonym" PROVE c = ShownAt(tok)
      <4>1. tok = "hole" => command = <<>> \/ Closed
        BY <2>7 DEF Skips
      <4>2. column \in Nat /\ column + 0 = column /\ "hole" \notin End
        BY <2>6, <3>3 DEF End
      <4>3. /\ lexer_loc(at) = IF tok = "newline" THEN column + 1 ELSE column + Len(Before(tok))
            /\ tok = "hole" => lexer_loc(at) - Len(Before("hole")) = column
        BY <1>2, <1>3, <3>3, <4>2, Located
      <4>4. CASE tok = "hole"
        BY <4>1, <4>2, <4>3, <4>4 DEF ShownAt, Apart
      <4>5. CASE tok # "hole"
        BY <4>3, <4>5 DEF ShownAt, Apart
      <4>. QED
        BY <4>4, <4>5
    <3> HIDE DEF c
    <3>. QED
      BY <2>5, <2>7, <3>2, <3>3
  <2>8. CASE Skips(tok) /\ Skip(at)
    <3> DEFINE c == lexer_loc(at)
    <3>1. shown' = print_loc(c) /\ sources' = sources /\ skipping'
      BY <2>8 DEF Skip, Error
    <3>2. /\ tok = "hole" /\ command # <<>> /\ ~Closed /\ ~Ends(tok) /\ ~GoesOn(tok)
          /\ tok \notin End
      BY <2>8 DEF Skips, Ends, GoesOn, End
    <3>3. Singles(Lines) => c = ShownAt(tok)
      BY <1>2, <1>3, <2>6, <3>2, Located DEF ShownAt, Apart
    <3> HIDE DEF c
    <3>. QED
      BY <2>5, <3>1, <3>2, <3>3
  <2>. QED
    BY <1>2, <1>4, <1>6, <2>3, <2>4, <2>7, <2>8 DEF Take
<1>. QED
  BY <1>5, <1>6

\* The end of the file, which is the end of a command, and then no token.
LEMMA EndErrors == IInv /\ EInv /\ EndOfFile => EInv'
<1>1. SUFFICES ASSUME IInv, EInv, EndOfFile PROVE EInv'
  OBVIOUS
<1>2. /\ stage = "parse" /\ buffer = <<>> /\ unread = <<>> /\ buffer' = <<>>
      /\ is_eof \in BOOLEAN /\ input_len \in Nat /\ Lines \in Seq(Seq(Toks))
      /\ shown.line # "none" => skipping
      /\ shown.line = "none" /\ Singles(Lines) => Reading
  BY <1>1, LinesTyped DEF EndOfFile, AtEof, IInv, Typed, EInv
<1>3. CASE ~is_eof
  <2> DEFINE at == ScanEof(TRUE)
             line == Last(Lines)
  <2>1. at.token = "newline" /\ at.eof = TRUE /\ lexer_loc(at) = column
    BY DEF ScanEof, Scan, lexer_loc
  <2>2. Take(at)
    BY <1>1, <1>3 DEF EndOfFile
  <2> HIDE DEF at
  <2>3. CASE skipping /\ Skipped(at)
    <3>1. Lines' = Lines /\ Origin' = Origin
      BY <2>3 DEF Skipped, Lines, Origin, Source
    <3>. QED
      BY <1>1, <1>2, <2>3, <3>1, SameError DEF Skipped, Reading
  <2>4. CASE ~skipping /\ Complete(at)
    <3>1. /\ Lines' = Lines /\ Origin' = Origin /\ shown' = shown /\ skipping' = skipping
          /\ command' = <<>>
      BY <1>1, <1>2, <2>4, CompleteLines DEF Complete
    <3>2. CASE command = <<"quit">>
      BY <1>1, <2>4, <3>1, <3>2, SameError DEF Complete, exit
    <3>3. CASE command # <<"quit">>
      <4>1. lexer_reset(FALSE, at) /\ stage' = stage
        BY <2>4, <3>3 DEF Complete
      <4>2. is_eof' = at.eof /\ unread' = <<>> /\ column' = 0
        BY <2>1, <4>1 DEF lexer_reset
      <4>3. Reading => Reading'
        BY <1>2, <2>1, <2>4, <3>1, <4>2 DEF Reading, Alone
      <4>. QED
        BY <1>1, <1>2, <2>4, <3>1, <4>1, <4>3, SameError
    <3>. QED
      BY <3>2, <3>3
  <2>5. CASE ~skipping /\ ~Ends("newline") /\ Fail(at)
    <3> DEFINE c == IF IsIllegal THEN column - Len(Spelled("illegal")) ELSE column
    <3>1. shown' = print_loc(c) /\ sources' = sources /\ stage' # "parse"
      <4>1. "newline" \in End /\ "newline" # "hole"
        BY DEF End
      <4>2. Error(TRUE, at, c)
        BY <2>1, <2>5, <4>1 DEF Fail
      <4>. QED
        BY <4>2 DEF Error, Return, exit
    <3> HIDE DEF c
    <3>2. shown'.line # "none" /\ shown'.column = c
      BY <1>2, <3>1, Printed
    <3>3. command # <<>>
      BY <2>5 DEF Ends, End
    <3>4. ASSUME Singles(Lines) PROVE InFirst(Lines, shown')
      <4>1. Reading
        BY <1>2, <2>5, <3>4
      <4>2. Lines # <<>>
        BY <3>3, <4>1 DEF Reading
      <4>3. line \in Seq(Toks) /\ Here(line, Len(line)) /\ ~Ended(line) /\ line # <<>>
        BY <1>1, <1>2, <1>3, <3>3, <4>1, <4>2, LineRead
      <4>4. Len(Lines) \in DOMAIN Lines /\ line = Lines[Len(Lines)]
        BY <1>2, <4>2 DEF Last
      <4>5. \A i \in 1..Len(Lines) - 1 : Alone(Lines[i]).end # "failed"
        BY <4>1 DEF Reading
      <4> HIDE DEF line
      <4>6. Len(line) \in 0..Len(line) /\ Len(line) \in 0..Len(line) + 1
        BY <4>3
      <4> DEFINE r == Within(line, Len(line))
      <4>7. r.end = "all" /\ r.last = command /\ column = r.at
        BY <4>3 DEF Here
      <4>8. IsHeard(r) /\ Alone(line) = Hear(r, "newline") /\ column \in Nat
        BY <4>3, <4>6, <4>7, WithinSteps, Columns
      <4>9. Len(Before("newline")) = 0
        BY Spellings DEF Toks, End
      <4> HIDE DEF r
      <4>10. /\ Alone(line).end = "failed" /\ Alone(line).by = "newline"
             /\ Alone(line).at = WrongAt("newline")
        <5>1. ~GoesOn("newline")
          BY DEF GoesOn
        <5>. QED
          BY <2>5, <4>7, <4>8, <5>1, HeardWrong
      <4>11. WrongAt("newline") = c /\ c \in Nat
        <5>1. "newline" \in End /\ Apart("newline") = 0 /\ column + 0 = column
          BY <4>8, <4>9 DEF End, Apart
        <5>2. WrongAt("newline") = c
          BY <5>1 DEF WrongAt, c
        <5>3. IsIllegal => column - Len(Spelled("illegal")) \in Nat
          <6>1. IsIllegal => LastIs(r, {"illegal"})
            BY <4>7, SameCommand
          <6>2. LastIs(r, {"illegal"}) => r.at - Len(Spelled("illegal")) \in Nat
            BY <4>3, <4>6, <4>7, IllegalBehind DEF r
          <6>. QED
            BY <4>7, <6>1, <6>2
        <5>. QED
          BY <4>8, <5>2, <5>3 DEF c
      <4>12. Pointed(line, shown')
        <5>1. Last(line) # "newline"
          BY <4>3 DEF Ended, End
        <5>. QED
          BY <3>2, <4>10, <4>11, <5>1 DEF Pointed
      <4>. QED
        BY <4>4, <4>5, <4>10, <4>12 DEF InFirst
    <3>. QED
      BY <1>1, <3>1, <3>2, <3>4, NewError
  <2>. QED
    BY <2>1, <2>2, <2>3, <2>4, <2>5 DEF Take, GoesOn, Skips
<1>4. CASE is_eof
  <2> DEFINE at == ScanEof(FALSE)
  <2>1. EndOfInput
    BY <1>1, <1>4 DEF EndOfFile
  <2>2. CASE ~skipping /\ command # <<>>
    <3>1. PICK c : Error(TRUE, at, c)
      BY <2>1, <2>2 DEF EndOfInput, Fail
    <3>2. shown' = print_loc(c) /\ sources' = sources /\ stage' # "parse"
      BY <3>1 DEF Error, Return, exit
    <3>3. shown'.line # "none"
      BY <1>2, <3>2, Printed
    <3>4. ~Singles(Lines)
      BY <1>2, <1>4, <2>2 DEF Reading
    <3>. QED
      BY <1>1, <3>2, <3>3, <3>4, NewError
  <2>3. CASE ~ (~skipping /\ command # <<>>)
    <3>1. Return(~skipping) /\ sources' = sources /\ shown' = shown
      BY <2>1, <2>3 DEF EndOfInput
    <3>2. stage' # "parse"
      BY <3>1 DEF Return, exit
    <3>. QED
      BY <1>1, <3>1, <3>2, SameOver
  <2>. QED
    BY <2>2, <2>3
<1>. QED
  BY <1>2, <1>3, <1>4

\* The invariant of the errors is about the variables only.
LEMMA StutterErrors == EInv /\ UNCHANGED vars => EInv'
<1>1. SUFFICES ASSUME EInv, UNCHANGED vars PROVE EInv'
  OBVIOUS
<1>2. /\ sources' = sources /\ shown' = shown /\ stage' = stage /\ skipping' = skipping
      /\ unread' = unread /\ buffer' = buffer /\ command' = command /\ column' = column
      /\ is_eof' = is_eof /\ input_len' = input_len
  BY <1>1 DEF vars
<1>3. Lines' = Lines /\ Origin' = Origin
  BY <1>2 DEF Lines, Origin, Source
<1>4. Reading => Reading'
  BY <1>2, <1>3 DEF Reading, Here, Left, Within, Ended, Alone
<1>. QED
  BY <1>1, <1>2, <1>3, <1>4, SameError DEF EInv

\* Each step of the program keeps what is known of the error.
LEMMA NextEInv == IInv /\ EInv /\ [Next]_vars => EInv'
BY SourceErrors, InputErrors, FetchErrors, TokenErrors, EndErrors, StutterErrors
DEF Next, Step, Exited

-----------------------------------------------------------------------------
(* The theorem.                                                            *)

\* An error in the first command of a line is shown in that line and below the token
\* that is wrong, or below the word that makes a type illegal, wherever flex was filled
\* and whatever was executed before; but not at a word that the lexer has a synonym
\* for, whose columns it does not count.
THEOREM ErrorsShown == Spec => []ErrorShown
<1>1. Init => IInv /\ EInv
  BY InitIInv, InitEInv
<1>2. IInv /\ EInv /\ [Next]_vars => (IInv /\ EInv)'
  BY NextIInv, NextEInv
<1>3. IInv /\ EInv => ErrorShown
  BY InvariantShown
<1>. QED
  BY <1>1, <1>2, <1>3, PTL DEF Spec
=============================================================================
