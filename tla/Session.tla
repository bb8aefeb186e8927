------------------------------- MODULE Session -------------------------------
(***************************************************************************)
(* From the text that cdecl is given to the commands that it executes: the *)
(* sources that main reads one after the other (cdecl.c), the input and    *)
(* the end of file of the lexer (lexer.l), the loop of commands and the    *)
(* way out of an error (parser.y), and the line that an error is shown in  *)
(* (diagnostics.c).                                                        *)
(*                                                                         *)
(* A line typed on a terminal may be continued on the next one (util.c).   *)
(* Text is a sequence of tokens.  A command is words up to the end of the  *)
(* line or a semicolon; after the word "half" it is not complete, and with *)
(* the word "illegal", which can only be its last, it has a type that is   *)
(* not legal.  A "synonym" is a word that the lexer has another one for,   *)
(* and that begins no command.  "hole" stands for a '[' and an array size  *)
(* that is wrong, after which the parser skips tokens until a ']', the     *)
(* token "close", which is wrong anywhere else.                            *)
(*                                                                         *)
(* A definition whose name ends in an underscore and a word in capitals is *)
(* another one with a mistake that a property must notice.                 *)
(***************************************************************************)
EXTENDS Diagnostics, SequencesExt

CONSTANTS Capacity,   \* of the buffer that flex reads into, in tokens
          MaxTokens,  \* bound of the model on the tokens of all sources
          MaxSources, \* bound of the model on the sources
          Modes       \* how the program is called, of AllModes

\* With a command as its arguments, with the names of files, on a terminal, or
\* with its standard input redirected.
AllModes == {"argument", "file", "terminal", "stream"}

ASSUME SessionAssumption ==
  /\ Capacity \in Nat \ {0} /\ MaxTokens \in Nat \ 0..1 /\ MaxSources \in Nat \ {0}
  /\ Modes \subseteq AllModes

Words == {"word", "half", "illegal", "synonym", "quit"}
Token == Words \cup {"hole", "close", "semicolon"}
End == {"semicolon", "newline"} \* Y_END

\* The characters of a token, and what is before it: a blank, or the '['.
Spelled(tok) ==
  CASE tok \in {"word", "synonym"} -> <<"alnum", "alnum", "alnum">>
    [] tok \in {"half", "illegal"} -> <<"alnum", "alnum">>
    [] tok = "quit" -> <<"alnum">>
    [] tok = "newline" -> <<"newline">>
    [] OTHER -> <<"punct">>
Before(tok) ==
  CASE tok \in Words -> <<"space">>
    [] tok = "hole" -> <<"punct">>
    [] OTHER -> <<>>
Chars(text) ==
  FlattenSeq([i \in DOMAIN text |-> Before(text[i]) \o Spelled(text[i])])

VARIABLES
  mode,         \* how the program was called
  stage,        \* "main" between two sources, "read" while a line is typed that
                \* is continued, "parse" in yyparse, "exited"
  buf,          \* buf of read_input_line, the text of the last line typed
  joined,       \* whether buf was continued on another line
  ok,           \* ok of parse_stdin on a terminal
  sources,      \* the sources so far: where each is from, the lines that were
                \* read from it, and the commands of it that were executed
  unread,       \* input_buf from input_sent on
  input_len,    \* input_len
  atEnd,        \* whether getline has reached the end of the source
  buffer,       \* what flex has not scanned of its buffer
  is_eof,       \* is_eof
  column,       \* column
  column_newline, \* column_newline
  command,      \* the words of the command being parsed
  skipping,     \* whether bison skips tokens after an error
  command_line, \* the source whose text command_line is, or 0 for NULL
  shown,        \* what the last error was shown with: which line, and the column
                \* that print_caret was given
  status        \* "running", then what the process ends with

vars == <<mode, stage, buf, joined, ok, sources, unread, input_len, atEnd, buffer,
          is_eof, column, column_newline, command, skipping, command_line, shown,
          status>>
lexer == <<unread, input_len, is_eof, column, column_newline>>
notTyping == <<mode, ok, sources, atEnd, buffer, command, skipping, shown, lexer>>

NoError == [line |-> "none", column |-> 0]

NoSource == [from |-> "none", lines |-> <<>>, executed |-> <<>>]
Current == Len(sources)
Source == IF sources = <<>> THEN NoSource ELSE Last(sources)
Origin == Source.from
Lines == Source.lines

\* A string is a line without its end.
IsString(from) == from \in {"builtin", "argument", "terminal"}

\* Bounds of the model: room for a source after this one, and for more of it.
Written ==
  FoldLeft(LAMBDA n, s : n + Len(FlattenSeq(s.lines)), 0, sources)
  + (IF stage = "read" THEN Len(buf) ELSE 0)
Room == MaxTokens - Written - (IF Origin = "conf" THEN 1 ELSE 0)
Another == Current < MaxSources /\ Written < MaxTokens
Text(n) == UNION {[1..k -> Token] : k \in 1..n}

-----------------------------------------------------------------------------
(* The sources, one after the other.                                       *)

Init ==
  /\ mode \in Modes
  /\ stage = "main" /\ buf = <<>> /\ joined = FALSE /\ ok = TRUE /\ sources = <<>>
  /\ unread = <<>> /\ input_len = 0 /\ atEnd = FALSE
  /\ buffer = <<>> /\ is_eof = FALSE /\ column = 0 /\ column_newline = 0
  /\ command = <<>> /\ skipping = FALSE
  /\ command_line = 0 /\ shown = NoError /\ status = "running"

\* yyrestart and the call of yyparse.
yyparse(from) ==
  /\ stage' = "parse"
  /\ sources' = Append(sources, [NoSource EXCEPT !.from = from])
  /\ atEnd' = FALSE /\ buffer' = <<>>
  /\ command' = <<>> /\ skipping' = FALSE /\ shown' = NoError
  /\ UNCHANGED <<mode, ok, status, lexer>>

ReadSoFar(origins) == Origin \in {"none"} \cup origins
AtStart == stage = "main" /\ ReadSoFar({"builtin", "conf"})

\* c_typedef_init, unless with -t.
c_typedef_parse_builtins ==
  /\ stage = "main" /\ ReadSoFar({})
  /\ yyparse("builtin") /\ command_line' = 1 /\ UNCHANGED <<buf, joined>>

\* Unless with -C.
read_conf_file ==
  /\ stage = "main" /\ ReadSoFar({"builtin"})
  /\ yyparse("conf") /\ UNCHANGED <<buf, joined, command_line>>

parse_command_line ==
  /\ mode = "argument" /\ AtStart
  /\ yyparse("argument") /\ command_line' = Len(sources') /\ UNCHANGED <<buf, joined>>

parse_files ==
  /\ stage = "main" /\ mode = "file"
  /\ yyparse("file") /\ UNCHANGED <<buf, joined, command_line>>

\* Redirected input is one source.
parse_stdin ==
  /\ stage = "main" /\ mode = "stream"
  /\ yyparse("stream") /\ UNCHANGED <<buf, joined, command_line>>

exit(s) == stage' = "exited" /\ status' = s
Status(success) == IF success THEN "EX_OK" ELSE "EX_DATAERR"

\* On a terminal every line typed is a string, which may not be empty.
parse_string(line) ==
  /\ buf' = line
  /\ IF line = <<>> THEN exit("aborted") /\ UNCHANGED <<command_line, notTyping>>
     ELSE /\ yyparse("terminal")
          /\ command_line' = IF command_line = 0 THEN Len(sources') ELSE command_line

\* A line is typed: a blank one ends the line that it continues, and is nothing
\* otherwise; one with a '\' is continued (bound of the model: by a token at a
\* time); another one is the last.  The end of input ends the program, and what
\* was to be continued is gone.
read_input_line ==
  LET sofar == IF stage = "read" THEN buf ELSE <<>>
  IN  /\ mode = "terminal" /\ stage \in {"main", "read"}
      /\ joined' = (stage = "read")
      /\ \/ stage = "read" /\ parse_string(sofar)
         \/ \E line \in Text(Room) : Current < MaxSources /\ parse_string(sofar \o line)
         \/ \E line \in Text(Min({1, Room})) \cup {<<>>} :
              /\ Current < MaxSources
              /\ line = <<>> => stage = "main"
              /\ stage' = "read" /\ buf' = sofar \o line
              /\ UNCHANGED <<command_line, status, notTyping>>
         \/ exit(Status(ok)) /\ buf' = <<>> /\ UNCHANGED <<command_line, notTyping>>

\* The next file is read whatever became of this one.
Return_ON(success) ==
  \/ /\ Origin \in {"builtin", "conf"} \/ (Origin = "file" /\ Another)
     /\ stage' = "main" /\ UNCHANGED <<ok, status>>
  \/ /\ Origin = "terminal"
     /\ stage' = "main" /\ ok' = success /\ UNCHANGED status
  \/ /\ Origin \in AllModes \ {"terminal"}
     /\ exit(Status(success)) /\ UNCHANGED ok

\* yyparse returns.  Another line may be typed, and there may be another file;
\* a file that fails is the last one.  What the configuration file returns is
\* ignored.
Return(success) ==
  \/ /\ Origin \in {"builtin", "conf"} \/ (Origin = "file" /\ success /\ Another)
     /\ stage' = "main" /\ UNCHANGED <<ok, status>>
  \/ /\ Origin = "terminal"
     /\ stage' = "main" /\ ok' = success /\ UNCHANGED status
  \/ /\ Origin \in AllModes \ {"terminal"}
     /\ exit(Status(success)) /\ UNCHANGED ok

-----------------------------------------------------------------------------
(* lexer.l.                                                                *)

\* Where the lexer is once it has scanned token, in column c of the line with
\* what is before it, and the length of lexer_token.
Scan(token, len, eof, c, newline) ==
  [token |-> token, len |-> len, eof |-> eof, column |-> c, column_newline |-> newline]

\* The end of the file, which is a newline to the parser at first.
ScanEof(eof) == Scan("newline", 0, eof, 0, column)

\* lexer_token is the synonym, which is shorter or longer than what was scanned.
Lengths(token) ==
  LET len == Len(Spelled(token))
  IN  IF token = "synonym" THEN {len - 1, len + 2} ELSE {len}

\* YY_USER_ACTION counts the characters scanned, newline starts again.
Scanned(token) ==
  LET c == column + Len(Before(token)) + Len(Spelled(token))
  IN  {IF token = "newline" THEN Scan(token, len, is_eof, 0, c)
       ELSE Scan(token, len, is_eof, c, column_newline) : len \in Lengths(token)}

\* The column of lexer_token if it ends where the lexer is, or of the newline.
lexer_loc(at) == IF at.column = 0 THEN at.column_newline ELSE at.column - at.len

\* The rest of the line stays.
lexer_reset_LINE(hard_reset, at) ==
  /\ is_eof' = (at.eof /\ ~hard_reset)
  /\ column' = 0 /\ column_newline' = at.column
  /\ UNCHANGED <<unread, input_len>>

\* The end of file is never forgotten.
lexer_reset_EOF(hard_reset, at) ==
  /\ is_eof' = at.eof
  /\ unread' = <<>> /\ input_len' = 0
  /\ column' = 0 /\ column_newline' = at.column

\* The columns go on.
lexer_reset_COLUMN(hard_reset, at) ==
  /\ is_eof' = (at.eof /\ ~hard_reset)
  /\ unread' = <<>> /\ input_len' = 0
  /\ column' = at.column /\ column_newline' = at.column_newline

lexer_reset(hard_reset, at) ==
  /\ is_eof' = (at.eof /\ ~hard_reset)
  /\ unread' = <<>> /\ input_len' = 0
  /\ column' = 0 /\ column_newline' = at.column

Resume(at) ==
  /\ is_eof' = at.eof /\ column' = at.column /\ column_newline' = at.column_newline
  /\ UNCHANGED <<unread, input_len>>

\* What the next line of the source may be: a string is one line, and the last
\* line of a stream may have no end.
Line ==
  LET Ended(n) == {Append(t, "newline") : t \in {<<>>} \cup Text(n - 1)}
  IN  IF Origin = "builtin" THEN {<<"word">>}
      ELSE IF Origin = "argument" THEN Text(Room)
      ELSE IF Origin = "terminal" THEN {buf}
      ELSE Text(Room) \cup Ended(Room)

HasNext ==
  IF IsString(Origin) THEN Lines = <<>>
  ELSE Room > 0 /\ (Lines # <<>> => Last(Last(Lines)) = "newline")

\* flex asks for text when it has none, or a word that may go on.
Wanting ==
  /\ stage = "parse" /\ ~atEnd
  /\ buffer = <<>> \/ (Len(buffer) = 1 /\ Head(buffer) \in Words)

Fill(text) ==
  /\ buffer' = buffer \o SubSeq(text, 1, Min({Capacity, Len(text)}))
  /\ unread' = SubSeq(text, Capacity + 1, Len(text))

\* The next chunk of the line, the first chunk of another line, or nothing: then
\* the line is empty, also to an error at the word that flex has.
lexer_get_input ==
  /\ Wanting
  /\ \/ unread # <<>> /\ Fill(unread) /\ UNCHANGED <<sources, input_len, atEnd>>
     \/ /\ unread = <<>> /\ HasNext
        /\ \E line \in Line :
             /\ sources' = [sources EXCEPT ![Current].lines = Append(@, line)]
             /\ input_len' = Len(line)
             /\ Fill(line)
        /\ UNCHANGED atEnd
     \/ /\ unread = <<>> /\ (IsString(Origin) => Lines # <<>>)
        /\ input_len' = 0 /\ atEnd' = TRUE
        /\ UNCHANGED <<sources, buffer, unread>>
  /\ UNCHANGED <<mode, stage, buf, joined, ok, is_eof, column, column_newline, command,
                 skipping, command_line, shown, status>>

-----------------------------------------------------------------------------
(* parser.y.                                                               *)

\* print_caret.  On a terminal the line is there already; elsewhere it is the
\* input line, or the command line if that is empty, and the column is in it: one
\* below 0 is unsigned, and behind it.
print_loc(error_column) ==
  LET command_line_len == Len(Chars(sources[command_line].lines[1]))
      line == CASE Origin = "terminal" -> "typed"
                [] Origin # "terminal" /\ input_len > 0 ->
                     IF error_column \in 0..Len(Chars(Last(Lines))) THEN "right" ELSE "assert"
                [] Origin # "terminal" /\ input_len = 0 /\ command_line = 0 -> "assert"
                [] OTHER ->
                     CASE error_column \notin 0..command_line_len -> "assert"
                       [] error_column \in 0..command_line_len /\ command_line = Current -> "right"
                       [] OTHER -> "other"
  IN  [line |-> line, column |-> error_column]

\* An error is printed, and the lexer reset before or after it returns.
Error(hard_reset, at, error_column) ==
  /\ shown' = print_loc(error_column)
  /\ IF shown'.line = "assert" THEN exit("aborted") /\ UNCHANGED <<ok, lexer>>
     ELSE /\ lexer_reset(hard_reset, at)
          /\ IF hard_reset THEN Return(FALSE) ELSE UNCHANGED <<stage, ok, status>>
  /\ UNCHANGED <<sources, command>>

IsIllegal == command # <<>> /\ Last(command) = "illegal"

\* yyerror or ELABORATE_ERROR, and PARSE_ABORT: at a '[' that no command has
\* there, which is before its size, or at another token.  c_ast_check fails at
\* the end of the command: the location is the AST's, here its last word's.
Fail(at) ==
  /\ Error(TRUE, at,
           IF at.token \in End /\ IsIllegal THEN column - Len(Spelled("illegal"))
           ELSE IF at.token = "hole" THEN lexer_loc(at) - Len(Before("hole"))
           ELSE lexer_loc(at))
  /\ UNCHANGED skipping

\* yyerror, then the error production of array_size_c.
Skip(at) == Error(FALSE, at, lexer_loc(at)) /\ skipping' = TRUE

\* The end of a command that is blank, or is executed.
Complete(at) ==
  /\ sources' = IF command = <<>> THEN sources
                ELSE [sources EXCEPT ![Current].executed = Append(@, command)]
  /\ command' = <<>>
  /\ IF command = <<"quit">> THEN exit("EX_OK") /\ UNCHANGED lexer
     ELSE lexer_reset(FALSE, at) /\ UNCHANGED <<stage, status>>
  /\ UNCHANGED <<ok, skipping, shown>>

Skipped(at) ==
  /\ Resume(at)
  /\ UNCHANGED <<stage, ok, sources, command, skipping, shown, status>>

\* ']' ends the skipping, and the parse.
SkipEnds(at) ==
  /\ lexer_reset(TRUE, at) /\ Return(FALSE)
  /\ UNCHANGED <<sources, command, skipping, shown>>

Word(at) ==
  /\ command' = Append(command, at.token)
  /\ Resume(at)
  /\ UNCHANGED <<stage, ok, sources, skipping, shown, status>>

\* quit is a command of its own, and nothing comes after an illegal word.
Closed == command = <<"quit">> \/ IsIllegal
GoesOn(tok) ==
  /\ ~Closed
  /\ \/ tok \in {"word", "half"}
     \/ tok \in {"illegal", "synonym"} /\ command # <<>>
     \/ tok = "quit" /\ command = <<>>
Ends(tok) == tok \in End /\ (command # <<>> => Last(command) \notin {"half", "illegal"})
Skips(tok) == tok = "hole" /\ command # <<>> /\ ~Closed

\* The parser takes the token that the lexer has scanned.
Take(at) ==
  LET tok == at.token
  IN  \/ skipping /\ tok = "close" /\ SkipEnds(at)
      \/ skipping /\ tok # "close" /\ Skipped(at)
      \/ ~skipping /\ Ends(tok) /\ Complete(at)
      \/ ~skipping /\ GoesOn(tok) /\ Word(at)
      \/ ~skipping /\ Skips(tok) /\ Skip(at)
      \/ ~skipping /\ ~Ends(tok) /\ ~GoesOn(tok) /\ ~Skips(tok) /\ Fail(at)

yylex ==
  /\ stage = "parse" /\ buffer # <<>> /\ ~Wanting
  /\ buffer' = Tail(buffer)
  /\ \E at \in Scanned(Head(buffer)) : Take(at)
  /\ UNCHANGED <<mode, buf, joined, atEnd, command_line>>

AtEof == stage = "parse" /\ buffer = <<>> /\ unread = <<>> /\ atEnd

\* It is the end of a command every time.
EndOfFile_COMMAND ==
  /\ AtEof
  /\ Take(ScanEof(TRUE))
  /\ UNCHANGED <<mode, buf, joined, atEnd, buffer, command_line>>

\* yyparse accepts no token between commands; while it skips it gives up.
EndOfInput ==
  LET at == ScanEof(FALSE)
  IN  IF ~skipping /\ command # <<>> THEN Fail(at)
      ELSE Resume(at) /\ Return(~skipping)
           /\ UNCHANGED <<sources, command, skipping, shown>>

\* The rule for <<EOF>>: the first time it is the end of a command, the second
\* time no token.
EndOfFile ==
  /\ AtEof
  /\ IF is_eof THEN EndOfInput ELSE Take(ScanEof(TRUE))
  /\ UNCHANGED <<mode, buf, joined, atEnd, buffer, command_line>>

Exited == stage = "exited" /\ UNCHANGED vars

Step ==
  \/ c_typedef_parse_builtins \/ read_conf_file
  \/ parse_command_line \/ parse_files \/ parse_stdin \/ read_input_line
  \/ lexer_get_input \/ yylex \/ EndOfFile

Next == Step \/ Exited

\* The program runs as long as it can, and its input comes.
Spec == Init /\ [][Next]_vars /\ WF_vars(Step)

-----------------------------------------------------------------------------
(* Properties.                                                             *)

\* What a text says, token by token: its commands up to the first that fails,
\* what is said of another one, and how it ends; at counts the characters up to
\* the token that fails, with what is before it, and by is that token.
Nothing == [done |-> <<>>, last |-> <<>>, end |-> "all", at |-> 0, by |-> "none"]
Passed(r, tok) == r.at + Len(Before(tok)) + Len(Spelled(tok))
Completed(r, tok) ==
  IF r.last = <<>> THEN [r EXCEPT !.at = Passed(r, tok)]
  ELSE [r EXCEPT !.done = Append(@, r.last), !.last = <<>>, !.at = Passed(r, tok),
                 !.end = IF r.last = <<"quit">> THEN "quit" ELSE "all"]
LastIs(r, words) == r.last # <<>> /\ Last(r.last) \in words
TakesNoMore(r) == r.last = <<"quit">> \/ LastIs(r, {"illegal"})
Continues(r, tok) ==
  /\ ~TakesNoMore(r)
  /\ \/ tok \in {"word", "half"}
     \/ tok \in {"illegal", "synonym"} /\ r.last # <<>>
     \/ tok = "quit" /\ r.last = <<>>
Failed(r, tok) ==
  [r EXCEPT !.end = "failed", !.by = tok,
            !.at = IF tok \in End /\ LastIs(r, {"illegal"})
                   THEN @ - Len(Spelled("illegal"))
                   ELSE IF tok = "hole" /\ (r.last = <<>> \/ TakesNoMore(r)) THEN @
                   ELSE @ + Len(Before(tok))]
Hear(r, tok) ==
  IF r.end # "all" THEN r
  ELSE IF tok \in End /\ ~LastIs(r, {"half", "illegal"}) THEN Completed(r, tok)
  ELSE IF Continues(r, tok) THEN [r EXCEPT !.last = Append(@, tok), !.at = Passed(r, tok)]
  ELSE Failed(r, tok)

Hearing(text) ==
  LET After[n \in 0..Len(text)] ==
        IF n = 0 THEN Nothing ELSE Hear(After[n - 1], text[n])
  IN  After

\* What a source says, all of it; a command ends with its last line at the latest.
Heard(s) == Append(FlattenSeq(s.lines), "newline")
Say(s) == Hearing(Heard(s))[Len(Heard(s))]

\* A line that fits in flex's buffer or is a single command.
Single(line) == \A i \in 1..Len(line) - 1 : line[i] # "semicolon"
Fits(s) == \A i \in DOMAIN s.lines : Single(s.lines[i]) \/ Len(s.lines[i]) <= Capacity

Finished(i) ==
  i < Current \/ stage \in {"main", "read"} \/ status \in {"EX_OK", "EX_DATAERR"}

\* Nothing is read from a source that has ended.
TypeOK ==
  /\ mode \in Modes /\ stage \in {"main", "read", "parse", "exited"}
  /\ status \in {"running", "EX_OK", "EX_DATAERR", "aborted"}
  /\ (status = "running") = (stage # "exited")
  /\ atEnd => unread = <<>> /\ \A i \in DOMAIN buffer : i = 1 /\ buffer[i] \in Words
  /\ is_eof => atEnd /\ buffer = <<>>
  /\ Len(unread) <= input_len
  /\ stage \in {"main", "read"} =>
       ~is_eof /\ unread = <<>> /\ input_len = 0 /\ column = 0
  /\ command_line \in 0..Current

Executed(i) ==
  LET said == Say(sources[i]).done
  IN  IF Finished(i) THEN sources[i].executed = said
      ELSE IsPrefix(sources[i].executed, said)

\* The commands of a source are executed in order, each once and whole, up to the
\* first that fails, however lines, buffers and ends of files divide them and
\* whatever errors there were in the sources before.
InOrder == \A i \in DOMAIN sources : Fits(sources[i]) => Executed(i)

\* The exit status tells whether the last source has failed, and that no file
\* was read after one that had.
StatusRight ==
  status \in {"EX_OK", "EX_DATAERR"} /\ (\A i \in DOMAIN sources : Fits(sources[i])) =>
    /\ status = "EX_DATAERR" <=> Origin \in AllModes /\ Say(Source).end = "failed"
    /\ \A i \in 1..Current - 1 :
         sources[i].from = "file" => Say(sources[i]).end # "failed"

\* What a line says by itself.
Alone(line) == Say([NoSource EXCEPT !.lines = <<line>>])

\* The token in column c is where the dots are put although nothing is cut off on
\* the left, or one column behind the last that is printed.
UnderDots(line, c) ==
  /\ Len(line) > TermColumns
  /\ c >= TermColumns - 1 - MORE_LEN
  /\ c + token_len(line, c) <= TermColumns

\* The token in column c is past the edge, and so long that what is cut off on the
\* left leaves no room for the dots before it.
NoRoom(line, c) ==
  LET end == c + token_len(line, c)
  IN  /\ end > TermColumns
      /\ token_len(line, c) + MORE_LEN + (IF end < Len(line) - 1 THEN MORE_LEN ELSE 0)
           >= TermColumns

\* An error in the first command of a line is shown in that line if the line has
\* an end, and the '^' is below the token that is wrong, or below the word that
\* makes the type illegal: unless that token is a word with a synonym, whose
\* length the lexer takes; on a terminal if it was typed in one line, elsewhere
\* unless the token comes under the dots or is as long as the terminal is wide,
\* but for the dots.
ErrorShown ==
  LET first == Min({i \in DOMAIN Lines : Alone(Lines[i]).end = "failed"})
      line == Lines[first]
      wrong == Alone(line).at
  IN  shown.line # "none" /\ (\A i \in DOMAIN Lines : Single(Lines[i])) =>
        \/ Alone(line).by = "synonym"
        \/ IF Origin = "terminal"
           THEN ~joined =>
                  print_caret_typed(shown.column) = (PROMPT_LEN + wrong) % TermColumns
           ELSE Last(line) = "newline" =>
                  /\ shown.line = "right"
                  /\ \/ UnderDots(Chars(line), wrong) \/ NoRoom(Chars(line), wrong)
                     \/ print_caret(Chars(line), shown.column) = wrong

\* The end of the input is the end of the program.
Terminates == <>(stage = "exited")
=============================================================================
