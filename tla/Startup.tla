------------------------------- MODULE Startup -------------------------------
(***************************************************************************)
(* From the arguments of the program to what it reads and how it ends: the *)
(* options that getopt_long returns (options.c), the files that they name, *)
(* and what main makes of the rest of argv (cdecl.c).  What is done with   *)
(* the text of a source is the matter of Session; here it succeeds, fails  *)
(* or quits.                                                               *)
(*                                                                         *)
(* A definition whose name ends in an underscore and a word in capitals is *)
(* another one with a mistake that a property must notice.                 *)
(***************************************************************************)
EXTENDS GetOpt

CONSTANTS Names,     \* what the program may be called
          Readable,  \* the names of the files that can be opened for reading
          Creatable  \* the names of the files that can be opened for writing

VARIABLES
  me,         \* me
  options,    \* the variables of options.c: the last argument by letter
  opts_given, \* opts_given
  stage,      \* "options", "check", "open", "typedefs", "conf", "argv", "files",
              \* "exit"
  files,      \* what parse_files has still to read
  created,    \* the files opened for writing
  sources,    \* what has been parsed, and with what result
  status      \* "running", then what the process ends with

main_vars == <<me, options, opts_given, files, created, sources>>
vars == <<getopt_vars, main_vars, stage, status>>

ASSUME StartupAssumption == \A e \in Readable \cup Creatable : WellFormed(e)

Letters == required_argument \cup no_argument
Unset == Element(4, <<>>, <<>>, <<>>) \* no option, where NULL is no argument
commands == {"cast", "const", "declare", "dynamic", "explain", "help", "reinterpret",
             "static"}
is_command(e) == e.dash = 0 /\ Len(e.text) = 1 /\ Head(e.text) \in commands
COLORIZE_MAP == {"always", "auto", "isatty", "never", "not_file", "not_isreg", "tty"}
C_LANG_INFO == {"c", "c99", "c++"}
IsValue(map, e) == e.dash = 0 /\ Len(e.text) = 1 /\ Head(e.text) \in map
Default == Plain(<<"~/.cdeclrc">>)

Source(from, text) == [from |-> from, text |-> text, result |-> "ok"]
Results == {"ok", "error", "quit"}

Init ==
  /\ GetOptInit
  /\ me \in Names
  /\ options = [l \in Letters |-> Unset] /\ opts_given = {}
  /\ stage = "options" /\ files = <<>> /\ created = {} /\ sources = <<>>
  /\ status = "running"

exit(s) == stage' = "exit" /\ status' = s

-----------------------------------------------------------------------------
(* options.c.                                                              *)

getopt == /\ stage = "options" /\ Scan
          /\ UNCHANGED <<main_vars, stage, status>>

\* -k and -x have only certain values.
Invalid(o) ==
  \/ o.val = "k" /\ ~IsValue(COLORIZE_MAP, o.arg)
  \/ o.val = "x" /\ ~IsValue(C_LANG_INFO, o.arg)

\* The option that was returned, then the next one.
parse_options ==
  /\ stage = "options" /\ pc = "returned" /\ opt \notin {Done, Error}
  /\ opt.val # "h" /\ ~Invalid(opt)
  /\ opts_given' = opts_given \cup {opt.val}
  /\ options' = [options EXCEPT ![opt.val] = opt.arg]
  /\ getopt_long
  /\ UNCHANGED <<me, files, created, sources, stage, status>>

\* usage, or an invalid value: the program exits in the middle of the options.
usage ==
  /\ stage = "options" /\ pc = "returned" /\ opt # Done
  /\ opt = Error \/ opt.val = "h" \/ Invalid(opt)
  /\ exit("EX_USAGE")
  /\ UNCHANGED <<getopt_vars, main_vars>>

NoMoreOptions ==
  /\ stage = "options" /\ pc = "returned" /\ opt = Done
  /\ stage' = "check"
  /\ UNCHANGED <<getopt_vars, main_vars, status>>

\* opts1 with any of opts2.
MutuallyExclusive(opts1, opts2) ==
  opts_given \cap opts1 # {} /\ opts_given \cap opts2 # {}

check_mutually_exclusive ==
  /\ stage = "check"
  /\ IF MutuallyExclusive({"v"}, Letters \ {"v"}) THEN exit("EX_USAGE")
     ELSE IF "v" \in opts_given THEN exit("EX_OK")
     ELSE stage' = "open" /\ UNCHANGED status
  /\ UNCHANGED <<getopt_vars, main_vars>>

\* The output is created before it is known whether there is an input.
open_files_OUT ==
  /\ stage = "open"
  /\ LET fin == options["f"] fout == options["o"]
         Created == IF fout = Unset \/ fout \notin Creatable THEN {} ELSE {fout}
     IN  /\ created' = Created
         /\ IF fout # Unset /\ Created = {} THEN exit("EX_CANTCREAT")
            ELSE IF fin \notin Readable \cup {Unset} THEN exit("EX_NOINPUT")
            ELSE stage' = "typedefs" /\ UNCHANGED status
  /\ UNCHANGED <<getopt_vars, me, options, opts_given, files, sources>>

\* -f and -o; a file that cannot be read keeps the output from being created.
open_files ==
  /\ stage = "open"
  /\ LET fin == options["f"] fout == options["o"]
     IN  CASE fin \notin Readable \cup {Unset} ->
                exit("EX_NOINPUT") /\ UNCHANGED created
           [] fin \in Readable \cup {Unset} /\ fout \notin Creatable \cup {Unset} ->
                exit("EX_CANTCREAT") /\ UNCHANGED created
           [] OTHER -> /\ stage' = "typedefs" /\ UNCHANGED status
                       /\ created' = {fout} \ {Unset}
  /\ UNCHANGED <<getopt_vars, me, options, opts_given, files, sources>>

-----------------------------------------------------------------------------
(* cdecl.c.                                                                *)

MainFrame == UNCHANGED <<getopt_vars, me, options, opts_given, created>>

\* One source more; quit exits at once.
Parse(source, result, next) ==
  /\ sources' = Append(sources, [source EXCEPT !.result = result])
  /\ IF result = "quit" THEN exit("EX_OK") ELSE next

c_typedef_init ==
  /\ stage = "typedefs" /\ stage' = "conf" /\ UNCHANGED <<status, files>>
  /\ sources' = IF options["t"] = Unset THEN <<Source("builtin", <<>>)>> ELSE sources
  /\ MainFrame

\* The default configuration file need not exist, and what becomes of the file is
\* ignored.
read_conf_file ==
  /\ stage = "conf"
  /\ LET name == IF options["c"] = Unset THEN Default ELSE options["c"]
     IN  IF options["C"] = Unset /\ name \in Readable
         THEN \E result \in Results :
                Parse(Source("conf", name), result, stage' = "argv" /\ UNCHANGED status)
         ELSE /\ UNCHANGED sources
              /\ IF options["C"] = Unset /\ options["c"] # Unset THEN exit("EX_NOINPUT")
                 ELSE stage' = "argv" /\ UNCHANGED status
  /\ UNCHANGED files /\ MainFrame

ExitWith(result) == exit(IF result = "error" THEN "EX_DATAERR" ELSE "EX_OK")

\* What options_init has left in argv.
Operands == SubSeq(argv, optind, argc - 1)

\* Where parse_stdin reads: fin.
Input == IF options["f"] = Unset THEN Dash ELSE options["f"]

parse_stdin(result, next) == Parse(Source("fin", Input), result, next)

\* The words after command, or all of them, with blanks between them.
parse_command_line(before, list) ==
  /\ \E result \in Results :
       Parse(Source("command", before \o list), result, ExitWith(result))
  /\ UNCHANGED files

\* strsep: the text before the first blank.
Cut(e) == [e EXCEPT !.text = IF @ = <<>> THEN @ ELSE <<Head(@)>>]

parse_argv ==
  /\ stage = "argv"
  /\ IF Operands = <<>>
     THEN /\ \E result \in Results : parse_stdin(result, ExitWith(result))
          /\ UNCHANGED files
     ELSE LET first == Cut(Head(Operands))
          IN  CASE is_command(me) ->
                     parse_command_line(<<me>>, Operands)
                [] ~is_command(me) /\ is_command(Head(Operands)) ->
                     parse_command_line(<<>>, Operands)
                [] ~is_command(me) /\ ~is_command(Head(Operands)) /\ is_command(first) ->
                     parse_command_line(
                       <<first, Plain(Tail(Head(Operands).text))>>, Tail(Operands))
                [] OTHER ->
                     /\ files' = <<first>> \o Tail(Operands) /\ stage' = "files"
                     /\ UNCHANGED <<sources, status>>
  /\ MainFrame

\* "-" is standard input; a file that fails is the last one.
parse_files ==
  /\ stage = "files"
  /\ \E result \in Results :
       LET next == IF result = "error" \/ Len(files) = 1 THEN ExitWith(result)
                   ELSE UNCHANGED <<stage, status>>
       IN  CASE Head(files) = Dash -> parse_stdin(result, next)
             [] Head(files) # Dash /\ Head(files) \in Readable ->
                  Parse(Source("file", Head(files)), result, next)
             [] OTHER -> exit("EX_NOINPUT") /\ UNCHANGED sources
  /\ files' = Tail(files)
  /\ MainFrame

Exited == stage = "exit" /\ UNCHANGED vars

Step ==
  \/ getopt \/ parse_options \/ usage \/ NoMoreOptions \/ check_mutually_exclusive
  \/ open_files \/ c_typedef_init \/ read_conf_file \/ parse_argv \/ parse_files

Next == Step \/ Exited

\* The program runs as long as it can, and its input comes.
Spec == Init /\ [][Next]_vars /\ WF_vars(Step)

-----------------------------------------------------------------------------
(* Properties.                                                             *)

TypeOK ==
  /\ GetOptTypeOK
  /\ stage \in {"options", "check", "open", "typedefs", "conf", "argv", "files", "exit"}
  /\ (status = "running") = (stage # "exit")
  /\ opts_given = {l \in Letters : options[l] # Unset}
  /\ stage = "files" => files # <<>>

\* A command is the same words, whichever element they are from.
WordsOf(e) ==
  IF e.dash = 0 THEN [j \in DOMAIN e.text |-> Plain(<<e.text[j]>>)] ELSE <<e>>
Words(list) == FlattenSeq([k \in DOMAIN list |-> WordsOf(list[k])])

\* The argument of the last option l in list.
LastOf(list, l, default) ==
  LET of == {k \in DOMAIN list : list[k].val = l}
  IN  IF of = {} THEN default ELSE list[Max(of)].arg

\* What argv asks for, as the manual page has it: the last argument of an option
\* counts; without operands the input is read; the operands are a command if the
\* program is called one or the first word of the first operand is one, and else
\* the names of files, with "-" for the input.
Given(said, l) == LastOf(said.options, l, Unset) # Unset
AskedConf(said) == LastOf(said.options, "c", Default)
AskedInput(said) == Source("fin", LastOf(said.options, "f", Dash))
AsksCommand(said) ==
  \/ is_command(me)
  \/ LET e == Head(said.rest) IN e.dash = 0 /\ e.text # <<>> /\ Head(e.text) \in commands
AskedWrong(said) ==
  \/ said.wrong
  \/ \E k \in DOMAIN said.options : said.options[k].val = "h" \/ Invalid(said.options[k])
  \/ Given(said, "v") /\ \E k \in DOMAIN said.options : said.options[k].val # "v"
AskedFirst(said) ==
  (IF Given(said, "t") THEN <<>> ELSE <<Source("builtin", <<>>)>>)
  \o (IF Given(said, "C") \/ AskedConf(said) \notin Readable THEN <<>>
      ELSE <<Source("conf", AskedConf(said))>>)
AskedThen(said) ==
  IF said.rest = <<>> THEN <<AskedInput(said)>>
  ELSE IF AsksCommand(said)
  THEN <<Source("command", Words((IF is_command(me) THEN <<me>> ELSE <<>>) \o said.rest))>>
  ELSE [k \in DOMAIN said.rest |-> IF said.rest[k] = Dash THEN AskedInput(said)
                                   ELSE Source("file", said.rest[k])]
Asked(said) ==
  [rest |-> said.rest, wrong |-> AskedWrong(said), version |-> Given(said, "v"),
   fin |-> LastOf(said.options, "f", Unset), fout |-> LastOf(said.options, "o", Unset),
   noconf |-> Given(said, "c") /\ ~Given(said, "C") /\ AskedConf(said) \notin Readable,
   first |-> AskedFirst(said), then |-> AskedThen(said)]

Plainly(source) ==
  Source(source.from, IF source.from = "command" THEN Words(source.text) ELSE source.text)

\* The first operand is the name of a file with a blank in it: it is cut there.
BlankName(asked) ==
  /\ asked.rest # <<>> /\ Head(asked.then).from = "file"
  /\ Head(asked.rest) # Cut(Head(asked.rest))

Failed(k) == k \in DOMAIN sources /\ sources[k].result = "error"
Quit == \E k \in DOMAIN sources : sources[k].result = "quit"

\* What the process ends with: the first of what is wrong.
StatusOf(asked) ==
  LET all == asked.first \o asked.then
      next == all[Len(sources) + 1]
  IN  IF asked.wrong THEN "EX_USAGE"
      ELSE IF asked.version THEN "EX_OK"
      ELSE IF asked.fin \notin Readable \cup {Unset} THEN "EX_NOINPUT"
      ELSE IF asked.fout \notin Creatable \cup {Unset} THEN "EX_CANTCREAT"
      ELSE IF Quit THEN "EX_OK"
      ELSE IF asked.noconf THEN "EX_NOINPUT"
      ELSE IF Len(sources) > Len(asked.first) /\ Failed(Len(sources)) THEN "EX_DATAERR"
      ELSE IF sources # <<>> /\ Len(sources) = Len(all) THEN "EX_OK"
      ELSE IF next.from = "file" /\ next.text \notin Readable THEN "EX_NOINPUT"
      ELSE "running"

StartedAs(asked) ==
  LET read == [k \in DOMAIN sources |-> Plainly(sources[k])]
  IN  /\ IsPrefix(read, asked.first \o asked.then)
      /\ \A k \in Len(asked.first) + 1..Len(sources) - 1 : ~Failed(k)
      /\ created \subseteq {asked.fout} \ {Unset}
      /\ sources # <<>> \/ created # {} =>
           /\ ~asked.wrong /\ ~asked.version
           /\ asked.fin \in Readable \cup {Unset}
           /\ created = {asked.fout} \ {Unset}
      /\ stage = "exit" => status = StatusOf(asked)

\* Whatever the order of the arguments: what is read is what they ask for, in that
\* order and up to the first that fails; the output is created only if they are
\* right and the input can be read, and before anything is parsed; and the exit
\* status tells which of all this went wrong.
StartedRight ==
  \A asked \in {Asked(Said(argv0, ordering))} : BlankName(asked) \/ StartedAs(asked)

\* However options and operands alternate, the scan of argv and its exchanges end,
\* and so does the program.
Terminates == <>(stage = "exit")
=============================================================================
