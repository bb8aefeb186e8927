# A TLA+ model of cdecl

cdecl reads declarations of C and C++ in English or in "gibberish" (the syntax of
C) and writes each as the other. It is one thread, yet most of it is hard to
test: a bison parser that builds a tree in the order of the tokens, relinks it,
patches it, prints it from both ends, and hands a part of it over to a table
that outlives the command; manual memory with two ways to free a node; a
red-black tree; a long list of rules on what may be declared in which language;
and a loop of parses over several sources that share global variables, after
arguments that `getopt_long` permutes in place.

The modules follow the code as it is. In paths, `src/` is the repository and
`src/src/` its program, where files named without a directory are;
`PROJECT.json` names the lines that each definition stands for.

## 1. Inventory

| component | files | state | operations | how it talks to others |
|---|---|---|---|---|
| AST nodes | `c_ast.c` `c_ast.h` | the nodes, their links `of_ast`, `parent`, `next`, `func.args`; `c_ast_count`; the garbage-collection list `c_ast_gc_head`/`gc_next`, in which one address marks a node freed with its children | new, set parent, list append, visit, equivalence, collect, release, free, clean up at exit | called by every production of the parser; the table frees through it |
| Declarators | `c_ast_util.c` | none of its own | add an array, add a function, patch a placeholder, take a name | called by the gibberish productions |
| Parser | `parser.y` | bison's value stack, `in_attr` (type and qualifier stacks), `ast_depth`, `arg_depth` | one semantic action a production; the commands; the abort | builds ASTs, checks, prints and defines |
| Checks | `errors.c` | none | `c_ast_check`, visitors that look for an error in a node, its type and its arguments | between building and printing or defining |
| Typedef table | `c_typedef.c` | the set of type names and their ASTs | predefined types, add, find, visit, clean up | owns ASTs that a command gave away; the lexer looks names up in it |
| Red-black tree | `red_black.c` | nodes with links and colours, a root and a nil sentinel in the tree itself | insert, find, visit, free (delete is not called) | holds the typedef table |
| Type specifiers | `c_type.c` | bits | add, check in a language, name | called by the parser, the checks and the printers |
| Printers | `gibberish.c` `english.c` | what has been printed of a declarator so far (`g_param`) | declare, cast, English | read the AST |
| Options | `options.c` `cdecl.c` | `opt_*`, `opts_given`, `fin`, `fout` | parse the options, check that they go together, open the files, decide what the operands are | calls `getopt_long`; main reads what it leaves |
| Argument parsing | `src/lib/getopt.c` `src/lib/getopt1.c` | `argv` itself, `optind`, `nextchar`, the segment of non-options | exchange two segments, skip, a long or a short option | called again and again by `options.c` |
| Session | `cdecl.c` `lexer.l` `util.c` | the input line, what flex has asked of it, flex's buffer, `is_eof`, the column, `command_line`, the exit status | initialise, read a configuration file, arguments, files or the terminal, join lines, parse, reset the lexer, exit | feeds the parser, ends it at errors |
| Diagnostics | `diagnostics.c` | none; reads the lexer's | print an error's line, cut to the terminal's width, and the caret below it | reads `command_line` and the input line |
| Languages, keywords, kinds | `c_lang.c` `c_keyword.c` `c_kind.c` | `opt_lang` | table look-up | constants of the others |
| Set, prompt, completion, help, debug output, utilities | `set.c` `prompt.c` `autocomplete.c` `help.c` `debug.c` `util.c` ... | global options | assign or print | see section 9 |

What is hard about it, and what must be true:

* **Memory.** Every node is on the list from its allocation on. A command that
  defines nothing frees the list; one that defines a type drops it, and from then
  on only the table can free the nodes. Nothing the table reaches may be freed
  earlier, nothing may be freed twice, nothing may be left at the exit. Errors
  can end a command after any token.
* **Building.** In gibberish the tokens come in another order than the type is
  built in. Productions put placeholders into the AST, insert arrays and
  functions above or below what is there by comparing depths and parents, and
  replace the placeholders later. The AST must denote the type that was written.
* **Defining.** A name may be defined again with the same type and with no other.
  Definitions may refer to each other; the comparison must be right, and must
  return.
* **Printing.** A declarator is printed by a walk from the root to the leaf, then
  from an array or function up to the root. The text must denote the type.
* **The table.** The tree must be ordered, balanced and whole, for any sequence of
  insertions.
* **Specifiers.** They come in any order, on either side of a built-in type, and
  `long` twice is another type. The order must not matter, exactly the types of
  the language must be accepted, and a name printed must be read back.
* **Checks.** An error may be anywhere in a declarator, or in the arguments of an
  argument; what is legal depends on the language, on the node above and on
  whether it is an argument. Exactly the legal declarations must be accepted.
* **English.** Qualifiers wait on a stack of their own while bison reads what they
  qualify. Each must get to its node, be printed there, and none may be left over
  when a command is given up. The language may change between two commands.
* **Arguments.** Options and operands come in any order. All options must be seen
  before a file is opened, all operands must be left in their order, and the
  status must tell what went wrong.
* **The session.** Each source is a parse of its own that may be given up in the
  middle of a line. What it leaves in the lexer must not reach the next source;
  every command must be executed once and in order; an error must be shown in its
  own line, with the caret below the token that is wrong; the status must tell of
  it; the program must end when its input does.

The code has no threads, persists nothing and sends no messages: interleaving
and crash recovery do not arise. `PROJECT.json` lists the hazards at their lines.

## 2. Modules

```
 CAst <-- Parser <-- Printer <-- MCPrinter      AstHeap <-- AstHeapProofs
   ^         ^                                   (which Parser refines)
 CAstProofs  |
   ^         |
 ParserProofs <-- ParserTheorems

 CTypes <-- TypeSpecifiers <-- TypeSpecifiersProofs
    ^
 Checks <-- English <-- MCEnglish

 RedBlack <-- RedBlackProofs                    (RedBlack refines NameTable)

 Diagnostics <-- Session <-- SessionProofs

 GetOpt <-- Startup <-- StartupProofs           (Startup refines GetOpt)
               ^
           MCStartup
```

An arrow goes to a module from one that EXTENDS it. There are two
models of the parser. *Parser* keeps the memory of every node and reads
gibberish, where what is hard is how an AST is put together; its types are built-in
words. *English* keeps ASTs as values, in which a node has all its bits, for what is hard
in English: what the types, storage classes, qualifiers and languages are.

**AstHeap** is what the memory of AST nodes promises, whatever is built in it.
Its actions are `Start`, `Build` (allocation), `Collect` (`c_ast_gc`), `Release`
(`c_typedef_add` and `c_ast_gc_release`), `ReleaseDuplicate` (the same for an
equivalent type), `Quit`, `FreeTypedef` and `Cleanup`. The links among the nodes
of a running command are not kept: they do not matter before the list is
dropped, and are chosen then. `Release` assumes that the AST is a tree, which
`c_typedef_add` does not check; that Parser's ASTs are trees when they are defined is
what run `commands` checks with `ImplementsHeap`. It is the specification that Parser
implements, and the one proved about.

**CAst** has the AST as a function from cells to records, and the operators of
`c_ast.c` and `c_ast_util.c` on it, from a heap to a heap; `Failed` is the heap
after an assertion. They follow pointers by recursive functions on the addresses,
the nodes and NIL, as the code calls itself and tests for NULL.

**Parser** is a session: one action for each production that does something to
the AST, one for each command, the abort, and the exit handler an entry at a
time. `values` is bison's stack; an action is enabled when the values that its
production reduces are on top, and which of them happens is the input. So the
input is every sequence of tokens that bison accepts, over the abstracted
tokens. Each value also carries `ops`, the type as C reads it, and `proper`,
whether the declarator is without redundant parentheses. No action reads these;
`last` keeps them for the properties when the command is over.

**Printer** adds `gibberish.c` and `english.c`: operators from an AST to the
tokens printed, with the reading of those tokens by the rule of C, and by the
grammar of the English declarations, as references.

**RedBlack** is the tree, a step for each level that an insertion descends and
each turn of the repair's loop. **NameTable** is the set that it implements.

**CTypes** is `c_type.c` and the languages of `c_lang.h`: the bits, the tables of
those that are legal alone and in pairs, adding, checking and naming.
**TypeSpecifiers** reads a sequence of specifiers into bits, as `type_ast_c` does,
and checks and names them.

**Checks** has operators on an AST with all its bits: the visitor of `errors.c`
with the rules of each kind of node, `c_ast_equiv`, and the words of `english.c`.
**English** is a session of `declare`, `define`, `cast`, `show` and `set` in English. Its
actions are the productions of `parser.y`: the first words of a production push a
frame on bison's stack (`frames`) and their qualifiers on `in_attr`'s
(`qualifier_head`), its reduction pops both and puts a node above the declaration
within (`value`). Any command may be given up after any word. `said` keeps the
words, which no action reads but `last` hands to the properties, with the
definitions of `Legal` (what C says) and `Expanded` (the words that mean the same
type) as references.

**GetOpt** is `getopt_long` as `options.c` calls it, a step for each turn of its
loops: `exchange` swaps two segments of `argv` in pieces, and the next option is
a long one, or the next letter of a short one. **Startup** takes the options that
it returns, and what is left, through `options.c` and `main` to the sources and
the exit status; what becomes of a source's text is a choice there, and the
subject of Session. Its actions conjoin those of GetOpt, and its specification
implements GetOpt's. `Said` and `Asked` say from the arguments alone, read from
left to right, what must come out.

**Session** reads text, which is a sequence of abstract tokens: words, a word
that makes a command incomplete, a word that makes its type illegal, a word that the
lexer has a synonym for, a wrong array size and its `]`, `quit`, `;` and the end of a
line. Its steps are those of main between two sources, a line typed on a terminal,
which may end in a `\` and go on, a read by flex, a token, and the end of the file.
flex reads when its buffer is empty or has a word only, which might go on: so at the
end of a last line without a newline, the input line is empty before the word is
taken. **Diagnostics** has the operators of
`print_caret`: from a line, of which only the classes of its characters matter,
and the column of an error, to the column of the line that the caret ends up
below.

A name that ends in an underscore and a word, such as `Release_shared`, is the
definition after it with a plausible mistake. It is not part of the
specification; `PROJECT.json`, "mutants", pairs it with the property that notices
when it takes the place of the right one.

## 3. Correspondence of state

| model | code |
|---|---|
| `h[n]` | `*n`, a `c_ast_t`; its type bits are one built-in type |
| `live`, `count` | what `c_ast_new` allocated, `c_ast_count` |
| `gc` | the list from `c_ast_gc_head`, the newest node first |
| `recursive` | nodes whose `gc_next` is `&c_ast_free_recursive` |
| `typedefs` | the typedef table, as a function of the names |
| `values`, `typeStack`, `ast_depth` | bison's stack, `in_attr.type_head`, `ast_depth` |
| `phase` | where the session is: between commands, in one, in the exit handler, or ended |
| `tree`, `pc`, `data`, `node`, `parent` | the nodes and the locals of `rb_tree_insert` |
| `before`, `base`, `after` | the type bits that `type_ast_c` has from the modifiers before the built-in type, from it, and from those after it |
| `typedefs`, `lang` (English) | the typedef table, with `user_defined`; `opt_lang` |
| `frames`, `qualifier_head`, `value` | bison's stack, `in_attr.qualifier_head`, the declaration reduced last |
| `argv`, `optind`, `nextchar`, `first_nonopt`, `last_nonopt` | the same of getopt; an element of `argv` is split into dashes, letters or name, and text |
| `bottom`, `middle`, `top`, `pc`, `after` | the locals of `exchange`, and where `_getopt_internal_r` is |
| `options`, `opts_given`, `created`, `sources` | the `opt_*` variables by letter, the files opened for writing, what was parsed so far |
| `unread`, `input_len`, `buffer`, `is_eof` | `input_buf` from `input_sent` on, `input_len`, flex's own buffer, `is_eof` |
| `buf`, `joined` | the line being joined in `read_input_line` |
| `column`, `column_newline` | the lexer's column, and the one before the last end of a line |
| `command_line`, `shown`, `status` | whose text `command_line` is, the line and the column that an error was shown with, the exit status; "aborted" after a failed assertion |

## 4. Runs

Each `.cfg` is checked with the module that `PROJECT.json` names. Numbers of
distinct states are in parentheses.

| run | bounds | what it shows |
|---|---|---|
| `ast_heap` | 3 cells, symmetric | `TypeOK`, `CountExact`, `NoDangling`, `SingleOwner`, `DefinitionsKept`: the invariants proved in section 6, on all small heaps |
| `commands` (285,556) | 5 nodes, names `size_t` (predefined) and `t`, pointers and rvalue references, `declare`, `define`, `typedef`, `explain`, depth 2 | a whole session, with an error possible after any token, from the start to the exit: a type once defined stays (`TypesKept`), no type is defined by itself (`NotCircular`), `define` accepts a name again exactly when it should (`RedefinitionExact`), what is read is what was written (`ReadRight`), also after failed commands, and the memory behaves as AstHeap (`ImplementsHeap`) |
| `gibberish` (620,795) | 6 nodes, pointers and references, `declare`, `cast`, `explain` of declarations and casts | longer declarators: `OneList`, `ReadRight`, `DeclaredRight`, `ExplainedRight` |
| `deep` (about 430,000) | 7 nodes, pointers, `explain`, two levels of parentheses | the insertion of arrays and functions by depth (`ReadRight`) |
| `english` (2,228,506) | 4 nodes, every production of a declaration and a cast, storage classes, `const` functions, `register`, `void`, `auto`; `declare`, `cast` and `static cast` in K&R C, C99, C++03 and C++11 | a declaration is accepted exactly when it is legal (`CheckedRight`), and no qualifier is left over (`TypeOK`) |
| `redefinitions` (596,960) | 5 nodes, names `size_t` (predefined) and `t`, pointers, arrays, functions with named arguments, `const` of everything but functions; `define`, `show` and `set` in K&R C and C99 | what is shown is what was defined, and what was asked for (`ShownRight`); a type defined in one language is accepted in another one exactly when it is the same (`RedefinedExact`) |
| `red_black` (36,053) | 8 keys in every order, repetitions included | `Ordered`, `Linked`, `Balanced`, `FreedOnce`, and the refinement `ImplementsTable` with its liveness: every call returns |
| `types` | up to 4 specifiers, of 7 types and 7 modifiers, in the 5 versions of C | `OrderFree`, `LegalExact` against the list of types in the C standards, `NameReadBack` |
| `startup` (544,436) | up to 2 arguments of 26 kinds, up to 6 of 4 kinds; with and without `POSIXLY_CORRECT`; called `cdecl` or `explain`; files that can be read, created, or neither | `OptionsRight` (getopt finds what is there), `StartedRight` (main reads, creates and returns what the arguments ask for), `ExchangeRotates`, `Terminates` |
| `session` (1,189,217) | 4 tokens, 3 sources, a buffer of 2 tokens, a terminal of 10 columns, the 4 ways to call the program; a line that is continued grows by a token at a time | `InOrder`, `StatusRight`, `ErrorShown`, and `Terminates` |
| `leak`, `name` | 5 nodes | the violations of section 7 |

The bounds reach the cases of interest. Three cells hold two types with a
common node, or a type and a running command, or the duplicate, the declarator
and a leftover. Five nodes hold a predefined type, a defined one and a
declarator that refers to it; six a function with an argument and a derived
return type; seven an array that is appended below a pointer and an array, from
within nested parentheses. Eight keys take the
repair through every case at two levels and to the root. A buffer of two tokens
is shorter than lines of three and four. Four tokens are up to sixteen characters,
so that a terminal of ten columns cuts lines on the right, on the left and on both
sides, and wraps a line that is typed. Four specifiers are one more than any
type needs. Four nodes in English hold a function with an argument that is itself a
pointer, an array or a function, and three derivations of a type; five nodes and
the table hold a type, its redefinition and one through the other's name. Six
arguments hold three segments of operands between options, so that an exchange
takes up to three turns in either direction. Three sources are the predefined types
or the configuration file, and two more that what they leave might reach. `Room` in Parser, English and Session
stops a command for which no cell, node or token is left; it may still fail or,
where its input is complete, end.

A state at which the program has ended only stutters, so that TLC still checks
for deadlock everywhere else.

### Preconditions of the properties

Some declarators are read or written wrong by the code (section 7). The
properties that must hold exclude these by conditions on what was *written*:
`DeclarationRead`, `CastRead`, `ArgumentRead` and `Legal` in Parser, on the
declaration as C reads it; `proper`, no redundant parentheses; `Miswritten` in
Printer; `LongAround` in TypeSpecifiers; `Lax` (what the code allows beyond C),
`NamePlain` and `Printable` (bits that the English printer or the look-up of a name
loses) in English; `BlankName` in Startup; `Fits`, `Single`, `joined`, an error at a
word with a synonym (`by`), `UnderDots` and `NoRoom` in Session. Each is as narrow as the runs allow, and says which input it is about.

## 5. Fairness

`RedBlack!Spec` has weak fairness of the steps within a call: a call of a
function runs until it returns. It has none of `InsertCall`, since nobody has to
call. `NameTable!Spec` accordingly promises an answer to every request.
`Session!Spec` has weak fairness of `Step`: the process runs, and whoever types
goes on or ends the input; the bounds on what is typed are those of the model.
`Startup!Spec` has weak fairness of `Step` too: there, everything is the process's
own work on arguments that are given, so `Terminates` says that the scan of `argv`
and its exchanges end. Nothing is assumed about which branch is taken. The other
modules state safety only and assume no fairness.

## 6. Proofs

`AstHeapProofs` proves, for every finite set of cells and any AST a command
builds:

* `TypeCorrect`: `Spec => []TypeOK`;
* `CountCorrect`: `c_ast_count` is exact (`CountExact`);
* `NothingDangles`: nothing that a type reaches is freed before it (`NoDangling`);
* `OwnerUnique`: types share no nodes, and each stays the tree that `Release` assumes
  it to be (`SingleOwner`);
* `DefinitionsStay`: no step relinks a node of a type (`DefinitionsKept`).

The only assumption is `NodeAssumption`: the cells are a finite set that does not
contain the null pointer. TLC evaluates it in run `ast_heap`.

`NoDangling` is not inductive: a type's nodes are allocated now, but a collection
would free them if they were on the list. The inductive invariant is

    IInv == TypeOK /\ CountExact /\ Owned /\ SingleOwner

where `Owned` says that all nodes of a type are allocated *and off the list*. With
it, `Collect` frees only nodes of no type, and `Release` gives a type only nodes
of the list, hence of no other type. At the exit `SingleOwner` makes the trees
disjoint, so that freeing one leaves the others whole. The lemmas on `Reachable`
carry this: it is closed, the least closed set, and depends only on the links of
what is in it (`ReachableStable`), so that a step that leaves those links alone
leaves the AST alone. `Inductive` combines initiation (`InitIInv`) and one step of
the proof for each action (`NextIInv`).

`StartupProofs` proves, for all argument lists of any length that are sequences of
well-formed elements (`ArgumentsAssumption`) and either ordering:

* `TypeCorrect`: the indices stay in `argv` and in order (`GetOptTypeOK`). The
  inductive invariant `IInv` adds that `argv` remains a sequence of elements of the
  same length, and where in an element a call may begin.
* `ExchangeCorrect`: `GetOptSpec => ExchangeRotates`, that exchanging two segments
  piece by piece rotates them. The three lemmas are the algorithm's correctness
  argument: a swap of the shorter segment with the far end of the longer one
  (`RotatesLeft`), or the near end (`RotatesRight`), leaves a rotation of what
  remains that has the same outcome, and a rotation with an empty segment is none
  (`RotatesNothing`). They are about the index arithmetic at every position.
* `OptionsCorrect`: `GetOptSpec => []OptionsRight`. The reference reads the arguments
  from left to right and knows no exchanges. The invariant (`Progress`) says where
  getopt is in it: what the reference has made of the elements before `optind`, and
  of the letters before `nextchar`, are the options given so far and the
  non-options (`Hearing`); the latter stand between `Start` and `End` of what `argv`
  will be when the exchange under way is over, with everything from `End` on where it
  was (`Placed`). What remains to be read can no longer take an option back
  (`ReadingRead`), and behind `--` or the first non-option under `POSIXLY_CORRECT` it
  only adds to the rest (`EndedReads`).

It also proves that the program refines this: `Implements`
(`Spec => GetOptSpec`, every step of `options.c` and `main` is one of getopt or leaves
its variables alone), from which `StartupExchange` and `StartupOptions` follow;
`StartupTypes` (`Spec => []TypeOK`), whose invariant `MainInv` carries `IInv` along
with what `opt` may be, so that an option is only ever stored under a letter there is;
and `StartedCorrect` (`Spec => []StartedRight`), for any names of the program, any
arguments and any files that can be read or created. Its invariant (`Started`) says
at each stage what is settled: the variables of `options.c` are the last arguments of
the options that `options.c` has seen (`SetFrom`), then of all that the arguments say
(`Known`, by `StartupOptions`); what was read is the beginning of what they ask for
(`ReadFrom`); and the files that are left are the operands behind those read
(`FilesRead`).

`RedBlackProofs`, which begins with what is true of any tree, proves for every set
of data that the tree may hold:

* `TypeInvariant`, `LinkedAlways`, `OrderedAlways`, `BalancedAlways`,
  `FreedOnceAlways`: the five invariants of run `red_black`, at every step of an
  insertion, rotations and recolouring included;
* `TableSafety`: the tree implements the safety of NameTable, the set of names.

No assumption is made beyond those of RedBlack's constants. None of the five is
inductive. The invariant (`Invariance`) says that there are a span of the data for
every node and a black height for every node, such that a child has its part of its
parent's span, the heights of two children agree, and at most one red node is
below a red one, where the repair is (`RedRule`). Each step of the repair keeps it by
changing spans and heights of the nodes it moves, and `RotateShape` says so of a
rotation about any node. What visit, search, height and freeing compute over the
tree is defined by recursion. As the proof system has no induction over trees,
`TreeRecursion` shows that such a recursion has a solution, and facts about
it are proved on a least counterexample, by the number of data in a span.

`TypeSpecifiersProofs` proves, for any number of specifiers in any order and any sets
of the languages, types and modifiers of the model (`TokenAssumption`):

* `TypeCorrect`: at most one built-in type, and until one conflicts nothing but
  modifiers beside it (`TypeOK`);
* `OrderIrrelevant`: `OrderFree`, that the type depends on which specifiers came and
  how often, not on the order nor the side of the built-in type;
* `LegalTypes`: `LegalExact`, that exactly the arithmetic types of C and `void` are
  accepted in each language;
* `NamesReadBack`: `NameReadBack`, that the name printed of a legal type is read back
  as that type, which run `types` shows for up to four specifiers; but for `wchar_t`,
  which is left out of names (section 7).

The invariant counts: the bits of each of the two lists of modifiers are those of the
specifiers read, with `long long` for two of `long` on the same side, so that the
union is a function of the numbers alone. For `LegalTypes` it counts all specifiers
(`Reckoned`): a conflict means that one is there too often, or is `long long float` or
`double`, and parts without a conflict have each once (`PartsConflict`, `PartsFit`).
Then the type is what was written, and `Table` says what `c_type_check` makes of it:
`AloneIs` and `GoesIs` read the triangular table of `c_type.c` off for any bit and any
two bits, and `Clique` compares the sets of bits that go together two by two with the
list of C's types. For `NamesReadBack`, the loop of `c_type_name` names every bit once
that does not go without saying (`NamesList`), reading those words in any order adds
them up to the bits they name (`ReadIs`, for which a legal `long long` has no
built-in type but `int`, which is not said next to it), and what goes without saying
makes no other type (`ToldSame`).

`SessionProofs` proves, for any text in any number of sources, any size of flex's
buffer and all the ways to call the program (the assumptions are those on the
constants of Session and Diagnostics, which TLC evaluates in run `session`):

* `NothingLeft`: nothing of a source is left in the lexer for the next (`TypeOK`);
* `CommandsInOrder`: the commands of a source are executed in order, each once and
  whole, up to the first that fails (`InOrder`);
* `StatusTells`: the exit status tells whether the last source failed (`StatusRight`).

The invariant says how far the program has got in what the source says: there is a
token `k` such that `Hearing`, the reference that reads a text token by token, has at
`k` what the program has in `command` and has executed, and the two buffers hold
what comes after `k` (`Remains`). The buffers are thrown away at each end of a command, and
what makes that right is `LastOnly`: such an end is the last thing in them when
the line fits in flex's buffer or is one command. Once bison skips tokens, the text has
failed; what the status says follows from the end of the source.

The same module proves, from the same assumptions and on top of that invariant,
`ErrorsShown`: an error in the first command of a line is shown in that line, with the
'^' below the token that is wrong, or the word that makes the type illegal
(`ErrorShown`), in columns of a terminal of any width. It says nothing of an error at a
word with a synonym, whose column the lexer gets wrong (section 7); such words before
the error do no harm, and the theorem includes them. Its invariant (`EInv`) is about the line the program is in. Until there is an
error (`Reading`) the lines before it are right, the lexer's `column` counts the
characters of the tokens taken from it and the buffers have the rest (`Here`); at an end of
a command `column` is 0 already, which is right only as the line ends there too. From
the error on, the first line that is wrong is the one that was shown, at the column
of its token or, for the newline, one column behind it (`Pointed`). `CutRight` and `CaretPlaced`
say for any line that `print_caret` puts the '^' below a token in that column, unless it is
under the dots (`UnderDots`) or there is no room for it between them (`NoRoom`).
The attempt to prove this without `NoRoom` showed that the second condition is needed
(section 7); it takes a token nearly as long as the terminal is wide.

In these modules, too, an induction over numbers or trees is an argument on a least
counterexample (`LeastNumber`, `UpTo`), which the installed provers can do.

`ParserTheorems`, on top of `CAstProofs` (the operators of CAst) and `ParserProofs`
(the productions), proves of Parser, for any number of nodes and names, any depth of
parentheses and any sequence of productions, commands and errors:

* `OneListAlways`: a node is on one list of arguments, of values or of types at most,
  and once (`OneList`); the exit is included;
* `NotCircularAlways`: no type name is defined by itself (`NotCircular`), the exit
  included;
* `TypesKeptAlways`: once defined, a type name means the same until the exit
  (`TypesKept`);
* `CountExactAlways`: `c_ast_count` is the number of nodes, until the exit;
* `HeldUntilExit`: nothing that the stacks, the lists and the table hold has been
  freed, until the exit (`TypeOK` up to there).
* `EnglishReadRight`: the AST built for a `declare`, `define` or `cast` denotes the type
  that was written, whatever it is, and one that is readable is neither rejected nor
  fatal (`ReadRight` for the commands in English);
* `RedefinitionExactAlways`: `define` accepts a name again if and only if the type is
  the same (`RedefinitionExact`);
* `EquivExact`: on any heap and table where walks end, `c_ast_equiv` is true exactly of
  ASTs with the same meaning, type names looked through.

The assumptions are `ParserAssumption`: the nodes are finitely many, the null pointer
is neither a node nor a name, and the predefined names are finitely many of the names.

None of these is inductive. What `c_ast_add_array` and its like do depends on how the
nodes were linked by the productions before, so the invariant (`IInv`, and in it
`State`) has to say what is linked to what at every point of a command:

* The nodes fall into classes (`cl`), one for each declaration under way, the
  arguments of a function included; links stay within a class (`Chained`), and no two
  nodes of a list are of one class (`Lists`). So relinking a declarator leaves the
  others, and the lists, alone. Each value has a class too (`vc`), new where a list of
  arguments is opened or a type is pushed (`Levels`).
* On bison's stack only certain values follow one another (`Grammar`). The type stack
  is that of the values with a type on them (`Indexed`); their nodes are a chain, to
  which only what is above is linked (`Spine`). From this `c_ast_add_func` finds the
  type to return, and what is put between a declarator and its type is put there only.
* A value in parentheses is no deeper than the parser (`Depths`), so that an array is
  never put below the type under it by comparing depths.
* No chain of links comes back, also where it goes on from a type name to the AST of
  its definition (`TableOK`): there is no infinite descent along `Edges`. That is what
  makes the recursions of CAst end. It is kept as an array or a function is put between
  two nodes that were linked, above one, or a leaf below one (`Insert`, `NewRoot`,
  `NewLinks`, `NewArray`).
* The nodes of the table's ASTs are off the list and linked to one another only, and
  each entry has a root of its own; the nodes that no one will free (section 7,
  `leak`) are a set `L` by themselves.

In an English command every value is the root of an AST of its own (`Eng`) instead of
the second and third. Between commands only the heap and the table matter; while the
exit handler runs, that no chain of links comes back and that the lists are apart
(`Leaving`).

There is no induction over ASTs either: `Fixpoint` shows that a recursion along a
relation without infinite descent has a solution, hence that the `CHOOSE` in the
meaning of a recursive function finds it, and facts about it are proved on a least
counterexample (`AddArrayPut`, `AddFuncPut`, `PatchCases`, `MeansSolved`). For
`TypesKept`, two heaps that agree on what is linked to a type give it the same
`Meaning` (`MeaningStays`). For `EquivExact` too: of two ASTs for which
`c_ast_equiv` and the meanings disagree, the children or the definitions are such a
pair.

What English commands say is a second invariant (`EInv`) on top of `IInv`: the
operators that a value has read are the meaning of its AST, or of those on its list
(`Said`); if they are proper and legal, `c_ast_check` accepts it (`Sure`); a reference
is of nothing yet (`Open`), and only references lack what they are derived from
(`Needed`). A production makes its value's AST from those of the values it takes, and
relinks no other: such nodes (`Steady`) mean the same after it (`SteadyMeans`) and are
checked the same. So each production needs only what a node over checked children
says and whether the rules for that node accept it. Here `Legal` states the rules
over the operators of the type, and the proofs compare them with those that
`c_ast_check` finds walking down the AST, one case for each kind of node.

Only model-checked, and why:

* Parser's `TypeOK` while the exit handler runs, and that Parser implements AstHeap:
  both need that the AST of a type is a tree. Productions can make two nodes share
  what is below them. Those ASTs are rejected by `c_ast_check` or lost, as far as TLC
  finds with 8 nodes, but why a check of kinds rejects every shared node is not worked
  out;
* `ReadRight` of gibberish commands, `DeclaredRight` and `ExplainedRight`: they relate
  the AST to what C reads, under the preconditions of section 4, at each production of
  a declarator. Unlike in English, a declarator's AST is no type until its last
  production, so that what it will mean depends on what is still to come;
* the properties of English, which walks ASTs with RECURSIVE operators that the
  proof system does not take;
* liveness: `Terminates` and the fairness in `ImplementsTable`.

## 7. What the code does otherwise than it says

Two have a run in which TLC finds the counterexample:

* `leak`, `CleanExit`: `typedef int a[3]`, then the end of input: internal error,
  nodes still allocated. `c_ast_gc_release` (`src/src/c_ast.c:229`) marks the node
  created last, a placeholder, rather than the root, so that the root is freed
  without its children.
* `name`, `NameFound`: `explain int **f()` fails the assertion at
  `src/src/parser.y:889`. The function becomes the parent of the second pointer, as it
  should (`c_ast_util.c:218`), but `c_ast_util.c:195-198` drops the function that is
  returned and returns the pointer. The name has moved to the function, so that none is
  found from the pointer down.

Others were met while modelling, and are excluded by the preconditions above or
are outside of what is modelled:

* Defining: `typedef int t` and then `typedef int *t` is accepted, for
  `parser.y:1091` takes the type instead of the declarator (compare
  `c_typedef.c:183-189`). `define t as int` and then `define t as const t` is
  accepted: `c_ast_equiv` looks through names without their qualifiers
  (`c_ast.c:122`). The same words are rejected in another language when the
  implicit `int` of K&R C is in one of the ASTs only, and `signed int` is not `int`.
  `define V as void` is rejected.
* Reading: `explain int (x)[3]` is explained as an `int` (`c_ast_util.c:281`).
  `declare x as y as int` fails the assertion at `parser.y:717`. `explain int *(x)` keeps its placeholder until an assertion in
  `errors.c:419`; `int ((x))` fails one in `c_ast.c:288`, the cast `(int ())x` one
  in `c_ast_util.c:265`. `int x[3]()` and `int f()()` are accepted and explained as
  something else. `int x(int (*y)[3])` and `int (*&x)[3]` are misread. A reference to
  a reference is accepted. `ast_depth` is not reset by an error.
* Checks: a function that returns `register`, an array of a type name that is one
  of `void` or a function, references to and arrays of references, a name or `...`
  that is no argument are accepted; no rule looks through a type name. `register
  struct S` is rejected. An unnamed `void` argument ends the checks of the
  arguments after it. The rule on `enum class` holds in gibberish only.
* Printing: `declare x as array of pointer to pointer to int` prints `int ***x[]`
  (`gibberish.c:196`). In English a type name is printed without its qualifiers, a
  pointer without its storage class, and `...` as "variadic". The parentheses and the name of an rvalue reference to an array or
  function are missing, for the switch of `c_ast_gibberish_postfix`
  (`gibberish.c:330`) has no case for it.
* Specifiers: `long int long long` is accepted: the third `long` finds neither bit
  alone (see `LongAround`). `static wchar_t` is named `static`. `long double
  complex` is rejected and `complex` alone accepted, contrary to C99.
* Session: of a line longer than flex's buffer, the commands after the one that
  spans the first chunk's end may be lost (`lexer.l:284`; compare the comment at
  210-212). An error in the second command of a line is shown in the text of a
  predefined type (`diagnostics.c:87-90`), and without predefined types it fails
  an assertion there. Errors in the configuration file do not affect the status;
  on a terminal only the last line does.
* Arguments: an operand that is the name of a file with a blank in it is cut there
  (`cdecl.c:142`). `-q` only suppresses the banner, while the manual says that it
  suppresses prompts. `-` reads the file of `-f`, if there is one. Completion offers
  "knroptions", for want of a comma in `autocomplete.c`.
* Lines on a terminal: a `\` and then a blank line fail the assertion at
  `util.c:312` (Session: "aborted"); the end of input within a continued line
  discards it silently. The caret of an error in a joined line counts the columns
  of all of it. A `\` at the end of a line glues two words on a terminal, and
  separates them in a file.
* Carets: of a line longer than the terminal is wide, the dots on the right may
  cover the token (`UnderDots`), which the comment at `diagnostics.c:51-52` excludes;
  `error_end_column` is compared with the columns without them. When a token past the
  right edge is nearly as long as the terminal is wide, the column of its first
  character is among the dots on the left, or left of the line, and the '^' is below
  something else or nothing (`NoRoom`; `diagnostics.c:138-165`). When the token that is
  wrong is a word with a synonym (`integer`, `constant`, `structure` and some twenty
  more), the lexer takes the length of the synonym (`lexer.l:275`, 322-323) from the
  column behind the word: the caret is shifted, and a first word `atomic`, shorter than
  its synonym, fails the assertion on the column. `ErrorShown` excludes these errors.
* A comment `/*` without an end loops in the lexer at the end of a file where flex's
  `input()` returns 0 there.
* The repair after a deletion in `red_black.c:203` has no test for the root. No one
  calls it.
* Entries of the typedef table themselves (not their ASTs) are never freed.

## 8. Plan

Done, in this order: the life of a command and its nodes, with reading, defining
and printing, since everything rests on it; then the table, the specifiers and the
session; then the checks and the commands in English under changing languages; the
arguments of the program; and the lines of a terminal and the carets.

Next:

1. **Proofs**: that the AST of a type is a tree, which gives `TypeOK` of Parser at the
   exit and that it implements AstHeap; `ReadRight` of gibberish, with an invariant
   that says what a declarator will mean by the operators still missing; `TypeOK` of English (the
   stack of qualifiers against bison's, for any depth). English and Checks walk ASTs
   with RECURSIVE operators, which the proof system does not take: the stacks would
   be split off into a module without them.
2. **Storage classes and qualifiers in gibberish**: `c_ast_take_storage`,
   `c_ast_take_typedef`, with TypeSpecifiers' bits in the AST of CAst, then in
   Printer.
3. **Blocks, pointers to member, trailing return types, array sizes** in gibberish.
4. **The lexer's patterns** as far as they move columns: comments, and lines continued
   in files. Synonyms are words of Session that begin no command.

Abstract specifications worth stating beyond AstHeap, NameTable and GetOpt: a
session as a sequence of (source, commands) that Session implements, to replace
`InOrder`; the typedef table as a partial function from names to types that only
grows.

## 9. Not modelled

* `set.c`: setting the language is in English; the other options are global
  variables that nothing modelled reads.
* `prompt.c`, `autocomplete.c`, the colours of `color.c`: strings for a terminal.
* `help.c`, `debug.c`, `literals.c`: printing, or constants.
* `util.c`, except `read_input_line`: wrappers of library calls.
* `src/lib` except getopt: templates of system headers, macros for portability, and
  functions that the C library of the build provides. Of getopt, what cdecl does not
  use: optional arguments, `+` or `-` first in the letters, `getopt_long_only`.
* `errors.c`: the warnings, which decide nothing, and the rules of gibberish only.
* `c_keyword.c`, `c_lang.c`: linear searches of constant tables. Only the order of
  the languages is used.
* `rb_node_delete`: dead code.
* Line numbers and the wording of messages.
* Of bison and flex: their generated code. Parser takes any sequence of
  reductions that the grammar allows; Session takes from flex that it asks for
  input when its buffer is empty, or has a word only, which may go on. `getline`, `malloc` and `exit` are modelled by
  what the code relies on.
