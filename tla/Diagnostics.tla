------------------------------ MODULE Diagnostics ------------------------------
(***************************************************************************)
(* Where an error is shown (diagnostics.c): the part of the line that fits *)
(* in the terminal, and the column of the '^' below it.                    *)
(*                                                                         *)
(* A line is a sequence of classes of characters.  As in C its columns     *)
(* start at 0, so column c is the character line[c + 1], and column        *)
(* Len(line) is the null that ends it.                                     *)
(***************************************************************************)
EXTENDS Integers, Sequences, FiniteSets, FiniteSetsExt

CONSTANT TermColumns \* get_term_columns()

\* More than the dots on both sides take, and a column for the '^'.
ASSUME DiagnosticsAssumption == TermColumns \in Nat /\ TermColumns > 8

Char == {"space", "alnum", "punct", "newline"}
Class(char) == IF char = "newline" THEN "space" ELSE char

Abs(n) == IF n < 0 THEN -n ELSE n

MORE_LEN == 3   \* of "..."
PROMPT_LEN == 7 \* of "cdecl> "
Hidden == -1

\* The first token of line from column c on: characters of one class.
token_len(line, c) ==
  Min({n \in 1..Len(line) - c :
         c + n = Len(line) \/ Class(line[c + n + 1]) # Class(line[c + 1])})

\* When the user has typed the line, the '^' goes below it.
print_caret_typed(error_column) == (error_column + PROMPT_LEN) % TermColumns

\* Otherwise the line is printed, cut on either side if it is too long, and the
\* '^' below it.  The result is the column of the line that the '^' is below, or
\* Hidden if it is below dots or nothing.
CutLine(input_line_len, column, token_columns) ==
  LET term_columns == TermColumns - 1
      error_end_column == column + token_columns - 1
      long == input_line_len > term_columns
      fit == IF long THEN term_columns ELSE input_line_len
      left == error_end_column > fit
      right == long /\ error_end_column < input_line_len - 1
      upTo == IF right THEN fit - MORE_LEN ELSE fit
      caret == IF left THEN upTo - token_columns ELSE column \* %*s takes |caret|
      print_offset == IF left THEN MORE_LEN + (column - caret) ELSE 0
      dots == IF left THEN MORE_LEN ELSE 0
      below == print_offset + Abs(caret) - dots
      ends == print_offset + upTo - dots
  IN  IF Abs(caret) < dots \/ below > ends \/ (below = ends /\ ends < input_line_len)
      THEN Hidden ELSE below

\* The line without its newline; the column before the null that ends it, for it.
print_caret(line, error_column) ==
  LET input_line_len ==
        IF line # <<>> /\ line[Len(line)] = "newline" THEN Len(line) - 1 ELSE Len(line)
      column == IF error_column > 0 /\ error_column = Len(line)
                THEN error_column - 1 ELSE error_column
  IN  CutLine(input_line_len, column, token_len(line, column))
=============================================================================
