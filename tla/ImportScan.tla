----------------------------- MODULE ImportScan -----------------------------
(***************************************************************************)
(* dependency_tokens and import_names of src/spec.cpp.  A text is a        *)
(* sequence of characters; an identifier counts as one character, so that  *)
(* two identifiers never touch.  WordChars are the identifiers, those of   *)
(* the code: they start with a letter or an underscore, and a digit before *)
(* one is skipped like any other character without a role of its own.      *)
(***************************************************************************)
EXTENDS Naturals, Sequences, SequencesExt

CONSTANT WordChars

End == ""   \* after the last character

\* One character c, with the one after it.  skip is set when that one is taken too.
FlatBlock(s, c, next) ==   \* mutant: block comments do not nest
  IF c = "*" /\ next = ")" THEN [s EXCEPT !.mode = "code", !.skip = TRUE] ELSE s
InBlock(s, c, next) ==
  IF c = "(" /\ next = "*" THEN [s EXCEPT !.depth = @ + 1, !.skip = TRUE]
  ELSE IF c = "*" /\ next = ")"
    THEN [s EXCEPT !.depth = @ - 1, !.skip = TRUE, !.mode = IF s.depth = 1 THEN "code" ELSE "block"]
  ELSE s
InString(s, c, next) ==
  IF c = "\\" /\ next # End THEN [s EXCEPT !.skip = TRUE]
  ELSE IF c = "\"" THEN [s EXCEPT !.mode = "code"] ELSE s
InCode(s, c, next) ==
  IF c = "\\" /\ next = "*" THEN [s EXCEPT !.mode = "line"]
  ELSE IF c = "(" /\ next = "*" THEN [s EXCEPT !.mode = "block", !.depth = 1, !.skip = TRUE]
  ELSE IF c = "\"" THEN [s EXCEPT !.mode = "string"]
  ELSE IF c \in WordChars \cup {","} THEN [s EXCEPT !.out = Append(@, c)] ELSE s
ScanStep(s, c, next) ==
  IF s.skip THEN [s EXCEPT !.skip = FALSE]
  ELSE CASE s.mode = "block" -> InBlock(s, c, next)
         [] s.mode = "line" -> IF c = "\n" THEN [s EXCEPT !.mode = "code"] ELSE s
         [] s.mode = "string" -> InString(s, c, next)
         [] s.mode = "code" -> InCode(s, c, next)

\* dependency_tokens.
DependencyTokens(text) ==
  LET start == [mode |-> "code", depth |-> 0, skip |-> FALSE, out |-> <<>>]
      scanned[i \in 0 .. Len(text)] ==
        IF i = 0 THEN start
        ELSE ScanStep(scanned[i - 1], text[i], IF i < Len(text) THEN text[i + 1] ELSE End)
  IN scanned[Len(text)].out

\* import_names.  The names of the EXTENDS list that starts at j, and where it ends.
RECURSIVE ListEnd(_, _)
ListEnd(tokens, j) ==
  IF j + 1 <= Len(tokens) /\ tokens[j] = "," /\ tokens[j + 1] # "," THEN ListEnd(tokens, j + 2) ELSE j
RECURSIVE NamesFrom(_, _)
NamesFrom(tokens, i) ==
  IF i > Len(tokens) THEN <<>>
  ELSE IF tokens[i] = "EXTENDS" /\ i < Len(tokens) /\ tokens[i + 1] # ","
    THEN LET end == ListEnd(tokens, i + 2)
         IN [k \in 1 .. (end - i) \div 2 |-> tokens[i + 2 * k - 1]] \o NamesFrom(tokens, end)
  ELSE IF tokens[i] = "INSTANCE" /\ i < Len(tokens)
    THEN <<tokens[i + 1]>> \o NamesFrom(tokens, i + 2)
  ELSE NamesFrom(tokens, i + 1)
ImportNames(text) == NamesFrom(DependencyTokens(text), 1)

---------------------------------------------------------------------------
\* A module text as its author means it: pieces of code, comments and strings.  A
\* piece of code is what it imports and the tokens it is written with, with noise
\* between the tokens.
Spaced(tokens, noise) == FlattenSeq([i \in DOMAIN tokens |-> <<tokens[i]>> \o noise])
=============================================================================
