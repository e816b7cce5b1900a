-------------------------------- MODULE More --------------------------------
(***************************************************************************)
(* more/main.c: the options, then one line of the file after another, cut  *)
(* off or folded at the width of the screen.                               *)
(*                                                                         *)
(* A line of the file is its number of characters before the newline, and  *)
(* a character is its place <<line, position>>: what the properties tell   *)
(* apart is which characters come out and where rows end.  Lines are       *)
(* shorter than the buffer of 1024 bytes.                                  *)
(***************************************************************************)
EXTENDS Integers, Sequences, SequencesExt

CONSTANTS
    Files,        \* records [text: lengths of the lines, ended: the last has its newline]
    CommandLines, \* the arguments before the name of the file
    Numeral       \* the arguments that begin with a number, and what atoi() makes of them

ASSUME MoreAssumption ==
    /\ Numeral \in [DOMAIN Numeral -> Int]
    /\ \A file \in Files : file.text \in Seq(Nat) /\ (file.text # <<>> \/ file.ended)

VARIABLES
    argv,           \* the arguments still to be read
    screenSize, startline, isShowNumbers, isFold,
    inp,            \* the open file: lines read, and whether its end was met
    contents,       \* what it contains
    len, j,         \* of the line in the buffer: its length, and the loop's index
    i,              \* the number of the line
    out,            \* what has been printed
    more_pc

moreVars == <<argv, screenSize, startline, isShowNumbers, isFold, inp, contents, len, j, i, out, more_pc>>
options == <<argv, screenSize, startline, isShowNumbers, isFold>>

NewLine == <<>>        \* printed by printFile(), not read from the file
Number(n) == <<n>>     \* "%d - "

MoreInit ==
    /\ argv \in CommandLines
    /\ screenSize = 80 /\ startline = 0 /\ isShowNumbers = FALSE /\ isFold = FALSE
    /\ contents \in Files
    /\ inp = [read |-> 0, eof |-> FALSE]
    /\ len = 0 /\ j = 0 /\ i = 0
    /\ out = <<>>
    /\ more_pc = "options"

(* Whatever follows +num or -num is taken for a number: another option is  *)
(* 0, and so is the name of the file.                                      *)
Atoi(args) == IF args # <<>> /\ Head(args) \in DOMAIN Numeral THEN Numeral[Head(args)] ELSE 0

ParseNumber ==
    /\ more_pc = "options" /\ argv # <<>>
    /\ \/ Head(argv) = "+num" /\ screenSize' = Atoi(Tail(argv)) /\ UNCHANGED startline
       \/ Head(argv) = "-num" /\ startline' = Atoi(Tail(argv)) /\ UNCHANGED screenSize
    /\ argv' = SubSeq(argv, 3, Len(argv))
    /\ UNCHANGED <<isShowNumbers, isFold, inp, contents, len, j, i, out, more_pc>>

ParseSwitch ==
    /\ more_pc = "options" /\ argv # <<>>
    /\ Head(argv) \in {"-N", "-F"}
    /\ isShowNumbers' = (isShowNumbers \/ Head(argv) = "-N")
    /\ isFold' = (isFold \/ Head(argv) = "-F")
    /\ argv' = Tail(argv)
    /\ UNCHANGED <<screenSize, startline, inp, contents, len, j, i, out, more_pc>>

ParseError ==
    /\ more_pc = "options" /\ argv # <<>>
    /\ Head(argv) \notin {"+num", "-num", "-N", "-F"}
    /\ more_pc' = "error"
    /\ UNCHANGED <<options, inp, contents, len, j, i, out>>

(* fopen() failed: the program returns 0 all the same.                     *)
CannotOpen ==
    /\ more_pc = "options" /\ argv = <<>>
    /\ more_pc' = "unopened"
    /\ UNCHANGED <<options, inp, contents, len, j, i, out>>

Lines == Len(contents.text)

(* How many characters make a row: the remainder of j + 1 by a negative    *)
(* width is 0 when that by its absolute value is.                          *)
Columns == IF screenSize < 0 THEN -screenSize ELSE screenSize

(* The first `startline' calls of getline(): none when it is negative.     *)
Skipped == IF startline < 0 THEN 0 ELSE startline

SkipLines ==
    /\ more_pc = "options" /\ argv = <<>>
    /\ inp' = [read |-> Min({Skipped, Lines}),
               eof  |-> Skipped > Lines \/ (Skipped = Lines /\ ~contents.ended)]
    /\ more_pc' = "lines"
    /\ UNCHANGED <<options, contents, len, j, i, out>>

(* With its newline, which the last line may lack.                         *)
LengthOf(line) == contents.text[line] + (IF line < Lines \/ contents.ended THEN 1 ELSE 0)

(* At the end of the file getline() leaves the cleared buffer as it is.    *)
GetLine ==
    /\ more_pc = "lines" /\ ~inp.eof
    /\ IF inp.read < Lines
       THEN /\ inp' = [read |-> inp.read + 1, eof |-> inp.read + 1 = Lines /\ ~contents.ended]
            /\ len' = LengthOf(inp.read + 1)
       ELSE /\ inp' = [inp EXCEPT !.eof = TRUE]
            /\ len' = 0
    /\ out' = IF isShowNumbers THEN Append(out, Number(i)) ELSE out
    /\ j' = 0
    /\ more_pc' = "chars"
    /\ UNCHANGED <<options, contents, i>>

(* Mutant: the width is tested with the index, not the count.              *)
PrintCharByIndex ==
    /\ more_pc = "chars" /\ j < len /\ Columns # 0
    /\ LET full == j % Columns = 0
       IN  /\ out' = out \o <<<<inp.read, j + 1>>>> \o (IF full /\ isFold THEN <<NewLine>> ELSE <<>>)
           /\ IF full /\ ~isFold
              THEN more_pc' = "cut" /\ UNCHANGED j
              ELSE j' = j + 1 /\ UNCHANGED more_pc
    /\ UNCHANGED <<options, inp, contents, len, i>>

PrintChar ==
    /\ more_pc = "chars" /\ j < len /\ Columns # 0
    /\ LET full == (j + 1) % Columns = 0
       IN  /\ out' = out \o <<<<inp.read, j + 1>>>> \o (IF full /\ isFold THEN <<NewLine>> ELSE <<>>)
           /\ IF full /\ ~isFold
              THEN more_pc' = "cut" /\ UNCHANGED j
              ELSE j' = j + 1 /\ UNCHANGED more_pc
    /\ UNCHANGED <<options, inp, contents, len, i>>

(* A screen of width 0: the remainder of a division by 0.                  *)
DivideByZero ==
    /\ more_pc = "chars" /\ j < len /\ Columns = 0
    /\ out' = Append(out, <<inp.read, j + 1>>)
    /\ more_pc' = "killed"
    /\ UNCHANGED <<options, inp, contents, len, j, i>>

(* Mutant: the row that was cut off is not ended.                          *)
EndLineOpen ==
    /\ more_pc = "cut" \/ (more_pc = "chars" /\ j = len)
    /\ i' = i + 1
    /\ more_pc' = "lines"
    /\ UNCHANGED <<options, inp, contents, len, j, out>>

EndLine ==
    /\ more_pc = "cut" \/ (more_pc = "chars" /\ j = len)
    /\ out' = IF j < len THEN Append(out, NewLine) ELSE out
    /\ i' = i + 1
    /\ more_pc' = "lines"
    /\ UNCHANGED <<options, inp, contents, len, j>>

EndOfFile ==
    /\ more_pc = "lines" /\ inp.eof
    /\ more_pc' = "done"
    /\ UNCHANGED <<options, inp, contents, len, j, i, out>>

MoreNext ==
    \/ ParseNumber \/ ParseSwitch \/ ParseError \/ CannotOpen
    \/ SkipLines \/ GetLine \/ PrintChar \/ DivideByZero \/ EndLine \/ EndOfFile

MoreSpec == MoreInit /\ [][MoreNext]_moreVars

----------------------------------------------------------------------------
IsText(token) == Len(token) = 2
EndsRow(token) == token = NewLine \/ (IsText(token) /\ token[2] > contents.text[token[1]])
InRow(a, b) == {k \in a .. b : IsText(out[k]) /\ ~EndsRow(out[k])}

(* more/main.c:74-82.  No row is wider than the screen, line numbers       *)
(* aside: a line that is cut off or folded ends its row, and so does every *)
(* line before the next one starts.  A width of -n is one of n columns.    *)
RowsFit ==
    more_pc # "killed" =>
        \A a, b \in DOMAIN out :
            (a <= b /\ \A k \in a .. b : ~EndsRow(out[k])) => Cardinality(InRow(a, b)) <= Columns

(* Of a line, what comes out, and the order of two characters.             *)
Visible(line) == {p \in 1 .. LengthOf(line) : isFold \/ p <= Columns}
Before(c, d) == c[1] < d[1] \/ (c[1] = d[1] /\ c[2] < d[2])
Texts == {k \in DOMAIN out : IsText(out[k])}

(* more/main.c:72-79.  Folding loses, repeats and reorders no character of *)
(* the lines after those skipped, and without it each of them              *)
(* shows as many characters as fit.                                        *)
KeepsText ==
    /\ more_pc = "done" =>
           {out[k] : k \in Texts} = UNION {{line} \X Visible(line) : line \in Skipped + 1 .. Lines}
    /\ \A a, b \in Texts : a < b => Before(out[a], out[b])
=============================================================================
