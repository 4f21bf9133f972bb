------------------------- MODULE MigrationStatements -------------------------
(***************************************************************************)
(* splitMigrationStatements, the scanner that cuts a migration file into   *)
(* the statements CockroachDB runs one by one, and dollarQuoteTagAt.       *)
(*                                                                         *)
(* A script is a sequence of characters. The characters the scanner tells  *)
(* apart are themselves ("nl" is the newline); "E" is the letter that      *)
(* makes a string one with backslash escapes, "a" and "b" stand for the    *)
(* other letters, the digits and the underscore of a dollar-quote tag, and *)
(* "(" for every other character.                                          *)
(*                                                                         *)
(* The model writes a script lexeme by lexeme, in the language of          *)
(* PostgreSQL and CockroachDB and not in the scanner's idea of it, so that *)
(* where its statements end is known without scanning it: at the           *)
(* terminators that are lexemes of their own.                              *)
(***************************************************************************)
EXTENDS Naturals, Sequences, SequencesExt

CONSTANT MaxLexemes     \* bound on the lexemes of a script

VARIABLES
    script,     \* the lexemes written so far
    open        \* the last lexeme leaves a construct unterminated

vars == <<script, open>>

------------------------------------------------------------------------------
\* The scanner.

Blank == {" ", "nl"}
TagCharacter == {"a", "b", "E"}

\* input[index:] begins with the given characters.
HasPrefix(input, index, prefix) ==
    /\ index + Len(prefix) - 1 <= Len(input)
    /\ SubSeq(input, index, index + Len(prefix) - 1) = prefix

Trimmed(text) ==
    LET kept == {i \in DOMAIN text : text[i] \notin Blank}
    IN  IF kept = {} THEN << >> ELSE SubSeq(text, Min(kept), Max(kept))

\* The tag of the dollar quote that opens at index, or << >>.
dollarQuoteTagAt(input, index) ==
    LET ends == {e \in index + 1 .. Len(input) :
                    /\ input[e] = "$"
                    /\ \A i \in index + 1 .. e - 1 : input[i] \in TagCharacter}
    IN  IF input[index] = "$" /\ ends /= {} THEN SubSeq(input, index, Min(ends)) ELSE << >>

\* Adds the text up to the terminator, unless it is blank.
Cut(s, input, end) ==
    LET statement == Trimmed(SubSeq(input, s.start, end))
    IN  IF statement = << >> THEN s.statements ELSE Append(s.statements, statement)

Advance(s, by) == [s EXCEPT !.index = @ + by]
Enter(s, mode, by) == [Advance(s, by) EXCEPT !.mode = mode]

InDollarQuote(s, input) ==
    IF HasPrefix(input, s.index, s.tag) THEN Enter(s, "plain", Len(s.tag)) ELSE Advance(s, 1)

InLineComment(s, input) ==
    IF input[s.index] = "nl" THEN Enter(s, "plain", 1) ELSE Advance(s, 1)

\* Mutated form: the first end of a comment ends all comments.
InBlockCommentFlat(s, input) ==
    IF HasPrefix(input, s.index, <<"*", "/">>) THEN Enter(s, "plain", 2) ELSE Advance(s, 1)

\* Block comments nest: the mode ends when the outermost one does.
InBlockComment(s, input) ==
    IF HasPrefix(input, s.index, <<"/", "*">>) THEN [Advance(s, 2) EXCEPT !.depth = @ + 1]
    ELSE IF HasPrefix(input, s.index, <<"*", "/">>)
    THEN [Advance(s, 2) EXCEPT !.depth = @ - 1, !.mode = IF s.depth = 1 THEN "plain" ELSE @]
    ELSE Advance(s, 1)

\* A doubled quote, and in a string a backslash with what follows it, do not end it.
InQuotes(s, input, quote) ==
    IF quote = "'" /\ input[s.index] = "\\" /\ s.index < Len(input) THEN Advance(s, 2)
    ELSE IF HasPrefix(input, s.index, <<quote, quote>>) THEN Advance(s, 2)
    ELSE IF input[s.index] = quote THEN Enter(s, "plain", 1)
    ELSE Advance(s, 1)

InPlain(s, input) ==
    LET here == input[s.index]
        tag == dollarQuoteTagAt(input, s.index)
    IN  IF HasPrefix(input, s.index, <<"-", "-">>) THEN Enter(s, "line", 2)
        ELSE IF HasPrefix(input, s.index, <<"/", "*">>)
        THEN [Enter(s, "block", 2) EXCEPT !.depth = 1]
        ELSE IF here = "'" THEN Enter(s, "single", 1)
        ELSE IF here = "\"" THEN Enter(s, "double", 1)
        ELSE IF tag /= << >> THEN [Enter(s, "dollar", Len(tag)) EXCEPT !.tag = tag]
        ELSE IF here = ";"
        THEN [Advance(s, 1) EXCEPT !.start = s.index + 1,
                                   !.statements = Cut(s, input, s.index - 1)]
        ELSE Advance(s, 1)

\* One iteration of the loop.
Scan(s, input) ==
    CASE s.mode = "dollar" -> InDollarQuote(s, input)
      [] s.mode = "line"   -> InLineComment(s, input)
      [] s.mode = "block"  -> InBlockComment(s, input)
      [] s.mode = "single" -> InQuotes(s, input, "'")
      [] s.mode = "double" -> InQuotes(s, input, "\"")
      [] s.mode = "plain"  -> InPlain(s, input)

\* The loop; every iteration advances.
ScanAll(first, input) ==
    LET after[n \in 0 .. Len(input)] ==
            IF n = 0 THEN first
            ELSE LET s == after[n - 1]
                 IN  IF s.index > Len(input) THEN s ELSE Scan(s, input)
    IN  after[Len(input)]

splitMigrationStatements(input) ==
    LET first == [mode |-> "plain", depth |-> 0, tag |-> << >>, start |-> 1, index |-> 1,
                  statements |-> << >>]
        last == ScanAll(first, input)
    IN  IF last.mode \in {"single", "double", "block", "dollar"}
        THEN [ok |-> FALSE, statements |-> << >>]
        ELSE [ok |-> TRUE, statements |-> Cut(last, input, Len(input))]

------------------------------------------------------------------------------
\* The scripts.

Terminator == <<";">>

\* Words, blanks, parameters, strings, identifiers, comments and dollar quotes,
\* with a terminator or another construct's delimiter wherever one may stand. A
\* backslash is an escape in an E string and a character like others elsewhere.
Lexemes == {
    Terminator,
    <<"a">>, <<" ">>, <<"nl">>, <<"(">>, <<"-">>, <<"/">>, <<"*">>,
    <<"$", "b">>,
    <<"'", ";", "'">>,
    <<"'", "'", "'", ";", "-", "-", "'">>,
    <<"'", "\\", ";", "'">>,
    <<"'", "\\", "\\", "'">>,
    <<"E", "'", "\\", "'", ";", "'">>,
    <<"\"", ";", "'", "\"">>,
    <<"\"", "\"", "\"", ";", "\"">>,
    <<"-", "-", ";", "'", "/", "*", "nl">>,
    <<"/", "*", ";", "-", "-", "'", "*", "/">>,
    <<"/", "*", "/", "*", "*", "/", ";", "*", "/">>,
    <<"$", "$", ";", "'", "$", "$">>,
    <<"$", "a", "$", ";", "$", "$", "$", "b", "$", "$", "a", "$">>}

\* Beginnings of constructs that must be closed.
Unterminated == {
    <<"'", "a">>, <<"'", ";", "'", "'">>, <<"E", "'", ";", "\\", "'">>,
    <<"\"", ";">>, <<"\"", "a", "\"", "\"">>,
    <<"/", "*", "/", "*", "*", "/">>,
    <<"$", "$", ";">>, <<"$", "a", "$", "$", "b", "$">>}

\* What the scanner is known to read differently from the database, which takes the
\* quote after a backslash for the end of an ordinary string, or for the first of a
\* doubled one, and dollar signs for a part of the identifier before them.
Misread == {<<"'", "\\", "'">>, <<"'", ";", "\\", "'">>, <<"a", "$", "b", "$">>}
MisreadUnterminated == {<<"'", "\\", "'", "'">>}

\* What two neighbours may not form: another token. Identifiers and parameters
\* run on into letters and dollar signs, signs into comment delimiters, and a
\* quote doubles the quote before it.
Separate(left, right) ==
    LET l == Last(left)
        r == Head(right)
    IN  /\ ~(l \in TagCharacter /\ r \in {"$", "E"})
        /\ ~(l \in {"-", "/", "*"} /\ r \in {"-", "/", "*"})
        /\ ~(l = "$" /\ r \in TagCharacter \cup {"$"})
        /\ ~(l \in {"'", "\""} /\ r = l)

\* Nothing is asked about the script any more, so nothing is added to it.
HasMisread == script /= << >> /\ Last(script) \in Misread \cup MisreadUnterminated

Init ==
    /\ script = << >>
    /\ open = FALSE

Write(lexeme, unterminated) ==
    /\ ~open /\ ~HasMisread
    /\ Len(script) < MaxLexemes
    /\ script /= << >> => Separate(Last(script), lexeme)
    /\ script' = Append(script, lexeme)
    /\ open' = unterminated

Next ==
    \/ \E lexeme \in Lexemes \cup Misread : Write(lexeme, FALSE)
    \/ \E lexeme \in Unterminated \cup MisreadUnterminated : Write(lexeme, TRUE)

Spec == Init /\ [][Next]_vars
------------------------------------------------------------------------------
\* Properties.

Text(lexemes) == FlattenSeq(lexemes)

\* The statements of the script: what stands between its terminators.
Statements ==
    LET ends == <<0>> \o SelectSeq([i \in DOMAIN script |-> i],
                                   LAMBDA i : script[i] = Terminator) \o <<Len(script) + 1>>
        piece(i) == Trimmed(Text(SubSeq(script, ends[i] + 1, ends[i + 1] - 1)))
    IN  SelectSeq([i \in 1 .. Len(ends) - 1 |-> piece(i)], LAMBDA p : p /= << >>)

\* splitMigrationStatements cuts a migration at its statement terminators and
\* nowhere else, whatever semicolons and delimiters its strings, identifiers,
\* comments and function bodies contain, loses no text, and refuses a script that
\* ends inside a construct instead of running a part of it. Nothing is said of a
\* script with one of the lexemes the scanner is known to misread; the migrations
\* of the repository have none.
SplitsAtTerminators ==
    LET result == splitMigrationStatements(Text(script))
    IN  ~HasMisread =>
            /\ result.ok = ~open
            /\ result.ok => result.statements = Statements
==============================================================================
