------------------------------ MODULE Scanner ------------------------------
(***************************************************************************)
(* internal/proxy/classifier.go: how the text of a statement is reduced to *)
(* the record that module Classifier classifies. A text is a sequence of   *)
(* bytes.                                                                  *)
(***************************************************************************)
EXTENDS Classifier, SequencesExt

CONSTANT
    Spelling      \* the words of Words other than "" and Other, as texts

Other == "other"
Byte == 0..255
LF == 10
CR == 13
Star == 42
Dash == 45
Slash == 47
Spaces == {9, 10, 11, 12, 13, 32}
Delimiters == {9, 10, 13, 32, 40}
Letters == (65..90) \cup (97..122)

\* Words are told apart by their spelling, in letters; Other is for the tokens that
\* ClassifyQuery has no case for, and "--" stands for no word (FirstToken).
ASSUME ScannerAssumption ==
    /\ {"", Other} \subseteq Words /\ "--" \notin Words
    /\ DOMAIN Spelling = Words \ {"", Other}
    /\ \A w \in DOMAIN Spelling : Spelling[w] \in Seq(Letters) /\ Spelling[w] # <<>> /\ Upper[w] # ""
    /\ \A v, w \in DOMAIN Spelling : Spelling[v] = Spelling[w] => v = w
    /\ \A to \in BOOLEAN : ClassifyQuery([word |-> Other, to |-> to]) = "WRITE"

From(s, i) == SubSeq(s, i, Len(s))

\* strings.TrimSpace.
TrimSpace(s) ==
    LET I == {i \in DOMAIN s : s[i] \notin Spaces}
    IN  IF I = {} THEN <<>> ELSE SubSeq(s, Min(I), Max(I))

\* The first position of a byte of B, 0 when there is none.
IndexOf(s, B) ==
    LET I == {i \in DOMAIN s : s[i] \in B} IN IF I = {} THEN 0 ELSE Min(I)

\* The state of a loop after n rounds of its body, a function.
Iterated(body, start, n) ==
    LET round[k \in 0..n] == IF k = 0 THEN start ELSE body[round[k - 1]]
    IN  round[n]

\* Mutant: comments do not nest.
MutFlat(depth) == 1

\* The depth after another "/*".
Deeper(depth) == depth + 1

\* A round of the loop over a block comment: i bytes of it are skipped. The loop stops
\* at the last byte when the comment is not closed.
SkipComment(s) ==
    [st \in [i: Nat, depth: Int, closed: BOOLEAN] |->
        LET next == SubSeq(s, st.i + 1, st.i + 2)
        IN  IF st.closed \/ st.i >= Len(s) - 1 THEN st
            ELSE CASE next = <<Slash, Star>> -> [st EXCEPT !.i = @ + 2, !.depth = Deeper(@)]
                   [] next = <<Star, Slash>> ->
                         [i |-> st.i + 2, depth |-> st.depth - 1, closed |-> st.depth = 1]
                   [] OTHER -> [st EXCEPT !.i = @ + 1]]

\* How long the comment is that s begins with.
CommentLen(s) == Iterated(SkipComment(s), [i |-> 0, depth |-> 0, closed |-> FALSE], Len(s)).i

\* Mutant: a line ends with a carriage return only.
MutCarriageReturn(s) == IndexOf(s, {CR})

LineEnd(s) == IndexOf(s, {LF})

\* A round of the loop of stripLeadingComments.
StripComment ==
    [sql \in Seq(Byte) |->
        LET s == TrimSpace(sql)
            eol == LineEnd(s)
        IN  CASE IsPrefix(<<Dash, Dash>>, s) -> IF eol = 0 THEN <<>> ELSE From(s, eol + 1)
              [] IsPrefix(<<Slash, Star>>, s) -> From(s, CommentLen(s) + 1)
              [] OTHER -> s]

\* A comment has two bytes at least.
stripLeadingComments(sql) == Iterated(StripComment, sql, Len(sql))

firstToken(s) ==
    LET i == IndexOf(s, Delimiters) IN IF i = 0 THEN s ELSE SubSeq(s, 1, i - 1)

\* A token that is no keyword, such as the empty one before a "(", is Other.
WordOf(s) ==
    LET W == {w \in DOMAIN Spelling : Spelling[w] = s}
    IN  IF W = {} THEN Other ELSE CHOOSE w \in W : TRUE

\* " TO " in either case, anywhere in the text.
HasTo(s) == \E i \in 1..(Len(s) - 3) :
    s[i] = 32 /\ s[i+1] \in {84, 116} /\ s[i+2] \in {79, 111} /\ s[i+3] = 32

\* The record that stands for a text: its lead is what keeps firstToken from finding the
\* word in the text as it was sent. Its effect and columns are the server's affair.
Reduced(sql) ==
    LET stripped == TrimSpace(stripLeadingComments(TrimSpace(sql)))
        lead == CASE sql = <<>> \/ firstToken(sql) = firstToken(stripped) -> "none"
                  [] sql # <<>> /\ firstToken(sql) # firstToken(stripped) ->
                        IF Head(sql) \in Spaces THEN "space" ELSE "comment"
    IN  [lead |-> lead, to |-> HasTo(stripped),
         word |-> IF stripped = <<>> THEN "" ELSE WordOf(firstToken(stripped)),
         effect |-> "read", cols |-> FALSE]
-----------------------------------------------------------------------------
(***************************************************************************)
(* External: how PostgreSQL reads the text, one byte at a time, up to its  *)
(* first word. Either line break ends a line comment. Block comments nest; *)
(* mode "block" at the end is a comment that is not closed, which the      *)
(* server refuses.                                                         *)
(***************************************************************************)
At(mode, depth, rest) == [mode |-> mode, depth |-> depth, rest |-> rest]

LexerStart == At("start", 0, <<>>)

TextMode(c) == IF c = Slash THEN "slash" ELSE IF c = Dash THEN "dash" ELSE "text"

BlockMode(c) == IF c = Star THEN "blockStar" ELSE IF c = Slash THEN "blockSlash" ELSE "block"

LexerStep(st, c) ==
    CASE st.mode = "start" -> IF c \in Spaces THEN st ELSE At(TextMode(c), st.depth, <<c>>)
      [] st.mode = "slash" -> IF c = Star THEN At("block", 1, <<>>)
                              ELSE At("text", st.depth, Append(st.rest, c))
      [] st.mode = "dash" -> IF c = Dash THEN At("line", st.depth, <<>>)
                             ELSE At("text", st.depth, Append(st.rest, c))
      [] st.mode = "line" -> IF c \in {LF, CR} THEN At("start", st.depth, st.rest) ELSE st
      [] st.mode = "text" -> At("text", st.depth, Append(st.rest, c))
      [] st.mode = "blockStar" /\ c = Slash ->
            At(IF st.depth = 1 THEN "start" ELSE "block", st.depth - 1, st.rest)
      [] st.mode = "blockSlash" /\ c = Star -> At("block", st.depth + 1, st.rest)
      [] OTHER -> At(BlockMode(c), st.depth, st.rest)

\* The state after reading s from the state st.
Lexer(st, s) ==
    LET state[i \in 0..Len(s)] == IF i = 0 THEN st ELSE LexerStep(state[i - 1], s[i])
    IN  state[Len(s)]

Lexed(sql) == Lexer(LexerStart, sql)

Closed(sql) == Lexed(sql).depth = 0

\* No carriage return is without its line feed.
LinesEndWithLF(sql) == \A i \in DOMAIN sql : sql[i] = CR => i < Len(sql) /\ sql[i + 1] = LF

\* The letters that what is left begins with.
LexedWord(sql) ==
    LET rest == Lexed(sql).rest
        i == IndexOf(rest, 0..64)
    IN  IF i = 0 THEN rest ELSE SubSeq(rest, 1, i - 1)
=============================================================================
