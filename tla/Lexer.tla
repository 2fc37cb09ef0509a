-------------------------------- MODULE Lexer --------------------------------
(***************************************************************************)
(* The lexer (lexer.cpp and the machine re2c generated, lexer_re2c.cpp):   *)
(* it sees the text through a buffer that is refilled when the automaton   *)
(* is about to run out of characters.  A refill moves what has been read   *)
(* of the current token to the front, so the pointers, and with them all   *)
(* places in the source, are relative to a window that moves.              *)
(*                                                                         *)
(* Pointers are offsets from the buffer.  The end of the text is marked by *)
(* kYYMaxFill zeros behind it.  One step visits one label of the automaton.*)
(***************************************************************************)
EXTENDS LexerTables, Integers, Sequences, FiniteSets

CONSTANTS
  Texts,            \* the texts that may be read
  kMaxBufferSize,
  SizeMax           \* bound: size_t counts modulo this

kYYMaxFill == 7

\* Texts are strings.
ASSUME LexerAssumption ==
  /\ kMaxBufferSize \in Nat /\ SizeMax \in Nat \ {0}
  /\ \A t \in Texts : Len(t) \in Nat

\* No place in a text is out of size_t's reach.
ASSUME OffsetsAssumption ==
  \A t \in Texts : Len(t) + 2 * (kMaxBufferSize + kYYMaxFill) < SizeMax

VARIABLES
  text, position,   \* the stream, and what has been read of it
  m_lexerState,
  m_curToken,
  label, yyaccept,  \* where the automaton is, and where its last mark leads
  status,           \* "scanning", or what scan() has returned last
  scanned,          \* history: the tokens returned so far, and where they lie in the text
  moved             \* history: the window has moved since the line began

stream == <<text, position>>
vars == <<text, position, m_lexerState, m_curToken, label, yyaccept, status, scanned, moved>>

Place == 0 .. kMaxBufferSize + kYYMaxFill - 1
Nowhere == SizeMax - 1
\* What lies in the buffer: characters, zeros, and what was never written.
Character == {"NUL", "?"} \cup UNION {{SubSeq(t, i, i) : i \in 1 .. Len(t)} : t \in Texts}

LexerState ==
  [buffer : [Place -> Character], limit : Int, current : Int, marker : Int, token : Int,
   lineNum : Nat, streamReadOffset : Nat, lineStartOffset : Nat, tokenLineStart : Nat,
   tokenColumnStart : Nat, eof : BOOLEAN]

\* The buffer is not initialised.
Init ==
  /\ text \in Texts /\ position = 0
  /\ m_lexerState =
       [buffer |-> [i \in Place |-> "?"], limit |-> kMaxBufferSize, current |-> kMaxBufferSize,
        marker |-> kMaxBufferSize, token |-> kMaxBufferSize, lineNum |-> 1,
        streamReadOffset |-> Nowhere, lineStartOffset |-> 0, tokenLineStart |-> 0,
        tokenColumnStart |-> 0, eof |-> FALSE]
  /\ m_curToken = [token |-> "TokenCount"]
  /\ label = 0 /\ yyaccept = 32
  /\ status = "scanning"
  /\ scanned = <<>> /\ moved = FALSE

-----------------------------------------------------------------------------
(* Places in the source *)

getStreamOffset(s) == (s.streamReadOffset + s.token) % SizeMax

getColumnOffsetStart(s) ==
  IF s.streamReadOffset = Nowhere THEN 1
  ELSE (s.streamReadOffset + s.token - s.lineStartOffset + 1) % SizeMax

getColumnOffsetEnd(s) == (s.streamReadOffset + s.current - s.lineStartOffset) % SizeMax

\* Faulty variant: the line starts where the token does.
FaultyUpdateLineStartOffset(s) ==
  [s EXCEPT !.lineNum = @ + 1, !.lineStartOffset = (s.streamReadOffset + s.token) % SizeMax]
updateLineStartOffset(s) ==
  [s EXCEPT !.lineNum = @ + 1, !.lineStartOffset = (s.streamReadOffset + s.current) % SizeMax]

markScanBegin(s) ==
  LET at == [s EXCEPT !.token = s.current, !.tokenLineStart = s.lineNum]
  IN [at EXCEPT !.tokenColumnStart = getColumnOffsetStart(at)]

-----------------------------------------------------------------------------
(* LexerState::fill *)

\* There is no more, or the token leaves no room for as much as is needed.
Refused(s, size) == s.eof \/ s.token < size

\* A zero byte of a text is written "~".
CharAt(i) == LET c == SubSeq(text, i + 1, i + 1) IN IF c = "~" THEN "NUL" ELSE c
\* ByteStream::read of what is in front of the token.
BytesRead(s) ==
  IF s.token <= Len(text) - position THEN s.token ELSE Len(text) - position
Pads(end) == end < kMaxBufferSize

\* Faulty variant of limit: it is not counted that zeros follow.
FaultyLimitOf(end) == end
LimitOf(end) == IF Pads(end) THEN end + kYYMaxFill ELSE end

Refilled(s) ==
  LET left == s.limit - s.token
      end == left + BytesRead(s)
  IN [s EXCEPT
        !.streamReadOffset = (left + position) % SizeMax,
        !.buffer = [i \in Place |->
           IF i < left THEN s.buffer[s.token + i]
           ELSE IF i < end THEN CharAt(position + i - left)
           ELSE IF Pads(end) /\ i < end + kYYMaxFill THEN "NUL" ELSE s.buffer[i]],
        !.limit = LimitOf(end), !.current = @ - s.token, !.marker = @ - s.token, !.token = 0,
        !.eof = Pads(end)]

-----------------------------------------------------------------------------
(* Lexer::re2cExecute *)

char(s) == s.buffer[s.current]

\* The label's step and mark.  Faulty variant: every label marks its place.
Stepped(row, s) == IF row.step THEN [s EXCEPT !.current = @ + 1] ELSE s
FaultyMarks(row, s) == [s EXCEPT !.marker = s.current]
Marks(row, s) == IF row.mark = 0 THEN s ELSE [s EXCEPT !.marker = s.current]
At(row, s) == Marks(row, Stepped(row, s))

Suffices(row, s) == s.limit - s.current >= row.fill

Branches(row, s) ==
  /\ m_lexerState' = s
  /\ label' = Goes(row, char(s))
  /\ UNCHANGED status

EndOfStream(s) ==
  /\ m_lexerState' = s
  /\ status' = "EOS"
  /\ UNCHANGED <<stream, label, scanned, moved, m_curToken>>

\* A character is looked at, after a refill if fewer than the label needs are left.
Look(row, s) ==
  /\ \/ /\ Suffices(row, s)
        /\ Branches(row, s)
        /\ UNCHANGED <<stream, scanned, moved, m_curToken>>
     \/ /\ ~Suffices(row, s) /\ ~Refused(s, row.fill)
        /\ Branches(row, Refilled(s))
        /\ position' = position + BytesRead(s)
        /\ moved' = (position > 0)
        /\ UNCHANGED <<text, scanned, m_curToken>>
     \/ /\ ~Suffices(row, s) /\ Refused(s, row.fill)
        /\ EndOfStream(s)

\* The top of the loop.
Begin ==
  /\ status = "scanning" /\ label = 0
  /\ yyaccept' = 32
  /\ Look(Start, markScanBegin(m_lexerState))

Visiting(ends) ==
  /\ status = "scanning" /\ label \in DOMAIN Automaton
  /\ Automaton[label].ends = "none" <=> ~ends

Visit ==
  /\ Visiting(FALSE)
  /\ LET row == Automaton[label] IN
     /\ yyaccept' = IF row.mark = 0 THEN yyaccept ELSE row.mark
     /\ Look(row, At(row, m_lexerState))

\* yy75: back to the last mark.
GiveBack ==
  /\ status = "scanning" /\ label = 75
  /\ m_lexerState' = [m_lexerState EXCEPT !.current = m_lexerState.marker]
  /\ label' = yyaccept
  /\ UNCHANGED <<stream, m_curToken, yyaccept, status, scanned, moved>>

\* What is not a token.
Skip ==
  /\ Visiting(TRUE)
  /\ LET row == Automaton[label] IN
     /\ row.ends \in {"blank", "newline"}
     /\ label' = 0
     /\ IF row.ends = "blank"
        THEN m_lexerState' = Stepped(row, m_lexerState) /\ UNCHANGED moved
        ELSE m_lexerState' = updateLineStartOffset(Stepped(row, m_lexerState)) /\ moved' = FALSE
  /\ UNCHANGED <<stream, m_curToken, yyaccept, status, scanned>>

\* A zero: the first of those behind the text, or one of the text, which goes on as if
\* another character had been read.
Zero ==
  /\ Visiting(TRUE)
  /\ LET row == Automaton[label]  s == Stepped(row, m_lexerState) IN
     /\ row.ends = "end"
     /\ IF s.limit - s.token = kYYMaxFill
        THEN EndOfStream(s) /\ UNCHANGED yyaccept
        ELSE /\ m_lexerState' = s /\ label' = 4
             /\ UNCHANGED <<stream, m_curToken, yyaccept, status, scanned, moved>>

\* Where the text ends in the buffer, or what has been read of it so far.
End(s) == IF s.eof THEN s.limit - kYYMaxFill ELSE s.limit
\* The place in the text of a place in the buffer, with so much of the text read.
PlaceOf(s, read, at) == read - End(s) + at

\* Lexer::setToken
Named ==
  {"Identifier", "IdentifierMulti", "IntegerLiteral", "IntegerLiteralI8", "IntegerLiteralI16",
   "IntegerLiteralI32", "IntegerLiteralI64", "IntegerLiteralU8", "IntegerLiteralU16",
   "IntegerLiteralU32", "IntegerLiteralU64", "DecimalLiteral", "DecimalLiteral32",
   "DecimalLiteral64", "True", "False", "Self"}
Lexeme(s) == [i \in 1 .. s.current - s.token |-> s.buffer[s.token + i - 1]]
TokenInfo(token, s) ==
  [token |-> token, lineStart |-> s.tokenLineStart, lineEnd |-> s.lineNum,
   columnStart |-> s.tokenColumnStart, columnEnd |-> getColumnOffsetEnd(s),
   tokenOffsetInStream |-> getStreamOffset(s),
   tokenStr |-> IF token \in Named THEN Lexeme(s) ELSE <<>>]

setToken ==
  /\ Visiting(TRUE)
  /\ LET row == Automaton[label]  s == Stepped(row, m_lexerState) IN
     /\ row.ends \notin {"blank", "newline", "end"}
     /\ m_lexerState' = s
     /\ m_curToken' = TokenInfo(row.ends, s)
     /\ status' = IF row.ends = "TokenCount" THEN "Error" ELSE "Ok"
     /\ scanned' = Append(scanned, [info |-> m_curToken', moved |-> moved,
                                    from |-> PlaceOf(s, position, s.token),
                                    to |-> PlaceOf(s, position, s.current)])
  /\ UNCHANGED <<stream, label, yyaccept, moved>>

\* STParser::parse asks for the next token, until there is none or an error.
scan ==
  /\ status = "Ok"
  /\ status' = "scanning" /\ label' = 0
  /\ UNCHANGED <<stream, m_lexerState, m_curToken, yyaccept, scanned, moved>>

Next == Begin \/ Visit \/ GiveBack \/ Skip \/ Zero \/ setToken \/ scan

Spec == Init /\ [][Next]_vars

-----------------------------------------------------------------------------
TypeOK ==
  /\ text \in Texts /\ position \in 0 .. Len(text)
  /\ m_lexerState \in LexerState
  /\ label \in 0 .. 220 /\ yyaccept \in 0 .. 220
  /\ status \in {"scanning", "Ok", "Error", "EOS"}
  /\ moved \in BOOLEAN

TextAt(place) == IF place < Len(text) THEN CharAt(place) ELSE "NUL"

\* With so much of the text read, the character looked at lies in the buffer, and is the
\* one that follows those of the token in the text, or one of the zeros behind it.
Sees(s, read) ==
  /\ 0 <= s.token /\ s.token <= s.current
  /\ s.current < s.limit /\ s.limit <= kMaxBufferSize + kYYMaxFill
  /\ 0 <= PlaceOf(s, read, s.token)
  /\ char(s) = TextAt(PlaceOf(s, read, s.current))

SeesText(row, s) ==
  /\ Suffices(row, s) => Sees(s, position)
  /\ ~Suffices(row, s) /\ ~Refused(s, row.fill)
       => Suffices(row, Refilled(s)) /\ Sees(Refilled(s), position + BytesRead(s))

\* However the text lies in the buffer, the automaton never looks at a character that
\* is not there, nor at one that a refill has moved or not brought: each label makes sure
\* of as many as it may need until the next one does, the window moves without a gap, and
\* the zeros behind the end stop every token.
ReadsInsideBuffer ==
  status = "scanning" =>
    /\ label = 0 => SeesText(Start, markScanBegin(m_lexerState))
    /\ label \in DOMAIN Automaton /\ Automaton[label].ends = "none" =>
         SeesText(Automaton[label], At(Automaton[label], m_lexerState))

-----------------------------------------------------------------------------
NewlineAt(t, p) == p < Len(t) /\ SubSeq(t, p + 1, p + 1) = Newline
LineOf(t, p) == Cardinality({i \in 0 .. p - 1 : NewlineAt(t, i)}) + 1
\* The line of place p begins at q.
LineBegins(t, q, p) ==
  /\ q \in 0 .. p /\ (q = 0 \/ NewlineAt(t, q - 1))
  /\ \A i \in q .. p - 1 : ~NewlineAt(t, i)

\* A token says on which line it begins and ends, and in which columns as long as the
\* window has not moved in that line; its lexeme is what stands in the text.
IsPlaced(token) ==
  LET info == token.info  from == token.from  to == token.to IN
  /\ from <= to
  /\ info.lineStart = LineOf(text, from) /\ info.lineEnd = info.lineStart
  /\ ~token.moved =>
       \E q \in 0 .. from :
         /\ LineBegins(text, q, from)
         /\ info.columnStart = from - q + 1 /\ info.columnEnd = to - q
  /\ info.token \in Named => info.tokenStr = [k \in 1 .. to - from |-> TextAt(from + k - 1)]

\* However the window has moved, each token is where it says it is, and tokens follow each
\* other (getColumnOffsetStart, updateLineStartOffset, setToken).
PositionsAreTrue ==
  \A i \in DOMAIN scanned :
    IsPlaced(scanned[i]) /\ (i > 1 => scanned[i - 1].to <= scanned[i].from)
=============================================================================
