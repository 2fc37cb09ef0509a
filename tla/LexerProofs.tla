----------------------------- MODULE LexerProofs -----------------------------
(***************************************************************************)
(* What the lexer looks at, for every text and every size of the buffer:   *)
(* the text, character by character, and the zeros behind its end; and     *)
(* that tokens are where they say they are.                                *)
(*                                                                         *)
(* Three things meet in the first invariant (IInv).  The window holds the  *)
(* text from the token on, without a gap (Window).  Each label has as many *)
(* characters ahead as the labels from it to the next refill may step over *)
(* (Ahead); that the whole automaton keeps to this is a fact about its     *)
(* table, and is proved label by label (AllOk).  And where the automaton   *)
(* has read on behind the end of a token (Behind), the place to give back  *)
(* to lies inside the token, which refills move along with it.             *)
(*                                                                         *)
(* The second (PlacesOk) counts lines: as many are counted as begin up to  *)
(* the token (Counted), and none ends in it, since no label steps over a   *)
(* newline but the two that count it (Stays, LineEnds).  Offsets are off   *)
(* by the same from the text and from the beginning of the line, for as    *)
(* long as the window stays.                                               *)
(***************************************************************************)
EXTENDS Lexer, SequenceTheorems, FiniteSetTheorems, TLAPS

Labels == 0 .. 220

\* How many characters may be stepped to, from the visit of a label on, before the buffer
\* is looked after again.
Ahead == [l \in Labels |->
  CASE l \in {54, 59, 60} -> 7
    [] l \in {50, 53, 101, 108, 110} -> 6
    [] l \in {51, 52, 61, 85, 93, 148, 157, 159} -> 5
    [] l \in {55, 56, 57, 62, 63, 89, 90, 96, 109, 111, 112, 113, 133, 142, 191, 192, 195} -> 4
    [] l \in {2, 58, 76, 77, 86, 91, 92, 97, 98, 102, 103, 104, 105, 114, 115, 118, 136, 137, 143,
              158, 160, 161, 162, 169, 181, 186, 208, 209, 210} -> 3
    [] l \in {4, 11, 24, 28, 37, 39, 41, 74, 87, 94, 99, 106, 116, 124, 125, 128, 129, 134, 138,
              140, 144, 146, 149, 151, 153, 155, 163, 165, 167, 182, 184, 187, 189, 193, 196, 198,
              200, 202, 203, 204, 206, 215, 217, 219} -> 2
    [] l \in {6, 9, 12, 14, 16, 18, 20, 22, 26, 30, 33, 35, 43, 44, 46, 48, 64, 66, 68, 70, 72,
              78, 80, 82, 84, 119, 121, 126, 130, 132, 170, 172, 174, 176, 178, 211, 213} -> 1
    [] OTHER -> 0]

\* Where the automaton has read on behind the end of a token it may give back to.
Behind == {44, 74, 75, 76, 77, 84, 124, 125, 128, 129, 132, 169, 202, 203}

Steps(row) == IF row.step THEN 1 ELSE 0
\* What is there for sure once the label has stepped and filled.
Sure(l, row) == IF row.fill = 0 THEN Ahead[l] - Steps(row) ELSE row.fill
\* A newline is stepped over in these two labels, and starts the next line there.
LineEnds == {9, 119}
Within(n) == {l \in Labels \ (LineEnds \cup {0}) : Ahead[l] <= n}
\* Where a token ends that has been marked.
MarksEnd == Within(0) \ Behind
\* Labels that do not step.
Stays == Within(0) \cup {44}

LedTo(moves, T) ==
  \A c \in DOMAIN moves : IF c = Newline THEN moves[c] \in LineEnds ELSE moves[c] \in T

RowTypeOk(row) == row.fill \in 0 .. 7 /\ row.mark \in {0} \cup MarksEnd
GoesTo(row, T) == LedTo(row.moves, T) /\ row.word \in T /\ row.other \in T
GoesOnly(row, to) == DOMAIN row.moves = {} /\ row.word = to /\ row.other = to
\* A label steps over no more than it has ahead, and leaves as much as those may need that it
\* leads to; one that is read behind a token's end comes from a mark or from another such.
RowOk(l, row) ==
  /\ RowTypeOk(row)
  /\ Steps(row) <= Ahead[l]
  /\ row.ends = "end" => Ahead[4] + Steps(row) <= Ahead[l]
  /\ row.ends = "newline" => l \in LineEnds /\ Steps(row) = 1
  /\ l \in LineEnds => row.ends = "newline"
  /\ l = 44 => Steps(row) = 0
  /\ l = 4 => GoesOnly(row, 5) /\ row.ends = "none"
  /\ l = 5 => row.ends = "TokenCount"
  /\ row.ends = "none" =>
       /\ Newline \in DOMAIN row.moves \/ row.other \in Stays
       /\ Sure(l, row) >= 1
       /\ GoesTo(row, Within(Sure(l, row)))
       /\ row.mark # 0 \/ l \in Behind \/ GoesTo(row, Within(Sure(l, row)) \ Behind)

\* Of some labels of the automaton: each keeps to Ahead and Behind.
AllOk(f) == \A l \in DOMAIN f : l # 0 /\ RowOk(l, f[l])

-----------------------------------------------------------------------------
(* The rows *)

LEMMA AheadType == Ahead \in [Labels -> 0 .. 7]
BY DEF Ahead, Labels

\* f @@ g is f where f is defined and g elsewhere, c :> t leads c to t.
LEMMA IsJoined == \A f, g : f @@ g = Joined(f, g)
BY DEF @@
LEMMA JoinedDomain ==
  ASSUME NEW f, NEW g
  PROVE DOMAIN (f @@ g) = (DOMAIN f) \cup (DOMAIN g)
BY IsJoined DEF Joined
LEMMA JoinedValue ==
  ASSUME NEW f, NEW g, NEW x \in (DOMAIN f) \cup (DOMAIN g)
  PROVE (f @@ g)[x] = IF x \in DOMAIN f THEN f[x] ELSE g[x]
BY IsJoined DEF Joined
LEMMA LedToJoined ==
  ASSUME NEW f, NEW g, NEW T, LedTo(f, T), LedTo(g, T)
  PROVE LedTo(f @@ g, T)
<1> SUFFICES ASSUME NEW c \in DOMAIN (f @@ g)
             PROVE IF c = Newline THEN (f @@ g)[c] \in LineEnds ELSE (f @@ g)[c] \in T
  BY DEF LedTo
<1>1. c \in (DOMAIN f) \cup (DOMAIN g)
  BY JoinedDomain
<1>2. (f @@ g)[c] = IF c \in DOMAIN f THEN f[c] ELSE g[c]
  BY <1>1, JoinedValue
<1> QED BY <1>1, <1>2 DEF LedTo
LEMMA LedToOne ==
  ASSUME NEW c, NEW t, NEW T, (c # Newline /\ t \in T) \/ (c = Newline /\ t \in LineEnds)
  PROVE LedTo(c :> t, T)
BY DEF LedTo, :>
LEMMA LedToEach ==
  ASSUME NEW S, NEW t, NEW T, t \in T, Newline \notin S
  PROVE LedTo(Each(S, t), T)
BY DEF LedTo, Each
LEMMA LedToNone == DOMAIN <<>> = {} /\ \A T : LedTo(<<>>, T)
BY DEF LedTo
\* Where the first character is looked at, a newline leads somewhere.
KnowsNewline(moves) == Newline \in DOMAIN moves
LEMMA KnowsJoined == \A f, g : KnowsNewline(f) \/ KnowsNewline(g) => KnowsNewline(f @@ g)
BY JoinedDomain DEF KnowsNewline
LEMMA NewlineDiffers ==
  /\ Newline # "!" /\ Newline # "&" /\ Newline # "(" /\ Newline # ")" /\ Newline # "*" /\ Newline # "+"
  /\ Newline # "-" /\ Newline # "." /\ Newline # "/" /\ Newline # "1" /\ Newline # "2" /\ Newline # "3"
  /\ Newline # "4" /\ Newline # "6" /\ Newline # "8" /\ Newline # ":" /\ Newline # "<" /\ Newline # "="
  /\ Newline # ">" /\ Newline # "[" /\ Newline # "]" /\ Newline # "a" /\ Newline # "b" /\ Newline # "c"
  /\ Newline # "d" /\ Newline # "e" /\ Newline # "f" /\ Newline # "h" /\ Newline # "i" /\ Newline # "l"
  /\ Newline # "m" /\ Newline # "n" /\ Newline # "o" /\ Newline # "p" /\ Newline # "r" /\ Newline # "s"
  /\ Newline # "t" /\ Newline # "u" /\ Newline # "v" /\ Newline # "y"
  /\ Newline # "NUL" /\ Newline # "~" /\ Newline # Underscore /\ Newline # Comma /\ Newline # SemiColon
  /\ Newline # LeftBrace /\ Newline # RightBrace
  /\ Newline \notin Digits /\ Newline \notin Letters /\ Newline \notin Blanks
  /\ Newline \notin WordChars
BY Zenon DEF Newline, Underscore, Comma, SemiColon, LeftBrace, RightBrace, Digits, Letters, Blanks, WordChars
LEMMA AllOkJoined ==
  ASSUME NEW f, NEW g, AllOk(f), AllOk(g)
  PROVE AllOk(f @@ g)
<1> SUFFICES ASSUME NEW l \in DOMAIN (f @@ g) PROVE l # 0 /\ RowOk(l, (f @@ g)[l])
  BY DEF AllOk
<1>1. l \in (DOMAIN f) \cup (DOMAIN g)
  BY JoinedDomain
<1>2. (f @@ g)[l] = IF l \in DOMAIN f THEN f[l] ELSE g[l]
  BY <1>1, JoinedValue
<1> QED BY <1>1, <1>2 DEF AllOk
LEMMA AllOkOne ==
  ASSUME NEW l, l # 0, NEW row, RowOk(l, row)
  PROVE AllOk(l :> row)
BY DEF AllOk, :>

\* A label that looks at a character, whatever its kind: T is where it may go.
LEMMA LooksOk ==
  ASSUME NEW l \in Labels, NEW row, RowTypeOk(row), Steps(row) <= Ahead[l], Sure(l, row) >= 1,
         row.ends = "none", NEW T, GoesTo(row, T),
         \/ T = Within(Sure(l, row)) \ Behind
         \/ T = Within(Sure(l, row)) /\ (row.mark # 0 \/ l \in Behind),
         Newline \in DOMAIN row.moves \/ row.other \in Stays,
         l \notin LineEnds \cup {5}, l = 44 => Steps(row) = 0, l = 4 => GoesOnly(row, 5)
  PROVE RowOk(l, row)
<1>1. GoesTo(row, Within(Sure(l, row)))
  <2>1. T \subseteq Within(Sure(l, row))
    OBVIOUS
  <2> QED BY <2>1 DEF GoesTo, LedTo
<1>2. row.ends # "end" /\ row.ends # "newline" /\ l \notin LineEnds /\ l # 5
  OBVIOUS
<1> QED BY <1>1, <1>2 DEF RowOk

LEMMA NearEnds == Ahead[44] = 1 /\ Ahead[45] = 0 /\ 45 \in MarksEnd
BY DEF Ahead, Behind, Labels, MarksEnd, Within, LineEnds

\* A label that nothing need be ahead of does not step.
LEMMA StaysHas ==
  ASSUME NEW n, NEW l \in Within(n), Ahead[l] = 0
  PROVE l \in Stays
BY DEF Stays, Within

\* The kinds of labels that LexerTables names, each with what it takes to be one of AllOk.
LEMMA LetterOk ==
  ASSUME NEW l \in Labels, l \notin {4, 5, 9, 44, 119}, NEW moves, Ahead[l] >= 2,
         LedTo(moves, Within(Ahead[l] - 1))
  PROVE RowOk(l, Letter(moves))
<1>1. PICK row : row = Letter(moves)
  OBVIOUS
<1>2. /\ row.mark = 45 /\ row.fill = 0 /\ row.moves = moves
      /\ row.word = 44 /\ row.other = 44
  BY <1>1 DEF Letter, Marked, Branch, Word
<1>3. Steps(row) = 1
  BY <1>1 DEF Steps, Letter, Marked, Branch, Word
<1>10. row.ends = "none"
  BY <1>1 DEF Letter, Marked, Branch, Word
<1>6. Sure(l, row) = Ahead[l] - 1 /\ Sure(l, row) >= 1
  BY <1>2, <1>3, AheadType DEF Sure
<1>4. RowTypeOk(row)
  BY <1>2, NearEnds DEF RowTypeOk
<1>5. GoesTo(row, Within(Ahead[l] - 1))
  <2>1. 44 \in Within(Ahead[l] - 1)
    BY AheadType, NearEnds DEF Within, Labels, LineEnds
  <2> QED BY <1>2, <2>1 DEF GoesTo
<1>7. Steps(row) <= Ahead[l]
  BY <1>3, AheadType
<1>8. row.mark # 0 \/ l \in Behind
  BY <1>2
<1>20. l \notin LineEnds \cup {5} /\ (l = 44 => Steps(row) = 0) /\ (l = 4 => GoesOnly(row, 5))
  BY <1>2, <1>3 DEF LineEnds, GoesOnly
<1>21. Newline \in DOMAIN row.moves \/ row.other \in Stays
  BY <1>2 DEF Stays
<1>9. RowOk(l, row)
  BY <1>4, <1>5, <1>6, <1>7, <1>8, <1>10, <1>20, <1>21, LooksOk
<1> QED BY <1>1, <1>9

LEMMA KeywordOk ==
  ASSUME NEW l \in Labels, l \notin {4, 5, 9, 44, 119}, NEW end \in MarksEnd, Ahead[l] >= 2
  PROVE RowOk(l, Keyword(end))
<1>1. PICK row : row = Keyword(end)
  OBVIOUS
<1>2. /\ row.mark = end /\ row.fill = 0 /\ row.moves = (":" :> 44)
      /\ row.word = 44 /\ row.other = end
  BY <1>1 DEF Keyword, Marked, Word
<1>3. Steps(row) = 1
  BY <1>1 DEF Steps, Keyword, Marked, Word
<1>10. row.ends = "none"
  BY <1>1 DEF Keyword, Marked, Word
<1>6. Sure(l, row) = Ahead[l] - 1 /\ Sure(l, row) >= 1
  BY <1>2, <1>3, AheadType DEF Sure
<1>4. RowTypeOk(row)
  BY <1>2 DEF RowTypeOk
<1>5. GoesTo(row, Within(Ahead[l] - 1))
  <2>1. 44 \in Within(Ahead[l] - 1) /\ end \in Within(Ahead[l] - 1)
    BY AheadType, NearEnds DEF Within, Labels, MarksEnd, LineEnds
  <2> QED BY <1>2, <2>1, NewlineDiffers, LedToOne DEF GoesTo
<1>7. Steps(row) <= Ahead[l]
  BY <1>3, AheadType
<1>8. row.mark # 0 \/ l \in Behind
  BY <1>2 DEF MarksEnd, Within
<1>20. l \notin LineEnds \cup {5} /\ (l = 44 => Steps(row) = 0) /\ (l = 4 => GoesOnly(row, 5))
  BY <1>2, <1>3 DEF LineEnds, GoesOnly
<1>21. Newline \in DOMAIN row.moves \/ row.other \in Stays
  BY <1>2 DEF Stays, MarksEnd
<1>9. RowOk(l, row)
  BY <1>4, <1>5, <1>6, <1>7, <1>8, <1>10, <1>20, <1>21, LooksOk
<1> QED BY <1>1, <1>9

LEMMA BranchOk ==
  ASSUME NEW l \in Labels, l \notin {5, 9, 44, 119}, NEW moves,
         NEW other \in Within(Ahead[l] - 1) \ Behind, Ahead[l] >= 2,
         LedTo(moves, Within(Ahead[l] - 1) \ Behind),
         Newline \in DOMAIN moves \/ Ahead[other] = 0, l = 4 => other = 5 /\ DOMAIN moves = {}
  PROVE RowOk(l, Branch(moves, other))
<1>1. PICK row : row = Branch(moves, other)
  OBVIOUS
<1>2. /\ row.mark = 0 /\ row.fill = 0 /\ row.moves = moves
      /\ row.word = other /\ row.other = other
  BY <1>1 DEF Branch, Word
<1>3. Steps(row) = 1
  BY <1>1 DEF Steps, Branch, Word
<1>10. row.ends = "none"
  BY <1>1 DEF Branch, Word
<1>6. Sure(l, row) = Ahead[l] - 1 /\ Sure(l, row) >= 1
  BY <1>2, <1>3, AheadType DEF Sure
<1>4. RowTypeOk(row)
  BY <1>2 DEF RowTypeOk
<1>5. GoesTo(row, Within(Ahead[l] - 1) \ Behind)
  BY <1>2 DEF GoesTo
<1>7. Steps(row) <= Ahead[l]
  BY <1>3, AheadType
<1>20. l \notin LineEnds \cup {5} /\ (l = 44 => Steps(row) = 0) /\ (l = 4 => GoesOnly(row, 5))
  BY <1>2, <1>3 DEF LineEnds, GoesOnly
<1>21. Newline \in DOMAIN row.moves \/ row.other \in Stays
  BY <1>2, StaysHas
<1>9. RowOk(l, row)
  BY <1>4, <1>5, <1>6, <1>7, <1>10, <1>20, <1>21, LooksOk
<1> QED BY <1>1, <1>9

LEMMA BehindOk ==
  ASSUME NEW l \in Behind \cap Labels, l # 44, NEW moves, NEW other \in Within(Ahead[l] - 1),
         Ahead[l] >= 2, LedTo(moves, Within(Ahead[l] - 1)), Ahead[other] = 0
  PROVE RowOk(l, Branch(moves, other))
<1>1. PICK row : row = Branch(moves, other)
  OBVIOUS
<1>2. /\ row.mark = 0 /\ row.fill = 0 /\ row.moves = moves
      /\ row.word = other /\ row.other = other
  BY <1>1 DEF Branch, Word
<1>3. Steps(row) = 1
  BY <1>1 DEF Steps, Branch, Word
<1>10. row.ends = "none"
  BY <1>1 DEF Branch, Word
<1>6. Sure(l, row) = Ahead[l] - 1 /\ Sure(l, row) >= 1
  BY <1>2, <1>3, AheadType DEF Sure
<1>4. RowTypeOk(row)
  BY <1>2 DEF RowTypeOk
<1>5. GoesTo(row, Within(Ahead[l] - 1))
  BY <1>2 DEF GoesTo
<1>7. Steps(row) <= Ahead[l]
  BY <1>3, AheadType
<1>8. row.mark # 0 \/ l \in Behind
  BY <1>2
<1>20. l \notin LineEnds \cup {5} /\ (l = 44 => Steps(row) = 0) /\ (l = 4 => GoesOnly(row, 5))
  BY <1>2, <1>3 DEF LineEnds, Behind, GoesOnly
<1>21. Newline \in DOMAIN row.moves \/ row.other \in Stays
  BY <1>2, StaysHas
<1>9. RowOk(l, row)
  BY <1>4, <1>5, <1>6, <1>7, <1>8, <1>10, <1>20, <1>21, LooksOk
<1> QED BY <1>1, <1>9

LEMMA FilledOk ==
  ASSUME NEW l \in Labels, l \notin {4, 5, 9, 44, 119}, NEW n \in 1 .. 7, NEW moves,
         NEW other \in Within(n) \ Behind, Ahead[l] >= 1, LedTo(moves, Within(n) \ Behind),
         Newline \in DOMAIN moves \/ Ahead[other] = 0
  PROVE RowOk(l, Filled(n, Branch(moves, other)))
<1>1. PICK row : row = Filled(n, Branch(moves, other))
  OBVIOUS
<1>2. /\ row.mark = 0 /\ row.fill = n /\ row.moves = moves
      /\ row.word = other /\ row.other = other
  BY <1>1 DEF Filled, Branch, Word
<1>3. Steps(row) = 1
  BY <1>1 DEF Steps, Filled, Branch, Word
<1>10. row.ends = "none"
  BY <1>1 DEF Filled, Branch, Word
<1>6. Sure(l, row) = n /\ Sure(l, row) >= 1
  BY <1>2, <1>3, AheadType DEF Sure
<1>4. RowTypeOk(row)
  BY <1>2 DEF RowTypeOk
<1>5. GoesTo(row, Within(n) \ Behind)
  BY <1>2 DEF GoesTo
<1>7. Steps(row) <= Ahead[l]
  BY <1>3, AheadType
<1>20. l \notin LineEnds \cup {5} /\ (l = 44 => Steps(row) = 0) /\ (l = 4 => GoesOnly(row, 5))
  BY <1>2, <1>3 DEF LineEnds, GoesOnly
<1>21. Newline \in DOMAIN row.moves \/ row.other \in Stays
  BY <1>2, StaysHas
<1>9. RowOk(l, row)
  BY <1>4, <1>5, <1>6, <1>7, <1>10, <1>20, <1>21, LooksOk
<1> QED BY <1>1, <1>9

LEMMA FilledBehindOk ==
  ASSUME NEW l \in Behind \cap Labels, l # 44, NEW n \in 1 .. 7, NEW moves,
         NEW other \in Within(n), Ahead[l] >= 1, LedTo(moves, Within(n)), Ahead[other] = 0
  PROVE RowOk(l, Filled(n, Branch(moves, other)))
<1>1. PICK row : row = Filled(n, Branch(moves, other))
  OBVIOUS
<1>2. /\ row.mark = 0 /\ row.fill = n /\ row.moves = moves
      /\ row.word = other /\ row.other = other
  BY <1>1 DEF Filled, Branch, Word
<1>3. Steps(row) = 1
  BY <1>1 DEF Steps, Filled, Branch, Word
<1>10. row.ends = "none"
  BY <1>1 DEF Filled, Branch, Word
<1>6. Sure(l, row) = n /\ Sure(l, row) >= 1
  BY <1>2, <1>3, AheadType DEF Sure
<1>4. RowTypeOk(row)
  BY <1>2 DEF RowTypeOk
<1>5. GoesTo(row, Within(n))
  BY <1>2 DEF GoesTo
<1>7. Steps(row) <= Ahead[l]
  BY <1>3, AheadType
<1>8. row.mark # 0 \/ l \in Behind
  BY <1>2
<1>20. l \notin LineEnds \cup {5} /\ (l = 44 => Steps(row) = 0) /\ (l = 4 => GoesOnly(row, 5))
  BY <1>2, <1>3 DEF LineEnds, Behind, GoesOnly
<1>21. Newline \in DOMAIN row.moves \/ row.other \in Stays
  BY <1>2, StaysHas
<1>9. RowOk(l, row)
  BY <1>4, <1>5, <1>6, <1>7, <1>8, <1>10, <1>20, <1>21, LooksOk
<1> QED BY <1>1, <1>9

LEMMA FilledMarkedOk ==
  ASSUME NEW l \in Labels, l \notin {4, 5, 9, 44, 119}, NEW n \in 1 .. 7, NEW mark \in MarksEnd,
         NEW moves, NEW word \in Within(n), NEW other \in Within(n), Ahead[l] >= 1,
         LedTo(moves, Within(n)), other = 44 \/ Ahead[other] = 0
  PROVE RowOk(l, Filled(n, Marked(mark, Word(moves, word, other))))
<1>1. PICK row : row = Filled(n, Marked(mark, Word(moves, word, other)))
  OBVIOUS
<1>2. /\ row.mark = mark /\ row.fill = n /\ row.moves = moves
      /\ row.word = word /\ row.other = other
  BY <1>1 DEF Filled, Marked, Word
<1>3. Steps(row) = 1
  BY <1>1 DEF Steps, Filled, Marked, Word
<1>10. row.ends = "none"
  BY <1>1 DEF Filled, Marked, Word
<1>6. Sure(l, row) = n /\ Sure(l, row) >= 1
  BY <1>2, <1>3, AheadType DEF Sure
<1>4. RowTypeOk(row)
  BY <1>2 DEF RowTypeOk
<1>5. GoesTo(row, Within(n))
  BY <1>2 DEF GoesTo
<1>7. Steps(row) <= Ahead[l]
  BY <1>3, AheadType
<1>8. row.mark # 0 \/ l \in Behind
  BY <1>2 DEF MarksEnd, Within
<1>20. l \notin LineEnds \cup {5} /\ (l = 44 => Steps(row) = 0) /\ (l = 4 => GoesOnly(row, 5))
  BY <1>2, <1>3 DEF LineEnds, GoesOnly
<1>21. Newline \in DOMAIN row.moves \/ row.other \in Stays
  BY <1>2, StaysHas DEF Stays
<1>9. RowOk(l, row)
  BY <1>4, <1>5, <1>6, <1>7, <1>8, <1>10, <1>20, <1>21, LooksOk
<1> QED BY <1>1, <1>9

LEMMA InWordOk ==
  ASSUME NEW l \in Behind \cap Labels, NEW moves, NEW word, NEW other, Ahead[l] >= 1,
         LedTo(moves, Within(Ahead[l])), word \in Within(Ahead[l]), other \in Within(Ahead[l]),
         Ahead[other] = 0
  PROVE RowOk(l, InWord(moves, word, other))
<1>1. PICK row : row = InWord(moves, word, other)
  OBVIOUS
<1>2. /\ row.mark = 0 /\ row.fill = 0 /\ row.moves = moves
      /\ row.word = word /\ row.other = other
  BY <1>1 DEF InWord, Word
<1>3. Steps(row) = 0
  BY <1>1 DEF Steps, InWord, Word
<1>10. row.ends = "none"
  BY <1>1 DEF InWord, Word
<1>4. RowTypeOk(row)
  BY <1>2 DEF RowTypeOk
<1>5. GoesTo(row, Within(Ahead[l]))
  BY <1>2 DEF GoesTo
<1>6. Sure(l, row) = Ahead[l] /\ Sure(l, row) >= 1
  BY <1>2, <1>3, AheadType DEF Sure
<1>7. Steps(row) <= Ahead[l]
  BY <1>3, AheadType
<1>20. l \notin LineEnds \cup {5} /\ (l = 44 => Steps(row) = 0) /\ (l = 4 => GoesOnly(row, 5))
  BY <1>2, <1>3 DEF LineEnds, Behind, GoesOnly
<1>21. Newline \in DOMAIN row.moves \/ row.other \in Stays
  BY <1>2, StaysHas
<1>8. RowOk(l, row)
  BY <1>4, <1>5, <1>6, <1>7, <1>10, <1>20, <1>21, LooksOk
<1> QED BY <1>1, <1>8

LEMMA FinalOk ==
  ASSUME NEW l \in Labels, l \notin {4, 5, 44}, NEW token, token # "none", Ahead[l] >= 1,
         token # "end" \/ Ahead[l] >= 3, l \in {9, 119} <=> token = "newline"
  PROVE RowOk(l, Final(token))
<1>1. PICK row : row = Final(token)
  OBVIOUS
<1>2. row.mark = 0 /\ row.fill = 0
  BY <1>1 DEF Final, Branch, Word
<1>3. Steps(row) = 1
  BY <1>1 DEF Steps, Final, Branch, Word
<1>4. RowTypeOk(row) /\ Steps(row) <= Ahead[l]
  <2> HIDE DEF MarksEnd
  <2>1. RowTypeOk(row)
    BY <1>2 DEF RowTypeOk
  <2>2. Steps(row) <= Ahead[l]
    BY <1>3, AheadType
  <2> QED BY <2>1, <2>2
<1>5. row.ends # "none"
  BY <1>1 DEF Final, Branch, Word
<1>6. row.ends = token
  BY <1>1 DEF Final, Branch, Word
<1>7. row.ends = "end" => Ahead[4] + Steps(row) <= Ahead[l]
  <2>1. Ahead[4] = 2
    BY DEF Ahead, Labels
  <2>2. token # "end" \/ Ahead[4] + Steps(row) <= Ahead[l]
    BY <2>1, <1>3, AheadType
  <2> QED BY <1>6, <2>2, Zenon
<1>9. /\ row.ends = "newline" => l \in LineEnds /\ Steps(row) = 1
      /\ l \in LineEnds => row.ends = "newline"
      /\ l # 44 /\ l # 4 /\ l # 5
  BY <1>3, <1>6 DEF LineEnds
<1>8. RowOk(l, row)
  BY <1>4, <1>5, <1>7, <1>9, Zenon DEF RowOk
<1> QED BY <1>1, <1>8

LEMMA EndsOk ==
  ASSUME NEW l \in Labels, l \notin {4, 9, 119}, NEW token, token \notin {"none", "end", "newline"},
         l = 5 => token = "TokenCount"
  PROVE RowOk(l, Ends(token))
<1>1. PICK row : row = Ends(token)
  OBVIOUS
<1>2. row.mark = 0 /\ row.fill = 0
  BY <1>1 DEF Ends, Final, Branch, Word
<1>3. Steps(row) = 0
  BY <1>1 DEF Steps, Ends, Final, Branch, Word
<1>4. RowTypeOk(row) /\ Steps(row) <= Ahead[l]
  <2> HIDE DEF MarksEnd
  <2>1. RowTypeOk(row)
    BY <1>2 DEF RowTypeOk
  <2>2. Steps(row) <= Ahead[l]
    BY <1>3, AheadType
  <2> QED BY <2>1, <2>2
<1>5. row.ends # "none"
  BY <1>1 DEF Ends, Final, Branch, Word
<1>6. row.ends # "end" /\ row.ends # "newline" /\ row.ends = token
  BY <1>1 DEF Ends, Final, Branch, Word
<1>8. l \notin LineEnds /\ l # 4 /\ (l = 5 => row.ends = "TokenCount")
  BY <1>6 DEF LineEnds
<1>7. RowOk(l, row)
  BY <1>3, <1>4, <1>5, <1>6, <1>8, Zenon DEF RowOk
<1> QED BY <1>1, <1>7

LEMMA WithinIs ==
  ASSUME NEW n, NEW l \in Labels, l \notin {0, 9, 119}, Ahead[l] <= n
  PROVE l \in Within(n)
BY DEF Within, LineEnds
-----------------------------------------------------------------------------
(* The automaton, label by label *)

LEMMA Labels2To22Ok == AllOk(Labels2To22)
<1>1. /\ Ahead[2] = 3 /\ Ahead[4] = 2 /\ Ahead[5] = 0 /\ Ahead[6] = 1 /\ Ahead[8] = 0
      /\ Ahead[9] = 1 /\ Ahead[11] = 2 /\ Ahead[12] = 1 /\ Ahead[14] = 1 /\ Ahead[16] = 1
      /\ Ahead[18] = 1 /\ Ahead[20] = 1 /\ Ahead[22] = 1 /\ Ahead[68] = 1
  BY DEF Ahead, Labels
<1>2. /\ 2 \in Labels /\ 4 \in Labels /\ 5 \in Labels /\ 6 \in Labels /\ 8 \in Labels
      /\ 9 \in Labels /\ 11 \in Labels /\ 12 \in Labels /\ 14 \in Labels /\ 16 \in Labels
      /\ 18 \in Labels /\ 20 \in Labels /\ 22 \in Labels /\ 68 \in Labels
  BY DEF Labels
<1>3. /\ AllOk(2 :> Final("end"))
      /\ AllOk(9 :> Final("newline"))
      /\ AllOk(12 :> Final("Reference"))
      /\ AllOk(14 :> Final("BeginPar"))
      /\ AllOk(16 :> Final("EndPar"))
      /\ AllOk(18 :> Final("Mult"))
      /\ AllOk(20 :> Final("Plus"))
      /\ AllOk(22 :> Final("Comma"))
  BY <1>1, <1>2, FinalOk, AllOkOne
<1>4. /\ AllOk(5 :> Ends("TokenCount"))
      /\ AllOk(8 :> Ends("blank"))
  BY <1>1, <1>2, EndsOk, AllOkOne
<1>5. AllOk(4 :> Branch(<<>>, 5))
  <2>1. 5 \in Within(Ahead[4] - 1) \ Behind
    BY <1>1, <1>2 DEF Within, Behind, LineEnds
  <2>3. ASSUME NEW moves, LedTo(moves, Within(Ahead[4] - 1) \ Behind), DOMAIN moves = {}
        PROVE RowOk(4, Branch(moves, 5))
    BY <1>1, <1>2, <2>1, <2>3, BranchOk
  <2> QED BY <2>3, LedToNone, AllOkOne
<1>6. AllOk(6 :> Filled(1, Branch(Each(Blanks, 6), 8)))
  <2>1. 6 \in Within(1) \ Behind /\ 8 \in Within(1) \ Behind
    BY <1>1, <1>2 DEF Within, Behind, LineEnds
  <2>2. LedTo(Each(Blanks, 6), Within(1) \ Behind)
    BY <2>1, NewlineDiffers, LedToEach
  <2>3. RowOk(6, Filled(1, Branch(Each(Blanks, 6), 8)))
    BY <1>1, <1>2, <2>1, <2>2, FilledOk
  <2> QED BY <2>3, AllOkOne
<1>7. AllOk(11 :> Branch("=" :> 68, 5))
  <2>1. 5 \in Within(Ahead[11] - 1) \ Behind /\ 68 \in Within(Ahead[11] - 1) \ Behind
    BY <1>1, <1>2 DEF Within, Behind, LineEnds
  <2>2. LedTo("=" :> 68, Within(Ahead[11] - 1) \ Behind)
    BY <2>1, NewlineDiffers, LedToOne
  <2>3. RowOk(11, Branch("=" :> 68, 5))
    BY <1>1, <1>2, <2>1, <2>2, BranchOk
  <2> QED BY <2>3, AllOkOne
<1> QED BY <1>3, <1>4, <1>5, <1>6, <1>7, AllOkJoined DEF Labels2To22

LEMMA Labels24To32Ok == AllOk(Labels24To32)
<1>1. /\ Ahead[24] = 2 /\ Ahead[25] = 0 /\ Ahead[26] = 1 /\ Ahead[28] = 2 /\ Ahead[29] = 0
      /\ Ahead[30] = 1 /\ Ahead[32] = 0 /\ Ahead[70] = 1 /\ Ahead[72] = 1 /\ Ahead[74] = 2
      /\ Ahead[76] = 3 /\ Ahead[77] = 3
  BY DEF Ahead, Labels
<1>2. /\ 24 \in Labels /\ 25 \in Labels /\ 26 \in Labels /\ 28 \in Labels /\ 29 \in Labels
      /\ 30 \in Labels /\ 32 \in Labels /\ 70 \in Labels /\ 72 \in Labels /\ 74 \in Labels
      /\ 76 \in Labels /\ 77 \in Labels
  BY DEF Labels
<1>3. /\ 32 \in MarksEnd
  BY DEF MarksEnd, Within, Ahead, Behind, Labels, LineEnds
<1>4. AllOk(26 :> Final("Dot"))
  BY <1>1, <1>2, FinalOk, AllOkOne
<1>5. /\ AllOk(25 :> Ends("Minus"))
      /\ AllOk(29 :> Ends("Div"))
      /\ AllOk(32 :> Ends("IntegerLiteral"))
  BY <1>1, <1>2, EndsOk, AllOkOne
<1>6. AllOk(24 :> Branch(Each(Digits, 70), 25))
  <2>1. 25 \in Within(Ahead[24] - 1) \ Behind /\ 70 \in Within(Ahead[24] - 1) \ Behind
    BY <1>1, <1>2 DEF Within, Behind, LineEnds
  <2>2. LedTo(Each(Digits, 70), Within(Ahead[24] - 1) \ Behind)
    BY <2>1, NewlineDiffers, LedToEach
  <2>3. RowOk(24, Branch(Each(Digits, 70), 25))
    BY <1>1, <1>2, <2>1, <2>2, BranchOk
  <2> QED BY <2>3, AllOkOne
<1>7. AllOk(28 :> Branch("/" :> 72, 29))
  <2>1. 29 \in Within(Ahead[28] - 1) \ Behind /\ 72 \in Within(Ahead[28] - 1) \ Behind
    BY <1>1, <1>2 DEF Within, Behind, LineEnds
  <2>2. LedTo("/" :> 72, Within(Ahead[28] - 1) \ Behind)
    BY <2>1, NewlineDiffers, LedToOne
  <2>3. RowOk(28, Branch("/" :> 72, 29))
    BY <1>1, <1>2, <2>1, <2>2, BranchOk
  <2> QED BY <2>3, AllOkOne
<1>8. AllOk(30 :> Filled(3, Marked(32, Branch(Each(Digits, 30) @@ "." :> 74 @@ "i" :> 76 @@ "u" :> 77, 32))))
  <2>1. {30, 32, 74, 76, 77} \subseteq Within(3)
    BY <1>1, <1>2 DEF Within, Behind, LineEnds
  <2>2. LedTo(Each(Digits, 30) @@ "." :> 74 @@ "i" :> 76 @@ "u" :> 77, Within(3))
    BY <2>1, NewlineDiffers, LedToOne, LedToJoined, LedToEach
  <2>3. RowOk(30, Filled(3, Marked(32, Branch(Each(Digits, 30) @@ "." :> 74 @@ "i" :> 76 @@ "u" :> 77, 32))))
    BY <1>1, <1>2, <2>1, <2>2, <1>3, FilledMarkedOk DEF Branch
  <2> QED BY <2>3, AllOkOne
<1> QED BY <1>4, <1>5, <1>6, <1>7, <1>8, AllOkJoined DEF Labels24To32

LEMMA Labels33To43Ok == AllOk(Labels33To43)
<1>1. /\ Ahead[33] = 1 /\ Ahead[35] = 1 /\ Ahead[37] = 2 /\ Ahead[38] = 0 /\ Ahead[39] = 2
      /\ Ahead[40] = 0 /\ Ahead[41] = 2 /\ Ahead[42] = 0 /\ Ahead[43] = 1 /\ Ahead[44] = 1
      /\ Ahead[45] = 0 /\ Ahead[78] = 1 /\ Ahead[80] = 1 /\ Ahead[82] = 1
  BY DEF Ahead, Labels
<1>2. /\ 33 \in Labels /\ 35 \in Labels /\ 37 \in Labels /\ 38 \in Labels /\ 39 \in Labels
      /\ 40 \in Labels /\ 41 \in Labels /\ 42 \in Labels /\ 43 \in Labels /\ 44 \in Labels
      /\ 45 \in Labels /\ 78 \in Labels /\ 80 \in Labels /\ 82 \in Labels
  BY DEF Labels
<1>3. /\ 45 \in MarksEnd
  BY DEF MarksEnd, Within, Ahead, Behind, Labels, LineEnds
<1>4. /\ AllOk(33 :> Final("Colon"))
      /\ AllOk(35 :> Final("SemiColon"))
  BY <1>1, <1>2, FinalOk, AllOkOne
<1>5. /\ AllOk(38 :> Ends("CompareLt"))
      /\ AllOk(40 :> Ends("Assign"))
      /\ AllOk(42 :> Ends("CompareGt"))
  BY <1>1, <1>2, EndsOk, AllOkOne
<1>6. AllOk(37 :> Branch("=" :> 78, 38))
  <2>1. 38 \in Within(Ahead[37] - 1) \ Behind /\ 78 \in Within(Ahead[37] - 1) \ Behind
    BY <1>1, <1>2 DEF Within, Behind, LineEnds
  <2>2. LedTo("=" :> 78, Within(Ahead[37] - 1) \ Behind)
    BY <2>1, NewlineDiffers, LedToOne
  <2>3. RowOk(37, Branch("=" :> 78, 38))
    BY <1>1, <1>2, <2>1, <2>2, BranchOk
  <2> QED BY <2>3, AllOkOne
<1>7. AllOk(39 :> Branch("=" :> 80, 40))
  <2>1. 40 \in Within(Ahead[39] - 1) \ Behind /\ 80 \in Within(Ahead[39] - 1) \ Behind
    BY <1>1, <1>2 DEF Within, Behind, LineEnds
  <2>2. LedTo("=" :> 80, Within(Ahead[39] - 1) \ Behind)
    BY <2>1, NewlineDiffers, LedToOne
  <2>3. RowOk(39, Branch("=" :> 80, 40))
    BY <1>1, <1>2, <2>1, <2>2, BranchOk
  <2> QED BY <2>3, AllOkOne
<1>8. AllOk(41 :> Branch("=" :> 82, 42))
  <2>1. 42 \in Within(Ahead[41] - 1) \ Behind /\ 82 \in Within(Ahead[41] - 1) \ Behind
    BY <1>1, <1>2 DEF Within, Behind, LineEnds
  <2>2. LedTo("=" :> 82, Within(Ahead[41] - 1) \ Behind)
    BY <2>1, NewlineDiffers, LedToOne
  <2>3. RowOk(41, Branch("=" :> 82, 42))
    BY <1>1, <1>2, <2>1, <2>2, BranchOk
  <2> QED BY <2>3, AllOkOne
<1>9. AllOk(43 :> Filled(1, Marked(45, Branch(<<>>, 44))))
  <2>1. 44 \in Within(1)
    BY <1>1, <1>2 DEF Within, Behind, LineEnds
  <2>3. ASSUME NEW moves, LedTo(moves, Within(1))
        PROVE RowOk(43, Filled(1, Marked(45, Branch(moves, 44))))
    BY <1>1, <1>2, <2>1, <2>3, <1>3, FilledMarkedOk DEF Branch
  <2> QED BY <2>3, LedToNone, AllOkOne
<1> QED BY <1>4, <1>5, <1>6, <1>7, <1>8, <1>9, AllOkJoined DEF Labels33To43

LEMMA Labels44To58Ok == AllOk(Labels44To58)
<1>1. /\ Ahead[43] = 1 /\ Ahead[44] = 1 /\ Ahead[45] = 0 /\ Ahead[46] = 1 /\ Ahead[48] = 1
      /\ Ahead[50] = 6 /\ Ahead[51] = 5 /\ Ahead[52] = 5 /\ Ahead[53] = 6 /\ Ahead[54] = 7
      /\ Ahead[55] = 4 /\ Ahead[56] = 4 /\ Ahead[57] = 4 /\ Ahead[58] = 3 /\ Ahead[84] = 1
      /\ Ahead[85] = 5 /\ Ahead[86] = 3 /\ Ahead[87] = 2 /\ Ahead[89] = 4 /\ Ahead[90] = 4
      /\ Ahead[91] = 3 /\ Ahead[92] = 3 /\ Ahead[93] = 5 /\ Ahead[94] = 2 /\ Ahead[96] = 4
      /\ Ahead[97] = 3 /\ Ahead[98] = 3 /\ Ahead[99] = 2 /\ Ahead[101] = 6 /\ Ahead[102] = 3
      /\ Ahead[103] = 3 /\ Ahead[104] = 3 /\ Ahead[105] = 3 /\ Ahead[106] = 2
  BY DEF Ahead, Labels
<1>2. /\ 43 \in Labels /\ 44 \in Labels /\ 45 \in Labels /\ 46 \in Labels /\ 48 \in Labels
      /\ 50 \in Labels /\ 51 \in Labels /\ 52 \in Labels /\ 53 \in Labels /\ 54 \in Labels
      /\ 55 \in Labels /\ 56 \in Labels /\ 57 \in Labels /\ 58 \in Labels /\ 84 \in Labels
      /\ 85 \in Labels /\ 86 \in Labels /\ 87 \in Labels /\ 89 \in Labels /\ 90 \in Labels
      /\ 91 \in Labels /\ 92 \in Labels /\ 93 \in Labels /\ 94 \in Labels /\ 96 \in Labels
      /\ 97 \in Labels /\ 98 \in Labels /\ 99 \in Labels /\ 101 \in Labels /\ 102 \in Labels
      /\ 103 \in Labels /\ 104 \in Labels /\ 105 \in Labels /\ 106 \in Labels
  BY DEF Labels
<1>3. /\ 45 \in MarksEnd
  BY DEF MarksEnd, Within, Ahead, Behind, Labels, LineEnds
<1>4. /\ AllOk(50 :> Letter("l" :> 85 @@ "n" :> 86 @@ "s" :> 87))
      /\ AllOk(51 :> Letter("o" :> 89))
      /\ AllOk(52 :> Letter("a" :> 90))
      /\ AllOk(53 :> Letter("3" :> 91 @@ "6" :> 92 @@ "a" :> 93 @@ "n" :> 94 @@ "r" :> 96))
      /\ AllOk(54 :> Letter("1" :> 97 @@ "3" :> 98 @@ "8" :> 99 @@ "m" :> 101))
      /\ AllOk(55 :> Letter("e" :> 102))
      /\ AllOk(56 :> Letter("o" :> 103 @@ "u" :> 104))
      /\ AllOk(57 :> Letter("o" :> 105))
      /\ AllOk(58 :> Letter("r" :> 106))
  BY <1>1, <1>2, LetterOk, NewlineDiffers, LedToOne, LedToJoined, WithinIs, AllOkOne
<1>5. /\ AllOk(46 :> Final("BeginArray"))
      /\ AllOk(48 :> Final("EndArray"))
  BY <1>1, <1>2, FinalOk, AllOkOne
<1>6. AllOk(45 :> Ends("Identifier"))
  BY <1>1, <1>2, EndsOk, AllOkOne
<1>7. AllOk(44 :> InWord(":" :> 84, 43, 45))
  <2>1. {43, 45, 84} \subseteq Within(Ahead[44]) /\ 44 \in Behind
    BY <1>1, <1>2 DEF Within, Behind, LineEnds
  <2>2. LedTo(":" :> 84, Within(Ahead[44]))
    BY <2>1, NewlineDiffers, LedToOne
  <2>3. RowOk(44, InWord(":" :> 84, 43, 45))
    BY <1>1, <1>2, <2>1, <2>2, InWordOk
  <2> QED BY <2>3, AllOkOne
<1> QED BY <1>4, <1>5, <1>6, <1>7, AllOkJoined DEF Labels44To58

LEMMA Labels59To78Ok == AllOk(Labels59To78)
<1>1. /\ Ahead[32] = 0 /\ Ahead[44] = 1 /\ Ahead[59] = 7 /\ Ahead[60] = 7 /\ Ahead[61] = 5
      /\ Ahead[62] = 4 /\ Ahead[63] = 4 /\ Ahead[64] = 1 /\ Ahead[66] = 1 /\ Ahead[68] = 1
      /\ Ahead[70] = 1 /\ Ahead[72] = 1 /\ Ahead[74] = 2 /\ Ahead[75] = 0 /\ Ahead[76] = 3
      /\ Ahead[77] = 3 /\ Ahead[78] = 1 /\ Ahead[108] = 6 /\ Ahead[109] = 4 /\ Ahead[110] = 6
      /\ Ahead[111] = 4 /\ Ahead[112] = 4 /\ Ahead[113] = 4 /\ Ahead[114] = 3 /\ Ahead[115] = 3
      /\ Ahead[116] = 2 /\ Ahead[118] = 3 /\ Ahead[119] = 1 /\ Ahead[121] = 1 /\ Ahead[124] = 2
      /\ Ahead[125] = 2 /\ Ahead[126] = 1 /\ Ahead[128] = 2 /\ Ahead[129] = 2 /\ Ahead[130] = 1
  BY DEF Ahead, Labels
<1>2. /\ 32 \in Labels /\ 44 \in Labels /\ 59 \in Labels /\ 60 \in Labels /\ 61 \in Labels
      /\ 62 \in Labels /\ 63 \in Labels /\ 64 \in Labels /\ 66 \in Labels /\ 68 \in Labels
      /\ 70 \in Labels /\ 72 \in Labels /\ 74 \in Labels /\ 75 \in Labels /\ 76 \in Labels
      /\ 77 \in Labels /\ 78 \in Labels /\ 108 \in Labels /\ 109 \in Labels /\ 110 \in Labels
      /\ 111 \in Labels /\ 112 \in Labels /\ 113 \in Labels /\ 114 \in Labels /\ 115 \in Labels
      /\ 116 \in Labels /\ 118 \in Labels /\ 119 \in Labels /\ 121 \in Labels /\ 124 \in Labels
      /\ 125 \in Labels /\ 126 \in Labels /\ 128 \in Labels /\ 129 \in Labels /\ 130 \in Labels
  BY DEF Labels
<1>3. /\ 32 \in MarksEnd /\ 45 \in MarksEnd
  BY DEF MarksEnd, Within, Ahead, Behind, Labels, LineEnds
<1>4. /\ AllOk(59 :> Letter("e" :> 108))
      /\ AllOk(60 :> Letter("e" :> 109 @@ "t" :> 110))
      /\ AllOk(61 :> Letter("h" :> 111 @@ "r" :> 112 @@ "y" :> 113))
      /\ AllOk(62 :> Letter("1" :> 114 @@ "3" :> 115 @@ "8" :> 116))
      /\ AllOk(63 :> Letter("a" :> 118))
  BY <1>1, <1>2, LetterOk, NewlineDiffers, LedToOne, LedToJoined, WithinIs, AllOkOne
<1>5. /\ AllOk(64 :> Final("BeginScope"))
      /\ AllOk(66 :> Final("EndScope"))
      /\ AllOk(68 :> Final("CompareNe"))
      /\ AllOk(78 :> Final("CompareLe"))
  BY <1>1, <1>2, FinalOk, AllOkOne
<1>6. AllOk(70 :> Filled(3, Marked(32, Branch(Each(Digits, 70) @@ "i" :> 76 @@ "u" :> 77, 32))))
  <2>1. {32, 70, 76, 77} \subseteq Within(3)
    BY <1>1, <1>2 DEF Within, Behind, LineEnds
  <2>2. LedTo(Each(Digits, 70) @@ "i" :> 76 @@ "u" :> 77, Within(3))
    BY <2>1, NewlineDiffers, LedToOne, LedToJoined, LedToEach
  <2>3. RowOk(70, Filled(3, Marked(32, Branch(Each(Digits, 70) @@ "i" :> 76 @@ "u" :> 77, 32))))
    BY <1>1, <1>2, <2>1, <2>2, <1>3, FilledMarkedOk DEF Branch
  <2> QED BY <2>3, AllOkOne
<1>7. AllOk(72 :> Filled(1, Branch(Newline :> 119, 72)))
  <2>1. 72 \in Within(1) \ Behind /\ 119 \in LineEnds
    BY <1>1, <1>2 DEF Within, Behind, LineEnds
  <2>2. LedTo(Newline :> 119, Within(1) \ Behind)
    BY <2>1, LedToOne
  <2>4. Newline \in DOMAIN (Newline :> 119)
    BY DEF :>
  <2>3. RowOk(72, Filled(1, Branch(Newline :> 119, 72)))
    BY <1>1, <1>2, <2>1, <2>2, <2>4, FilledOk
  <2> QED BY <2>3, AllOkOne
<1>8. AllOk(74 :> Branch(Each(Digits, 121), 75))
  <2>1. 75 \in Within(Ahead[74] - 1) /\ 121 \in Within(Ahead[74] - 1) /\ 74 \in Behind
    BY <1>1, <1>2 DEF Within, Behind, LineEnds
  <2>2. LedTo(Each(Digits, 121), Within(Ahead[74] - 1))
    BY <2>1, NewlineDiffers, LedToEach
  <2>3. RowOk(74, Branch(Each(Digits, 121), 75))
    BY <1>1, <1>2, <2>1, <2>2, BehindOk
  <2> QED BY <2>3, AllOkOne
<1>9. AllOk(76 :> Branch("1" :> 124 @@ "3" :> 125 @@ "8" :> 126, 75))
  <2>1. {75, 124, 125, 126} \subseteq Within(Ahead[76] - 1) /\ 76 \in Behind
    BY <1>1, <1>2 DEF Within, Behind, LineEnds
  <2>2. LedTo("1" :> 124 @@ "3" :> 125 @@ "8" :> 126, Within(Ahead[76] - 1))
    BY <2>1, NewlineDiffers, LedToOne, LedToJoined
  <2>3. RowOk(76, Branch("1" :> 124 @@ "3" :> 125 @@ "8" :> 126, 75))
    BY <1>1, <1>2, <2>1, <2>2, BehindOk
  <2> QED BY <2>3, AllOkOne
<1>10. AllOk(77 :> Branch("1" :> 128 @@ "3" :> 129 @@ "8" :> 130, 75))
  <2>1. {75, 128, 129, 130} \subseteq Within(Ahead[77] - 1) /\ 77 \in Behind
    BY <1>1, <1>2 DEF Within, Behind, LineEnds
  <2>2. LedTo("1" :> 128 @@ "3" :> 129 @@ "8" :> 130, Within(Ahead[77] - 1))
    BY <2>1, NewlineDiffers, LedToOne, LedToJoined
  <2>3. RowOk(77, Branch("1" :> 128 @@ "3" :> 129 @@ "8" :> 130, 75))
    BY <1>1, <1>2, <2>1, <2>2, BehindOk
  <2> QED BY <2>3, AllOkOne
<1> QED BY <1>4, <1>5, <1>6, <1>7, <1>8, <1>9, <1>10, AllOkJoined DEF Labels59To78

LEMMA Labels80To93Ok == AllOk(Labels80To93)
<1>1. /\ Ahead[44] = 1 /\ Ahead[75] = 0 /\ Ahead[80] = 1 /\ Ahead[82] = 1 /\ Ahead[84] = 1
      /\ Ahead[85] = 5 /\ Ahead[86] = 3 /\ Ahead[87] = 2 /\ Ahead[88] = 0 /\ Ahead[89] = 4
      /\ Ahead[90] = 4 /\ Ahead[91] = 3 /\ Ahead[92] = 3 /\ Ahead[93] = 5 /\ Ahead[132] = 1
      /\ Ahead[133] = 4 /\ Ahead[134] = 2 /\ Ahead[136] = 3 /\ Ahead[137] = 3 /\ Ahead[138] = 2
      /\ Ahead[140] = 2 /\ Ahead[142] = 4
  BY DEF Ahead, Labels
<1>2. /\ 44 \in Labels /\ 75 \in Labels /\ 80 \in Labels /\ 82 \in Labels /\ 84 \in Labels
      /\ 85 \in Labels /\ 86 \in Labels /\ 87 \in Labels /\ 88 \in Labels /\ 89 \in Labels
      /\ 90 \in Labels /\ 91 \in Labels /\ 92 \in Labels /\ 93 \in Labels /\ 132 \in Labels
      /\ 133 \in Labels /\ 134 \in Labels /\ 136 \in Labels /\ 137 \in Labels /\ 138 \in Labels
      /\ 140 \in Labels /\ 142 \in Labels
  BY DEF Labels
<1>3. /\ 45 \in MarksEnd /\ 88 \in MarksEnd
  BY DEF MarksEnd, Within, Ahead, Behind, Labels, LineEnds
<1>4. /\ AllOk(85 :> Letter("i" :> 133))
      /\ AllOk(86 :> Letter("d" :> 134))
      /\ AllOk(89 :> Letter("o" :> 136))
      /\ AllOk(90 :> Letter("s" :> 137))
      /\ AllOk(91 :> Letter("2" :> 138))
      /\ AllOk(92 :> Letter("4" :> 140))
      /\ AllOk(93 :> Letter("l" :> 142))
  BY <1>1, <1>2, LetterOk, NewlineDiffers, LedToOne, LedToJoined, WithinIs, AllOkOne
<1>5. AllOk(87 :> Keyword(88))
  BY <1>1, <1>2, <1>3, KeywordOk, AllOkOne
<1>6. /\ AllOk(80 :> Final("CompareEq"))
      /\ AllOk(82 :> Final("CompareGe"))
  BY <1>1, <1>2, FinalOk, AllOkOne
<1>7. AllOk(88 :> Ends("As"))
  BY <1>1, <1>2, EndsOk, AllOkOne
<1>8. AllOk(84 :> Filled(1, Branch(":" :> 132, 75)))
  <2>1. 75 \in Within(1) /\ 132 \in Within(1) /\ 84 \in Behind
    BY <1>1, <1>2 DEF Within, Behind, LineEnds
  <2>2. LedTo(":" :> 132, Within(1))
    BY <2>1, NewlineDiffers, LedToOne
  <2>3. RowOk(84, Filled(1, Branch(":" :> 132, 75)))
    BY <1>1, <1>2, <2>1, <2>2, FilledBehindOk
  <2> QED BY <2>3, AllOkOne
<1> QED BY <1>4, <1>5, <1>6, <1>7, <1>8, AllOkJoined DEF Labels80To93

LEMMA Labels94To98Ok == AllOk(Labels94To98)
<1>1. /\ Ahead[44] = 1 /\ Ahead[94] = 2 /\ Ahead[95] = 0 /\ Ahead[96] = 4 /\ Ahead[97] = 3
      /\ Ahead[98] = 3 /\ Ahead[143] = 3 /\ Ahead[144] = 2 /\ Ahead[146] = 2
  BY DEF Ahead, Labels
<1>2. /\ 44 \in Labels /\ 94 \in Labels /\ 95 \in Labels /\ 96 \in Labels /\ 97 \in Labels
      /\ 98 \in Labels /\ 143 \in Labels /\ 144 \in Labels /\ 146 \in Labels
  BY DEF Labels
<1>3. /\ 45 \in MarksEnd /\ 95 \in MarksEnd
  BY DEF MarksEnd, Within, Ahead, Behind, Labels, LineEnds
<1>4. /\ AllOk(96 :> Letter("o" :> 143))
      /\ AllOk(97 :> Letter("6" :> 144))
      /\ AllOk(98 :> Letter("2" :> 146))
  BY <1>1, <1>2, LetterOk, NewlineDiffers, LedToOne, LedToJoined, WithinIs, AllOkOne
<1>5. AllOk(94 :> Keyword(95))
  BY <1>1, <1>2, <1>3, KeywordOk, AllOkOne
<1>6. AllOk(95 :> Ends("Function"))
  BY <1>1, <1>2, EndsOk, AllOkOne
<1> QED BY <1>4, <1>5, <1>6, AllOkJoined DEF Labels94To98

LEMMA Labels99To105Ok == AllOk(Labels99To105)
<1>1. /\ Ahead[44] = 1 /\ Ahead[99] = 2 /\ Ahead[100] = 0 /\ Ahead[101] = 6 /\ Ahead[102] = 3
      /\ Ahead[103] = 3 /\ Ahead[104] = 3 /\ Ahead[105] = 3 /\ Ahead[148] = 5 /\ Ahead[149] = 2
      /\ Ahead[151] = 2 /\ Ahead[153] = 2 /\ Ahead[155] = 2
  BY DEF Ahead, Labels
<1>2. /\ 44 \in Labels /\ 99 \in Labels /\ 100 \in Labels /\ 101 \in Labels /\ 102 \in Labels
      /\ 103 \in Labels /\ 104 \in Labels /\ 105 \in Labels /\ 148 \in Labels /\ 149 \in Labels
      /\ 151 \in Labels /\ 153 \in Labels /\ 155 \in Labels
  BY DEF Labels
<1>3. /\ 45 \in MarksEnd /\ 100 \in MarksEnd
  BY DEF MarksEnd, Within, Ahead, Behind, Labels, LineEnds
<1>4. /\ AllOk(101 :> Letter("p" :> 148))
      /\ AllOk(102 :> Letter("t" :> 149))
      /\ AllOk(103 :> Letter("d" :> 151))
      /\ AllOk(104 :> Letter("t" :> 153))
      /\ AllOk(105 :> Letter("t" :> 155))
  BY <1>1, <1>2, LetterOk, NewlineDiffers, LedToOne, LedToJoined, WithinIs, AllOkOne
<1>5. AllOk(99 :> Keyword(100))
  BY <1>1, <1>2, <1>3, KeywordOk, AllOkOne
<1>6. AllOk(100 :> Ends("TypeInt8"))
  BY <1>1, <1>2, EndsOk, AllOkOne
<1> QED BY <1>4, <1>5, <1>6, AllOkJoined DEF Labels99To105

LEMMA Labels106To115Ok == AllOk(Labels106To115)
<1>1. /\ Ahead[44] = 1 /\ Ahead[106] = 2 /\ Ahead[107] = 0 /\ Ahead[108] = 6 /\ Ahead[109] = 4
      /\ Ahead[110] = 6 /\ Ahead[111] = 4 /\ Ahead[112] = 4 /\ Ahead[113] = 4 /\ Ahead[114] = 3
      /\ Ahead[115] = 3 /\ Ahead[157] = 5 /\ Ahead[158] = 3 /\ Ahead[159] = 5 /\ Ahead[160] = 3
      /\ Ahead[161] = 3 /\ Ahead[162] = 3 /\ Ahead[163] = 2 /\ Ahead[165] = 2
  BY DEF Ahead, Labels
<1>2. /\ 44 \in Labels /\ 106 \in Labels /\ 107 \in Labels /\ 108 \in Labels /\ 109 \in Labels
      /\ 110 \in Labels /\ 111 \in Labels /\ 112 \in Labels /\ 113 \in Labels /\ 114 \in Labels
      /\ 115 \in Labels /\ 157 \in Labels /\ 158 \in Labels /\ 159 \in Labels /\ 160 \in Labels
      /\ 161 \in Labels /\ 162 \in Labels /\ 163 \in Labels /\ 165 \in Labels
  BY DEF Labels
<1>3. /\ 45 \in MarksEnd /\ 107 \in MarksEnd
  BY DEF MarksEnd, Within, Ahead, Behind, Labels, LineEnds
<1>4. /\ AllOk(108 :> Letter("t" :> 157))
      /\ AllOk(109 :> Letter("l" :> 158))
      /\ AllOk(110 :> Letter("r" :> 159))
      /\ AllOk(111 :> Letter("i" :> 160))
      /\ AllOk(112 :> Letter("u" :> 161))
      /\ AllOk(113 :> Letter("p" :> 162))
      /\ AllOk(114 :> Letter("6" :> 163))
      /\ AllOk(115 :> Letter("2" :> 165))
  BY <1>1, <1>2, LetterOk, NewlineDiffers, LedToOne, LedToJoined, WithinIs, AllOkOne
<1>5. AllOk(106 :> Keyword(107))
  BY <1>1, <1>2, <1>3, KeywordOk, AllOkOne
<1>6. AllOk(107 :> Ends("Or"))
  BY <1>1, <1>2, EndsOk, AllOkOne
<1> QED BY <1>4, <1>5, <1>6, AllOkJoined DEF Labels106To115

LEMMA Labels116To130Ok == AllOk(Labels116To130)
<1>1. /\ Ahead[44] = 1 /\ Ahead[75] = 0 /\ Ahead[116] = 2 /\ Ahead[117] = 0 /\ Ahead[118] = 3
      /\ Ahead[119] = 1 /\ Ahead[121] = 1 /\ Ahead[123] = 0 /\ Ahead[124] = 2 /\ Ahead[125] = 2
      /\ Ahead[126] = 1 /\ Ahead[128] = 2 /\ Ahead[129] = 2 /\ Ahead[130] = 1 /\ Ahead[167] = 2
      /\ Ahead[169] = 3 /\ Ahead[170] = 1 /\ Ahead[172] = 1 /\ Ahead[174] = 1 /\ Ahead[176] = 1
  BY DEF Ahead, Labels
<1>2. /\ 44 \in Labels /\ 75 \in Labels /\ 116 \in Labels /\ 117 \in Labels /\ 118 \in Labels
      /\ 119 \in Labels /\ 121 \in Labels /\ 123 \in Labels /\ 124 \in Labels /\ 125 \in Labels
      /\ 126 \in Labels /\ 128 \in Labels /\ 129 \in Labels /\ 130 \in Labels /\ 167 \in Labels
      /\ 169 \in Labels /\ 170 \in Labels /\ 172 \in Labels /\ 174 \in Labels /\ 176 \in Labels
  BY DEF Labels
<1>3. /\ 45 \in MarksEnd /\ 117 \in MarksEnd /\ 123 \in MarksEnd
  BY DEF MarksEnd, Within, Ahead, Behind, Labels, LineEnds
<1>4. AllOk(118 :> Letter("r" :> 167))
  BY <1>1, <1>2, LetterOk, NewlineDiffers, LedToOne, LedToJoined, WithinIs, AllOkOne
<1>5. AllOk(116 :> Keyword(117))
  BY <1>1, <1>2, <1>3, KeywordOk, AllOkOne
<1>6. /\ AllOk(119 :> Final("newline"))
      /\ AllOk(126 :> Final("IntegerLiteralI8"))
      /\ AllOk(130 :> Final("IntegerLiteralU8"))
  BY <1>1, <1>2, FinalOk, AllOkOne
<1>7. /\ AllOk(117 :> Ends("TypeUInt8"))
      /\ AllOk(123 :> Ends("DecimalLiteral"))
  BY <1>1, <1>2, EndsOk, AllOkOne
<1>8. AllOk(121 :> Filled(3, Marked(123, Branch(Each(Digits, 121) @@ "f" :> 169, 123))))
  <2>1. {121, 123, 169} \subseteq Within(3)
    BY <1>1, <1>2 DEF Within, Behind, LineEnds
  <2>2. LedTo(Each(Digits, 121) @@ "f" :> 169, Within(3))
    BY <2>1, NewlineDiffers, LedToOne, LedToJoined, LedToEach
  <2>3. RowOk(121, Filled(3, Marked(123, Branch(Each(Digits, 121) @@ "f" :> 169, 123))))
    BY <1>1, <1>2, <2>1, <2>2, <1>3, FilledMarkedOk DEF Branch
  <2> QED BY <2>3, AllOkOne
<1>9. AllOk(124 :> Branch("6" :> 170, 75))
  <2>1. 75 \in Within(Ahead[124] - 1) /\ 170 \in Within(Ahead[124] - 1) /\ 124 \in Behind
    BY <1>1, <1>2 DEF Within, Behind, LineEnds
  <2>2. LedTo("6" :> 170, Within(Ahead[124] - 1))
    BY <2>1, NewlineDiffers, LedToOne
  <2>3. RowOk(124, Branch("6" :> 170, 75))
    BY <1>1, <1>2, <2>1, <2>2, BehindOk
  <2> QED BY <2>3, AllOkOne
<1>10. AllOk(125 :> Branch("2" :> 172, 75))
  <2>1. 75 \in Within(Ahead[125] - 1) /\ 172 \in Within(Ahead[125] - 1) /\ 125 \in Behind
    BY <1>1, <1>2 DEF Within, Behind, LineEnds
  <2>2. LedTo("2" :> 172, Within(Ahead[125] - 1))
    BY <2>1, NewlineDiffers, LedToOne
  <2>3. RowOk(125, Branch("2" :> 172, 75))
    BY <1>1, <1>2, <2>1, <2>2, BehindOk
  <2> QED BY <2>3, AllOkOne
<1>11. AllOk(128 :> Branch("6" :> 174, 75))
  <2>1. 75 \in Within(Ahead[128] - 1) /\ 174 \in Within(Ahead[128] - 1) /\ 128 \in Behind
    BY <1>1, <1>2 DEF Within, Behind, LineEnds
  <2>2. LedTo("6" :> 174, Within(Ahead[128] - 1))
    BY <2>1, NewlineDiffers, LedToOne
  <2>3. RowOk(128, Branch("6" :> 174, 75))
    BY <1>1, <1>2, <2>1, <2>2, BehindOk
  <2> QED BY <2>3, AllOkOne
<1>12. AllOk(129 :> Branch("2" :> 176, 75))
  <2>1. 75 \in Within(Ahead[129] - 1) /\ 176 \in Within(Ahead[129] - 1) /\ 129 \in Behind
    BY <1>1, <1>2 DEF Within, Behind, LineEnds
  <2>2. LedTo("2" :> 176, Within(Ahead[129] - 1))
    BY <2>1, NewlineDiffers, LedToOne
  <2>3. RowOk(129, Branch("2" :> 176, 75))
    BY <1>1, <1>2, <2>1, <2>2, BehindOk
  <2> QED BY <2>3, AllOkOne
<1> QED BY <1>4, <1>5, <1>6, <1>7, <1>8, <1>9, <1>10, <1>11, <1>12, AllOkJoined DEF Labels116To130

LEMMA Labels132To136Ok == AllOk(Labels132To136)
<1>1. /\ Ahead[44] = 1 /\ Ahead[75] = 0 /\ Ahead[132] = 1 /\ Ahead[133] = 4 /\ Ahead[134] = 2
      /\ Ahead[135] = 0 /\ Ahead[136] = 3 /\ Ahead[178] = 1 /\ Ahead[181] = 3 /\ Ahead[182] = 2
  BY DEF Ahead, Labels
<1>2. /\ 44 \in Labels /\ 75 \in Labels /\ 132 \in Labels /\ 133 \in Labels /\ 134 \in Labels
      /\ 135 \in Labels /\ 136 \in Labels /\ 178 \in Labels /\ 181 \in Labels /\ 182 \in Labels
  BY DEF Labels
<1>3. /\ 45 \in MarksEnd /\ 135 \in MarksEnd
  BY DEF MarksEnd, Within, Ahead, Behind, Labels, LineEnds
<1>4. /\ AllOk(133 :> Letter("a" :> 181))
      /\ AllOk(136 :> Letter("l" :> 182))
  BY <1>1, <1>2, LetterOk, NewlineDiffers, LedToOne, LedToJoined, WithinIs, AllOkOne
<1>5. AllOk(134 :> Keyword(135))
  BY <1>1, <1>2, <1>3, KeywordOk, AllOkOne
<1>6. AllOk(135 :> Ends("And"))
  BY <1>1, <1>2, EndsOk, AllOkOne
<1>7. AllOk(132 :> Filled(1, Branch(Each(Letters, 178), 75)))
  <2>1. 75 \in Within(1) /\ 178 \in Within(1) /\ 132 \in Behind
    BY <1>1, <1>2 DEF Within, Behind, LineEnds
  <2>2. LedTo(Each(Letters, 178), Within(1))
    BY <2>1, NewlineDiffers, LedToEach
  <2>3. RowOk(132, Filled(1, Branch(Each(Letters, 178), 75)))
    BY <1>1, <1>2, <2>1, <2>2, FilledBehindOk
  <2> QED BY <2>3, AllOkOne
<1> QED BY <1>4, <1>5, <1>6, <1>7, AllOkJoined DEF Labels132To136

LEMMA Labels137To140Ok == AllOk(Labels137To140)
<1>1. /\ Ahead[44] = 1 /\ Ahead[137] = 3 /\ Ahead[138] = 2 /\ Ahead[139] = 0 /\ Ahead[140] = 2
      /\ Ahead[141] = 0 /\ Ahead[184] = 2
  BY DEF Ahead, Labels
<1>2. /\ 44 \in Labels /\ 137 \in Labels /\ 138 \in Labels /\ 139 \in Labels /\ 140 \in Labels
      /\ 141 \in Labels /\ 184 \in Labels
  BY DEF Labels
<1>3. /\ 45 \in MarksEnd /\ 139 \in MarksEnd /\ 141 \in MarksEnd
  BY DEF MarksEnd, Within, Ahead, Behind, Labels, LineEnds
<1>4. AllOk(137 :> Letter("t" :> 184))
  BY <1>1, <1>2, LetterOk, NewlineDiffers, LedToOne, LedToJoined, WithinIs, AllOkOne
<1>5. /\ AllOk(138 :> Keyword(139))
      /\ AllOk(140 :> Keyword(141))
  BY <1>1, <1>2, <1>3, KeywordOk, AllOkOne
<1>6. AllOk(139 :> Ends("TypeFloat32"))
  BY <1>1, <1>2, EndsOk, AllOkOne
<1> QED BY <1>4, <1>5, <1>6, AllOkJoined DEF Labels137To140

LEMMA Labels141To145Ok == AllOk(Labels141To145)
<1>1. /\ Ahead[44] = 1 /\ Ahead[142] = 4 /\ Ahead[143] = 3 /\ Ahead[144] = 2 /\ Ahead[145] = 0
      /\ Ahead[186] = 3 /\ Ahead[187] = 2
  BY DEF Ahead, Labels
<1>2. /\ 44 \in Labels /\ 141 \in Labels /\ 142 \in Labels /\ 143 \in Labels /\ 144 \in Labels
      /\ 145 \in Labels /\ 186 \in Labels /\ 187 \in Labels
  BY DEF Labels
<1>3. /\ 45 \in MarksEnd /\ 145 \in MarksEnd
  BY DEF MarksEnd, Within, Ahead, Behind, Labels, LineEnds
<1>4. /\ AllOk(142 :> Letter("s" :> 186))
      /\ AllOk(143 :> Letter("m" :> 187))
  BY <1>1, <1>2, LetterOk, NewlineDiffers, LedToOne, LedToJoined, WithinIs, AllOkOne
<1>5. AllOk(144 :> Keyword(145))
  BY <1>1, <1>2, <1>3, KeywordOk, AllOkOne
<1>6. /\ AllOk(141 :> Ends("TypeFloat64"))
      /\ AllOk(145 :> Ends("TypeInt16"))
  BY <1>1, <1>2, EndsOk, AllOkOne
<1> QED BY <1>4, <1>5, <1>6, AllOkJoined DEF Labels141To145

LEMMA Labels146To149Ok == AllOk(Labels146To149)
<1>1. /\ Ahead[44] = 1 /\ Ahead[146] = 2 /\ Ahead[147] = 0 /\ Ahead[148] = 5 /\ Ahead[149] = 2
      /\ Ahead[150] = 0 /\ Ahead[189] = 2 /\ Ahead[191] = 4
  BY DEF Ahead, Labels
<1>2. /\ 44 \in Labels /\ 146 \in Labels /\ 147 \in Labels /\ 148 \in Labels /\ 149 \in Labels
      /\ 150 \in Labels /\ 189 \in Labels /\ 191 \in Labels
  BY DEF Labels
<1>3. /\ 45 \in MarksEnd /\ 147 \in MarksEnd /\ 150 \in MarksEnd
  BY DEF MarksEnd, Within, Ahead, Behind, Labels, LineEnds
<1>4. AllOk(148 :> Letter("l" :> 189 @@ "o" :> 191))
  BY <1>1, <1>2, LetterOk, NewlineDiffers, LedToOne, LedToJoined, WithinIs, AllOkOne
<1>5. /\ AllOk(146 :> Keyword(147))
      /\ AllOk(149 :> Keyword(150))
  BY <1>1, <1>2, <1>3, KeywordOk, AllOkOne
<1>6. AllOk(147 :> Ends("TypeInt32"))
  BY <1>1, <1>2, EndsOk, AllOkOne
<1> QED BY <1>4, <1>5, <1>6, AllOkJoined DEF Labels146To149

LEMMA Labels150To154Ok == AllOk(Labels150To154)
<1>1. /\ Ahead[151] = 2 /\ Ahead[152] = 0 /\ Ahead[153] = 2 /\ Ahead[154] = 0
  BY DEF Ahead, Labels
<1>2. /\ 150 \in Labels /\ 151 \in Labels /\ 152 \in Labels /\ 153 \in Labels /\ 154 \in Labels
  BY DEF Labels
<1>3. /\ 152 \in MarksEnd /\ 154 \in MarksEnd
  BY DEF MarksEnd, Within, Ahead, Behind, Labels, LineEnds
<1>4. /\ AllOk(151 :> Keyword(152))
      /\ AllOk(153 :> Keyword(154))
  BY <1>1, <1>2, <1>3, KeywordOk, AllOkOne
<1>5. /\ AllOk(150 :> Ends("Let"))
      /\ AllOk(152 :> Ends("Mod"))
      /\ AllOk(154 :> Ends("Mutable"))
  BY <1>1, <1>2, EndsOk, AllOkOne
<1> QED BY <1>4, <1>5, AllOkJoined DEF Labels150To154

LEMMA Labels155To162Ok == AllOk(Labels155To162)
<1>1. /\ Ahead[44] = 1 /\ Ahead[155] = 2 /\ Ahead[156] = 0 /\ Ahead[157] = 5 /\ Ahead[158] = 3
      /\ Ahead[159] = 5 /\ Ahead[160] = 3 /\ Ahead[161] = 3 /\ Ahead[162] = 3 /\ Ahead[192] = 4
      /\ Ahead[193] = 2 /\ Ahead[195] = 4 /\ Ahead[196] = 2 /\ Ahead[198] = 2 /\ Ahead[200] = 2
  BY DEF Ahead, Labels
<1>2. /\ 44 \in Labels /\ 155 \in Labels /\ 156 \in Labels /\ 157 \in Labels /\ 158 \in Labels
      /\ 159 \in Labels /\ 160 \in Labels /\ 161 \in Labels /\ 162 \in Labels /\ 192 \in Labels
      /\ 193 \in Labels /\ 195 \in Labels /\ 196 \in Labels /\ 198 \in Labels /\ 200 \in Labels
  BY DEF Labels
<1>3. /\ 45 \in MarksEnd /\ 156 \in MarksEnd
  BY DEF MarksEnd, Within, Ahead, Behind, Labels, LineEnds
<1>4. /\ AllOk(157 :> Letter("u" :> 192))
      /\ AllOk(158 :> Letter("f" :> 193))
      /\ AllOk(159 :> Letter("u" :> 195))
      /\ AllOk(160 :> Letter("s" :> 196))
      /\ AllOk(161 :> Letter("e" :> 198))
      /\ AllOk(162 :> Letter("e" :> 200))
  BY <1>1, <1>2, LetterOk, NewlineDiffers, LedToOne, LedToJoined, WithinIs, AllOkOne
<1>5. AllOk(155 :> Keyword(156))
  BY <1>1, <1>2, <1>3, KeywordOk, AllOkOne
<1>6. AllOk(156 :> Ends("Not"))
  BY <1>1, <1>2, EndsOk, AllOkOne
<1> QED BY <1>4, <1>5, <1>6, AllOkJoined DEF Labels155To162

LEMMA Labels163To166Ok == AllOk(Labels163To166)
<1>1. /\ Ahead[163] = 2 /\ Ahead[164] = 0 /\ Ahead[165] = 2 /\ Ahead[166] = 0
  BY DEF Ahead, Labels
<1>2. /\ 163 \in Labels /\ 164 \in Labels /\ 165 \in Labels /\ 166 \in Labels
  BY DEF Labels
<1>3. /\ 164 \in MarksEnd /\ 166 \in MarksEnd
  BY DEF MarksEnd, Within, Ahead, Behind, Labels, LineEnds
<1>4. /\ AllOk(163 :> Keyword(164))
      /\ AllOk(165 :> Keyword(166))
  BY <1>1, <1>2, <1>3, KeywordOk, AllOkOne
<1>5. /\ AllOk(164 :> Ends("TypeUInt16"))
      /\ AllOk(166 :> Ends("TypeUInt32"))
  BY <1>1, <1>2, EndsOk, AllOkOne
<1> QED BY <1>4, <1>5, AllOkJoined DEF Labels163To166

LEMMA Labels167To176Ok == AllOk(Labels167To176)
<1>1. /\ Ahead[75] = 0 /\ Ahead[167] = 2 /\ Ahead[168] = 0 /\ Ahead[169] = 3 /\ Ahead[170] = 1
      /\ Ahead[172] = 1 /\ Ahead[174] = 1 /\ Ahead[176] = 1 /\ Ahead[202] = 2 /\ Ahead[203] = 2
  BY DEF Ahead, Labels
<1>2. /\ 75 \in Labels /\ 167 \in Labels /\ 168 \in Labels /\ 169 \in Labels /\ 170 \in Labels
      /\ 172 \in Labels /\ 174 \in Labels /\ 176 \in Labels /\ 202 \in Labels /\ 203 \in Labels
  BY DEF Labels
<1>3. /\ 168 \in MarksEnd
  BY DEF MarksEnd, Within, Ahead, Behind, Labels, LineEnds
<1>4. AllOk(167 :> Keyword(168))
  BY <1>1, <1>2, <1>3, KeywordOk, AllOkOne
<1>5. /\ AllOk(170 :> Final("IntegerLiteralI16"))
      /\ AllOk(172 :> Final("IntegerLiteralI32"))
      /\ AllOk(174 :> Final("IntegerLiteralU16"))
      /\ AllOk(176 :> Final("IntegerLiteralU32"))
  BY <1>1, <1>2, FinalOk, AllOkOne
<1>6. AllOk(168 :> Ends("Var"))
  BY <1>1, <1>2, EndsOk, AllOkOne
<1>7. AllOk(169 :> Branch("3" :> 202 @@ "6" :> 203, 75))
  <2>1. {75, 202, 203} \subseteq Within(Ahead[169] - 1) /\ 169 \in Behind
    BY <1>1, <1>2 DEF Within, Behind, LineEnds
  <2>2. LedTo("3" :> 202 @@ "6" :> 203, Within(Ahead[169] - 1))
    BY <2>1, NewlineDiffers, LedToOne, LedToJoined
  <2>3. RowOk(169, Branch("3" :> 202 @@ "6" :> 203, 75))
    BY <1>1, <1>2, <2>1, <2>2, BehindOk
  <2> QED BY <2>3, AllOkOne
<1> QED BY <1>4, <1>5, <1>6, <1>7, AllOkJoined DEF Labels167To176

LEMMA Labels178To181Ok == AllOk(Labels178To181)
<1>1. /\ Ahead[44] = 1 /\ Ahead[84] = 1 /\ Ahead[178] = 1 /\ Ahead[180] = 0 /\ Ahead[181] = 3
      /\ Ahead[204] = 2
  BY DEF Ahead, Labels
<1>2. /\ 44 \in Labels /\ 84 \in Labels /\ 178 \in Labels /\ 180 \in Labels /\ 181 \in Labels
      /\ 204 \in Labels
  BY DEF Labels
<1>3. /\ 45 \in MarksEnd /\ 180 \in MarksEnd
  BY DEF MarksEnd, Within, Ahead, Behind, Labels, LineEnds
<1>4. AllOk(181 :> Letter("s" :> 204))
  BY <1>1, <1>2, LetterOk, NewlineDiffers, LedToOne, LedToJoined, WithinIs, AllOkOne
<1>5. AllOk(180 :> Ends("IdentifierMulti"))
  BY <1>1, <1>2, EndsOk, AllOkOne
<1>6. AllOk(178 :> Filled(1, Marked(180, Word(":" :> 84, 178, 180))))
  <2>1. {84, 178, 180} \subseteq Within(1)
    BY <1>1, <1>2 DEF Within, Behind, LineEnds
  <2>2. LedTo(":" :> 84, Within(1))
    BY <2>1, NewlineDiffers, LedToOne
  <2>3. RowOk(178, Filled(1, Marked(180, Word(":" :> 84, 178, 180))))
    BY <1>1, <1>2, <2>1, <2>2, <1>3, FilledMarkedOk
  <2> QED BY <2>3, AllOkOne
<1> QED BY <1>4, <1>5, <1>6, AllOkJoined DEF Labels178To181

LEMMA Labels182To185Ok == AllOk(Labels182To185)
<1>1. /\ Ahead[182] = 2 /\ Ahead[183] = 0 /\ Ahead[184] = 2 /\ Ahead[185] = 0
  BY DEF Ahead, Labels
<1>2. /\ 182 \in Labels /\ 183 \in Labels /\ 184 \in Labels /\ 185 \in Labels
  BY DEF Labels
<1>3. /\ 183 \in MarksEnd /\ 185 \in MarksEnd
  BY DEF MarksEnd, Within, Ahead, Behind, Labels, LineEnds
<1>4. /\ AllOk(182 :> Keyword(183))
      /\ AllOk(184 :> Keyword(185))
  BY <1>1, <1>2, <1>3, KeywordOk, AllOkOne
<1>5. /\ AllOk(183 :> Ends("TypeBool"))
      /\ AllOk(185 :> Ends("Cast"))
  BY <1>1, <1>2, EndsOk, AllOkOne
<1> QED BY <1>4, <1>5, AllOkJoined DEF Labels182To185

LEMMA Labels186To189Ok == AllOk(Labels186To189)
<1>1. /\ Ahead[44] = 1 /\ Ahead[186] = 3 /\ Ahead[187] = 2 /\ Ahead[188] = 0 /\ Ahead[189] = 2
      /\ Ahead[190] = 0 /\ Ahead[206] = 2
  BY DEF Ahead, Labels
<1>2. /\ 44 \in Labels /\ 186 \in Labels /\ 187 \in Labels /\ 188 \in Labels /\ 189 \in Labels
      /\ 190 \in Labels /\ 206 \in Labels
  BY DEF Labels
<1>3. /\ 45 \in MarksEnd /\ 188 \in MarksEnd /\ 190 \in MarksEnd
  BY DEF MarksEnd, Within, Ahead, Behind, Labels, LineEnds
<1>4. AllOk(186 :> Letter("e" :> 206))
  BY <1>1, <1>2, LetterOk, NewlineDiffers, LedToOne, LedToJoined, WithinIs, AllOkOne
<1>5. /\ AllOk(187 :> Keyword(188))
      /\ AllOk(189 :> Keyword(190))
  BY <1>1, <1>2, <1>3, KeywordOk, AllOkOne
<1>6. AllOk(188 :> Ends("From"))
  BY <1>1, <1>2, EndsOk, AllOkOne
<1> QED BY <1>4, <1>5, <1>6, AllOkJoined DEF Labels186To189

LEMMA Labels190To195Ok == AllOk(Labels190To195)
<1>1. /\ Ahead[44] = 1 /\ Ahead[191] = 4 /\ Ahead[192] = 4 /\ Ahead[193] = 2 /\ Ahead[194] = 0
      /\ Ahead[195] = 4 /\ Ahead[208] = 3 /\ Ahead[209] = 3 /\ Ahead[210] = 3
  BY DEF Ahead, Labels
<1>2. /\ 44 \in Labels /\ 190 \in Labels /\ 191 \in Labels /\ 192 \in Labels /\ 193 \in Labels
      /\ 194 \in Labels /\ 195 \in Labels /\ 208 \in Labels /\ 209 \in Labels /\ 210 \in Labels
  BY DEF Labels
<1>3. /\ 45 \in MarksEnd /\ 194 \in MarksEnd
  BY DEF MarksEnd, Within, Ahead, Behind, Labels, LineEnds
<1>4. /\ AllOk(191 :> Letter("r" :> 208))
      /\ AllOk(192 :> Letter("r" :> 209))
      /\ AllOk(195 :> Letter("c" :> 210))
  BY <1>1, <1>2, LetterOk, NewlineDiffers, LedToOne, LedToJoined, WithinIs, AllOkOne
<1>5. AllOk(193 :> Keyword(194))
  BY <1>1, <1>2, <1>3, KeywordOk, AllOkOne
<1>6. /\ AllOk(190 :> Ends("Impl"))
      /\ AllOk(194 :> Ends("Self"))
  BY <1>1, <1>2, EndsOk, AllOkOne
<1> QED BY <1>4, <1>5, <1>6, AllOkJoined DEF Labels190To195

LEMMA Labels196To199Ok == AllOk(Labels196To199)
<1>1. /\ Ahead[196] = 2 /\ Ahead[197] = 0 /\ Ahead[198] = 2 /\ Ahead[199] = 0
  BY DEF Ahead, Labels
<1>2. /\ 196 \in Labels /\ 197 \in Labels /\ 198 \in Labels /\ 199 \in Labels
  BY DEF Labels
<1>3. /\ 197 \in MarksEnd /\ 199 \in MarksEnd
  BY DEF MarksEnd, Within, Ahead, Behind, Labels, LineEnds
<1>4. /\ AllOk(196 :> Keyword(197))
      /\ AllOk(198 :> Keyword(199))
  BY <1>1, <1>2, <1>3, KeywordOk, AllOkOne
<1>5. /\ AllOk(197 :> Ends("This"))
      /\ AllOk(199 :> Ends("True"))
  BY <1>1, <1>2, EndsOk, AllOkOne
<1> QED BY <1>4, <1>5, AllOkJoined DEF Labels196To199

LEMMA Labels200To203Ok == AllOk(Labels200To203)
<1>1. /\ Ahead[75] = 0 /\ Ahead[200] = 2 /\ Ahead[201] = 0 /\ Ahead[202] = 2 /\ Ahead[203] = 2
      /\ Ahead[211] = 1 /\ Ahead[213] = 1
  BY DEF Ahead, Labels
<1>2. /\ 75 \in Labels /\ 200 \in Labels /\ 201 \in Labels /\ 202 \in Labels /\ 203 \in Labels
      /\ 211 \in Labels /\ 213 \in Labels
  BY DEF Labels
<1>3. /\ 201 \in MarksEnd
  BY DEF MarksEnd, Within, Ahead, Behind, Labels, LineEnds
<1>4. AllOk(200 :> Keyword(201))
  BY <1>1, <1>2, <1>3, KeywordOk, AllOkOne
<1>5. AllOk(201 :> Ends("Type"))
  BY <1>1, <1>2, EndsOk, AllOkOne
<1>6. AllOk(202 :> Branch("2" :> 211, 75))
  <2>1. 75 \in Within(Ahead[202] - 1) /\ 211 \in Within(Ahead[202] - 1) /\ 202 \in Behind
    BY <1>1, <1>2 DEF Within, Behind, LineEnds
  <2>2. LedTo("2" :> 211, Within(Ahead[202] - 1))
    BY <2>1, NewlineDiffers, LedToOne
  <2>3. RowOk(202, Branch("2" :> 211, 75))
    BY <1>1, <1>2, <2>1, <2>2, BehindOk
  <2> QED BY <2>3, AllOkOne
<1>7. AllOk(203 :> Branch("4" :> 213, 75))
  <2>1. 75 \in Within(Ahead[203] - 1) /\ 213 \in Within(Ahead[203] - 1) /\ 203 \in Behind
    BY <1>1, <1>2 DEF Within, Behind, LineEnds
  <2>2. LedTo("4" :> 213, Within(Ahead[203] - 1))
    BY <2>1, NewlineDiffers, LedToOne
  <2>3. RowOk(203, Branch("4" :> 213, 75))
    BY <1>1, <1>2, <2>1, <2>2, BehindOk
  <2> QED BY <2>3, AllOkOne
<1> QED BY <1>4, <1>5, <1>6, <1>7, AllOkJoined DEF Labels200To203

LEMMA Labels204To207Ok == AllOk(Labels204To207)
<1>1. /\ Ahead[204] = 2 /\ Ahead[205] = 0 /\ Ahead[206] = 2 /\ Ahead[207] = 0
  BY DEF Ahead, Labels
<1>2. /\ 204 \in Labels /\ 205 \in Labels /\ 206 \in Labels /\ 207 \in Labels
  BY DEF Labels
<1>3. /\ 205 \in MarksEnd /\ 207 \in MarksEnd
  BY DEF MarksEnd, Within, Ahead, Behind, Labels, LineEnds
<1>4. /\ AllOk(204 :> Keyword(205))
      /\ AllOk(206 :> Keyword(207))
  BY <1>1, <1>2, <1>3, KeywordOk, AllOkOne
<1>5. /\ AllOk(205 :> Ends("Alias"))
      /\ AllOk(207 :> Ends("False"))
  BY <1>1, <1>2, EndsOk, AllOkOne
<1> QED BY <1>4, <1>5, AllOkJoined DEF Labels204To207

LEMMA Labels208To216Ok == AllOk(Labels208To216)
<1>1. /\ Ahead[44] = 1 /\ Ahead[208] = 3 /\ Ahead[209] = 3 /\ Ahead[210] = 3 /\ Ahead[211] = 1
      /\ Ahead[213] = 1 /\ Ahead[215] = 2 /\ Ahead[216] = 0 /\ Ahead[217] = 2 /\ Ahead[219] = 2
  BY DEF Ahead, Labels
<1>2. /\ 44 \in Labels /\ 208 \in Labels /\ 209 \in Labels /\ 210 \in Labels /\ 211 \in Labels
      /\ 213 \in Labels /\ 215 \in Labels /\ 216 \in Labels /\ 217 \in Labels /\ 219 \in Labels
  BY DEF Labels
<1>3. /\ 45 \in MarksEnd /\ 216 \in MarksEnd
  BY DEF MarksEnd, Within, Ahead, Behind, Labels, LineEnds
<1>4. /\ AllOk(208 :> Letter("t" :> 215))
      /\ AllOk(209 :> Letter("n" :> 217))
      /\ AllOk(210 :> Letter("t" :> 219))
  BY <1>1, <1>2, LetterOk, NewlineDiffers, LedToOne, LedToJoined, WithinIs, AllOkOne
<1>5. AllOk(215 :> Keyword(216))
  BY <1>1, <1>2, <1>3, KeywordOk, AllOkOne
<1>6. /\ AllOk(211 :> Final("DecimalLiteral32"))
      /\ AllOk(213 :> Final("DecimalLiteral64"))
  BY <1>1, <1>2, FinalOk, AllOkOne
<1>7. AllOk(216 :> Ends("Import"))
  BY <1>1, <1>2, EndsOk, AllOkOne
<1> QED BY <1>4, <1>5, <1>6, <1>7, AllOkJoined DEF Labels208To216

LEMMA Labels217To220Ok == AllOk(Labels217To220)
<1>1. /\ Ahead[217] = 2 /\ Ahead[218] = 0 /\ Ahead[219] = 2 /\ Ahead[220] = 0
  BY DEF Ahead, Labels
<1>2. /\ 217 \in Labels /\ 218 \in Labels /\ 219 \in Labels /\ 220 \in Labels
  BY DEF Labels
<1>3. /\ 218 \in MarksEnd /\ 220 \in MarksEnd
  BY DEF MarksEnd, Within, Ahead, Behind, Labels, LineEnds
<1>4. /\ AllOk(217 :> Keyword(218))
      /\ AllOk(219 :> Keyword(220))
  BY <1>1, <1>2, <1>3, KeywordOk, AllOkOne
<1>5. /\ AllOk(218 :> Ends("Return"))
      /\ AllOk(220 :> Ends("Struct"))
  BY <1>1, <1>2, EndsOk, AllOkOne
<1> QED BY <1>4, <1>5, AllOkJoined DEF Labels217To220

LEMMA AutomatonOk == AllOk(Automaton)
BY Labels2To22Ok, Labels24To32Ok, Labels33To43Ok, Labels44To58Ok, Labels59To78Ok,
   Labels80To93Ok, Labels94To98Ok, Labels99To105Ok, Labels106To115Ok, Labels116To130Ok,
   Labels132To136Ok, Labels137To140Ok, Labels141To145Ok, Labels146To149Ok, Labels150To154Ok,
   Labels155To162Ok, Labels163To166Ok, Labels167To176Ok, Labels178To181Ok, Labels182To185Ok,
   Labels186To189Ok, Labels190To195Ok, Labels196To199Ok, Labels200To203Ok, Labels204To207Ok,
   Labels208To216Ok, Labels217To220Ok, AllOkJoined DEF Automaton

\* What Start makes sure of is enough wherever it leads.
LEMMA StartOk ==
  RowOk(0, Start) /\ Start.ends = "none" /\ Start.mark = 0 /\ Steps(Start) = 0
<1>1. 0 \in Labels /\ Ahead[0] = 0
  BY DEF Ahead, Labels
<1>2. PICK T : T = Within(7) \ Behind
  OBVIOUS
<1>3. /\ {2, 4, 6, 11, 12, 14, 16, 18, 20, 22, 24, 26, 28, 30, 33, 35, 37, 39, 41, 43} \subseteq T
      /\ {46, 48, 50, 51, 52, 53, 54, 55, 56, 57, 58, 59, 60, 61, 62, 63, 64, 66} \subseteq T
  <2>1. T = Labels \ ({0} \cup LineEnds \cup Behind)
    BY <1>2, AheadType DEF Within
  <2> QED BY <2>1 DEF Labels, Behind, LineEnds
<1>4. PICK moves : /\ Start = Filled(7, InWord(moves, 43, 4)) /\ LedTo(moves, T)
                   /\ Newline \in DOMAIN moves
  <2>4. 9 \in LineEnds
    BY DEF LineEnds
  <2>5. KnowsNewline(Newline :> 9)
    BY DEF :>, KnowsNewline
  <2>6. KnowsNewline(StartSigns)
    BY <2>5, KnowsJoined DEF StartSigns
  <2>7. Newline \in DOMAIN (StartSigns @@ StartLetters)
    BY <2>6, KnowsJoined DEF KnowsNewline
  <2>8. LedTo(Newline :> 9, T)
    BY <2>4, LedToOne
  <2>1. LedTo(StartSigns, T)
    BY <1>3, <2>8, NewlineDiffers, LedToOne, LedToEach, LedToJoined DEF StartSigns
  <2>2. LedTo(StartLetters, T)
    BY <1>3, NewlineDiffers, LedToOne, LedToEach, LedToJoined DEF StartLetters
  <2>3. LedTo(StartSigns @@ StartLetters, T)
    BY <2>1, <2>2, LedToJoined
  <2> QED BY <2>3, <2>7 DEF Start
<1>5. PICK row : row = Filled(7, InWord(moves, 43, 4))
  OBVIOUS
<1>6. row.mark = 0 /\ row.fill = 7 /\ row.moves = moves /\ row.word = 43 /\ row.other = 4
  BY <1>5 DEF Filled, InWord, Word
<1>7. Steps(row) = 0
  BY <1>5 DEF Filled, InWord, Word, Steps
<1>8. row.ends = "none"
  BY <1>5 DEF Filled, InWord, Word
<1>9. Sure(0, row) = 7
  BY <1>6 DEF Sure
<1>10. RowTypeOk(row)
  BY <1>6 DEF RowTypeOk
<1>11. GoesTo(row, Within(7) \ Behind)
  BY <1>2, <1>3, <1>4, <1>6 DEF GoesTo
<1>12. Newline \in DOMAIN row.moves /\ 0 \notin LineEnds \cup {5}
  BY <1>4, <1>6 DEF LineEnds
<1>13. RowOk(0, row)
  BY <1>1, <1>7, <1>8, <1>9, <1>10, <1>11, <1>12, LooksOk
<1> QED BY <1>4, <1>5, <1>6, <1>7, <1>8, <1>13

-----------------------------------------------------------------------------
(* The window *)

\* The buffer holds the text from the token on, without a gap, and zeros behind its end.
Window(s, read) ==
  /\ 0 <= s.token /\ s.token <= s.current /\ s.current <= s.limit
  /\ s.limit <= kMaxBufferSize + kYYMaxFill
  /\ IF s.eof THEN read = Len(text) ELSE s.limit = kMaxBufferSize
  /\ read \in 0 .. Len(text) /\ 0 <= read - End(s) + s.token
  /\ \A i \in s.token .. s.limit - 1 : s.buffer[i] = TextAt(read - End(s) + i)

MarkIn(s) == s.token <= s.marker /\ s.marker <= s.current

LEMMA CharAtType ==
  ASSUME text \in Texts, NEW i \in 0 .. Len(text) - 1
  PROVE CharAt(i) \in Character
<1>1. PICK c : c = SubSeq(text, i + 1, i + 1)
  OBVIOUS
<1>2. c \in Character
  <2>1. Len(text) \in Nat /\ i + 1 \in 1 .. Len(text)
    BY LexerAssumption
  <2> QED BY <1>1, <2>1 DEF Character
<1>3. CharAt(i) \in {c, "NUL"}
  BY <1>1 DEF CharAt
<1> QED BY <1>2, <1>3 DEF Character

LEMMA BytesReadType ==
  ASSUME NEW s, s.token \in Nat, text \in Texts, position \in 0 .. Len(text)
  PROVE /\ BytesRead(s) \in 0 .. s.token /\ position + BytesRead(s) \in 0 .. Len(text)
        /\ BytesRead(s) < s.token => position + BytesRead(s) = Len(text)
BY LexerAssumption DEF BytesRead

LEMMA AtIs ==
  ASSUME NEW s \in LexerState, NEW row
  PROVE /\ At(row, s) \in LexerState
        /\ At(row, s).current = s.current + Steps(row) /\ At(row, s).token = s.token
        /\ At(row, s).limit = s.limit /\ At(row, s).eof = s.eof /\ At(row, s).buffer = s.buffer
        /\ At(row, s).marker = IF row.mark = 0 THEN s.marker ELSE At(row, s).current
<1>1. PICK t : t = Stepped(row, s)
  OBVIOUS
<1>2. /\ t \in LexerState
      /\ t.current = s.current + Steps(row) /\ t.token = s.token /\ t.marker = s.marker
      /\ t.limit = s.limit /\ t.eof = s.eof /\ t.buffer = s.buffer
  BY <1>1 DEF Stepped, Steps, LexerState
<1>3. At(row, s) = Marks(row, t)
  BY <1>1 DEF At
<1>4. /\ Marks(row, t) \in LexerState
      /\ Marks(row, t).current = t.current /\ Marks(row, t).token = t.token
      /\ Marks(row, t).limit = t.limit /\ Marks(row, t).eof = t.eof
      /\ Marks(row, t).buffer = t.buffer
      /\ Marks(row, t).marker = IF row.mark = 0 THEN t.marker ELSE t.current
  BY <1>2 DEF Marks, LexerState
<1> QED BY <1>2, <1>3, <1>4

\* A label that may be visited steps and marks inside the window.
LEMMA AtInWindow ==
  ASSUME NEW s \in LexerState, NEW read, Window(s, read), NEW l \in Labels, NEW row,
         RowOk(l, row), s.limit - s.current >= Ahead[l], l \in Behind => MarkIn(s)
  PROVE /\ At(row, s) \in LexerState /\ Window(At(row, s), read)
        /\ At(row, s).limit - At(row, s).current >= Ahead[l] - Steps(row)
        /\ row.mark # 0 \/ l \in Behind => MarkIn(At(row, s))
<1>1. PICK r : r = At(row, s)
  OBVIOUS
<1>2. /\ r \in LexerState
      /\ r.current = s.current + Steps(row) /\ r.token = s.token
      /\ r.limit = s.limit /\ r.eof = s.eof /\ r.buffer = s.buffer
      /\ r.marker = IF row.mark = 0 THEN s.marker ELSE r.current
  BY <1>1, AtIs
<1>3. s.current \in Int /\ s.limit \in Int /\ s.token \in Int /\ s.marker \in Int /\ s.eof \in BOOLEAN
  BY DEF LexerState
<1>4. Steps(row) \in 0 .. Ahead[l] /\ Ahead[l] \in 0 .. 7
  BY AheadType DEF RowOk, Steps
<1>5. Window(r, read)
  <2>1. End(r) = End(s)
    BY <1>2 DEF End
  <2>2. /\ 0 <= r.token /\ r.token <= r.current /\ r.current <= r.limit
        /\ r.limit <= kMaxBufferSize + kYYMaxFill
    <3>1. PICK at, to, end, ahead, step \in Int :
            /\ at = s.token /\ to = s.current /\ end = s.limit /\ ahead = Ahead[l] /\ step = Steps(row)
      BY <1>3, <1>4
    <3>2. step <= ahead /\ end - to >= ahead /\ 0 <= step
      BY <1>4, <3>1
    <3>3. 0 <= at /\ at <= to /\ end <= kMaxBufferSize + kYYMaxFill
      BY <3>1 DEF Window
    <3>4. at <= to + step /\ to + step <= end
      BY <3>2, <3>3
    <3> QED BY <1>2, <3>1, <3>3, <3>4
  <2>3. \A i \in r.token .. r.limit - 1 : r.buffer[i] = TextAt(read - End(r) + i)
    BY <1>2, <2>1 DEF Window
  <2> QED BY <1>2, <2>1, <2>2, <2>3 DEF Window
<1>6. r.limit - r.current >= Ahead[l] - Steps(row)
  BY <1>2, <1>3, <1>4
<1>7. row.mark # 0 \/ l \in Behind => MarkIn(r)
  BY <1>2, <1>3, <1>4 DEF MarkIn, Window
<1> QED BY <1>1, <1>2, <1>5, <1>6, <1>7

LEMMA RefilledIs ==
  ASSUME NEW s \in LexerState
  PROVE LET r == Refilled(s)
            left == s.limit - s.token
            end == left + BytesRead(s)
        IN /\ r.current = s.current - s.token /\ r.marker = s.marker - s.token /\ r.token = 0
           /\ r.limit = LimitOf(end) /\ r.eof = Pads(end)
           /\ r.lineNum = s.lineNum /\ r.lineStartOffset = s.lineStartOffset
           /\ r.tokenLineStart = s.tokenLineStart /\ r.tokenColumnStart = s.tokenColumnStart
           /\ r.streamReadOffset = (left + position) % SizeMax
           /\ r.buffer = [i \in Place |->
                IF i < left THEN s.buffer[s.token + i]
                ELSE IF i < end THEN CharAt(position + i - left)
                ELSE IF Pads(end) /\ i < end + kYYMaxFill THEN "NUL" ELSE s.buffer[i]]
BY DEF Refilled, LexerState

\* A refill moves the window without a gap, and brings as much as was asked for.
LEMMA RefilledInWindow ==
  ASSUME text \in Texts, NEW s \in LexerState, Window(s, position), NEW n \in 1 .. 7,
         ~Refused(s, n)
  PROVE /\ Refilled(s) \in LexerState /\ Window(Refilled(s), position + BytesRead(s))
        /\ Refilled(s).limit - Refilled(s).current >= n
        /\ MarkIn(s) => MarkIn(Refilled(s))
<1>0. PICK got, left, end, read :
        /\ got = BytesRead(s) /\ left = s.limit - s.token /\ end = left + got
        /\ read = position + got
  OBVIOUS
<1>1. PICK r : r = Refilled(s)
  OBVIOUS
<1>2. /\ r.current = s.current - s.token /\ r.marker = s.marker - s.token /\ r.token = 0
      /\ r.limit = LimitOf(end) /\ r.eof = Pads(end)
  BY <1>0, <1>1, RefilledIs
<1>14. r.buffer = [i \in Place |->
          IF i < left THEN s.buffer[s.token + i]
          ELSE IF i < end THEN CharAt(position + i - left)
          ELSE IF Pads(end) /\ i < end + kYYMaxFill THEN "NUL" ELSE s.buffer[i]]
  BY <1>0, <1>1, RefilledIs
<1>3. /\ s.limit \in Int /\ s.token \in Int /\ s.current \in Int /\ s.marker \in Int
      /\ s.buffer \in [Place -> Character] /\ s.eof \in BOOLEAN
  BY DEF LexerState
<1>4. /\ 0 <= s.token /\ s.token <= s.current /\ s.current <= s.limit
      /\ s.limit = kMaxBufferSize /\ ~s.eof /\ s.token >= n /\ position \in 0 .. Len(text)
      /\ 0 <= position - s.limit + s.token /\ kMaxBufferSize \in Nat /\ Len(text) \in Nat
      /\ End(s) = s.limit
  <2>1. ~s.eof /\ ~(s.token < n)
    BY <1>3 DEF Refused
  <2>2. End(s) = s.limit /\ s.limit = kMaxBufferSize
    BY <1>3, <2>1 DEF End, Window
  <2>3. s.token >= n
    BY <1>3, <2>1
  <2>4. /\ 0 <= s.token /\ s.token <= s.current /\ s.current <= s.limit
        /\ position \in 0 .. Len(text) /\ 0 <= position - s.limit + s.token
    BY <2>2 DEF Window
  <2>5. kMaxBufferSize \in Nat /\ Len(text) \in Nat
    BY LexerAssumption
  <2> QED BY <2>1, <2>2, <2>3, <2>4, <2>5
<1>15. left \in Nat /\ s.token = kMaxBufferSize - left /\ s.current \in s.token .. kMaxBufferSize
  <2>1. PICK at, to, size \in Int : at = s.token /\ to = s.current /\ size = kMaxBufferSize
    BY <1>3, <1>4
  <2>2. left = size - at /\ 0 <= at /\ at <= to /\ to <= size
    BY <1>0, <1>4, <2>1
  <2>3. left \in Nat /\ at = size - left /\ to \in at .. size
    BY <2>2
  <2> QED BY <2>1, <2>3
<1>5. /\ got \in 0 .. s.token /\ read \in 0 .. Len(text)
      /\ got < s.token => read = Len(text)
  <2>1. s.token \in Nat
    BY <1>3, <1>4
  <2> QED BY <1>0, <1>4, <2>1, BytesReadType
<1>6. /\ left \in Nat /\ got \in Nat /\ end = left + got /\ end <= kMaxBufferSize
      /\ left <= position /\ read = position + got /\ position \in Nat /\ kMaxBufferSize \in Nat
      /\ end < kMaxBufferSize => read = Len(text)
  <2>1. end <= kMaxBufferSize /\ (end < kMaxBufferSize => got < s.token)
    <3>1. PICK tok \in Nat : tok = s.token /\ tok = kMaxBufferSize - left
      BY <1>3, <1>4, <1>15
    <3>2. got \in 0 .. tok /\ end = left + got /\ left \in Nat /\ kMaxBufferSize \in Nat
      BY <1>0, <1>4, <1>5, <1>15, <3>1
    <3>3. end <= kMaxBufferSize
      BY <3>1, <3>2
    <3>4. end < kMaxBufferSize => got < tok
      BY <3>1, <3>2
    <3> QED BY <3>1, <3>3, <3>4
  <2>2. left <= position
    BY <1>4, <1>15
  <2>3. got \in Nat /\ position \in Nat
    BY <1>4, <1>5
  <2>4. end < kMaxBufferSize => read = Len(text)
    BY <1>5, <2>1
  <2> QED BY <1>0, <1>15, <1>4, <2>1, <2>2, <2>3, <2>4
<1>7. /\ r.limit = IF end < kMaxBufferSize THEN end + 7 ELSE kMaxBufferSize
      /\ (r.eof <=> end < kMaxBufferSize) /\ End(r) = end
  <2>1. r.limit = (IF end < kMaxBufferSize THEN end + 7 ELSE end)
    BY <1>2 DEF LimitOf, Pads, kYYMaxFill
  <2>2. r.eof <=> end < kMaxBufferSize
    BY <1>2 DEF Pads
  <2> QED BY <1>6, <2>1, <2>2 DEF End, kYYMaxFill
<1>8. r.eof => read = Len(text)
  BY <1>6, <1>7
<1>9. ASSUME NEW i \in r.token .. r.limit - 1
      PROVE i \in Place /\ r.buffer[i] = TextAt(read - End(r) + i)
  <2>1. i \in Int /\ 0 <= i /\ i < r.limit
    BY <1>2, <1>6, <1>7
  <2>2. i \in Place
    BY <1>6, <1>7, <2>1 DEF Place, kYYMaxFill
  <2>3. CASE i < left
    <3>1. s.token + i \in s.token .. s.limit - 1
      BY <1>4, <1>15, <2>1, <2>3
    <3>2. s.buffer[s.token + i] = TextAt(position - s.limit + (s.token + i))
      BY <1>4, <3>1 DEF Window
    <3>3. position - s.limit + (s.token + i) = read - end + i
      BY <1>4, <1>6, <1>15, <2>1
    <3> QED BY <1>14, <1>7, <2>2, <2>3, <3>2, <3>3
  <2>4. CASE ~(i < left) /\ i < end
    <3>1. read - end + i = position + i - left
      BY <1>6, <2>1
    <3>2. position + i - left < Len(text)
      BY <1>4, <1>5, <1>6, <2>1, <2>4
    <3>3. r.buffer[i] = CharAt(position + i - left)
      BY <1>14, <2>2, <2>4
    <3>4. TextAt(read - End(r) + i) = CharAt(position + i - left)
      BY <1>7, <3>1, <3>2 DEF TextAt
    <3> QED BY <2>2, <3>3, <3>4
  <2>5. CASE ~(i < left) /\ ~(i < end)
    <3>1. Pads(end) /\ i < end + kYYMaxFill /\ end < kMaxBufferSize
      BY <1>6, <1>7, <2>1, <2>5 DEF Pads, kYYMaxFill
    <3>2. r.buffer[i] = "NUL"
      BY <1>14, <2>2, <2>5, <3>1
    <3>3. ~(read - end + i < Len(text))
      BY <1>4, <1>6, <2>1, <2>5, <3>1
    <3>4. TextAt(read - End(r) + i) = "NUL"
      BY <1>7, <3>3 DEF TextAt
    <3> QED BY <2>2, <3>2, <3>4
  <2> QED BY <2>2, <2>3, <2>4, <2>5
<1>10. Window(r, read)
  <2>1. /\ 0 <= r.token /\ r.token <= r.current /\ r.current <= r.limit
        /\ r.limit <= kMaxBufferSize + kYYMaxFill
    BY <1>2, <1>6, <1>7, <1>15 DEF kYYMaxFill
  <2>2. 0 <= read - End(r) + r.token
    BY <1>2, <1>6, <1>7
  <2>3. IF r.eof THEN read = Len(text) ELSE r.limit = kMaxBufferSize
    BY <1>7, <1>8
  <2> QED BY <1>5, <1>9, <2>1, <2>2, <2>3 DEF Window
<1>11. r.limit - r.current >= n
  BY <1>2, <1>4, <1>6, <1>7, <1>15
<1>12. MarkIn(s) => MarkIn(r)
  BY <1>2, <1>3 DEF MarkIn
<1>13. Refilled(s) \in LexerState
  <2>1. r.buffer \in [Place -> Character]
    <3> SUFFICES ASSUME NEW i \in Place
                 PROVE (IF i < left THEN s.buffer[s.token + i]
                        ELSE IF i < end THEN CharAt(position + i - left)
                        ELSE IF Pads(end) /\ i < end + kYYMaxFill THEN "NUL" ELSE s.buffer[i])
                       \in Character
      BY <1>14
    <3>1. i \in Nat
      BY <1>4 DEF Place
    <3>2. i < left => s.token + i \in Place
      BY <1>4, <1>15, <3>1 DEF Place, kYYMaxFill
    <3>3. ~(i < left) /\ i < end => position + i - left \in 0 .. Len(text) - 1
      BY <1>4, <1>5, <1>6, <3>1
    <3>4. ~(i < left) /\ i < end => CharAt(position + i - left) \in Character
      BY <3>3, CharAtType
    <3>5. "NUL" \in Character
      BY DEF Character
    <3> QED BY <1>3, <3>2, <3>4, <3>5
  <2>2. r.limit \in Int /\ r.current \in Int /\ r.marker \in Int /\ r.token \in Int
    <3>1. r.limit \in Int
      BY <1>6, <1>7
    <3> QED BY <1>2, <1>3, <3>1
  <2>4. r.eof \in BOOLEAN
    BY <1>2 DEF Pads
  <2>3. (s.limit - s.token + position) % SizeMax \in Nat
    BY <1>3, <1>4, LexerAssumption
  <2> QED BY <1>1, <2>1, <2>2, <2>3, <2>4 DEF Refilled, LexerState
<1> QED BY <1>0, <1>1, <1>10, <1>11, <1>12, <1>13

LEMMA BeginInWindow ==
  ASSUME NEW s \in LexerState, NEW read, Window(s, read)
  PROVE /\ markScanBegin(s) \in LexerState /\ Window(markScanBegin(s), read)
        /\ markScanBegin(s).limit = s.limit /\ markScanBegin(s).current = s.current
        /\ markScanBegin(s).token = s.current /\ markScanBegin(s).eof = s.eof
<1>1. PICK at : at = [s EXCEPT !.token = s.current, !.tokenLineStart = s.lineNum]
  OBVIOUS
<1>2. PICK r : r = markScanBegin(s)
  OBVIOUS
<1>3. /\ at \in LexerState
      /\ at.limit = s.limit /\ at.current = s.current /\ at.token = s.current
      /\ at.eof = s.eof /\ at.buffer = s.buffer /\ at.marker = s.marker
  BY <1>1 DEF LexerState
<1>4. getColumnOffsetStart(at) \in Nat
  <2>1. /\ at.streamReadOffset \in Nat /\ at.lineStartOffset \in Nat /\ at.token \in Int
        /\ SizeMax \in Nat \ {0}
    BY <1>3, LexerAssumption DEF LexerState
  <2>2. (at.streamReadOffset + at.token - at.lineStartOffset + 1) % SizeMax \in Nat
    BY <2>1
  <2> QED BY <2>2 DEF getColumnOffsetStart
<1>5. r = [at EXCEPT !.tokenColumnStart = getColumnOffsetStart(at)]
  BY <1>1, <1>2 DEF markScanBegin
<1>6. /\ r \in LexerState
      /\ r.limit = s.limit /\ r.current = s.current /\ r.token = s.current
      /\ r.eof = s.eof /\ r.buffer = s.buffer /\ r.marker = s.marker
  BY <1>3, <1>4, <1>5 DEF LexerState
<1>7. /\ s.limit \in Int /\ s.token \in Int /\ s.current \in Int
  BY DEF LexerState
<1>8. Window(r, read)
  <2>1. End(r) = End(s) /\ End(s) \in Int
    BY <1>6, <1>7 DEF End, kYYMaxFill
  <2>2. read \in Nat
    BY LexerAssumption DEF Window
  <2>3. 0 <= read - End(r) + r.token
    BY <1>6, <1>7, <2>1, <2>2 DEF Window
  <2>4. \A i \in r.token .. r.limit - 1 : r.buffer[i] = TextAt(read - End(r) + i)
    <3> SUFFICES ASSUME NEW i \in s.current .. s.limit - 1
                 PROVE s.buffer[i] = TextAt(read - End(s) + i)
      BY <1>6, <2>1
    <3>1. i \in s.token .. s.limit - 1
      BY <1>7 DEF Window
    <3> QED BY <3>1 DEF Window
  <2>5. /\ 0 <= r.token /\ r.token <= r.current /\ r.current <= r.limit
        /\ r.limit <= kMaxBufferSize + kYYMaxFill
    BY <1>6, <1>7 DEF Window
  <2> QED BY <1>6, <2>3, <2>4, <2>5 DEF Window
<1> QED BY <1>2, <1>6, <1>8

\* What a label looks at, when it has as much ahead as it is said to.
LEMMA LooksAtText ==
  ASSUME text \in Texts, NEW l \in Labels, NEW row, RowOk(l, row), row.ends = "none",
         NEW s \in LexerState, Window(s, position), s.limit - s.current >= Ahead[l] - Steps(row)
  PROVE /\ SeesText(row, s)
        /\ Suffices(row, s) => s.limit - s.current >= Sure(l, row)
        /\ ~Suffices(row, s) => row.fill \in 1 .. 7 /\ Sure(l, row) = row.fill
<1>1. /\ s.limit \in Int /\ s.token \in Int /\ s.current \in Int
      /\ Ahead[l] \in 0 .. 7 /\ Steps(row) \in 0 .. 1 /\ row.fill \in 0 .. 7
  BY AheadType DEF LexerState, Steps, RowOk, RowTypeOk
<1>2. Sure(l, row) >= 1
  BY DEF RowOk
<1>3. Suffices(row, s) => s.limit - s.current >= Sure(l, row)
  BY <1>1 DEF Suffices, Sure
<1>4. ~Suffices(row, s) => row.fill \in 1 .. 7 /\ Sure(l, row) = row.fill
  <2>1. row.fill = 0 => Suffices(row, s)
    BY <1>1 DEF Suffices, Window
  <2> QED BY <1>1, <2>1 DEF Sure
<1>5. ASSUME NEW r \in LexerState, NEW read, Window(r, read), r.limit - r.current >= 1
      PROVE Sees(r, read)
  <2>1. r.limit \in Int /\ r.token \in Int /\ r.current \in Int
    BY DEF LexerState
  <2>2. r.current < r.limit
    BY <1>5, <2>1
  <2>3. r.current \in r.token .. r.limit - 1
    BY <2>1, <2>2, <1>5 DEF Window
  <2>4. char(r) = TextAt(read - End(r) + r.current)
    BY <1>5, <2>3 DEF Window, char
  <2> QED BY <1>5, <2>2, <2>4 DEF Window, Sees, PlaceOf
<1>6. Suffices(row, s) => Sees(s, position)
  <2>1. Suffices(row, s) => s.limit - s.current >= 1
    <3>1. Sure(l, row) \in Int
      BY <1>1 DEF Sure
    <3> QED BY <1>1, <1>2, <1>3, <3>1
  <2> QED BY <1>5, <2>1
<1>7. ASSUME ~Suffices(row, s), ~Refused(s, row.fill)
      PROVE Suffices(row, Refilled(s)) /\ Sees(Refilled(s), position + BytesRead(s))
  <2>1. row.fill \in 1 .. 7
    BY <1>4, <1>7
  <2>2. PICK r : r = Refilled(s)
    OBVIOUS
  <2>3. /\ r \in LexerState /\ Window(r, position + BytesRead(s))
        /\ r.limit - r.current >= row.fill
    BY <1>7, <2>1, <2>2, RefilledInWindow
  <2>4. r.limit - r.current >= 1
    BY <2>1, <2>3 DEF LexerState
  <2>5. Sees(r, position + BytesRead(s))
    BY <1>5, <2>3, <2>4
  <2> QED BY <2>2, <2>3, <2>5 DEF Suffices
<1>8. SeesText(row, s)
  BY <1>6, <1>7 DEF SeesText
<1> QED BY <1>3, <1>4, <1>8

LEMMA GoesIn ==
  ASSUME NEW row, NEW T, GoesTo(row, T), NEW c
  PROVE /\ Goes(row, c) \in T \cup LineEnds
        /\ c # Newline => Goes(row, c) \in T
        /\ Newline \notin DOMAIN row.moves => Goes(row, c) \in T
BY DEF Goes, GoesTo, LedTo

\* A newline leads to where it is not stepped over, or to where a line ends; nothing else
\* leads there.
LEMMA GoesAtNewline ==
  ASSUME NEW l \in Labels, NEW row, RowOk(l, row), row.ends = "none", NEW c
  PROVE /\ c = Newline => Goes(row, c) \in Stays \cup LineEnds
        /\ c # Newline => Goes(row, c) \notin LineEnds
        /\ l = 4 => Goes(row, c) = 5
        /\ Goes(row, c) \in Labels \ {0}
<1>1. GoesTo(row, Within(Sure(l, row))) /\ (Newline \in DOMAIN row.moves \/ row.other \in Stays)
  BY DEF RowOk
<1>2. ASSUME c # Newline PROVE Goes(row, c) \notin LineEnds
  BY <1>1, <1>2, GoesIn DEF Within
<1>3. ASSUME c = Newline PROVE Goes(row, c) \in Stays \cup LineEnds
  <2>1. c \notin WordChars
    BY <1>3, NewlineDiffers
  <2> QED BY <1>1, <1>3, <2>1 DEF Goes, GoesTo, LedTo
<1>4. ASSUME l = 4 PROVE Goes(row, c) = 5
  BY <1>4 DEF RowOk, GoesOnly, Goes
<1>5. Goes(row, c) \in Labels \ {0}
  <2>1. Goes(row, c) \in Within(Sure(l, row)) \cup LineEnds
    BY <1>1, GoesIn
  <2> QED BY <2>1 DEF Within, LineEnds, Labels
<1> QED BY <1>2, <1>3, <1>4, <1>5

\* Where the automaton goes on after a look, it has ahead what the next label may need.
Ready(s, l) == l \in Labels /\ s.limit - s.current >= Ahead[l] /\ (l \in Behind => MarkIn(s))

LEMMA GoesReady ==
  ASSUME NEW l \in Labels, NEW row, RowOk(l, row), row.ends = "none",
         NEW s \in LexerState, s.limit - s.current >= Sure(l, row),
         row.mark # 0 \/ l \in Behind => MarkIn(s), NEW c
  PROVE Ready(s, Goes(row, c))
<1>1. Goes(row, c) \in Within(Sure(l, row)) \cup LineEnds
  BY GoesIn DEF RowOk
<1>2. Goes(row, c) \in Behind => row.mark # 0 \/ l \in Behind
  <2>1. GoesTo(row, Within(Sure(l, row)) \ Behind) => Goes(row, c) \notin Behind
    BY GoesIn DEF LineEnds, Behind
  <2> QED BY <2>1 DEF RowOk
<1>3. Ahead[Goes(row, c)] \in Int /\ Goes(row, c) \in Labels /\ Ahead[Goes(row, c)] <= Sure(l, row)
  <2>1. \A k \in LineEnds : k \in Labels /\ Ahead[k] = 1
    BY DEF LineEnds, Labels, Ahead
  <2>2. Sure(l, row) >= 1
    BY DEF RowOk
  <2> QED BY <1>1, <2>1, <2>2, AheadType DEF Within
<1>4. Sure(l, row) \in Int /\ s.limit - s.current \in Int
  BY AheadType DEF Sure, Steps, RowOk, RowTypeOk, LexerState
<1>5. s.limit - s.current >= Ahead[Goes(row, c)]
  BY <1>3, <1>4
<1> QED BY <1>2, <1>3, <1>5 DEF Ready

LEMMA LookInWindow ==
  ASSUME text \in Texts, NEW l \in Labels, NEW row, RowOk(l, row), row.ends = "none",
         NEW s \in LexerState, Window(s, position), s.limit - s.current >= Ahead[l] - Steps(row),
         row.mark # 0 \/ l \in Behind => MarkIn(s),
         status = "scanning", label \in Labels, moved \in BOOLEAN, Look(row, s)
  PROVE /\ text' = text /\ m_lexerState' \in LexerState /\ Window(m_lexerState', position')
        /\ label' \in Labels /\ moved' \in BOOLEAN /\ status' \in {"scanning", "EOS"}
        /\ status' = "scanning" => Ready(m_lexerState', label')
<1>1. CASE Suffices(row, s) /\ Branches(row, s) /\ UNCHANGED <<stream, scanned, moved, m_curToken>>
  <2>1. Ready(s, Goes(row, char(s)))
    BY <1>1, GoesReady, LooksAtText
  <2> QED BY <1>1, <2>1 DEF Branches, stream, Ready
<1>2. CASE /\ ~Suffices(row, s) /\ ~Refused(s, row.fill) /\ Branches(row, Refilled(s))
           /\ position' = position + BytesRead(s) /\ moved' = (position > 0)
           /\ UNCHANGED <<text, scanned, m_curToken>>
  <2>1. row.fill \in 1 .. 7 /\ Sure(l, row) = row.fill
    BY <1>2, LooksAtText
  <2>2. PICK r : r = Refilled(s)
    OBVIOUS
  <2>3. /\ r \in LexerState /\ Window(r, position + BytesRead(s))
        /\ r.limit - r.current >= row.fill /\ (MarkIn(s) => MarkIn(r))
    BY <1>2, <2>1, <2>2, RefilledInWindow
  <2>4. Ready(r, Goes(row, char(r)))
    BY <2>1, <2>3, GoesReady
  <2>5. m_lexerState' = r /\ label' = Goes(row, char(r)) /\ status' = status
    BY <1>2, <2>2 DEF Branches
  <2>6. moved' \in BOOLEAN
    BY <1>2
  <2> QED BY <1>2, <2>3, <2>4, <2>5, <2>6 DEF Ready
<1>3. CASE ~Suffices(row, s) /\ Refused(s, row.fill) /\ EndOfStream(s)
  BY <1>3 DEF EndOfStream, stream
<1> QED BY <1>1, <1>2, <1>3 DEF Look

-----------------------------------------------------------------------------
(* The machine *)

IInv ==
  /\ TypeOK
  /\ Window(m_lexerState, position)
  /\ yyaccept \in MarksEnd
  /\ status = "scanning" => Ready(m_lexerState, label)

LEMMA WindowNext ==
  ASSUME text' = text, Window(m_lexerState', position')
  PROVE Window(m_lexerState, position)'
BY DEF Window, End, TextAt, CharAt

LEMMA IInvNext ==
  ASSUME TypeOK', text' = text, Window(m_lexerState', position'), yyaccept' \in MarksEnd,
         status' = "scanning" => Ready(m_lexerState', label')
  PROVE IInv'
BY WindowNext DEF IInv, Ready, MarkIn

LEMMA InitIInv == Init => IInv
<1> SUFFICES ASSUME Init PROVE IInv
  OBVIOUS
<1>1. /\ kMaxBufferSize \in Nat /\ SizeMax \in Nat \ {0} /\ Len(text) \in Nat
      /\ text \in Texts /\ position = 0 /\ label = 0 /\ yyaccept = 32 /\ status = "scanning"
      /\ moved = FALSE
  BY LexerAssumption DEF Init
<1>2. PICK s : s = m_lexerState
  OBVIOUS
<1>3. /\ s.limit = kMaxBufferSize /\ s.current = kMaxBufferSize /\ s.token = kMaxBufferSize
      /\ s.marker = kMaxBufferSize /\ s.eof = FALSE
  BY <1>2 DEF Init
<1>4. s \in LexerState
  <2>1. "?" \in Character
    BY DEF Character
  <2>2. [i \in Place |-> "?"] \in [Place -> Character]
    BY <2>1
  <2>3. Nowhere \in Nat
    BY <1>1 DEF Nowhere
  <2> QED BY <1>1, <1>2, <2>2, <2>3 DEF Init, LexerState
<1>5. TypeOK
  <2>1. position \in 0 .. Len(text) /\ label \in 0 .. 220 /\ yyaccept \in 0 .. 220
    BY <1>1
  <2>2. status \in {"scanning", "Ok", "Error", "EOS"} /\ moved \in BOOLEAN
    BY <1>1
  <2> QED BY <1>1, <1>2, <1>4, <2>1, <2>2 DEF TypeOK
<1>6. Window(m_lexerState, position)
  <2>1. End(s) = kMaxBufferSize
    BY <1>3 DEF End
  <2>2. \A i \in s.token .. s.limit - 1 : FALSE
    BY <1>1, <1>3
  <2> QED BY <1>1, <1>2, <1>3, <2>1, <2>2 DEF Window, kYYMaxFill
<1>7. yyaccept \in MarksEnd
  BY <1>1 DEF MarksEnd, Within, Behind, Ahead, Labels, LineEnds
<1>8. Ready(m_lexerState, label)
  <2>1. 0 \in Labels /\ Ahead[0] = 0 /\ 0 \notin Behind
    BY DEF Labels, Ahead, Behind
  <2> QED BY <1>1, <1>2, <1>3, <2>1 DEF Ready
<1> QED BY <1>5, <1>6, <1>7, <1>8 DEF IInv

\* What every label does first, when it may be visited.
LEMMA VisitedRow ==
  ASSUME IInv, status = "scanning", label \in DOMAIN Automaton, NEW row, row = Automaton[label]
  PROVE LET s == At(row, m_lexerState)
            t == Stepped(row, m_lexerState)
        IN /\ label \in Labels /\ RowOk(label, row)
           /\ s \in LexerState /\ Window(s, position)
           /\ s.limit - s.current >= Ahead[label] - Steps(row)
           /\ row.mark # 0 \/ label \in Behind => MarkIn(s)
           /\ t \in LexerState /\ t.limit - t.current >= Ahead[label] - Steps(row)
           /\ Window(t, position)
<1>1. label \in Labels /\ RowOk(label, row)
  BY AutomatonOk DEF AllOk, IInv, Ready
<1>2. m_lexerState \in LexerState /\ Window(m_lexerState, position)
  BY DEF IInv, TypeOK
<1>3. /\ m_lexerState.limit - m_lexerState.current >= Ahead[label]
      /\ label \in Behind => MarkIn(m_lexerState)
  BY DEF IInv, Ready
<1>4. PICK s : s = At(row, m_lexerState)
  OBVIOUS
<1>5. /\ s \in LexerState /\ Window(s, position)
      /\ s.limit - s.current >= Ahead[label] - Steps(row)
      /\ row.mark # 0 \/ label \in Behind => MarkIn(s)
  BY <1>1, <1>2, <1>3, <1>4, AtInWindow
<1>6. PICK t : t = Stepped(row, m_lexerState)
  OBVIOUS
<1>7. s = Marks(row, t)
  BY <1>4, <1>6 DEF At
<1>8. t \in LexerState
  BY <1>2, <1>6 DEF Stepped, LexerState
<1>9. /\ t.limit = s.limit /\ t.current = s.current /\ t.token = s.token /\ t.eof = s.eof
      /\ t.buffer = s.buffer
  BY <1>7, <1>8 DEF Marks, LexerState
<1>10. t.limit - t.current >= Ahead[label] - Steps(row) /\ Window(t, position)
  BY <1>5, <1>9 DEF Window, End
<1> QED BY <1>1, <1>4, <1>5, <1>6, <1>8, <1>10

LEMMA BeginStep == ASSUME IInv, Begin PROVE IInv'
<1>1. PICK s : s = markScanBegin(m_lexerState)
  OBVIOUS
<1>2. /\ status = "scanning" /\ yyaccept' = 32 /\ Look(Start, s) /\ text \in Texts
      /\ label \in Labels /\ moved \in BOOLEAN
  BY <1>1 DEF Begin, IInv, TypeOK, Labels
<1>3. /\ s \in LexerState /\ Window(s, position)
  BY <1>1, BeginInWindow DEF IInv, TypeOK
<1>4. 0 \in Labels /\ Ahead[0] = 0 /\ 0 \notin Behind
  BY DEF Labels, Ahead, Behind
<1>5. s.limit - s.current >= Ahead[0] - Steps(Start)
  BY <1>3, <1>4, StartOk DEF Window, LexerState
<1>6. /\ text' = text /\ m_lexerState' \in LexerState /\ Window(m_lexerState', position')
      /\ label' \in Labels /\ moved' \in BOOLEAN /\ status' \in {"scanning", "EOS"}
      /\ status' = "scanning" => Ready(m_lexerState', label')
  <2>1. ~(Start.mark # 0 \/ 0 \in Behind)
    BY <1>4, StartOk
  <2> QED BY <1>2, <1>3, <1>4, <1>5, <2>1, StartOk, LookInWindow
<1>7. yyaccept' \in MarksEnd
  BY <1>2 DEF MarksEnd, Within, Behind, Ahead, Labels, LineEnds
<1>8. TypeOK'
  <2>1. position' \in 0 .. Len(text)
    BY <1>6 DEF Window
  <2>2. yyaccept' \in 0 .. 220 /\ label' \in 0 .. 220
    BY <1>2, <1>6 DEF Labels
  <2> QED BY <1>2, <1>6, <2>1, <2>2 DEF TypeOK
<1> QED BY <1>6, <1>7, <1>8, IInvNext

LEMMA VisitStep == ASSUME IInv, Visit PROVE IInv'
<1>1. PICK row, s : row = Automaton[label] /\ s = At(row, m_lexerState)
  OBVIOUS
<1>2. /\ status = "scanning" /\ label \in DOMAIN Automaton /\ row.ends = "none"
      /\ Look(row, s) /\ text \in Texts /\ moved \in BOOLEAN
      /\ yyaccept' = IF row.mark = 0 THEN yyaccept ELSE row.mark
  BY <1>1 DEF Visit, Visiting, IInv, TypeOK
<1>3. /\ label \in Labels /\ RowOk(label, row) /\ s \in LexerState /\ Window(s, position)
      /\ s.limit - s.current >= Ahead[label] - Steps(row)
      /\ row.mark # 0 \/ label \in Behind => MarkIn(s)
  BY <1>1, <1>2, VisitedRow
<1>4. /\ text' = text /\ m_lexerState' \in LexerState /\ Window(m_lexerState', position')
      /\ label' \in Labels /\ moved' \in BOOLEAN /\ status' \in {"scanning", "EOS"}
      /\ status' = "scanning" => Ready(m_lexerState', label')
  BY <1>2, <1>3, LookInWindow
<1>5. yyaccept' \in MarksEnd
  BY <1>2, <1>3 DEF IInv, RowOk, RowTypeOk
<1>6. TypeOK'
  <2>1. position' \in 0 .. Len(text)
    BY <1>4 DEF Window
  <2>2. yyaccept' \in 0 .. 220 /\ label' \in 0 .. 220
    BY <1>4, <1>5 DEF Labels, MarksEnd, Within
  <2> QED BY <1>2, <1>4, <2>1, <2>2 DEF TypeOK
<1> QED BY <1>4, <1>5, <1>6, IInvNext

LEMMA GiveBackStep == ASSUME IInv, GiveBack PROVE IInv'
<1>1. PICK s, t : s = m_lexerState /\ t = m_lexerState'
  OBVIOUS
<1>2. /\ status = "scanning" /\ label = 75 /\ label' = yyaccept /\ yyaccept \in MarksEnd
      /\ t = [s EXCEPT !.current = s.marker] /\ s \in LexerState /\ Window(s, position)
      /\ text' = text /\ position' = position /\ yyaccept' = yyaccept /\ status' = status
      /\ moved' = moved
  BY <1>1 DEF GiveBack, IInv, TypeOK, stream
<1>3. MarkIn(s)
  <2>1. 75 \in Behind
    BY DEF Behind
  <2> QED BY <1>1, <1>2, <2>1 DEF IInv, Ready
<1>4. /\ t \in LexerState /\ t.current = s.marker /\ t.token = s.token /\ t.limit = s.limit
      /\ t.eof = s.eof /\ t.buffer = s.buffer
  BY <1>2 DEF LexerState
<1>5. /\ s.limit \in Int /\ s.token \in Int /\ s.current \in Int /\ s.marker \in Int
  BY <1>2 DEF LexerState
<1>6. Window(t, position)
  <2>1. /\ 0 <= t.token /\ t.token <= t.current /\ t.current <= t.limit
        /\ t.limit <= kMaxBufferSize + kYYMaxFill
    BY <1>2, <1>3, <1>4, <1>5 DEF Window, MarkIn
  <2>2. End(t) = End(s)
    BY <1>4 DEF End
  <2> QED BY <1>2, <1>4, <2>1, <2>2 DEF Window
<1>7. Ready(t, label')
  <2>1. label' \in Labels /\ Ahead[label'] = 0 /\ label' \notin Behind
    <3>1. label' \in Labels /\ Ahead[label'] <= 0 /\ label' \notin Behind
      BY <1>2 DEF MarksEnd, Within
    <3> QED BY <3>1, AheadType
  <2>2. t.limit - t.current >= 0
    BY <1>4, <1>5, <1>6 DEF Window
  <2> QED BY <2>1, <2>2 DEF Ready
<1>8. TypeOK'
  BY <1>1, <1>2, <1>4, <1>7 DEF TypeOK, IInv, Ready, Labels
<1> QED BY <1>1, <1>2, <1>6, <1>7, <1>8, IInvNext

LEMMA SkipStep == ASSUME IInv, Skip PROVE IInv'
<1>1. PICK row, s : row = Automaton[label] /\ s = Stepped(row, m_lexerState)
  OBVIOUS
<1>2. /\ status = "scanning" /\ label \in DOMAIN Automaton /\ text \in Texts /\ label' = 0
      /\ text' = text /\ position' = position /\ yyaccept' = yyaccept /\ status' = status
      /\ \/ m_lexerState' = s /\ moved' = moved
         \/ m_lexerState' = updateLineStartOffset(s) /\ moved' = FALSE
  BY <1>1 DEF Skip, Visiting, IInv, TypeOK, stream
<1>3. s \in LexerState /\ Window(s, position)
  BY <1>1, <1>2, VisitedRow
<1>4. /\ m_lexerState' \in LexerState /\ m_lexerState'.token = s.token
      /\ m_lexerState'.current = s.current /\ m_lexerState'.limit = s.limit
      /\ m_lexerState'.eof = s.eof /\ m_lexerState'.buffer = s.buffer
  <2>1. PICK t : t = updateLineStartOffset(s)
    OBVIOUS
  <2>2. (s.streamReadOffset + s.current) % SizeMax \in Nat /\ s.lineNum + 1 \in Nat
    BY <1>3, LexerAssumption DEF LexerState
  <2>3. /\ t \in LexerState /\ t.token = s.token /\ t.current = s.current /\ t.limit = s.limit
        /\ t.eof = s.eof /\ t.buffer = s.buffer
    BY <1>3, <2>1, <2>2 DEF updateLineStartOffset, LexerState
  <2> QED BY <1>2, <1>3, <2>1, <2>3
<1>5. Window(m_lexerState', position')
  BY <1>2, <1>3, <1>4 DEF Window, End
<1>6. Ready(m_lexerState', label')
  <2>1. 0 \in Labels /\ Ahead[0] = 0 /\ 0 \notin Behind
    BY DEF Labels, Ahead, Behind
  <2>2. m_lexerState'.limit - m_lexerState'.current >= 0
    BY <1>3, <1>4 DEF Window, LexerState
  <2> QED BY <1>2, <2>1, <2>2 DEF Ready
<1>7. TypeOK'
  <2>1. moved' \in BOOLEAN
    BY <1>2 DEF IInv, TypeOK
  <2> QED BY <1>2, <1>4, <2>1 DEF IInv, TypeOK
<1> QED BY <1>2, <1>5, <1>6, <1>7, IInvNext DEF IInv

LEMMA ZeroStep == ASSUME IInv, Zero PROVE IInv'
<1>1. PICK row, s : row = Automaton[label] /\ s = Stepped(row, m_lexerState)
  OBVIOUS
<1>2. /\ status = "scanning" /\ label \in DOMAIN Automaton /\ row.ends = "end" /\ text \in Texts
      /\ text' = text /\ position' = position /\ yyaccept' = yyaccept /\ m_lexerState' = s
      /\ moved' = moved
      /\ \/ status' = "EOS" /\ label' = label
         \/ status' = status /\ label' = 4
  BY <1>1 DEF Zero, Visiting, EndOfStream, IInv, TypeOK, stream
<1>3. /\ label \in Labels /\ RowOk(label, row) /\ s \in LexerState /\ Window(s, position)
      /\ s.limit - s.current >= Ahead[label] - Steps(row)
  BY <1>1, <1>2, VisitedRow
<1>4. 4 \in Labels /\ Ahead[4] \in Int /\ 4 \notin Behind
  BY DEF Labels, Ahead, Behind
<1>5. s.limit - s.current >= Ahead[4]
  <2>1. Ahead[4] + Steps(row) <= Ahead[label]
    BY <1>2, <1>3 DEF RowOk
  <2>2. Ahead[label] \in Int /\ Steps(row) \in Int /\ s.limit \in Int /\ s.current \in Int
    BY <1>3, AheadType DEF Steps, LexerState
  <2> QED BY <1>3, <1>4, <2>1, <2>2
<1>6. status' = "scanning" => Ready(m_lexerState', label')
  BY <1>2, <1>4, <1>5 DEF Ready
<1>7. TypeOK'
  <2>1. label' \in 0 .. 220
    BY <1>2, <1>3, <1>4 DEF Labels
  <2>2. status' \in {"scanning", "Ok", "Error", "EOS"}
    BY <1>2
  <2> QED BY <1>2, <1>3, <2>1, <2>2 DEF IInv, TypeOK
<1> QED BY <1>2, <1>3, <1>6, <1>7, IInvNext DEF IInv

LEMMA setTokenStep == ASSUME IInv, setToken PROVE IInv'
<1>1. PICK row, s : row = Automaton[label] /\ s = Stepped(row, m_lexerState)
  OBVIOUS
<1>2. /\ status = "scanning" /\ label \in DOMAIN Automaton /\ text \in Texts
      /\ text' = text /\ position' = position /\ yyaccept' = yyaccept /\ m_lexerState' = s
      /\ moved' = moved /\ label' = label /\ status' \in {"Error", "Ok"}
  BY <1>1 DEF setToken, Visiting, IInv, TypeOK, stream
<1>3. s \in LexerState /\ Window(s, position)
  BY <1>1, <1>2, VisitedRow
<1>4. status' # "scanning"
  BY <1>2
<1>5. TypeOK'
  <2>1. status' \in {"scanning", "Ok", "Error", "EOS"}
    BY <1>2
  <2> QED BY <1>2, <1>3, <2>1 DEF IInv, TypeOK
<1> QED BY <1>2, <1>3, <1>4, <1>5, IInvNext DEF IInv

LEMMA scanStep == ASSUME IInv, scan PROVE IInv'
<1>1. PICK s : s = m_lexerState
  OBVIOUS
<1>2. /\ text' = text /\ position' = position /\ yyaccept' = yyaccept /\ m_lexerState' = s
      /\ moved' = moved /\ label' = 0 /\ status' = "scanning" /\ s \in LexerState
      /\ Window(s, position)
  BY <1>1 DEF scan, IInv, TypeOK, stream
<1>3. Ready(m_lexerState', label')
  <2>1. 0 \in Labels /\ Ahead[0] = 0 /\ 0 \notin Behind
    BY DEF Labels, Ahead, Behind
  <2>2. s.limit - s.current >= 0
    BY <1>2 DEF Window, LexerState
  <2> QED BY <1>2, <2>1, <2>2 DEF Ready
<1>4. TypeOK'
  BY <1>2 DEF IInv, TypeOK
<1> QED BY <1>2, <1>3, <1>4, IInvNext DEF IInv

LEMMA StutterStep == ASSUME IInv, UNCHANGED vars PROVE IInv'
<1>1. PICK s : s = m_lexerState
  OBVIOUS
<1>2. /\ text' = text /\ position' = position /\ yyaccept' = yyaccept /\ m_lexerState' = s
      /\ moved' = moved /\ label' = label /\ status' = status
  BY <1>1 DEF vars
<1>3. TypeOK' /\ Window(m_lexerState', position')
  BY <1>1, <1>2 DEF IInv, TypeOK
<1> QED BY <1>1, <1>2, <1>3, IInvNext DEF IInv

-----------------------------------------------------------------------------
(* Places in the source *)

From(s, read) == PlaceOf(s, read, s.token)
To(s, read) == PlaceOf(s, read, s.current)

\* No line ends in front of the second place.
Unbroken(p, q) == \A i \in p .. q - 1 : ~NewlineAt(text, i)

\* There is no window until the first refill.
OffsetsOk(s, read) ==
  IF s.streamReadOffset = Nowhere
  THEN read = 0 /\ ~s.eof /\ s.lineStartOffset = 0 /\ s.current = s.limit
  ELSE s.streamReadOffset <= Len(text) + kMaxBufferSize /\ (s.eof \/ read > 0)

\* The lines up to a place have been counted; offsets are as far from the place in the text
\* as the line begins behind where it is said to, as long as the window stays.
Counted(s, read, still, place) ==
  /\ s.lineNum = LineOf(text, place)
  /\ still => \E q \in 0 .. place :
       /\ LineBegins(text, q, place)
       /\ s.streamReadOffset = Nowhere \/ s.streamReadOffset - s.lineStartOffset = PlaceOf(s, read, 0) - q

\* In a token, the automaton has met no newline but one it is to stop at.
InToken(s, read, still, l) ==
  /\ s.streamReadOffset # Nowhere
  /\ Counted(s, read, still, From(s, read))
  /\ s.tokenLineStart = s.lineNum
  /\ still => s.tokenColumnStart = s.streamReadOffset + s.token - s.lineStartOffset + 1
  /\ l \notin {4, 5} =>
       /\ Unbroken(From(s, read), To(s, read))
       /\ IF NewlineAt(text, To(s, read)) THEN l \in Stays \cup LineEnds ELSE l \notin LineEnds

IsSequence(f) == \E S : f \in Seq(S)
\* Each token is where it says, and the latest ends before the place.
Placed(tokens) ==
  /\ IsSequence(tokens)
  /\ \A i \in DOMAIN tokens :
       IsPlaced(tokens[i]) /\ (i > 1 => tokens[i - 1].to <= tokens[i].from)
EndBefore(tokens, place) ==
  Len(tokens) > 0 => tokens[Len(tokens)].to \in Int /\ tokens[Len(tokens)].to <= place

\* Between two tokens, and in one.
Rests(s, read, still, tokens) ==
  OffsetsOk(s, read) /\ Counted(s, read, still, To(s, read)) /\ EndBefore(tokens, To(s, read))
Reads(s, read, still, l, tokens) ==
  OffsetsOk(s, read) /\ InToken(s, read, still, l) /\ EndBefore(tokens, From(s, read))

PlacesOk ==
  /\ Placed(scanned)
  /\ status = "Ok" \/ (status = "scanning" /\ label = 0) =>
       Rests(m_lexerState, position, ~moved, scanned)
  /\ status = "scanning" /\ label # 0 =>
       Reads(m_lexerState, position, ~moved, label, scanned)

LEMMA PlacesNext ==
  ASSUME text' = text, Placed(scanned'),
         status' = "Ok" \/ (status' = "scanning" /\ label' = 0) =>
           Rests(m_lexerState', position', ~moved', scanned'),
         status' = "scanning" /\ label' # 0 =>
           Reads(m_lexerState', position', ~moved', label', scanned')
  PROVE PlacesOk'
BY ZenonT(60) DEF PlacesOk, Placed, IsPlaced, Rests, Reads, OffsetsOk, InToken, Counted, EndBefore, Unbroken, From, To,
       TextAt, CharAt, IsSequence, PlaceOf, End

-----------------------------------------------------------------------------
(* Lines *)

LEMMA LineOfFirst == \A t : LineOf(t, 0) = 1
BY FS_EmptySet DEF LineOf

LEMMA NewlinesFinite ==
  ASSUME NEW t, NEW p \in Nat
  PROVE IsFiniteSet({i \in 0 .. p - 1 : NewlineAt(t, i)})
BY FS_Interval, FS_Subset, IsFiniteSet(0 .. p - 1)

\* Over a newline, the next line is counted.
LEMMA LineOfNext ==
  ASSUME NEW t, NEW p \in Nat, NewlineAt(t, p)
  PROVE LineOf(t, p + 1) = LineOf(t, p) + 1 /\ LineBegins(t, p + 1, p + 1)
<1>1. PICK S : S = {i \in 0 .. p - 1 : NewlineAt(t, i)}
  OBVIOUS
<1>2. IsFiniteSet(S) /\ p \notin S
  BY <1>1, NewlinesFinite
<1>3. {i \in 0 .. (p + 1) - 1 : NewlineAt(t, i)} = S \cup {p}
  BY <1>1
<1>4. Cardinality(S \cup {p}) = Cardinality(S) + 1
  BY <1>2, FS_AddElement
<1>5. LineOf(t, p + 1) = LineOf(t, p) + 1
  BY <1>1, <1>3, <1>4 DEF LineOf
<1>6. LineBegins(t, p + 1, p + 1)
  BY DEF LineBegins
<1> QED BY <1>5, <1>6

\* Where no line ends, none is counted.
LEMMA LineOfSame ==
  ASSUME NEW t, NEW p \in Nat, NEW q \in Nat, p <= q, \A i \in p .. q - 1 : ~NewlineAt(t, i)
  PROVE LineOf(t, q) = LineOf(t, p) /\ \A b : LineBegins(t, b, p) => LineBegins(t, b, q)
<1>1. {i \in 0 .. q - 1 : NewlineAt(t, i)} = {i \in 0 .. p - 1 : NewlineAt(t, i)}
  OBVIOUS
<1>2. LineOf(t, q) = LineOf(t, p)
  BY <1>1 DEF LineOf
<1>3. \A b : LineBegins(t, b, p) => LineBegins(t, b, q)
  BY DEF LineBegins
<1> QED BY <1>2, <1>3

-----------------------------------------------------------------------------
(* Places *)

LEMMA PlacesType ==
  ASSUME text \in Texts, NEW s \in LexerState, NEW read, Window(s, read)
  PROVE /\ From(s, read) \in Nat /\ To(s, read) \in Nat /\ From(s, read) <= To(s, read)
        /\ To(s, read) <= Len(text) + kYYMaxFill
        /\ PlaceOf(s, read, 0) \in Int
        /\ From(s, read) = PlaceOf(s, read, 0) + s.token
        /\ To(s, read) = PlaceOf(s, read, 0) + s.current
        /\ s.token \in Nat /\ s.current \in Nat /\ s.current <= kMaxBufferSize + kYYMaxFill
        /\ s.token <= s.current
<1>1. PICK at, to, end, limit \in Int :
        at = s.token /\ to = s.current /\ end = End(s) /\ limit = s.limit
  BY DEF LexerState, End, kYYMaxFill
<1>2. /\ 0 <= at /\ at <= to /\ to <= limit /\ limit <= kMaxBufferSize + kYYMaxFill
      /\ limit <= end + kYYMaxFill
  <2>1. limit <= end + kYYMaxFill
    BY <1>1 DEF End, kYYMaxFill
  <2> QED BY <1>1, <2>1 DEF Window
<1>3. /\ read \in Nat /\ read <= Len(text) /\ 0 <= read - end + at /\ Len(text) \in Nat
      /\ kMaxBufferSize \in Nat
  BY <1>1, LexerAssumption DEF Window
<1>4. /\ From(s, read) = read - end + at /\ To(s, read) = read - end + to
      /\ PlaceOf(s, read, 0) = read - end
  BY <1>1, <1>3 DEF From, To, PlaceOf
<1>5. PICK from, till, base, len, size \in Int :
        /\ from = From(s, read) /\ till = To(s, read) /\ base = PlaceOf(s, read, 0)
        /\ len = Len(text) /\ size = kMaxBufferSize
  BY <1>1, <1>3, <1>4
<1>6. /\ from = base + at /\ till = base + to /\ 0 <= from /\ from <= till /\ till <= len + 7
      /\ 0 <= at /\ at <= to /\ to <= size + 7
  BY <1>2, <1>3, <1>4, <1>5 DEF kYYMaxFill
<1>7. from \in Nat /\ till \in Nat /\ at \in Nat /\ to \in Nat
  BY <1>6
<1> QED BY <1>1, <1>5, <1>6, <1>7 DEF kYYMaxFill

\* The same window, token and lines.
Keeps(s, t) ==
  /\ t.token = s.token /\ t.limit = s.limit /\ t.eof = s.eof /\ t.lineNum = s.lineNum
  /\ t.streamReadOffset = s.streamReadOffset /\ t.lineStartOffset = s.lineStartOffset
  /\ t.tokenLineStart = s.tokenLineStart /\ t.tokenColumnStart = s.tokenColumnStart

LEMMA KeepsPlaces ==
  ASSUME NEW s, NEW t, Keeps(s, t), NEW read
  PROVE /\ From(t, read) = From(s, read) /\ \A at : PlaceOf(t, read, at) = PlaceOf(s, read, at)
        /\ \A still, place : Counted(s, read, still, place) => Counted(t, read, still, place)
<1>1. \A at : PlaceOf(t, read, at) = PlaceOf(s, read, at)
  BY DEF Keeps, PlaceOf, End
<1>2. From(t, read) = From(s, read)
  BY <1>1 DEF Keeps, From
<1>3. ASSUME NEW still, NEW place, Counted(s, read, still, place)
      PROVE Counted(t, read, still, place)
  BY <1>1, <1>3 DEF Keeps, Counted
<1> QED BY <1>1, <1>2, <1>3

LEMMA AtKeeps ==
  ASSUME NEW s \in LexerState, NEW row
  PROVE Keeps(s, Stepped(row, s)) /\ Keeps(s, At(row, s))
        /\ Stepped(row, s).current = s.current + Steps(row)
<1>1. PICK t : t = Stepped(row, s)
  OBVIOUS
<1>2. t \in LexerState /\ Keeps(s, t) /\ t.current = s.current + Steps(row)
  BY <1>1 DEF Stepped, Keeps, LexerState, Steps
<1>3. Keeps(t, Marks(row, t))
  BY <1>2 DEF Marks, Keeps, LexerState
<1> QED BY <1>1, <1>2, <1>3 DEF At, Keeps

\* The automaton sees a newline where one is in the text.
LEMMA NewlineSeen ==
  ASSUME text \in Texts, NEW s \in LexerState, NEW read, Window(s, read), s.limit - s.current >= 1
  PROVE char(s) = Newline <=> NewlineAt(text, To(s, read))
<1>1. s.current \in s.token .. s.limit - 1
  BY DEF Window, LexerState
<1>2. char(s) = TextAt(To(s, read))
  BY <1>1 DEF Window, char, To, PlaceOf
<1>3. PICK p \in Nat : p = To(s, read)
  BY PlacesType
<1>4. TextAt(p) = Newline <=> NewlineAt(text, p)
  <2>1. PICK c : c = SubSeq(text, p + 1, p + 1)
    OBVIOUS
  <2>2. TextAt(p) = IF p < Len(text) THEN IF c = "~" THEN "NUL" ELSE c ELSE "NUL"
    BY <2>1 DEF TextAt, CharAt
  <2>3. NewlineAt(text, p) <=> p < Len(text) /\ c = Newline
    BY <2>1 DEF NewlineAt
  <2> QED BY <2>2, <2>3, NewlineDiffers
<1> QED BY <1>2, <1>3, <1>4

\* A refill moves the window, and the places with it.
LEMMA RefilledPlaces ==
  ASSUME text \in Texts, NEW s \in LexerState, Window(s, position), NEW n \in 1 .. 7,
         ~Refused(s, n), OffsetsOk(s, position)
  PROVE LET r == Refilled(s)  read == position + BytesRead(s) IN
        /\ From(r, read) = From(s, position) /\ To(r, read) = To(s, position)
        /\ OffsetsOk(r, read) /\ r.streamReadOffset # Nowhere
        /\ r.lineNum = s.lineNum /\ r.tokenLineStart = s.tokenLineStart
        /\ r.tokenColumnStart = s.tokenColumnStart /\ r.lineStartOffset = s.lineStartOffset
        /\ position = 0 =>
             /\ s.streamReadOffset = Nowhere /\ s.lineStartOffset = 0 /\ r.streamReadOffset = 0
             /\ r.token = 0 /\ From(s, position) = 0 /\ PlaceOf(r, read, 0) = 0
<1>1. PICK got, left, end, read, r :
        /\ got = BytesRead(s) /\ left = s.limit - s.token /\ end = left + got
        /\ read = position + got /\ r = Refilled(s)
  OBVIOUS
<1>2. /\ r.current = s.current - s.token /\ r.token = 0 /\ r.limit = LimitOf(end)
      /\ r.eof = Pads(end) /\ r.streamReadOffset = (left + position) % SizeMax
      /\ r.lineNum = s.lineNum /\ r.tokenLineStart = s.tokenLineStart
      /\ r.tokenColumnStart = s.tokenColumnStart /\ r.lineStartOffset = s.lineStartOffset
  BY <1>1, RefilledIs
<1>3. PICK at, to, limit, sro \in Int :
        at = s.token /\ to = s.current /\ limit = s.limit /\ sro = s.streamReadOffset
  BY DEF LexerState
<1>4. /\ ~s.eof /\ n <= at /\ limit = kMaxBufferSize /\ 0 <= at /\ at <= to /\ to <= limit
      /\ position \in 0 .. Len(text) /\ 0 <= position - limit + at /\ End(s) = limit
  <2>1. ~s.eof /\ ~(s.token < n)
    BY DEF Refused
  <2>2. End(s) = limit /\ limit = kMaxBufferSize
    BY <1>3, <2>1 DEF End, Window
  <2> QED BY <1>3, <2>1, <2>2 DEF Window
<1>5. /\ kMaxBufferSize \in Nat /\ SizeMax \in Nat \ {0} /\ Len(text) \in Nat
      /\ Len(text) + 2 * (kMaxBufferSize + 7) < SizeMax
  BY LexerAssumption, OffsetsAssumption DEF kYYMaxFill
<1>16. PICK pos, len, size \in Nat : pos = position /\ len = Len(text) /\ size = kMaxBufferSize
  <2>1. position \in Nat
    <3>1. position \in 0 .. Len(text)
      BY <1>4
    <3> QED BY <3>1, <1>5
  <2> QED BY <2>1, <1>5
<1>17. /\ got \in 0 .. at /\ pos + got \in 0 .. len /\ (got < at => pos + got = len)
  <2>1. s.token \in Nat /\ position \in 0 .. Len(text)
    BY <1>3, <1>4
  <2> QED BY <1>1, <1>3, <1>16, <2>1, BytesReadType
<1>18. left = size - at /\ limit = size /\ 0 <= at /\ at <= size /\ at <= to /\ to <= size /\ size - at <= pos
       /\ pos <= len /\ n <= at
  <2>1. left = limit - at /\ limit = size
    BY <1>1, <1>3, <1>4, <1>16
  <2>2. 0 <= at /\ at <= to /\ to <= limit /\ 0 <= pos - limit + at /\ pos <= len /\ n <= at
    <3>1. pos \in 0 .. len
      BY <1>4, <1>16
    <3> QED BY <1>4, <1>16, <3>1
  <2> QED BY <1>3, <1>16, <2>1, <2>2
<1>6. /\ got \in 0 .. at /\ left \in 0 .. size /\ end = left + got
      /\ read = pos + got /\ read \in 0 .. len
  BY <1>1, <1>16, <1>17, <1>18
<1>7. End(r) = end
  <2>1. end \in Int
    BY <1>6
  <2>2. r.limit = (IF end < kMaxBufferSize THEN end + 7 ELSE end) /\ (r.eof <=> end < kMaxBufferSize)
    BY <1>2 DEF LimitOf, Pads, kYYMaxFill
  <2> QED BY <2>1, <2>2, <1>16 DEF End, kYYMaxFill
<1>8. r.streamReadOffset = left + position
  <2>1. left + position \in 0 .. SizeMax - 1
    BY <1>5, <1>6, <1>16, <1>18
  <2> QED BY <1>2, <1>5, <2>1
<1>9. From(r, read) = read - end + 0 /\ From(s, position) = pos - limit + at
  BY <1>2, <1>3, <1>4, <1>7, <1>16 DEF From, PlaceOf
<1>10. To(r, read) = read - end + (to - at) /\ To(s, position) = pos - limit + to
  BY <1>2, <1>3, <1>4, <1>7, <1>16 DEF To, PlaceOf
<1>11. From(r, read) = From(s, position) /\ To(r, read) = To(s, position)
  BY <1>6, <1>9, <1>10, <1>18
<1>12. r.streamReadOffset # Nowhere /\ r.streamReadOffset <= Len(text) + kMaxBufferSize
  BY <1>5, <1>6, <1>8, <1>16, <1>18 DEF Nowhere
<1>13. r.eof \/ read > 0
  <2>1. ASSUME read = 0 PROVE r.eof
    <3>1. got = 0 /\ pos = 0 /\ left = 0
      BY <1>6, <1>18, <2>1
    <3>2. end < kMaxBufferSize
      BY <1>6, <1>16, <1>18, <3>1
    <3> QED BY <1>2, <3>2 DEF Pads
  <2> QED BY <1>6, <2>1
<1>14. OffsetsOk(r, read)
  BY <1>12, <1>13 DEF OffsetsOk
<1>15. ASSUME position = 0
       PROVE /\ s.streamReadOffset = Nowhere /\ s.lineStartOffset = 0 /\ r.streamReadOffset = 0
             /\ From(s, position) = 0 /\ PlaceOf(r, read, 0) = 0
  <2>1. left = 0 /\ at = limit /\ pos = 0
    BY <1>15, <1>16, <1>18
  <2>2. s.streamReadOffset = Nowhere /\ s.lineStartOffset = 0
    BY <1>4, <1>15 DEF OffsetsOk
  <2>3. r.streamReadOffset = 0 /\ From(s, position) = 0
    BY <1>8, <1>9, <1>15, <2>1
  <2>4. PlaceOf(r, read, 0) = 0
    BY <1>6, <1>7, <2>1 DEF PlaceOf
  <2> QED BY <2>2, <2>3, <2>4
<1> QED BY <1>1, <1>2, <1>11, <1>12, <1>14, <1>15

-----------------------------------------------------------------------------
(* A look *)

\* Before a character is looked at.
BeforeLook(s, read, still, l, tokens) ==
  /\ OffsetsOk(s, read) /\ EndBefore(tokens, From(s, read))
  /\ Counted(s, read, still, From(s, read)) /\ s.tokenLineStart = s.lineNum
  /\ IF s.streamReadOffset = Nowhere THEN s.tokenColumnStart = 1
     ELSE still => s.tokenColumnStart = s.streamReadOffset + s.token - s.lineStartOffset + 1
  /\ l # 4 => Unbroken(From(s, read), To(s, read))

LEMMA LookedPlaces ==
  ASSUME text \in Texts, NEW l \in Labels, NEW row, RowOk(l, row), row.ends = "none",
         NEW s \in LexerState, NEW read, Window(s, read), s.limit - s.current >= 1,
         NEW still, NEW tokens, BeforeLook(s, read, still, l, tokens), s.streamReadOffset # Nowhere
  PROVE Goes(row, char(s)) # 0 /\ Reads(s, read, still, Goes(row, char(s)), tokens)
<1>1. PICK to : to = Goes(row, char(s))
  OBVIOUS
<1>2. /\ char(s) = Newline => to \in Stays \cup LineEnds
      /\ char(s) # Newline => to \notin LineEnds
      /\ l = 4 => to = 5
      /\ to # 0
  BY <1>1, GoesAtNewline
<1>3. char(s) = Newline <=> NewlineAt(text, To(s, read))
  BY NewlineSeen
<1>4. InToken(s, read, still, to)
  BY <1>2, <1>3 DEF InToken, BeforeLook
<1> QED BY <1>1, <1>2, <1>4 DEF Reads, BeforeLook

LEMMA RefilledBeforeLook ==
  ASSUME text \in Texts, NEW s \in LexerState, Window(s, position), NEW n \in 1 .. 7,
         ~Refused(s, n), NEW still, NEW l, NEW tokens, BeforeLook(s, position, still, l, tokens)
  PROVE BeforeLook(Refilled(s), position + BytesRead(s), ~(position > 0), l, tokens)
<1>1. PICK r, read : r = Refilled(s) /\ read = position + BytesRead(s)
  OBVIOUS
<1>2. /\ From(r, read) = From(s, position) /\ To(r, read) = To(s, position)
      /\ OffsetsOk(r, read) /\ r.streamReadOffset # Nowhere
      /\ r.lineNum = s.lineNum /\ r.tokenLineStart = s.tokenLineStart
      /\ r.tokenColumnStart = s.tokenColumnStart /\ r.lineStartOffset = s.lineStartOffset
      /\ position = 0 =>
           /\ s.streamReadOffset = Nowhere /\ s.lineStartOffset = 0 /\ r.streamReadOffset = 0
           /\ r.token = 0 /\ From(s, position) = 0 /\ PlaceOf(r, read, 0) = 0
  BY <1>1, RefilledPlaces DEF BeforeLook
<1>3. ~(position > 0) => position = 0
  BY LexerAssumption DEF Window
<1>4. Counted(r, read, ~(position > 0), From(r, read))
  <2>1. r.lineNum = LineOf(text, From(r, read))
    BY <1>2 DEF BeforeLook, Counted
  <2>2. ASSUME ~(position > 0)
        PROVE \E q \in 0 .. From(r, read) :
                /\ LineBegins(text, q, From(r, read))
                /\ r.streamReadOffset = Nowhere
                   \/ r.streamReadOffset - r.lineStartOffset = PlaceOf(r, read, 0) - q
    <3>1. From(r, read) = 0 /\ r.streamReadOffset - r.lineStartOffset = PlaceOf(r, read, 0) - 0
      BY <1>2, <1>3, <2>2
    <3>2. LineBegins(text, 0, 0) /\ 0 \in 0 .. 0
      BY DEF LineBegins
    <3> QED BY <3>1, <3>2
  <2> QED BY <2>1, <2>2 DEF Counted
<1>5. ~(position > 0) =>
        r.tokenColumnStart = r.streamReadOffset + r.token - r.lineStartOffset + 1
  BY <1>2, <1>3 DEF BeforeLook
<1>6. /\ EndBefore(tokens, From(r, read)) /\ r.tokenLineStart = r.lineNum
      /\ l # 4 => Unbroken(From(r, read), To(r, read))
  BY <1>2 DEF BeforeLook
<1> QED BY <1>1, <1>2, <1>4, <1>5, <1>6 DEF BeforeLook

LEMMA LookPlaces ==
  ASSUME text \in Texts, NEW l \in Labels, NEW row, RowOk(l, row), row.ends = "none",
         NEW s \in LexerState, Window(s, position), s.limit - s.current >= Ahead[l] - Steps(row),
         BeforeLook(s, position, ~moved, l, scanned), status = "scanning", Look(row, s)
  PROVE /\ text' = text /\ scanned' = scanned /\ status' \in {"scanning", "EOS"}
        /\ status' = "scanning" =>
             label' # 0 /\ Reads(m_lexerState', position', ~moved', label', scanned')
<1>1. CASE Suffices(row, s) /\ Branches(row, s) /\ UNCHANGED <<stream, scanned, moved, m_curToken>>
  <2>1. s.limit - s.current >= 1
    <3>1. Sure(l, row) >= 1 /\ s.limit - s.current >= Sure(l, row)
      BY <1>1, LooksAtText DEF RowOk
    <3>2. Sure(l, row) \in Int /\ s.limit - s.current \in Int
      BY AheadType DEF Sure, Steps, RowOk, RowTypeOk, LexerState
    <3> QED BY <3>1, <3>2
  <2>2. s.streamReadOffset # Nowhere
    BY <2>1 DEF BeforeLook, OffsetsOk, LexerState
  <2>3. Goes(row, char(s)) # 0 /\ Reads(s, position, ~moved, Goes(row, char(s)), scanned)
    BY <2>1, <2>2, LookedPlaces
  <2> QED BY <1>1, <2>3 DEF Branches, stream
<1>2. CASE /\ ~Suffices(row, s) /\ ~Refused(s, row.fill) /\ Branches(row, Refilled(s))
           /\ position' = position + BytesRead(s) /\ moved' = (position > 0)
           /\ UNCHANGED <<text, scanned, m_curToken>>
  <2>1. row.fill \in 1 .. 7
    BY <1>2, LooksAtText
  <2>2. PICK r, read : r = Refilled(s) /\ read = position + BytesRead(s)
    OBVIOUS
  <2>3. r \in LexerState /\ Window(r, read) /\ r.limit - r.current >= row.fill
    BY <1>2, <2>1, <2>2, RefilledInWindow
  <2>4. r.limit - r.current >= 1
    BY <2>1, <2>3 DEF LexerState
  <2>5. r.streamReadOffset # Nowhere
    BY <1>2, <2>1, <2>2, RefilledPlaces DEF BeforeLook
  <2>6. BeforeLook(r, read, ~(position > 0), l, scanned)
    BY <1>2, <2>1, <2>2, RefilledBeforeLook
  <2>7. Goes(row, char(r)) # 0 /\ Reads(r, read, ~(position > 0), Goes(row, char(r)), scanned)
    BY <2>3, <2>4, <2>5, <2>6, LookedPlaces
  <2>8. m_lexerState' = r /\ label' = Goes(row, char(r)) /\ status' = status
    BY <1>2, <2>2 DEF Branches
  <2> QED BY <1>2, <2>2, <2>7, <2>8
<1>3. CASE ~Suffices(row, s) /\ Refused(s, row.fill) /\ EndOfStream(s)
  BY <1>3 DEF EndOfStream, stream
<1> QED BY <1>1, <1>2, <1>3 DEF Look

LEMMA CountedOn ==
  ASSUME NEW s, NEW read, NEW still, NEW p \in Nat, NEW q \in Nat, p <= q, Unbroken(p, q),
         Counted(s, read, still, p)
  PROVE Counted(s, read, still, q)
<1>1. LineOf(text, q) = LineOf(text, p) /\ \A b : LineBegins(text, b, p) => LineBegins(text, b, q)
  BY LineOfSame DEF Unbroken
<1>2. 0 .. p \subseteq 0 .. q
  OBVIOUS
<1> QED BY <1>1, <1>2 DEF Counted

\* A label that steps has not met a newline, but where a line ends.
LEMMA SteppedUnbroken ==
  ASSUME text \in Texts, NEW s \in LexerState, NEW read, Window(s, read),
         NEW t \in LexerState, Window(t, read), Keeps(s, t),
         NEW l \in Labels \ (LineEnds \cup {4, 5}), NEW row, RowOk(l, row), l # 0,
         t.current = s.current + Steps(row), NEW still, InToken(s, read, still, l)
  PROVE Unbroken(From(t, read), To(t, read))
<1>1. PICK from, to, till \in Nat : from = From(s, read) /\ to = To(s, read) /\ till = To(t, read)
  BY PlacesType
<1>2. From(t, read) = from
  BY <1>1, KeepsPlaces
<1>3. Unbroken(from, to) /\ (NewlineAt(text, to) => l \in Stays)
  BY <1>1 DEF InToken
<1>4. till = to + Steps(row)
  <2>1. PICK base, a, b \in Int : base = PlaceOf(s, read, 0) /\ a = s.current /\ b = t.current
    BY PlacesType DEF LexerState
  <2>2. to = base + a /\ till = base + b
    <3>1. PlaceOf(t, read, 0) = base
      BY <2>1, KeepsPlaces
    <3> QED BY <1>1, <2>1, <3>1, PlacesType
  <2>3. Steps(row) \in 0 .. 1 /\ b = a + Steps(row)
    BY <2>1 DEF Steps
  <2> QED BY <2>2, <2>3
<1>5. CASE Steps(row) = 0
  BY <1>1, <1>2, <1>3, <1>4, <1>5
<1>6. CASE Steps(row) = 1
  <2>1. Ahead[l] >= 1 /\ l # 44
    BY <1>6 DEF RowOk
  <2>2. l \notin Stays
    BY <2>1, AheadType DEF Stays, Within
  <2>3. \A i \in from .. to : ~NewlineAt(text, i)
    BY <1>1, <1>3, <2>2 DEF Unbroken
  <2> QED BY <1>1, <1>2, <1>4, <1>6, <2>3 DEF Unbroken
<1> QED BY <1>5, <1>6 DEF Steps

LEMMA BeginBeforeLook ==
  ASSUME text \in Texts, NEW s \in LexerState, NEW read, Window(s, read), NEW still, NEW tokens,
         Rests(s, read, still, tokens)
  PROVE BeforeLook(markScanBegin(s), read, still, 0, tokens)
<1>1. PICK at : at = [s EXCEPT !.token = s.current, !.tokenLineStart = s.lineNum]
  OBVIOUS
<1>2. PICK r : r = markScanBegin(s)
  OBVIOUS
<1>3. /\ at.limit = s.limit /\ at.current = s.current /\ at.token = s.current /\ at.eof = s.eof
      /\ at.lineNum = s.lineNum /\ at.tokenLineStart = s.lineNum
      /\ at.streamReadOffset = s.streamReadOffset /\ at.lineStartOffset = s.lineStartOffset
      /\ at \in LexerState
  BY <1>1 DEF LexerState
<1>4. r = [at EXCEPT !.tokenColumnStart = getColumnOffsetStart(at)]
  BY <1>1, <1>2 DEF markScanBegin
<1>5. /\ r.limit = s.limit /\ r.current = s.current /\ r.token = s.current /\ r.eof = s.eof
      /\ r.lineNum = s.lineNum /\ r.tokenLineStart = s.lineNum
      /\ r.streamReadOffset = s.streamReadOffset /\ r.lineStartOffset = s.lineStartOffset
      /\ r.tokenColumnStart = getColumnOffsetStart(at)
  BY <1>3, <1>4 DEF LexerState
<1>6. /\ From(r, read) = To(s, read) /\ To(r, read) = To(s, read)
      /\ PlaceOf(r, read, 0) = PlaceOf(s, read, 0)
  BY <1>5 DEF From, To, PlaceOf, End
<1>7. OffsetsOk(r, read) /\ EndBefore(tokens, From(r, read)) /\ Counted(r, read, still, From(r, read))
  BY <1>5, <1>6 DEF Rests, OffsetsOk, Counted
<1>8. Unbroken(From(r, read), To(r, read))
  <2>1. PICK p \in Nat : p = To(s, read)
    BY PlacesType
  <2> QED BY <1>6, <2>1 DEF Unbroken
<1>9. CASE s.streamReadOffset = Nowhere
  <2>1. r.tokenColumnStart = 1
    BY <1>3, <1>5, <1>9 DEF getColumnOffsetStart
  <2> QED BY <1>2, <1>5, <1>7, <1>8, <1>9, <2>1 DEF BeforeLook
<1>10. CASE s.streamReadOffset # Nowhere
  <2>1. ASSUME still
        PROVE r.tokenColumnStart = r.streamReadOffset + r.token - r.lineStartOffset + 1
    <3>1. PICK sro, lso, cur, base, to, len, size \in Int :
            /\ sro = s.streamReadOffset /\ lso = s.lineStartOffset /\ cur = s.current
            /\ base = PlaceOf(s, read, 0) /\ to = To(s, read) /\ len = Len(text)
            /\ size = kMaxBufferSize
      <4>1. s.streamReadOffset \in Int /\ s.lineStartOffset \in Int /\ s.current \in Int
        BY DEF LexerState
      <4>2. PlaceOf(s, read, 0) \in Int /\ To(s, read) \in Int
        BY PlacesType
      <4>3. Len(text) \in Int /\ kMaxBufferSize \in Int
        BY LexerAssumption
      <4> QED BY <4>1, <4>2, <4>3
    <3>2. PICK q \in 0 .. to : sro - lso = base - q
      BY <1>10, <2>1, <3>1 DEF Rests, Counted
    <3>3. to = base + cur /\ to <= len + 7
      BY <3>1, PlacesType DEF kYYMaxFill
    <3>4. /\ SizeMax \in Nat \ {0} /\ size >= 0 /\ len + 2 * (size + 7) < SizeMax
      BY <3>1, LexerAssumption, OffsetsAssumption DEF kYYMaxFill
    <3>5. sro + cur - lso + 1 \in 0 .. SizeMax - 1
      BY <3>2, <3>3, <3>4
    <3>6. getColumnOffsetStart(at) = (sro + cur - lso + 1) % SizeMax
      BY <1>3, <1>10, <3>1 DEF getColumnOffsetStart
    <3>7. (sro + cur - lso + 1) % SizeMax = sro + cur - lso + 1
      BY <3>4, <3>5
    <3> QED BY <1>5, <3>1, <3>6, <3>7
  <2> QED BY <1>2, <1>5, <1>7, <1>8, <1>10, <2>1 DEF BeforeLook
<1> QED BY <1>9, <1>10

LEMMA VisitBeforeLook ==
  ASSUME text \in Texts, NEW s \in LexerState, NEW read, Window(s, read),
         NEW l \in Labels \ {0}, NEW row, RowOk(l, row), row.ends = "none", Window(At(row, s), read),
         NEW still, NEW tokens, Reads(s, read, still, l, tokens)
  PROVE BeforeLook(At(row, s), read, still, l, tokens)
<1>1. PICK t : t = At(row, s)
  OBVIOUS
<1>2. t \in LexerState /\ Keeps(s, t) /\ t.current = s.current + Steps(row)
  BY <1>1, AtIs, AtKeeps
<1>3. InToken(s, read, still, l) /\ OffsetsOk(s, read) /\ EndBefore(tokens, From(s, read))
  BY DEF Reads
<1>4. From(t, read) = From(s, read) /\ Counted(t, read, still, From(t, read))
  BY <1>2, <1>3, KeepsPlaces DEF InToken
<1>5. OffsetsOk(t, read) /\ t.streamReadOffset # Nowhere /\ t.tokenLineStart = t.lineNum
  BY <1>2, <1>3 DEF OffsetsOk, InToken, Keeps
<1>6. still => t.tokenColumnStart = t.streamReadOffset + t.token - t.lineStartOffset + 1
  BY <1>2, <1>3 DEF InToken, Keeps
<1>7. l # 4 => Unbroken(From(t, read), To(t, read))
  <2>1. l \notin LineEnds \cup {5}
    BY DEF RowOk
  <2> QED BY <1>1, <1>2, <1>3, <2>1, SteppedUnbroken
<1> QED BY <1>1, <1>3, <1>4, <1>5, <1>6, <1>7 DEF BeforeLook

-----------------------------------------------------------------------------
(* Tokens *)

LEMMA AppendPlaced ==
  ASSUME NEW tokens, Placed(tokens), NEW token, IsPlaced(token), EndBefore(tokens, token.from),
         token.to \in Int
  PROVE Placed(Append(tokens, token)) /\ EndBefore(Append(tokens, token), token.to)
<1>1. PICK S : tokens \in Seq(S)
  BY DEF Placed, IsSequence
<1>2. PICK T : T = S \cup {token}
  OBVIOUS
<1>3. tokens \in Seq(T) /\ token \in T
  BY <1>1, <1>2, SeqMonotonic
<1>4. PICK all, n : all = Append(tokens, token) /\ n = Len(tokens)
  OBVIOUS
<1>5. /\ all \in Seq(T) /\ Len(all) = n + 1 /\ all[n + 1] = token
      /\ \A i \in 1 .. n : all[i] = tokens[i]
  BY <1>3, <1>4, AppendProperties
<1>6. n \in Nat /\ DOMAIN tokens = 1 .. n /\ DOMAIN all = 1 .. n + 1
  BY <1>3, <1>4, <1>5
<1>7. ASSUME NEW i \in 1 .. n + 1
      PROVE IsPlaced(all[i]) /\ (i > 1 => all[i - 1].to <= all[i].from)
  <2>1. CASE i = n + 1
    <3>1. IsPlaced(all[i])
      BY <1>5, <2>1
    <3>2. ASSUME i > 1 PROVE all[i - 1].to <= all[i].from
      <4>1. i - 1 = n /\ n \in 1 .. n
        BY <1>6, <2>1, <3>2
      <4>2. tokens[n].to <= token.from
        BY <1>4, <4>1 DEF EndBefore
      <4> QED BY <1>5, <2>1, <4>1, <4>2
    <3> QED BY <3>1, <3>2
  <2>2. CASE i # n + 1
    <3>1. i \in DOMAIN tokens /\ all[i] = tokens[i]
      BY <1>5, <1>6, <2>2
    <3>2. i > 1 => i - 1 \in 1 .. n /\ all[i - 1] = tokens[i - 1]
      BY <1>5, <1>6, <2>2
    <3> QED BY <3>1, <3>2 DEF Placed
  <2> QED BY <2>1, <2>2
<1>8. IsSequence(all)
  BY <1>5 DEF IsSequence
<1>9. Placed(all)
  BY <1>6, <1>7, <1>8 DEF Placed
<1>10. EndBefore(all, token.to)
  <2>1. token.to <= token.to
    OBVIOUS
  <2> QED BY <1>5, <2>1 DEF EndBefore
<1> QED BY <1>4, <1>9, <1>10

\* What setToken hands out is where it says it is.
LEMMA TokenPlaced ==
  ASSUME text \in Texts, NEW s \in LexerState, NEW read, Window(s, read),
         NEW t \in LexerState, Window(t, read), Keeps(s, t),
         NEW l, NEW hasMoved, InToken(s, read, ~hasMoved, l), NEW name
  PROVE IsPlaced([info |-> TokenInfo(name, t), moved |-> hasMoved,
                  from |-> From(t, read), to |-> To(t, read)])
<1>1. PICK info : info = TokenInfo(name, t)
  OBVIOUS
<1>2. /\ info.token = name /\ info.lineStart = t.tokenLineStart /\ info.lineEnd = t.lineNum
      /\ info.columnStart = t.tokenColumnStart /\ info.columnEnd = getColumnOffsetEnd(t)
      /\ info.tokenStr = IF name \in Named THEN Lexeme(t) ELSE <<>>
  BY <1>1 DEF TokenInfo
<1>3. /\ Counted(t, read, ~hasMoved, From(t, read)) /\ t.tokenLineStart = t.lineNum
      /\ t.streamReadOffset # Nowhere
      /\ ~hasMoved => t.tokenColumnStart = t.streamReadOffset + t.token - t.lineStartOffset + 1
  BY KeepsPlaces DEF Keeps, InToken
<1>12. PICK from, to, base \in Int :
        from = From(t, read) /\ to = To(t, read) /\ base = PlaceOf(t, read, 0)
  BY PlacesType
<1>13. PICK tok, cur, sro, lso \in Int :
        tok = t.token /\ cur = t.current /\ sro = t.streamReadOffset /\ lso = t.lineStartOffset
  BY DEF LexerState
<1>4. PICK len, size \in Nat : len = Len(text) /\ size = kMaxBufferSize
  BY LexerAssumption
<1>5. /\ 0 <= from /\ from <= to /\ to <= len + 7 /\ from = base + tok /\ to = base + cur
      /\ 0 <= tok /\ tok <= cur
  <2>1. /\ From(t, read) \in Nat /\ From(t, read) <= To(t, read)
        /\ To(t, read) <= Len(text) + kYYMaxFill
        /\ From(t, read) = PlaceOf(t, read, 0) + t.token
        /\ To(t, read) = PlaceOf(t, read, 0) + t.current
        /\ t.token \in Nat /\ t.token <= t.current
    BY PlacesType
  <2> QED BY <1>4, <1>12, <1>13, <2>1, SMTT(30) DEF kYYMaxFill
<1>6. info.lineStart = LineOf(text, from) /\ info.lineEnd = info.lineStart
  BY <1>2, <1>3, <1>4, <1>12, <1>13 DEF Counted
<1>7. ASSUME ~hasMoved
      PROVE \E q \in 0 .. from : /\ LineBegins(text, q, from)
                                 /\ info.columnStart = from - q + 1 /\ info.columnEnd = to - q
  <2>1. PICK q \in 0 .. from : LineBegins(text, q, from) /\ sro - lso = base - q
    BY <1>3, <1>4, <1>12, <1>13, <1>7 DEF Counted
  <2>2. info.columnStart = from - q + 1
    <3>1. info.columnStart = sro + tok - lso + 1
      BY <1>2, <1>3, <1>4, <1>12, <1>13, <1>7
    <3> QED BY <1>5, <2>1, <3>1
  <2>3. info.columnEnd = to - q
    <3>1. info.columnEnd = (sro + cur - lso) % SizeMax
      BY <1>2, <1>4, <1>12, <1>13 DEF getColumnOffsetEnd
    <3>2. SizeMax \in Nat \ {0} /\ size >= 0 /\ len + 2 * (size + 7) < SizeMax
      BY <1>4, <1>12, <1>13, LexerAssumption, OffsetsAssumption DEF kYYMaxFill
    <3>3. sro + cur - lso = to - q /\ to - q \in 0 .. SizeMax - 1
      BY <1>5, <2>1, <3>2
    <3>4. (to - q) % SizeMax = to - q
      BY <3>2, <3>3
    <3> QED BY <3>1, <3>3, <3>4
  <2> QED BY <2>1, <2>2, <2>3
<1>8. ASSUME name \in Named
      PROVE info.tokenStr = [k \in 1 .. to - from |-> TextAt(from + k - 1)]
  <2>1. to - from = cur - tok
    BY <1>5
  <2>2. PICK e, r, lim \in Int : e = End(t) /\ r = read /\ lim = t.limit
    <3>1. read \in Int
      BY LexerAssumption DEF Window
    <3>2. End(t) \in Int /\ t.limit \in Int
      BY DEF End, LexerState, kYYMaxFill
    <3> QED BY <3>1, <3>2
  <2>3. cur <= lim /\ from = r - e + tok
    <3>1. cur <= lim
      BY <1>13, <2>2 DEF Window
    <3>2. from = r - e + tok
      BY <1>12, <1>13, <2>2 DEF From, PlaceOf
    <3> QED BY <3>1, <3>2
  <2>4. PICK buf : buf = t.buffer
    OBVIOUS
  <2>5. \A i \in tok .. lim - 1 : buf[i] = TextAt(r - e + i)
    BY <1>13, <2>2, <2>4 DEF Window
  <2>6. ASSUME NEW k \in 1 .. cur - tok
        PROVE buf[tok + k - 1] = TextAt(from + k - 1)
    <3>1. tok + k - 1 \in tok .. lim - 1
      BY <2>3
    <3>2. r - e + (tok + k - 1) = from + k - 1
      BY <2>3
    <3> QED BY <2>5, <3>1, <3>2
  <2>7. Lexeme(t) = [k \in 1 .. cur - tok |-> buf[tok + k - 1]]
    BY <1>13, <2>4 DEF Lexeme
  <2>8. Lexeme(t) = [k \in 1 .. cur - tok |-> TextAt(from + k - 1)]
    BY <2>6, <2>7
  <2> QED BY <1>2, <1>8, <2>1, <2>8
<1>9. PICK token : token = [info |-> info, moved |-> hasMoved, from |-> from, to |-> to]
  OBVIOUS
<1>10. token.info = info /\ token.moved = hasMoved /\ token.from = from /\ token.to = to
  BY <1>9
<1>11. IsPlaced(token)
  BY <1>2, <1>5, <1>6, <1>7, <1>8, <1>10 DEF IsPlaced
<1> QED BY <1>1, <1>4, <1>12, <1>13, <1>9, <1>11

\* Where a token ends, the lines are counted as far as it.
LEMMA EndReached ==
  ASSUME text \in Texts, NEW s \in LexerState, NEW read, Window(s, read),
         NEW t \in LexerState, Window(t, read), Keeps(s, t),
         NEW l \in Labels \ (LineEnds \cup {0, 4, 5}), NEW row, RowOk(l, row),
         t.current = s.current + Steps(row), NEW still, NEW tokens, Reads(s, read, still, l, tokens)
  PROVE OffsetsOk(t, read) /\ Counted(t, read, still, To(t, read))
<1>1. InToken(s, read, still, l) /\ OffsetsOk(s, read)
  BY DEF Reads
<1>2. Unbroken(From(t, read), To(t, read))
  BY <1>1, SteppedUnbroken
<1>3. Counted(t, read, still, From(t, read))
  BY <1>1, KeepsPlaces DEF InToken
<1>4. From(t, read) \in Nat /\ To(t, read) \in Nat /\ From(t, read) <= To(t, read)
  BY PlacesType
<1>5. Counted(t, read, still, To(t, read))
  BY <1>2, <1>3, <1>4, CountedOn
<1>6. OffsetsOk(t, read)
  BY <1>1 DEF OffsetsOk, InToken, Keeps
<1> QED BY <1>5, <1>6

\* Over a newline, the next line begins where the automaton has come to.
LEMMA LineEnded ==
  ASSUME text \in Texts, NEW s \in LexerState, NEW read, Window(s, read),
         NEW t \in LexerState, Window(t, read), Keeps(s, t),
         NEW l \in LineEnds, t.current = s.current + 1,
         NEW still, NEW tokens, Reads(s, read, still, l, tokens),
         NEW u, u = updateLineStartOffset(t)
  PROVE /\ OffsetsOk(u, read) /\ Counted(u, read, TRUE, To(t, read)) /\ To(u, read) = To(t, read)
        /\ From(s, read) <= To(t, read)
<1>1. InToken(s, read, still, l) /\ OffsetsOk(s, read)
  BY DEF Reads
<1>2. PICK from, to, till \in Nat : from = From(s, read) /\ to = To(s, read) /\ till = To(t, read)
  BY PlacesType
<1>3. from <= to
  BY <1>2, PlacesType
<1>4. PICK base, a, b \in Int : base = PlaceOf(s, read, 0) /\ a = s.current /\ b = t.current
  BY PlacesType DEF LexerState
<1>5. PlaceOf(t, read, 0) = base
  BY <1>4, KeepsPlaces
<1>6. to = base + a /\ till = base + b /\ b = a + 1
  BY <1>2, <1>4, <1>5, PlacesType
<1>7. till = to + 1
  BY <1>6
<1>8. Unbroken(from, to) /\ NewlineAt(text, to) /\ Counted(s, read, still, from)
  <2>1. l \notin {4, 5}
    BY DEF LineEnds
  <2> QED BY <1>1, <1>2, <2>1 DEF InToken
<1>9. s.lineNum = LineOf(text, to)
  <2>1. Counted(s, read, still, to)
    BY <1>2, <1>3, <1>8, CountedOn
  <2> QED BY <2>1 DEF Counted
<1>10. LineOf(text, till) = s.lineNum + 1 /\ LineBegins(text, till, till)
  BY <1>2, <1>7, <1>8, <1>9, LineOfNext
<1>11. PICK sro \in Nat : sro = t.streamReadOffset
  BY DEF LexerState
<1>12. sro # Nowhere /\ sro <= Len(text) + kMaxBufferSize /\ (t.eof \/ read > 0)
  BY <1>1, <1>11 DEF InToken, OffsetsOk, Keeps
<1>13. (sro + b) % SizeMax = sro + b
  <2>1. PICK len, size \in Nat : len = Len(text) /\ size = kMaxBufferSize
    BY LexerAssumption
  <2>2. SizeMax \in Nat /\ len + 2 * (size + 7) < SizeMax
    BY <2>1, LexerAssumption, OffsetsAssumption DEF kYYMaxFill
  <2>3. b \in Nat /\ b <= size + 7
    BY <1>4, <2>1, PlacesType DEF kYYMaxFill
  <2>4. sro + b \in 0 .. SizeMax - 1
    BY <1>11, <1>12, <2>1, <2>2, <2>3
  <2> QED BY <2>2, <2>4
<1>14. /\ u.lineNum = t.lineNum + 1 /\ u.lineStartOffset = sro + b /\ u.current = t.current
       /\ u.streamReadOffset = sro /\ u.eof = t.eof /\ u.limit = t.limit
  BY <1>4, <1>11, <1>13 DEF updateLineStartOffset, LexerState
<1>15. To(u, read) = till /\ PlaceOf(u, read, 0) = base
  BY <1>2, <1>5, <1>14 DEF To, PlaceOf, End
<1>16. OffsetsOk(u, read)
  BY <1>12, <1>14 DEF OffsetsOk
<1>17. Counted(u, read, TRUE, till)
  <2>1. u.lineNum = LineOf(text, till)
    BY <1>10, <1>14 DEF Keeps
  <2>2. u.streamReadOffset - u.lineStartOffset = base - till
    <3>1. sro - (sro + b) = base - till
      BY <1>6, <1>11
    <3> QED BY <1>14, <3>1
  <2>3. till \in 0 .. till
    BY <1>2
  <2> QED BY <1>10, <1>15, <2>1, <2>2, <2>3 DEF Counted
<1>18. from <= till
  BY <1>3, <1>7
<1> QED BY <1>2, <1>15, <1>16, <1>17, <1>18

LEMMA EndBeforeOn ==
  ASSUME NEW tokens, NEW p \in Int, NEW q \in Int, p <= q, EndBefore(tokens, p)
  PROVE EndBefore(tokens, q)
BY DEF EndBefore

-----------------------------------------------------------------------------
(* The machine, again *)

LEMMA InitPlaces == Init => PlacesOk
<1> SUFFICES ASSUME Init PROVE PlacesOk
  OBVIOUS
<1>1. /\ text \in Texts /\ position = 0 /\ label = 0 /\ status = "scanning" /\ scanned = <<>>
      /\ moved = FALSE
  BY DEF Init
<1>2. PICK s : s = m_lexerState
  OBVIOUS
<1>3. /\ s.limit = kMaxBufferSize /\ s.current = kMaxBufferSize /\ s.eof = FALSE /\ s.lineNum = 1
      /\ s.streamReadOffset = Nowhere /\ s.lineStartOffset = 0
  BY <1>2 DEF Init
<1>4. To(s, 0) = 0
  BY <1>3, LexerAssumption DEF To, PlaceOf, End
<1>5. OffsetsOk(s, 0)
  BY <1>3 DEF OffsetsOk
<1>6. Counted(s, 0, TRUE, 0)
  <2>1. LineBegins(text, 0, 0) /\ 0 \in 0 .. 0
    BY DEF LineBegins
  <2> QED BY <1>3, <2>1, LineOfFirst DEF Counted
<1>7. scanned \in Seq({}) /\ Len(scanned) = 0 /\ DOMAIN scanned = {}
  BY <1>1, EmptySeq
<1>8. Placed(scanned) /\ EndBefore(scanned, 0)
  BY <1>7 DEF Placed, IsSequence, EndBefore
<1>9. Rests(s, 0, TRUE, scanned)
  BY <1>4, <1>5, <1>6, <1>8 DEF Rests
<1> QED BY <1>1, <1>2, <1>8, <1>9 DEF PlacesOk

LEMMA BeginPlaces == ASSUME IInv, PlacesOk, Begin PROVE PlacesOk'
<1>1. PICK s : s = markScanBegin(m_lexerState)
  OBVIOUS
<1>2. /\ status = "scanning" /\ label = 0 /\ Look(Start, s) /\ text \in Texts
  BY <1>1 DEF Begin, IInv, TypeOK
<1>3. s \in LexerState /\ Window(s, position)
  BY <1>1, BeginInWindow DEF IInv, TypeOK
<1>4. s.limit - s.current >= Ahead[0] - Steps(Start) /\ 0 \in Labels
  <2>1. Ahead[0] = 0 /\ 0 \in Labels
    BY DEF Ahead, Labels
  <2> QED BY <1>3, <2>1, StartOk DEF Window, LexerState
<1>5. BeforeLook(s, position, ~moved, 0, scanned)
  BY <1>1, <1>2, BeginBeforeLook DEF PlacesOk, IInv, TypeOK
<1>6. /\ text' = text /\ scanned' = scanned /\ status' \in {"scanning", "EOS"}
      /\ status' = "scanning" =>
           label' # 0 /\ Reads(m_lexerState', position', ~moved', label', scanned')
  BY <1>2, <1>3, <1>4, <1>5, StartOk, LookPlaces
<1>7. Placed(scanned')
  BY <1>6 DEF PlacesOk
<1> QED BY <1>6, <1>7, PlacesNext

LEMMA VisitPlaces == ASSUME IInv, PlacesOk, Visit PROVE PlacesOk'
<1>1. PICK row, s : row = Automaton[label] /\ s = At(row, m_lexerState)
  OBVIOUS
<1>2. /\ status = "scanning" /\ label \in DOMAIN Automaton /\ row.ends = "none"
      /\ Look(row, s) /\ text \in Texts /\ m_lexerState \in LexerState
      /\ Window(m_lexerState, position)
  BY <1>1 DEF Visit, Visiting, IInv, TypeOK
<1>3. /\ label \in Labels /\ RowOk(label, row) /\ s \in LexerState /\ Window(s, position)
      /\ s.limit - s.current >= Ahead[label] - Steps(row)
  BY <1>1, <1>2, VisitedRow
<1>4. label # 0
  BY <1>2, AutomatonOk DEF AllOk
<1>5. BeforeLook(s, position, ~moved, label, scanned)
  BY <1>1, <1>2, <1>3, <1>4, VisitBeforeLook DEF PlacesOk
<1>6. /\ text' = text /\ scanned' = scanned /\ status' \in {"scanning", "EOS"}
      /\ status' = "scanning" =>
           label' # 0 /\ Reads(m_lexerState', position', ~moved', label', scanned')
  BY <1>2, <1>3, <1>5, LookPlaces
<1>7. Placed(scanned')
  BY <1>6 DEF PlacesOk
<1> QED BY <1>6, <1>7, PlacesNext

LEMMA GiveBackPlaces == ASSUME IInv, PlacesOk, GiveBack PROVE PlacesOk'
<1>1. PICK s, t : s = m_lexerState /\ t = m_lexerState'
  OBVIOUS
<1>2. /\ status = "scanning" /\ label = 75 /\ label' = yyaccept /\ yyaccept \in MarksEnd
      /\ t = [s EXCEPT !.current = s.marker] /\ s \in LexerState /\ Window(s, position)
      /\ text' = text /\ position' = position /\ status' = status
      /\ moved' = moved /\ scanned' = scanned /\ text \in Texts
  BY <1>1 DEF GiveBack, IInv, TypeOK, stream
<1>3. MarkIn(s)
  <2>1. 75 \in Behind
    BY DEF Behind
  <2> QED BY <1>1, <1>2, <2>1 DEF IInv, Ready
<1>4. t.current = s.marker /\ Keeps(s, t) /\ t \in LexerState
  BY <1>2 DEF LexerState, Keeps
<1>5. /\ OffsetsOk(s, position) /\ InToken(s, position, ~moved, 75)
      /\ EndBefore(scanned, From(s, position)) /\ Placed(scanned)
  BY <1>1, <1>2 DEF PlacesOk, Reads
<1>6. label' \in Stays /\ label' \notin LineEnds /\ label' # 0
  BY <1>2 DEF MarksEnd, Within, Stays
<1>7. /\ From(t, position) = From(s, position)
      /\ Counted(t, position, ~moved, From(t, position))
  BY <1>4, <1>5, KeepsPlaces DEF InToken
<1>8. Unbroken(From(t, position), To(t, position))
  <2>1. Unbroken(From(s, position), To(s, position))
    BY <1>5 DEF InToken
  <2>2. PICK from, to, base, cur, mark \in Int :
          /\ from = From(s, position) /\ to = To(s, position) /\ base = PlaceOf(s, position, 0)
          /\ cur = s.current /\ mark = s.marker
    <3>1. s.current \in Int /\ s.marker \in Int
      BY <1>2 DEF LexerState
    <3> QED BY <1>2, <3>1, PlacesType
  <2>3. PICK end, read \in Int : end = End(s) /\ read = position
    <3>1. End(s) \in Int
      BY <1>2 DEF End, LexerState, kYYMaxFill
    <3>2. position \in Int
      BY <1>2, LexerAssumption DEF Window
    <3> QED BY <3>1, <3>2
  <2>4. PICK till \in Int : till = To(t, position) /\ till = read - end + mark
    <3>1. End(t) = end
      BY <1>4, <2>3 DEF Keeps, End
    <3>2. To(t, position) = read - end + mark
      BY <1>4, <2>2, <2>3, <3>1 DEF To, PlaceOf
    <3> QED BY <3>2
  <2>5. till <= to
    <3>1. mark <= cur
      BY <1>3, <2>2 DEF MarkIn
    <3>2. to = read - end + cur
      BY <2>2, <2>3 DEF To, PlaceOf
    <3> QED BY <2>4, <3>1, <3>2
  <2> QED BY <1>7, <2>1, <2>2, <2>4, <2>5 DEF Unbroken
<1>9. Reads(t, position, ~moved, label', scanned)
  <2>1. t.streamReadOffset # Nowhere /\ t.tokenLineStart = t.lineNum
    BY <1>4, <1>5 DEF Keeps, InToken
  <2>2. ~moved => t.tokenColumnStart = t.streamReadOffset + t.token - t.lineStartOffset + 1
    BY <1>4, <1>5 DEF Keeps, InToken
  <2>3. OffsetsOk(t, position)
    BY <1>4, <1>5, <2>1 DEF Keeps, OffsetsOk
  <2>4. InToken(t, position, ~moved, label')
    BY <1>6, <1>7, <1>8, <2>1, <2>2 DEF InToken
  <2> QED BY <1>5, <1>7, <2>3, <2>4 DEF Reads
<1> QED BY <1>1, <1>2, <1>5, <1>6, <1>9, PlacesNext

LEMMA scanPlaces == ASSUME IInv, PlacesOk, scan PROVE PlacesOk'
<1>1. PICK s : s = m_lexerState
  OBVIOUS
<1>2. /\ status = "Ok" /\ status' = "scanning" /\ label' = 0 /\ m_lexerState' = s
      /\ text' = text /\ position' = position /\ moved' = moved /\ scanned' = scanned
  BY <1>1 DEF scan, stream
<1>3. Placed(scanned) /\ Rests(s, position, ~moved, scanned)
  BY <1>1, <1>2 DEF PlacesOk
<1> QED BY <1>2, <1>3, PlacesNext

LEMMA StutterPlaces == ASSUME PlacesOk, UNCHANGED vars PROVE PlacesOk'
<1>1. PICK s : s = m_lexerState
  OBVIOUS
<1>2. /\ status' = status /\ label' = label /\ m_lexerState' = s
      /\ text' = text /\ position' = position /\ moved' = moved /\ scanned' = scanned
  BY <1>1 DEF vars, stream
<1> QED BY <1>1, <1>2, PlacesNext DEF PlacesOk

LEMMA SkipPlaces == ASSUME IInv, PlacesOk, Skip PROVE PlacesOk'
<1>1. PICK row, s, t : /\ row = Automaton[label] /\ s = m_lexerState
                       /\ t = Stepped(row, m_lexerState)
  OBVIOUS
<1>2. /\ status = "scanning" /\ label \in DOMAIN Automaton /\ text \in Texts /\ label' = 0
      /\ text' = text /\ position' = position /\ status' = status /\ scanned' = scanned
      /\ row.ends \in {"blank", "newline"}
      /\ IF row.ends = "blank" THEN m_lexerState' = t /\ moved' = moved
         ELSE m_lexerState' = updateLineStartOffset(t) /\ moved' = FALSE
  BY <1>1 DEF Skip, Visiting, IInv, TypeOK, stream
<1>3. /\ s \in LexerState /\ Window(s, position) /\ label \in Labels /\ RowOk(label, row)
      /\ t \in LexerState /\ Window(t, position) /\ label # 0
  <2>1. s \in LexerState /\ Window(s, position)
    BY <1>1 DEF IInv, TypeOK
  <2>2. label # 0
    BY <1>2, AutomatonOk DEF AllOk
  <2> QED BY <1>1, <1>2, <2>1, <2>2, VisitedRow
<1>4. Keeps(s, t) /\ t.current = s.current + Steps(row)
  BY <1>1, <1>3, AtKeeps
<1>5. Placed(scanned) /\ Reads(s, position, ~moved, label, scanned)
  BY <1>1, <1>2, <1>3 DEF PlacesOk
<1>6. label \notin {4, 5}
  BY <1>2, <1>3 DEF RowOk
<1>7. EndBefore(scanned, To(t, position))
  <2>1. EndBefore(scanned, From(t, position))
    BY <1>4, <1>5, KeepsPlaces DEF Reads
  <2>2. /\ From(t, position) \in Int /\ To(t, position) \in Int
        /\ From(t, position) <= To(t, position)
    BY <1>2, <1>3, PlacesType
  <2> QED BY <2>1, <2>2, EndBeforeOn
<1>8. CASE row.ends = "blank"
  <2>1. label \notin LineEnds
    BY <1>3, <1>8 DEF RowOk
  <2>2. OffsetsOk(t, position) /\ Counted(t, position, ~moved, To(t, position))
    BY <1>2, <1>3, <1>4, <1>5, <1>6, <2>1, EndReached
  <2>3. Rests(t, position, ~moved, scanned)
    BY <1>7, <2>2 DEF Rests
  <2> QED BY <1>2, <1>5, <1>8, <2>3, PlacesNext
<1>9. CASE row.ends = "newline"
  <2>1. label \in LineEnds /\ Steps(row) = 1
    BY <1>3, <1>9 DEF RowOk
  <2>2. PICK u : u = updateLineStartOffset(t)
    OBVIOUS
  <2>3. /\ OffsetsOk(u, position) /\ Counted(u, position, TRUE, To(t, position))
        /\ To(u, position) = To(t, position)
    BY <1>2, <1>3, <1>4, <1>5, <2>1, <2>2, LineEnded
  <2>4. Rests(u, position, TRUE, scanned)
    BY <1>7, <2>3 DEF Rests
  <2>5. m_lexerState' = u /\ ~moved'
    BY <1>2, <1>9, <2>2
  <2>6. Rests(m_lexerState', position', ~moved', scanned')
    BY <1>2, <2>4, <2>5
  <2> QED BY <1>2, <1>5, <2>6, PlacesNext
<1> QED BY <1>2, <1>8, <1>9

LEMMA ZeroPlaces == ASSUME IInv, PlacesOk, Zero PROVE PlacesOk'
<1>1. PICK row, s, t : /\ row = Automaton[label] /\ s = m_lexerState
                       /\ t = Stepped(row, m_lexerState)
  OBVIOUS
<1>2. /\ status = "scanning" /\ label \in DOMAIN Automaton /\ text' = text /\ position' = position
      /\ scanned' = scanned /\ m_lexerState' = t /\ moved' = moved /\ s \in LexerState
      /\ \/ status' = "EOS" /\ label' = label
         \/ status' = status /\ label' = 4
  BY <1>1 DEF Zero, Visiting, EndOfStream, IInv, TypeOK, stream
<1>3. label # 0
  BY <1>2, AutomatonOk DEF AllOk
<1>4. Keeps(s, t)
  BY <1>1, <1>2, AtKeeps
<1>5. Placed(scanned) /\ Reads(s, position, ~moved, label, scanned)
  BY <1>1, <1>2, <1>3 DEF PlacesOk
<1>6. From(t, position) = From(s, position) /\ Counted(t, position, ~moved, From(t, position))
  BY <1>4, <1>5, KeepsPlaces DEF Reads, InToken
<1>7. OffsetsOk(t, position) /\ t.streamReadOffset # Nowhere
  BY <1>4, <1>5 DEF Reads, InToken, OffsetsOk, Keeps
<1>8. InToken(t, position, ~moved, 4)
  BY <1>4, <1>5, <1>6, <1>7 DEF Reads, InToken, Keeps
<1>9. Reads(t, position, ~moved, 4, scanned)
  BY <1>5, <1>6, <1>7, <1>8 DEF Reads
<1> QED BY <1>2, <1>5, <1>9, PlacesNext

LEMMA setTokenPlaces == ASSUME IInv, PlacesOk, setToken PROVE PlacesOk'
<1>1. PICK row, s, t : /\ row = Automaton[label] /\ s = m_lexerState
                       /\ t = Stepped(row, m_lexerState)
  OBVIOUS
<1>2. PICK token : token = [info |-> TokenInfo(row.ends, t), moved |-> moved,
                            from |-> From(t, position), to |-> To(t, position)]
  OBVIOUS
<1>3. /\ status = "scanning" /\ label \in DOMAIN Automaton /\ text \in Texts /\ label' = label
      /\ text' = text /\ position' = position /\ moved' = moved /\ m_lexerState' = t
      /\ row.ends \notin {"blank", "newline", "end"} /\ row.ends # "none"
      /\ status' = IF row.ends = "TokenCount" THEN "Error" ELSE "Ok"
      /\ scanned' = Append(scanned, token)
  BY <1>1, <1>2 DEF setToken, Visiting, IInv, TypeOK, stream, From, To
<1>4. /\ s \in LexerState /\ Window(s, position) /\ label \in Labels /\ RowOk(label, row)
      /\ t \in LexerState /\ Window(t, position) /\ label # 0
  <2>1. s \in LexerState /\ Window(s, position)
    BY <1>1 DEF IInv, TypeOK
  <2>2. label # 0
    BY <1>3, AutomatonOk DEF AllOk
  <2> QED BY <1>1, <1>3, <2>1, <2>2, VisitedRow
<1>5. Keeps(s, t) /\ t.current = s.current + Steps(row)
  BY <1>1, <1>4, AtKeeps
<1>6. Placed(scanned) /\ Reads(s, position, ~moved, label, scanned)
  BY <1>1, <1>3, <1>4 DEF PlacesOk
<1>7. IsPlaced(token)
  BY <1>2, <1>3, <1>4, <1>5, <1>6, TokenPlaced DEF Reads
<1>8. /\ EndBefore(scanned, token.from) /\ token.to = To(t, position) /\ token.to \in Int
  <2>1. token.from = From(t, position) /\ token.to = To(t, position)
    BY <1>2
  <2>2. EndBefore(scanned, From(t, position))
    BY <1>5, <1>6, KeepsPlaces DEF Reads
  <2>3. To(t, position) \in Int
    BY <1>3, <1>4, PlacesType
  <2> QED BY <2>1, <2>2, <2>3
<1>9. Placed(scanned') /\ EndBefore(scanned', To(t, position))
  BY <1>3, <1>6, <1>7, <1>8, AppendPlaced
<1>10. ASSUME status' = "Ok" PROVE Rests(t, position, ~moved, scanned')
  <2>1. label \notin LineEnds \cup {4, 5}
    BY <1>3, <1>4, <1>10 DEF RowOk
  <2>2. OffsetsOk(t, position) /\ Counted(t, position, ~moved, To(t, position))
    BY <1>3, <1>4, <1>5, <1>6, <2>1, EndReached
  <2> QED BY <1>9, <2>2 DEF Rests
<1>11. status' # "scanning"
  BY <1>3
<1> QED BY <1>3, <1>9, <1>10, <1>11, PlacesNext

\* Wherever the automaton is, the window holds the text from the token on, there is as much
\* of it ahead as the labels until the next refill may need, and what yy75 gives back lies
\* between the token and where the automaton has come to.
THEOREM LexerInvariant == Spec => []IInv
<1>1. Init => IInv
  BY InitIInv
<1>2. IInv /\ [Next]_vars => IInv'
  BY BeginStep, VisitStep, GiveBackStep, SkipStep, ZeroStep, setTokenStep, scanStep, StutterStep
     DEF Next
<1> QED BY <1>1, <1>2, PTL DEF Spec

\* All state of the lexer has its type: no pointer leaves the buffer, whatever the text.
THEOREM TypeCorrect == Spec => []TypeOK
<1>1. IInv => TypeOK
  BY DEF IInv
<1> QED BY <1>1, LexerInvariant, PTL

\* For every text and every size of the buffer, each character the automaton looks at is in
\* the buffer, and is the next one of the text or a zero behind its end, before and after a
\* refill (Lexer::re2cExecute, LexerState::fill).
THEOREM ReadsInside == Spec => []ReadsInsideBuffer
<1>1. IInv => ReadsInsideBuffer
  <2> SUFFICES ASSUME IInv, status = "scanning" PROVE ReadsInsideBuffer
    BY DEF ReadsInsideBuffer
  <2>1. ASSUME label = 0 PROVE SeesText(Start, markScanBegin(m_lexerState))
    <3>1. PICK s : s = markScanBegin(m_lexerState)
      OBVIOUS
    <3>2. s \in LexerState /\ Window(s, position) /\ text \in Texts
      BY <3>1, BeginInWindow DEF IInv, TypeOK
    <3>3. 0 \in Labels /\ s.limit - s.current >= Ahead[0] - Steps(Start)
      <4>1. Ahead[0] = 0 /\ 0 \in Labels
        BY DEF Ahead, Labels
      <4> QED BY <3>2, <4>1, StartOk DEF Window, LexerState
    <3>4. SeesText(Start, s)
      BY <3>2, <3>3, StartOk, LooksAtText
    <3> QED BY <3>1, <3>4
  <2>2. ASSUME label \in DOMAIN Automaton, Automaton[label].ends = "none"
        PROVE SeesText(Automaton[label], At(Automaton[label], m_lexerState))
    <3>1. PICK row, s : row = Automaton[label] /\ s = At(row, m_lexerState)
      OBVIOUS
    <3>2. /\ label \in Labels /\ RowOk(label, row) /\ s \in LexerState /\ Window(s, position)
          /\ s.limit - s.current >= Ahead[label] - Steps(row)
      BY <2>2, <3>1, VisitedRow
    <3>3. text \in Texts /\ row.ends = "none"
      BY <2>2, <3>1 DEF IInv, TypeOK
    <3>4. SeesText(row, s)
      BY <3>2, <3>3, LooksAtText
    <3> QED BY <3>1, <3>4
  <2> QED BY <2>1, <2>2 DEF ReadsInsideBuffer
<1> QED BY <1>1, LexerInvariant, PTL

\* For every text and every size of the buffer, each token says truly on which line it is,
\* and in which columns as long as the window has not moved in that line; its lexeme is what
\* stands in the text, and tokens follow each other (getColumnOffsetStart,
\* updateLineStartOffset, setToken).
THEOREM PositionsSound == Spec => []PositionsAreTrue
<1>1. Init => PlacesOk
  BY InitPlaces
<1>2. IInv /\ PlacesOk /\ [Next]_vars => PlacesOk'
  BY BeginPlaces, VisitPlaces, GiveBackPlaces, SkipPlaces, ZeroPlaces, setTokenPlaces,
     scanPlaces, StutterPlaces DEF Next
<1>3. PlacesOk => PositionsAreTrue
  BY DEF PlacesOk, Placed, PositionsAreTrue
<1> QED BY <1>1, <1>2, <1>3, LexerInvariant, PTL DEF Spec
=============================================================================
