---------------------------- MODULE LexerTables ----------------------------
(***************************************************************************)
(* The automaton re2c generated of the rules (lexer_re2c.cpp): the labels  *)
(* of Lexer::re2cExecute and where each goes.  A label steps to the next   *)
(* character, may remember the place as the end of a token (mark: label    *)
(* that yyaccept leads back to), may make sure that fill characters are    *)
(* there, and goes on by the character it finds; or it ends a token.       *)
(***************************************************************************)
EXTENDS Naturals

\* The operators of module TLC, in a form that proofs can expand.
c :> to == [x \in {c} |-> to]
Joined(f, g) ==
  [x \in (DOMAIN f) \cup (DOMAIN g) |-> IF x \in DOMAIN f THEN f[x] ELSE g[x]]
f @@ g == Joined(f, g)

Digits == {"0", "1", "2", "3", "4", "5", "6", "7", "8", "9"}
Letters ==
  {"a", "b", "c", "d", "e", "f", "g", "h", "i", "j", "k", "l", "m", "n", "o", "p", "q", "r",
   "s", "t", "u", "v", "w", "x", "y", "z", "A", "B", "C", "D", "E", "F", "G", "H", "I", "J",
   "K", "L", "M", "N", "O", "P", "Q", "R", "S", "T", "U", "V", "W", "X", "Y", "Z"}
Blanks == {" ", "\t"}
\* Characters by name, which the provers' languages have a use for.
Newline == "\n"
Underscore == "_"
Comma == ","
SemiColon == ";"
LeftBrace == "{"
RightBrace == "}"
WordChars == Digits \cup Letters \cup {Underscore}

Each(S, to) == [c \in S |-> to]

\* moves: where single characters lead; word: where other characters of words lead.
Word(moves, word, other) ==
  [step |-> TRUE, mark |-> 0, fill |-> 0, moves |-> moves, word |-> word, other |-> other,
   ends |-> "none"]
Branch(moves, other) == Word(moves, other, other)
InWord(moves, word, other) == [Word(moves, word, other) EXCEPT !.step = FALSE]
Marked(mark, row) == [row EXCEPT !.mark = mark]
Filled(n, row) == [row EXCEPT !.fill = n]
\* In the middle of a keyword, where the identifier read so far would do as well, and
\* at the end of one.
Letter(moves) == Marked(45, Branch(moves, 44))
Keyword(end) == Marked(end, Word(":" :> 44, 44, end))
\* The end of a token, with or without a last step.
Final(token) == [Branch(<<>>, 0) EXCEPT !.ends = token]
Ends(token) == [Final(token) EXCEPT !.step = FALSE]

\* The first character.
StartSigns ==
  "NUL" :> 2 @@ Each(Blanks, 6) @@ Newline :> 9 @@ "!" :> 11 @@ "&" :> 12 @@ "(" :> 14 @@
  ")" :> 16 @@ "*" :> 18 @@ "+" :> 20 @@ Comma :> 22 @@ "-" :> 24 @@ "." :> 26 @@ "/" :> 28 @@
  Each(Digits, 30) @@ ":" :> 33 @@ SemiColon :> 35 @@ "<" :> 37 @@ "=" :> 39 @@ ">" :> 41
StartLetters ==
  Underscore :> 4 @@ "[" :> 46 @@ "]" :> 48 @@ "a" :> 50 @@ "b" :> 51 @@ "c" :> 52 @@ "f" :> 53 @@
  "i" :> 54 @@ "l" :> 55 @@ "m" :> 56 @@ "n" :> 57 @@ "o" :> 58 @@ "r" :> 59 @@ "s" :> 60 @@
  "t" :> 61 @@ "u" :> 62 @@ "v" :> 63 @@ LeftBrace :> 64 @@ RightBrace :> 66
Start == Filled(7, InWord(StartSigns @@ StartLetters, 43, 4))

Labels2To22 ==
  2 :> Final("end") @@ 4 :> Branch(<<>>, 5) @@ 5 :> Ends("TokenCount") @@
  6 :> Filled(1, Branch(Each(Blanks, 6), 8)) @@ 8 :> Ends("blank") @@
  9 :> Final("newline") @@ 11 :> Branch("=" :> 68, 5) @@ 12 :> Final("Reference") @@
  14 :> Final("BeginPar") @@ 16 :> Final("EndPar") @@ 18 :> Final("Mult") @@
  20 :> Final("Plus") @@ 22 :> Final("Comma")
Labels24To32 ==
  24 :> Branch(Each(Digits, 70), 25) @@
  25 :> Ends("Minus") @@ 26 :> Final("Dot") @@ 28 :> Branch("/" :> 72, 29) @@
  29 :> Ends("Div") @@
  30 :> Filled(3, Marked(32, Branch(Each(Digits, 30) @@ "." :> 74 @@ "i" :> 76 @@ "u" :> 77, 32))) @@
  32 :> Ends("IntegerLiteral")
Labels33To43 ==
  33 :> Final("Colon") @@ 35 :> Final("SemiColon") @@
  37 :> Branch("=" :> 78, 38) @@ 38 :> Ends("CompareLt") @@ 39 :> Branch("=" :> 80, 40) @@
  40 :> Ends("Assign") @@ 41 :> Branch("=" :> 82, 42) @@ 42 :> Ends("CompareGt") @@
  43 :> Filled(1, Marked(45, Branch(<<>>, 44)))
Labels44To58 ==
  44 :> InWord(":" :> 84, 43, 45) @@ 45 :> Ends("Identifier") @@ 46 :> Final("BeginArray") @@
  48 :> Final("EndArray") @@ 50 :> Letter("l" :> 85 @@ "n" :> 86 @@ "s" :> 87) @@
  51 :> Letter("o" :> 89) @@ 52 :> Letter("a" :> 90) @@
  53 :> Letter("3" :> 91 @@ "6" :> 92 @@ "a" :> 93 @@ "n" :> 94 @@ "r" :> 96) @@
  54 :> Letter("1" :> 97 @@ "3" :> 98 @@ "8" :> 99 @@ "m" :> 101) @@
  55 :> Letter("e" :> 102) @@ 56 :> Letter("o" :> 103 @@ "u" :> 104) @@
  57 :> Letter("o" :> 105) @@ 58 :> Letter("r" :> 106)
Labels59To78 ==
  59 :> Letter("e" :> 108) @@ 60 :> Letter("e" :> 109 @@ "t" :> 110) @@
  61 :> Letter("h" :> 111 @@ "r" :> 112 @@ "y" :> 113) @@
  62 :> Letter("1" :> 114 @@ "3" :> 115 @@ "8" :> 116) @@ 63 :> Letter("a" :> 118) @@
  64 :> Final("BeginScope") @@ 66 :> Final("EndScope") @@ 68 :> Final("CompareNe") @@
  70 :> Filled(3, Marked(32, Branch(Each(Digits, 70) @@ "i" :> 76 @@ "u" :> 77, 32))) @@
  72 :> Filled(1, Branch(Newline :> 119, 72)) @@ 74 :> Branch(Each(Digits, 121), 75) @@
  76 :> Branch("1" :> 124 @@ "3" :> 125 @@ "8" :> 126, 75) @@
  77 :> Branch("1" :> 128 @@ "3" :> 129 @@ "8" :> 130, 75) @@ 78 :> Final("CompareLe")
Labels80To93 ==
  80 :> Final("CompareEq") @@ 82 :> Final("CompareGe") @@
  84 :> Filled(1, Branch(":" :> 132, 75)) @@ 85 :> Letter("i" :> 133) @@
  86 :> Letter("d" :> 134) @@ 87 :> Keyword(88) @@ 88 :> Ends("As") @@
  89 :> Letter("o" :> 136) @@ 90 :> Letter("s" :> 137) @@ 91 :> Letter("2" :> 138) @@
  92 :> Letter("4" :> 140) @@ 93 :> Letter("l" :> 142)
Labels94To98 ==
  94 :> Keyword(95) @@ 95 :> Ends("Function") @@ 96 :> Letter("o" :> 143) @@
  97 :> Letter("6" :> 144) @@ 98 :> Letter("2" :> 146)
Labels99To105 ==
  99 :> Keyword(100) @@ 100 :> Ends("TypeInt8") @@ 101 :> Letter("p" :> 148) @@
  102 :> Letter("t" :> 149) @@ 103 :> Letter("d" :> 151) @@ 104 :> Letter("t" :> 153) @@
  105 :> Letter("t" :> 155)
Labels106To115 ==
  106 :> Keyword(107) @@ 107 :> Ends("Or") @@ 108 :> Letter("t" :> 157) @@
  109 :> Letter("l" :> 158) @@ 110 :> Letter("r" :> 159) @@ 111 :> Letter("i" :> 160) @@
  112 :> Letter("u" :> 161) @@ 113 :> Letter("p" :> 162) @@ 114 :> Letter("6" :> 163) @@
  115 :> Letter("2" :> 165)
Labels116To130 ==
  116 :> Keyword(117) @@ 117 :> Ends("TypeUInt8") @@ 118 :> Letter("r" :> 167) @@
  119 :> Final("newline") @@
  121 :> Filled(3, Marked(123, Branch(Each(Digits, 121) @@ "f" :> 169, 123))) @@
  123 :> Ends("DecimalLiteral") @@ 124 :> Branch("6" :> 170, 75) @@
  125 :> Branch("2" :> 172, 75) @@ 126 :> Final("IntegerLiteralI8") @@
  128 :> Branch("6" :> 174, 75) @@ 129 :> Branch("2" :> 176, 75) @@
  130 :> Final("IntegerLiteralU8")
Labels132To136 ==
  132 :> Filled(1, Branch(Each(Letters, 178), 75)) @@ 133 :> Letter("a" :> 181) @@
  134 :> Keyword(135) @@ 135 :> Ends("And") @@ 136 :> Letter("l" :> 182)
Labels137To140 ==
  137 :> Letter("t" :> 184) @@ 138 :> Keyword(139) @@ 139 :> Ends("TypeFloat32") @@
  140 :> Keyword(141)
Labels141To145 ==
  141 :> Ends("TypeFloat64") @@ 142 :> Letter("s" :> 186) @@ 143 :> Letter("m" :> 187) @@
  144 :> Keyword(145) @@ 145 :> Ends("TypeInt16")
Labels146To149 ==
  146 :> Keyword(147) @@ 147 :> Ends("TypeInt32") @@
  148 :> Letter("l" :> 189 @@ "o" :> 191) @@ 149 :> Keyword(150)
Labels150To154 ==
  150 :> Ends("Let") @@ 151 :> Keyword(152) @@ 152 :> Ends("Mod") @@ 153 :> Keyword(154) @@
  154 :> Ends("Mutable")
Labels155To162 ==
  155 :> Keyword(156) @@ 156 :> Ends("Not") @@ 157 :> Letter("u" :> 192) @@
  158 :> Letter("f" :> 193) @@ 159 :> Letter("u" :> 195) @@ 160 :> Letter("s" :> 196) @@
  161 :> Letter("e" :> 198) @@ 162 :> Letter("e" :> 200)
Labels163To166 ==
  163 :> Keyword(164) @@ 164 :> Ends("TypeUInt16") @@ 165 :> Keyword(166) @@
  166 :> Ends("TypeUInt32")
Labels167To176 ==
  167 :> Keyword(168) @@ 168 :> Ends("Var") @@ 169 :> Branch("3" :> 202 @@ "6" :> 203, 75) @@
  170 :> Final("IntegerLiteralI16") @@ 172 :> Final("IntegerLiteralI32") @@
  174 :> Final("IntegerLiteralU16") @@ 176 :> Final("IntegerLiteralU32")
Labels178To181 ==
  178 :> Filled(1, Marked(180, Word(":" :> 84, 178, 180))) @@
  180 :> Ends("IdentifierMulti") @@ 181 :> Letter("s" :> 204)
Labels182To185 ==
  182 :> Keyword(183) @@ 183 :> Ends("TypeBool") @@ 184 :> Keyword(185) @@ 185 :> Ends("Cast")
Labels186To189 ==
  186 :> Letter("e" :> 206) @@ 187 :> Keyword(188) @@ 188 :> Ends("From") @@
  189 :> Keyword(190)
Labels190To195 ==
  190 :> Ends("Impl") @@ 191 :> Letter("r" :> 208) @@ 192 :> Letter("r" :> 209) @@
  193 :> Keyword(194) @@ 194 :> Ends("Self") @@ 195 :> Letter("c" :> 210)
Labels196To199 ==
  196 :> Keyword(197) @@ 197 :> Ends("This") @@ 198 :> Keyword(199) @@ 199 :> Ends("True")
Labels200To203 ==
  200 :> Keyword(201) @@ 201 :> Ends("Type") @@ 202 :> Branch("2" :> 211, 75) @@
  203 :> Branch("4" :> 213, 75)
Labels204To207 ==
  204 :> Keyword(205) @@ 205 :> Ends("Alias") @@ 206 :> Keyword(207) @@ 207 :> Ends("False")
Labels208To216 ==
  208 :> Letter("t" :> 215) @@ 209 :> Letter("n" :> 217) @@ 210 :> Letter("t" :> 219) @@
  211 :> Final("DecimalLiteral32") @@ 213 :> Final("DecimalLiteral64") @@
  215 :> Keyword(216) @@ 216 :> Ends("Import")
Labels217To220 ==
  217 :> Keyword(218) @@ 218 :> Ends("Return") @@ 219 :> Keyword(220) @@ 220 :> Ends("Struct")

\* yy75, where the automaton gives up what it read behind the last mark, is left to the
\* machine.
Automaton ==
  Labels2To22 @@ Labels24To32 @@ Labels33To43 @@ Labels44To58 @@ Labels59To78 @@ Labels80To93 @@ Labels94To98 @@
  Labels99To105 @@ Labels106To115 @@ Labels116To130 @@ Labels132To136 @@ Labels137To140 @@
  Labels141To145 @@ Labels146To149 @@ Labels150To154 @@ Labels155To162 @@ Labels163To166 @@
  Labels167To176 @@ Labels178To181 @@ Labels182To185 @@ Labels186To189 @@ Labels190To195 @@
  Labels196To199 @@ Labels200To203 @@ Labels204To207 @@ Labels208To216 @@ Labels217To220

Goes(row, c) ==
  IF c \in DOMAIN row.moves THEN row.moves[c] ELSE IF c \in WordChars THEN row.word ELSE row.other
=============================================================================
