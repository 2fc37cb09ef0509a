----------------------------- MODULE LexicalRules -----------------------------
(***************************************************************************)
(* The rules of lexer_re2c.in, read without an automaton and without a     *)
(* buffer: a text is cut into the longest pieces that match a rule, and of *)
(* the rules that match the same piece the first one counts.               *)
(***************************************************************************)
EXTENDS Lexer, FiniteSetsExt

\* Words and signs; they come before identifiers.
Fixed ==
  "var" :> "Var" @@ "let" :> "Let" @@ "impl" :> "Impl" @@ "as" :> "As" @@ "import" :> "Import" @@
  "cast" :> "Cast" @@ "mut" :> "Mutable" @@ "&" :> "Reference" @@ "return" :> "Return" @@
  "type" :> "Type" @@ "alias" :> "Alias" @@ "from" :> "From" @@ "true" :> "True" @@
  "false" :> "False" @@ "and" :> "And" @@ "or" :> "Or" @@ "not" :> "Not" @@ "this" :> "This" @@
  "fn" :> "Function" @@ "self" :> "Self" @@ "\n" :> "newline" @@ "bool" :> "TypeBool" @@
  "i8" :> "TypeInt8" @@ "u8" :> "TypeUInt8" @@ "i16" :> "TypeInt16" @@ "u16" :> "TypeUInt16" @@
  "i32" :> "TypeInt32" @@ "u32" :> "TypeUInt32" @@ "f32" :> "TypeFloat32" @@
  "f64" :> "TypeFloat64" @@ "+" :> "Plus" @@ "-" :> "Minus" @@ "/" :> "Div" @@ "*" :> "Mult" @@
  "mod" :> "Mod" @@ "=" :> "Assign" @@ "struct" :> "Struct" @@ ":" :> "Colon" @@
  "," :> "Comma" @@ ";" :> "SemiColon" @@ "{" :> "BeginScope" @@ "}" :> "EndScope" @@
  "[" :> "BeginArray" @@ "]" :> "EndArray" @@ "(" :> "BeginPar" @@ ")" :> "EndPar" @@
  "." :> "Dot" @@ ">=" :> "CompareGe" @@ ">" :> "CompareGt" @@ "<=" :> "CompareLe" @@
  "<" :> "CompareLt" @@ "==" :> "CompareEq" @@ "!=" :> "CompareNe"

C(s, i) == SubSeq(s, i, i)
Drop(s, n) == SubSeq(s, n + 1, Len(s))
All(s, S) == s # "" /\ \A i \in 1 .. Len(s) : C(s, i) \in S

Blank(s) == All(s, {" ", "\t"})
Comment(s) ==
  /\ Len(s) >= 3 /\ SubSeq(s, 1, 2) = "//"
  /\ \A i \in 1 .. Len(s) : C(s, i) = "\n" <=> i = Len(s)

Identifier(s) == All(s, WordChars) /\ C(s, 1) \in Letters
RECURSIVE MultiIdentifier(_)
MultiIdentifier(s) ==
  \E k \in 1 .. Len(s) - 3 :
    LET rest == Drop(s, k + 2)
    IN /\ SubSeq(s, k + 1, k + 2) = "::" /\ Identifier(SubSeq(s, 1, k))
       /\ (Identifier(rest) \/ MultiIdentifier(rest))

Integer(s) == All(s, Digits) \/ (s # "" /\ C(s, 1) = "-" /\ All(Drop(s, 1), Digits))
Decimal(s) ==
  \E k \in 2 .. Len(s) - 1 :
    C(s, k) = "." /\ All(SubSeq(s, 1, k - 1), Digits) /\ All(Drop(s, k), Digits)

\* What is in front of the type of a number.
Unsuffixed(s, suffix) ==
  LET n == Len(s) - Len(suffix)
  IN IF n > 0 /\ Drop(s, n) = suffix THEN SubSeq(s, 1, n) ELSE ""
IntegerTypes ==
  "i8" :> "I8" @@ "i16" :> "I16" @@ "i32" :> "I32" @@ "u8" :> "U8" @@ "u16" :> "U16" @@
  "u32" :> "U32"
Typed(s) ==
  {"IntegerLiteral" \o IntegerTypes[t] : t \in {u \in DOMAIN IntegerTypes : Integer(Unsuffixed(s, u))}}
    \cup (IF Decimal(Unsuffixed(s, "f32")) THEN {"DecimalLiteral32"} ELSE {})
    \cup (IF Decimal(Unsuffixed(s, "f64")) THEN {"DecimalLiteral64"} ELSE {})

\* The rule that a piece matches.
Rule(s) ==
  IF s \in DOMAIN Fixed THEN Fixed[s]
  ELSE IF Blank(s) THEN "blank" ELSE IF Comment(s) THEN "newline"
  ELSE IF Identifier(s) THEN "Identifier" ELSE IF MultiIdentifier(s) THEN "IdentifierMulti"
  ELSE IF Integer(s) THEN "IntegerLiteral" ELSE IF Decimal(s) THEN "DecimalLiteral"
  ELSE IF Typed(s) # {} THEN CHOOSE t \in Typed(s) : TRUE ELSE "TokenCount"

-----------------------------------------------------------------------------
(* A text in pieces *)

\* A comment that no newline ends goes on to the end of the text.
OpenComment(t, p) ==
  /\ p + 2 <= Len(t) /\ SubSeq(t, p + 1, p + 2) = "//"
  /\ \A i \in p + 1 .. Len(t) : C(t, i) # "\n"

RECURSIVE PiecesFrom(_, _)
PiecesFrom(t, p) ==
  IF p = Len(t) \/ OpenComment(t, p) THEN <<>>
  ELSE LET Fits(n) == Rule(SubSeq(t, p + 1, p + n))
           longest == Max({n \in 1 .. Len(t) - p : Fits(n) # "TokenCount"} \cup {1})
       IN <<[token |-> Fits(longest), from |-> p, to |-> p + longest]>>
            \o (IF Fits(longest) = "TokenCount" THEN <<>> ELSE PiecesFrom(t, p + longest))

Pieces == [t \in Texts |-> PiecesFrom(t, 0)]
Tokens ==
  [t \in Texts |-> SelectSeq(Pieces[t], LAMBDA piece : piece.token \notin {"blank", "newline"})]

\* Nothing is so long that it leaves no room in the buffer for what comes next, and no
\* zero byte is taken for the end.
Buffered ==
  /\ \A i \in 1 .. Len(text) : C(text, i) # "~"
  /\ \A i \in DOMAIN Pieces[text] : Pieces[text][i].to - Pieces[text][i].from <= kMaxBufferSize - 5
  /\ \A p \in 0 .. Len(text) - 1 : OpenComment(text, p) => Len(text) - p < kMaxBufferSize

Finished == status \in {"EOS", "Error"}

\* Wherever the buffer is refilled in the middle of a token, the tokens are those of the
\* text as a whole, each with its name, and the text is read to its end, or to the first
\* character that starts no token (LexerState::fill and the rules of lexer_re2c.in).
TokensAreLongest ==
  Finished /\ Buffered =>
    LET tokens == Tokens[text] IN
    /\ Len(scanned) = Len(tokens)
    /\ \A i \in DOMAIN tokens :
         /\ scanned[i].info.token = tokens[i].token
         /\ scanned[i].from = tokens[i].from /\ scanned[i].to = tokens[i].to
         /\ tokens[i].token \in Named =>
              scanned[i].info.tokenStr
                = [k \in 1 .. tokens[i].to - tokens[i].from |-> C(text, tokens[i].from + k)]
=============================================================================
