------------------------------- MODULE MCLexer -------------------------------
EXTENDS LexicalRules

\* Whatever comes in front, to have the pieces anywhere in the buffer; pairs of pieces that
\* may grow together or be taken apart; words that differ late.
Lead == "f(a) b+1\n g 2 // c"
Firsts ==
  {"as", "a:", "a::b", "-", "1", "1u", "1i32", "1.", "1.5f32", "=", "/", "//x", "$", "a~ ", "!",
   "u1", "_", "tru", "self", "\t", "retur", "strin"}
Seconds ==
  {"sm", ":b ", "::c_", "5", "8", "16 ", "32:", "6", ".5", "==", "/x\n", "\n", " ~", "import", "", "ce",
   "n", "1_", "f64", "@", "::", ">=;", "fn n(self){return 1;}"}
Alone ==
  {"alias and bool cast\nfalse f32 f64 fn from", "i8 i16 i32 impl\nimport importing let mod",
   "mut not or return self\nstruct structs this true", "type u8 u16 u32 var\nu64 i64 f6 f324",
   "!= ! ", "<= >= < > == !=", "& ( ) * + , . / ; { } [ ]\t:", "x // a very long comment\ny",
   "an_identifier_that_is_longer", "1u16 1i16 1u32 1i8\n1.5f64 1.5f6 ", "//", "a::b::c d"}
MCTexts ==
  {SubSeq(Lead, 1, n) \o a \o b : n \in 0 .. Len(Lead), a \in Firsts, b \in Seconds} \cup Alone
=============================================================================
