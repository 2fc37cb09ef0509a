------------------------------- MODULE MCParser -------------------------------
(***************************************************************************)
(* The texts the parser is checked on: all there are within each session.  *)
(***************************************************************************)
EXTENDS Parser

Header == <<"Function", "Identifier", "BeginPar", "EndPar", "BeginScope">>

Session(first, most, among, last) ==
  [first |-> first, most |-> most, among |-> among, last |-> last]

InBody(most, among) == Session(Header, most, among, <<"EndScope", "EOS">>)

InReturn(most, among) ==
  Session(Append(Header, "Return"), most, among, <<"SemiColon", "EndScope", "EOS">>)

MCSessions == {
  \* operators of each level, prefixes and brackets
  InReturn(6, {"Identifier", "As", "TypeBool", "And", "CompareLt", "Plus", "Minus", "Mult", "Dot",
               "BeginPar", "EndPar"}),
  InReturn(3, {"Identifier"} \union DOMAIN Infix),
  \* calls, members and struct initialisations, inside each other
  InReturn(7, {"Identifier", "IdentifierMulti", "Self", "Dot", "BeginPar", "EndPar", "Comma",
               "BeginScope", "EndScope", "Colon"}),
  InReturn(2, Literals \union DOMAIN Prefix),
  \* statements
  InBody(7, {"Var", "Let", "Identifier", "Colon", "TypeInt32", "Reference", "Assign", "Return",
             "SemiColon", "BeginScope", "EndScope"}),
  \* parameters and types
  Session(<<"Function", "Identifier", "BeginPar">>, 8,
          {"Self", "Identifier", "IdentifierMulti", "Mutable", "Reference", "Colon", "TypeFloat64",
           "Comma"},
          <<"EndPar", "BeginScope", "EndScope", "EOS">>),
  Session(<<"Function", "Identifier", "BeginPar", "EndPar", "Colon">>, 2,
          {"Mutable", "Reference"} \union {"Type" \o BuiltinTypes[i] : i \in DOMAIN BuiltinTypes},
          <<"BeginScope", "EndScope", "EOS">>),
  \* declarations
  Session(<<>>, 9,
          {"Type", "Identifier", "Struct", "Alias", "From", "BeginScope", "EndScope", "Colon",
           "Comma", "TypeBool", "SemiColon", "Import", "Impl", "Function"},
          <<"EOS">>),
  Session(<<"Impl", "Identifier", "BeginScope">> \o Header, 10,
          {"EndScope", "Function", "Identifier", "BeginPar", "EndPar", "BeginScope"},
          <<"EOS">>)}
=============================================================================
