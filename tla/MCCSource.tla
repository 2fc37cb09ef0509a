------------------------------ MODULE MCCSource ------------------------------
(* A struct with a number, one with a reference to it, a type made from it,  *)
(* functions, and sessions that each try one kind of expressions.            *)
EXTENDS CExpressions

MCValues == {"u8", "u16"}
MCPlains == {"Foo"}
MCHolders == {"Box"}
MCWeak == {}
MCStrong == {"Own"}
MCAliasOf == [t \in MCStrong |-> "Foo"]
MCMember == [Foo |-> "u16", Box |-> "Foo"]
MCBits == [i8 |-> 2, u8 |-> 2, i16 |-> 3, u16 |-> 3, i32 |-> 4, u32 |-> 4, i64 |-> 6, u64 |-> 6]

V(type) == Written(type, FALSE, FALSE)
M(type) == Written(type, TRUE, FALSE)
R(type) == Written(type, FALSE, TRUE)
MR(type) == Written(type, TRUE, TRUE)

Function(of, self, params, result) == [of |-> of, self |-> self, params |-> params, result |-> result]

MCFunctions ==
  [make |-> Function("none", FALSE, <<>>, M("Foo")),
   give |-> Function("none", FALSE, <<R("Foo")>>, R("Foo")),
   eat |-> Function("none", FALSE, <<V("u16"), MR("Foo")>>, Void),
   get |-> Function("Foo", TRUE, <<R("Foo")>>, V("u16")),
   set |-> Function("Foo", TRUE, <<MR("Foo"), V("u16")>>, Void),
   take |-> Function("Foo", TRUE, <<V("Foo")>>, V("u16")),
   zero |-> Function("Foo", FALSE, <<>>, M("Foo"))]

One == [kind |-> "IntegerLiteralU8", negative |-> FALSE, digits |-> <<1>>, point |-> FALSE]
MinusOne == [kind |-> "IntegerLiteralI8", negative |-> TRUE, digits |-> <<1>>, point |-> FALSE]

Plain == [vars |-> [n \in {} |-> Void], result |-> Void, names |-> {}, bools |-> {}, literals |-> {},
          unary |-> {}, binary |-> {}, members |-> {}, casts |-> {}, calls |-> {}, inits |-> {},
          statements |-> {}, news |-> {}, typed |-> {}, most |-> 0]

\* Every literal with up to four digits, and one with a decimal point.
Literals ==
  [kind : DOMAIN IntegerType, negative : BOOLEAN,
   digits : UNION {[1..n -> 0..(Base - 1)] : n \in 1..4}, point : {FALSE}]
    \cup {[One EXCEPT !.point = TRUE]}

Session1 == [Plain EXCEPT !.literals = Literals, !.most = 1]

\* Casts between all integer types.
CastOf(type) ==
  [Plain EXCEPT !.vars = [x |-> V(type)], !.names = {"x"}, !.casts = {V(t) : t \in Integer}, !.most = 2]

\* Operators on numbers, and on truth values.
Session2 ==
  [Plain EXCEPT !.vars = [x |-> M("u16"), y |-> V("u8"), i |-> V("i8")], !.names = {"x", "y", "i"},
     !.literals = {One, MinusOne}, !.unary = {"-", "~"}, !.binary = {"+", "*", "<", "&"},
     !.casts = {V("u8")}, !.statements = {"expression"}, !.most = 5]

Session3 ==
  [Plain EXCEPT !.vars = [x |-> V("u8"), b |-> V("bool")], !.names = {"x", "b"}, !.bools = {1},
     !.unary = {"!"}, !.binary = {"==", "and", "or"}, !.statements = {"expression"}, !.most = 6]

\* References and members.
Session4 ==
  [Plain EXCEPT !.vars = [x |-> M("u16"), s |-> M("Foo"), p |-> R("Foo"), h |-> V("Box"), q |-> MR("u8"),
                          o |-> R("Own")],
     !.names = {"x", "s", "p", "h", "q", "o", "nobody"}, !.result = R("Foo"),
     !.unary = {"&", "*", "-"}, !.binary = {"<"}, !.members = {"n", "r"},
     !.casts = {V("u16"), R("Foo"), V("nobody")}, !.statements = {"expression", "return", "assign"}, !.most = 4]

\* Calls and initialisers.
Session5 ==
  [Plain EXCEPT !.vars = [s |-> M("Foo"), p |-> R("Foo")], !.names = {"s", "p"}, !.literals = {One}, !.result = M("Foo"), !.unary = {"&", "*"},
     !.members = {"n", "r"}, !.calls = DOMAIN MCFunctions \cup {"nobody"}, !.inits = {"Foo", "Box", "Own", "u8"},
     !.statements = {"expression", "return"}, !.most = 4]

\* Variables, blocks and assignments.
Session6 ==
  [Plain EXCEPT !.vars = [x |-> V("u8"), r |-> MR("u8")],
     !.names = {"x", "r", "v"}, !.unary = {"&", "*"}, !.result = V("u8"),
     !.typed = {QT("u16", TRUE, FALSE, TRUE), QT("u8", FALSE, TRUE, TRUE), QT("u8", TRUE, TRUE, TRUE)}, !.news = {"v"},
     !.statements = {"return", "assign", "scope"}, !.most = 5]

MCSessions == {Session1, Session2, Session3, Session4, Session5, Session6} \cup {CastOf(type) : type \in Integer}
==============================================================================
