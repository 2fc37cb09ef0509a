---------------------------- MODULE ParserTables ----------------------------
(***************************************************************************)
(* The tables of the parser that lemon generated from stparserimpl.lemon   *)
(* (stparserimpl.cpp), number by number.  An array begins at index 0, a    *)
(* sequence at 1: At(array, i) is array[i] of the code.                    *)
(***************************************************************************)
EXTENDS Integers, Sequences

At(array, i) == array[i + 1]

\* Terminal symbols first, then the others.
yyTokenName == <<
  "$", "ASSIGN", "AS", "OR", "AND", "BIT_OR", "BIT_XOR", "BIT_AND", "EQ", "NE", "GT", "LT", "GE",
  "LE", "PLUS", "MINUS", "MULT", "DIV", "MOD", "NEGATE", "BIT_NOT", "NOT", "DEREF", "REFERENCE",
  "DOT", "END", "IDENTIFIER_MULTI", "IDENTIFIER", "SELF", "TYPE_BOOL", "TYPE_INT8", "TYPE_UINT8",
  "TYPE_INT16", "TYPE_UINT16", "TYPE_INT32", "TYPE_UINT32", "TYPE_INT64", "TYPE_UINT64",
  "TYPE_FLOAT", "TYPE_DOUBLE", "ARRAY_BEGIN", "ARRAY_END", "MUT", "IMPORT", "SEMI_COLON", "COLON",
  "TYPE", "ALIAS", "FROM", "STRUCT", "SCOPE_BEGIN", "SCOPE_END", "COMMA", "PAR_BEGIN", "PAR_END",
  "FUNCTION", "IMPL", "RETURN", "VAR", "LET", "INTEGER_LITERAL", "INTEGER_LITERAL_I8",
  "INTEGER_LITERAL_I16", "INTEGER_LITERAL_I32", "INTEGER_LITERAL_I64", "INTEGER_LITERAL_U8",
  "INTEGER_LITERAL_U16", "INTEGER_LITERAL_U32", "INTEGER_LITERAL_U64", "FLOAT_LITERAL",
  "FLOAT_LITERAL_32", "FLOAT_LITERAL_64", "BOOL_LITERAL", "decls", "module", "type_builtin",
  "type_qualified", "type_specifier", "qualifier", "identifier", "identifier_complex",
  "identifier_simple", "self", "identifier_or_self", "decl", "decl_var", "decl_alias",
  "decl_import_module", "decl_import", "decl_function", "function_return_decl",
  "function_args_decl", "function_arg_decl", "function_param_list", "decl_struct",
  "struct_decl_var", "struct_decl_vars", "var_type_spec", "statement_list",
  "statement_list_or_empty", "statement", "expression", "unaryexp", "binaryexp", "literal",
  "function_call_args", "struct_init", "struct_member_init_list", "struct_member_init",
  "decl_type_functions_scope", "decl_type_function_list", "type_array">>

YYNTOKEN == 73
YY_MAX_SHIFT == 116
YY_MIN_SHIFTREDUCE == 200
YY_MAX_SHIFTREDUCE == 318
YY_ERROR_ACTION == 319
YY_MIN_REDUCE == 322

\* The code of a symbol.
Code == [name \in {yyTokenName[i] : i \in 1..Len(yyTokenName)} |->
           CHOOSE code \in 0..(Len(yyTokenName) - 1) : At(yyTokenName, code) = name]

\* What to do, by offset of the state and code of the symbol.
yy_action == <<
  56, 35, 320, 107, 114, 367, 88, 89, 338, 332, 331, 51, 90, 85, 370, 14, 12, 357, 332, 331, 15,
  16, 94, 13, 94, 87, 207, 208, 211, 217, 218, 219, 220, 221, 222, 223, 224, 225, 226, 227, 337,
  114, 208, 354, 53, 338, 332, 331, 83, 424, 1, 423, 43, 30, 397, 332, 104, 6, 54, 52, 304, 305,
  306, 307, 308, 309, 310, 311, 312, 313, 314, 315, 316, 14, 12, 207, 208, 337, 15, 16, 374, 13,
  32, 58, 207, 208, 211, 217, 218, 219, 220, 221, 222, 223, 224, 225, 226, 227, 25, 24, 23, 109,
  262, 34, 33, 110, 39, 388, 114, 32, 111, 30, 338, 332, 331, 362, 86, 230, 304, 305, 306, 307,
  308, 309, 310, 311, 312, 313, 314, 315, 316, 395, 42, 32, 14, 12, 108, 299, 48, 15, 16, 372, 13,
  32, 337, 207, 208, 211, 217, 218, 219, 220, 221, 222, 223, 224, 225, 226, 227, 319, 319, 319,
  319, 319, 319, 27, 26, 25, 24, 23, 233, 115, 30, 230, 363, 39, 32, 208, 350, 304, 305, 306, 307,
  308, 309, 310, 311, 312, 313, 314, 315, 316, 108, 56, 368, 114, 107, 95, 109, 105, 332, 84, 335,
  396, 114, 92, 112, 369, 338, 332, 331, 331, 361, 244, 331, 50, 211, 58, 3, 91, 379, 61, 392, 393,
  391, 230, 394, 106, 114, 208, 95, 337, 105, 332, 84, 335, 396, 10, 92, 276, 337, 10, 373, 277,
  108, 38, 57, 242, 238, 49, 55, 3, 93, 379, 61, 392, 393, 391, 36, 394, 80, 356, 47, 7, 337, 8, 9,
  44, 28, 29, 263, 259, 243, 22, 21, 17, 19, 18, 20, 27, 26, 25, 24, 23, 44, 28, 29, 11, 40, 39,
  22, 21, 17, 19, 18, 20, 27, 26, 25, 24, 23, 39, 4, 116, 5, 2, 39, 207, 208, 260, 217, 218, 219,
  220, 221, 222, 223, 224, 225, 226, 227, 37, 41, 231, 59, 45, 261, 318, 46, 44, 28, 29, 237, 58,
  31, 22, 21, 17, 19, 18, 20, 27, 26, 25, 24, 23, 44, 28, 29, 236, 113, 39, 22, 21, 17, 19, 18, 20,
  27, 26, 25, 24, 23, 60, 439, 321, 321, 321, 39, 321, 321, 258, 321, 321, 114, 321, 95, 321, 105,
  332, 84, 335, 396, 321, 92, 321, 321, 321, 321, 321, 321, 321, 321, 321, 321, 321, 321, 321, 268,
  378, 61, 392, 393, 391, 321, 394, 44, 28, 29, 321, 337, 321, 22, 21, 17, 19, 18, 20, 27, 26, 25,
  24, 23, 321, 321, 321, 321, 114, 39, 95, 321, 105, 332, 84, 335, 396, 321, 321, 114, 321, 95,
  321, 105, 332, 84, 335, 396, 321, 321, 321, 321, 321, 321, 69, 392, 393, 391, 82, 394, 321, 321,
  321, 321, 337, 69, 392, 393, 391, 81, 394, 321, 321, 321, 321, 337, 114, 321, 95, 321, 105, 332,
  84, 335, 396, 321, 321, 114, 321, 95, 321, 105, 332, 84, 335, 396, 321, 321, 321, 321, 321, 321,
  62, 392, 393, 391, 321, 394, 321, 321, 321, 321, 337, 65, 392, 393, 391, 321, 394, 321, 114, 321,
  95, 337, 105, 332, 84, 335, 396, 321, 321, 114, 321, 95, 321, 105, 332, 84, 335, 396, 321, 321,
  321, 321, 321, 321, 66, 392, 393, 391, 321, 394, 321, 321, 321, 321, 337, 63, 392, 393, 391, 321,
  394, 321, 321, 321, 321, 337, 114, 321, 95, 321, 105, 332, 84, 335, 396, 321, 321, 114, 321, 95,
  321, 105, 332, 84, 335, 396, 321, 321, 321, 321, 321, 321, 67, 392, 393, 391, 321, 394, 321, 321,
  321, 321, 337, 68, 392, 393, 391, 321, 394, 321, 114, 321, 95, 337, 105, 332, 84, 335, 396, 321,
  321, 114, 321, 95, 321, 105, 332, 84, 335, 396, 321, 321, 321, 321, 321, 321, 96, 392, 393, 391,
  321, 394, 321, 321, 321, 321, 337, 97, 392, 393, 391, 321, 394, 321, 321, 321, 321, 337, 114,
  321, 95, 321, 105, 332, 84, 335, 396, 321, 321, 114, 321, 95, 321, 105, 332, 84, 335, 396, 321,
  321, 321, 321, 321, 321, 98, 392, 393, 391, 321, 394, 321, 321, 321, 321, 337, 99, 392, 393, 391,
  321, 394, 321, 114, 321, 95, 337, 105, 332, 84, 335, 396, 321, 321, 114, 321, 95, 321, 105, 332,
  84, 335, 396, 321, 321, 321, 321, 321, 321, 100, 392, 393, 391, 321, 394, 321, 321, 321, 321,
  337, 71, 392, 393, 391, 321, 394, 321, 321, 321, 321, 337, 114, 321, 95, 321, 105, 332, 84, 335,
  396, 321, 321, 114, 321, 95, 321, 105, 332, 84, 335, 396, 321, 321, 321, 321, 321, 321, 72, 392,
  393, 391, 321, 394, 321, 321, 321, 321, 337, 73, 392, 393, 391, 321, 394, 321, 114, 321, 95, 337,
  105, 332, 84, 335, 396, 321, 321, 114, 321, 95, 321, 105, 332, 84, 335, 396, 321, 321, 321, 321,
  321, 321, 74, 392, 393, 391, 321, 394, 321, 321, 321, 321, 337, 75, 392, 393, 391, 321, 394, 321,
  321, 321, 321, 337, 114, 321, 95, 321, 105, 332, 84, 335, 396, 321, 321, 114, 321, 95, 321, 105,
  332, 84, 335, 396, 321, 321, 321, 321, 321, 321, 76, 392, 393, 391, 321, 394, 321, 321, 321, 321,
  337, 101, 392, 393, 391, 321, 394, 321, 114, 321, 95, 337, 105, 332, 84, 335, 396, 321, 321, 114,
  321, 95, 321, 105, 332, 84, 335, 396, 321, 321, 321, 321, 321, 321, 102, 392, 393, 391, 321, 394,
  321, 321, 321, 321, 337, 103, 392, 393, 391, 321, 394, 321, 321, 321, 321, 337, 114, 321, 95,
  321, 105, 332, 84, 335, 396, 321, 321, 114, 321, 95, 321, 105, 332, 84, 335, 396, 321, 321, 321,
  321, 321, 321, 78, 392, 393, 391, 321, 394, 321, 321, 321, 321, 337, 79, 392, 393, 391, 321, 394,
  321, 114, 321, 95, 337, 105, 332, 84, 335, 396, 321, 321, 114, 321, 95, 321, 105, 332, 84, 335,
  396, 321, 321, 321, 321, 321, 321, 70, 392, 393, 391, 321, 394, 321, 321, 321, 321, 337, 77, 392,
  393, 391, 321, 394, 321, 321, 321, 321, 337, 114, 321, 95, 321, 105, 332, 84, 335, 396, 321, 29,
  321, 321, 321, 22, 21, 17, 19, 18, 20, 27, 26, 25, 24, 23, 321, 64, 392, 393, 391, 39, 394, 321,
  321, 321, 321, 337, 22, 21, 17, 19, 18, 20, 27, 26, 25, 24, 23, 321, 321, 322, 321, 324, 39, 328,
  326, 321, 321, 321, 321, 325, 321, 321, 321, 321, 321, 321, 321, 321, 321, 321, 321, 321, 321,
  321, 327>>

\* The symbol an entry of yy_action is for.
yy_lookahead == <<
  78, 73, 74, 81, 75, 89, 77, 97, 79, 80, 81, 81, 97, 91, 92, 15, 16, 79, 80, 81, 20, 21, 81, 23,
  81, 87, 26, 27, 28, 29, 30, 31, 32, 33, 34, 35, 36, 37, 38, 39, 111, 75, 27, 77, 81, 79, 80, 81,
  107, 108, 50, 108, 45, 53, 79, 80, 81, 57, 58, 59, 60, 61, 62, 63, 64, 65, 66, 67, 68, 69, 70,
  71, 72, 15, 16, 26, 27, 111, 20, 21, 76, 23, 78, 55, 26, 27, 28, 29, 30, 31, 32, 33, 34, 35, 36,
  37, 38, 39, 16, 17, 18, 81, 44, 47, 48, 49, 24, 76, 75, 78, 77, 53, 79, 80, 81, 95, 96, 23, 60,
  61, 62, 63, 64, 65, 66, 67, 68, 69, 70, 71, 72, 76, 45, 78, 15, 16, 42, 51, 52, 20, 21, 76, 23,
  78, 111, 26, 27, 28, 29, 30, 31, 32, 33, 34, 35, 36, 37, 38, 39, 8, 9, 10, 11, 12, 13, 14, 15,
  16, 17, 18, 44, 45, 53, 23, 76, 24, 78, 27, 28, 60, 61, 62, 63, 64, 65, 66, 67, 68, 69, 70, 71,
  72, 42, 78, 89, 75, 81, 77, 81, 79, 80, 81, 82, 83, 75, 85, 77, 92, 79, 80, 81, 50, 95, 51, 53,
  110, 28, 55, 98, 99, 100, 101, 102, 103, 104, 23, 106, 90, 75, 27, 77, 111, 79, 80, 81, 82, 83,
  52, 85, 54, 111, 52, 82, 54, 42, 52, 81, 54, 51, 52, 93, 98, 99, 100, 101, 102, 103, 104, 53,
  106, 81, 81, 50, 1, 111, 1, 1, 2, 3, 4, 51, 44, 51, 8, 9, 10, 11, 12, 13, 14, 15, 16, 17, 18, 2,
  3, 4, 45, 50, 24, 8, 9, 10, 11, 12, 13, 14, 15, 16, 17, 18, 24, 53, 25, 53, 50, 24, 26, 27, 44,
  29, 30, 31, 32, 33, 34, 35, 36, 37, 38, 39, 43, 50, 23, 46, 45, 44, 41, 45, 2, 3, 4, 44, 55, 56,
  8, 9, 10, 11, 12, 13, 14, 15, 16, 17, 18, 2, 3, 4, 44, 40, 24, 8, 9, 10, 11, 12, 13, 14, 15, 16,
  17, 18, 45, 0, 112, 112, 112, 24, 112, 112, 44, 112, 112, 75, 112, 77, 112, 79, 80, 81, 82, 83,
  112, 85, 112, 112, 112, 112, 112, 112, 112, 112, 112, 112, 112, 112, 112, 54, 100, 101, 102, 103,
  104, 112, 106, 2, 3, 4, 112, 111, 112, 8, 9, 10, 11, 12, 13, 14, 15, 16, 17, 18, 112, 112, 112,
  112, 75, 24, 77, 112, 79, 80, 81, 82, 83, 112, 112, 75, 112, 77, 112, 79, 80, 81, 82, 83, 112,
  112, 112, 112, 112, 112, 101, 102, 103, 104, 105, 106, 112, 112, 112, 112, 111, 101, 102, 103,
  104, 105, 106, 112, 112, 112, 112, 111, 75, 112, 77, 112, 79, 80, 81, 82, 83, 112, 112, 75, 112,
  77, 112, 79, 80, 81, 82, 83, 112, 112, 112, 112, 112, 112, 101, 102, 103, 104, 112, 106, 112,
  112, 112, 112, 111, 101, 102, 103, 104, 112, 106, 112, 75, 112, 77, 111, 79, 80, 81, 82, 83, 112,
  112, 75, 112, 77, 112, 79, 80, 81, 82, 83, 112, 112, 112, 112, 112, 112, 101, 102, 103, 104, 112,
  106, 112, 112, 112, 112, 111, 101, 102, 103, 104, 112, 106, 112, 112, 112, 112, 111, 75, 112, 77,
  112, 79, 80, 81, 82, 83, 112, 112, 75, 112, 77, 112, 79, 80, 81, 82, 83, 112, 112, 112, 112, 112,
  112, 101, 102, 103, 104, 112, 106, 112, 112, 112, 112, 111, 101, 102, 103, 104, 112, 106, 112,
  75, 112, 77, 111, 79, 80, 81, 82, 83, 112, 112, 75, 112, 77, 112, 79, 80, 81, 82, 83, 112, 112,
  112, 112, 112, 112, 101, 102, 103, 104, 112, 106, 112, 112, 112, 112, 111, 101, 102, 103, 104,
  112, 106, 112, 112, 112, 112, 111, 75, 112, 77, 112, 79, 80, 81, 82, 83, 112, 112, 75, 112, 77,
  112, 79, 80, 81, 82, 83, 112, 112, 112, 112, 112, 112, 101, 102, 103, 104, 112, 106, 112, 112,
  112, 112, 111, 101, 102, 103, 104, 112, 106, 112, 75, 112, 77, 111, 79, 80, 81, 82, 83, 112, 112,
  75, 112, 77, 112, 79, 80, 81, 82, 83, 112, 112, 112, 112, 112, 112, 101, 102, 103, 104, 112, 106,
  112, 112, 112, 112, 111, 101, 102, 103, 104, 112, 106, 112, 112, 112, 112, 111, 75, 112, 77, 112,
  79, 80, 81, 82, 83, 112, 112, 75, 112, 77, 112, 79, 80, 81, 82, 83, 112, 112, 112, 112, 112, 112,
  101, 102, 103, 104, 112, 106, 112, 112, 112, 112, 111, 101, 102, 103, 104, 112, 106, 112, 75,
  112, 77, 111, 79, 80, 81, 82, 83, 112, 112, 75, 112, 77, 112, 79, 80, 81, 82, 83, 112, 112, 112,
  112, 112, 112, 101, 102, 103, 104, 112, 106, 112, 112, 112, 112, 111, 101, 102, 103, 104, 112,
  106, 112, 112, 112, 112, 111, 75, 112, 77, 112, 79, 80, 81, 82, 83, 112, 112, 75, 112, 77, 112,
  79, 80, 81, 82, 83, 112, 112, 112, 112, 112, 112, 101, 102, 103, 104, 112, 106, 112, 112, 112,
  112, 111, 101, 102, 103, 104, 112, 106, 112, 75, 112, 77, 111, 79, 80, 81, 82, 83, 112, 112, 75,
  112, 77, 112, 79, 80, 81, 82, 83, 112, 112, 112, 112, 112, 112, 101, 102, 103, 104, 112, 106,
  112, 112, 112, 112, 111, 101, 102, 103, 104, 112, 106, 112, 112, 112, 112, 111, 75, 112, 77, 112,
  79, 80, 81, 82, 83, 112, 112, 75, 112, 77, 112, 79, 80, 81, 82, 83, 112, 112, 112, 112, 112, 112,
  101, 102, 103, 104, 112, 106, 112, 112, 112, 112, 111, 101, 102, 103, 104, 112, 106, 112, 75,
  112, 77, 111, 79, 80, 81, 82, 83, 112, 112, 75, 112, 77, 112, 79, 80, 81, 82, 83, 112, 112, 112,
  112, 112, 112, 101, 102, 103, 104, 112, 106, 112, 112, 112, 112, 111, 101, 102, 103, 104, 112,
  106, 112, 112, 112, 112, 111, 75, 112, 77, 112, 79, 80, 81, 82, 83, 112, 4, 112, 112, 112, 8, 9,
  10, 11, 12, 13, 14, 15, 16, 17, 18, 112, 101, 102, 103, 104, 24, 106, 112, 112, 112, 112, 111, 8,
  9, 10, 11, 12, 13, 14, 15, 16, 17, 18, 112, 112, 84, 112, 86, 24, 88, 89, 112, 112, 112, 112, 94,
  112, 112, 112, 112, 112, 112, 112, 112, 112, 112, 112, 112, 112, 112, 109, 112, 112, 112, 112,
  112, 112, 112, 112, 112, 112, 112, 112, 112, 112, 112, 112, 112, 112, 112, 112, 112, 112, 112,
  112, 112, 112, 112, 112, 112, 112, 112, 112, 112, 112, 112>>

\* The offsets of the states, for terminal symbols and for others.
yy_shift_ofst == <<
  1103, 0, 0, 0, 119, 119, 58, 119, 119, 119, 119, 119, 119, 119, 119, 119, 119, 119, 119, 119,
  119, 119, 119, 119, 119, 119, 119, 119, 119, 119, 119, 281, 281, 281, 281, 278, 150, 49, 202, 49,
  15, 15, 94, 94, 94, 94, 94, 28, 15, 15, 162, 7, 15, 7, 15, 87, 188, 205, 15, 15, 15, 265, 282,
  327, 344, 404, 404, 404, 404, 404, 1033, 151, 151, 151, 151, 151, 151, 1056, 82, 82, 56, 185,
  189, 86, 161, 193, 197, 126, 212, 262, 264, 219, 227, 221, 242, 238, 277, 277, 277, 277, 277,
  277, 277, 277, 249, 251, 255, 280, 300, 283, 272, 288, 305, 286, 310, 318, 364>>

yy_reduce_ofst == <<
  -72, 120, 153, 299, 352, 363, 400, 411, 444, 455, 492, 503, 536, 547, 584, 595, 628, 639, 676,
  687, 720, 731, 768, 779, 812, 823, 860, 871, 904, 915, 952, -71, -34, 33, 129, 993, -78, -62,
  115, -25, -59, 20, 4, 31, 55, 65, 98, 105, -57, 117, -84, -90, -70, -85, -37, 137, 160, 157, 165,
  179, 180>>

\* What a state does when no entry is for the symbol.
yy_default == <<
  323, 376, 376, 377, 420, 420, 319, 319, 319, 319, 319, 319, 319, 319, 319, 319, 319, 319, 319,
  319, 319, 319, 319, 319, 319, 319, 319, 319, 319, 319, 319, 319, 319, 319, 319, 319, 371, 319,
  350, 319, 422, 319, 350, 350, 350, 350, 350, 319, 319, 319, 319, 389, 319, 389, 319, 375, 319,
  319, 319, 319, 319, 319, 319, 319, 319, 387, 386, 418, 425, 419, 401, 412, 411, 410, 409, 408,
  407, 400, 403, 402, 319, 319, 319, 319, 334, 319, 319, 319, 319, 319, 319, 319, 319, 319, 319,
  319, 417, 416, 415, 414, 413, 406, 405, 404, 331, 338, 319, 319, 351, 319, 319, 319, 319, 319,
  336, 319, 319>>

\* The left side of each rule, and how many symbols the right side has.
yyRuleInfo == <<
  <<73, 2>>, <<73, 0>>, <<84, 1>>, <<84, 1>>, <<84, 1>>, <<84, 1>>, <<84, 1>>, <<80, 1>>,
  <<81, 1>>, <<79, 1>>, <<79, 1>>, <<82, 1>>, <<83, 1>>, <<83, 1>>, <<77, 1>>, <<77, 1>>,
  <<77, 1>>, <<75, 1>>, <<75, 1>>, <<75, 1>>, <<75, 1>>, <<75, 1>>, <<75, 1>>, <<75, 1>>,
  <<75, 1>>, <<75, 1>>, <<75, 1>>, <<75, 1>>, <<78, 0>>, <<78, 1>>, <<78, 1>>, <<78, 2>>,
  <<76, 2>>, <<88, 3>>, <<87, 4>>, <<87, 1>>, <<86, 5>>, <<86, 5>>, <<94, 6>>, <<96, 3>>,
  <<96, 1>>, <<95, 3>>, <<93, 3>>, <<89, 7>>, <<109, 5>>, <<110, 2>>, <<110, 1>>, <<91, 3>>,
  <<91, 1>>, <<91, 0>>, <<92, 3>>, <<92, 2>>, <<90, 2>>, <<90, 0>>, <<99, 0>>, <<99, 1>>,
  <<98, 2>>, <<98, 1>>, <<100, 4>>, <<100, 2>>, <<100, 2>>, <<100, 3>>, <<100, 2>>, <<100, 3>>,
  <<85, 5>>, <<85, 5>>, <<97, 2>>, <<97, 0>>, <<101, 3>>, <<101, 1>>, <<101, 1>>, <<101, 1>>,
  <<101, 1>>, <<101, 3>>, <<101, 1>>, <<101, 3>>, <<101, 4>>, <<101, 6>>, <<103, 3>>, <<103, 3>>,
  <<103, 3>>, <<103, 3>>, <<103, 3>>, <<103, 3>>, <<103, 3>>, <<103, 3>>, <<103, 3>>, <<103, 3>>,
  <<103, 3>>, <<103, 3>>, <<103, 3>>, <<102, 2>>, <<102, 2>>, <<102, 2>>, <<102, 2>>, <<102, 2>>,
  <<105, 3>>, <<105, 1>>, <<105, 0>>, <<106, 4>>, <<107, 0>>, <<107, 3>>, <<107, 1>>, <<108, 3>>,
  <<104, 1>>, <<104, 1>>, <<104, 1>>, <<104, 1>>, <<104, 1>>, <<104, 1>>, <<104, 1>>, <<104, 1>>,
  <<104, 1>>, <<104, 1>>, <<104, 1>>, <<104, 1>>, <<104, 1>>, <<74, 2>>, <<111, 3>>>>
=============================================================================
