------------------------------- MODULE BinaryFile -------------------------------
(* The file between the earlier compiler and its virtual machine:             *)
(* ByteCodeBuilder::writeModuleInfo (src/lib/yal/bytecode/bytecodebuilder.cpp)*)
(* writes it, yalvm_binary_load (src/lib/yalvm/yalvm_binary.c) finds its way  *)
(* in it by the counts and sizes in the headers.                              *)
(*                                                                            *)
(* A file is a sequence of items, each of so many bytes: a header, the size   *)
(* of a text, a text, a name or a block of instructions.  What a reader takes *)
(* for an item must begin where it looks.  All texts and names are Chars long.*)
EXTENDS Integers, Sequences

CONSTANT Chars            \* bound: characters of a text or a name

U8 == 256                 \* values of a byte and of a field of 16 bits
U16 == U8 * U8

Item(what, val, bytes) == [what |-> what, val |-> val, bytes |-> bytes]
HeaderBytes == 24
StaticBytes == 8
FunctionBytes == 14
InstBytes == 4
\* The bytes of a text with its size in front and the 0 behind.
TextBytes == 4 + Chars + 1

field16(n) == n % U16

(* Instructions are four bytes (yalvm_bytecode.h): the operation, then three  *)
(* registers, or one register and a value of 16 bits, or a value of 24 bits.  *)
(* A value that is too long loses its upper bits.                             *)
Valued == {"LOAD_VALUE", "LOAD_CONST_32", "LOAD_STRING", "LOAD_FUNCTION", "STRING_ALLOC", "LOAD_GLOBAL_32",
           "LOAD_GLOBAL_PTR", "STORE_GLOBAL_32", "STORE_GLOBAL_PTR", "OBJECT_RELEASE", "JUMP_TRUE", "JUMP_FALSE"}
byte(n, i) == (n \div U8 ^ i) % U8
pack_registers(op, a, b, c) == <<op, byte(a, 0), byte(b, 0), byte(c, 0)>>
pack_dst_value(op, a, v) == <<op, byte(a, 0), byte(v, 0), byte(v, 1)>>
pack_value_signed(op, v) == <<op, byte(v, 0), byte(v, 1), byte(v, 2)>>
Packed(inst) ==
  CASE inst[1] = "JUMP" -> pack_value_signed(inst[1], inst[3])
    [] inst[1] \in Valued -> pack_dst_value(inst[1], inst[2], inst[3])
    [] OTHER -> pack_registers(inst[1], inst[2], inst[3], inst[4])

\* As the handler of each operation unpacks it: only two jumps count as signed.
Signed(n, values) == IF n < values \div 2 THEN n ELSE n - values
unpack_registers(w) == w
unpack_dst_value(w) == <<w[1], w[2], w[3] + U8 * w[4], 0>>
unpack_dst_value_signed(w) == <<w[1], w[2], Signed(w[3] + U8 * w[4], U16), 0>>
unpack_value_signed(w) == <<w[1], 0, Signed(w[2] + U8 * w[3] + U16 * w[4], U8 * U16), 0>>
Unpacked(w) ==
  CASE w[1] = "JUMP" -> unpack_value_signed(w)
    [] w[1] = "JUMP_TRUE" -> unpack_dst_value_signed(w)
    [] w[1] \in Valued -> unpack_dst_value(w)
    [] OTHER -> unpack_registers(w)

RECURSIVE Concat(_)
Concat(qs) == IF qs = <<>> THEN <<>> ELSE Head(qs) \o Concat(Tail(qs))

(* Writing.  A module is a record of its strings, numbers of globals, static  *)
(* code init and dtor and functions, the global function last.                *)
CodeSize(code) == field16(Len(code))
Code(code) == IF code = <<>> THEN <<>> ELSE <<Item("code", [i \in DOMAIN code |-> Packed(code[i])], InstBytes * Len(code))>>
Static(b) == <<Item("static", [size |-> CodeSize(b.code), n |-> b.n], StaticBytes)>> \o Code(b.code)
Function(f) ==
  <<Item("function", [size |-> CodeSize(f.code), n |-> f.n, args |-> f.args, native |-> f.native,
                      name_len |-> Chars + 1], FunctionBytes),
    Item("name", f.name, Chars + 1)>> \o Code(f.code)
Header(m) ==
  Item("header",
       [n_constants32 |-> field16(Len(m.constants32)), n_functions |-> field16(Len(m.funs)), n_strings |-> field16(Len(m.strings)),
        strings_size |-> field16(Len(m.strings) * TextBytes), globals |-> m.globals,
        static_size |-> field16(2 * (StaticBytes \div InstBytes) + CodeSize(m.init.code) + CodeSize(m.dtor.code))],
       HeaderBytes)
\* What the builder checks before and while it writes.
Accepted(m) ==
  /\ Len(m.constants32) < U16 - 1
  /\ Len(m.strings) < U16 - 1 /\ Len(m.strings) * TextBytes < U16 - 1
  /\ \A c \in DOMAIN m.globals : m.globals[c] < U16 - 1
  /\ Len(m.funs) - 1 < U16 - 1
  /\ Len(m.init.code) < U16 - 1 /\ Len(m.dtor.code) < U16 - 1
  /\ \A i \in DOMAIN m.funs : Len(m.funs[i].code) < U16 - 1
Write(m) ==
  <<Header(m)>> \o [i \in DOMAIN m.constants32 |-> Item("const", m.constants32[i], 4)]
  \o Concat([i \in DOMAIN m.strings |-> <<Item("size", Chars, 4), Item("text", m.strings[i], Chars + 1)>>])
  \o Static(m.init) \o Static(m.dtor) \o Concat([i \in DOMAIN m.funs |-> Function(m.funs[i])])

(* Loading.                                                                   *)
Begin(file, i) == LET b[k \in 1 .. i] == IF k = 1 THEN 0 ELSE b[k - 1] + file[k - 1].bytes IN b[i]
FileEnd(file) == Begin(file, Len(file) + 1)
Junk == Item("junk", 0, 0)
\* What begins at an offset of the file.
At(file, off) ==
  LET here == {i \in DOMAIN file : Begin(file, i) = off}
  IN IF here = {} THEN Junk ELSE file[CHOOSE i \in here : TRUE]
Is(item, what) == item.what = what

offset_constant32(i) == HeaderBytes + 4 * i
offset_strings(h) == offset_constant32(h.n_constants32)
offset_static_init(h) == offset_strings(h) + h.strings_size
offset_functions(h) == offset_static_init(h) + h.static_size * InstBytes

\* The machine counts the instructions of the whole file; 0 is no code.
FirstInst(file, off) ==
  LET before == {i \in DOMAIN file : Begin(file, i) < off /\ Is(file[i], "code")}
      n[i \in 0 .. Len(file)] == IF i = 0 THEN 0 ELSE n[i - 1] + (IF i \in before THEN Len(file[i].val) ELSE 0)
  IN n[Len(file)] + 1
Start(file, size, off) == IF size = 0 THEN 0 ELSE FirstInst(file, off)

Strings(file, h) ==
  LET off[i \in 1 .. h.n_strings + 1] ==
        IF i = 1 THEN offset_strings(h) ELSE off[i - 1] + 4 + At(file, off[i - 1]).val + 1
  IN [i \in 1 .. h.n_strings |-> At(file, off[i] + 4).val]

Block(file, off, hdr, bytes) ==
  [start |-> Start(file, hdr.size, off + bytes), n |-> hdr.n]
\* The functions one after the other, or an item that is none where one should be.
RECURSIVE Functions(_, _, _, _)
Functions(file, off, n, natives) ==
  LET f == At(file, off)
      name == At(file, off + FunctionBytes).val
      rest == Functions(file, off + FunctionBytes + f.val.name_len + InstBytes * f.val.size, n - 1, natives)
      read == [start |-> Start(file, f.val.size, off + FunctionBytes + f.val.name_len), n |-> f.val.n,
               name |-> name, args |-> f.val.args, native |-> f.val.native]
  IN IF n = 0 THEN <<>>
     ELSE IF off >= FileEnd(file) \/ ~Is(f, "function") \/ (f.val.native /\ name \notin natives) THEN <<Junk>>
     ELSE <<read>> \o rest

Refused == [loaded |-> FALSE]
\* natives are the functions of the host the loader finds by name.
Load(file, natives) ==
  LET h == At(file, 0).val
      initAt == offset_static_init(h)
      init == At(file, initAt)
      dtorAt == initAt + StaticBytes + init.val.size * InstBytes
      dtor == At(file, dtorAt)
      funs == Functions(file, offset_functions(h), h.n_functions, natives)
  IN IF ~Is(init, "static") \/ ~Is(dtor, "static") THEN Refused
     ELSE IF Junk \in {funs[i] : i \in DOMAIN funs} THEN Refused
     ELSE [loaded |-> TRUE, strings |-> Strings(file, h),
           constants32 |-> [i \in 1 .. h.n_constants32 |-> At(file, offset_constant32(i - 1)).val], globals |-> h.globals, funs |-> funs,
           init |-> Block(file, initAt, init.val, StaticBytes), dtor |-> Block(file, dtorAt, dtor.val, StaticBytes),
           text |-> Concat([i \in DOMAIN file |->
                              IF Is(file[i], "code") THEN [n \in DOMAIN file[i].val |-> Unpacked(file[i].val[n])]
                              ELSE <<>>])]
================================================================================
