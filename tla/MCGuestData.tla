----------------------------- MODULE MCGuestData -----------------------------
(***************************************************************************)
(* Profiles of GuestFunctions whose instructions are on data.  With 2 bits *)
(* in a byte an i32 is below 256, a page has 16 bytes and a table less     *)
(* than 8 references.                                                      *)
(***************************************************************************)
EXTENDS MCGuestFunctions

Load(t, w, s, off) == [op |-> "load", t |-> t, w |-> w, s |-> s, off |-> off, align |-> 0]
Store(t, w, off) == [op |-> "store", t |-> t, w |-> w, off |-> off, align |-> 0]
Seg(op, seg) == [op |-> op, seg |-> seg]
Num(op, f, t) == [op |-> op, f |-> f, t |-> t]
Extend(t, from) == [op |-> "extend", t |-> t, from |-> from]
Convert(f, t, from) == [op |-> "convert", f |-> f, t |-> t, from |-> from]
AtConst(n) == [op |-> "const", n |-> n]
AtGlobal(x) == [op |-> "global.get", x |-> x]

(* A memory of one page, which grows to three, of which two are reserved. *)
Memory == [min |-> 1, cap |-> 2, max |-> 3, shared |-> FALSE, alloc |-> "none", image |-> "none", bytes |-> <<>>]
Counting == [k \in 1..16 |-> k % 4]
Active(offset, bytes) == [active |-> TRUE, offset |-> offset, bytes |-> bytes]
Passive(bytes) == [active |-> FALSE, offset |-> AtConst(0), bytes |-> bytes]

Gets(n) == [k \in 1..n |-> X("local.get", k)]
Args(t, ns) == {<<<<t, n>>>> : n \in ns}
Pairs(t, ns) == {<<<<t, m>>, <<t, n>>>> : m, n \in ns}
OnData(f, mod, prefix, alphabet, bound, args) ==
    [Profile(<<f, SixRef>>, <<>>, alphabet, bound, args) EXCEPT !.prefix = prefix, !.mod = mod @@ @, !.upper = 2]

(* Loads and stores around the end of the memory, before and after it has *)
(* grown, and with an offset that takes the address past 32 bits.          *)
Accesses ==
    OnData(F(<<"i32">>, <<"i32">>, <<>>, <<>>, 1), [memory |-> Memory, datas |-> <<Active(AtConst(0), Counting)>>],
         <<X("local.get", 1)>>,
         {Load("i32", 4, FALSE, 0), Load("i32", 1, TRUE, 15), Store("i32", 2, 14), Store("i64", 8, 8),
          Store("i32", 1, 250), [Load("i32", 2, FALSE, 0) EXCEPT !.align = 2], C("i64", 65000), I("memory.grow"),
          X("local.get", 1), I("end")},
         7, Args("i32", {0, 1, 12, 13, 255}))
Widths ==
    OnData(F(<<"i32">>, <<"i64">>, <<>>, <<>>, 1), [memory |-> Memory, datas |-> <<Active(AtConst(0), Counting)>>],
           <<X("local.get", 1)>>,
           {Load("i64", 1, TRUE, 0), Load("i64", 2, TRUE, 0), Load("i64", 4, TRUE, 0), Load("i64", 8, FALSE, 0),
            Load("f32", 4, FALSE, 0), Store("f32", 4, 2), Store("i64", 1, 2), Store("i64", 4, 1), C("i64", 40000),
            X("local.get", 1), I("end")},
           7, Args("i32", {1, 2, 8, 9, 14}))

(* Growth, within what is reserved and beyond it, by too much, and as far  *)
(* as the host's allocator lets it.                                        *)
Growth(memory) ==
    OnData(F(<<"i32">>, <<"i32">>, <<>>, <<>>, 1), [memory |-> memory], <<>>,
         {X("local.get", 1), C("i32", 1), I("memory.grow"), I("memory.size"), I("drop"), Store("i32", 4, 28),
          Load("i32", 4, FALSE, 28), I("end")},
         6, Args("i32", {0, 1, 2, 3, 127, 255}))
GrowthReserved == Growth([Memory EXCEPT !.cap = 3])
GrowthMoving == Growth(Memory)
GrowthShared == Growth([Memory EXCEPT !.shared = TRUE, !.cap = 3])
GrowthAllocated == Growth([Memory EXCEPT !.alloc = "grows", !.cap = 1])
GrowthRefused == Growth([Memory EXCEPT !.alloc = "refuses", !.cap = 1])

(* Three operands, twice: where to, where from and how much. *)
Three(ns) == {<<I32(n[1]), I32(n[2]), I32(n[3])>> : n \in ns}
Ternary == F(<<"i32", "i32", "i32">>, <<>>, <<>>, <<>>, 1)
Bulk ==
    OnData(Ternary, [memory |-> Memory, datas |-> <<Passive(<<3, 2, 1>>), Active(AtConst(4), <<1, 3>>), Active(AtConst(0), <<2>>)>>],
         Gets(3) \o Gets(3),
         {I("memory.copy"), I("memory.fill"), Seg("memory.init", 1), Seg("memory.init", 3), Seg("data.drop", 1),
          Seg("data.drop", 3), Seg("memory.init", 4), I("end")},
         10, Three({<<0, 1, 3>>, <<1, 0, 3>>, <<15, 0, 1>>, <<15, 0, 2>>, <<1, 0, 255>>, <<16, 3, 0>>, <<17, 0, 0>>,
                    <<0, 14, 3>>}))

(* Tables: one of two functions that may hold five, and one without limit  *)
(* that the last element does not fit.                                     *)
Elem(mode, x, offset, init) == [mode |-> mode, type |-> "funcref", table |-> x, offset |-> offset, init |-> init]
TwoTables ==
    [tables |-> <<[min |-> 2, max |-> 5, type |-> "funcref", init |-> 0],
                  [min |-> 3, max |-> NoMax, type |-> "funcref", init |-> 2]>>,
     elems  |-> <<Elem("active", 1, AtConst(1), <<2>>), Elem("passive", 1, AtConst(0), <<2, 0, 1>>),
                  Elem("active", 2, AtConst(0), <<1, 0>>), Elem("active", 2, AtConst(2), <<1, 1>>), Elem("active", 2, AtConst(2), <<1>>)>>]
TableBulks ==
    OnData(Ternary, TwoTables, Gets(3) \o Gets(3),
         {[op |-> "table.copy", x |-> 1, y |-> 2], [op |-> "table.copy", x |-> 2, y |-> 2],
          [op |-> "table.copy", x |-> 2, y |-> 3], [op |-> "table.init", seg |-> 2, x |-> 2],
          [op |-> "table.init", seg |-> 1, x |-> 1], [op |-> "table.init", seg |-> 6, x |-> 1],
          Seg("elem.drop", 2), Seg("elem.drop", 6), I("end")},
         10, Three({<<0, 1, 2>>, <<1, 0, 2>>, <<0, 0, 3>>, <<1, 0, 255>>, <<3, 3, 0>>, <<4, 0, 0>>, <<2, 2, 1>>}))
TableAccesses ==
    OnData(F(<<"i32">>, <<"i32">>, <<>>, <<>>, 1), TwoTables, <<>>,
         {X("local.get", 1), X("table.get", 1), X("table.set", 1), X("table.grow", 1), X("table.grow", 2),
          X("table.fill", 2), X("table.size", 1), [op |-> "ref.func", func |-> 2], I("ref.is_null"),
          Call0("call_indirect", 0, T(<<>>, <<"i32">>), FALSE), I("end")},
         6, Args("i32", {0, 1, 2, 3, 5, 255}))

(* Globals of every size; a host's value may have an upper half. *)
Global(t, mutable, init) == [t |-> t, mutable |-> mutable, init |-> init]
Globals ==
    OnData(F(<<"i32">>, <<"v128", "i32">>, <<>>, <<>>, 1),
         [globals |-> <<Global("i32", TRUE, 7), Global("v128", TRUE, <<5, 6>>), Global("i64", FALSE, 300)>>], <<>>,
         {X("local.get", 1), X("global.get", 1), X("global.set", 1), X("global.get", 2), X("global.set", 2),
          X("global.set", 3), X("global.get", 4), C("v128", <<8, 9>>), Eqz("i32"), I("select"), I("end")},
         6, Args("i32", {0, 3}))

(* Integers, at the limits of their range and of a shift. *)
IntegerOps ==
    {"add", "sub", "mul", "div_s", "div_u", "rem_s", "rem_u", "and", "or", "xor", "shl", "shr_s", "shr_u", "rotl", "rotr"}
IntegerCompares == {"eq", "ne", "lt_s", "lt_u", "gt_s", "gt_u", "le_s", "le_u", "ge_s", "ge_u"}
Nums(op, fs, t) == {Num(op, f, t) : f \in fs}
Extended(t) == {Convert(f, "i64", t) : f \in {"extend_s", "extend_u"}}
IntegersOf(t, ns) ==
    OnData(F(<<t, t>>, <<t>>, <<>>, <<>>, 1), <<>>, Gets(2),
           Nums("binary", IntegerOps, t) \cup Nums("unary", {"clz", "ctz", "popcnt"}, t) \cup {I("end")}, 5, Pairs(t, ns))
Integers32 == IntegersOf("i32", {0, 1, 3, 9, 127, 128, 255})
Integers64 == IntegersOf("i64", {0, 1, 17, 200, 32767, 32768, 65535})
IntegersCompared(t, ns) ==
    OnData(F(<<t, t>>, <<"i32">>, <<>>, <<>>, 1), <<>>, Gets(2), Nums("compare", IntegerCompares, t) \cup {I("end")}, 4,
           Pairs(t, ns))
IntegersAlone(t, froms, ns) ==
    OnData(F(<<t>>, <<"i64">>, <<>>, <<>>, 1), <<>>, Gets(1),
           Nums("unary", {"clz", "ctz", "popcnt"}, t) \cup {Extend(t, from) : from \in froms} \cup Extended("i32")
           \cup {Eqz("i32"), Eqz("i64"), Convert("wrap", "i32", "i64"), I("end")},
           4, Args(t, ns))
Compared32 == IntegersCompared("i32", {0, 1, 127, 128, 255})
Compared64 == IntegersCompared("i64", {0, 1, 200, 32768, 65535})
Alone32 == IntegersAlone("i32", {"i8", "i16"}, {0, 1, 2, 10, 128, 255})
Alone64 == IntegersAlone("i64", {"i8", "i16", "i32"}, {0, 1, 2, 10, 200, 256, 32768, 65535})

(* Floating point: the numbers n/2 of a width, of both signs, infinities   *)
(* and NaN.                                                                *)
HalfOf(w, n) == IF n = 0 THEN 0 ELSE FromInteger(n, w) - 2^SignificandBits(w)
Signs(w, ns) == ns \cup {n + SignBit(w) : n \in ns}
Specials(w) == {Inf(w), CanonicalNaN(w), Inf(w) + 1}
FloatOps == {"add", "sub", "mul", "div", "min", "max", "copysign"}
FloatsOf(t, values) ==
    OnData(F(<<t, t>>, <<t>>, <<>>, <<>>, 1), <<>>, Gets(2), Nums("binary", FloatOps, t) \cup {I("end")}, 4, Pairs(t, values))
FloatsAlone(t, values) ==
    OnData(F(<<t>>, <<t>>, <<>>, <<>>, 1), <<>>, Gets(1),
           Nums("unary", {"abs", "neg", "ceil", "floor", "trunc", "nearest", "sqrt"}, t) \cup {I("end")}, 4, Args(t, values))
FloatsCompared(t, values) ==
    OnData(F(<<t, t>>, <<"i32">>, <<>>, <<>>, 1), <<>>, Gets(2),
           Nums("compare", {"eq", "ne", "lt", "gt", "le", "ge"}, t) \cup {I("end")}, 4, Pairs(t, values))
Values(w, ns) == Signs(w, Specials(w) \cup {HalfOf(w, n) : n \in ns})
Floats32 == FloatsOf("f32", Values(8, {0, 1, 3}))
Floats64 == FloatsOf("f64", Values(16, {0, 3}))
FloatAlone32 == FloatsAlone("f32", Values(8, {0, 1, 2, 3, 5, 6, 7}))
FloatAlone64 == FloatsAlone("f64", Values(16, {0, 1, 3, 5, 401}))
FloatCompared32 == FloatsCompared("f32", Values(8, {0, 3}))
FloatCompared64 == FloatsCompared("f64", Values(16, {0, 3}))

(* Conversions at the limits of what they convert to. *)
Truncations(from) ==
    {Convert(f, t, from) : f \in {"trunc_s", "trunc_u", "trunc_sat_s", "trunc_sat_u"}, t \in {"i32", "i64"}}
ToIntegers(from, values) ==
    OnData(F(<<from>>, <<"i64">>, <<>>, <<>>, 1), <<>>, Gets(1),
         Truncations(from) \cup {Convert("extend_u", "i64", "i32"), Convert("reinterpret", "i64", "f64"),
                                 Convert("promote", "f64", "f32"), Convert("demote", "f32", "f64"),
                                 Convert("reinterpret", "i32", "f32"), I("end")},
         5, Args(from, values))
Truncated32 ==
    ToIntegers("f32", Signs(8, Specials(8) \cup {HalfOf(8, 1)} \cup {FromInteger(n, 8) : n \in {0, 1, 112, 128, 224, 256, 32768, 65536}}))
Truncated64 ==
    ToIntegers("f64", Signs(16, Specials(16) \cup {HalfOf(16, n) : n \in {1, 255, 257, 511}}
                                \cup {FromInteger(n, 16) : n \in {0, 1, 127, 128, 129, 255, 256, 32752, 32768, 65504, 65536}}))
FromIntegers(from, values) ==
    OnData(F(<<from>>, <<"f64">>, <<>>, <<>>, 1), <<>>, Gets(1),
         {Convert(f, t, from) : f \in {"convert_s", "convert_u"}, t \in {"f32", "f64"}}
         \cup {Convert("promote", "f64", "f32"), Convert("reinterpret", "f32", "i32"), Convert("reinterpret", "f64", "i64"),
               Convert("wrap", "i32", "i64"), I("end")},
         5, Args(from, values))
From32 == FromIntegers("i32", {0, 1, 127, 128, 255})
From64 == FromIntegers("i64", {0, 1, 200, 3000, 32767, 32768, 65535})

(* Memory a host hands out with an image of what a module would have put   *)
(* in it, which holds for this module, for another, from before a start    *)
(* function ran, or from where a segment went elsewhere.                   *)
Image == <<0, 3, 2, 2>> \o [k \in 1..12 |-> 0]
Imaged(memory, datas, start) ==
    OnData(F(<<>>, <<"i32">>, <<>>, <<>>, 1),
         [memory |-> memory, datas |-> datas, start |-> start, globals |-> <<Global("i32", FALSE, 9)>>],
         <<C("i32", 0)>>, {Load("i32", 4, FALSE, 0), Store("i32", 1, 3), C("i32", 0), I("end")}, 5, {<<>>})
WithImage(image) == [Memory EXCEPT !.alloc = "grows", !.image = image, !.bytes = Image]
Segments == <<Active(AtConst(1), <<3, 1, 1>>), Active(AtConst(2), <<2, 2>>)>>
Images ==
    <<Imaged(WithImage("own"), Segments, FALSE),
      Imaged(WithImage("other"), <<Active(AtConst(0), <<1>>)>>, FALSE),
      Imaged(WithImage("own"), <<Active(AtConst(1), <<3, 2>>)>>, TRUE),
      Imaged(WithImage("own"), <<Active(AtGlobal(1), <<3, 2, 2>>)>>, FALSE),
      Imaged(WithImage("own"), <<Active(AtConst(14), <<3, 2, 2>>)>>, FALSE),
      Imaged(Memory, Segments, FALSE),
      Imaged(Memory, <<Active(AtConst(15), <<1>>), Active(AtConst(15), <<1, 1>>)>>, FALSE)>>

DataProfiles ==
    <<Accesses, Widths, GrowthReserved, GrowthMoving, GrowthShared, GrowthAllocated, GrowthRefused, Bulk, TableBulks,
      TableAccesses, Globals, Integers32, Integers64, Compared32, Compared64, Alone32, Alone64, Floats32, Floats64,
      FloatAlone32, FloatAlone64, FloatCompared32, FloatCompared64, Truncated32, Truncated64, From32, From64>> \o Images
============================================================================
