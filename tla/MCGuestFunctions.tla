---------------------------- MODULE MCGuestFunctions ----------------------------
(* Profiles of GuestFunctions. *)
EXTENDS GuestFunctions

I(op) == [op |-> op]
L(op, l) == [op |-> op, l |-> l]
X(op, x) == [op |-> op, x |-> x]
C(t, n) == [op |-> "const", t |-> t, n |-> n]
T(params, results) == [params |-> params, results |-> results]
B(op, params, results) == [op |-> op, bt |-> T(params, results)]
F(params, results, locals, body, module) ==
    [params |-> params, results |-> results, locals |-> locals, body |-> body, module |-> module]

Call0(op, func, type, import) == [op |-> op, func |-> func, type |-> type, import |-> import]
Clause(kind, tag, l) == [kind |-> kind, tag |-> tag, l |-> l]
Try(results, catches) == [op |-> "try_table", bt |-> T(<<>>, results), catches |-> catches]
Eqz(t) == [op |-> "eqz", t |-> t]
FuncTable(refs) ==
    IF refs = <<>> THEN [tables |-> <<>>, elems |-> <<>>]
    ELSE [tables |-> <<[min |-> Len(refs), max |-> NoMax, type |-> "funcref", init |-> 0]>>,
          elems |-> <<[mode |-> "active", type |-> "funcref", table |-> 1,
                       offset |-> [op |-> "const", n |-> 0], init |-> refs]>>]
Profile(functions, table, alphabet, bound, args) ==
    [functions |-> functions, alphabet |-> alphabet, prefix |-> <<>>, bound |-> bound, args |-> args, upper |-> 0,
     mod |-> [memory |-> NoMemory, globals |-> <<>>, datas |-> <<>>, start |-> FALSE,
              tables |-> FuncTable(table).tables, elems |-> FuncTable(table).elems],
     ensureTermination |-> FALSE, closes |-> FALSE]
I32(n) == <<"i32", n>>

(* Nested blocks, branches out of them with values below, dead code. *)
Blocks ==
    Profile(<<F(<<"i32">>, <<"i32">>, <<>>, <<>>, 1)>>, <<>>,
            {B("block", <<>>, <<"i32">>), B("loop", <<"i32">>, <<"i32">>), B("if", <<>>, <<>>),
             I("else"), I("end"), L("br", 0), L("br", 1), L("br_if", 0), L("br_if", 1),
             X("local.get", 1), C("i32", 1), I("drop")},
            7, {<<I32(0)>>, <<I32(1)>>})

(* br_table to blocks at different heights. *)
Tables ==
    Profile(<<F(<<"i32">>, <<"i32">>, <<>>, <<>>, 1)>>, <<>>,
            {B("block", <<>>, <<"i32">>), B("loop", <<"i32">>, <<"i32">>), B("if", <<"i32">>, <<"i32">>),
             I("else"), I("end"), [op |-> "br_table", ls |-> <<0>>, default |-> 1],
             [op |-> "br_table", ls |-> <<1, 2>>, default |-> 0],
             X("local.get", 1), C("i32", 7), Eqz("i32"), I("unreachable")},
            7, {<<I32(0)>>, <<I32(1)>>, <<I32(2)>>})

(* Values of two slots: branches that keep them, and locals among them. *)
VectorFunction == F(<<"v128", "i32">>, <<"v128">>, <<"v128">>, <<>>, 1)
VectorArgs == {<<<<"v128", <<1, 2>>>>, I32(0)>>, <<<<"v128", <<1, 2>>>>, I32(1)>>}
VectorBranches ==
    Profile(<<VectorFunction>>, <<>>,
            {B("block", <<>>, <<"v128">>), B("loop", <<"v128">>, <<"v128">>), I("end"),
             L("br", 0), L("br_if", 0), L("br_if", 1), X("local.get", 1), X("local.get", 2),
             I("drop"), I("return")},
            7, VectorArgs)
VectorLocals ==
    Profile(<<VectorFunction>>, <<>>,
            {X("local.get", 1), X("local.get", 2), X("local.get", 3), X("local.set", 3),
             X("local.tee", 3), X("local.tee", 1), C("v128", <<3, 4>>), I("drop"), I("select"), I("end")},
            6, VectorArgs)

(* Exceptions, thrown here and by callees, with payloads of every size. *)
TagA == [name |-> "A", params |-> <<"v128", "i32">>]
TagB == [name |-> "B", params |-> <<>>]
ThrowsA == F(<<"i32">>, <<"i32">>, <<>>,
             <<C("v128", <<4, 5>>), X("local.get", 1), [op |-> "throw", tag |-> TagA], I("end")>>, 1)
CatchesB == F(<<"i32">>, <<"i32">>, <<"i32">>,
              <<B("block", <<>>, <<>>), Try(<<>>, <<Clause("catch", TagB, 0)>>), X("local.get", 1),
                Call0("call", 2, T(<<"i32">>, <<"i32">>), FALSE), I("drop"), I("end"), I("end"), C("i32", 5),
                I("end")>>, 1)
ThrowsB == F(<<>>, <<>>, <<>>, <<[op |-> "throw", tag |-> TagB], I("end")>>, 1)
Ty == T(<<"i32">>, <<"i32">>)
Exceptions ==
    Profile(<<F(<<"i32">>, <<"v128", "i32">>, <<>>, <<>>, 1), ThrowsA, CatchesB>>, <<>>,
            {B("block", <<>>, <<"v128", "i32">>), I("end"),
             Try(<<>>, <<Clause("catch", TagB, 0), Clause("catch", TagA, 1)>>),
             Try(<<"i32">>, <<Clause("catch", TagA, 0)>>), B("block", <<>>, <<>>),
             [op |-> "throw", tag |-> TagB], X("local.get", 1), Call0("call", 3, Ty, FALSE)},
            8, {<<I32(0)>>})

(* Exceptions caught as references and thrown again. *)
Rethrows ==
    Profile(<<F(<<>>, <<>>, <<>>, <<>>, 1), ThrowsB>>, <<>>,
            {B("block", <<>>, <<"exnref">>), B("loop", <<>>, <<>>), I("end"),
             Try(<<>>, <<Clause("catch_all_ref", TagB, 0)>>), Try(<<>>, <<Clause("catch_all", TagB, 0)>>),
             Try(<<>>, <<Clause("catch_ref", TagB, 1)>>),
             [op |-> "throw", tag |-> TagB], I("throw_ref"), I("drop"),
             [op |-> "ref.null", t |-> "exnref"], Call0("call", 2, T(<<>>, <<>>), FALSE)},
            7, {<<>>})

(* Calls in tail position, by name, through the table and by reference. *)
TagC == [name |-> "C", params |-> <<"i32">>]
ThrowsC == F(<<"i32">>, <<"i32">>, <<>>, <<X("local.get", 1), [op |-> "throw", tag |-> TagC], I("end")>>, 1)
TailCalls ==
    Profile(<<F(<<"i32">>, <<"i32">>, <<"i32">>, <<>>, 1), ThrowsC,
              F(<<"i32">>, <<"i32">>, <<>>, <<X("local.get", 1), Eqz("i32"), I("end")>>, 2),
              F(<<"i32", "i32">>, <<"i32">>, <<"v128">>, <<X("local.get", 2), X("local.get", 1), I("drop"), I("end")>>, 1)>>,
            <<3, 0, 4, 2>>,
            {Try(<<"i32">>, <<Clause("catch", TagC, 0)>>), I("end"), X("local.get", 1), C("i32", 2),
             Call0("return_call", 1, Ty, FALSE), Call0("return_call", 3, Ty, TRUE),
             Call0("return_call", 4, T(<<"i32", "i32">>, <<"i32">>), FALSE),
             Call0("return_call_indirect", 0, Ty, FALSE), Call0("call_indirect", 0, Ty, FALSE),
             Call0("call", 1, Ty, FALSE), L("br_if", 0)},
            6, {<<I32(0)>>, <<I32(3)>>})

(* References that may or may not be null, and branches on that. *)
SixRef == F(<<>>, <<"i32">>, <<>>, <<C("i32", 6), I("end")>>, 1)
RefArgs == {<<<<"null", 0>>>>, <<<<"func", 2>>>>}
Refs ==
    Profile(<<F(<<"tref">>, <<"i32">>, <<>>, <<>>, 1), SixRef>>, <<>>,
            {B("block", <<>>, <<"t">>), B("block", <<>>, <<>>), I("end"), X("local.get", 1),
             [op |-> "ref.null", t |-> "tref"], L("br_on_null", 0), L("br_on_non_null", 0),
             I("ref.is_null"), I("ref.as_non_null"),
             Call0("call_ref", 0, T(<<>>, <<"i32">>), FALSE), Call0("return_call_ref", 0, T(<<>>, <<"i32">>), FALSE)},
            7, RefArgs)

(* Locals that must be set before they are read. *)
LocalInits ==
    Profile(<<F(<<"tref">>, <<"i32">>, <<"t">>, <<>>, 1), SixRef>>, <<>>,
            {B("block", <<>>, <<>>), B("if", <<>>, <<>>), I("else"), I("end"), L("br", 0), C("i32", 0),
             [op |-> "ref.func", func |-> 2], X("local.get", 1), X("local.set", 2), X("local.get", 2),
             I("ref.is_null"), Call0("call_ref", 0, T(<<>>, <<"i32">>), FALSE)},
            7, RefArgs)

(* Guests that may run for ever, whose module is closed. *)
Closing ==
    [Profile(<<F(<<"i32">>, <<"i32">>, <<>>, <<>>, 1)>>, <<1>>,
             {B("loop", <<>>, <<>>), I("end"), X("local.get", 1), L("br", 0), L("br_if", 0), L("br_if", 1),
              Call0("return_call", 1, Ty, FALSE), Call0("return_call_indirect", 0, Ty, FALSE)},
             6, {<<I32(0)>>, <<I32(1)>>}) EXCEPT !.ensureTermination = TRUE, !.closes = TRUE]

MCProfiles ==
    <<Blocks, Tables, VectorBranches, VectorLocals, Exceptions, Rethrows, TailCalls, Refs, LocalInits>>

ClosingProfiles == <<Closing>>
============================================================================
