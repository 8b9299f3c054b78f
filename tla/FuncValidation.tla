--------------------------- MODULE FuncValidation ---------------------------
(***************************************************************************)
(* validateFunction (internal/wasm/func_validation.go): one pass over the  *)
(* instructions of a function that tracks the types of the values on the   *)
(* stack and the enclosing blocks.  The state is a record:                 *)
(*   stack   types of the values, with "unknown" for what is below the top *)
(*           in code that cannot be reached                                *)
(*   limits  heights of the stack a block may not pop below                *)
(*   cs      the blocks: their op, type, whether an else was met, and the  *)
(*           initialized locals when the block began                       *)
(*   init    the locals of a non-nullable type that have been set; Nil is  *)
(*           the nil map, which is read as empty and panics when set       *)
(*   status  "ok", "error" or "panic"                                      *)
(***************************************************************************)
EXTENDS Instances

(* The zero value of controlBlock.savedInitLocals. *)
Nil == {0}

fail(v) == [v EXCEPT !.status = IF @ = "ok" THEN "error" ELSE @]

reset(f) ==
    [stack |-> <<>>, limits |-> <<>>, init |-> {}, status |-> "ok",
     cs |-> <<[op |-> "func", bt |-> Signature(f), saved |-> Nil]>>]

Limit(v) == IF v.limits = <<>> THEN 0 ELSE Last(v.limits)

(* tryPop fails below the limit; an unknown at the limit is never used up. *)
Empty(v) == Len(v.stack) <= Limit(v)
AtUnknown(v) == Len(v.stack) = Limit(v) + 1 /\ Last(v.stack) = "unknown"

TopType(v) == Last(v.stack)
tryPop(v) ==
    IF Empty(v) THEN fail(v)
    ELSE IF AtUnknown(v) THEN v
    ELSE [v EXCEPT !.stack = Front(@)]

popAndVerifyType(v, expected) ==
    IF Empty(v) THEN fail(v)
    ELSE IF TopType(v) = "unknown" \/ expected = "unknown" \/ isRefSubtypeOf(TopType(v), expected)
         THEN tryPop(v)
         ELSE fail(v)

push(v, t) == [v EXCEPT !.stack = Append(@, t)]
pushAll(v, ts) == [v EXCEPT !.stack = @ \o ts]

resetAtStackLimit(v) == [v EXCEPT !.stack = SubSeq(@, 1, Limit(v))]
unreachable(v) == push(resetAtStackLimit(v), "unknown")

popAll(v, want) == FoldRight(LAMBDA t, w : popAndVerifyType(w, t), want, v)

requireStackValues(v, want, checkAboveLimit) ==
    LET w == popAll(v, want)
    IN  IF checkAboveLimit /\ ~Empty(w) /\ ~AtUnknown(w) THEN fail(w) ELSE w

(* Branches.  The label of a loop takes its parameters. *)
LabelTypes(block) == IF block.op = "loop" THEN block.bt.params ELSE block.bt.results
HasLabel(v, l) == l < Len(v.cs)
Target(v, l) == v.cs[Len(v.cs) - l]

validateBr(v, i) ==
    IF ~HasLabel(v, i.l) THEN fail(v)
    ELSE unreachable(requireStackValues(v, LabelTypes(Target(v, i.l)), FALSE))

validateBrIf(v, i) ==
    IF ~HasLabel(v, i.l) THEN fail(v)
    ELSE LET ts == LabelTypes(Target(v, i.l))
         IN  pushAll(requireStackValues(popAndVerifyType(v, "i32"), ts, FALSE), ts)

(* The default label's types are checked against the stack, and become     *)
(* unknown where the stack is; the others have to be compatible with them. *)
validateBrTable(v, i) ==
    LET dts   == LabelTypes(Target(v, i.default))
        w     == popAndVerifyType(v, "i32")
        above(k) == SubSeq(dts, k + 1, Len(dts))
        types == [k \in DOMAIN dts |->
                    IF TopType(popAll(w, above(k))) = "unknown" THEN "unknown" ELSE dts[k]]
        fits(l) ==
            /\ HasLabel(v, l)
            /\ LET ts == LabelTypes(Target(v, l))
               IN  /\ Len(ts) = Len(dts)
                   /\ \A k \in DOMAIN dts :
                        types[k] = "unknown" \/ areRefTypesCompatible(types[k], ts[k])
    IN  IF HasLabel(v, i.default) /\ popAll(w, dts).status = "ok" /\ \A k \in DOMAIN i.ls : fits(i.ls[k])
        THEN unreachable(w)
        ELSE fail(v)

(* Blocks.  try_table does not save the initialized locals. *)
enter(v, i, saved) ==
    LET w == pushAll(requireStackValues(v, i.bt.params, FALSE), i.bt.params)
    IN  [w EXCEPT !.cs = Append(@, [op |-> i.op, bt |-> i.bt, saved |-> saved]),
                  !.limits = Append(@, Len(w.stack) - Len(i.bt.params))]

CatchTypes(clause) ==
    (IF clause.kind \in {"catch", "catch_ref"} THEN clause.tag.params ELSE <<>>)
    \o (IF clause.kind \in {"catch_ref", "catch_all_ref"} THEN <<"exn">> ELSE <<>>)

Delivers(v, clause) ==
    /\ HasLabel(v, clause.l)
    /\ LET ts == LabelTypes(Target(v, clause.l))
       IN  /\ Len(ts) = Len(CatchTypes(clause))
           /\ \A k \in DOMAIN ts : isRefSubtypeOf(CatchTypes(clause)[k], ts[k])

validateTryTable(v, i) ==
    IF \A k \in DOMAIN i.catches : Delivers(v, i.catches[k]) THEN enter(v, i, Nil) ELSE fail(v)

validateElse(v) ==
    LET b == Last(v.cs)
        w == requireStackValues(v, b.bt.results, TRUE)
    IN  IF b.op # "if" THEN fail(v)
        ELSE pushAll([resetAtStackLimit(w) EXCEPT !.cs = Append(Front(@), [b EXCEPT !.op = "else"]),
                                                  !.init = b.saved],
                     b.bt.params)

(* Mutant of validateEnd: locals set in the block count as set after it. *)
validateEndKeepsInit(v) ==
    LET b == Last(v.cs)
        w == requireStackValues(v, b.bt.results, TRUE)
        x == pushAll(resetAtStackLimit(w), b.bt.results)
    IN  IF b.op = "if" /\ b.bt.results # b.bt.params THEN fail(v)
        ELSE [x EXCEPT !.cs = Front(@), !.limits = IF @ = <<>> THEN @ ELSE Front(@)]

(* An if without an else must leave what it takes. *)
validateEnd(v) ==
    LET b == Last(v.cs)
        w == requireStackValues(v, b.bt.results, TRUE)
        x == pushAll(resetAtStackLimit(w), b.bt.results)
    IN  IF b.op = "if" /\ b.bt.results # b.bt.params THEN fail(v)
        ELSE [x EXCEPT !.cs = Front(@),
                       !.init = IF Len(v.cs) > 1 THEN b.saved ELSE @,
                       !.limits = IF @ = <<>> THEN @ ELSE Front(@)]

(* Locals of a non-nullable type are read only once they are set. *)
MustInit(f, x) == x > Len(f.params) /\ LocalTypes(f)[x] \in NonNullable

requireLocalInit(v, f, x) == IF MustInit(f, x) /\ x \notin v.init THEN fail(v) ELSE v

markLocalInit(v, f, x) ==
    IF ~MustInit(f, x) \/ v.status # "ok" THEN v
    ELSE IF v.init = Nil THEN [v EXCEPT !.status = "panic"]
    ELSE [v EXCEPT !.init = @ \cup {x}]

validateLocal(v, f, i) ==
    LET t == LocalTypes(f)[i.x]
    IN  IF i.x > Len(LocalTypes(f)) THEN fail(v)
        ELSE CASE i.op = "local.get" -> push(requireLocalInit(v, f, i.x), t)
               [] i.op = "local.set" -> markLocalInit(popAndVerifyType(v, t), f, i.x)
               [] i.op = "local.tee" -> markLocalInit(push(popAndVerifyType(v, t), t), f, i.x)

(* Calls.  The callee's results have to be the caller's when it returns    *)
(* through the call.                                                       *)
validateCallSignature(v, type) == pushAll(popAll(v, type.params), type.results)

validateReturnCall(v, type, f) ==
    IF Len(type.results) # Len(f.results) THEN fail(v)
    ELSE unreachable(requireStackValues(v, f.results, FALSE))

validateCall(v, f, i) ==
    LET operand == CASE i.op \in {"call", "return_call"} -> v
                     [] i.op \in {"call_indirect", "return_call_indirect"} -> popAndVerifyType(v, "i32")
                     [] i.op \in {"call_ref", "return_call_ref"} -> popAndVerifyType(v, "tref")
        called == validateCallSignature(operand, i.type)
    IN  IF i.op \in {"call", "call_indirect", "call_ref"} THEN called
        ELSE validateReturnCall(called, i.type, f)

(* References. *)
IsRefOperand(v) == ~Empty(v) /\ (isReferenceValueType(TopType(v)) \/ TopType(v) = "unknown")

validateBrOnNull(v, i) ==
    IF ~HasLabel(v, i.l) \/ ~IsRefOperand(v) THEN fail(v)
    ELSE LET ts == LabelTypes(Target(v, i.l))
         IN  pushAll(requireStackValues(tryPop(v), ts, FALSE), Append(ts, AsNonNullable(TopType(v))))

validateBrOnNonNull(v, i) ==
    IF ~HasLabel(v, i.l) \/ ~IsRefOperand(v) THEN fail(v)
    ELSE LET ts == LabelTypes(Target(v, i.l))
         IN  IF ts = <<>> THEN fail(v)
             ELSE IF TopType(v) # "unknown" /\ ~isRefSubtypeOf(AsNonNullable(TopType(v)), Last(ts))
             THEN fail(v)
             ELSE pushAll(requireStackValues(tryPop(v), Front(ts), FALSE), Front(ts))

validateRef(v, i) ==
    CASE i.op = "ref.null" -> push(v, i.t)
      [] i.op = "ref.func" -> push(v, "t")
      [] i.op = "ref.as_non_null" ->
            IF IsRefOperand(v) THEN push(tryPop(v), AsNonNullable(TopType(v))) ELSE fail(v)
      [] i.op = "ref.is_null" ->
            IF IsRefOperand(v) THEN push(tryPop(v), "i32") ELSE fail(v)

(* Without a type, select takes no references; the wider of two types is   *)
(* the result.  The immediate of a typed select is not compared.           *)
validateSelect(v, i) ==
    LET w  == popAndVerifyType(v, "i32")
        v1 == TopType(w)
        x  == tryPop(w)
        v2 == TopType(x)
    IN  IF w.status # "ok" \/ Empty(w) \/ Empty(x) THEN fail(v)
        ELSE IF i.op = "select" /\ (isReferenceValueType(v1) \/ isReferenceValueType(v2)) THEN fail(v)
        ELSE IF v1 # "unknown" /\ v2 # "unknown" /\ ~areRefTypesCompatible(v1, v2) THEN fail(v)
        ELSE push(tryPop(x), IF v1 = "unknown" \/ (v2 # "unknown" /\ isRefSubtypeOf(v1, v2))
                             THEN v2 ELSE v1)

(* Memory, and the globals and tables of the module. *)
HasMemory(mod) == mod.memory # NoMemory

(* Operands are popped from the last; what there is not is not pushed. *)
takes(v, operands, results) == pushAll(popAll(v, operands), results)

validateMemArg(v, mod, i, w) == IF ~HasMemory(mod) \/ 2^i.align > w THEN fail(v) ELSE v

validateLoadStore(v, mod, i) ==
    LET w == validateMemArg(v, mod, i, i.w)
    IN  IF i.op = "load" THEN takes(w, <<"i32">>, <<i.t>>) ELSE takes(w, <<"i32", i.t>>, <<>>)

validateMemorySizeGrow(v, mod, i) ==
    IF ~HasMemory(mod) THEN fail(v)
    ELSE takes(v, IF i.op = "memory.grow" THEN <<"i32">> ELSE <<>>, <<"i32">>)

validateGlobal(v, mod, i) ==
    CASE i.x > Len(mod.globals) -> fail(v)
      [] i.op = "global.get" /\ i.x <= Len(mod.globals) -> push(v, mod.globals[i.x].t)
      [] i.op = "global.set" /\ i.x <= Len(mod.globals) ->
            IF mod.globals[i.x].mutable THEN popAndVerifyType(v, mod.globals[i.x].t) ELSE fail(v)

(* Numeric instructions. *)
validateNumeric(v, i) ==
    CASE i.op = "eqz"     -> takes(v, <<i.t>>, <<"i32">>)
      [] i.op = "compare" -> takes(v, <<i.t, i.t>>, <<"i32">>)
      [] i.op \in {"unary", "extend"} -> takes(v, <<i.t>>, <<i.t>>)
      [] i.op = "binary"  -> takes(v, <<i.t, i.t>>, <<i.t>>)
      [] i.op = "convert" -> takes(v, <<i.from>>, <<i.t>>)

(* table.get and table.set. *)
validateTableAccess(v, mod, i) ==
    IF i.x > Len(mod.tables) THEN fail(v)
    ELSE IF i.op = "table.get" THEN takes(v, <<"i32">>, <<mod.tables[i.x].type>>)
    ELSE takes(v, <<"i32", mod.tables[i.x].type>>, <<>>)

validateMemoryBulk(v, mod, i) ==
    CASE i.op \in {"memory.init", "data.drop"} /\ i.seg > Len(mod.datas) -> fail(v)
      [] i.op # "data.drop" /\ ~HasMemory(mod) -> fail(v)
      [] OTHER -> takes(v, IF i.op = "data.drop" THEN <<>> ELSE <<"i32", "i32", "i32">>, <<>>)

validateTableBulk(v, mod, i) ==
    LET three == takes(v, <<"i32", "i32", "i32">>, <<>>)
        known(x) == x <= Len(mod.tables)
    IN  CASE i.op = "elem.drop"  -> IF i.seg <= Len(mod.elems) THEN v ELSE fail(v)
          [] i.op = "table.init" ->
                IF i.seg <= Len(mod.elems) /\ known(i.x)
                   /\ isRefSubtypeOf(mod.elems[i.seg].type, mod.tables[i.x].type) THEN three ELSE fail(v)
          [] i.op = "table.copy" ->
                IF known(i.x) /\ known(i.y) /\ isRefSubtypeOf(mod.tables[i.y].type, mod.tables[i.x].type)
                THEN three ELSE fail(v)

(* table.grow, table.size and table.fill. *)
validateTableGrowFill(v, mod, i) ==
    LET type == mod.tables[i.x].type
    IN  CASE i.x > Len(mod.tables) -> fail(v)
          [] i.op = "table.size" /\ i.x <= Len(mod.tables) -> push(v, "i32")
          [] i.op = "table.grow" /\ i.x <= Len(mod.tables) -> takes(v, <<type, "i32">>, <<"i32">>)
          [] i.op = "table.fill" /\ i.x <= Len(mod.tables) -> takes(v, <<"i32", type, "i32">>, <<>>)

(* Atomic accesses. *)
validateAtomic(v, mod, i) ==
    LET w == validateMemArg(v, mod, i, i.w)
    IN  CASE i.op = "atomic.fence"  -> v
          [] i.op = "atomic.load"   -> takes(w, <<"i32">>, <<i.t>>)
          [] i.op = "atomic.store"  -> takes(w, <<"i32", i.t>>, <<>>)
          [] i.op = "atomic.notify" -> takes(w, <<"i32", "i32">>, <<"i32">>)
          [] i.op = "atomic.wait"   -> takes(w, <<"i32", i.t, "i64">>, <<"i32">>)

(* rmw and cmpxchg *)
validateAtomicRMW(v, mod, i) ==
    takes(validateMemArg(v, mod, i, i.w),
          IF i.op = "atomic.rmw" THEN <<"i32", i.t>> ELSE <<"i32", i.t, i.t>>, <<i.t>>)

(* Vectors.  The memory accesses are at most as aligned as what they read  *)
(* or write, and a lane is below the lanes of its width.                   *)
validateVectorMemory(v, mod, i) ==
    LET most == CASE i.op = "v.store" \/ (i.op = "v.load" /\ i.kind = "full") -> 16
                  [] i.op = "v.load" /\ i.kind = "extend" -> 8
                  [] OTHER -> i.w
        w    == validateMemArg(v, mod, i, most)
        lane == i.op \in {"v.load_lane", "v.store_lane"}
    IN  IF lane /\ i.k >= 16 \div i.w THEN fail(v)
        ELSE takes(w, IF i.op = "v.load" THEN <<"i32">> ELSE <<"i32", "v128">>,
                   IF i.op \in {"v.load", "v.load_lane"} THEN <<"v128">> ELSE <<>>)

(* A lane outside of a vector: extract_lane, replace_lane and splat. *)
validateVectorLane(v, i) ==
    LET t == laneResultType(i.t)
    IN  IF i.op \in {"v.extract", "v.replace"} /\ i.k >= (16 * ByteBits) \div Width(i.t) THEN fail(v)
        ELSE CASE i.op = "v.extract" -> takes(v, <<"v128">>, <<t>>)
               [] i.op = "v.replace" -> takes(v, <<"v128", t>>, <<"v128">>)
               [] i.op = "v.splat"   -> takes(v, <<t>>, <<"v128">>)

validateVectorOperands(v, i) ==
    CASE i.op = "v.test"  -> takes(v, <<"v128">>, <<"i32">>)
      [] i.op = "v.unary" -> takes(v, <<"v128">>, <<"v128">>)
      [] i.op = "v.shift" -> takes(v, <<"v128", "i32">>, <<"v128">>)
      [] i.op = "v.compare" -> takes(v, <<"v128", "v128">>, <<"v128">>)
      [] i.op = "v.binary"  ->
            IF i.f = "shuffle" /\ \E k \in DOMAIN i.ls : i.ls[k] >= 32 THEN fail(v)
            ELSE takes(v, <<"v128", "v128">>, <<"v128">>)
      [] i.op = "v.bitselect" -> takes(v, <<"v128", "v128", "v128">>, <<"v128">>)

(* One step of validateFunction on instruction i of function f. *)
Validate(v, mod, f, i) ==
    IF v.cs = <<>> THEN fail(v)
    ELSE CASE i.op = "nop"         -> v
           [] i.op = "unreachable" -> unreachable(v)
           [] i.op = "const"       -> push(v, i.t)
           [] i.op \in {"eqz", "compare", "unary", "extend", "binary", "convert"} -> validateNumeric(v, i)
           [] i.op = "drop"        -> tryPop(v)
           [] i.op \in {"select", "typed_select"} -> validateSelect(v, i)
           [] i.op \in {"local.get", "local.set", "local.tee"} -> validateLocal(v, f, i)
           [] i.op \in {"block", "loop"} -> enter(v, i, v.init)
           [] i.op = "if"          -> enter(popAndVerifyType(v, "i32"), i, v.init)
           [] i.op = "else"        -> validateElse(v)
           [] i.op = "end"         -> validateEnd(v)
           [] i.op = "br"          -> validateBr(v, i)
           [] i.op = "br_if"       -> validateBrIf(v, i)
           [] i.op = "br_table"    -> validateBrTable(v, i)
           [] i.op = "return"      -> unreachable(requireStackValues(v, f.results, FALSE))
           [] i.op = "throw"       -> unreachable(popAll(v, i.tag.params))
           [] i.op = "throw_ref"   -> unreachable(popAndVerifyType(v, "exnref"))
           [] i.op = "try_table"   -> validateTryTable(v, i)
           [] i.op \in {"call", "return_call", "call_indirect", "return_call_indirect",
                        "call_ref", "return_call_ref"} -> validateCall(v, f, i)
           [] i.op = "br_on_null"     -> validateBrOnNull(v, i)
           [] i.op = "br_on_non_null" -> validateBrOnNonNull(v, i)
           [] i.op \in {"ref.null", "ref.func", "ref.as_non_null", "ref.is_null"} -> validateRef(v, i)
           [] i.op \in {"load", "store"}             -> validateLoadStore(v, mod, i)
           [] i.op \in {"memory.size", "memory.grow"} -> validateMemorySizeGrow(v, mod, i)
           [] i.op \in {"global.get", "global.set"}  -> validateGlobal(v, mod, i)
           [] i.op \in {"table.get", "table.set"}    -> validateTableAccess(v, mod, i)
           [] i.op \in {"memory.init", "memory.copy", "memory.fill", "data.drop"} -> validateMemoryBulk(v, mod, i)
           [] i.op \in {"table.init", "table.copy", "elem.drop"} -> validateTableBulk(v, mod, i)
           [] i.op \in {"table.size", "table.grow", "table.fill"} -> validateTableGrowFill(v, mod, i)
           [] i.op \in {"atomic.fence", "atomic.load", "atomic.store", "atomic.notify", "atomic.wait"} ->
                validateAtomic(v, mod, i)
           [] i.op \in {"atomic.rmw", "atomic.cmpxchg"} -> validateAtomicRMW(v, mod, i)
           [] i.op \in {"v.load", "v.load_lane", "v.store", "v.store_lane"} -> validateVectorMemory(v, mod, i)
           [] i.op \in {"v.extract", "v.replace", "v.splat"} -> validateVectorLane(v, i)
           [] i.op \in {"v.test", "v.unary", "v.binary", "v.compare", "v.shift", "v.bitselect"} ->
                validateVectorOperands(v, i)

(* validateFunction: one instruction after the other, until one is         *)
(* rejected; the last ends the block of the function.                      *)
validateFunction(mod, f) ==
    LET run[n \in 0..Len(f.body)] ==
            IF n = 0 THEN reset(f)
            ELSE LET v == run[n - 1]
                 IN  IF v.status = "ok" THEN Validate(v, mod, f, f.body[n]) ELSE v
    IN  run[Len(f.body)]

(* (The limit of 2^27 values on the stack is left out.) *)
Accepted(mod, f) ==
    LET v == validateFunction(mod, f) IN v.status = "ok" /\ v.cs = <<>>
============================================================================
