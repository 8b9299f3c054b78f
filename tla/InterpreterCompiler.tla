------------------------ MODULE InterpreterCompiler ------------------------
(***************************************************************************)
(* The compiler of the interpreter engine                                  *)
(* (internal/engine/interpreter/compiler.go): one pass over a valid        *)
(* function that lowers it to operations on a stack of uint64, where       *)
(* locals are read and written by their distance from the top and a branch *)
(* drops a range of the stack.  The state is a record:                     *)
(*   stack   unsigned types of the values; locals are at the bottom        *)
(*   frames  enclosing blocks: id, kind, type, and the number of values    *)
(*           (len) and of uint64 (len64) below the block's parameters      *)
(*   on, depth  whether the code is unreachable, and in how many blocks    *)
(*   id      the last frame id given                                       *)
(*   ops     the operations emitted; a label also has the height of the    *)
(*           stack there, which only HeightAgrees uses                     *)
(*   table   PendingExceptionTable                                         *)
(*   err     whether an operand did not fit the signature of its opcode    *)
(*   mod     what the module declares                                      *)
(* Code that cannot be reached is dropped.  DWARF offsets are left out.    *)
(***************************************************************************)
EXTENDS WasmCode

NopRange == <<-1, -1>>

wasmValueTypeTounsignedType(t) == IF isReferenceValueType(t) THEN "i64" ELSE t
Unsigned(ts) == [k \in DOMAIN ts |-> wasmValueTypeTounsignedType(ts[k])]

stackLenInUint64(c) == Slots(c.stack)

stackPop(c) == IF c.stack = <<>> THEN [c EXCEPT !.err = TRUE] ELSE [c EXCEPT !.stack = Front(@)]
stackPush(c, ts) == [c EXCEPT !.stack = @ \o Unsigned(ts)]
stackSwitchAt(c, frame) == [c EXCEPT !.stack = SubSeq(@, 1, frame.len)]

emit(c, op) ==
    IF c.on \/ (op.k = "drop" /\ op.range = NopRange) THEN c
    ELSE [c EXCEPT !.ops = Append(@, op)]

emitLabel(c, label) == emit(c, [k |-> "label", label |-> label, height |-> stackLenInUint64(c)])
emitDrop(c, range) == emit(c, [k |-> "drop", range |-> range])
emitBr(c, label) == emit(c, [k |-> "br", target |-> label])

markUnreachable(c) == [c EXCEPT !.on = TRUE]
resetUnreachable(c) == [c EXCEPT !.on = FALSE]

(* Control frames. *)
nextFrameID(c) == [c EXCEPT !.id = @ + 1]
functionFrame(c) == c.frames[1]
Get(c, n) == c.frames[Len(c.frames) - n]

(* Mutant of ensureContinuation: a block that is branched to gets no label. *)
ensureContinuationNever(c, ns) == c

(* Branches go to the frames numbered ns from the innermost. *)
ensureContinuation(c, ns) ==
    [c EXCEPT !.frames = [k \in DOMAIN @ |->
        IF Len(@) - k \in ns /\ @[k].kind = "block" THEN [@[k] EXCEPT !.kind = "continued"] ELSE @[k]]]

asLabel(frame) ==
    CASE frame.kind = "loop" -> <<"header", frame.id>>
      [] frame.kind = "func" -> <<"return", 0>>
      [] OTHER               -> <<"continuation", frame.id>>

pushFrame(c, kind, bt) ==
    LET d == nextFrameID(c)
    IN  [d EXCEPT !.frames = Append(@,
            [id |-> d.id, kind |-> kind, bt |-> bt,
             len |-> Len(c.stack) - Len(bt.params),
             len64 |-> stackLenInUint64(c) - Slots(bt.params)])]

(* Mutant of getFrameDropRange: a range of one value is not dropped. *)
getFrameDropRangeOfTwo(c, frame, isEnd) ==
    LET start == IF ~isEnd /\ frame.kind = "loop" THEN Slots(frame.bt.params)
                                                  ELSE Slots(frame.bt.results)
        end   == stackLenInUint64(c) - 1 - frame.len64
    IN  IF start < end THEN <<start, end>> ELSE NopRange

getFrameDropRange(c, frame, isEnd) ==
    LET start == IF ~isEnd /\ frame.kind = "loop" THEN Slots(frame.bt.params)
                                                  ELSE Slots(frame.bt.results)
        end   == stackLenInUint64(c) - 1 - frame.len64
    IN  IF start <= end THEN <<start, end>> ELSE NopRange

(* The depth of a local from the top of the stack. *)
localDepth(c, f, x) ==
    stackLenInUint64(c) - 1 - Slots(SubSeq(LocalTypes(f), 1, x - 1))

(* The locals follow the parameters, and their zeros are emitted. *)
initializeStack(c, f) ==
    [stackPush(c, LocalTypes(f)) EXCEPT !.ops = @ \o
        [n \in DOMAIN f.locals |-> [k |-> "const", vals |-> InSlots(f.locals[n], Zero(f.locals[n]))]]]

(* wasmOpcodeSignature: what an opcode takes and leaves. *)
numericSignature(i) ==
    CASE i.op = "eqz"     -> [in |-> <<i.t>>, out |-> <<"i32">>]
      [] i.op = "compare" -> [in |-> <<i.t, i.t>>, out |-> <<"i32">>]
      [] i.op = "binary"  -> [in |-> <<i.t, i.t>>, out |-> <<i.t>>]
      [] i.op \in {"unary", "extend"} -> [in |-> <<i.t>>, out |-> <<i.t>>]
      [] i.op = "convert" -> [in |-> <<i.from>>, out |-> <<i.t>>]

memorySignature(mod, i) ==
    CASE i.op = "load"  -> [in |-> <<"i32">>, out |-> <<i.t>>]
      [] i.op = "store" -> [in |-> <<"i32", i.t>>, out |-> <<>>]
      [] i.op = "memory.size" -> [in |-> <<>>, out |-> <<"i32">>]
      [] i.op = "memory.grow" -> [in |-> <<"i32">>, out |-> <<"i32">>]
      [] i.op = "global.get"  -> [in |-> <<>>, out |-> <<mod.globals[i.x].t>>]
      [] i.op = "global.set"  -> [in |-> <<mod.globals[i.x].t>>, out |-> <<>>]

miscSignature(i) ==
    CASE i.op = "table.get"  -> [in |-> <<"i32">>, out |-> <<"i64">>]
      [] i.op = "table.set"  -> [in |-> <<"i32", "i64">>, out |-> <<>>]
      [] i.op = "table.size" -> [in |-> <<>>, out |-> <<"i32">>]
      [] i.op = "table.grow" -> [in |-> <<"i64", "i32">>, out |-> <<"i32">>]
      [] i.op = "table.fill" -> [in |-> <<"i32", "i64", "i32">>, out |-> <<>>]
      [] i.op \in {"data.drop", "elem.drop"} -> [in |-> <<>>, out |-> <<>>]
      [] i.op \in {"memory.init", "memory.copy", "memory.fill", "table.init", "table.copy"} ->
            [in |-> <<"i32", "i32", "i32">>, out |-> <<>>]

atomicSignature(i) ==
    CASE i.op = "atomic.fence"  -> [in |-> <<>>, out |-> <<>>]
      [] i.op = "atomic.load"   -> [in |-> <<"i32">>, out |-> <<i.t>>]
      [] i.op = "atomic.store"  -> [in |-> <<"i32", i.t>>, out |-> <<>>]
      [] i.op = "atomic.rmw"    -> [in |-> <<"i32", i.t>>, out |-> <<i.t>>]
      [] i.op = "atomic.cmpxchg" -> [in |-> <<"i32", i.t, i.t>>, out |-> <<i.t>>]
      [] i.op = "atomic.wait"   -> [in |-> <<"i32", i.t, "i64">>, out |-> <<"i32">>]
      [] i.op = "atomic.notify" -> [in |-> <<"i32", "i32">>, out |-> <<"i32">>]

vectorSignature(i) ==
    LET lane == IF i.t \in {"i8", "i16"} THEN "i32" ELSE i.t
    IN  CASE i.op = "v.load"      -> [in |-> <<"i32">>, out |-> <<"v128">>]
          [] i.op = "v.load_lane" -> [in |-> <<"i32", "v128">>, out |-> <<"v128">>]
          [] i.op \in {"v.store", "v.store_lane"} -> [in |-> <<"i32", "v128">>, out |-> <<>>]
          [] i.op = "v.extract" -> [in |-> <<"v128">>, out |-> <<lane>>]
          [] i.op = "v.replace" -> [in |-> <<"v128", lane>>, out |-> <<"v128">>]
          [] i.op = "v.splat"   -> [in |-> <<lane>>, out |-> <<"v128">>]
          [] i.op = "v.test"    -> [in |-> <<"v128">>, out |-> <<"i32">>]
          [] i.op = "v.unary"   -> [in |-> <<"v128">>, out |-> <<"v128">>]
          [] i.op = "v.shift"   -> [in |-> <<"v128", "i32">>, out |-> <<"v128">>]
          [] i.op \in {"v.binary", "v.compare"} -> [in |-> <<"v128", "v128">>, out |-> <<"v128">>]
          [] i.op = "v.bitselect" -> [in |-> <<"v128", "v128", "v128">>, out |-> <<"v128">>]

wasmOpcodeSignature(mod, f, i) ==
    CASE i.op \in {"if", "br_if", "br_table"} -> [in |-> <<"i32">>, out |-> <<>>]
      [] i.op = "const" -> [in |-> <<>>, out |-> <<i.t>>]
      [] i.op = "drop"  -> [in |-> <<"unknown">>, out |-> <<>>]
      [] i.op \in {"select", "typed_select"} ->
            [in |-> <<"unknown", "unknown", "i32">>, out |-> <<"unknown">>]
      [] i.op = "local.get" -> [in |-> <<>>, out |-> <<LocalTypes(f)[i.x]>>]
      [] i.op = "local.set" -> [in |-> <<LocalTypes(f)[i.x]>>, out |-> <<>>]
      [] i.op = "local.tee" -> [in |-> <<LocalTypes(f)[i.x]>>, out |-> <<LocalTypes(f)[i.x]>>]
      [] i.op \in {"call", "return_call"} -> [in |-> i.type.params, out |-> i.type.results]
      [] i.op \in {"call_indirect", "return_call_indirect"} ->
            [in |-> Append(i.type.params, "i32"), out |-> i.type.results]
      [] i.op \in {"call_ref", "return_call_ref"} ->
            [in |-> Append(i.type.params, "tref"), out |-> i.type.results]
      [] i.op \in {"ref.null", "ref.func"} -> [in |-> <<>>, out |-> <<"tref">>]
      [] i.op = "ref.as_non_null" -> [in |-> <<"tref">>, out |-> <<"tref">>]
      [] i.op = "ref.is_null"     -> [in |-> <<"tref">>, out |-> <<"i32">>]
      [] i.op \in {"br_on_null", "br_on_non_null"} -> [in |-> <<"tref">>, out |-> <<>>]
      [] i.op \in NumericOps -> numericSignature(i)
      [] i.op \in MemoryOps \cup GlobalOps -> memorySignature(mod, i)
      [] i.op \in TableOps \cup BulkOps -> miscSignature(i)
      [] i.op \in AtomicOps \cup AtomicRMWOps -> atomicSignature(i)
      [] i.op \in VectorOps -> vectorSignature(i)
      [] OTHER -> [in |-> <<>>, out |-> <<>>]

(* An unknown type is the one found on the stack, the same each time. *)
applyToStack(c, f, i) ==
    LET sig   == wasmOpcodeSignature(c.mod, f, i)
        n     == Len(sig.in)
        taken == LastOf(c.stack, n)
        fits  == /\ n <= Len(c.stack)
                 /\ \A k \in 1..n : sig.in[k] # "unknown" => Unsigned(sig.in)[k] = taken[k]
                 /\ \A j, k \in 1..n :
                      sig.in[j] = "unknown" /\ sig.in[k] = "unknown" => taken[j] = taken[k]
        found(t) == IF t = "unknown" THEN taken[1] ELSE t
    IN  IF c.on THEN c
        ELSE IF ~fits THEN [c EXCEPT !.err = TRUE]
        ELSE stackPush([c EXCEPT !.stack = ButLast(@, n)],
                       [k \in DOMAIN sig.out |-> found(sig.out[k])])

(* Blocks.  In unreachable code only their nesting counts. *)
compileBlock(c, i) ==
    IF c.on THEN [c EXCEPT !.depth = @ + 1] ELSE pushFrame(c, "block", i.bt)

(* Mutant of compileLoop: the exit code is not checked. *)
compileLoopUnchecked(c, i) ==
    LET d      == pushFrame(c, "loop", i.bt)
        header == <<"header", d.id>>
    IN  IF c.on THEN [c EXCEPT !.depth = @ + 1] ELSE emitLabel(emitBr(d, header), header)

compileLoop(c, i) ==
    LET d      == pushFrame(c, "loop", i.bt)
        header == <<"header", d.id>>
        e      == emitLabel(emitBr(d, header), header)
    IN  IF c.on THEN [c EXCEPT !.depth = @ + 1]
        ELSE IF c.ensureTermination THEN emit(e, [k |-> "check_exit"]) ELSE e

compileIf(c, i) ==
    LET d == pushFrame(c, "if", i.bt)
        branch == [k |-> "br_if", target |-> <<"header", d.id>>, other |-> <<"else", d.id>>,
                   range |-> NopRange]
    IN  IF c.on THEN [c EXCEPT !.depth = @ + 1]
        ELSE emitLabel(emit(d, branch), <<"header", d.id>>)

compileElse(c) ==
    LET frame  == Last(c.frames)
        else   == stackPush(stackSwitchAt([c EXCEPT !.frames[Len(c.frames)].kind = "ifelse"], frame),
                            frame.bt.params)
        leave  == emitBr(emitDrop(else, getFrameDropRange(c, frame, FALSE)),
                         <<"continuation", frame.id>>)
    IN  IF c.on /\ c.depth > 0 THEN c
        ELSE emitLabel(IF c.on THEN resetUnreachable(else) ELSE leave, <<"else", frame.id>>)

compileEnd(c) ==
    LET frame == Last(c.frames)
        cont  == <<"continuation", frame.id>>
        after == stackPush(stackSwitchAt([c EXCEPT !.frames = Front(@), !.on = FALSE], frame),
                           frame.bt.results)
        leave == emitDrop(after, getFrameDropRange(c, frame, TRUE))
        emptyElse(d) == emitLabel(emitBr(emitLabel(d, <<"else", frame.id>>), cont), cont)
    IN  CASE c.on /\ c.depth > 0 -> [c EXCEPT !.depth = @ - 1]
          [] c.on /\ c.depth = 0 ->
                IF frame.kind = "func" THEN [c EXCEPT !.frames = <<>>]
                ELSE IF frame.kind = "if" THEN emptyElse(after)
                ELSE emitLabel(after, cont)
          [] ~c.on ->
                CASE frame.kind = "func" -> emitBr(leave, <<"return", 0>>)
                  [] frame.kind = "if"   -> emptyElse(emitBr(leave, cont))
                  [] frame.kind \in {"continued", "ifelse", "try_table"} ->
                        emitLabel(emitBr(leave, cont), cont)
                  [] frame.kind \in {"loop", "block"} -> leave

(* Branches.  DropFor is the range a branch to the n-th frame drops. *)
DropFor(c, n) == getFrameDropRange(c, Get(c, n), FALSE)

compileBr(c, i) ==
    LET d == ensureContinuation(c, {i.l})
    IN  IF c.on THEN c
        ELSE markUnreachable(emitBr(emitDrop(d, DropFor(d, i.l)), asLabel(Get(d, i.l))))

(* br_if, br_on_null and br_on_non_null: their operand is popped; the      *)
(* reference of br_on_null is back on the stack where the code goes on.    *)
compileBrIf(c, i) ==
    LET d    == nextFrameID(ensureContinuation(c, {i.l}))
        next == <<"header", d.id>>
        e    == emit(d, [k |-> i.op, target |-> asLabel(Get(d, i.l)), other |-> next,
                         range |-> DropFor(d, i.l)])
    IN  IF c.on THEN c
        ELSE emitLabel(IF i.op = "br_on_null" THEN stackPush(e, <<"tref">>) ELSE e, next)

compileBrTable(c, i) ==
    LET ls == Append(i.ls, i.default)
        d  == ensureContinuation(c, Range(ls))
    IN  IF c.on THEN c
        ELSE markUnreachable(emit(d, [k |-> "br_table",
                targets |-> [n \in DOMAIN ls |-> asLabel(Get(d, ls[n]))],
                ranges  |-> [n \in DOMAIN ls |-> DropFor(d, ls[n])]]))

(* Leaving the function; in unreachable code emit drops both. *)
ReturnFrom(c) ==
    emitBr(emitDrop(c, getFrameDropRange(c, functionFrame(c), FALSE)), asLabel(functionFrame(c)))

compileReturn(c) == markUnreachable(ReturnFrom(c))

(* Exceptions. *)
compileThrow(c, i) ==
    LET taken == IF i.op = "throw" THEN Len(i.tag.params) ELSE 1
        op    == IF i.op = "throw" THEN [k |-> "throw", tag |-> i.tag] ELSE [k |-> "throw_ref"]
    IN  IF c.on THEN c
        ELSE IF taken > Len(c.stack) THEN [c EXCEPT !.err = TRUE]
        ELSE markUnreachable(emit([c EXCEPT !.stack = ButLast(@, taken)], op))

compileTryTable(c, i) ==
    LET d       == ensureContinuation(c, {i.catches[n].l : n \in DOMAIN i.catches})
        clauses == [n \in DOMAIN i.catches |->
                      LET frame == Get(d, i.catches[n].l)
                      IN  [clause |-> i.catches[n], target |-> asLabel(frame), depth |-> frame.len64]]
        e       == pushFrame(d, "try_table", i.bt)
    IN  IF c.on THEN [c EXCEPT !.depth = @ + 1]
        ELSE [e EXCEPT !.table = Append(@, [start |-> Len(e.ops) + 1,
                                            end |-> <<"continuation", e.id>>, clauses |-> clauses])]

(* Locals: the stack is already what it is after the instruction. *)
compileLocal(c, f, i) ==
    LET depth == localDepth(c, f, i.x)
        v128  == LocalTypes(f)[i.x] = "v128"
        w     == IF v128 THEN 2 ELSE 1
        pick(d, n) == emit(d, [k |-> "pick", depth |-> n, v128 |-> v128])
        set(d)     == emit(d, [k |-> "set", depth |-> depth + w, v128 |-> v128])
    IN  CASE i.op = "local.get" -> pick(c, depth - w)
          [] i.op = "local.set" -> set(c)
          [] i.op = "local.tee" -> set(pick(c, w - 1))

(* Calls.  A tail call to an imported function is a call and a return; one *)
(* to the function itself checks the exit code.                            *)
compileCall(c, i) ==
    LET op == [k |-> i.op, type |-> i.type, func |-> i.func,
               range |-> getFrameDropRange(c, functionFrame(c), FALSE)]
        checked == IF c.ensureTermination /\ i.func = c.self THEN emit(c, [k |-> "check_exit"]) ELSE c
    IN  CASE i.op \in {"call", "call_indirect", "call_ref"} -> emit(c, op)
          [] i.op \in {"return_call_indirect", "return_call_ref"} -> markUnreachable(emit(c, op))
          [] i.op = "return_call" ->
                markUnreachable(IF i.import THEN ReturnFrom(emit(c, [op EXCEPT !.k = "call"]))
                                ELSE emit(checked, op))

(* Operations that differ from the instruction in name only. *)
emitOperation(c, i) == emit(c, [k |-> i.op, arg |-> i])

compileGlobal(c, i) == emitOperation(c, i)
compileMemory(c, i) == emitOperation(c, i)
compileNumeric(c, i) == emitOperation(c, i)
compileTable(c, i) == emitOperation(c, i)
compileBulk(c, i) == emitOperation(c, i)
compileAtomic(c, i) == emitOperation(c, i)
compileAtomicRMW(c, i) == emitOperation(c, i)
compileVectorMemory(c, i) == emitOperation(c, i)
compileVectorLane(c, i) == emitOperation(c, i)
compileVectorLogic(c, i) == emitOperation(c, i)
compileVectorArithmetic(c, i) == emitOperation(c, i)

(* A reference is an i64 to be compared with zero. *)
compileRefIsNull(c) == emitOperation(c, [op |-> "eqz", t |-> "i64"])

(* One call of handleInstruction; peek is the type that was on top. *)
Handle(b, f, i) ==
    LET c    == applyToStack(b, f, i)
        peek == IF b.stack = <<>> THEN "none" ELSE Last(b.stack)
    IN  IF c.err THEN c
        ELSE CASE i.op = "nop"         -> c
               [] i.op = "unreachable" -> markUnreachable(emit(c, [k |-> "unreachable"]))
               [] i.op = "const"       -> emit(c, [k |-> "const", vals |-> InSlots(i.t, i.n)])
               [] i.op = "drop"        -> emitDrop(c, <<0, IF peek = "v128" THEN 1 ELSE 0>>)
               [] i.op \in {"select", "typed_select"} ->
                    IF c.on THEN c ELSE emit(c, [k |-> "select", v128 |-> Last(c.stack) = "v128"])
               [] i.op \in {"local.get", "local.set", "local.tee"} -> compileLocal(c, f, i)
               [] i.op = "block"       -> compileBlock(c, i)
               [] i.op = "loop"        -> compileLoop(c, i)
               [] i.op = "if"          -> compileIf(c, i)
               [] i.op = "else"        -> compileElse(c)
               [] i.op = "end"         -> compileEnd(c)
               [] i.op = "br"          -> compileBr(c, i)
               [] i.op \in {"br_if", "br_on_null", "br_on_non_null"} -> compileBrIf(c, i)
               [] i.op = "br_table"    -> compileBrTable(c, i)
               [] i.op = "return"      -> compileReturn(c)
               [] i.op \in {"throw", "throw_ref"} -> compileThrow(c, i)
               [] i.op = "try_table"   -> compileTryTable(c, i)
               [] i.op \in {"call", "return_call", "call_indirect", "return_call_indirect",
                            "call_ref", "return_call_ref"} -> compileCall(c, i)
               [] i.op = "ref.func"    -> emit(c, [k |-> "const", vals |-> <<i.func>>])
               [] i.op = "ref.null"    -> emit(c, [k |-> "const", vals |-> <<0>>])
               [] i.op = "ref.is_null" -> compileRefIsNull(c)
               [] i.op = "ref.as_non_null" -> emit(c, [k |-> i.op])
               [] i.op \in GlobalOps   -> compileGlobal(c, i)
               [] i.op \in MemoryOps   -> compileMemory(c, i)
               [] i.op \in NumericOps  -> compileNumeric(c, i)
               [] i.op \in TableOps    -> compileTable(c, i)
               [] i.op \in BulkOps     -> compileBulk(c, i)
               [] i.op \in AtomicOps   -> compileAtomic(c, i)
               [] i.op \in AtomicRMWOps -> compileAtomicRMW(c, i)
               [] i.op \in VectorMemoryOps -> compileVectorMemory(c, i)
               [] i.op \in VectorLaneOps   -> compileVectorLane(c, i)
               [] i.op \in VectorLogicOps  -> compileVectorLogic(c, i)
               [] i.op \in VectorArithmeticOps -> compileVectorArithmetic(c, i)

(* compile: the operations of function f, whose index is self. *)
compile(mod, f, self, ensureTermination) ==
    LET new == [stack |-> <<>>, frames |-> <<>>, on |-> FALSE, depth |-> 0, id |-> 0, ops |-> <<>>,
                table |-> <<>>, err |-> FALSE, mod |-> mod, self |-> self,
                ensureTermination |-> ensureTermination]
        d   == nextFrameID(initializeStack(new, f))
        in  == [d EXCEPT !.frames = <<[id |-> d.id, kind |-> "func", bt |-> Signature(f),
                                       len |-> 0, len64 |-> 0]>>]
    IN  FoldLeft(LAMBDA c, i : Handle(c, f, i), in, f.body)

(***************************************************************************)
(* lowerIR: labels become addresses.  A return goes past the end of the    *)
(* body; a label that was not emitted would be address 0.                  *)
(***************************************************************************)
setLabelAddress(ops, label) ==
    IF label[1] = "return" THEN Len(ops) + 1
    ELSE LET at == {n \in DOMAIN ops : ops[n].k = "label" /\ ops[n].label = label}
         IN  IF at = {} THEN 0 ELSE Max(at)

lowerOp(ops, op) ==
    CASE op.k = "br" -> [k |-> op.k, target |-> setLabelAddress(ops, op.target)]
      [] op.k \in {"br_if", "br_on_null", "br_on_non_null"} ->
            [k |-> op.k, target |-> setLabelAddress(ops, op.target),
             other |-> setLabelAddress(ops, op.other), range |-> op.range]
      [] op.k = "br_table" ->
            [k |-> op.k, targets |-> [n \in DOMAIN op.targets |-> setLabelAddress(ops, op.targets[n])],
             ranges |-> op.ranges]
      [] OTHER -> op

lowerClause(ops, e) ==
    [clause |-> e.clause, target |-> setLabelAddress(ops, e.target), depth |-> e.depth]

lowerIR(c) ==
    [err   |-> c.err,
     ops   |-> [n \in DOMAIN c.ops |-> lowerOp(c.ops, c.ops[n])],
     table |-> [n \in DOMAIN c.table |->
                 [start |-> c.table[n].start, end |-> setLabelAddress(c.ops, c.table[n].end),
                  clauses |-> [m \in DOMAIN c.table[n].clauses |->
                                 lowerClause(c.ops, c.table[n].clauses[m])]]]]

(* No operand differed from the signature of its opcode (the "input        *)
(* signature mismatch" of applyToStack), and every branch and every handler *)
(* found its label.                                                        *)
Complete(code) ==
    /\ ~code.err
    /\ \A n \in DOMAIN code.ops :
         LET op == code.ops[n]
         IN  CASE op.k = "br" -> op.target # 0
               [] op.k \in {"br_if", "br_on_null", "br_on_non_null"} -> op.target # 0 /\ op.other # 0
               [] op.k = "br_table" -> \A t \in DOMAIN op.targets : op.targets[t] # 0
               [] OTHER -> TRUE
    /\ \A n \in DOMAIN code.table :
         LET e == code.table[n]
         IN  e.end # 0 /\ \A t \in DOMAIN e.clauses : e.clauses[t].target # 0
============================================================================
