------------------------------ MODULE WasmCode ------------------------------
(***************************************************************************)
(* WebAssembly functions as the validator and the interpreter see them:    *)
(* value types, instructions, functions.  An instruction is a record of    *)
(* its opcode op and its immediates.  Opcodes that differ in a type, a     *)
(* width or a sign are one with that as an immediate: "const", "load",     *)
(* "binary".  Function references have one concrete type, (ref $t); there  *)
(* are no other heap types than its functions, all functions and           *)
(* exceptions.  A function is a record of its params, results, locals,     *)
(* body and of the module it belongs to: module 1 is compiled and the      *)
(* others are imported from.  What module 1 declares otherwise is a record *)
(*   memory   NoMemory or its limits in pages and where it comes from      *)
(*            (Instances)                                                  *)
(*   tables   their min, max, type and the reference they are filled with  *)
(*   globals  their type, whether mutable or imported, and initial value   *)
(*   datas    data segments: whether active, offset and bytes              *)
(*   elems    element segments: mode, table, offset and references         *)
(*   start    whether a start function runs                                *)
(***************************************************************************)
EXTENDS Integers, Sequences, SequencesExt

(* The bits of a byte: 8, or fewer where the numbers are to be small.  The *)
(* other widths follow, 4 bytes for an i32 and 8 for an i64 or a uint64.   *)
CONSTANT ByteBits

ASSUME ByteBitsAssumption == ByteBits \in 1..8

Width(t) == CASE t \in {"i32", "f32"} -> 4 * ByteBits [] t = "i8" -> ByteBits
              [] t = "i16" -> 2 * ByteBits [] OTHER -> 8 * ByteBits
Bytes(t) == Width(t) \div ByteBits

(* uint32(v) of a uint64: an i32 may have anything in its upper half. *)
Uint32(v) == v % 2^Width("i32")

(* The signed integer of w bits, and the bits of an integer. *)
Wrap(n, w) == n % 2^w
Signed(n, w) == IF Wrap(n, w) >= 2^(w - 1) THEN Wrap(n, w) - 2^w ELSE Wrap(n, w)

(* Value types: i32, i64, f32, f64, v128, (ref $t) and (ref null $t),      *)
(* (ref func) and funcref, (ref exn) and exnref.                           *)
NonNullable == {"t", "func", "exn"}
Nullable == {"tref", "funcref", "exnref"}

isReferenceValueType(t) == t \in NonNullable \cup Nullable

AsNonNullable(t) ==
    CASE t = "tref" -> "t" [] t = "funcref" -> "func" [] t = "exnref" -> "exn" [] OTHER -> t

isRefSubtypeOf(actual, expected) ==
    \/ actual = expected
    \/ expected \in Nullable /\ actual = AsNonNullable(expected)
    \/ actual = "t" /\ expected \in {"func", "funcref"}
    \/ actual = "tref" /\ expected = "funcref"

areRefTypesCompatible(a, b) == isRefSubtypeOf(a, b) \/ isRefSubtypeOf(b, a)

LocalTypes(f) == f.params \o f.locals

Signature(f) == [params |-> f.params, results |-> f.results]

(* Opcodes by what they work on. *)
NumericOps == {"eqz", "compare", "binary", "unary", "extend", "convert"}
MemoryOps == {"load", "store", "memory.size", "memory.grow"}
GlobalOps == {"global.get", "global.set"}
TableOps == {"table.get", "table.set", "table.size", "table.grow", "table.fill"}
BulkOps == {"memory.init", "memory.copy", "memory.fill", "data.drop", "table.init", "table.copy", "elem.drop"}
AtomicOps == {"atomic.fence", "atomic.load", "atomic.store", "atomic.wait", "atomic.notify"}
AtomicRMWOps == {"atomic.rmw", "atomic.cmpxchg"}
VectorMemoryOps == {"v.load", "v.load_lane", "v.store", "v.store_lane"}
VectorLaneOps == {"v.extract", "v.replace", "v.splat"}
VectorLogicOps == {"v.test", "v.bitselect", "v.shift", "v.compare"}
VectorArithmeticOps == {"v.unary", "v.binary"}
VectorOps == VectorMemoryOps \cup VectorLaneOps \cup VectorLogicOps \cup VectorArithmeticOps

(* The type of a lane outside of a vector. *)
laneResultType(t) == IF t \in {"i8", "i16"} THEN "i32" ELSE t

(* What the decoder makes of the bytes of a function and of its module.    *)
(* Whether labels and the indices of locals, globals, tables and segments  *)
(* exist is for the validator to check.                                    *)
ValueTypes == {"i32", "i64", "f32", "f64", "v128"} \cup NonNullable \cup Nullable
FuncTypes == [params : Seq(ValueTypes), results : Seq(ValueTypes)]

BlockOps == {"block", "loop", "if", "try_table", "else", "end"}
LocalOps == {"local.get", "local.set", "local.tee"}
CallOps == {"call", "call_indirect", "call_ref"}
TailCallOps == {"return_call", "return_call_indirect", "return_call_ref"}
RefOps == {"ref.null", "ref.func", "ref.as_non_null", "ref.is_null"}
BrIfOps == {"br_if", "br_on_null", "br_on_non_null"}
Opcodes ==
    {"nop", "unreachable", "const", "drop", "select", "typed_select", "br", "br_table", "return",
     "throw", "throw_ref"}
    \cup BlockOps \cup LocalOps \cup CallOps \cup TailCallOps \cup RefOps \cup BrIfOps
    \cup NumericOps \cup MemoryOps \cup GlobalOps \cup TableOps \cup BulkOps
    \cup AtomicOps \cup AtomicRMWOps \cup VectorOps

Typed == {"const", "load", "store", "atomic.load", "atomic.store", "atomic.wait"} \cup NumericOps \cup AtomicRMWOps

Decoded(i) ==
    /\ i.op \in Opcodes
    /\ i.op \in Typed => i.t \in ValueTypes
    /\ i.op = "convert" => i.from \in ValueTypes
    /\ i.op \in VectorLaneOps => laneResultType(i.t) \in ValueTypes
    /\ i.op = "ref.null" => isReferenceValueType(i.t)
    /\ i.op \in LocalOps \cup GlobalOps \cup TableOps => i.x \in Nat \ {0}
    /\ i.op \in {"block", "loop", "if", "try_table"} => i.bt \in FuncTypes
    /\ i.op \in {"br"} \cup BrIfOps => i.l \in Nat
    /\ i.op = "br_table" => i.ls \in Seq(Nat) /\ i.default \in Nat
    /\ i.op = "try_table" => \A n \in DOMAIN i.catches : i.catches[n].l \in Nat
    /\ i.op = "throw" => i.tag.params \in Seq(ValueTypes)
    /\ i.op \in CallOps \cup TailCallOps => i.type \in FuncTypes

DecodedFunction(f) ==
    /\ {"params", "results", "locals", "body"} \subseteq DOMAIN f
    /\ f.params \in Seq(ValueTypes)
    /\ f.results \in Seq(ValueTypes)
    /\ f.locals \in Seq(ValueTypes)
    /\ DOMAIN f.body = 1 .. Len(f.body) /\ Len(f.body) \in Nat
    /\ \A n \in DOMAIN f.body : Decoded(f.body[n])

DecodedModule(mod) ==
    /\ \A x \in 1 .. Len(mod.globals) : mod.globals[x].t \in ValueTypes
    /\ \A x \in 1 .. Len(mod.tables) : isReferenceValueType(mod.tables[x].type)
    /\ Len(mod.globals) \in Nat /\ Len(mod.tables) \in Nat

(* The number of uint64 that hold values of these types. *)
Slots(ts) == Len(ts) + Len(SelectSeq(ts, LAMBDA t : t = "v128"))

(* The uint64 of a value: a vector is a pair of them.  A null reference is *)
(* 0, a function or an exception its number.                               *)
Zero(t) == IF t = "v128" THEN <<0, 0>> ELSE 0
InSlots(t, n) == IF t = "v128" THEN n ELSE <<n>>

AllInSlots(ts, ns) == FlattenSeq([k \in DOMAIN ts |-> InSlots(ts[k], ns[k])])

(* The last n elements of s, and s without them. *)
LastOf(s, n) == SubSeq(s, Len(s) - n + 1, Len(s))
ButLast(s, n) == SubSeq(s, 1, Len(s) - n)
============================================================================
