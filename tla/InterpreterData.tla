-------------------------- MODULE InterpreterData --------------------------
(***************************************************************************)
(* The operations of callNativeFunc                                        *)
(* (internal/engine/interpreter/interpreter.go) that read or write the     *)
(* instance: memory, tables, globals and segments.  An operation is a      *)
(* function of its immediates i, the uint64 it pops (the first is the      *)
(* deepest) and the instance; the result is the values it pushes and the   *)
(* instance it leaves, or the reason of a panic, which leaves the instance *)
(* as it is.                                                               *)
(***************************************************************************)
EXTENDS InterpreterNumeric, Instances

Push(vals, inst) == [trap |-> "none", vals |-> vals, inst |-> inst]

OutOfBounds == Fault("out_of_bounds")
InvalidTableAccess == Fault("table")

(* The offset, which is past any memory when it exceeds 32 bits. *)
popMemoryOffset(off, v) == off + Uint32(v)
Addressable(n) == n < 2^Width("i32")

(* Load, Load8, Load16 and Load32: i.w bytes of i.t, i.s when signed. *)
LoadOp(i, a, inst) ==
    LET offset == popMemoryOffset(i.off, a[1])
        v      == readLe(inst.mem, offset, i.w)
    IN  IF ~Addressable(offset) \/ ~hasSize(inst.mem, offset, i.w) THEN OutOfBounds
        ELSE Push(<<IF i.s THEN Wrap(Signed(v, i.w * ByteBits), Width(i.t)) ELSE v>>, inst)

(* Store, Store8, Store16 and Store32. *)
StoreOp(i, a, inst) ==
    LET offset == popMemoryOffset(i.off, a[1])
    IN  IF ~Addressable(offset) \/ ~hasSize(inst.mem, offset, i.w) THEN OutOfBounds
        ELSE Push(<<>>, [inst EXCEPT !.mem = writeLe(@, offset, i.w, Wrap(a[2], i.w * ByteBits))])

MemorySizeOp(inst) == Push(<<Pages(inst.mem)>>, inst)

MemoryGrowOp(a, inst) ==
    LET g == Grow(inst.mem, Uint32(a[1]))
    IN  CASE g.kind = "refused" -> Push(<<2^Width("i32") - 1>>, inst)
          [] g.kind = "grown"   -> Push(<<g.pages>>, [inst EXCEPT !.mem = g.mem])
          [] g.kind = "panic"   -> Fault("panic")

GlobalOp(i, a, inst) ==
    CASE i.op = "global.get" -> Push(inst.globals[i.x], inst)
      [] i.op = "global.set" -> Push(<<>>, [inst EXCEPT !.globals[i.x] = a])

(* The sums are of 64 bits. *)
Fits(at, n, len) == at + n <= len

(* MemoryInit, DataDrop, MemoryCopy, MemoryFill *)
MemoryBulkOp(i, a, inst) ==
    LET to   == Uint32(a[1])
        from == Uint32(a[2])
        n    == Uint32(a[3])
        len  == Len(inst.mem.buffer)
        write(bytes) == Push(<<>>, [inst EXCEPT !.mem.buffer = copyAt(@, to, bytes)])
    IN  CASE i.op = "memory.init" ->
                IF ~Fits(from, n, Len(inst.datas[i.seg])) \/ ~Fits(to, n, len) THEN OutOfBounds
                ELSE write(SubSeq(inst.datas[i.seg], from + 1, from + n))
          [] i.op = "memory.copy" ->
                IF ~Fits(from, n, len) \/ ~Fits(to, n, len) THEN OutOfBounds
                ELSE write(SubSeq(inst.mem.buffer, from + 1, from + n))
          [] i.op = "memory.fill" ->
                IF ~Fits(to, n, len) THEN OutOfBounds
                ELSE write([k \in 1..n |-> Wrap(a[2], ByteBits)])
          [] i.op = "data.drop" -> Push(<<>>, [inst EXCEPT !.datas[i.seg] = <<>>])

(* TableInit, ElemDrop, TableCopy, TableFill *)
TableBulkOp(i, a, inst) ==
    LET to   == Uint32(a[1])
        from == Uint32(a[2])
        n    == Uint32(a[3])
        refs(x) == inst.tables[x].refs
        write(x, s) == Push(<<>>, [inst EXCEPT !.tables[x].refs = copyAt(@, to, s)])
    IN  CASE i.op = "table.init" ->
                IF ~Fits(from, n, Len(inst.elems[i.seg])) \/ ~Fits(to, n, Len(refs(i.x)))
                THEN InvalidTableAccess
                ELSE write(i.x, SubSeq(inst.elems[i.seg], from + 1, from + n))
          [] i.op = "table.copy" ->
                IF ~Fits(from, n, Len(refs(i.y))) \/ ~Fits(to, n, Len(refs(i.x))) THEN InvalidTableAccess
                ELSE write(i.x, SubSeq(refs(i.y), from + 1, from + n))
          [] i.op = "table.fill" ->
                IF ~Fits(to, n, Len(refs(i.x))) THEN InvalidTableAccess
                ELSE write(i.x, [k \in 1..n |-> a[2]])
          [] i.op = "elem.drop" -> Push(<<>>, [inst EXCEPT !.elems[i.seg] = <<>>])

(* TableGet, TableSet, TableSize, TableGrow *)
TableOp(i, a, inst) ==
    LET table == inst.tables[i.x]
        n     == Uint32(a[1])
        g     == TableGrow(table, Uint32(a[2]), a[1])
    IN  CASE i.op = "table.size" -> Push(<<Len(table.refs)>>, inst)
          [] i.op = "table.grow" -> Push(<<g.len>>, [inst EXCEPT !.tables[i.x] = g.table])
          [] i.op \in {"table.get", "table.set"} ->
                IF n >= Len(table.refs) THEN InvalidTableAccess
                ELSE IF i.op = "table.get" THEN Push(<<table.refs[n + 1]>>, inst)
                ELSE Push(<<>>, [inst EXCEPT !.tables[i.x].refs[n + 1] = a[2]])

(* Atomic accesses of i.w bytes, as the only guest at work on the memory:  *)
(* each holds Mux from its first access to its last.                       *)
Unaligned == Fault("unaligned")

AtomicAccess(i, a, inst, do(_)) ==
    LET offset == popMemoryOffset(i.off, a[1])
    IN  IF ~Addressable(offset) THEN OutOfBounds
        ELSE IF offset % i.w # 0 THEN Unaligned
        ELSE IF ~hasSize(inst.mem, offset, i.w) THEN OutOfBounds
        ELSE do(offset)

(* AtomicLoad, AtomicLoad8, AtomicLoad16 *)
AtomicLoad(i, a, inst) ==
    AtomicAccess(i, a, inst, LAMBDA offset : Push(<<readLe(inst.mem, offset, i.w)>>, inst))

(* AtomicStore, AtomicStore8, AtomicStore16 *)
AtomicStore(i, a, inst) ==
    AtomicAccess(i, a, inst, LAMBDA offset :
        Push(<<>>, [inst EXCEPT !.mem = writeLe(@, offset, i.w, Wrap(a[2], i.w * ByteBits))]))

(* AtomicRMW, AtomicRMW8, AtomicRMW16 *)
atomicArithmetic(f, old, val) ==
    CASE f = "add" -> old + val [] f = "sub" -> old - val [] f = "xchg" -> val
      [] f \in {"and", "or", "xor"} -> WordOp[f, old, val]
AtomicRMW(i, a, inst) ==
    LET w == i.w * ByteBits
        rmw(offset, old) ==
            Push(<<old>>, [inst EXCEPT !.mem = writeLe(@, offset, i.w, Wrap(atomicArithmetic(i.f, old, Wrap(a[2], w)), w))])
    IN  AtomicAccess(i, a, inst, LAMBDA offset : rmw(offset, readLe(inst.mem, offset, i.w)))

(* AtomicRMWCmpxchg, AtomicRMW8Cmpxchg, AtomicRMW16Cmpxchg: what is        *)
(* expected is cut to the bytes there are.                                 *)
AtomicCmpxchg(i, a, inst) ==
    LET w == i.w * ByteBits
        exchange(offset, old) ==
            Push(<<old>>, IF old # Wrap(a[2], w) THEN inst
                          ELSE [inst EXCEPT !.mem = writeLe(@, offset, i.w, Wrap(a[3], w))])
    IN  AtomicAccess(i, a, inst, LAMBDA offset : exchange(offset, readLe(inst.mem, offset, i.w)))

(* Nobody notifies: a wait that is not refused ends with its timeout (for  *)
(* others, see MemoryWait).                                                *)
AtomicMemoryWait(i, a, inst) ==
    IF Addressable(popMemoryOffset(i.off, a[1])) /\ ~inst.mem.shared THEN Fault("expected_shared")
    ELSE AtomicAccess(i, a, inst, LAMBDA offset :
            Push(<<IF readLe(inst.mem, offset, i.w) # Wrap(a[2], i.w * ByteBits) THEN 1 ELSE 2>>, inst))

(* Nobody waits.  Size is of 32 bits. *)
AtomicMemoryNotify(i, a, inst) ==
    LET offset == popMemoryOffset(i.off, a[1])
    IN  IF ~Addressable(offset) THEN OutOfBounds
        ELSE IF offset % 4 # 0 THEN Unaligned
        ELSE IF offset >= Uint32(Len(inst.mem.buffer)) THEN OutOfBounds
        ELSE Push(<<0>>, inst)

(* The operations by the kinds of callNativeFunc, and the uint64 they pop. *)
NumericKinds == {"eqz", "compare", "unary", "extend", "convert", "binary"}
MemoryKinds == {"load", "store", "memory.size", "memory.grow"}
MemoryBulkKinds == {"memory.init", "memory.copy", "memory.fill", "data.drop"}
TableKinds == {"table.get", "table.set", "table.size", "table.grow"}
TableBulkKinds == {"table.init", "table.copy", "table.fill", "elem.drop"}
GlobalKinds == {"global.get", "global.set"}
AtomicKinds ==
    {"atomic.load", "atomic.store", "atomic.rmw", "atomic.cmpxchg", "atomic.wait", "atomic.notify", "atomic.fence"}
DataKinds ==
    NumericKinds \cup MemoryKinds \cup MemoryBulkKinds \cup TableKinds \cup TableBulkKinds \cup GlobalKinds
    \cup AtomicKinds

Pops(i, inst) ==
    CASE i.op \in {"memory.size", "table.size", "data.drop", "elem.drop", "global.get", "atomic.fence"} -> 0
      [] i.op \in {"eqz", "unary", "extend", "convert", "load", "memory.grow", "table.get", "atomic.load"} -> 1
      [] i.op \in {"compare", "binary", "store", "table.set", "table.grow", "atomic.store", "atomic.rmw", "atomic.notify"} -> 2
      [] i.op \in {"memory.init", "memory.copy", "memory.fill", "table.init", "table.copy", "table.fill",
                   "atomic.cmpxchg", "atomic.wait"} -> 3
      [] i.op = "global.set" -> Len(inst.globals[i.x])

Operate(i, a, inst) ==
    CASE i.op \in NumericKinds ->
            LET r == NumericOp(i, a) IN IF r.trap = "none" THEN Push(r.vals, inst) ELSE r
      [] i.op = "load"  -> LoadOp(i, a, inst)
      [] i.op = "store" -> StoreOp(i, a, inst)
      [] i.op = "memory.size" -> MemorySizeOp(inst)
      [] i.op = "memory.grow" -> MemoryGrowOp(a, inst)
      [] i.op \in GlobalKinds -> GlobalOp(i, a, inst)
      [] i.op \in MemoryBulkKinds -> MemoryBulkOp(i, a, inst)
      [] i.op \in TableKinds -> TableOp(i, a, inst)
      [] i.op \in TableBulkKinds -> TableBulkOp(i, a, inst)
      [] i.op = "atomic.load"    -> AtomicLoad(i, a, inst)
      [] i.op = "atomic.store"   -> AtomicStore(i, a, inst)
      [] i.op = "atomic.rmw"     -> AtomicRMW(i, a, inst)
      [] i.op = "atomic.cmpxchg" -> AtomicCmpxchg(i, a, inst)
      [] i.op = "atomic.wait"    -> AtomicMemoryWait(i, a, inst)
      [] i.op = "atomic.notify"  -> AtomicMemoryNotify(i, a, inst)
      [] i.op = "atomic.fence"   -> Push(<<>>, inst)
============================================================================
