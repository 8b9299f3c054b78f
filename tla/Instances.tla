----------------------------- MODULE Instances -----------------------------
(***************************************************************************)
(* What a module instance keeps besides its functions: its memory, tables, *)
(* globals and segments (internal/wasm/memory.go, table.go, store.go).  An *)
(* instance is a record of these.  The memory is a record of the bytes of  *)
(* its Buffer (byte 0 is the first), Cap and Max in pages, whether it is   *)
(* shared, and its allocator: "none", or one that "grows" or "refuses".    *)
(* Its section also has the image an allocator may hand out instead of     *)
(* zeroed memory: "none", one made for this module ("own") or for another  *)
(* ("other"), and the bytes of the image.  The offset of a segment is a    *)
(* number, or that of the global it names.                                 *)
(***************************************************************************)
EXTENDS WasmCode

NoMemory == [none |-> TRUE]
NoMax == -1

MemoryPageSize == 2^(2 * ByteBits)
MaximumTableIndex == 2^(4 * ByteBits - 5)

MemoryPagesToBytesNum(pages) == pages * MemoryPageSize
memoryBytesNumToPages(n) == n \div MemoryPageSize

Zeros(n) == [k \in 1..n |-> 0]

-----------------------------------------------------------------------------
(* Memory.  A shared memory has its maximum from the start. *)
NewMemoryInstance(sec) ==
    [buffer |-> IF sec.image = "none" THEN Zeros(MemoryPagesToBytesNum(sec.min)) ELSE sec.bytes,
     Cap    |-> IF sec.shared /\ sec.alloc = "none" THEN sec.max ELSE sec.cap,
     Max    |-> sec.max,
     shared |-> sec.shared,
     alloc  |-> sec.alloc]

Pages(mem) == memoryBytesNumToPages(Len(mem.buffer))

hasSize(mem, offset, n) == offset + n <= Len(mem.buffer)

(* A little-endian number of n bytes, as ReadByte .. readUint64Le and      *)
(* WriteByte .. writeUint64Le have it.                                     *)
readLe(mem, offset, n) ==
    FoldLeft(LAMBDA v, k : v * 2^ByteBits + mem.buffer[offset + n + 1 - k], 0, [k \in 1..n |-> k])

bytesLe(v, n) == [k \in 1..n |-> (v \div 2^(ByteBits * (k - 1))) % 2^ByteBits]

(* copy(s[at:], t), where t fits. *)
copyAt(s, at, t) ==
    [k \in DOMAIN s |-> IF k > at /\ k <= at + Len(t) THEN t[k - at] ELSE s[k]]

writeLe(mem, offset, n, v) == [mem EXCEPT !.buffer = copyAt(@, offset, bytesLe(v, n))]

(* The result is the pages there were, a refusal, or a panic. *)
Grow(mem, delta) ==
    LET current  == Pages(mem)
        newPages == Uint32(current + delta)
        more     == [mem EXCEPT !.buffer = @ \o Zeros(MemoryPagesToBytesNum(newPages) - Len(@)),
                                !.Cap = IF newPages > @ \/ mem.alloc # "none" THEN newPages ELSE @]
    IN  IF delta = 0 THEN [kind |-> "grown", pages |-> current, mem |-> mem]
        ELSE IF newPages > mem.Max \/ Signed(delta, Width("i32")) < 0 \/ mem.alloc = "refuses"
        THEN [kind |-> "refused"]
        ELSE IF mem.alloc = "none" /\ newPages > mem.Cap /\ mem.shared THEN [kind |-> "panic"]
        ELSE [kind |-> "grown", pages |-> current, mem |-> more]

-----------------------------------------------------------------------------
(* Tables and globals. *)
buildTables(mod) ==
    [n \in DOMAIN mod.tables |->
        [refs |-> [k \in 1..mod.tables[n].min |-> mod.tables[n].init],
         Max |-> mod.tables[n].max]]

TableGrow(table, delta, ref) ==
    LET newLen == Len(table.refs) + delta
    IN  IF delta # 0 /\ (newLen >= MaximumTableIndex \/ (table.Max # NoMax /\ newLen > table.Max))
        THEN [len |-> 2^Width("i32") - 1, table |-> table]
        ELSE [len |-> Len(table.refs), table |-> [table EXCEPT !.refs = @ \o [k \in 1..delta |-> ref]]]

buildGlobals(mod) == [n \in DOMAIN mod.globals |-> InSlots(mod.globals[n].t, mod.globals[n].init)]

evaluateConstExpr(expr, globals) == IF expr.op = "const" THEN expr.n ELSE globals[expr.x][1]

-----------------------------------------------------------------------------
(* Segments. *)
buildElementInstances(mod) ==
    [n \in DOMAIN mod.elems |-> IF mod.elems[n].mode = "passive" THEN mod.elems[n].init ELSE <<>>]

(* Active elements are applied up to the first that is out of bounds. *)
applyElements(mod, tables, globals) ==
    LET offset(e) == Uint32(evaluateConstExpr(e.offset, globals))
        apply(acc, e) ==
            IF acc.stopped \/ e.mode # "active" \/ e.init = <<>> THEN acc
            ELSE IF offset(e) + Len(e.init) > Len(acc.tables[e.table].refs)
            THEN [acc EXCEPT !.stopped = TRUE]
            ELSE [acc EXCEPT !.tables[e.table].refs = copyAt(@, offset(e), e.init)]
    IN  FoldLeft(apply, [stopped |-> FALSE, tables |-> tables], mod.elems).tables

hasImportDependentDataOffsets(datas) ==
    \E n \in DOMAIN datas : datas[n].active /\ datas[n].offset.op = "global.get"

(* Whether the image an allocator handed out stands for the copies. *)
skipCopy(mod) ==
    /\ mod.memory.image = "own"
    /\ ~hasImportDependentDataOffsets(mod.datas)
    /\ ~mod.start

(* Mutant of applyData: a refused image stays in the memory. *)
applyDataKeepsImage(mod, mem, globals) ==
    LET offset(d) == evaluateConstExpr(d.offset, globals)
        apply(acc, d) ==
            IF acc.failed \/ ~d.active THEN acc
            ELSE IF offset(d) + Len(d.bytes) > Len(acc.mem.buffer) THEN [acc EXCEPT !.failed = TRUE]
            ELSE IF skipCopy(mod) THEN acc
            ELSE [acc EXCEPT !.mem.buffer = copyAt(@, offset(d), d.bytes)]
    IN  FoldLeft(apply, [failed |-> FALSE, mem |-> mem], mod.datas)

(* A refused image is cleared.  An active segment that is out of bounds    *)
(* fails the instantiation; the ones before it have been copied.           *)
applyData(mod, mem, globals) ==
    LET offset(d) == evaluateConstExpr(d.offset, globals)
        refused == mod.memory # NoMemory /\ mod.memory.image # "none" /\ ~mem.shared /\ ~skipCopy(mod)
        start   == IF refused THEN [mem EXCEPT !.buffer = Zeros(Len(@))] ELSE mem
        apply(acc, d) ==
            IF acc.failed \/ ~d.active THEN acc
            ELSE IF offset(d) + Len(d.bytes) > Len(acc.mem.buffer) THEN [acc EXCEPT !.failed = TRUE]
            ELSE IF skipCopy(mod) /\ ~mem.shared THEN acc
            ELSE [acc EXCEPT !.mem.buffer = copyAt(@, offset(d), d.bytes)]
    IN  FoldLeft(apply, [failed |-> FALSE, mem |-> start], mod.datas)

(* The instance of a module.  Active data segments stay in datas. *)
instantiate(mod) ==
    LET globals == buildGlobals(mod)
        mem     == IF mod.memory = NoMemory THEN NoMemory ELSE NewMemoryInstance(mod.memory)
        data    == applyData(mod, mem, globals)
    IN  [mem |-> data.mem, failed |-> data.failed, globals |-> globals,
         tables |-> applyElements(mod, buildTables(mod), globals),
         datas |-> [n \in DOMAIN mod.datas |-> mod.datas[n].bytes],
         elems |-> buildElementInstances(mod)]
============================================================================
