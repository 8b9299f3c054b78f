------------------------------ MODULE WasmData ------------------------------
(***************************************************************************)
(* What the instructions on data mean in WebAssembly: numbers, memory,     *)
(* tables, globals and segments.  A value is its kind and a number; an     *)
(* integer is the set of its bits where that says more; addresses and      *)
(* lengths are not of any width.  The store is a record of                 *)
(*   mem, max, grows  the bytes of the memory, the pages it may have and   *)
(*                    whether the host lets it grow                        *)
(*   tables, globals  sequences of references and their limits, and values *)
(*   datas, elems     the segments                                         *)
(*   kept             active data segments: WebAssembly drops them once    *)
(*                    they are in memory and the program does not, so that *)
(*                    memory.init of one is left open                      *)
(***************************************************************************)
EXTENDS Floats, Instances

Bits(n, w) == {k \in 0..(w - 1) : (n \div 2^k) % 2 = 1}
OfBits(S) == MapThenSumSet(LAMBDA k : 2^k, S)
SignExtended(n, w, to) == OfBits({k \in 0..(to - 1) : Min({k, w - 1}) \in Bits(n, w)})

TruncatedQuotient(n, d) ==
    LET m == IF d < 0 THEN -n ELSE n
        e == IF d < 0 THEN -d ELSE d
    IN  m \div e + (IF m < 0 /\ m % e # 0 THEN 1 ELSE 0)

IntegerUnary(f, w, x) ==
    CASE f = "clz"    -> Cardinality({k \in 0..(w - 1) : x < 2^k})
      [] f = "ctz"    -> Cardinality({k \in 1..w : x % 2^k = 0})
      [] f = "popcnt" -> Cardinality(Bits(x, w))

IntegerTrap(f, w, x, y) ==
    CASE f \in {"div_s", "div_u", "rem_s", "rem_u"} /\ y = 0 -> "divide_by_zero"
      [] f = "div_s" /\ y # 0 /\ TruncatedQuotient(Signed(x, w), Signed(y, w)) = 2^(w - 1) -> "integer_overflow"
      [] OTHER -> "none"

IntegerBinary(f, w, x, y) ==
    LET X == Bits(x, w)
        Y == Bits(y, w)
        n == Signed(x, w)
        d == Signed(y, w)
        k == y % w
    IN  CASE f = "add"   -> (x + y) % 2^w
          [] f = "sub"   -> (x - y) % 2^w
          [] f = "mul"   -> MapThenSumSet(LAMBDA j : (x % 2^(w - j)) * 2^j, Y) % 2^w
          [] f = "div_u" -> x \div y
          [] f = "rem_u" -> x % y
          [] f = "div_s" -> TruncatedQuotient(n, d) % 2^w
          [] f = "rem_s" -> (n - d * TruncatedQuotient(n, d)) % 2^w
          [] f = "and"   -> OfBits(X \cap Y)
          [] f = "or"    -> OfBits(X \cup Y)
          [] f = "xor"   -> OfBits((X \cup Y) \ (X \cap Y))
          [] f = "shl"   -> OfBits({j + k : j \in X} \cap (0..(w - 1)))
          [] f = "shr_u" -> OfBits({j - k : j \in X} \cap (0..(w - 1)))
          [] f = "shr_s" -> OfBits({j \in 0..(w - 1) : Min({j + k, w - 1}) \in X})
          [] f = "rotl"  -> OfBits({(j + k) % w : j \in X})
          [] f = "rotr"  -> OfBits({(j - k) % w : j \in X})

(* Floating point.  A NaN that is computed may be any quiet one. *)
Rounded(f, w, x) ==
    LET odd == IntegerPart(x, w) % 2 = 1
        away == CASE f = "ceil"    -> ~Negative(x, w)
                  [] f = "floor"   -> Negative(x, w)
                  [] f = "trunc"   -> FALSE
                  [] f = "nearest" -> Fraction(x, w) = "more" \/ (Fraction(x, w) = "half" /\ odd)
    IN  CASE IsNaN(x, w) -> CanonicalNaN(w)
          [] IsInf(x, w) -> x
          [] Magnitude(x, w) < Inf(w) ->
                IF Fraction(x, w) = "none" THEN x
                ELSE Integral(x, IntegerPart(x, w) + (IF away THEN 1 ELSE 0), w)

FloatUnary(f, w, x) ==
    CASE f = "abs"  -> OfBits(Bits(x, w) \ {w - 1})
      [] f = "neg"  -> IF w - 1 \in Bits(x, w) THEN OfBits(Bits(x, w) \ {w - 1}) ELSE OfBits(Bits(x, w) \cup {w - 1})
      [] f = "sqrt" -> FloatArithmetic(f, w, <<x>>)
      [] f \in {"ceil", "floor", "trunc", "nearest"} -> Rounded(f, w, x)

(* A zero of negative sign is less than the other. *)
Order(x, w) == IF Negative(x, w) THEN -1 - Magnitude(x, w) ELSE Magnitude(x, w)

FloatBinary(f, w, x, y) ==
    CASE f \in {"add", "sub", "mul", "div"} -> FloatArithmetic(f, w, <<x, y>>)
      [] f \in {"min", "max"} ->
            IF IsNaN(x, w) \/ IsNaN(y, w) THEN CanonicalNaN(w)
            ELSE IF (Order(x, w) < Order(y, w)) = (f = "min") THEN x ELSE y
      [] f = "copysign" -> OfBits((Bits(x, w) \ {w - 1}) \cup (Bits(y, w) \cap {w - 1}))

Compares(f, t, x, y) ==
    LET w    == Width(t)
        real == t \in {"f32", "f64"}
        sgn  == f \in {"lt_s", "gt_s", "le_s", "ge_s"}
        less(a, b) == IF real THEN FloatLess(a, b, w)
                      ELSE IF sgn THEN Signed(a, w) < Signed(b, w) ELSE a < b
        equal == IF real THEN FloatEqual(x, y, w) ELSE x = y
    IN  CASE f = "eq" -> equal
          [] f = "ne" -> ~equal
          [] f \in {"lt", "lt_s", "lt_u"} -> less(x, y)
          [] f \in {"gt", "gt_s", "gt_u"} -> less(y, x)
          [] f \in {"le", "le_s", "le_u"} -> equal \/ less(x, y)
          [] f \in {"ge", "ge_s", "ge_u"} -> equal \/ less(y, x)

(* A number to an integer: what it is without its fraction, if it fits. *)
ToInteger(f, t, from, x) ==
    LET fw  == Width(from)
        n   == IF Negative(x, fw) THEN -IntegerPart(x, fw) ELSE IntegerPart(x, fw)
        low == IF f \in {"trunc_s", "trunc_sat_s"} THEN -(2^(Width(t) - 1)) ELSE 0
        high == low + 2^Width(t) - 1
        fits == n >= low /\ n <= high
    IN  IF f \in {"trunc_sat_s", "trunc_sat_u"}
        THEN [trap |-> "none",
              n |-> IF IsNaN(x, fw) THEN 0 ELSE Max({low, Min({high, n})}) % 2^Width(t)]
        ELSE [trap |-> IF IsNaN(x, fw) THEN "invalid_conversion" ELSE IF fits THEN "none" ELSE "integer_overflow",
              n |-> n % 2^Width(t)]

Converts(f, t, from, x) ==
    CASE f = "wrap" -> x % 2^Width(t)
      [] f \in {"extend_u", "reinterpret"} -> x
      [] f = "extend_s" -> SignExtended(x, Width(from), Width(t))
      [] f \in {"demote", "promote"} -> FloatArithmetic(f, Width(t), <<x>>)
      [] f = "convert_s" -> FromInteger(Signed(x, Width(from)), Width(t))
      [] f = "convert_u" -> FromInteger(x, Width(t))

-----------------------------------------------------------------------------
(* The store of a module. *)
RefValue(n) == IF n = 0 THEN <<"null", 0>> ELSE <<"func", n>>
ValueOf(t, n) == IF isReferenceValueType(t) THEN RefValue(n) ELSE <<t, n>>

OffsetIn(mod, expr) == IF expr.op = "const" THEN expr.n ELSE mod.globals[expr.x].init

(* What the segments S put at k, the last of them last, or else v. *)
Overlaid(mod, S, at(_), k, v) ==
    LET over == {n \in S : k - OffsetIn(mod, at(n).offset) \in 1..Len(at(n).put)}
        d    == at(Max(over))
    IN  IF over = {} THEN v ELSE d.put[k - OffsetIn(mod, d.offset)]

StoreOf(mod) ==
    LET data(n) == [offset |-> mod.datas[n].offset, put |-> mod.datas[n].bytes]
        elem(n) == [offset |-> mod.elems[n].offset, put |-> mod.elems[n].init]
        ends(s) == OffsetIn(mod, s.offset) + Len(s.put)
        active  == {n \in DOMAIN mod.datas : mod.datas[n].active}
        has     == mod.memory # NoMemory
        size    == IF has THEN mod.memory.min * MemoryPageSize ELSE 0
        placed  == {n \in DOMAIN mod.elems : mod.elems[n].mode = "active" /\ mod.elems[n].init # <<>>}
        out     == {n \in placed : ends(elem(n)) > mod.tables[mod.elems[n].table].min}
        done    == {n \in placed : \A o \in out : n < o}
    IN  [failed  |-> \E n \in active : ends(data(n)) > size,
         mem     |-> [k \in 1..size |-> Overlaid(mod, active, data, k, 0)],
         max     |-> IF has THEN mod.memory.max ELSE 0,
         grows   |-> has /\ mod.memory.alloc # "refuses",
         shared  |-> has /\ mod.memory.shared,
         tables  |-> [x \in DOMAIN mod.tables |->
                        [refs |-> [k \in 1..mod.tables[x].min |->
                            RefValue(Overlaid(mod, {n \in done : mod.elems[n].table = x}, elem, k, mod.tables[x].init))],
                         max |-> mod.tables[x].max]],
         globals |-> [x \in DOMAIN mod.globals |-> ValueOf(mod.globals[x].t, mod.globals[x].init)],
         datas   |-> [n \in DOMAIN mod.datas |-> mod.datas[n].bytes],
         kept    |-> active,
         elems   |-> [n \in DOMAIN mod.elems |->
                        IF mod.elems[n].mode # "passive" THEN <<>>
                        ELSE [k \in DOMAIN mod.elems[n].init |-> RefValue(mod.elems[n].init[k])]]]

-----------------------------------------------------------------------------
(* The instructions.  OperandTypes are those of what they pop. *)
NumberInstrs == {"eqz", "compare", "unary", "extend", "binary", "convert"}
MemoryInstrs == {"load", "store", "memory.size", "memory.grow", "memory.init", "memory.copy", "memory.fill", "data.drop"}
TableInstrs == {"table.get", "table.set", "table.size", "table.grow", "table.init", "table.copy", "table.fill", "elem.drop"}
GlobalInstrs == {"global.get", "global.set"}
AtomicInstrs ==
    {"atomic.load", "atomic.store", "atomic.rmw", "atomic.cmpxchg", "atomic.wait", "atomic.notify", "atomic.fence"}
DataInstrs == NumberInstrs \cup MemoryInstrs \cup TableInstrs \cup GlobalInstrs \cup AtomicInstrs

OperandTypes(mod, i) ==
    CASE i.op \in {"eqz", "unary", "extend"} -> <<i.t>>
      [] i.op \in {"compare", "binary"} -> <<i.t, i.t>>
      [] i.op = "convert" -> <<i.from>>
      [] i.op = "store" -> <<"i32", i.t>>
      [] i.op \in {"load", "memory.grow", "table.get"} -> <<"i32">>
      [] i.op = "atomic.load" -> <<"i32">>
      [] i.op \in {"atomic.store", "atomic.rmw"} -> <<"i32", i.t>>
      [] i.op = "atomic.cmpxchg" -> <<"i32", i.t, i.t>>
      [] i.op = "atomic.wait"    -> <<"i32", i.t, "i64">>
      [] i.op = "atomic.notify"  -> <<"i32", "i32">>
      [] i.op = "table.set"  -> <<"i32", mod.tables[i.x].type>>
      [] i.op = "table.grow" -> <<mod.tables[i.x].type, "i32">>
      [] i.op = "table.fill" -> <<"i32", mod.tables[i.x].type, "i32">>
      [] i.op = "global.set" -> <<mod.globals[i.x].t>>
      [] i.op \in {"memory.init", "memory.copy", "memory.fill", "table.init", "table.copy"} -> <<"i32", "i32", "i32">>
      [] OTHER -> <<>>

Gives(vals, store) == [trap |-> "none", vals |-> vals, store |-> store]
Traps(why) == [trap |-> why]

NumberEffect(i, a, store) ==
    LET x == a[1][2]
        y == a[2][2]
        w == Width(i.t)
        real == i.t \in {"f32", "f64"}
        gives(t, n) == Gives(<<<<t, n>>>>, store)
        truth(b) == gives("i32", IF b THEN 1 ELSE 0)
        int == ToInteger(i.f, i.t, i.from, x)
    IN  CASE i.op = "eqz"     -> truth(x = 0)
          [] i.op = "compare" -> truth(Compares(i.f, i.t, x, y))
          [] i.op = "unary"   -> gives(i.t, IF real THEN FloatUnary(i.f, w, x) ELSE IntegerUnary(i.f, w, x))
          [] i.op = "extend"  -> gives(i.t, SignExtended(x % 2^Width(i.from), Width(i.from), w))
          [] i.op = "binary"  ->
                IF real THEN gives(i.t, FloatBinary(i.f, w, x, y))
                ELSE IF IntegerTrap(i.f, w, x, y) # "none" THEN Traps(IntegerTrap(i.f, w, x, y))
                ELSE gives(i.t, IntegerBinary(i.f, w, x, y))
          [] i.op = "convert" ->
                IF i.f \in {"trunc_s", "trunc_u", "trunc_sat_s", "trunc_sat_u"}
                THEN IF int.trap = "none" THEN gives(i.t, int.n) ELSE Traps(int.trap)
                ELSE gives(i.t, Converts(i.f, i.t, i.from, x))

(* s with n elements from place at (counted from 0) on replaced. *)
Replaced(s, at, n, by(_)) ==
    [k \in DOMAIN s |-> IF k - at - 1 \in 0..(n - 1) THEN by(k - at - 1) ELSE s[k]]

(* Atomic accesses, by one agent: a number is read, and another written.   *)
(* An address has to be aligned.  There is nobody to wait for or to wake.  *)
AtomicEffect(i, a, store) ==
    LET arg(k) == a[k][2]
        at  == arg(1) + i.off
        w   == i.w * ByteBits
        old == MapThenSumSet(LAMBDA k : store.mem[at + k + 1] * 2^(ByteBits * k), 0..(i.w - 1))
        written(n) == [store EXCEPT !.mem = Replaced(@, at, i.w, LAMBDA k : (n \div 2^(ByteBits * k)) % 2^ByteBits)]
        trap == CASE i.op = "atomic.fence" -> "none"
                  [] OTHER -> IF at >= 2^Width("i32") THEN "out_of_bounds"
                              ELSE IF i.op = "atomic.wait" /\ ~store.shared THEN "expected_shared"
                              ELSE IF at % i.w # 0 THEN "unaligned"
                              ELSE IF at + i.w > Len(store.mem) THEN "out_of_bounds"
                              ELSE IF i.op = "atomic.notify" /\ Len(store.mem) = 2^Width("i32") THEN "wraps"
                              ELSE "none"
    IN  IF trap # "none" THEN Traps(trap)
        ELSE CASE i.op = "atomic.fence"   -> Gives(<<>>, store)
               [] i.op = "atomic.load"    -> Gives(<<<<i.t, old>>>>, store)
               [] i.op = "atomic.store"   -> Gives(<<>>, written(arg(2) % 2^w))
               [] i.op = "atomic.rmw"     ->
                    Gives(<<<<i.t, old>>>>,
                          written(IF i.f = "xchg" THEN arg(2) % 2^w ELSE IntegerBinary(i.f, w, old, arg(2) % 2^w)))
               [] i.op = "atomic.cmpxchg" ->
                    Gives(<<<<i.t, old>>>>, IF old = arg(2) % 2^w THEN written(arg(3) % 2^w) ELSE store)
               [] i.op = "atomic.wait"    -> Gives(<<<<"i32", IF old = arg(2) THEN 2 ELSE 1>>>>, store)
               [] i.op = "atomic.notify"  -> Gives(<<<<"i32", 0>>>>, store)

MemoryEffect(i, a, store) ==
    LET arg(k) == a[k][2]
        mem   == store.mem
        pages == Len(mem) \div MemoryPageSize
        at    == arg(1) + i.off
        n     == MapThenSumSet(LAMBDA k : mem[at + k + 1] * 2^(ByteBits * k), 0..(i.w - 1))
        digit(v, k) == (v \div 2^(ByteBits * k)) % 2^ByteBits
        fill(to, len, by(_)) == Gives(<<>>, [store EXCEPT !.mem = Replaced(@, to, len, by)])
        beyond(from, len, s) == from + len > Len(s)
    IN  CASE i.op = "load" ->
                IF beyond(at, i.w, mem) THEN Traps("out_of_bounds")
                ELSE Gives(<<<<i.t, IF i.s THEN SignExtended(n, i.w * ByteBits, Width(i.t)) ELSE n>>>>, store)
          [] i.op = "store" ->
                IF beyond(at, i.w, mem) THEN Traps("out_of_bounds")
                ELSE fill(at, i.w, LAMBDA k : digit(arg(2), k))
          [] i.op = "memory.size" -> Gives(<<<<"i32", pages>>>>, store)
          [] i.op = "memory.grow" ->
                IF arg(1) # 0 /\ (pages + arg(1) > store.max \/ ~store.grows)
                THEN Gives(<<<<"i32", 2^Width("i32") - 1>>>>, store)
                ELSE Gives(<<<<"i32", pages>>>>, [store EXCEPT !.mem = @ \o [k \in 1..(arg(1) * MemoryPageSize) |-> 0]])
          [] i.op = "memory.init" ->
                IF i.seg \in store.kept THEN Traps("kept")
                ELSE IF beyond(arg(2), arg(3), store.datas[i.seg]) \/ beyond(arg(1), arg(3), mem)
                THEN Traps("out_of_bounds")
                ELSE fill(arg(1), arg(3), LAMBDA k : store.datas[i.seg][arg(2) + k + 1])
          [] i.op = "memory.copy" ->
                IF beyond(arg(2), arg(3), mem) \/ beyond(arg(1), arg(3), mem) THEN Traps("out_of_bounds")
                ELSE fill(arg(1), arg(3), LAMBDA k : mem[arg(2) + k + 1])
          [] i.op = "memory.fill" ->
                IF beyond(arg(1), arg(3), mem) THEN Traps("out_of_bounds")
                ELSE fill(arg(1), arg(3), LAMBDA k : digit(arg(2), 0))
          [] i.op = "data.drop" ->
                Gives(<<>>, [store EXCEPT !.datas[i.seg] = <<>>, !.kept = @ \ {i.seg}])

TableEffect(i, a, store) ==
    LET arg(k) == a[k][2]
        refs(x) == store.tables[x].refs
        size == Len(refs(i.x))
        new  == size + arg(2)
        fill(len, by(_)) == Gives(<<>>, [store EXCEPT !.tables[i.x].refs = Replaced(@, arg(1), len, by)])
        beyond(from, len, s) == from + len > Len(s)
    IN  CASE i.op = "elem.drop"  -> Gives(<<>>, [store EXCEPT !.elems[i.seg] = <<>>])
          [] i.op = "table.size" -> Gives(<<<<"i32", size>>>>, store)
          [] i.op = "table.get"  ->
                IF arg(1) >= size THEN Traps("table") ELSE Gives(<<refs(i.x)[arg(1) + 1]>>, store)
          [] i.op = "table.set"  ->
                IF arg(1) >= size THEN Traps("table") ELSE fill(1, LAMBDA k : a[2])
          [] i.op = "table.grow" ->
                IF arg(2) # 0 /\ (new >= MaximumTableIndex \/ (store.tables[i.x].max # NoMax /\ new > store.tables[i.x].max))
                THEN Gives(<<<<"i32", 2^Width("i32") - 1>>>>, store)
                ELSE Gives(<<<<"i32", size>>>>,
                           [store EXCEPT !.tables[i.x].refs = @ \o [k \in 1..arg(2) |-> a[1]]])
          [] i.op = "table.init" ->
                IF beyond(arg(2), arg(3), store.elems[i.seg]) \/ beyond(arg(1), arg(3), refs(i.x)) THEN Traps("table")
                ELSE fill(arg(3), LAMBDA k : store.elems[i.seg][arg(2) + k + 1])
          [] i.op = "table.copy" ->
                IF beyond(arg(2), arg(3), refs(i.y)) \/ beyond(arg(1), arg(3), refs(i.x)) THEN Traps("table")
                ELSE fill(arg(3), LAMBDA k : refs(i.y)[arg(2) + k + 1])
          [] i.op = "table.fill" ->
                IF beyond(arg(1), arg(3), refs(i.x)) THEN Traps("table") ELSE fill(arg(3), LAMBDA k : a[2])

Effect(i, a, store) ==
    CASE i.op \in NumberInstrs -> NumberEffect(i, a, store)
      [] i.op \in MemoryInstrs -> MemoryEffect(i, a, store)
      [] i.op \in TableInstrs  -> TableEffect(i, a, store)
      [] i.op \in AtomicInstrs -> AtomicEffect(i, a, store)
      [] i.op = "global.get"   -> Gives(<<store.globals[i.x]>>, store)
      [] i.op = "global.set"   -> Gives(<<>>, [store EXCEPT !.globals[i.x] = a[1]])
============================================================================
