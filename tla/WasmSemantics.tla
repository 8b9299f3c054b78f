--------------------------- MODULE WasmSemantics ---------------------------
(***************************************************************************)
(* What a function means: the semantics of WebAssembly that the engines    *)
(* implement, with a stack of values and a stack of labels for each frame, *)
(* no validation and no compilation.  A value is its kind and a number.    *)
(* The run of a function ends with an outcome:                             *)
(*   "returned", or the trap or exception that ends the call               *)
(*   "illtyped"  a value was not of the type declared where it went        *)
(*   "fuel"      the run was longer than asked for                         *)
(* and, for five instructions the program treats differently (README.md,   *)
(* Disagreements), "loose" when a br_table delivers a value that is not of *)
(* its label's type, "discards" when a br_on_non_null that branches has    *)
(* values to discard, "kept" when memory.init takes an active segment and  *)
(* "wraps" when the upper half of a v128.load is just past the end of 32   *)
(* bits, and when memory.atomic.notify meets a memory of 2^32 bytes.       *)
(* A tail call to another module is a call and a return, as                *)
(* internal/engine/RATIONALE.md has it.                                    *)
(***************************************************************************)
EXTENDS WasmVectors

LOCAL Kind(t) ==
    CASE t \in {"t", "func"} -> {"func"} [] t \in {"tref", "funcref"} -> {"func", "null"}
      [] t = "exn" -> {"exn"}            [] t = "exnref" -> {"exn", "null"}
      [] OTHER -> {t}

AllOf(vals, ts) == Len(vals) = Len(ts) /\ \A k \in DOMAIN ts : vals[k][1] \in Kind(ts[k])

Default(t) == IF isReferenceValueType(t) THEN <<"null", 0>> ELSE <<t, Zero(t)>>
Defaults(ts) == [k \in DOMAIN ts |-> Default(ts[k])]

(* Blocks of a body.  Depth is how many are open after instructions i..j. *)
Opens == {"block", "loop", "if", "try_table"}
Depth(body, i, j) ==
    Len(SelectSeq(SubSeq(body, i, j), LAMBDA x : x.op \in Opens))
    - Len(SelectSeq(SubSeq(body, i, j), LAMBDA x : x.op = "end"))
EndOf(body, i) == Min({j \in i..Len(body) : body[j].op = "end" /\ Depth(body, i, j) = 0})
ElseOf(body, i) ==
    {j \in i..EndOf(body, i) : body[j].op = "else" /\ Depth(body, i, j) = 1}

(* The machine: frames, thrown exceptions, the store and the outcome. *)
Stop(m, why) == [m EXCEPT !.out = [kind |-> why]]
Frame(m) == Last(m.frames)
SetFrame(m, f) == [m EXCEPT !.frames = Append(Front(@), f)]
Enter(p, n, args) ==
    [f |-> n, pc |-> 1, labels |-> <<>>, vals |-> <<>>, tail |-> FALSE,
     locals |-> args \o Defaults(p.functions[n].locals)]

(* The label l of a frame: branching to it, or returning, with its values. *)
Arity(label) == IF label.loop THEN label.bt.params ELSE label.bt.results
TypesAt(p, f, l) ==
    IF l = Len(f.labels) THEN p.functions[f.f].results ELSE Arity(f.labels[Len(f.labels) - l])

FrameReturn(p, m) ==
    LET f    == Frame(m)
        ts   == p.functions[f.f].results
        vals == LastOf(f.vals, Len(ts))
        caller == m.frames[Len(m.frames) - 1]
    IN  IF Len(f.vals) < Len(ts) \/ ~AllOf(vals, ts) THEN Stop(m, "illtyped")
        ELSE IF Len(m.frames) = 1
        THEN [m EXCEPT !.out = [kind |-> "returned", vals |-> vals], !.frames = <<>>]
        ELSE [m EXCEPT !.frames = Append(ButLast(@, 2),
                [caller EXCEPT !.vals = @ \o vals,
                               !.pc = IF caller.tail THEN Len(p.functions[caller.f].body) ELSE @ + 1,
                               !.labels = IF caller.tail THEN <<>> ELSE @,
                               !.tail = FALSE])]

Branch(p, m, l) ==
    LET f     == Frame(m)
        label == f.labels[Len(f.labels) - l]
        ts    == TypesAt(p, f, l)
        vals  == LastOf(f.vals, Len(ts))
    IN  IF Len(f.vals) < Len(ts) \/ ~AllOf(vals, ts) THEN Stop(m, "illtyped")
        ELSE IF l = Len(f.labels) THEN FrameReturn(p, m)
        ELSE SetFrame(m, [f EXCEPT !.vals = SubSeq(@, 1, label.height) \o vals,
                                   !.labels = ButLast(@, IF label.loop THEN l ELSE l + 1),
                                   !.pc = (IF label.loop THEN label.at ELSE label.end) + 1])

Block(p, m, i, pc) ==
    LET f == Frame(m)
    IN  SetFrame(m, [f EXCEPT !.pc = pc,
            !.labels = Append(@, [loop |-> i.op = "loop", at |-> f.pc, bt |-> i.bt,
                                  end |-> EndOf(p.functions[f.f].body, f.pc),
                                  catches |-> IF i.op = "try_table" THEN i.catches ELSE <<>>,
                                  height |-> Len(f.vals) - Len(i.bt.params)])])

(* Calls. *)
CallFunc(p, m, n, ceiling) ==
    LET f    == Frame(m)
        ts   == p.functions[n].params
        args == LastOf(f.vals, Len(ts))
    IN  IF Len(f.vals) < Len(ts) \/ ~AllOf(args, ts) THEN Stop(m, "illtyped")
        ELSE IF Len(m.frames) >= ceiling THEN Stop(m, "overflow")
        ELSE [m EXCEPT !.frames = Append(Append(Front(@), [f EXCEPT !.vals = ButLast(@, Len(ts))]),
                                         Enter(p, n, args))]

TailCall(p, m, n, ceiling) ==
    LET f    == Frame(m)
        ts   == p.functions[n].params
        args == LastOf(f.vals, Len(ts))
    IN  IF p.functions[n].module # p.functions[f.f].module
        THEN CallFunc(p, SetFrame(m, [f EXCEPT !.tail = TRUE]), n, ceiling)
        ELSE IF Len(f.vals) < Len(ts) \/ ~AllOf(args, ts) THEN Stop(m, "illtyped")
        ELSE SetFrame(m, Enter(p, n, args))

(* An exception goes to the innermost label of the innermost frame with a  *)
(* clause that matches, and as a branch to that clause's label, which is   *)
(* counted from outside the try_table.                                     *)
Matches(clause, e) == clause.kind \in {"catch", "catch_ref"} => clause.tag = e.tag

Raise(p, m, ref) ==
    LET e == m.exns[ref]
        catches(n, k) == m.frames[n].labels[k].catches
        able == {h \in UNION {{<<n, k>> : k \in DOMAIN m.frames[n].labels} : n \in DOMAIN m.frames} :
                    \E c \in DOMAIN catches(h[1], h[2]) : Matches(catches(h[1], h[2])[c], e)}
        n == Max({h[1] : h \in able})
        k == Max({h[2] : h \in {o \in able : o[1] = n}})
        c == Min({d \in DOMAIN catches(n, k) : Matches(catches(n, k)[d], e)})
        clause == catches(n, k)[c]
        vals == (IF clause.kind \in {"catch", "catch_ref"} THEN e.params ELSE <<>>)
                \o (IF clause.kind \in {"catch_ref", "catch_all_ref"} THEN <<<<"exn", ref>>>> ELSE <<>>)
        f == m.frames[n]
    IN  IF able = {} THEN Stop(m, "uncaught")
        ELSE Branch(p, [m EXCEPT !.frames = Append(SubSeq(@, 1, n - 1),
                            [f EXCEPT !.labels = SubSeq(@, 1, k - 1), !.vals = @ \o vals, !.tail = FALSE])],
                    clause.l)

(* An instruction on data takes k values and has effect e. *)
Affected(m, k, e) ==
    LET f == Frame(m)
    IN  IF e.trap # "none" THEN Stop(m, e.trap)
        ELSE SetFrame([m EXCEPT !.store = e.store], [f EXCEPT !.vals = ButLast(@, k) \o e.vals, !.pc = @ + 1])

(* One instruction.  top is the value it pops, if it pops one. *)
Takes(op) ==
    CASE op \in {"br_if", "if", "br_table", "select", "typed_select",
                 "call_indirect", "return_call_indirect"} -> {"i32"}
      [] op \in {"call_ref", "return_call_ref"} -> {"func", "null"}
      [] op = "throw_ref" -> {"exn", "null"}
      [] op \in {"br_on_null", "br_on_non_null", "ref.is_null", "ref.as_non_null"} ->
            {"func", "exn", "null"}
      [] op \in {"drop", "local.set", "local.tee"} ->
            {"i32", "i64", "f32", "f64", "v128", "func", "exn", "null"}
      [] OTHER -> {}

StepOf(p, m, ceiling) ==
    LET f    == Frame(m)
        body == p.functions[f.f].body
        i    == body[f.pc]
        top  == Last(f.vals)
        n    == top[2]
        ok   == Takes(i.op) # {} => f.vals # <<>> /\ top[1] \in Takes(i.op)
        g    == IF Takes(i.op) = {} THEN f ELSE [f EXCEPT !.vals = Front(@)]
        mm   == SetFrame(m, g)
        next(vals) == SetFrame(m, [g EXCEPT !.vals = vals, !.pc = @ + 1])
        go   == next(g.vals)
        put(v) == next(Append(g.vals, v))
        refs  == m.store.tables[1].refs
        entry == IF n + 1 > Len(refs) THEN 0 ELSE refs[n + 1][2]
        chosen == IF n + 1 > Len(i.ls) THEN i.default ELSE i.ls[n + 1]
        invoke(k) == IF i.op \in {"call", "call_indirect", "call_ref"} THEN CallFunc(p, mm, k, ceiling)
                     ELSE TailCall(p, mm, k, ceiling)
    IN  IF ~ok THEN Stop(m, "illtyped")
        ELSE CASE i.op = "nop"         -> go
               [] i.op = "unreachable" -> Stop(m, "unreachable")
               [] i.op = "const"       -> put(<<i.t, i.n>>)
               [] i.op \in DataInstrs \cup VectorInstrs ->
                    LET ts == IF i.op \in VectorInstrs THEN VectorOperands(i) ELSE OperandTypes(p.mod, i)
                        k  == Len(ts)
                    IN  IF Len(f.vals) < k \/ ~AllOf(LastOf(f.vals, k), ts) THEN Stop(m, "illtyped")
                        ELSE Affected(m, k, IF i.op \in VectorInstrs THEN VectorEffect(i, LastOf(f.vals, k), m.store)
                                             ELSE Effect(i, LastOf(f.vals, k), m.store))
               [] i.op = "drop"        -> go
               [] i.op \in {"select", "typed_select"} ->
                    IF Len(g.vals) < 2 THEN Stop(m, "illtyped")
                    ELSE next(Append(ButLast(g.vals, 2),
                                     IF n = 0 THEN Last(g.vals) ELSE g.vals[Len(g.vals) - 1]))
               [] i.op = "local.get" ->
                    IF ~AllOf(<<f.locals[i.x]>>, <<LocalTypes(p.functions[f.f])[i.x]>>)
                    THEN Stop(m, "illtyped") ELSE put(f.locals[i.x])
               [] i.op \in {"local.set", "local.tee"} ->
                    SetFrame(m, [g EXCEPT !.locals[i.x] = top, !.pc = @ + 1,
                                          !.vals = IF i.op = "local.tee" THEN f.vals ELSE @])
               [] i.op \in {"block", "loop", "try_table"} -> Block(p, m, i, f.pc + 1)
               [] i.op = "if" ->
                    Block(p, mm, i, IF n # 0 THEN f.pc + 1
                                    ELSE IF ElseOf(body, f.pc) = {} THEN EndOf(body, f.pc)
                                    ELSE Min(ElseOf(body, f.pc)) + 1)
               [] i.op = "else" -> SetFrame(m, [f EXCEPT !.pc = Last(f.labels).end])
               [] i.op = "end" ->
                    IF f.labels = <<>> THEN FrameReturn(p, m)
                    ELSE SetFrame(m, [f EXCEPT !.labels = Front(@), !.pc = @ + 1])
               [] i.op = "br"    -> Branch(p, m, i.l)
               [] i.op = "br_if" -> IF n # 0 THEN Branch(p, mm, i.l) ELSE go
               [] i.op = "br_table" ->
                    LET b == Branch(p, mm, chosen)
                    IN  IF b.out.kind = "illtyped" THEN Stop(m, "loose") ELSE b
               [] i.op = "return" -> FrameReturn(p, m)
               [] i.op \in {"call", "return_call"} -> invoke(i.func)
               [] i.op \in {"call_indirect", "return_call_indirect"} ->
                    IF entry = 0 THEN Stop(m, "table")
                    ELSE IF Signature(p.functions[entry]) # i.type THEN Stop(m, "mismatch")
                    ELSE invoke(entry)
               [] i.op \in {"call_ref", "return_call_ref"} ->
                    IF n = 0 THEN Stop(m, "null") ELSE invoke(n)
               [] i.op = "throw" ->
                    LET k == Len(i.tag.params)
                        e == [tag |-> i.tag, params |-> LastOf(f.vals, k)]
                        t == SetFrame([m EXCEPT !.exns = Append(@, e)], [f EXCEPT !.vals = ButLast(@, k)])
                    IN  IF Len(f.vals) < k \/ ~AllOf(e.params, i.tag.params) THEN Stop(m, "illtyped")
                        ELSE Raise(p, t, Len(t.exns))
               [] i.op = "throw_ref" -> IF n = 0 THEN Stop(m, "null") ELSE Raise(p, mm, n)
               [] i.op = "ref.null"  -> put(<<"null", 0>>)
               [] i.op = "ref.func"  -> put(<<"func", i.func>>)
               [] i.op = "ref.is_null" -> put(<<"i32", IF n = 0 THEN 1 ELSE 0>>)
               [] i.op = "ref.as_non_null" -> IF n = 0 THEN Stop(m, "null") ELSE put(top)
               [] i.op = "br_on_null" -> IF n = 0 THEN Branch(p, mm, i.l) ELSE put(top)
               [] i.op = "br_on_non_null" ->
                    IF n = 0 THEN go
                    ELSE LET ts == TypesAt(p, f, i.l)
                             kept == IF i.l = Len(f.labels) THEN 0
                                     ELSE f.labels[Len(f.labels) - i.l].height
                         IN  IF Len(f.vals) > kept + Len(ts) THEN Stop(m, "discards")
                             ELSE Branch(p, m, i.l)

(* The machine after function 1 on arguments args, in at most fuel steps. *)
Meaning(p, args, ceiling, fuel) ==
    LET start == [frames |-> <<Enter(p, 1, args)>>, exns |-> <<>>, store |-> StoreOf(p.mod),
                  out |-> [kind |-> "running"]]
        run[n \in 0..fuel] ==
            IF n = 0 THEN start
            ELSE LET m == run[n - 1] IN IF m.out.kind = "running" THEN StepOf(p, m, ceiling) ELSE m
    IN  IF run[fuel].out.kind = "running" THEN Stop(run[fuel], "fuel") ELSE run[fuel]
============================================================================
