---------------------------- MODULE Interpreter ----------------------------
(***************************************************************************)
(* The interpreter engine (internal/engine/interpreter/interpreter.go): a  *)
(* callEngine that runs the operations of compiled functions, one action   *)
(* per kind of operation.  A Go activation of callNativeFunc is a frame of *)
(* ceFrames, and a panic that unwinds them is one step: it ends in the     *)
(* innermost frame that has a handler, or in call, which resets the engine *)
(* and returns an error.  The module may be closed while its code runs.    *)
(***************************************************************************)
EXTENDS InterpreterCompiler, InterpreterVectors

CONSTANT callStackCeiling    \* the most frames of a call

VARIABLES
    program,     \* the functions, of which those of module 1 are compiled
    inst,        \* the instance of module 1
    fnCode,      \* the compiled functions, or <<>>
    ceStack,     \* callEngine.stack
    ceFrames,    \* callEngine.frames: function f, base of its stack and pc
    exns,        \* exceptions the store keeps; an exnref is the place of one
    exitCode,    \* whether the module has been closed
    outcome      \* how the call ended, or that it runs

ceVars == <<ceStack, ceFrames, inst, exns, outcome>>

Func(n) == program.functions[n]
Top == Last(ceFrames)
Running == outcome.kind = "running"
Body == fnCode[Top.f].ops
Op == Body[Top.pc]
AtEnd == Top.pc > Len(Body)

(* The stack an operation needs: less would be an index out of range. *)
Needs(op) ==
    CASE op.k \in {"br_if", "br_on_null", "br_on_non_null"} -> 1 + (IF op.range = NopRange THEN 0 ELSE op.range[2] + 1)
      [] op.k \in {"br_table", "throw_ref", "ref.as_non_null"} -> 1
      [] op.k \in DataKinds -> Pops(op.arg, inst)
      [] op.k \in VectorKinds -> VectorPops(op.arg)
      [] op.k = "drop" -> op.range[2] + 1
      [] op.k \in {"pick", "set"} -> op.depth + 1
      [] op.k = "select" -> IF op.v128 THEN 5 ELSE 3
      [] op.k = "throw"  -> Slots(op.tag.params)
      [] op.k \in {"call", "return_call"} -> Slots(op.type.params)
      [] op.k \in {"call_indirect", "return_call_indirect", "call_ref", "return_call_ref"} ->
            1 + Slots(op.type.params)
      [] OTHER -> 0

Runs(kinds) == Running /\ ~AtEnd /\ Op.k \in kinds /\ Len(ceStack) >= Needs(Op)

Popped == ButLast(ceStack, 1)
Value == Last(ceStack)

Drop(s, range) ==
    IF range = NopRange THEN s ELSE ButLast(s, range[2] + 1) \o LastOf(s, range[1])

(* The step leaves this stack and goes on at pc. *)
ContinueAt(s, pc) ==
    /\ ceStack' = s
    /\ ceFrames' = [ceFrames EXCEPT ![Len(ceFrames)].pc = pc]
    /\ UNCHANGED <<inst, exns, outcome>>

Forward(s) == ContinueAt(s, Top.pc + 1)

(* A panic that no frame recovers: recoverOnCall. *)
Panic(why) ==
    /\ outcome' = [kind |-> why]
    /\ ceStack' = <<>>
    /\ ceFrames' = <<>>
    /\ UNCHANGED <<inst, exns>>

Unreachable == Runs({"unreachable"}) /\ Panic("unreachable")
CheckExitCode == Runs({"check_exit"}) /\ IF exitCode THEN Panic("exit") ELSE Forward(ceStack)
Label == Runs({"label"}) /\ Forward(ceStack)
Const == Runs({"const"}) /\ Forward(ceStack \o Op.vals)

Br == Runs({"br"}) /\ ContinueAt(ceStack, Op.target)

BrIf ==
    /\ Runs({"br_if"})
    /\ IF Uint32(Value) > 0 THEN ContinueAt(Drop(Popped, Op.range), Op.target) ELSE ContinueAt(Popped, Op.other)

BrTable ==
    /\ Runs({"br_table"})
    /\ LET n == Min({Uint32(Value) + 1, Len(Op.targets)})
       IN  ContinueAt(Drop(Popped, Op.ranges[n]), Op.targets[n])

DropOp == Runs({"drop"}) /\ Forward(Drop(ceStack, Op.range))

Select ==
    /\ Runs({"select"})
    /\ LET w == IF Op.v128 THEN 2 ELSE 1
           x1 == ButLast(Popped, w)
       IN  Forward(IF Uint32(Value) = 0 THEN ButLast(x1, w) \o LastOf(Popped, w) ELSE x1)

Pick ==
    /\ Runs({"pick"})
    /\ LET n == Len(ceStack) - Op.depth
       IN  Forward(ceStack \o SubSeq(ceStack, n, IF Op.v128 THEN n + 1 ELSE n))

Set ==
    /\ Runs({"set"})
    /\ LET n == Len(ceStack) - Op.depth
           w == IF Op.v128 THEN 2 ELSE 1
           s == [ceStack EXCEPT ![n] = ceStack[Len(ceStack) - w + 1]]
       IN  Forward(ButLast(IF Op.v128 THEN [s EXCEPT ![n + 1] = Value] ELSE s, w))

(* The operations on data.  n values give way to the result, r. *)
Apply(n, r) ==
    IF r.trap # "none" THEN Panic(r.trap)
    ELSE /\ ceStack' = ButLast(ceStack, n) \o r.vals
         /\ ceFrames' = [ceFrames EXCEPT ![Len(ceFrames)].pc = @ + 1]
         /\ inst' = r.inst
         /\ UNCHANGED <<exns, outcome>>

DataOp ==
    /\ Runs(DataKinds)
    /\ LET n == Pops(Op.arg, inst)
       IN  Apply(n, Operate(Op.arg, LastOf(ceStack, n), inst))

VectorOp ==
    /\ Runs(VectorKinds)
    /\ LET n == VectorPops(Op.arg)
       IN  Apply(n, VectorOperate(Op.arg, LastOf(ceStack, n), inst))

(* References. *)
RefAsNonNull == Runs({"ref.as_non_null"}) /\ IF Value = 0 THEN Panic("null") ELSE Forward(ceStack)

BrOnNull ==
    /\ Runs({"br_on_null"})
    /\ IF Value = 0 THEN ContinueAt(Drop(Popped, Op.range), Op.target) ELSE ContinueAt(ceStack, Op.other)

BrOnNonNull ==
    /\ Runs({"br_on_non_null"})
    /\ IF Value # 0 THEN ContinueAt(Append(Drop(Popped, Op.range), Value), Op.target)
                    ELSE ContinueAt(Popped, Op.other)

(***************************************************************************)
(* Calls: a frame for the callee, whose parameters are on the stack.       *)
(***************************************************************************)
CallFunction(n, s) ==
    IF callStackCeiling <= Len(ceFrames) THEN Panic("overflow")
    ELSE /\ ceStack' = s
         /\ ceFrames' = Append(ceFrames, [f |-> n, base |-> Len(s), pc |-> 1])
         /\ UNCHANGED <<inst, exns, outcome>>

(* dropForTailCall and resetPc: the frame becomes the callee's. *)
Replace(n, s) ==
    LET base == Top.base - Slots(Func(Top.f).params)
        t    == SubSeq(s, 1, base) \o LastOf(s, Slots(Func(n).params))
    IN  /\ ceStack' = t
        /\ ceFrames' = Append(Front(ceFrames), [f |-> n, base |-> Len(t), pc |-> 1])
        /\ UNCHANGED <<inst, exns, outcome>>

SameModule(n) == Func(n).module = Func(Top.f).module

Call == Runs({"call"}) /\ CallFunction(Op.func, ceStack)

ReturnCall == Runs({"return_call"}) /\ Replace(Op.func, ceStack)

(* functionForOffset *)
CallIndirect ==
    /\ Runs({"call_indirect", "return_call_indirect"})
    /\ LET refs == inst.tables[1].refs
           n == IF Uint32(Value) >= Len(refs) THEN 0 ELSE refs[Uint32(Value) + 1]
       IN  IF n = 0 THEN Panic("table")
           ELSE IF Signature(Func(n)) # Op.type THEN Panic("mismatch")
           ELSE IF Op.k = "return_call_indirect" /\ SameModule(n) THEN Replace(n, Popped)
           ELSE CallFunction(n, Popped)

CallRef ==
    /\ Runs({"call_ref", "return_call_ref"})
    /\ IF Value = 0 THEN Panic("null")
       ELSE IF Op.k = "return_call_ref" /\ SameModule(Value) THEN Replace(Value, Popped)
       ELSE CallFunction(Value, Popped)

(* The end of callNativeFunc.  The caller goes on after its call, or, when *)
(* it called another module's function in tail position, returns as well.  *)
FnReturn ==
    /\ Running
    /\ AtEnd
    /\ IF Len(ceFrames) = 1
       THEN LET n == Slots(Func(Top.f).results)
            IN  /\ outcome' = [kind |-> "returned", vals |-> LastOf(ceStack, n), left |-> ButLast(ceStack, n)]
                /\ ceFrames' = <<>>
                /\ ceStack' = ButLast(ceStack, n)
                /\ UNCHANGED <<inst, exns>>
       ELSE LET caller == ceFrames[Len(ceFrames) - 1]
                op     == fnCode[caller.f].ops[caller.pc]
                tail   == op.k \in {"return_call_indirect", "return_call_ref"}
            IN  /\ ceStack' = IF tail THEN Drop(ceStack, op.range) ELSE ceStack
                /\ ceFrames' = [Front(ceFrames) EXCEPT ![Len(ceFrames) - 1].pc =
                                  IF tail THEN Len(fnCode[caller.f].ops) + 1 ELSE @ + 1]
                /\ UNCHANGED <<inst, exns, outcome>>

(***************************************************************************)
(* Exceptions.                                                             *)
(***************************************************************************)
matchCatchClause(clause, e) ==
    clause.kind \in {"catch", "catch_ref"} => clause.tag = e.tag

CatchValues(clause, e, ref) ==
    (IF clause.kind \in {"catch", "catch_ref"} THEN e.params ELSE <<>>)
    \o (IF clause.kind \in {"catch_ref", "catch_all_ref"} THEN <<ref>> ELSE <<>>)

(* The clauses of a frame that match: the entry and the clause of each. *)
Handlers(frame, e) ==
    LET table == fnCode[frame.f].table
    IN  {h \in (DOMAIN table) \X (1..3) :
            /\ h[2] \in DOMAIN table[h[1]].clauses
            /\ frame.pc >= table[h[1]].start
            /\ frame.pc < table[h[1]].end
            /\ matchCatchClause(table[h[1]].clauses[h[2]].clause, e)}

(* Mutant of searchExceptionTable: the outermost entry first. *)
searchExceptionTableOutwards(frame, e) ==
    CHOOSE h \in Handlers(frame, e) :
        \A o \in Handlers(frame, e) : o[1] > h[1] \/ (o[1] = h[1] /\ o[2] >= h[2])

(* Entries are searched from the last, their clauses from the first. *)
searchExceptionTable(frame, e) ==
    CHOOSE h \in Handlers(frame, e) :
        \A o \in Handlers(frame, e) : o[1] < h[1] \/ (o[1] = h[1] /\ o[2] >= h[2])

(* From the frame that throws outwards, callWithUnwind looks for a handler *)
(* and applyExceptionHandler goes on there.                                *)
Throw(ref, s, store) ==
    LET e   == store[ref]
        can == {n \in DOMAIN ceFrames : Handlers(ceFrames[n], e) # {}}
        n   == Max(can)
        frame == ceFrames[n]
        h   == searchExceptionTable(frame, e)
        c   == fnCode[frame.f].table[h[1]].clauses[h[2]]
        base == frame.base - Slots(Func(frame.f).params) + c.depth
    IN  IF can = {}
        THEN /\ outcome' = [kind |-> "uncaught"]
             /\ ceStack' = <<>>
             /\ ceFrames' = <<>>
             /\ exns' = store
             /\ UNCHANGED inst
        ELSE /\ ceStack' = SubSeq(s, 1, base) \o CatchValues(c.clause, e, ref)
             /\ ceFrames' = [SubSeq(ceFrames, 1, n) EXCEPT ![n].pc = c.target]
             /\ exns' = store
             /\ UNCHANGED <<inst, outcome>>

ThrowOp ==
    /\ Runs({"throw"})
    /\ LET n == Slots(Op.tag.params)
       IN  Throw(Len(exns) + 1, ButLast(ceStack, n),
                 Append(exns, [tag |-> Op.tag, params |-> LastOf(ceStack, n)]))

ThrowRef == Runs({"throw_ref"}) /\ IF Value = 0 THEN Panic("null") ELSE Throw(Value, Popped, exns)

Execute ==
    \/ Unreachable
    \/ CheckExitCode
    \/ Label
    \/ Const
    \/ DataOp
    \/ VectorOp
    \/ Br
    \/ BrIf
    \/ BrTable
    \/ DropOp
    \/ Select
    \/ Pick
    \/ Set
    \/ RefAsNonNull
    \/ BrOnNull
    \/ BrOnNonNull
    \/ Call
    \/ ReturnCall
    \/ CallIndirect
    \/ CallRef
    \/ FnReturn
    \/ ThrowOp
    \/ ThrowRef
============================================================================
