----------------------------- MODULE GuestFunctions -----------------------------
(***************************************************************************)
(* A function from its bytes to its results: it is validated instruction   *)
(* by instruction, compiled by the interpreter engine with the functions   *)
(* it calls, and called.  Every body over a small alphabet of instructions *)
(* is tried; a run starts from one of Profiles, each a record of           *)
(*   functions  function 1, whose body is to be chosen, and its callees    *)
(*   mod        what its module declares otherwise; functions of other     *)
(*              modules do without                                         *)
(*   alphabet   instructions of the body                                   *)
(*   prefix     instructions the body begins with                          *)
(*   bound      length of the body                                         *)
(*   args       arguments to call it with                                  *)
(*   upper      what is in the upper half of arguments of 32 bits          *)
(*   ensureTermination, closes  whether the runtime is to stop guests when *)
(*              their module is closed, and whether it is closed here      *)
(***************************************************************************)
EXTENDS FuncValidation, Interpreter, WasmSemantics

CONSTANTS
    Profiles,
    MaxExceptions,    \* bound on the exceptions thrown in a run
    Fuel              \* bound on the instructions of a run that is compared

(* A module of a profile is decoded, and so is whatever function 1 may be  *)
(* made of.  The other functions have been validated already.              *)
ASSUME ProfilesAssumption ==
    \A n \in DOMAIN Profiles :
        LET p == Profiles[n]
        IN  /\ DecodedModule(p.mod)
            /\ 1 \in DOMAIN p.functions
            /\ p.functions[1].body = <<>>
            /\ \A k \in DOMAIN p.functions : DecodedFunction(p.functions[k])
            /\ \A k \in DOMAIN p.functions \ {1} : Accepted(p.mod, p.functions[k])
            /\ \A i \in p.alphabet \cup Range(p.prefix) : Decoded(i)

VARIABLES
    profile,     \* the profile chosen
    fnPhase,     \* "body", "rejected", "panicked", "valid", "compiled", "refused",
                 \* "instantiated", "called"
    checked,     \* state of the validator
    ceArgs       \* arguments of the call

funcVars == <<profile, fnPhase, checked, ceArgs, program, fnCode, exitCode, ceVars>>

NotCalled == [kind |-> "none"]
NotInstantiated == [failed |-> FALSE]

FuncsInit ==
    /\ profile \in DOMAIN Profiles
    /\ program = [functions |-> Profiles[profile].functions, mod |-> Profiles[profile].mod]
    /\ checked = reset(Func(1))
    /\ fnPhase = "body"
    /\ fnCode = <<>>
    /\ ceArgs = <<>>
    /\ ceStack = <<>>
    /\ ceFrames = <<>>
    /\ inst = NotInstantiated
    /\ exns = <<>>
    /\ exitCode = FALSE
    /\ outcome = NotCalled

BodyOf(n) == Func(n).body

(* The validator goes from an instruction i to state v.  A function that   *)
(* is rejected leaves nothing behind.                                      *)
Validated(i, v) ==
    LET rejected == v.status # "ok"
    IN  /\ Len(BodyOf(1)) + 1 + (IF rejected THEN 0 ELSE Len(v.cs)) <= Profiles[profile].bound
        /\ fnPhase' = IF rejected THEN IF v.status = "panic" THEN "panicked" ELSE "rejected"
                      ELSE IF v.cs = <<>> THEN "valid" ELSE "body"
        /\ checked' = IF rejected \/ v.cs = <<>> THEN reset(Func(1)) ELSE v
        /\ program' = [program EXCEPT !.functions[1].body = IF rejected THEN <<>> ELSE Append(@, i)]

(* validateFunction goes on to the next instruction, i. *)
ValidateNext(i) ==
    /\ fnPhase = "body"
    /\ LET n == Len(BodyOf(1)) + 1
       IN  n \in DOMAIN Profiles[profile].prefix => i = Profiles[profile].prefix[n]
    /\ Validated(i, Validate(checked, program.mod, Func(1), i))
    /\ UNCHANGED <<profile, ceArgs, fnCode, exitCode, ceVars>>

(* CompileModule *)
CompileFunctions ==
    /\ fnPhase = "valid"
    /\ fnCode' = [n \in DOMAIN program.functions |->
                  lowerIR(compile(program.mod, Func(n), n, Profiles[profile].ensureTermination))]
    /\ fnPhase' = "compiled"
    /\ UNCHANGED <<profile, checked, ceArgs, program, exitCode, ceVars>>

(* Instantiate *)
InstantiateModule ==
    /\ fnPhase = "compiled"
    /\ inst' = instantiate(program.mod)
    /\ fnPhase' = IF inst'.failed THEN "refused" ELSE "instantiated"
    /\ UNCHANGED <<profile, checked, ceArgs, program, fnCode, exitCode, ceStack, ceFrames, exns, outcome>>

(* A value of 32 bits that the host has not cleared the upper half of. *)
Encoded(v) == IF v[1] \in {"i32", "f32"} THEN v[2] + 2^Width("i32") * Profiles[profile].upper ELSE v[2]

(* callEngine.call *)
CallExport(args) ==
    /\ fnPhase = "instantiated"
    /\ ceArgs' = args
    /\ ceStack' = AllInSlots(Func(1).params, [k \in DOMAIN args |-> Encoded(args[k])])
    /\ ceFrames' = <<[f |-> 1, base |-> Slots(Func(1).params), pc |-> 1]>>
    /\ outcome' = [kind |-> "running"]
    /\ fnPhase' = "called"
    /\ UNCHANGED <<profile, checked, program, inst, fnCode, exitCode, exns>>

ExecuteNext ==
    /\ Execute
    /\ Len(exns') <= MaxExceptions
    /\ UNCHANGED <<profile, fnPhase, checked, ceArgs, program, fnCode, exitCode>>

(* Another goroutine closes the module. *)
CloseModule ==
    /\ Running
    /\ Profiles[profile].closes
    /\ ~exitCode
    /\ exitCode' = TRUE
    /\ UNCHANGED <<profile, fnPhase, checked, ceArgs, program, fnCode, ceVars>>

FuncsNext ==
    \/ \E i \in Profiles[profile].alphabet \cup Range(Profiles[profile].prefix) : ValidateNext(i)
    \/ CompileFunctions
    \/ InstantiateModule
    \/ \E args \in Profiles[profile].args : CallExport(args)
    \/ ExecuteNext
    \/ CloseModule

(* The goroutine of the call goes on running. *)
FuncsFairness == WF_funcVars(ExecuteNext)

FuncsSpec == FuncsInit /\ [][FuncsNext]_funcVars /\ FuncsFairness

-----------------------------------------------------------------------------
Uses(op) == \E n \in DOMAIN program.functions : \E k \in DOMAIN BodyOf(n) : BodyOf(n)[k].op = op

(* A function the validator accepts compiles: the operands of an opcode    *)
(* are those of its signature, and all branches find their labels.         *)
Compiles == \A n \in DOMAIN fnCode : Complete(fnCode[n])

NeverStuck == Running => AtEnd \/ Len(ceStack) >= Needs(Op)

(* Operations never reach below the stack, and at a label it is as high as *)
(* the compiler thought, wherever the code came from: the locals of        *)
(* callNativeFunc are found by their distance from the top.                *)
(* (br_on_non_null leaves a value too many: see Meaning.)                  *)
HeightAgrees ==
    /\ NeverStuck
    /\ Running /\ ~AtEnd /\ Op.k = "label" /\ ~Uses("br_on_non_null") =>
         Len(ceStack) = Top.base - Slots(Func(Top.f).params) + Op.height

Ended == fnPhase = "called" /\ ~Running
Expected == Meaning(program, ceArgs, callStackCeiling, Fuel)

(* A NaN that is computed may be any with its first payload bit set. *)
SameValue(t, slots, n) ==
    LET w == Width(t)
        x == slots[1] % 2^w
        quiet(v) == IsNaN(v, w) /\ SignificandBits(w) - 1 \in Bits(v, w)
    IN  IF t = "v128" THEN slots = n
        ELSE x = n \/ (t \in {"f32", "f64"} /\ quiet(x) /\ quiet(n))

(* The values of these types, in the slots of a stack. *)
SameValues(ts, slots, vals) ==
    LET at(k) == Slots(SubSeq(ts, 1, k - 1)) + 1
    IN  /\ Len(slots) = Slots(ts)
        /\ \A k \in DOMAIN ts : SameValue(ts[k], SubSeq(slots, at(k), at(k) + Slots(<<ts[k]>>) - 1), vals[k][2])

(* The memory, tables, globals and segments are those of the store. *)
SameInstance(store) ==
    /\ inst.mem = NoMemory \/ inst.mem.buffer = store.mem
    /\ \A x \in DOMAIN inst.tables :
         inst.tables[x].refs = [k \in DOMAIN store.tables[x].refs |-> store.tables[x].refs[k][2]]
    /\ \A x \in DOMAIN inst.globals :
         SameValue(program.mod.globals[x].t, inst.globals[x], store.globals[x][2])
    /\ inst.datas = store.datas
    /\ \A x \in DOMAIN inst.elems : inst.elems[x] = [k \in DOMAIN store.elems[x] |-> store.elems[x][k][2]]

Instantiated(store) == IF fnPhase = "refused" THEN store.failed ELSE ~store.failed /\ SameInstance(store)

EndsAs(m) ==
    \/ m.out.kind \in {"fuel", "loose", "discards", "kept", "wraps"}
    \/ /\ m.out.kind = outcome.kind
       /\ SameInstance(m.store)
       /\ m.out.kind = "returned" =>
            /\ SameValues(Func(1).results, outcome.vals, m.out.vals)
            /\ outcome.left = <<>>

(* A module is instantiated as the semantics of WebAssembly says: unless a *)
(* data segment is out of bounds, with its segments in zeroed memory,      *)
(* whatever memory the host allocates.  A call of it ends with the same    *)
(* values, or the same trap or exception, the same memory, tables and      *)
(* globals, and nothing left on the stack for the next call of the same    *)
(* callEngine.                                                             *)
SameOutcome ==
    /\ fnPhase \in {"refused", "instantiated"} => Instantiated(StoreOf(program.mod))
    /\ Ended /\ outcome.kind # "exit" => EndsAs(Expected)

(* In a function the validator accepts, every value is of the type that    *)
(* is declared where it goes: operands, locals, parameters, results,       *)
(* labels.  A null is never in a non-nullable place, and a local of such a *)
(* type is not read before it is set.  (br_table is the exception: see     *)
(* Meaning.)                                                               *)
WellTyped == Ended => Expected.out.kind # "illtyped"

(* A guest compiles, its operations always find their operands and its    *)
(* calls end as the semantics says: what the host's memory allocator does, *)
(* what is left in the upper half of a value and where an address or a     *)
(* length wraps make no difference.                                        *)
RunsAsMeant == Compiles /\ HeightAgrees /\ SameOutcome

OtherTailCall ==
    \E n \in DOMAIN program.functions : \E k \in DOMAIN BodyOf(n) :
        LET i == BodyOf(n)[k]
        IN  \/ i.op \in {"return_call_indirect", "return_call_ref"}
            \/ i.op = "return_call" /\ i.func # n

(* A guest whose module is closed stops, when the runtime is to ensure it: *)
(* whatever the code repeats passes a check of the exit code.  (A tail     *)
(* call other than by name to the function itself passes none.)            *)
CloseStops ==
    exitCode /\ Profiles[profile].ensureTermination /\ ~OtherTailCall ~> ~Running
============================================================================
