----------------------------- MODULE StoreTypes -----------------------------
(***************************************************************************)
(* The function types a Store interns (internal/wasm/store.go), next to    *)
(* the modules it lists.  Goroutines compile modules, and each asks for    *)
(* the FunctionTypeID of the types of its type section, one after the      *)
(* other; call_indirect compares the ids only.  A type section is a        *)
(* sequence of records; a reference to a type carries its index in the     *)
(* section.  Everything of StoreModuleList goes on around it.              *)
(***************************************************************************)
EXTENDS StoreModuleList

CONSTANTS
    Compilers,       \* goroutines in Runtime.CompileModule
    Sections,        \* the type sections of the modules they compile
    functionMaxTypes \* Store.functionMaxTypes, 2^27 in the code

IsConcreteRef(vt) == vt.kind = "ref"

(* Parameters or results, whose references are to the first max types. *)
validateTypeForwardRefs(vts, max) ==
    /\ Len(vts) \in Nat /\ DOMAIN vts = 1 .. Len(vts)
    /\ \A j \in DOMAIN vts : IsConcreteRef(vts[j]) =>
          vts[j] \in [kind : {"ref"}, nullable : BOOLEAN, idx : 0 .. max - 1]

(* What decodeTypeSection accepts: a type refers to types before it, and a *)
(* member of a rec group to the types of its group too.                    *)
decodeTypeSection(ts) ==
    /\ Len(ts) \in Nat /\ DOMAIN ts = 1 .. Len(ts)
    /\ \A i \in DOMAIN ts :
          /\ ts[i].pos \in Nat /\ ts[i].size \in Nat
          /\ ts[i].size > 0 => /\ ts[i].pos < ts[i].size /\ ts[i].pos < i
                               /\ i - ts[i].pos + ts[i].size <= Len(ts) + 1
          /\ LET max == IF ts[i].size = 0 THEN i - 1 ELSE i - 1 - ts[i].pos + ts[i].size
             IN  /\ validateTypeForwardRefs(ts[i].params, max)
                 /\ validateTypeForwardRefs(ts[i].results, max)

ASSUME TypesAssumption ==
    /\ Sections # {} /\ functionMaxTypes \in Nat
    /\ \A ts \in Sections : Len(ts) > 0 /\ decodeTypeSection(ts)

VARIABLES
    typeIDs,  \* Store.typeIDs: from keys to ids; its domain grows
    nilTypes, \* Store.typeIDs is nil
    asks      \* per goroutine: its section, and the ids it has got for it

typeVars == <<typeIDs, nilTypes, asks>>

Idle ==
    [at |-> "idle", ts |-> <<>>, ret |-> <<>>]

TypesInit ==
    /\ Init
    /\ typeIDs = [k \in {} |-> 0]
    /\ nilTypes = FALSE
    /\ asks = [g \in Compilers |-> Idle]

(* ret has the length of the section from the start: what is not assigned  *)
(* yet reads as 0.                                                         *)
structuralValueTypeName(vt, ret) ==
    IF IsConcreteRef(vt)
    THEN [vt EXCEPT !.idx = IF vt.idx < Len(ret) THEN ret[vt.idx + 1] ELSE 0]
    ELSE vt

(* The key's string is abstracted to what it is put together from; the     *)
(* suffix is there for members of a group of two or more.                  *)
structuralTypeKey(ft, ret) ==
    [params  |-> [i \in DOMAIN ft.params |->
                      structuralValueTypeName(ft.params[i], ret)],
     results |-> [i \in DOMAIN ft.results |->
                      structuralValueTypeName(ft.results[i], ret)],
     rec     |-> IF ft.size > 1 THEN <<ft.pos, ft.size>> ELSE <<>>]

KeyOf(a) == structuralTypeKey(a.ts[Len(a.ret) + 1], a.ret)

(* CompileModule of a section ts begins to ask; each goroutine does once.  *)
StartCompile(g, ts) ==
    /\ asks[g].at = "idle"
    /\ asks' = [asks EXCEPT ![g] = [at |-> "lookup", ts |-> ts, ret |-> <<>>]]
    /\ UNCHANGED <<typeIDs, nilTypes>>

(* The loop of GetFunctionTypeIDs: the next type, or the module has all.   *)
Got(g, id) ==
    LET ret == Append(asks[g].ret, id)
    IN  asks' = [asks EXCEPT
                    ![g].ret = ret,
                    ![g].at = IF Len(ret) < Len(asks[g].ts) THEN "lookup"
                              ELSE "compiled"]

Refused(g) == asks' = [asks EXCEPT ![g] = [Idle EXCEPT !.at = "refused"]]

(* getFunctionTypeIDByKey under the read lock. *)
LookupTypeID(g) ==
    LET key == KeyOf(asks[g])
    IN  /\ asks[g].at = "lookup"
        /\ IF nilTypes THEN Refused(g)
           ELSE IF key \in DOMAIN typeIDs THEN Got(g, typeIDs[key])
           ELSE asks' = [asks EXCEPT ![g].at = "missed"]
        /\ UNCHANGED <<typeIDs, nilTypes>>

(* Mutant of InternTypeID: the key is not looked up again. *)
InternTypeIDUnchecked(g) ==
    LET key == KeyOf(asks[g])
        l   == Cardinality(DOMAIN typeIDs)
    IN  /\ asks[g].at = "missed"
        /\ IF nilTypes \/ l >= functionMaxTypes
           THEN Refused(g) /\ UNCHANGED typeIDs
           ELSE /\ typeIDs' = [k \in DOMAIN typeIDs \cup {key} |->
                                   IF k = key THEN l ELSE typeIDs[k]]
                /\ Got(g, l)
        /\ UNCHANGED nilTypes

(* getFunctionTypeIDByKey under the write lock. *)
InternTypeID(g) ==
    LET key == KeyOf(asks[g])
        l   == Cardinality(DOMAIN typeIDs)
    IN  /\ asks[g].at = "missed"
        /\ IF ~ nilTypes /\ key \in DOMAIN typeIDs
           THEN Got(g, typeIDs[key]) /\ UNCHANGED typeIDs
           ELSE IF nilTypes \/ l >= functionMaxTypes
           THEN Refused(g) /\ UNCHANGED typeIDs
           ELSE /\ typeIDs' = [k \in DOMAIN typeIDs \cup {key} |->
                                   IF k = key THEN l ELSE typeIDs[k]]
                /\ Got(g, l)
        /\ UNCHANGED nilTypes

(* The critical section of CloseWithExitCode drops both maps. *)
CloseStoreAndTypes ==
    /\ closeStore
    /\ typeIDs' = [k \in {} |-> 0]
    /\ nilTypes' = TRUE
    /\ UNCHANGED asks

TypesNext ==
    \/ \E g \in Compilers :
           /\ \/ \E ts \in Sections : StartCompile(g, ts)
              \/ LookupTypeID(g)
              \/ InternTypeID(g)
           /\ UNCHANGED vars
    \/ (\E m \in Modules : deleteModule(m) \/ registerModule(m)) /\ UNCHANGED typeVars
    \/ CloseStoreAndTypes

TypesSpec == TypesInit /\ [][TypesNext]_<<vars, typeVars>>
----------------------------------------------------------------------------
(* Equivalence of types, as imports are checked: by the unfolding, and by  *)
(* position in groups of two or more.                                      *)
groupOf(ts, i) == IF ts[i].size <= 1 THEN i ELSE i - ts[i].pos

groupSize(t) == IF t.size <= 1 THEN 1 ELSE t.size

(* The comparisons, with pairs of indices that are taken to be equivalent. *)
valueTypesEquivalent(vx, vy, R) ==
    IF IsConcreteRef(vx) /\ IsConcreteRef(vy)
    THEN vx.nullable = vy.nullable /\ <<vx.idx + 1, vy.idx + 1>> \in R
    ELSE vx = vy

AllEquivalent(sx, sy, R) ==
    /\ Len(sx) = Len(sy)
    /\ \A i \in DOMAIN sx : valueTypesEquivalent(sx[i], sy[i], R)

GroupsEquivalent(tx, x, ty, y, R) ==
    LET gx == groupOf(tx, x) gy == groupOf(ty, y)
    IN  /\ groupSize(tx[x]) = groupSize(ty[y])
        /\ x - gx = y - gy
        /\ \A k \in 0 .. groupSize(tx[x]) - 1 :
              /\ AllEquivalent(tx[gx + k].params, ty[gy + k].params, R)
              /\ AllEquivalent(tx[gx + k].results, ty[gy + k].results, R)

Pairs(tx, ty) == (DOMAIN tx) \X (DOMAIN ty)

(* functionTypesEquivalent assumes pairs under comparison to be equal:     *)
(* the largest relation, reached by refining from "all pairs".             *)
functionTypesEquivalent(tx, x, ty, y) ==
    LET refine[n \in 0 .. Cardinality(Pairs(tx, ty))] ==
            IF n = 0 THEN Pairs(tx, ty)
            ELSE {p \in refine[n - 1] :
                     GroupsEquivalent(tx, p[1], ty, p[2], refine[n - 1])}
    IN  <<x, y>> \in refine[Cardinality(Pairs(tx, ty))]

(* The ids of every two types of the modules compiled so far satisfy P.    *)
ForEveryTwo(P(_, _, _, _, _)) ==
    LET compiled == {asks[g] : g \in {h \in Compilers : asks[h].at = "compiled"}}
    IN  \A c, d \in compiled : \A x \in DOMAIN c.ts, y \in DOMAIN d.ts :
            P(c.ts, x, d.ts, y, c.ret[x] = d.ret[y])

Recursive(ts) == \E i \in DOMAIN ts : ts[i].size > 0

(* Equivalent types get one id, whichever goroutines intern them and       *)
(* wherever they stand in their sections; so do no other types, as long as *)
(* neither section has a rec group.                                        *)
SharedExactly ==
    ForEveryTwo(LAMBDA tx, x, ty, y, same :
        /\ functionTypesEquivalent(tx, x, ty, y) => same
        /\ ~ Recursive(tx) /\ ~ Recursive(ty) /\ same =>
               functionTypesEquivalent(tx, x, ty, y))
============================================================================
