------------------------- MODULE MCStoreModuleList -------------------------
(***************************************************************************)
(* An instance of StoreTypes, and so of StoreModuleList, for TLC, beside   *)
(* one of WasiFiles.  The two share no state: a behaviour exercises the    *)
(* one or the other part.                                                  *)
(***************************************************************************)
EXTENDS StoreTypes, MCWasiFiles

CONSTANTS m1, m2, m3, m4, n1, n2, n3

VARIABLE part    \* the part exercised

(* Three names; two modules contend for one of them. *)
MCNameOf == [m \in Modules |-> CASE m = m1 -> n1 [] m = m2 -> n2
                                 [] m = m3 -> n3 [] OTHER -> n1]

Num == [kind |-> "i32"]
Ref(i) == [kind |-> "ref", nullable |-> TRUE, idx |-> i]
FuncType(params, results) ==
    [params |-> params, results |-> results, pos |-> 0, size |-> 0]
Member(i, n, params) ==
    [params |-> params, results |-> <<>>, pos |-> i, size |-> n]

(* Two sections that define one type under different indices. *)
Before == <<FuncType(<<>>, <<>>), FuncType(<<Ref(0)>>, <<>>)>>
After  == <<FuncType(<<Num>>, <<>>), FuncType(<<>>, <<>>), FuncType(<<Ref(1)>>, <<Num>>),
            FuncType(<<Ref(1)>>, <<>>)>>

(* A group of two types of which one takes the other. *)
Mutual == <<Member(0, 2, <<Ref(1)>>), Member(1, 2, <<>>)>>

PlainSections == {Before, After, Mutual}

storeVars == <<vars, typeVars>>

PartsInit ==
    /\ part \in {"store", "files"}
    /\ TypesInit
    /\ WasiInit
    /\ part = "store" => guest.calls = "table"

PartsNext ==
    \/ part = "store" /\ TypesNext /\ UNCHANGED <<part, wasiVars>>
    \/ part = "files" /\ WasiNext /\ UNCHANGED <<part, storeVars>>

PartsSpec == PartsInit /\ [][PartsNext]_<<part, storeVars, wasiVars>>
============================================================================
