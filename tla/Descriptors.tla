---------------------------- MODULE Descriptors ----------------------------
(***************************************************************************)
(* The file descriptors of a module: the table of bit masks and items      *)
(* (internal/descriptor/table.go), FSContext which fills it                *)
(* (internal/sys/fs.go), and the files behind it.  A FileEntry and its     *)
(* sys.File are one record; the ones in use are numbered.  WasiFiles adds  *)
(* the calls a guest makes.                                                *)
(***************************************************************************)
EXTENDS Integers, Sequences, FiniteSets, SequencesExt

CONSTANTS
    MaskBits,          \* bits of a mask, 64 in the code
    maxFileDescriptor, \* 2^20 in the code
    Files              \* numbers of FileEntry objects

ASSUME DescriptorsAssumption ==
    /\ MaskBits \in Nat \ {0}
    /\ maxFileDescriptor \in Nat /\ maxFileDescriptor >= 5
    /\ IsFiniteSet(Files) /\ Files = 1 .. Cardinality(Files)
    /\ Cardinality(Files) > maxFileDescriptor

VARIABLES
    masks, items,  \* Table.masks, a set of bits each; Table.items
    entry          \* the FileEntry objects

tableVars == <<masks, items>>

NoFile == 0

(* A closed file without a descriptor is garbage. *)
Garbage == [kind |-> "none", isPreopen |-> FALSE, closed |-> TRUE]

IsOpen(e) == entry[e].kind # "none" /\ ~ entry[e].closed
----------------------------------------------------------------------------
(* The table.                                                              *)

Used == {k \in 0 .. Len(masks) * MaskBits - 1 :
             k % MaskBits \in masks[k \div MaskBits + 1]}

(* Table.Len adds up the bits that are set in the masks. *)
LenUsed == Cardinality(Used)

Found(k) ==
    /\ k >= 0 /\ k < Len(items)
    /\ k % MaskBits \in masks[k \div MaskBits + 1]

Lookup(k) == IF Found(k) THEN items[k + 1] ELSE NoFile

grow(t, n) ==
    [masks |-> t.masks \o [i \in 1 .. n |-> {}],
     items |-> t.items \o [i \in 1 .. n * MaskBits |-> NoFile]]

Put(t, k, f) ==
    [masks |-> [t.masks EXCEPT ![k \div MaskBits + 1] = @ \cup {k % MaskBits}],
     items |-> [t.items EXCEPT ![k + 1] = f]]

(* Mutant of Insert: the bit is looked for in the last mask only. *)
InsertInLast(t, f) ==
    LET g == IF t.masks = <<>> \/ Cardinality(Last(t.masks)) = MaskBits THEN grow(t, 1) ELSE t
        b == CHOOSE x \in 0 .. MaskBits - 1 :
                 x \notin Last(g.masks) /\ \A y \in 0 .. x - 1 : y \in Last(g.masks)
    IN  [key |-> (Len(g.masks) - 1) * MaskBits + b,
         tab |-> Put(g, (Len(g.masks) - 1) * MaskBits + b, f)]

IsFull(m) == m = 0 .. MaskBits - 1

(* bits.TrailingZeros64(^mask), of a mask that is not full. *)
LowestClear(m) == CHOOSE x \in 0 .. MaskBits - 1 : x \notin m /\ \A y \in 0 .. x - 1 : y \in m

(* The lowest bit of the first mask that is not full. *)
FreeKey(t) ==
    LET i == SelectInSeq(t.masks, LAMBDA m : ~ IsFull(m))
    IN  (i - 1) * MaskBits + LowestClear(t.masks[i])

(* The table grows if all masks are full. *)
WithRoom(t) == IF \A i \in DOMAIN t.masks : IsFull(t.masks[i]) THEN grow(t, 1) ELSE t

Insert(t, f) ==
    LET g   == WithRoom(t)
        key == FreeKey(g)
    IN  [key |-> key, tab |-> Put(g, key, f)]

InsertItemAt(t, f, k) ==
    LET diff == k \div MaskBits - Len(t.masks) + 1
    IN  Put(IF diff > 0 THEN grow(t, diff) ELSE t, k, f)

Delete(t, k) ==
    IF k >= 0 /\ k \div MaskBits < Len(t.masks)
       /\ k % MaskBits \in t.masks[k \div MaskBits + 1]
    THEN [masks |-> [t.masks EXCEPT ![k \div MaskBits + 1] = @ \ {k % MaskBits}],
          items |-> [t.items EXCEPT ![k + 1] = NoFile]]
    ELSE t

Table == [masks |-> masks, items |-> items]

SetTable(t) == masks' = t.masks /\ items' = t.items

EmptyTable == [masks |-> <<>>, items |-> <<>>]
----------------------------------------------------------------------------
(* FSContext.                                                              *)

Preopen(kind) == [kind |-> kind, isPreopen |-> TRUE, closed |-> FALSE]

(* The table after files 1 to 5 were inserted. *)
Preopened ==
    LET With(t, e) == Insert(t, e).tab
    IN  With(With(With(With(With(EmptyTable, 1), 2), 3), 4), 5)

(* InitFSContext: standard streams, one directory, one listener. *)
InitFSContext(dir) ==
    /\ masks = Preopened.masks /\ items = Preopened.items
    /\ entry = [e \in Files |->
                   CASE e \in 1 .. 3 -> Preopen("stdio")
                     [] e = 4 -> [dir EXCEPT !.isPreopen = TRUE]
                     [] e = 5 -> Preopen("listener")
                     [] OTHER -> Garbage]

Fresh == CHOOSE e \in Files :
             entry[e].kind = "none" /\ \A d \in 1 .. e - 1 : entry[d].kind # "none"

Capped == LenUsed >= maxFileDescriptor

(* A new file in the table. *)
AddFile(f) ==
    /\ SetTable(Insert(Table, Fresh).tab)
    /\ entry' = [entry EXCEPT ![Fresh] = f]

(* CloseFile: if closing fails the descriptor stays, of a file that counts *)
(* as closed; closing it again succeeds.                                   *)
CloseFile(k, fails) ==
    /\ Found(k)
    /\ fails => ~ entry[Lookup(k)].closed /\ entry[Lookup(k)].kind # "stdio"
    /\ IF fails
       THEN /\ entry' = [entry EXCEPT ![Lookup(k)].closed = TRUE]
            /\ UNCHANGED tableVars
       ELSE /\ entry' = [entry EXCEPT ![Lookup(k)] = Garbage]
            /\ SetTable(Delete(Table, k))

(* Mutant of Renumber: a file is closed though it is renumbered to itself  *)
(* (C47 of docs/audits/codebase-audit-2026-10-18.md).                      *)
RenumberClosesItself(from, to) ==
    /\ Found(from) /\ to >= 0 /\ to <= maxFileDescriptor
    /\ ~ entry[Lookup(from)].isPreopen
    /\ Found(to) => ~ entry[Lookup(to)].isPreopen
    /\ SetTable(InsertItemAt(Delete(Table, from), Lookup(from), to))
    /\ entry' = IF Found(to) THEN [entry EXCEPT ![Lookup(to)] = Garbage] ELSE entry

(* Whatever to named is closed, an error ignored; preopens stay. *)
Renumber(from, to) ==
    /\ Found(from) /\ to >= 0 /\ to <= maxFileDescriptor
    /\ ~ entry[Lookup(from)].isPreopen
    /\ Found(to) /\ to # from => ~ entry[Lookup(to)].isPreopen
    /\ SetTable(InsertItemAt(Delete(Table, from), Lookup(from), to))
    /\ entry' = IF Found(to) /\ to # from
                THEN [entry EXCEPT ![Lookup(to)] = Garbage] ELSE entry

(* SockAccept, and fd_close in sock_accept when the result cannot be       *)
(* written, which leaves what was.                                         *)
SockAccept(k) ==
    /\ Found(k) /\ entry[Lookup(k)].kind = "listener"
    /\ ~ entry[Lookup(k)].closed /\ ~ Capped
    /\ AddFile([kind |-> "conn", isPreopen |-> FALSE, closed |-> FALSE])

(* FSContext.Close: every file is closed, whatever errors there are. *)
CloseAll ==
    /\ SetTable(EmptyTable)
    /\ entry' = [e \in Files |->
                    IF \E k \in Used : Lookup(k) = e THEN Garbage ELSE entry[e]]
----------------------------------------------------------------------------
(* Every open file has exactly one descriptor, and every descriptor a file *)
(* of its own: nothing leaks when descriptors are renumbered onto others,  *)
(* closing fails, or the module is closed, and no file has two owners.     *)
OneDescriptorEach ==
    /\ \A e \in Files : IsOpen(e) => \E k \in Used : items[k + 1] = e
    /\ \A k, l \in Used : items[k + 1] = items[l + 1] => k = l
    /\ \A k \in Used : items[k + 1] \in Files /\ entry[items[k + 1]].kind # "none"

(* The table is the map that guests rely on. *)
Map == INSTANCE FDMap WITH fds <- [k \in Used |-> items[k + 1]]

ImplementsMap == Map!FDSpec
============================================================================
