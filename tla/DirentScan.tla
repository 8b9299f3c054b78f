----------------------------- MODULE DirentScan -----------------------------
(***************************************************************************)
(* fd_readdir: DirentCache.Read, a sliding window over a directory         *)
(* (internal/sys/fs.go), and what is written to a buffer of the guest      *)
(* (imports/wasi_snapshot_preview1/fs.go).  A name is as long as NameLen   *)
(* says; the contents of a dirent are abstracted to its name.              *)
(***************************************************************************)
EXTENDS Integers, Sequences, FiniteSets, SequencesExt

CONSTANTS
    NameLen,    \* length of each name, "." and ".." too
    DirentSize  \* of a dirent's header, 24 in the code

dotEntries == <<".", "..">>

(* A cache before the first Read; dirents is nil. *)
NoDirents == [isNil |-> TRUE, dirents |-> <<>>, countRead |-> 0, eof |-> FALSE]

(* A large number: uint32(n - 2) wraps for n = 1. *)
Wrapped == 1000

cachedDirents(d, n) == IF Len(d.dirents) > n THEN SubSeq(d.dirents, 1, n)
                       ELSE d.dirents

(* sys.File.Readdir: at most n of the names s that are left of a directory *)
(* which lists them in some order.                                         *)
Readdir(s, n) == LET all == SetToSeq(s)
                 IN  SubSeq(all, 1, IF n < Len(all) THEN n ELSE Len(all))

(* What a Read does: the cache and the rest of the directory afterwards,   *)
(* and its result.  fails says that the system call fails, if it is made.  *)
Result(d, s, dirents, errno) ==
    [cache |-> d, stream |-> s, dirents |-> dirents, errno |-> errno]

(* The first Read since a rewind. *)
ReadFirst(d, s, n, fails) ==
    LET want  == IF n >= 2 THEN n - 2 ELSE Wrapped
        more  == Readdir(s, want)
        start == [isNil |-> FALSE, dirents |-> dotEntries, countRead |-> 2,
                  eof |-> FALSE]
        next  == IF more = <<>> THEN start
                 ELSE [start EXCEPT !.eof = Len(more) < want,
                                    !.dirents = dotEntries \o more,
                                    !.countRead = 2 + Len(more)]
    IN  IF want = 0 THEN Result(start, s, <<>>, FALSE)
        ELSE IF fails THEN Result(start, s, <<>>, TRUE)
        ELSE Result(next, s \ ToSet(more), cachedDirents(next, n), FALSE)

(* Mutant of ReadNext: the window is not moved to pos. *)
ReadNextUnmoved(d, s, pos, n, fails) ==
    LET cacheStart == d.countRead - Len(d.dirents)
        want == n - Len(d.dirents)
        more == IF want > 0 /\ ~ d.eof THEN Readdir(s, want) ELSE <<>>
        next == IF more = <<>> THEN d
                ELSE [d EXCEPT !.eof = Len(more) < want,
                               !.dirents = @ \o more,
                               !.countRead = @ + Len(more)]
    IN  IF pos < cacheStart THEN Result(d, s, <<>>, TRUE)
        ELSE IF fails /\ want > 0 /\ ~ d.eof THEN Result(d, s, <<>>, TRUE)
        ELSE Result(next, s \ ToSet(more), cachedDirents(next, n), FALSE)

(* A later one: the window begins at pos, and is filled up to n. *)
ReadNext(d, s, pos, n, fails) ==
    LET cacheStart == d.countRead - Len(d.dirents)
        moved == [d EXCEPT !.dirents = SubSeq(@, pos - cacheStart + 1, Len(@))]
        want  == n - Len(moved.dirents)
        more  == IF want > 0 /\ ~ d.eof THEN Readdir(s, want) ELSE <<>>
        next  == IF more = <<>> THEN moved
                 ELSE [moved EXCEPT !.eof = Len(more) < want,
                                    !.dirents = @ \o more,
                                    !.countRead = @ + Len(more)]
    IN  IF pos < cacheStart THEN Result(d, s, <<>>, TRUE)
        ELSE IF fails /\ want > 0 /\ ~ d.eof THEN Result(moved, s, <<>>, TRUE)
        ELSE Result(next, s \ ToSet(more), cachedDirents(next, n), FALSE)

(* DirentCache.Read.  Position 0 rewinds: all are the names the directory  *)
(* holds now, s the rest of those it held when it was first read.          *)
Read(d, s, all, pos, n, fails) ==
    LET rewind == pos = 0 /\ ~ d.isNil
        d0 == IF rewind THEN [d EXCEPT !.isNil = TRUE, !.dirents = <<>>, !.countRead = 0]
              ELSE d
        s0 == IF d0.isNil THEN all ELSE s
    IN  IF pos > d.countRead THEN Result(d, s, <<>>, TRUE)
        ELSE IF n = 0 THEN Result(d0, s0, <<>>, FALSE)
        ELSE IF d0.isNil THEN ReadFirst(d0, s0, n, fails)
        ELSE ReadNext(d0, s0, pos, n, fails)

(* Mutant of maxDirEntries: not one more than may fit. *)
maxDirEntriesExact(bufLen) == bufLen \div DirentSize

maxDirEntries(bufLen) == bufLen \div DirentSize + 2

(* What dirents of these names take. *)
Bytes(names) ==
    LET sum[i \in 0 .. Len(names)] ==
            IF i = 0 THEN 0 ELSE sum[i - 1] + DirentSize + NameLen[names[i]]
    IN  sum[Len(names)]

(* maxDirents: the entries that are written whole. *)
Whole(dirents, bufLen) ==
    LET fits == {k \in 0 .. Len(dirents) : k = 0 \/ Bytes(SubSeq(dirents, 1, k)) <= bufLen}
    IN  SubSeq(dirents, 1, CHOOSE k \in fits : \A l \in fits : l <= k)

(* bufused: a truncated entry, of which nothing or the header is written,  *)
(* counts for the whole buffer.                                            *)
bufused(dirents, bufLen) ==
    IF Len(Whole(dirents, bufLen)) < Len(dirents) THEN bufLen ELSE Bytes(dirents)
============================================================================
