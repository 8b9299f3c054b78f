------------------------------- MODULE FDMap -------------------------------
(***************************************************************************)
(* What a guest may rely on of its file descriptors: numbers that name     *)
(* files, of which a new file gets the lowest that is free, as POSIX and   *)
(* wasi-libc expect.  Descriptors shows that the bit masks and the slice   *)
(* of internal/descriptor/table.go implement it.                           *)
(***************************************************************************)
EXTENDS Integers

CONSTANTS
    Files,             \* open files
    maxFileDescriptor

VARIABLE fds  \* from the descriptors in use to files

Lowest(S) ==
    CHOOSE n \in 0 .. maxFileDescriptor : n \notin S /\ \A m \in 0 .. n - 1 : m \in S

With(k, f) == [n \in DOMAIN fds \cup {k} |-> IF n = k THEN f ELSE fds[n]]

Without(ks) == [n \in DOMAIN fds \ ks |-> fds[n]]

FDOpen(f) == fds' = With(Lowest(DOMAIN fds), f)

FDClose(k) == k \in DOMAIN fds /\ fds' = Without({k})

FDRenumber(from, to) ==
    /\ from \in DOMAIN fds
    /\ fds' = [n \in (DOMAIN fds \ {from}) \cup {to} |->
                   IF n = to THEN fds[from] ELSE fds[n]]

FDCloseAll == fds' = [n \in {} |-> 0]

FDNext ==
    \/ \E f \in Files : FDOpen(f)
    \/ \E k \in DOMAIN fds : FDClose(k)
    \/ \E from \in DOMAIN fds, to \in 0 .. maxFileDescriptor : FDRenumber(from, to)
    \/ FDCloseAll

FDInit == \E f \in [{0, 1, 2, 3, 4} -> Files] : fds = f

FDSpec == FDInit /\ [][FDNext]_fds
============================================================================
