---------------------------- MODULE MCWasiFiles ----------------------------
(* An instance of WasiFiles for TLC. *)
EXTENDS WasiFiles

MCNames == {"a", "b", "c"}

(* Headers take 3; one name is longer than the smallest buffer holds. *)
MCNameLen == [n \in {".", "..", "a", "b", "c"} |->
                 CASE n \in {".", "a"} -> 1 [] n = "b" -> 5 [] OTHER -> 2]

(* A guest that opens and closes, one that uses files, one that reads the  *)
(* directory.                                                              *)
MCGuests ==
    {[calls |-> "table", fds |-> {3, 4, 7}, names |-> {}, bound |-> 7],
     [calls |-> "files", fds |-> {3, 5}, names |-> {"a", "b"}, bound |-> 6],
     [calls |-> "scan", fds |-> {3},
      names |-> {"a", "b", "c"}, bound |-> 5]}
============================================================================
