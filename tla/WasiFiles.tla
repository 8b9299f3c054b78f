----------------------------- MODULE WasiFiles -----------------------------
(***************************************************************************)
(* The calls of imports/wasi_snapshot_preview1 (fs.go, sock.go) that       *)
(* change a guest's descriptors and files, on top of Descriptors, and      *)
(* internal/sysfs/osfile.go below them.  One directory with regular files  *)
(* is preopened; a file's content is abstracted to its size.  What a guest *)
(* does depends on what it imports; other processes add files.  A call     *)
(* that returns an error and changes nothing is no step.                   *)
(***************************************************************************)
EXTENDS Descriptors, DirentScan

CONSTANTS
    FileNames,   \* names of files in the directory
    Nodes,       \* inodes, numbered
    MaxSize,     \* bound: the size of a file
    BufLens,     \* sizes of fd_readdir's buffer
    Guests       \* guests: the calls each makes, with which descriptors, valid
                 \* or not, and names, and a bound on how many it has in use

ASSUME WasiAssumption ==
    /\ Nodes = 1 .. Cardinality(Nodes)
    /\ IsFiniteSet(FileNames) /\ FileNames \cap {".", ".."} = {}
    /\ NameLen \in [FileNames \cup {".", ".."} -> Nat]
    /\ DirentSize \in Nat \ {0}
    /\ \A b \in BufLens : b \in Nat /\ b >= DirentSize
    /\ \A g \in Guests : g.fds \subseteq Int

VARIABLES
    fs,       \* the directory: from names to inodes
    size,     \* of each inode
    scan,     \* history: what the guest has read of the directory
    guest     \* the one that runs

fileVars == <<fs, size>>
wasiVars == <<masks, items, entry, fs, size, scan, guest>>

NoNode == 0

(* The names in the directory. *)
Listing == {n \in FileNames : fs[n] # NoNode}

NewDir == [kind |-> "dir", isPreopen |-> FALSE, closed |-> FALSE,
           stream |-> {}, cache |-> NoDirents]

(* The guest's view of a scan of file dir: the names got per position, the *)
(* position to go on from, names that were there all the time, and whether *)
(* it was told the end or refused to go on.                                *)
NoScan == [dir |-> NoFile, got |-> <<>>, next |-> 0, stable |-> {},
           ended |-> FALSE, refused |-> FALSE]

WasiInit ==
    /\ InitFSContext(NewDir)
    /\ guest \in Guests
    /\ \/ fs = [n \in FileNames |-> NoNode]
       \/ \E n \in guest.names : fs = [[m \in FileNames |-> NoNode] EXCEPT ![n] = 1]
    /\ size = [i \in Nodes |-> 0]
    /\ scan = NoScan

Regular(k) == Found(k) /\ entry[Lookup(k)].kind = "regular"
              /\ ~ entry[Lookup(k)].closed

IsDir(k) == Found(k) /\ entry[Lookup(k)].kind = "dir" /\ ~ entry[Lookup(k)].closed

OpenNodes == {entry[e].node : e \in {x \in Files : entry[x].kind = "regular"}}

FreeNode == CHOOSE i \in Nodes :
    LET Taken(j) == j \in OpenNodes \/ \E n \in FileNames : fs[n] = j
    IN  ~ Taken(i) /\ \A j \in 1 .. i - 1 : Taken(j)

(* A file lives while it has a name or is open. *)
Live == OpenNodes \cup {fs[n] : n \in FileNames}

SetSizes(s) == size' = [i \in Nodes |-> IF i \in Live' THEN s[i] ELSE 0]

(* The directory changed: names that went are not in it all the time.      *)
Changed == scan' = [scan EXCEPT !.stable = @ \cap Listing']
----------------------------------------------------------------------------
(* Opening and closing.                                                    *)

(* openFlags and the checks of path_open, then os.OpenFile. *)
NewFile(name, node, o) ==
    [kind |-> "regular", isPreopen |-> FALSE, closed |-> FALSE, path |-> name,
     node |-> node, pos |-> 0, append |-> o.append, osAppend |-> o.append]

PathOpen(k, name, o) ==
    /\ IsDir(k) /\ ~ Capped /\ LenUsed < guest.bound
    /\ fs[name] = NoNode => o.creat
    /\ ~ (o.creat /\ o.excl /\ fs[name] # NoNode)
    /\ LET node == IF fs[name] = NoNode THEN FreeNode ELSE fs[name]
       IN  /\ AddFile(NewFile(name, node, o))
           /\ fs' = [fs EXCEPT ![name] = node]
           /\ SetSizes(IF o.trunc THEN [size EXCEPT ![node] = 0] ELSE size)
    /\ Changed
    /\ UNCHANGED guest

(* path_open of the directory itself. *)
PathOpenDir(k) ==
    /\ IsDir(k) /\ ~ Capped /\ LenUsed < guest.bound
    /\ AddFile(NewDir)
    /\ UNCHANGED <<fs, size, scan, guest>>

FdClose(k, fails) ==
    CloseFile(k, fails) /\ UNCHANGED <<fs, scan, guest>> /\ SetSizes(size)

FdRenumber(from, to) ==
    Renumber(from, to) /\ UNCHANGED <<fs, scan, guest>> /\ SetSizes(size)

SockAcceptFn(k) ==
    LenUsed < guest.bound /\ SockAccept(k) /\ UNCHANGED <<fs, size, scan, guest>>

CloseContext ==
    CloseAll /\ UNCHANGED <<fs, scan, guest>> /\ SetSizes(size)
----------------------------------------------------------------------------
(* Files.                                                                  *)

SetPos(k, p) == entry' = [entry EXCEPT ![Lookup(k)].pos = p]

Larger(a, b) == IF a > b THEN a ELSE b

(* readv of one byte: nothing at the end of the file. *)
FdRead(k) ==
    /\ Regular(k)
    /\ LET f == entry[Lookup(k)]
       IN  f.pos < size[f.node] /\ SetPos(k, f.pos + 1)
    /\ UNCHANGED <<tableVars, fs, size, scan, guest>>

(* writev of one byte: at the end if the file was opened for appending. *)
FdWrite(k) ==
    /\ Regular(k)
    /\ LET f  == entry[Lookup(k)]
           at == IF f.osAppend THEN size[f.node] ELSE f.pos
       IN  /\ at < MaxSize
           /\ size' = [size EXCEPT ![f.node] = Larger(@, at + 1)]
           /\ SetPos(k, at + 1)
    /\ UNCHANGED <<tableVars, fs, scan, guest>>

(* fd_pwrite, which os.File refuses for appending; the offset stays. *)
FdPwrite(k, at) ==
    /\ Regular(k) /\ ~ entry[Lookup(k)].osAppend /\ at < MaxSize
    /\ size' = [size EXCEPT ![entry[Lookup(k)].node] = Larger(@, at + 1)]
    /\ UNCHANGED <<tableVars, entry, fs, scan, guest>>

FdSeek(k, whence, offset) ==
    /\ Regular(k)
    /\ LET f  == entry[Lookup(k)]
           to == offset + CASE whence = "set" -> 0 [] whence = "cur" -> f.pos
                            [] whence = "end" -> size[f.node]
       IN  to \in 0 .. MaxSize /\ SetPos(k, to)
    /\ UNCHANGED <<tableVars, fs, size, scan, guest>>

(* fd_filestat_set_size, and fd_allocate which never shrinks a file. *)
FdFilestatSetSize(k, n) ==
    /\ Regular(k)
    /\ size' = [size EXCEPT ![entry[Lookup(k)].node] = n]
    /\ UNCHANGED <<tableVars, entry, fs, scan, guest>>

FdAllocate(k, tail) ==
    /\ Regular(k) /\ tail > size[entry[Lookup(k)].node]
    /\ FdFilestatSetSize(k, tail)

(* Mutant of Reopened: the path may name another file by now. *)
ReopenedUnchecked(f) ==
    IF fs[f.path] = NoNode THEN f
    ELSE [f EXCEPT !.node = fs[f.path], !.osAppend = f.append]

(* osFile.reopen, with O_CREAT and O_TRUNC masked: the path must still     *)
(* name the file that is open, which is replaced then, at its offset.      *)
Reopened(f) ==
    IF fs[f.path] # f.node THEN f ELSE [f EXCEPT !.osAppend = f.append]

(* fd_fdstat_set_flags: the flag is set even if the file cannot be opened. *)
FdFdstatSetFlags(k, append) ==
    /\ Regular(k)
    /\ LET f == [entry[Lookup(k)] EXCEPT !.append = append]
       IN  entry' = [entry EXCEPT ![Lookup(k)] = Reopened(f)]
    /\ UNCHANGED <<tableVars, fs, size, scan, guest>>
----------------------------------------------------------------------------
(* The directory.                                                          *)

(* Another process adds a file or replaces one. *)
Appears(name) ==
    /\ fs' = [fs EXCEPT ![name] = FreeNode]
    /\ UNCHANGED <<tableVars, entry, guest>>
    /\ SetSizes(size)
    /\ scan' = [scan EXCEPT !.stable = @ \ {name}]

PathUnlinkFile(k, name) ==
    /\ IsDir(k) /\ fs[name] # NoNode
    /\ fs' = [fs EXCEPT ![name] = NoNode]
    /\ UNCHANGED <<tableVars, entry, guest>>
    /\ Changed /\ SetSizes(size)

PathRename(k, l, from, to) ==
    /\ IsDir(k) /\ IsDir(l) /\ fs[from] # NoNode /\ from # to
    /\ fs' = [fs EXCEPT ![to] = fs[from], ![from] = NoNode]
    /\ UNCHANGED <<tableVars, entry, guest>>
    /\ Changed /\ SetSizes(size)

(* path_link, to a name that is free. *)
PathLink(k, l, old, new) ==
    /\ IsDir(k) /\ IsDir(l) /\ fs[old] # NoNode /\ fs[new] = NoNode
    /\ fs' = [fs EXCEPT ![new] = fs[old]]
    /\ Changed
    /\ UNCHANGED <<tableVars, entry, size, guest>>

(* What the guest knows after a call at cookie.  One that it was not given *)
(* before ends what is known, and so does a rewind that fails.             *)
Scanned(dir, cookie, r, bufLen, fails) ==
    LET whole  == Whole(r.dirents, bufLen)
        begun  == [NoScan EXCEPT !.dir = dir,
                                 !.stable = Listing]
        old    == IF cookie = 0 THEN begun ELSE scan
        At(i)  == IF i - cookie \in DOMAIN whole THEN {whole[i - cookie]} ELSE {}
        Was(i) == IF i <= Len(old.got) THEN old.got[i] ELSE {}
    IN  IF cookie > 0 /\ (dir # scan.dir \/ cookie > Len(scan.got)) THEN NoScan
        ELSE IF r.errno /\ cookie = 0 THEN NoScan
        ELSE IF r.errno
        THEN [scan EXCEPT !.refused = cookie = scan.next /\ ~ fails,
                          !.next = IF r.cache # entry[dir].cache THEN cookie ELSE @]
        ELSE [old EXCEPT
                 !.got = [i \in 1 .. Larger(Len(old.got), cookie + Len(whole)) |->
                             Was(i) \cup At(i)],
                 !.next = cookie + Len(whole),
                 !.ended = bufused(r.dirents, bufLen) < bufLen]

FdReaddir(k, cookie, bufLen, fails) ==
    /\ IsDir(k)
    /\ LET dir  == Lookup(k)
           live == entry[dir].stream \cap Listing
           r    == Read(entry[dir].cache, live, Listing, cookie,
                        maxDirEntries(bufLen), fails)
       IN  /\ entry' = [entry EXCEPT ![dir].cache = r.cache, ![dir].stream = r.stream]
           /\ scan' = Scanned(dir, cookie, r, bufLen, fails)
    /\ UNCHANGED <<tableVars, fs, size, guest>>
----------------------------------------------------------------------------
Flags == {o \in [creat : BOOLEAN, excl : BOOLEAN, trunc : BOOLEAN, append : BOOLEAN] :
              o.excl => o.creat}

OpenAndClose ==
    /\ guest.calls = "table"
    /\ \/ \E k \in guest.fds : PathOpenDir(k) \/ SockAcceptFn(k)
       \/ \E k \in guest.fds, fails \in BOOLEAN : FdClose(k, fails)
       \/ \E from, to \in guest.fds : FdRenumber(from, to)
       \/ CloseContext

UseFiles ==
    /\ guest.calls = "files"
    /\ \/ \E n \in guest.names : Appears(n)
       \/ \E k \in guest.fds, n \in guest.names, o \in Flags : PathOpen(k, n, o)
       \/ \E k \in guest.fds : FdClose(k, FALSE) \/ FdRead(k) \/ FdWrite(k)
       \/ \E k \in guest.fds, n \in 0 .. MaxSize : 
              FdPwrite(k, n) \/ FdFilestatSetSize(k, n) \/ FdAllocate(k, n)
       \/ \E k \in guest.fds, w \in {"set", "cur", "end"}, n \in {-1, 0, 1} : FdSeek(k, w, n)
       \/ \E k \in guest.fds, append \in BOOLEAN : FdFdstatSetFlags(k, append)
       \/ \E k \in guest.fds, n \in guest.names : PathUnlinkFile(k, n)
       \/ \E k, l \in guest.fds, m, n \in guest.names :
              PathRename(k, l, m, n) \/ PathLink(k, l, m, n)

ScanDirectory ==
    /\ guest.calls = "scan"
    /\ \/ \E n \in guest.names : Appears(n)
       \/ \E k \in guest.fds, n \in guest.names : PathUnlinkFile(k, n)
       \/ \E k \in guest.fds, c \in 0 .. Len(scan.got) + 1, b \in BufLens, fails \in BOOLEAN :
              FdReaddir(k, c, b, fails)

WasiNext == OpenAndClose \/ UseFiles \/ ScanDirectory

WasiSpec == WasiInit /\ [][WasiNext]_wasiVars
----------------------------------------------------------------------------
(* Changing the flags of a descriptor, for which its file is opened again, *)
(* keeps the file it denotes, its offset and what the file holds, though   *)
(* the path was renamed, removed or reused since; and no other call makes  *)
(* a descriptor denote another file (C12 and osFile.checkSameFile).        *)
FileKept ==
    [][\A e \in Files : entry[e].kind = "regular" /\ entry'[e].kind = "regular" =>
          /\ entry'[e].node = entry[e].node
          /\ entry'[e].append # entry[e].append \/ entry'[e].osAppend # entry[e].osAppend
                 => entry'[e].pos = entry[e].pos /\ size' = size]_wasiVars

(* Between two rewinds a position means one entry, whatever buffers the    *)
(* guest passes, however often it reads again, and whatever is created or  *)
(* removed; and a guest that goes on after the last entry it has got       *)
(* whole is not refused.                                                   *)
CookieStable ==
    /\ \A i \in DOMAIN scan.got : Cardinality(scan.got[i]) <= 1
    /\ ~ scan.refused

(* A scan that was told the end has got every entry that was there all the *)
(* time, once, after the dots: "if less than the size of the read buffer,  *)
(* the end of the directory has been reached".                             *)
ScanComplete ==
    scan.ended /\ scan.next = Len(scan.got) =>
        /\ Len(scan.got) >= 2 /\ scan.got[1] = {"."} /\ scan.got[2] = {".."}
        /\ \A n \in scan.stable :
               Cardinality({i \in DOMAIN scan.got : n \in scan.got[i]}) = 1
============================================================================
