------------------------- MODULE GuestExecutionsInv -------------------------
(***************************************************************************)
(* The inductive invariant behind the safety properties of                 *)
(* GuestExecutions.                                                        *)
(*                                                                         *)
(* NoUseAfterFree and FreedOnce: epochs are sealed and drained in order    *)
(* (Base is the first one not drained); a call in flight pins an epoch     *)
(* that is not drained; a module it reaches is released no earlier than    *)
(* the one it entered, hence no earlier than its own pin; and what is      *)
(* released is collected only with an epoch that is no earlier either.     *)
(*                                                                         *)
(* NoLeakAtRest: what is released is in the batch, an epoch that is not    *)
(* drained, a list of Free calls to make, or freed (PlacedInv); and while  *)
(* the queue is not empty, somebody will look at its head (CollectInv).    *)
(*                                                                         *)
(* ReleasedExactly: what no open module reaches is released or reached     *)
(* from the worklist (WorkInv).                                            *)
(***************************************************************************)
EXTENDS GuestExecutions

CallLabels == {"load", "pin", "confirm", "check", "guest", "returning",
               "unpinRetry", "unpinClosed", "unpinReturn", "fail"}
Nested == {"closing", "retire", "work", "seal", "drain", "free"}

(* The thread's contribution to active[epoch[t]]. *)
Pinned(t) ==
    \/ pc[t] \in {"confirm", "check", "guest", "returning"} \cup Unpinning
    \/ pc[t] \in Nested /\ resume[t] \in {"guest", "unpinReturn"}

(* The pin was seen to be of the current epoch. *)
Confirmed(t) == Pinned(t) /\ pc[t] \notin {"confirm", "unpinRetry"}

Pinners(e) == {t \in Threads : Pinned(t) /\ epoch[t] = e}

(* The first epoch that is not drained. *)
Base == current - Len(queue)

(* Where a thread is in its code bounds what its locals hold. *)
LocalOK(t) ==
    /\ pc[t] \in CallLabels \cup {"link"} => entry[t] \in Modules
    /\ pc[t] \in {"closing", "retire"} => target[t] \in Modules
    /\ pc[t] = "closing" => resume[t] \in {"idle", "guest"}
    /\ pc[t] \in {"retire", "work", "seal"} =>
           resume[t] \in {"idle", "guest", "unpinReturn"}
    /\ pc[t] \in {"endcheck", "collect"} => resume[t] \in {"load", "fail", "idle"}
    /\ pc[t] \in {"drain", "free"} =>
           resume[t] \in {"idle", "guest", "unpinReturn", "load", "fail"}
    /\ pc[t] \in Nested \cup {"endcheck", "collect"} /\ resume[t] # "idle" =>
           entry[t] \in Modules
    /\ freeing[t] # {} => pc[t] \in {"drain", "free"}

(* The mutex excludes, and a batch exists only inside retireMemory. *)
ControlInv ==
    /\ \A t \in Threads : LocalOK(t)
    /\ \A t \in Threads : pc[t] \in Critical <=> t \in lock
    /\ \A t, u \in lock : t = u
    /\ batch # {} => \E t \in lock : pc[t] \in {"work", "seal"}

EpochInv ==
    /\ current = Len(active)
    /\ Len(retired) = Len(active)
    /\ Len(queue) <= current
    /\ current # 0 => Len(queue) < current
    /\ \A i \in 1 .. Len(queue) : queue[i] = Base + i - 1
    /\ \A e \in 1 .. current : retired[e] # {} => Base <= e /\ e < current

(* A pin is of an epoch that exists and, once confirmed, is not drained. *)
PinOK(t) ==
    /\ Pinned(t) \/ pc[t] \in {"pin", "endcheck"} => epoch[t] \in 1 .. current
    /\ Confirmed(t) => Base <= epoch[t]

PinInv ==
    /\ \A t \in Threads : PinOK(t)
    /\ \A e \in 1 .. current : active[e] = Cardinality(Pinners(e))

ClosedInv ==
    /\ \A m \in Modules : memoryReleased[m] => memoryClosed[m]
    /\ \A m \in Modules : memoryClosed[m] => closed[m] # "open"
    /\ \A t \in Threads : pc[t] = "retire" => closed[target[t]] # "open"

(* A module that is being linked is known to its own thread only. *)
LinkOK(t) ==
    /\ pc[t] = "link" =>
          /\ status[entry[t]] = "linking"
          /\ closed[entry[t]] = "open"
    /\ pc[t] \in {"closing", "retire"} => status[target[t]] # "absent"
    /\ pc[t] \in CallLabels => status[entry[t]] = "live"
    /\ pc[t] \in Nested \cup {"endcheck", "collect"} /\ resume[t] # "idle" =>
          status[entry[t]] = "live"

LinkingInv ==
    /\ \A t \in Threads : LinkOK(t)
    /\ \A m \in Modules : status[m] = "absent" => closed[m] = "open"
    /\ \A t, u \in Threads : t # u /\ pc[t] = "link" =>
          /\ pc[u] = "link" => entry[u] # entry[t]
          /\ pc[u] \in {"closing", "retire"} => target[u] # entry[t]

GraphInv ==
    /\ \A a, b \in Modules : importers[b][a] = importedModules[a][b]
    /\ \A a, b \in Modules :
          importers[b][a] > 0 <=> <<a, b>> \in links /\ ~ memoryReleased[a]
    /\ \A a, b \in Modules : <<a, b>> \in links /\ memoryReleased[b] =>
          memoryReleased[a] /\ releasedAt[a] <= releasedAt[b]
    /\ \A m \in Modules : releasedAt[m] <= current

(* A call that reached the guest pins an epoch no later than the one that  *)
(* was current when its module was released.                               *)
EntryOK(t) ==
    pc[t] = "guest" \/ (pc[t] \in Nested /\ resume[t] = "guest") =>
        (memoryReleased[entry[t]] => epoch[t] <= releasedAt[entry[t]])

EntryInv == \A t \in Threads : EntryOK(t)

(* A memory is in one place at a time, and collected no earlier than the   *)
(* epoch in which its module was released.                                 *)
MemoryOK(o) ==
    /\ o \in batch =>
          /\ memoryReleased[o] /\ o \in expBuffer /\ freed[o] = 0
          /\ \A e \in 1 .. current : o \notin retired[e]
          /\ \A t \in Threads : o \notin freeing[t]
    /\ \A e \in 1 .. current : o \in retired[e] =>
          /\ memoryReleased[o] /\ o \in expBuffer /\ freed[o] = 0
          /\ releasedAt[o] <= e
          /\ \A d \in 1 .. current : o \in retired[d] => d = e
          /\ \A t \in Threads : o \notin freeing[t]
    /\ \A t \in Threads : o \in freeing[t] =>
          /\ memoryReleased[o] /\ freed[o] = 0 /\ releasedAt[o] < Base
          /\ \A u \in Threads : o \in freeing[u] => u = t
    /\ o \notin expBuffer \/ freed[o] > 0 =>
          memoryReleased[o] /\ releasedAt[o] < Base
    /\ freed[o] <= 1

MemoryInv == \A o \in Owners : MemoryOK(o)

----------------------------------------------------------------------------
(* Behind NoLeakAtRest and ReleasedExactly. *)

(* A memory that is released is on its way to Free, or freed. *)
PlacedOK(o) ==
    memoryReleased[o] =>
        \/ o \in batch
        \/ \E e \in 1 .. current : o \in retired[e]
        \/ \E t \in Threads : o \in freeing[t]
        \/ freed[o] = 1

PlacedInv == \A o \in Owners : PlacedOK(o)

(* t has not looked at the queue yet since it could be drained: it pins    *)
(* the first epoch of it, or was the last to leave a sealed epoch.         *)
Collects(t) ==
    \/ Pinned(t) /\ epoch[t] = Base
    \/ pc[t] = "endcheck" /\ epoch[t] # current
    \/ pc[t] \in {"collect", "drain"}

CollectInv == queue # <<>> => \E t \in Threads : Collects(t)

(* Nothing that is not closed reaches m: it ought to be released. *)
Unreached(m) == \A x \in Modules : m \in Reach(x) => memoryClosed[x]

(* What ought to be released and is not, the worklist will come to. *)
WorkOK(m) ==
    Unreached(m) /\ ~ memoryReleased[m] =>
        \E t \in lock : /\ pc[t] = "work"
                        /\ \E r \in ready : ~ memoryReleased[r] /\ m \in Reach(r)

WorkInv == \A m \in Modules : WorkOK(m)

IInv == /\ TypeOK /\ ControlInv /\ EpochInv /\ PinInv /\ ClosedInv
        /\ LinkingInv /\ GraphInv /\ EntryInv /\ MemoryInv
        /\ PlacedInv /\ CollectInv /\ WorkInv
=============================================================================
