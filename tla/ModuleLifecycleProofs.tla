----------------------- MODULE ModuleLifecycleProofs -----------------------
(***************************************************************************)
(* Proofs about ModuleLifecycle, for any number of goroutines, modules and *)
(* names.  The invariants are inductive in four layers:                    *)
(*                                                                         *)
(*   StackInv   types, and which procedure may wait for which other one;   *)
(*   KnownInv   only closed modules are deleted and released (ClosedTop),  *)
(*              one goroutine closes the runtime (OneCloser), and a module *)
(*              that is not registered is known only to the goroutine that *)
(*              instantiates it (Known);                                   *)
(*   CloseInv   what an instantiation may still do has not been closed     *)
(*              (ClosedWhen), the name of a closed module is about to be   *)
(*              deleted (NameHeld), an open one is listed (OpenListed);    *)
(*   HoldInv    what open modules, instantiations and closed modules hold  *)
(*              (OpenWhole, InstHolds, ClosedReleases).                    *)
(*                                                                         *)
(* An action is seen as what it does to the stack of one goroutine (Moved, *)
(* Begun, Registers) and, by the label it runs at, to the rest (Dispatch,  *)
(* Effects); NextCases is the case distinction the proofs share.           *)
(***************************************************************************)
EXTENDS ModuleLifecycle, SequenceLemmas

(* The procedures a frame is of. *)
Insts    == {"check", "precheck", "build", "section", "hooks", "register", "abort"}
Afters   == {"started", "exported", "drop"}
Closers  == {"snapshot", "unlock", "each"}
Execs    == {"begin", "guest", "fail"}
Releases == {"notify", "forget", "sys", "retire", "code"}
Chain    == Releases \cup {"delete"}

(* Procedures that are never called by others. *)
Bottoms == Insts \cup Afters \cup Closers \cup {"returned"}

(* The procedure of frame l may be waiting for that of frame u. *)
Over(u, l) ==
    \/ l.at \in {"section", "exported"} /\ u.at \in Execs \cup Releases /\ u.m = l.m
    \/ l.at \in {"abort", "drop", "returned"} /\ u.at \in {"close"} \cup Chain /\ u.m = l.m
    \/ l.at = "guest" /\ u.at \in {"close"} \cup Chain
    \/ l.at = "each" /\ u.at \in {"closeStore"} \cup Releases

(* A well-formed stack: who waits for whom. *)
ShapeOf(s) ==
    \A i \in 1 .. Len(s) :
        /\ s[i].at \in Bottoms => i = Len(s)
        /\ i = Len(s) => s[i].at \notin {"close", "delete", "closeStore"}
        /\ s[i].m = NoModule <=> s[i].at \in Closers
        /\ i < Len(s) => Over(s[i], s[i + 1])

Shape == \A t \in Threads : ShapeOf(stack[t])

FrameSet == [at : Labels, m : Modules \cup {NoModule}]

(* The steps inside a procedure other than a registration, and its calls. *)
Moves ==
    {<<"close", "delete">>, <<"closeStore", "notify">>, <<"delete", "notify">>,
     <<"notify", "forget">>, <<"notify", "sys">>, <<"forget", "sys">>,
     <<"sys", "retire">>, <<"retire", "code">>, <<"begin", "guest">>,
     <<"begin", "fail">>, <<"guest", "fail">>, <<"fail", "notify">>,
     <<"check", "precheck">>, <<"precheck", "build">>, <<"precheck", "abort">>,
     <<"build", "hooks">>, <<"section", "hooks">>, <<"hooks", "register">>,
     <<"snapshot", "unlock">>, <<"unlock", "each">>}

Calls ==
    {<<"build", "close", "abort">>, <<"build", "begin", "section">>,
     <<"section", "close", "abort">>, <<"register", "close", "abort">>,
     <<"started", "begin", "exported">>, <<"exported", "close", "drop">>,
     <<"guest", "close", "guest">>, <<"each", "closeStore", "each">>}

(* What Goto, Call, Return and Start do to the frames. *)
Others(t) == \A u \in Threads : u # t => stack'[u] = stack[u]

Went(t, l) ==
    /\ stack' \in [Threads -> Seq(FrameSet)] /\ Others(t)
    /\ Len(stack'[t]) = Len(stack[t])
    /\ stack'[t][1] = [at |-> l, m |-> stack[t][1].m]
    /\ \A i \in 2 .. Len(stack[t]) : stack'[t][i] = stack[t][i]

Called(t, l, m, r) ==
    /\ stack' \in [Threads -> Seq(FrameSet)] /\ Others(t)
    /\ Len(stack'[t]) = Len(stack[t]) + 1
    /\ stack'[t][1] = [at |-> l, m |-> m]
    /\ stack'[t][2] = [at |-> r, m |-> stack[t][1].m]
    /\ \A i \in 2 .. Len(stack[t]) : stack'[t][i + 1] = stack[t][i]

Popped(t) ==
    /\ stack' \in [Threads -> Seq(FrameSet)] /\ Others(t)
    /\ Len(stack'[t]) = Len(stack[t]) - 1
    /\ \A i \in 1 .. Len(stack[t]) - 1 : stack'[t][i] = stack[t][i + 1]

Pushed(t, l, m) ==
    /\ stack' \in [Threads -> Seq(FrameSet)] /\ Others(t)
    /\ Len(stack'[t]) = 1
    /\ stack'[t][1] = [at |-> l, m |-> m]

(* Why m may be called from the procedure of the running frame. *)
Callee(t, m) ==
    \/ stack[t][1].at \notin {"guest", "each"} /\ m = stack[t][1].m
    \/ stack[t][1].at = "guest" /\ (m = stack[t][1].m \/ m \in visible)
    \/ stack[t][1].at = "each" /\ closing # <<>> /\ m = closing[1]

(* A step of a running procedure that does not register a module. *)
Moved(t) ==
    /\ Len(stack[t]) > 0
    /\ \/ \E l \in Labels : <<stack[t][1].at, l>> \in Moves /\ Went(t, l)
       \/ Popped(t)
       \/ \E l, r \in Labels, m \in Modules :
             /\ <<stack[t][1].at, l, r>> \in Calls
             /\ Callee(t, m) /\ Called(t, l, m, r)
----------------------------------------------------------------------------
(* What a step does to the stack of its goroutine. *)

(* A sequence whose first element is replaced. *)
LEMMA ReplaceHead ==
    ASSUME NEW S, NEW s \in Seq(S), Len(s) > 0, NEW x \in S
    PROVE  /\ <<x>> \o Tail(s) \in Seq(S)
           /\ Len(<<x>> \o Tail(s)) = Len(s)
           /\ (<<x>> \o Tail(s))[1] = x
           /\ \A i \in 2 .. Len(s) : (<<x>> \o Tail(s))[i] = s[i]
<1>1. /\ Tail(s) \in Seq(S) /\ Len(Tail(s)) = Len(s) - 1
      /\ \A i \in 1 .. Len(s) - 1 : Tail(s)[i] = s[i + 1]
    OBVIOUS
<1> DEFINE q == Tail(s)
<1>2. q \in Seq(S) /\ Len(q) = Len(s) - 1 /\ \A i \in 1 .. Len(s) - 1 : q[i] = s[i + 1]
    BY <1>1
<1> HIDE DEF q
<1>3. /\ <<x>> \o q \in Seq(S) /\ Len(<<x>> \o q) = Len(s) /\ (<<x>> \o q)[1] = x
      /\ \A i \in 2 .. Len(s) : (<<x>> \o q)[i] = q[i - 1]
    BY <1>2
<1>4. \A i \in 2 .. Len(s) : q[i - 1] = s[i]
    BY <1>2
<1> QED BY <1>3, <1>4 DEF q

(* A sequence whose first element is replaced by two. *)
LEMMA ReplaceHeadTwo ==
    ASSUME NEW S, NEW s \in Seq(S), Len(s) > 0, NEW x \in S, NEW y \in S
    PROVE  /\ <<x, y>> \o Tail(s) \in Seq(S)
           /\ Len(<<x, y>> \o Tail(s)) = Len(s) + 1
           /\ (<<x, y>> \o Tail(s))[1] = x
           /\ (<<x, y>> \o Tail(s))[2] = y
           /\ \A i \in 2 .. Len(s) : (<<x, y>> \o Tail(s))[i + 1] = s[i]
<1> DEFINE q == Tail(s)
<1>2. q \in Seq(S) /\ Len(q) = Len(s) - 1 /\ \A i \in 1 .. Len(s) - 1 : q[i] = s[i + 1]
    OBVIOUS
<1> HIDE DEF q
<1>3. /\ <<x, y>> \o q \in Seq(S) /\ Len(<<x, y>> \o q) = Len(s) + 1
      /\ (<<x, y>> \o q)[1] = x /\ (<<x, y>> \o q)[2] = y
      /\ \A i \in 2 .. Len(s) : (<<x, y>> \o q)[i + 1] = q[i - 1]
    BY <1>2
<1>4. \A i \in 2 .. Len(s) : q[i - 1] = s[i]
    BY <1>2
<1> QED BY <1>3, <1>4 DEF q

(* The frame on top of a stack, and what At and Top say of it. *)
LEMMA TopIs ==
    ASSUME TypeOK, NEW t \in Threads
    PROVE  /\ stack[t] \in Seq(FrameSet)
           /\ stack[t] # <<>> <=> Len(stack[t]) > 0
           /\ Len(stack[t]) \in Nat
           /\ Len(stack[t]) > 0 =>
                 /\ Head(stack[t]) = stack[t][1] /\ stack[t][1] \in FrameSet
                 /\ Top(t) = stack[t][1].m
           /\ \A i \in 1 .. Len(stack[t]) : stack[t][i] \in FrameSet
           /\ \A l : At(t, l) <=> Len(stack[t]) > 0 /\ stack[t][1].at = l
<1>1. stack[t] \in Seq(FrameSet)
    BY DEF TypeOK, FrameSet
<1>2. /\ stack[t] # <<>> <=> Len(stack[t]) > 0
      /\ Len(stack[t]) \in Nat
      /\ \A i \in 1 .. Len(stack[t]) : stack[t][i] \in FrameSet
    BY <1>1
<1>3. Len(stack[t]) > 0 => Head(stack[t]) = stack[t][1] /\ stack[t][1] \in FrameSet
    BY <1>1
<1> QED BY <1>1, <1>2, <1>3 DEF At, Top

(* Goto replaces the label of the frame on top. *)
LEMMA GotoFrames ==
    ASSUME TypeOK, NEW t \in Threads, NEW l \in Labels, Len(stack[t]) > 0, Goto(t, l)
    PROVE  Went(t, l)
<1>1. stack[t] \in Seq(FrameSet) /\ stack[t][1] \in FrameSet /\ Top(t) = stack[t][1].m
    BY TopIs
<1> DEFINE x == [at |-> l, m |-> stack[t][1].m]
<1>2. x \in FrameSet /\ Frame(l, Top(t)) = x
    BY <1>1 DEF FrameSet, Frame
<1> DEFINE r == <<x>> \o Tail(stack[t])
<1>3. stack' = [stack EXCEPT ![t] = r] /\ stack \in [Threads -> Seq(FrameSet)]
    BY <1>2 DEF Goto, TypeOK, FrameSet
<1>4. r \in Seq(FrameSet) /\ Len(r) = Len(stack[t]) /\ r[1] = x
      /\ \A i \in 2 .. Len(stack[t]) : r[i] = stack[t][i]
    BY <1>1, <1>2, ReplaceHead
<1> HIDE DEF r
<1> QED BY <1>3, <1>4 DEF Went, Others

(* Call leaves the caller at r below a new frame. *)
LEMMA CallFrames ==
    ASSUME TypeOK, NEW t \in Threads, NEW l \in Labels, NEW m \in Modules \cup {NoModule},
           NEW r \in Labels, Len(stack[t]) > 0, Call(t, l, m, r)
    PROVE  Called(t, l, m, r)
<1>1. stack[t] \in Seq(FrameSet) /\ stack[t][1] \in FrameSet /\ Top(t) = stack[t][1].m
    BY TopIs
<1> DEFINE x == [at |-> l, m |-> m]
           y == [at |-> r, m |-> stack[t][1].m]
<1>2. x \in FrameSet /\ Frame(l, m) = x /\ y \in FrameSet /\ Frame(r, Top(t)) = y
    BY <1>1 DEF FrameSet, Frame
<1> DEFINE q == <<x, y>> \o Tail(stack[t])
<1>3. stack' = [stack EXCEPT ![t] = q] /\ stack \in [Threads -> Seq(FrameSet)]
    BY <1>2 DEF Call, TypeOK, FrameSet
<1>4. q \in Seq(FrameSet) /\ Len(q) = Len(stack[t]) + 1 /\ q[1] = x /\ q[2] = y
      /\ \A i \in 2 .. Len(stack[t]) : q[i + 1] = stack[t][i]
    BY <1>1, <1>2, ReplaceHeadTwo
<1> HIDE DEF q
<1> QED BY <1>3, <1>4 DEF Called, Others

(* Return pops the frame on top. *)
LEMMA ReturnFrames ==
    ASSUME TypeOK, NEW t \in Threads, Len(stack[t]) > 0, Return(t)
    PROVE  Popped(t)
<1>1. stack[t] \in Seq(FrameSet)
    BY TopIs
<1> DEFINE q == Tail(stack[t])
<1>3. stack' = [stack EXCEPT ![t] = q] /\ stack \in [Threads -> Seq(FrameSet)]
    BY DEF Return, TypeOK, FrameSet
<1>4. q \in Seq(FrameSet) /\ Len(q) = Len(stack[t]) - 1
      /\ \A i \in 1 .. Len(stack[t]) - 1 : q[i] = stack[t][i + 1]
    BY <1>1
<1> HIDE DEF q
<1> QED BY <1>3, <1>4 DEF Popped, Others

(* Start pushes the first frame. *)
LEMMA StartFrames ==
    ASSUME TypeOK, NEW t \in Threads, NEW l \in Labels, NEW m \in Modules \cup {NoModule},
           Start(t, l, m)
    PROVE  Pushed(t, l, m)
<1> DEFINE x == [at |-> l, m |-> m]
           q == <<x>>
<1>2. x \in FrameSet /\ Frame(l, m) = x
    BY DEF FrameSet, Frame
<1>3. stack' = [stack EXCEPT ![t] = q] /\ stack \in [Threads -> Seq(FrameSet)]
    BY <1>2 DEF Start, TypeOK, FrameSet
<1>4. q \in Seq(FrameSet) /\ Len(q) = 1 /\ q[1] = x
    BY <1>2
<1> HIDE DEF q
<1> QED BY <1>3, <1>4 DEF Pushed, Others

(* But for the close of a runtime, the frame on top is about a module. *)
LEMMA TopModule ==
    ASSUME TypeOK, Shape, NEW t \in Threads, Len(stack[t]) > 0, stack[t][1].at \notin Closers
    PROVE  Top(t) \in Modules /\ Top(t) = stack[t][1].m
<1>1. stack[t][1].m # NoModule
    BY TopIs DEF Shape, ShapeOf
<1> QED BY <1>1, TopIs DEF FrameSet

(* A Goto along Moves is a Moved. *)
LEMMA GotoMoves ==
    ASSUME TypeOK, NEW t \in Threads, NEW o, NEW l \in Labels, At(t, o),
           <<o, l>> \in Moves, Goto(t, l)
    PROVE  Moved(t)
<1>1. Len(stack[t]) > 0 /\ stack[t][1].at = o
    BY TopIs
<1> QED BY <1>1, GotoFrames DEF Moved

(* A Call along Calls is a Moved. *)
LEMMA CallMoves ==
    ASSUME TypeOK, NEW t \in Threads, NEW o, NEW l \in Labels, NEW r \in Labels,
           NEW m \in Modules, At(t, o),
           <<o, l, r>> \in Calls, Callee(t, m), Call(t, l, m, r)
    PROVE  Moved(t)
<1>1. Len(stack[t]) > 0 /\ stack[t][1].at = o
    BY TopIs
<1> QED BY <1>1, CallFrames DEF Moved

(* A Return is a Moved. *)
LEMMA ReturnMoves ==
    ASSUME TypeOK, NEW t \in Threads, stack[t] # <<>>, Return(t)
    PROVE  Moved(t)
BY TopIs, ReturnFrames DEF Moved

(* Every step of a procedure moves its goroutine's stack, unless it        *)
(* registers a module.                                                     *)
LEMMA StepMoves ==
    ASSUME TypeOK, Shape, NEW t \in Threads,
           \/ Step(t) /\ ~ (InstantiateRegister(t) /\ Registrable(Top(t)))
           \/ GuestTrap(t)
           \/ \E m \in Modules : HostClose(t, m)
    PROVE  Moved(t)
<1> USE TypeOK
<1>1. CASE CloseDelete(t)
  <2>1. At(t, "delete") /\ stack[t] # <<>>
      BY <1>1 DEF CloseDelete, At
  <2>2. Goto(t, "notify")
      BY <1>1 DEF CloseDelete
  <2>3. CASE Goto(t, "notify")
    <3>1. "notify" \in Labels /\ <<"delete", "notify">> \in Moves
        BY DEF Labels, Moves
    <3> QED BY <2>1, <2>3, <3>1, GotoMoves
  <2> QED BY <2>2, <2>3
<1>2. CASE CloseReturned(t)
  <2>1. At(t, "returned") /\ stack[t] # <<>>
      BY <1>2 DEF CloseReturned, At
  <2>2. Return(t)
      BY <1>2 DEF CloseReturned
  <2>3. CASE Return(t)
      BY <2>1, <2>3, ReturnMoves
  <2> QED BY <2>2, <2>3
<1>3. CASE EnsureNotify(t)
  <2>1. At(t, "notify") /\ stack[t] # <<>>
      BY <1>3 DEF EnsureNotify, At
  <2>2. Goto(t, "forget") \/ Goto(t, "sys")
      BY <1>3 DEF EnsureNotify
  <2>3. CASE Goto(t, "forget")
    <3>1. "forget" \in Labels /\ <<"notify", "forget">> \in Moves
        BY DEF Labels, Moves
    <3> QED BY <2>1, <2>3, <3>1, GotoMoves
  <2>4. CASE Goto(t, "sys")
    <3>1. "sys" \in Labels /\ <<"notify", "sys">> \in Moves
        BY DEF Labels, Moves
    <3> QED BY <2>1, <2>4, <3>1, GotoMoves
  <2> QED BY <2>2, <2>3, <2>4
<1>4. CASE EnsureForget(t)
  <2>1. At(t, "forget") /\ stack[t] # <<>>
      BY <1>4 DEF EnsureForget, At
  <2>2. Goto(t, "sys")
      BY <1>4 DEF EnsureForget
  <2>3. CASE Goto(t, "sys")
    <3>1. "sys" \in Labels /\ <<"forget", "sys">> \in Moves
        BY DEF Labels, Moves
    <3> QED BY <2>1, <2>3, <3>1, GotoMoves
  <2> QED BY <2>2, <2>3
<1>5. CASE EnsureSys(t)
  <2>1. At(t, "sys") /\ stack[t] # <<>>
      BY <1>5 DEF EnsureSys, At
  <2>2. Goto(t, "retire")
      BY <1>5 DEF EnsureSys
  <2>3. CASE Goto(t, "retire")
    <3>1. "retire" \in Labels /\ <<"sys", "retire">> \in Moves
        BY DEF Labels, Moves
    <3> QED BY <2>1, <2>3, <3>1, GotoMoves
  <2> QED BY <2>2, <2>3
<1>6. CASE EnsureRetire(t)
  <2>1. At(t, "retire") /\ stack[t] # <<>>
      BY <1>6 DEF EnsureRetire, At
  <2>2. Goto(t, "code")
      BY <1>6 DEF EnsureRetire
  <2>3. CASE Goto(t, "code")
    <3>1. "code" \in Labels /\ <<"retire", "code">> \in Moves
        BY DEF Labels, Moves
    <3> QED BY <2>1, <2>3, <3>1, GotoMoves
  <2> QED BY <2>2, <2>3
<1>7. CASE EnsureCode(t)
  <2>1. At(t, "code") /\ stack[t] # <<>>
      BY <1>7 DEF EnsureCode, At
  <2>2. Return(t)
      BY <1>7 DEF EnsureCode
  <2>3. CASE Return(t)
      BY <2>1, <2>3, ReturnMoves
  <2> QED BY <2>2, <2>3
<1>8. CASE BeginExecution(t)
  <2>1. At(t, "begin") /\ stack[t] # <<>>
      BY <1>8 DEF BeginExecution, At
  <2>2. Goto(t, "guest") \/ Goto(t, "fail")
      BY <1>8 DEF BeginExecution
  <2>3. CASE Goto(t, "guest")
    <3>1. "guest" \in Labels /\ <<"begin", "guest">> \in Moves
        BY DEF Labels, Moves
    <3> QED BY <2>1, <2>3, <3>1, GotoMoves
  <2>4. CASE Goto(t, "fail")
    <3>1. "fail" \in Labels /\ <<"begin", "fail">> \in Moves
        BY DEF Labels, Moves
    <3> QED BY <2>1, <2>4, <3>1, GotoMoves
  <2> QED BY <2>2, <2>3, <2>4
<1>9. CASE GuestReturn(t)
  <2>1. At(t, "guest") /\ stack[t] # <<>>
      BY <1>9 DEF GuestReturn, At
  <2>2. Goto(t, "fail")
      BY <1>9 DEF GuestReturn
  <2>3. CASE Goto(t, "fail")
    <3>1. "fail" \in Labels /\ <<"guest", "fail">> \in Moves
        BY DEF Labels, Moves
    <3> QED BY <2>1, <2>3, <3>1, GotoMoves
  <2> QED BY <2>2, <2>3
<1>10. CASE FailIfClosed(t)
  <2>1. At(t, "fail") /\ stack[t] # <<>>
      BY <1>10 DEF FailIfClosed, At
  <2>2. Goto(t, "notify") \/ Return(t)
      BY <1>10 DEF FailIfClosed
  <2>3. CASE Goto(t, "notify")
    <3>1. "notify" \in Labels /\ <<"fail", "notify">> \in Moves
        BY DEF Labels, Moves
    <3> QED BY <2>1, <2>3, <3>1, GotoMoves
  <2>4. CASE Return(t)
      BY <2>1, <2>4, ReturnMoves
  <2> QED BY <2>2, <2>3, <2>4
<1>11. CASE InstantiateCheck(t)
  <2>1. At(t, "check") /\ stack[t] # <<>>
      BY <1>11 DEF InstantiateCheck, At
  <2>2. Goto(t, "precheck") \/ Return(t)
      BY <1>11 DEF InstantiateCheck
  <2>3. CASE Goto(t, "precheck")
    <3>1. "precheck" \in Labels /\ <<"check", "precheck">> \in Moves
        BY DEF Labels, Moves
    <3> QED BY <2>1, <2>3, <3>1, GotoMoves
  <2>4. CASE Return(t)
      BY <2>1, <2>4, ReturnMoves
  <2> QED BY <2>2, <2>3, <2>4
<1>12. CASE InstantiatePrecheck(t)
  <2>1. At(t, "precheck") /\ stack[t] # <<>>
      BY <1>12 DEF InstantiatePrecheck, At
  <2>2. Goto(t, "build") \/ Goto(t, "abort")
      BY <1>12 DEF InstantiatePrecheck
  <2>3. CASE Goto(t, "build")
    <3>1. "build" \in Labels /\ <<"precheck", "build">> \in Moves
        BY DEF Labels, Moves
    <3> QED BY <2>1, <2>3, <3>1, GotoMoves
  <2>4. CASE Goto(t, "abort")
    <3>1. "abort" \in Labels /\ <<"precheck", "abort">> \in Moves
        BY DEF Labels, Moves
    <3> QED BY <2>1, <2>4, <3>1, GotoMoves
  <2> QED BY <2>2, <2>3, <2>4
<1>13. CASE InstantiateBuild(t)
  <2>1. At(t, "build") /\ stack[t] # <<>>
      BY <1>13 DEF InstantiateBuild, At
  <2>2. Call(t, "close", Top(t), "abort") \/ Call(t, "begin", Top(t), "section") \/ Goto(t, "hooks")
      BY <1>13 DEF InstantiateBuild
  <2>3. Top(t) \in Modules /\ Callee(t, Top(t))
      BY <2>1, TopIs, TopModule DEF Closers, Callee
  <2>4. CASE Call(t, "close", Top(t), "abort")
    <3>1. "close" \in Labels /\ "abort" \in Labels /\ <<"build", "close", "abort">> \in Calls
        BY DEF Labels, Calls
    <3> QED BY <2>1, <2>3, <2>4, <3>1, CallMoves
  <2>5. CASE Call(t, "begin", Top(t), "section")
    <3>1. "begin" \in Labels /\ "section" \in Labels /\ <<"build", "begin", "section">> \in Calls
        BY DEF Labels, Calls
    <3> QED BY <2>1, <2>3, <2>5, <3>1, CallMoves
  <2>6. CASE Goto(t, "hooks")
    <3>1. "hooks" \in Labels /\ <<"build", "hooks">> \in Moves
        BY DEF Labels, Moves
    <3> QED BY <2>1, <2>6, <3>1, GotoMoves
  <2> QED BY <2>2, <2>4, <2>5, <2>6
<1>14. CASE InstantiateSection(t)
  <2>1. At(t, "section") /\ stack[t] # <<>>
      BY <1>14 DEF InstantiateSection, At
  <2>2. Call(t, "close", Top(t), "abort") \/ Goto(t, "hooks")
      BY <1>14 DEF InstantiateSection
  <2>3. Top(t) \in Modules /\ Callee(t, Top(t))
      BY <2>1, TopIs, TopModule DEF Closers, Callee
  <2>4. CASE Call(t, "close", Top(t), "abort")
    <3>1. "close" \in Labels /\ "abort" \in Labels /\ <<"section", "close", "abort">> \in Calls
        BY DEF Labels, Calls
    <3> QED BY <2>1, <2>3, <2>4, <3>1, CallMoves
  <2>5. CASE Goto(t, "hooks")
    <3>1. "hooks" \in Labels /\ <<"section", "hooks">> \in Moves
        BY DEF Labels, Moves
    <3> QED BY <2>1, <2>5, <3>1, GotoMoves
  <2> QED BY <2>2, <2>4, <2>5
<1>15. CASE InstantiateHooks(t)
  <2>1. At(t, "hooks") /\ stack[t] # <<>>
      BY <1>15 DEF InstantiateHooks, At
  <2>2. Goto(t, "register")
      BY <1>15 DEF InstantiateHooks
  <2>3. CASE Goto(t, "register")
    <3>1. "register" \in Labels /\ <<"hooks", "register">> \in Moves
        BY DEF Labels, Moves
    <3> QED BY <2>1, <2>3, <3>1, GotoMoves
  <2> QED BY <2>2, <2>3
<1>16. CASE InstantiateStart(t)
  <2>1. At(t, "started") /\ stack[t] # <<>>
      BY <1>16 DEF InstantiateStart, At
  <2>2. Call(t, "begin", Top(t), "exported") \/ Return(t)
      BY <1>16 DEF InstantiateStart
  <2>3. Top(t) \in Modules /\ Callee(t, Top(t))
      BY <2>1, TopIs, TopModule DEF Closers, Callee
  <2>4. CASE Call(t, "begin", Top(t), "exported")
    <3>1. "begin" \in Labels /\ "exported" \in Labels /\ <<"started", "begin", "exported">> \in Calls
        BY DEF Labels, Calls
    <3> QED BY <2>1, <2>3, <2>4, <3>1, CallMoves
  <2>5. CASE Return(t)
      BY <2>1, <2>5, ReturnMoves
  <2> QED BY <2>2, <2>4, <2>5
<1>17. CASE InstantiateStarted(t)
  <2>1. At(t, "exported") /\ stack[t] # <<>>
      BY <1>17 DEF InstantiateStarted, At
  <2>2. Call(t, "close", Top(t), "drop") \/ Return(t)
      BY <1>17 DEF InstantiateStarted
  <2>3. Top(t) \in Modules /\ Callee(t, Top(t))
      BY <2>1, TopIs, TopModule DEF Closers, Callee
  <2>4. CASE Call(t, "close", Top(t), "drop")
    <3>1. "close" \in Labels /\ "drop" \in Labels /\ <<"exported", "close", "drop">> \in Calls
        BY DEF Labels, Calls
    <3> QED BY <2>1, <2>3, <2>4, <3>1, CallMoves
  <2>5. CASE Return(t)
      BY <2>1, <2>5, ReturnMoves
  <2> QED BY <2>2, <2>4, <2>5
<1>18. CASE InstantiateAbort(t)
  <2>1. At(t, "abort") /\ stack[t] # <<>>
      BY <1>18 DEF InstantiateAbort, At
  <2>2. Return(t)
      BY <1>18 DEF InstantiateAbort
  <2>3. CASE Return(t)
      BY <2>1, <2>3, ReturnMoves
  <2> QED BY <2>2, <2>3
<1>19. CASE InstantiateDrop(t)
  <2>1. At(t, "drop") /\ stack[t] # <<>>
      BY <1>19 DEF InstantiateDrop, At
  <2>2. Return(t)
      BY <1>19 DEF InstantiateDrop
  <2>3. CASE Return(t)
      BY <2>1, <2>3, ReturnMoves
  <2> QED BY <2>2, <2>3
<1>20. CASE StoreSnapshot(t)
  <2>1. At(t, "snapshot") /\ stack[t] # <<>>
      BY <1>20 DEF StoreSnapshot, At
  <2>2. Goto(t, "unlock")
      BY <1>20 DEF StoreSnapshot
  <2>3. CASE Goto(t, "unlock")
    <3>1. "unlock" \in Labels /\ <<"snapshot", "unlock">> \in Moves
        BY DEF Labels, Moves
    <3> QED BY <2>1, <2>3, <3>1, GotoMoves
  <2> QED BY <2>2, <2>3
<1>21. CASE StoreUnlock(t)
  <2>1. At(t, "unlock") /\ stack[t] # <<>>
      BY <1>21 DEF StoreUnlock, At
  <2>2. Goto(t, "each")
      BY <1>21 DEF StoreUnlock
  <2>3. CASE Goto(t, "each")
    <3>1. "each" \in Labels /\ <<"unlock", "each">> \in Moves
        BY DEF Labels, Moves
    <3> QED BY <2>1, <2>3, <3>1, GotoMoves
  <2> QED BY <2>2, <2>3
<1>22. CASE StoreCloseDone(t)
  <2>1. At(t, "each") /\ stack[t] # <<>>
      BY <1>22 DEF StoreCloseDone, At
  <2>2. Return(t)
      BY <1>22 DEF StoreCloseDone
  <2>3. CASE Return(t)
      BY <2>1, <2>3, ReturnMoves
  <2> QED BY <2>2, <2>3
<1>23. CASE GuestTrap(t)
  <2>1. At(t, "guest") /\ stack[t] # <<>>
      BY <1>23 DEF GuestTrap, At
  <2>2. Goto(t, "fail") \/ Return(t)
      BY <1>23 DEF GuestTrap
  <2>3. CASE Goto(t, "fail")
    <3>1. "fail" \in Labels /\ <<"guest", "fail">> \in Moves
        BY DEF Labels, Moves
    <3> QED BY <2>1, <2>3, <3>1, GotoMoves
  <2>4. CASE Return(t)
      BY <2>1, <2>4, ReturnMoves
  <2> QED BY <2>2, <2>3, <2>4
<1>c1. CASE CloseSetExitCode(t)
  <2>1. CASE Return(t)
    <3>1. stack[t] # <<>>
        BY <1>c1 DEF CloseSetExitCode, At
    <3> QED BY <2>1, <3>1, ReturnMoves
  <2>2. CASE At(t, "close") /\ Goto(t, "delete")
    <3>1. "delete" \in Labels /\ <<"close", "delete">> \in Moves
        BY DEF Labels, Moves
    <3> QED BY <2>2, <3>1, GotoMoves
  <2>3. CASE At(t, "closeStore") /\ Goto(t, "notify")
    <3>1. "notify" \in Labels /\ <<"closeStore", "notify">> \in Moves
        BY DEF Labels, Moves
    <3> QED BY <2>3, <3>1, GotoMoves
  <2> QED BY <1>c1, <2>1, <2>2, <2>3 DEF CloseSetExitCode
<1>c2. CASE InstantiateRegister(t) /\ ~ Registrable(Top(t))
  <2>1. At(t, "register") /\ Call(t, "close", Top(t), "abort")
      BY <1>c2 DEF InstantiateRegister
  <2>2. Top(t) \in Modules /\ Callee(t, Top(t))
      BY <2>1, TopIs, TopModule DEF Closers, Callee
  <2>3. "close" \in Labels /\ "abort" \in Labels /\ <<"register", "close", "abort">> \in Calls
      BY DEF Labels, Calls
  <2> QED BY <2>1, <2>2, <2>3, CallMoves
<1>c3. CASE StoreCloseEach(t)
  <2>1. At(t, "each") /\ closing # <<>> /\ Call(t, "closeStore", Head(closing), "each")
      BY <1>c3 DEF StoreCloseEach
  <2>2. Head(closing) \in Modules /\ Head(closing) = closing[1]
      BY <2>1 DEF TypeOK
  <2>3. "closeStore" \in Labels /\ "each" \in Labels /\ <<"each", "closeStore", "each">> \in Calls
      BY DEF Labels, Calls
  <2>4. Callee(t, Head(closing))
      BY <2>1, <2>2, TopIs DEF Callee
  <2> QED BY <2>1, <2>2, <2>3, <2>4, CallMoves
<1>c4. CASE \E m \in Modules : HostClose(t, m)
  <2> PICK m \in Modules : HostClose(t, m)
      BY <1>c4
  <2>1. At(t, "guest") /\ (m = Top(t) \/ m \in visible) /\ Call(t, "close", m, "guest")
      BY DEF HostClose
  <2>3. "close" \in Labels /\ "guest" \in Labels /\ <<"guest", "close", "guest">> \in Calls
      BY DEF Labels, Calls
  <2>4. Callee(t, m)
      BY <2>1, TopIs DEF Callee
  <2> QED BY <2>1, <2>3, <2>4, CallMoves
<1> QED
  BY <1>1, <1>2, <1>3, <1>4, <1>5, <1>6, <1>7, <1>8, <1>9, <1>10, <1>11, <1>12, <1>13, <1>14, <1>15, <1>16, <1>17, <1>18, <1>19, <1>20, <1>21, <1>22, <1>23, <1>c1, <1>c2, <1>c3, <1>c4 DEF Step
----------------------------------------------------------------------------
(* Types and the shape of the stacks. *)

(* What labels a Goto connects: it stays in its procedure, or tail-calls   *)
(* the releases.                                                           *)
LEMMA MoveLabels ==
    ASSUME NEW o, NEW l, <<o, l>> \in Moves
    PROVE  /\ l \in Labels
           /\ l \in Bottoms <=> o \in Bottoms
           /\ l \in Insts <=> o \in Insts
           /\ l \in Closers <=> o \in Closers
           /\ l \notin {"close", "closeStore", "returned"} \cup Afters
           /\ o \notin {"returned"} \cup Afters
           /\ l = "delete" => o = "close"
           /\ o \in Execs => l \in Execs \cup Releases
           /\ o \in {"close"} \cup Chain => l \in Chain
           /\ o \in {"closeStore"} \cup Releases => l \in Releases
BY DEF Moves, Labels, Bottoms, Insts, Afters, Closers, Execs, Releases, Chain

(* What labels a Call connects: who calls what, and where it returns to. *)
LEMMA CallLabels ==
    ASSUME NEW o, NEW l, NEW r, <<o, l, r>> \in Calls
    PROVE  /\ l \in Labels /\ r \in Labels
           /\ r \in Bottoms <=> o \in Bottoms
           /\ r \in Insts <=> o \in Insts
           /\ r \in Afters <=> o \in Afters
           /\ r \in Closers <=> o \in Closers
           /\ l \in {"close", "begin", "closeStore"}
           /\ r \notin {"close", "closeStore", "delete", "returned"}
           /\ o \in Bottoms \/ (o = "guest" /\ r = "guest")
           /\ l = "closeStore" <=> o = "each"
           /\ o = "each" => r = "each"
           /\ l = "close" => r \in {"abort", "drop", "guest"}
           /\ l = "begin" => r \in {"section", "exported"}
           /\ r \in {"abort", "drop", "section", "exported"} => o \notin {"guest", "each"}
BY DEF Calls, Labels, Bottoms, Insts, Afters, Closers

(* A stack keeps its shape by a Goto. *)
LEMMA ShapeWent ==
    ASSUME TypeOK, Shape, NEW t \in Threads, Len(stack[t]) > 0, NEW l,
           <<stack[t][1].at, l>> \in Moves, Went(t, l)
    PROVE  ShapeOf(stack'[t])
<1> DEFINE s == stack[t]
           q == stack'[t]
           n == Len(s)
<1>1. n \in Nat /\ n > 0
    BY TopIs
<1>2. ShapeOf(s)
    BY DEF Shape
<1>3. Len(q) = n /\ q[1] = [at |-> l, m |-> s[1].m] /\ \A i \in 2 .. n : q[i] = s[i]
    BY DEF Went
<1>4. <<s[1].at, l>> \in Moves
    OBVIOUS
<1> HIDE DEF s, q, n
<1> SUFFICES ASSUME NEW i \in 1 .. n
    PROVE  /\ q[i].at \in Bottoms => i = n
           /\ i = n => q[i].at \notin {"close", "delete", "closeStore"}
           /\ q[i].m = NoModule <=> q[i].at \in Closers
           /\ i < n => Over(q[i], q[i + 1])
    BY <1>3 DEF ShapeOf, q
<1>5. /\ \A j \in 1 .. n :
            /\ s[j].at \in Bottoms => j = n
            /\ j = n => s[j].at \notin {"close", "delete", "closeStore"}
            /\ s[j].m = NoModule <=> s[j].at \in Closers
            /\ j < n => Over(s[j], s[j + 1])
    BY <1>2 DEF ShapeOf, n
<1>6. CASE i > 1
    BY <1>1, <1>3, <1>5, <1>6
<1>7. CASE i = 1
  <2>1. q[i].at = l /\ q[i].m = s[1].m
      BY <1>3, <1>7
  <2>2. l \in Bottoms => i = n
      BY <1>1, <1>4, <1>5, <1>7, MoveLabels
  <2>3. i = n => l \notin {"close", "delete", "closeStore"}
      BY <1>1, <1>4, <1>5, <1>7, MoveLabels
  <2>4. s[1].m = NoModule <=> l \in Closers
      BY <1>1, <1>4, <1>5, <1>7, MoveLabels
  <2>5. i < n => Over(q[i], q[i + 1])
    <3> SUFFICES ASSUME 1 < n PROVE Over(q[1], q[2])
        BY <1>7
    <3>1. q[2] = s[2] /\ Over(s[1], s[2])
        BY <1>1, <1>3, <1>5
    <3> QED BY <3>1, <2>1, <1>4, <1>7, MoveLabels DEF Over
  <2> QED BY <2>1, <2>2, <2>3, <2>4, <2>5
<1> QED BY <1>1, <1>6, <1>7

(* A stack keeps its shape by a Return. *)
LEMMA ShapePopped ==
    ASSUME TypeOK, Shape, NEW t \in Threads, Len(stack[t]) > 0, Popped(t)
    PROVE  ShapeOf(stack'[t])
<1> DEFINE s == stack[t]
           q == stack'[t]
           n == Len(s)
<1>1. n \in Nat /\ n > 0
    BY TopIs
<1>2. ShapeOf(s)
    BY DEF Shape
<1>3. Len(q) = n - 1 /\ \A i \in 1 .. n - 1 : q[i] = s[i + 1]
    BY DEF Popped
<1> HIDE DEF s, q, n
<1>4. /\ \A j \in 1 .. n :
            /\ s[j].at \in Bottoms => j = n
            /\ j = n => s[j].at \notin {"close", "delete", "closeStore"}
            /\ s[j].m = NoModule <=> s[j].at \in Closers
            /\ j < n => Over(s[j], s[j + 1])
    BY <1>2 DEF ShapeOf, n
<1> SUFFICES ASSUME NEW i \in 1 .. n - 1
    PROVE  /\ q[i].at \in Bottoms => i = n - 1
           /\ i = n - 1 => q[i].at \notin {"close", "delete", "closeStore"}
           /\ q[i].m = NoModule <=> q[i].at \in Closers
           /\ i < n - 1 => Over(q[i], q[i + 1])
    BY <1>3 DEF ShapeOf, q
<1>5. q[i] = s[i + 1] /\ (i < n - 1 => q[i + 1] = s[i + 2])
    BY <1>1, <1>3
<1> QED BY <1>1, <1>4, <1>5

(* A stack keeps its shape by a Call. *)
LEMMA ShapeCalled ==
    ASSUME TypeOK, Shape, NEW t \in Threads, Len(stack[t]) > 0, NEW l, NEW r,
           NEW m \in Modules, <<stack[t][1].at, l, r>> \in Calls, Callee(t, m),
           Called(t, l, m, r)
    PROVE  ShapeOf(stack'[t])
<1> DEFINE s == stack[t]
           q == stack'[t]
           n == Len(s)
<1>1. n \in Nat /\ n > 0
    BY TopIs
<1>2. ShapeOf(s)
    BY DEF Shape
<1>3. /\ Len(q) = n + 1 /\ q[1] = [at |-> l, m |-> m]
      /\ q[2] = [at |-> r, m |-> s[1].m] /\ \A i \in 2 .. n : q[i + 1] = s[i]
    BY DEF Called
<1>4. <<s[1].at, l, r>> \in Calls
    OBVIOUS
<1>c. s[1].at \notin {"guest", "each"} => m = s[1].m
    BY DEF Callee
<1>m. m # NoModule
    BY StoreAssumption
<1> HIDE DEF s, q, n
<1>5. /\ \A j \in 1 .. n :
            /\ s[j].at \in Bottoms => j = n
            /\ j = n => s[j].at \notin {"close", "delete", "closeStore"}
            /\ s[j].m = NoModule <=> s[j].at \in Closers
            /\ j < n => Over(s[j], s[j + 1])
    BY <1>2 DEF ShapeOf, n
<1> SUFFICES ASSUME NEW i \in 1 .. n + 1
    PROVE  /\ q[i].at \in Bottoms => i = n + 1
           /\ i = n + 1 => q[i].at \notin {"close", "delete", "closeStore"}
           /\ q[i].m = NoModule <=> q[i].at \in Closers
           /\ i < n + 1 => Over(q[i], q[i + 1])
    BY <1>3 DEF ShapeOf, q
<1>6. CASE i > 2
  <2>1. i - 1 \in 2 .. n /\ q[i] = s[i - 1] /\ (i < n + 1 => q[i + 1] = s[i])
      BY <1>1, <1>3, <1>6
  <2> QED BY <1>1, <1>5, <2>1
<1>7. CASE i = 1
  <2>1. l \notin Bottoms /\ l \notin Closers
      BY <1>4, CallLabels DEF Bottoms, Closers, Insts, Afters
  <2>2. Over(q[1], q[2])
      BY <1>3, <1>4, <1>c, CallLabels DEF Over, Execs
  <2> QED BY <1>1, <1>3, <1>7, <1>m, <2>1, <2>2
<1>8. CASE i = 2
  <2>1. q[i].at = r /\ q[i].m = s[1].m
      BY <1>3, <1>8
  <2>2. r \in Bottoms => n = 1
      BY <1>1, <1>4, <1>5, CallLabels
  <2>3. r \notin {"close", "delete", "closeStore"} /\ (s[1].m = NoModule <=> r \in Closers)
      BY <1>1, <1>4, <1>5, CallLabels
  <2>4. i < n + 1 => Over(q[i], q[i + 1])
    <3> SUFFICES ASSUME 1 < n PROVE Over(q[2], q[3])
        BY <1>8, <1>1
    <3>1. q[3] = s[2] /\ Over(s[1], s[2]) /\ s[1].at \notin Bottoms
        BY <1>1, <1>3, <1>5
    <3>2. s[1].at = "guest" /\ r = "guest"
        BY <1>4, <3>1, CallLabels
    <3> QED BY <3>1, <3>2, <2>1, <1>8 DEF Over
  <2> QED BY <1>1, <1>8, <2>1, <2>2, <2>3, <2>4
<1> QED BY <1>1, <1>6, <1>7, <1>8

(* Stacks keep their shape when one goroutine moves. *)
LEMMA ShapeMoved ==
    ASSUME TypeOK, Shape, NEW t \in Threads, Moved(t)
    PROVE  Shape' /\ stack' \in [Threads -> Seq(FrameSet)]
<1>1. ShapeOf(stack'[t])
    BY ShapeWent, ShapePopped, ShapeCalled DEF Moved
<1>2. Others(t) /\ stack' \in [Threads -> Seq(FrameSet)]
    BY DEF Moved, Went, Popped, Called
<1>3. \A u \in Threads : ShapeOf(stack'[u])
    BY <1>1, <1>2 DEF Others, Shape
<1> QED BY <1>2, <1>3 DEF Shape, ShapeOf

(* A goroutine enters the runtime, or registers a module. *)
PushedClose(t, m) ==
    /\ stack' \in [Threads -> Seq(FrameSet)] /\ Others(t)
    /\ Len(stack'[t]) = 2
    /\ stack'[t][1] = [at |-> "close", m |-> m]
    /\ stack'[t][2] = [at |-> "returned", m |-> m]

Begun(t) ==
    /\ Len(stack[t]) = 0
    /\ \/ \E m \in Modules : Pushed(t, "check", m) /\ Untouched(m)
       \/ \E m \in Modules : Pushed(t, "begin", m) /\ m \in visible
       \/ \E m \in Modules : PushedClose(t, m) /\ m \in visible
       \/ Pushed(t, "snapshot", NoModule)

Registers(t) ==
    Len(stack[t]) > 0 /\ stack[t][1].at = "register" /\ Went(t, "started")

(* StartClose pushes the close above where the embedder goes on. *)
LEMMA StartCloseFrames ==
    ASSUME TypeOK, NEW t \in Threads, NEW m \in Modules, StartClose(t, m)
    PROVE  PushedClose(t, m)
<1> DEFINE x == [at |-> "close", m |-> m]
           y == [at |-> "returned", m |-> m]
           q == <<x, y>>
<1>2. x \in FrameSet /\ Frame("close", m) = x /\ y \in FrameSet /\ Frame("returned", m) = y
    BY DEF FrameSet, Frame, Labels
<1>3. stack' = [stack EXCEPT ![t] = q] /\ stack \in [Threads -> Seq(FrameSet)]
    BY <1>2 DEF StartClose, TypeOK, FrameSet
<1>4. q \in Seq(FrameSet) /\ Len(q) = 2 /\ q[1] = x /\ q[2] = y
    BY <1>2
<1> HIDE DEF q
<1> QED BY <1>3, <1>4 DEF PushedClose, Others

(* Every operation an embedder starts begins on an empty stack. *)
LEMMA StartBegins ==
    ASSUME TypeOK, NEW t \in Threads,
           \/ \E m \in Modules : StartInstantiate(t, m) \/ StartCall(t, m) \/ StartClose(t, m)
           \/ StartCloseRuntime(t)
    PROVE  Begun(t)
<1>0. {"check", "begin", "snapshot"} \subseteq Labels
    BY DEF Labels
<1>1. Len(stack[t]) = 0
    BY DEF StartInstantiate, StartCall, StartClose, StartCloseRuntime
<1>2. ASSUME NEW m \in Modules, StartInstantiate(t, m)
      PROVE  Pushed(t, "check", m) /\ Untouched(m)
    BY <1>0, <1>2, StartFrames DEF StartInstantiate
<1>3. ASSUME NEW m \in Modules, StartCall(t, m)
      PROVE  Pushed(t, "begin", m) /\ m \in visible
    BY <1>0, <1>3, StartFrames DEF StartCall
<1>4. ASSUME NEW m \in Modules, StartClose(t, m)
      PROVE  PushedClose(t, m) /\ m \in visible
    BY <1>4, StartCloseFrames DEF StartClose
<1>5. StartCloseRuntime(t) => Pushed(t, "snapshot", NoModule)
    BY <1>0, StartFrames DEF StartCloseRuntime
<1> QED BY <1>1, <1>2, <1>3, <1>4, <1>5 DEF Begun

(* Registering goes on to the start section, or to giving up. *)
LEMMA RegisterFrames ==
    ASSUME TypeOK, NEW t \in Threads, InstantiateRegister(t), Registrable(Top(t))
    PROVE  Registers(t)
<1>1. At(t, "register") /\ Goto(t, "started") /\ "started" \in Labels
    BY DEF InstantiateRegister, Labels
<1>2. Len(stack[t]) > 0 /\ stack[t][1].at = "register"
    BY <1>1, TopIs
<1> QED BY <1>1, <1>2, GotoFrames DEF Registers

(* A new stack has its shape. *)
LEMMA ShapeBegun ==
    ASSUME TypeOK, Shape, NEW t \in Threads, Begun(t)
    PROVE  Shape' /\ stack' \in [Threads -> Seq(FrameSet)]
<1>0. ASSUME NEW m \in Modules PROVE m # NoModule
    BY <1>0, StoreAssumption
<1>1. ShapeOf(stack'[t])
  <2>1. CASE \E m \in Modules : Pushed(t, "check", m)
      BY <1>0, <2>1 DEF Pushed, ShapeOf, Bottoms, Closers
  <2>2. CASE \E m \in Modules : Pushed(t, "begin", m)
      BY <1>0, <2>2 DEF Pushed, ShapeOf, Bottoms, Insts, Afters, Closers
  <2>3. CASE \E m \in Modules : PushedClose(t, m)
      BY <1>0, <2>3 DEF PushedClose, ShapeOf, Bottoms, Insts, Afters, Closers, Over
  <2>4. CASE Pushed(t, "snapshot", NoModule)
      BY <2>4 DEF Pushed, ShapeOf, Bottoms, Closers
  <2> QED BY <2>1, <2>2, <2>3, <2>4 DEF Begun
<1>2. Others(t) /\ stack' \in [Threads -> Seq(FrameSet)]
    BY DEF Begun, Pushed, PushedClose
<1>3. \A u \in Threads : ShapeOf(stack'[u])
    BY <1>1, <1>2 DEF Others, Shape
<1> QED BY <1>2, <1>3 DEF Shape, ShapeOf

(* A frame with a bottom label is the only one. *)
LEMMA RegisterAlone ==
    ASSUME TypeOK, Shape, NEW t \in Threads, Len(stack[t]) > 0, stack[t][1].at \in Bottoms
    PROVE  Len(stack[t]) = 1
<1>1. Len(stack[t]) \in Nat
    BY TopIs
<1>2. ShapeOf(stack[t])
    BY DEF Shape
<1>3. 1 \in 1 .. Len(stack[t])
    BY <1>1
<1> QED BY <1>2, <1>3 DEF ShapeOf

(* Stacks keep their shape when a module is registered. *)
LEMMA ShapeRegisters ==
    ASSUME TypeOK, Shape, NEW t \in Threads, Registers(t)
    PROVE  Shape' /\ stack' \in [Threads -> Seq(FrameSet)]
<1>1. Len(stack[t]) = 1
    BY RegisterAlone DEF Registers, Bottoms, Insts
<1>2. stack[t][1].m # NoModule
    BY <1>1 DEF Shape, ShapeOf, Registers, Closers
<1>3. ShapeOf(stack'[t])
    BY <1>1, <1>2 DEF Registers, Went, ShapeOf, Bottoms, Afters, Closers
<1>4. Others(t) /\ stack' \in [Threads -> Seq(FrameSet)]
    BY DEF Registers, Went
<1>5. \A u \in Threads : ShapeOf(stack'[u])
    BY <1>3, <1>4 DEF Others, Shape
<1> QED BY <1>4, <1>5 DEF Shape, ShapeOf

(* What a step does to the stacks. *)
LEMMA NextStacks ==
    ASSUME TypeOK, Shape, [Next]_vars
    PROVE  \/ stack' = stack
           \/ \E t \in Threads : Moved(t) \/ Begun(t) \/ Registers(t)
<1>1. ASSUME NEW t \in Threads, Step(t) PROVE Moved(t) \/ Registers(t)
    BY <1>1, StepMoves, RegisterFrames
<1>2. ASSUME NEW t \in Threads, Choice(t) PROVE Moved(t) \/ Begun(t) \/ stack' = stack
    BY <1>2, StepMoves, StartBegins DEF Choice, ContextDone
<1>3. ASSUME NEW m \in Modules, Watch(m) PROVE stack' = stack
    BY <1>3 DEF Watch, AsyncSetExitCode, AsyncDelete
<1>4. CASE UNCHANGED vars
    BY <1>4 DEF vars
<1> QED BY <1>1, <1>2, <1>3, <1>4 DEF Next

(* Stacks keep their shape by every step. *)
LEMMA ShapeNext ==
    ASSUME TypeOK, Shape, [Next]_vars
    PROVE  Shape' /\ stack' \in [Threads -> Seq(FrameSet)]
<1>1. CASE stack' = stack
    BY <1>1 DEF Shape, ShapeOf, TypeOK, FrameSet
<1> QED BY <1>1, NextStacks, ShapeMoved, ShapeBegun, ShapeRegisters

(* deleteModule keeps the types of the store. *)
LEMMA deleteModuleType ==
    ASSUME StoreTypeOK, NEW m \in Modules, deleteModule(m)
    PROVE  StoreTypeOK'
<1>1. moduleList' \in Seq(Modules)
    BY RemoveFirstOccurs DEF StoreTypeOK, deleteModule
<1>2. nameToModule' \in [Names -> Modules \cup {NoModule}]
    BY DEF StoreTypeOK, deleteModule
<1> QED BY <1>1, <1>2 DEF StoreTypeOK, deleteModule

(* registerModule keeps the types of the store. *)
LEMMA registerModuleType ==
    ASSUME StoreTypeOK, NEW m \in Modules, registerModule(m)
    PROVE  StoreTypeOK'
BY DEF StoreTypeOK, registerModule

(* Closing the store keeps its types. *)
LEMMA closeStoreType ==
    ASSUME StoreTypeOK, closeStore
    PROVE  StoreTypeOK'
BY DEF StoreTypeOK, closeStore

(* Everything but the stacks keeps its type. *)
RestOK ==
    /\ StoreTypeOK
    /\ runtimeClosed \in BOOLEAN
    /\ mux \in SUBSET Threads
    /\ closing \in Seq(Modules)
    /\ closed \in [Modules -> {"open", "closed", "notClosed"}]
    /\ resources \in [Modules -> SUBSET Resources]
    /\ notified \in [Modules -> Nat]
    /\ watcher \in [Modules -> {"off", "firing", "deleting"}]
    /\ failed \in [Threads -> BOOLEAN]
    /\ visible \in SUBSET Modules /\ registered \in SUBSET Modules
    /\ closeReturned \in SUBSET Modules
    /\ runtimeDone \in BOOLEAN

(* The other variables keep their types when a goroutine steps or chooses. *)
LEMMA RestStep ==
    ASSUME TypeOK, Shape, NEW t \in Threads, Step(t) \/ Choice(t)
    PROVE  RestOK'
<1> USE DEF RestOK
<1>0. RestOK
    BY DEF TypeOK
<1>s. UNCHANGED storeVars => StoreTypeOK'
    BY <1>0 DEF StoreTypeOK, storeVars
<1>t. ASSUME NEW l, At(t, l), l \notin Closers PROVE Top(t) \in Modules
    BY <1>t, TopIs, TopModule
<1>r. \A S \in SUBSET Resources : S \cup {"sys"} \in SUBSET Resources
         /\ S \cup {"memory"} \in SUBSET Resources
         /\ S \cup {"notifier", "codeCloser"} \in SUBSET Resources /\ {"code"} \in SUBSET Resources
    BY DEF Resources
<1>1. CASE CloseSetExitCode(t)
    BY <1>0, <1>s, <1>1 DEF CloseSetExitCode, histVars
<1>2. CASE CloseDelete(t)
  <2>1. Top(t) \in Modules
      BY <1>t, <1>2 DEF CloseDelete, Closers
  <2> QED BY <1>0, <1>s, <1>r, <1>2, <2>1, deleteModuleType DEF CloseDelete, histVars, Release
<1>3. CASE CloseReturned(t)
  <2>1. Top(t) \in Modules
      BY <1>t, <1>3 DEF CloseReturned, Closers
  <2> QED BY <1>0, <1>s, <1>r, <1>3, <2>1 DEF CloseReturned, histVars, Release
<1>4. CASE EnsureNotify(t)
  <2>1. Top(t) \in Modules
      BY <1>t, <1>4 DEF EnsureNotify, Closers
  <2>2. notified' \in [Modules -> Nat]
    <3>1. CASE notified' = notified
        BY <1>0, <3>1
    <3>2. CASE notified' = [notified EXCEPT ![Top(t)] = notified[Top(t)] + 1]
        BY <1>0, <2>1, <3>2
    <3> QED BY <1>4, <3>1, <3>2 DEF EnsureNotify
  <2> QED BY <1>0, <1>s, <1>4, <2>2 DEF EnsureNotify, histVars
<1>5. CASE EnsureForget(t)
  <2>1. Top(t) \in Modules
      BY <1>t, <1>5 DEF EnsureForget, Closers
  <2> QED BY <1>0, <1>s, <1>r, <1>5, <2>1 DEF EnsureForget, histVars, Release
<1>6. CASE EnsureSys(t)
  <2>1. Top(t) \in Modules
      BY <1>t, <1>6 DEF EnsureSys, Closers
  <2> QED BY <1>0, <1>s, <1>r, <1>6, <2>1 DEF EnsureSys, histVars, Release
<1>7. CASE EnsureRetire(t)
  <2>1. Top(t) \in Modules
      BY <1>t, <1>7 DEF EnsureRetire, Closers
  <2> QED BY <1>0, <1>s, <1>r, <1>7, <2>1 DEF EnsureRetire, histVars, Release
<1>8. CASE EnsureCode(t)
  <2>1. Top(t) \in Modules
      BY <1>t, <1>8 DEF EnsureCode, Closers
  <2> QED BY <1>0, <1>s, <1>r, <1>8, <2>1 DEF EnsureCode, histVars, Release
<1>9. CASE BeginExecution(t)
  <2>1. Top(t) \in Modules
      BY <1>t, <1>9 DEF BeginExecution, Closers
  <2> QED BY <1>0, <1>s, <1>r, <1>9, <2>1 DEF BeginExecution, histVars, Release
<1>10. CASE GuestReturn(t)
    BY <1>0, <1>s, <1>10 DEF GuestReturn, histVars
<1>11. CASE FailIfClosed(t)
  <2>1. Top(t) \in Modules
      BY <1>t, <1>11 DEF FailIfClosed, Closers
  <2> QED BY <1>0, <1>s, <1>r, <1>11, <2>1 DEF FailIfClosed, histVars, Release
<1>12. CASE InstantiateCheck(t)
  <2>1. Top(t) \in Modules
      BY <1>t, <1>12 DEF InstantiateCheck, Closers
  <2>2. resources' \in [Modules -> SUBSET Resources]
    <3>1. CASE resources' = resources
        BY <1>0, <3>1
    <3>2. CASE resources' = [resources EXCEPT ![Top(t)] = resources[Top(t)] \cup {"sys"}]
        BY <1>0, <1>r, <2>1, <3>2
    <3> QED BY <1>12, <3>1, <3>2 DEF InstantiateCheck
  <2> QED BY <1>0, <1>s, <1>12, <2>2 DEF InstantiateCheck, histVars
<1>13. CASE InstantiatePrecheck(t)
    BY <1>0, <1>s, <1>13 DEF InstantiatePrecheck, histVars
<1>14. CASE InstantiateBuild(t)
  <2>1. Top(t) \in Modules
      BY <1>t, <1>14 DEF InstantiateBuild, Closers
  <2> QED BY <1>0, <1>s, <1>r, <1>14, <2>1 DEF InstantiateBuild, histVars, Release
<1>15. CASE InstantiateSection(t)
    BY <1>0, <1>s, <1>15 DEF InstantiateSection, histVars
<1>16. CASE InstantiateHooks(t)
  <2>1. Top(t) \in Modules
      BY <1>t, <1>16 DEF InstantiateHooks, Closers
  <2> QED BY <1>0, <1>s, <1>r, <1>16, <2>1 DEF InstantiateHooks, histVars, Release
<1>17. CASE InstantiateRegister(t)
  <2>1. Top(t) \in Modules
      BY <1>t, <1>17 DEF InstantiateRegister, Closers
  <2> QED BY <1>0, <1>s, <1>r, <1>17, <2>1, registerModuleType DEF InstantiateRegister, histVars, Release
<1>18. CASE InstantiateStart(t)
  <2>1. Top(t) \in Modules
      BY <1>t, <1>18 DEF InstantiateStart, Closers
  <2> QED BY <1>0, <1>s, <1>r, <1>18, <2>1 DEF InstantiateStart, histVars, Release
<1>19. CASE InstantiateStarted(t)
  <2>1. Top(t) \in Modules
      BY <1>t, <1>19 DEF InstantiateStarted, Closers
  <2> QED BY <1>0, <1>s, <1>r, <1>19, <2>1 DEF InstantiateStarted, histVars, Release
<1>20. CASE InstantiateAbort(t)
  <2>1. Top(t) \in Modules
      BY <1>t, <1>20 DEF InstantiateAbort, Closers
  <2> QED BY <1>0, <1>s, <1>r, <1>20, <2>1 DEF InstantiateAbort, histVars, Release
<1>21. CASE InstantiateDrop(t)
  <2>1. Top(t) \in Modules
      BY <1>t, <1>21 DEF InstantiateDrop, Closers
  <2> QED BY <1>0, <1>s, <1>r, <1>21, <2>1 DEF InstantiateDrop, histVars, Release
<1>22. CASE StoreSnapshot(t)
  <2>1. StoreTypeOK' /\ closing' \in Seq(Modules)
      BY <1>0, <1>22, closeStoreType DEF StoreSnapshot, StoreTypeOK
  <2> QED BY <1>0, <1>22, <2>1 DEF StoreSnapshot, histVars
<1>23. CASE StoreUnlock(t)
    BY <1>0, <1>s, <1>23 DEF StoreUnlock, histVars
<1>24. CASE StoreCloseEach(t)
    BY <1>0, <1>s, <1>24 DEF StoreCloseEach, histVars
<1>25. CASE StoreCloseDone(t)
    BY <1>0, <1>s, <1>25 DEF StoreCloseDone, histVars
<1>26. CASE GuestTrap(t)
    BY <1>0, <1>s, <1>26 DEF GuestTrap, histVars
<1>27. CASE StartCloseRuntime(t)
    BY <1>0, <1>s, <1>27 DEF StartCloseRuntime, histVars
<1>28. CASE \E m \in Modules : StartInstantiate(t, m)
    BY <1>0, <1>s, <1>r, <1>28 DEF StartInstantiate, histVars
<1>29. CASE \E m \in Modules : StartCall(t, m)
    BY <1>0, <1>s, <1>r, <1>29 DEF StartCall, histVars
<1>30. CASE \E m \in Modules : StartClose(t, m)
    BY <1>0, <1>s, <1>r, <1>30 DEF StartClose, histVars
<1>31. CASE \E m \in Modules : HostClose(t, m)
    BY <1>0, <1>s, <1>r, <1>31 DEF HostClose, histVars
<1>32. CASE \E m \in Modules : ContextDone(t, m)
    BY <1>0, <1>s, <1>r, <1>32 DEF ContextDone, histVars
<1> QED
    BY <1>1, <1>2, <1>3, <1>4, <1>5, <1>6, <1>7, <1>8, <1>9, <1>10, <1>11, <1>12, <1>13, <1>14, <1>15, <1>16, <1>17, <1>18, <1>19, <1>20, <1>21, <1>22, <1>23, <1>24, <1>25, <1>26, <1>27, <1>28, <1>29, <1>30, <1>31, <1>32 DEF Step, Choice

(* The other variables keep their types when a watcher closes a module. *)
LEMMA RestWatch ==
    ASSUME TypeOK, NEW m \in Modules, Watch(m)
    PROVE  RestOK'
<1> USE DEF RestOK
<1>0. RestOK
    BY DEF TypeOK
<1>1. CASE AsyncSetExitCode(m)
    BY <1>0, <1>1 DEF AsyncSetExitCode, histVars, storeVars, StoreTypeOK
<1>2. CASE AsyncDelete(m)
    BY <1>0, <1>2, deleteModuleType DEF AsyncDelete, histVars
<1> QED BY <1>1, <1>2 DEF Watch

StackInv == TypeOK /\ Shape

(* Every step keeps StackInv. *)
LEMMA StackNext ==
    ASSUME StackInv, [Next]_vars
    PROVE  StackInv'
<1>1. Shape' /\ stack' \in [Threads -> Seq(FrameSet)]
    BY ShapeNext DEF StackInv
<1>2. RestOK'
  <2>1. CASE UNCHANGED vars
      BY <2>1 DEF StackInv, TypeOK, RestOK, vars, storeVars, histVars, StoreTypeOK
  <2> QED BY <2>1, RestStep, RestWatch DEF Next, StackInv
<1> QED BY <1>1, <1>2 DEF StackInv, TypeOK, RestOK, FrameSet

(* At first no goroutine does anything. *)
LEMMA StackInit ==
    ASSUME Init
    PROVE  StackInv
<1>1. TypeOK
  <2>1. StoreTypeOK
    <3>1. nameToModule \in [Names -> Modules \cup {NoModule}]
        BY DEF Init, StoreInit
    <3>2. moduleList \in Seq(Modules)
        BY DEF Init, StoreInit
    <3>3. storeClosed \in BOOLEAN
        BY DEF Init, StoreInit
    <3> QED BY <3>1, <3>2, <3>3 DEF StoreTypeOK
  <2>2. /\ resources \in [Modules -> SUBSET Resources]
        /\ closed \in [Modules -> {"open", "closed", "notClosed"}]
        /\ notified \in [Modules -> Nat]
        /\ watcher \in [Modules -> {"off", "firing", "deleting"}]
        /\ failed \in [Threads -> BOOLEAN]
      BY DEF Init
  <2>3. stack \in [Threads -> Seq([at : Labels, m : Modules \cup {NoModule}])]
      BY DEF Init
  <2>4. closing \in Seq(Modules)
      BY DEF Init
  <2> QED BY <2>1, <2>2, <2>3, <2>4 DEF Init, TypeOK
<1>2. Shape
    BY DEF Init, Shape, ShapeOf
<1> QED BY <1>1, <1>2 DEF StackInv

(* Every stack of frames is one that the procedures can build, calling     *)
(* each other: the premise of every argument about who waits for whom.     *)
THEOREM StackInvariance == Spec => []StackInv
<1>1. Init => StackInv
    BY StackInit
<1>2. StackInv /\ [Next]_vars => StackInv'
    BY StackNext
<1> QED BY <1>1, <1>2, PTL DEF Spec

(* Type correctness of instantiating, calling and closing modules. *)
THEOREM LifecycleTypeCorrect == Spec => []TypeOK
<1>1. StackInv => TypeOK
    BY DEF StackInv
<1> QED BY <1>1, StackInvariance, PTL
----------------------------------------------------------------------------
(* The running frame tells which action is taken, and what it may change.  *)

(* A step inside the runtime that does not register a module. *)
Runs(t) ==
    \/ Step(t) /\ ~ (InstantiateRegister(t) /\ Registrable(Top(t)))
    \/ GuestTrap(t)
    \/ \E m \in Modules : HostClose(t, m)

Dispatch(t) ==
    LET l == stack[t][1].at IN
    /\ l = "close" => CloseSetExitCode(t)
    /\ l = "closeStore" => CloseSetExitCode(t)
    /\ l = "delete" => CloseDelete(t)
    /\ l = "returned" => CloseReturned(t)
    /\ l = "notify" => EnsureNotify(t)
    /\ l = "forget" => EnsureForget(t)
    /\ l = "sys" => EnsureSys(t)
    /\ l = "retire" => EnsureRetire(t)
    /\ l = "code" => EnsureCode(t)
    /\ l = "begin" => BeginExecution(t)
    /\ l = "guest" => GuestReturn(t) \/ GuestTrap(t) \/ \E m \in Modules : HostClose(t, m)
    /\ l = "fail" => FailIfClosed(t)
    /\ l = "check" => InstantiateCheck(t)
    /\ l = "precheck" => InstantiatePrecheck(t)
    /\ l = "build" => InstantiateBuild(t)
    /\ l = "section" => InstantiateSection(t)
    /\ l = "hooks" => InstantiateHooks(t)
    /\ l = "register" => InstantiateRegister(t)
    /\ l = "started" => InstantiateStart(t)
    /\ l = "exported" => InstantiateStarted(t)
    /\ l = "abort" => InstantiateAbort(t)
    /\ l = "drop" => InstantiateDrop(t)
    /\ l = "snapshot" => StoreSnapshot(t)
    /\ l = "unlock" => StoreUnlock(t)
    /\ l = "each" => StoreCloseEach(t) \/ StoreCloseDone(t)

Effects(t) ==
    LET l == stack[t][1].at IN
    /\ l \notin {"close", "closeStore"} => closed' = closed
    /\ l \notin {"delete", "snapshot"} => UNCHANGED storeVars
    /\ l \notin {"snapshot", "each"} => closing' = closing
    /\ l # "each" => runtimeDone' = runtimeDone
    /\ l \notin Afters => visible' = visible
    /\ l \notin Execs => failed' = failed
    /\ l # "notify" => notified' = notified
    /\ l \notin {"forget", "sys", "retire", "code", "check", "build", "hooks",
                 "abort", "drop"} => resources' = resources
    /\ UNCHANGED <<runtimeClosed, registered, watcher>>

(* A goroutine that runs has a frame, whose label says what it does and    *)
(* where it goes.                                                          *)
LEMMA RunsLabel ==
    ASSUME TypeOK, NEW t \in Threads, Runs(t)
    PROVE  Len(stack[t]) > 0 /\ Dispatch(t) /\ Effects(t)
<1>0. \A l : At(t, l) <=> Len(stack[t]) > 0 /\ stack[t][1].at = l
    BY TopIs
<1> USE DEF histVars
<1>1. CASE CloseSetExitCode(t)
  <2>1. Len(stack[t]) > 0 /\ stack[t][1].at \in {"close", "closeStore"}
      BY <1>0, <1>1 DEF CloseSetExitCode
  <2>2. Dispatch(t)
      BY <1>1, <2>1 DEF Dispatch
  <2>3. Effects(t)
      BY <1>1, <2>1 DEF Effects, CloseSetExitCode, Afters, Execs
  <2> QED BY <2>1, <2>2, <2>3
<1>2. CASE CloseDelete(t)
  <2>1. Len(stack[t]) > 0 /\ stack[t][1].at = "delete"
      BY <1>0, <1>2 DEF CloseDelete
  <2>2. Dispatch(t)
      BY <1>2, <2>1 DEF Dispatch
  <2>3. Effects(t)
      BY <1>2, <2>1 DEF Effects, CloseDelete, Afters, Execs
  <2> QED BY <2>1, <2>2, <2>3
<1>3. CASE CloseReturned(t)
  <2>1. Len(stack[t]) > 0 /\ stack[t][1].at = "returned"
      BY <1>0, <1>3 DEF CloseReturned
  <2>2. Dispatch(t)
      BY <1>3, <2>1 DEF Dispatch
  <2>3. Effects(t)
      BY <1>3, <2>1 DEF Effects, CloseReturned, Afters, Execs
  <2> QED BY <2>1, <2>2, <2>3
<1>4. CASE EnsureNotify(t)
  <2>1. Len(stack[t]) > 0 /\ stack[t][1].at = "notify"
      BY <1>0, <1>4 DEF EnsureNotify
  <2>2. Dispatch(t)
      BY <1>4, <2>1 DEF Dispatch
  <2>3. Effects(t)
      BY <1>4, <2>1 DEF Effects, EnsureNotify, Afters, Execs
  <2> QED BY <2>1, <2>2, <2>3
<1>5. CASE EnsureForget(t)
  <2>1. Len(stack[t]) > 0 /\ stack[t][1].at = "forget"
      BY <1>0, <1>5 DEF EnsureForget
  <2>2. Dispatch(t)
      BY <1>5, <2>1 DEF Dispatch
  <2>3. Effects(t)
      BY <1>5, <2>1 DEF Effects, EnsureForget, Afters, Execs, Release
  <2> QED BY <2>1, <2>2, <2>3
<1>6. CASE EnsureSys(t)
  <2>1. Len(stack[t]) > 0 /\ stack[t][1].at = "sys"
      BY <1>0, <1>6 DEF EnsureSys
  <2>2. Dispatch(t)
      BY <1>6, <2>1 DEF Dispatch
  <2>3. Effects(t)
      BY <1>6, <2>1 DEF Effects, EnsureSys, Afters, Execs, Release
  <2> QED BY <2>1, <2>2, <2>3
<1>7. CASE EnsureRetire(t)
  <2>1. Len(stack[t]) > 0 /\ stack[t][1].at = "retire"
      BY <1>0, <1>7 DEF EnsureRetire
  <2>2. Dispatch(t)
      BY <1>7, <2>1 DEF Dispatch
  <2>3. Effects(t)
      BY <1>7, <2>1 DEF Effects, EnsureRetire, Afters, Execs, Release
  <2> QED BY <2>1, <2>2, <2>3
<1>8. CASE EnsureCode(t)
  <2>1. Len(stack[t]) > 0 /\ stack[t][1].at = "code"
      BY <1>0, <1>8 DEF EnsureCode
  <2>2. Dispatch(t)
      BY <1>8, <2>1 DEF Dispatch
  <2>3. Effects(t)
      BY <1>8, <2>1 DEF Effects, EnsureCode, Afters, Execs
  <2> QED BY <2>1, <2>2, <2>3
<1>9. CASE BeginExecution(t)
  <2>1. Len(stack[t]) > 0 /\ stack[t][1].at = "begin"
      BY <1>0, <1>9 DEF BeginExecution
  <2>2. Dispatch(t)
      BY <1>9, <2>1 DEF Dispatch
  <2>3. Effects(t)
      BY <1>9, <2>1 DEF Effects, BeginExecution, Afters, Execs
  <2> QED BY <2>1, <2>2, <2>3
<1>10. CASE GuestReturn(t)
  <2>1. Len(stack[t]) > 0 /\ stack[t][1].at = "guest"
      BY <1>0, <1>10 DEF GuestReturn
  <2>2. Dispatch(t)
      BY <1>10, <2>1 DEF Dispatch
  <2>3. Effects(t)
      BY <1>10, <2>1 DEF Effects, GuestReturn, Afters, Execs
  <2> QED BY <2>1, <2>2, <2>3
<1>11. CASE FailIfClosed(t)
  <2>1. Len(stack[t]) > 0 /\ stack[t][1].at = "fail"
      BY <1>0, <1>11 DEF FailIfClosed
  <2>2. Dispatch(t)
      BY <1>11, <2>1 DEF Dispatch
  <2>3. Effects(t)
      BY <1>11, <2>1 DEF Effects, FailIfClosed, Afters, Execs
  <2> QED BY <2>1, <2>2, <2>3
<1>12. CASE InstantiateCheck(t)
  <2>1. Len(stack[t]) > 0 /\ stack[t][1].at = "check"
      BY <1>0, <1>12 DEF InstantiateCheck
  <2>2. Dispatch(t)
      BY <1>12, <2>1 DEF Dispatch
  <2>3. Effects(t)
      BY <1>12, <2>1 DEF Effects, InstantiateCheck, Afters, Execs
  <2> QED BY <2>1, <2>2, <2>3
<1>13. CASE InstantiatePrecheck(t)
  <2>1. Len(stack[t]) > 0 /\ stack[t][1].at = "precheck"
      BY <1>0, <1>13 DEF InstantiatePrecheck
  <2>2. Dispatch(t)
      BY <1>13, <2>1 DEF Dispatch
  <2>3. Effects(t)
      BY <1>13, <2>1 DEF Effects, InstantiatePrecheck, Afters, Execs
  <2> QED BY <2>1, <2>2, <2>3
<1>14. CASE InstantiateBuild(t)
  <2>1. Len(stack[t]) > 0 /\ stack[t][1].at = "build"
      BY <1>0, <1>14 DEF InstantiateBuild
  <2>2. Dispatch(t)
      BY <1>14, <2>1 DEF Dispatch
  <2>3. Effects(t)
      BY <1>14, <2>1 DEF Effects, InstantiateBuild, Afters, Execs
  <2> QED BY <2>1, <2>2, <2>3
<1>15. CASE InstantiateSection(t)
  <2>1. Len(stack[t]) > 0 /\ stack[t][1].at = "section"
      BY <1>0, <1>15 DEF InstantiateSection
  <2>2. Dispatch(t)
      BY <1>15, <2>1 DEF Dispatch
  <2>3. Effects(t)
      BY <1>15, <2>1 DEF Effects, InstantiateSection, Afters, Execs
  <2> QED BY <2>1, <2>2, <2>3
<1>16. CASE InstantiateHooks(t)
  <2>1. Len(stack[t]) > 0 /\ stack[t][1].at = "hooks"
      BY <1>0, <1>16 DEF InstantiateHooks
  <2>2. Dispatch(t)
      BY <1>16, <2>1 DEF Dispatch
  <2>3. Effects(t)
      BY <1>16, <2>1 DEF Effects, InstantiateHooks, Afters, Execs
  <2> QED BY <2>1, <2>2, <2>3
<1>17. CASE InstantiateRegister(t) /\ ~ Registrable(Top(t))
  <2>1. Len(stack[t]) > 0 /\ stack[t][1].at = "register"
      BY <1>0, <1>17 DEF InstantiateRegister
  <2>2. Dispatch(t)
      BY <1>17, <2>1 DEF Dispatch
  <2>3. Effects(t)
      BY <1>17, <2>1 DEF Effects, InstantiateRegister, Afters, Execs
  <2> QED BY <2>1, <2>2, <2>3
<1>18. CASE InstantiateStart(t)
  <2>1. Len(stack[t]) > 0 /\ stack[t][1].at = "started"
      BY <1>0, <1>18 DEF InstantiateStart
  <2>2. Dispatch(t)
      BY <1>18, <2>1 DEF Dispatch
  <2>3. Effects(t)
      BY <1>18, <2>1 DEF Effects, InstantiateStart, Afters, Execs
  <2> QED BY <2>1, <2>2, <2>3
<1>19. CASE InstantiateStarted(t)
  <2>1. Len(stack[t]) > 0 /\ stack[t][1].at = "exported"
      BY <1>0, <1>19 DEF InstantiateStarted
  <2>2. Dispatch(t)
      BY <1>19, <2>1 DEF Dispatch
  <2>3. Effects(t)
      BY <1>19, <2>1 DEF Effects, InstantiateStarted, Afters, Execs
  <2> QED BY <2>1, <2>2, <2>3
<1>20. CASE InstantiateAbort(t)
  <2>1. Len(stack[t]) > 0 /\ stack[t][1].at = "abort"
      BY <1>0, <1>20 DEF InstantiateAbort
  <2>2. Dispatch(t)
      BY <1>20, <2>1 DEF Dispatch
  <2>3. Effects(t)
      BY <1>20, <2>1 DEF Effects, InstantiateAbort, Afters, Execs
  <2> QED BY <2>1, <2>2, <2>3
<1>21. CASE InstantiateDrop(t)
  <2>1. Len(stack[t]) > 0 /\ stack[t][1].at = "drop"
      BY <1>0, <1>21 DEF InstantiateDrop
  <2>2. Dispatch(t)
      BY <1>21, <2>1 DEF Dispatch
  <2>3. Effects(t)
      BY <1>21, <2>1 DEF Effects, InstantiateDrop, Afters, Execs, Release
  <2> QED BY <2>1, <2>2, <2>3
<1>22. CASE StoreSnapshot(t)
  <2>1. Len(stack[t]) > 0 /\ stack[t][1].at = "snapshot"
      BY <1>0, <1>22 DEF StoreSnapshot
  <2>2. Dispatch(t)
      BY <1>22, <2>1 DEF Dispatch
  <2>3. Effects(t)
      BY <1>22, <2>1 DEF Effects, StoreSnapshot, Afters, Execs
  <2> QED BY <2>1, <2>2, <2>3
<1>23. CASE StoreUnlock(t)
  <2>1. Len(stack[t]) > 0 /\ stack[t][1].at = "unlock"
      BY <1>0, <1>23 DEF StoreUnlock
  <2>2. Dispatch(t)
      BY <1>23, <2>1 DEF Dispatch
  <2>3. Effects(t)
      BY <1>23, <2>1 DEF Effects, StoreUnlock, Afters, Execs
  <2> QED BY <2>1, <2>2, <2>3
<1>24. CASE StoreCloseEach(t)
  <2>1. Len(stack[t]) > 0 /\ stack[t][1].at = "each"
      BY <1>0, <1>24 DEF StoreCloseEach
  <2>2. Dispatch(t)
      BY <1>24, <2>1 DEF Dispatch
  <2>3. Effects(t)
      BY <1>24, <2>1 DEF Effects, StoreCloseEach, Afters, Execs
  <2> QED BY <2>1, <2>2, <2>3
<1>25. CASE StoreCloseDone(t)
  <2>1. Len(stack[t]) > 0 /\ stack[t][1].at = "each"
      BY <1>0, <1>25 DEF StoreCloseDone
  <2>2. Dispatch(t)
      BY <1>25, <2>1 DEF Dispatch
  <2>3. Effects(t)
      BY <1>25, <2>1 DEF Effects, StoreCloseDone, Afters, Execs
  <2> QED BY <2>1, <2>2, <2>3
<1>26. CASE GuestTrap(t)
  <2>1. Len(stack[t]) > 0 /\ stack[t][1].at = "guest"
      BY <1>0, <1>26 DEF GuestTrap
  <2>2. Dispatch(t)
      BY <1>26, <2>1 DEF Dispatch
  <2>3. Effects(t)
      BY <1>26, <2>1 DEF Effects, GuestTrap, Afters, Execs
  <2> QED BY <2>1, <2>2, <2>3
<1>27. CASE \E m \in Modules : HostClose(t, m)
  <2>1. Len(stack[t]) > 0 /\ stack[t][1].at = "guest"
      BY <1>0, <1>27 DEF HostClose
  <2>2. Dispatch(t)
      BY <1>27, <2>1 DEF Dispatch
  <2>3. Effects(t)
      BY <1>27, <2>1 DEF Effects, HostClose
  <2> QED BY <2>1, <2>2, <2>3
<1> QED
    BY <1>1, <1>2, <1>3, <1>4, <1>5, <1>6, <1>7, <1>8, <1>9, <1>10, <1>11, <1>12, <1>13, <1>14, <1>15, <1>16, <1>17, <1>18, <1>19, <1>20, <1>21, <1>22, <1>23, <1>24, <1>25, <1>26, <1>27 DEF Runs, Step

(* The steps, by what they do to the stacks. *)
LEMMA NextCases ==
    ASSUME StackInv, [Next]_vars
    PROVE  \/ \E t \in Threads : Runs(t) /\ Moved(t)
           \/ \E t \in Threads :
                 /\ InstantiateRegister(t) /\ Registrable(Top(t)) /\ Registers(t)
           \/ \E t \in Threads : StartCloseRuntime(t) /\ Begun(t)
           \/ \E t \in Threads, m \in Modules :
                 \/ (StartInstantiate(t, m) \/ StartCall(t, m) \/ StartClose(t, m)) /\ Begun(t)
                 \/ ContextDone(t, m)
           \/ \E m \in Modules : AsyncSetExitCode(m) \/ AsyncDelete(m)
           \/ UNCHANGED vars
<1> USE DEF StackInv
<1>1. ASSUME NEW t \in Threads, Runs(t) PROVE Moved(t)
    BY <1>1, StepMoves DEF Runs
<1>2. ASSUME NEW t \in Threads, InstantiateRegister(t), Registrable(Top(t))
      PROVE  Registers(t)
    BY <1>2, RegisterFrames
<1>3. ASSUME NEW t \in Threads, StartCloseRuntime(t) PROVE Begun(t)
    BY <1>3, StartBegins
<1>4. ASSUME NEW t \in Threads, NEW m \in Modules,
             StartInstantiate(t, m) \/ StartCall(t, m) \/ StartClose(t, m)
      PROVE  Begun(t)
    BY <1>4, StartBegins
<1>5. ASSUME NEW t \in Threads, Step(t)
      PROVE  Runs(t) \/ (InstantiateRegister(t) /\ Registrable(Top(t)))
    BY <1>5 DEF Runs
<1>6. ASSUME NEW t \in Threads, Choice(t)
      PROVE  \/ Runs(t) \/ StartCloseRuntime(t)
             \/ \E m \in Modules : \/ StartInstantiate(t, m) \/ StartCall(t, m)
                                   \/ StartClose(t, m) \/ ContextDone(t, m)
    BY <1>6 DEF Choice, Runs
<1> QED BY <1>1, <1>2, <1>3, <1>4, <1>5, <1>6 DEF Next, Watch
----------------------------------------------------------------------------
(* Only closed modules are deleted and released.                           *)

ClosedTop ==
    /\ \A m \in Modules : watcher[m] = "deleting" => closed[m] = "notClosed"
    /\ \A t \in Threads : Len(stack[t]) > 0 =>
          /\ stack[t][1].at \in Chain \cup {"drop"} => closed[stack[t][1].m] # "open"
          /\ stack[t][1].at = "delete" => closed[stack[t][1].m] = "closed"

(* closed is set once: a compare-and-swap from open only. *)
LEMMA ClosedStays ==
    ASSUME StackInv, [Next]_vars
    PROVE  \A m \in Modules : closed[m] # "open" => closed'[m] = closed[m]
<1>0. closed \in [Modules -> {"open", "closed", "notClosed"}] /\ TypeOK
    BY DEF StackInv, TypeOK
<1>1. ASSUME NEW t \in Threads, Runs(t)
      PROVE  \A m \in Modules : closed[m] # "open" => closed'[m] = closed[m]
  <2>1. Dispatch(t) /\ Effects(t)
      BY <1>0, <1>1, RunsLabel
  <2>2. CASE CloseSetExitCode(t)
      BY <1>0, <2>2 DEF CloseSetExitCode
  <2>3. CASE closed' = closed
      BY <2>3
  <2> QED BY <2>1, <2>2, <2>3 DEF Dispatch, Effects
<1>2. ASSUME NEW m \in Modules, AsyncSetExitCode(m)
      PROVE  \A x \in Modules : closed[x] # "open" => closed'[x] = closed[x]
    BY <1>0, <1>2 DEF AsyncSetExitCode
<1>3. CASE closed' = closed
    BY <1>3
<1> QED BY <1>1, <1>2, <1>3, NextCases
    DEF InstantiateRegister, StartCloseRuntime, StartInstantiate, StartCall, StartClose,
        ContextDone, AsyncDelete, vars

(* setExitCode: who closes the module goes on to release it, others        *)
(* return.                                                                 *)
LEMMA SetExitCodeStep ==
    ASSUME StackInv, NEW t \in Threads, CloseSetExitCode(t)
    PROVE  /\ Len(stack[t]) > 0 /\ stack[t][1].at \in {"close", "closeStore"}
           /\ stack[t][1].m \in Modules
           /\ \/ /\ closed[stack[t][1].m] = "open"
                 /\ closed' = [closed EXCEPT ![stack[t][1].m] = "closed"]
                 /\ closed'[stack[t][1].m] = "closed"
                 /\ \/ stack[t][1].at = "close" /\ Went(t, "delete")
                    \/ stack[t][1].at = "closeStore" /\ Went(t, "notify")
              \/ closed[stack[t][1].m] # "open" /\ closed' = closed /\ Popped(t)
<1> USE DEF StackInv
<1>1. Len(stack[t]) > 0 /\ stack[t][1].at \in {"close", "closeStore"}
    BY TopIs DEF CloseSetExitCode
<1>2. Top(t) = stack[t][1].m /\ Top(t) \in Modules
    BY <1>1, TopModule DEF Closers
<1>3. CASE closed[Top(t)] = "open"
  <2>1. closed' = [closed EXCEPT ![Top(t)] = "closed"]
      BY <1>3 DEF CloseSetExitCode
  <2>2. closed'[Top(t)] = "closed"
      BY <1>2, <2>1 DEF TypeOK
  <2>3. CASE stack[t][1].at = "close"
    <3>1. Goto(t, "delete") /\ "delete" \in Labels
        BY <1>1, <1>3, <2>3, TopIs DEF CloseSetExitCode, Labels
    <3> QED BY <1>1, <1>2, <1>3, <2>1, <2>2, <2>3, <3>1, GotoFrames
  <2>4. CASE stack[t][1].at = "closeStore"
    <3>1. Goto(t, "notify") /\ "notify" \in Labels
        BY <1>1, <1>3, <2>4, TopIs DEF CloseSetExitCode, Labels
    <3> QED BY <1>1, <1>2, <1>3, <2>1, <2>2, <2>4, <3>1, GotoFrames
  <2> QED BY <1>1, <2>3, <2>4
<1>4. CASE closed[Top(t)] # "open"
  <2>1. Return(t) /\ closed' = closed
      BY <1>4 DEF CloseSetExitCode
  <2> QED BY <1>1, <1>2, <1>4, <2>1, ReturnFrames
<1> QED BY <1>3, <1>4

(* FailIfClosed: the call fails if the module is closed, and releases if   *)
(* that is left to it.                                                     *)
LEMMA FailStep ==
    ASSUME StackInv, NEW t \in Threads, FailIfClosed(t)
    PROVE  /\ Len(stack[t]) > 0 /\ stack[t][1].at = "fail" /\ stack[t][1].m \in Modules
           /\ failed' = [failed EXCEPT ![t] = failed[t] \/ closed[stack[t][1].m] # "open"]
           /\ \/ closed[stack[t][1].m] = "notClosed" /\ Went(t, "notify")
              \/ closed[stack[t][1].m] # "notClosed" /\ Popped(t)
<1> USE DEF StackInv
<1>1. Len(stack[t]) > 0 /\ stack[t][1].at = "fail"
    BY TopIs DEF FailIfClosed
<1>2. Top(t) = stack[t][1].m /\ Top(t) \in Modules
    BY <1>1, TopModule DEF Closers
<1>3. "notify" \in Labels
    BY DEF Labels
<1>4. failed' = [failed EXCEPT ![t] = failed[t] \/ closed[stack[t][1].m] # "open"]
    BY <1>2 DEF FailIfClosed
<1>5. \/ closed[stack[t][1].m] = "notClosed" /\ Went(t, "notify")
      \/ closed[stack[t][1].m] # "notClosed" /\ Popped(t)
    BY <1>1, <1>2, <1>3, GotoFrames, ReturnFrames DEF FailIfClosed
<1> QED BY <1>1, <1>2, <1>4, <1>5

(* A goroutine that gets into a release has found or made the module       *)
(* closed.                                                                 *)
LEMMA ClosedTopRuns ==
    ASSUME StackInv, ClosedTop, NEW t \in Threads, Runs(t), Moved(t),
           \A m \in Modules : closed[m] # "open" => closed'[m] = closed[m]
    PROVE  Len(stack'[t]) > 0 =>
              /\ stack'[t][1].at \in Chain \cup {"drop"} => closed'[stack'[t][1].m] # "open"
              /\ stack'[t][1].at = "delete" => closed'[stack'[t][1].m] = "closed"
<1> SUFFICES ASSUME Len(stack'[t]) > 0
             PROVE  /\ stack'[t][1].at \in Chain \cup {"drop"} => closed'[stack'[t][1].m] # "open"
                    /\ stack'[t][1].at = "delete" => closed'[stack'[t][1].m] = "closed"
    OBVIOUS
<1>0. TypeOK /\ Shape
    BY DEF StackInv
<1>1. Len(stack[t]) > 0 /\ Dispatch(t) /\ Effects(t)
    BY <1>0, RunsLabel
<1>2. stack[t][1].at \notin Closers => stack[t][1].m \in Modules
    BY <1>0, <1>1, TopModule
<1>3. ASSUME NEW l \in Labels, <<stack[t][1].at, l>> \in Moves, Went(t, l)
      PROVE  /\ stack'[t][1].at \in Chain \cup {"drop"} => closed'[stack'[t][1].m] # "open"
             /\ stack'[t][1].at = "delete" => closed'[stack'[t][1].m] = "closed"
  <2>1. stack'[t][1].at = l /\ stack'[t][1].m = stack[t][1].m /\ l # "drop"
      BY <1>3, MoveLabels DEF Went, Afters
  <2>2. CASE stack[t][1].at \in Chain
    <3>1. closed[stack[t][1].m] # "open" /\ stack[t][1].m \in Modules /\ l # "delete"
        BY <1>1, <1>2, <1>3, <2>2, MoveLabels DEF ClosedTop, Chain, Releases, Closers
    <3> QED BY <2>1, <3>1
  <2>3. CASE stack[t][1].at \in {"close", "closeStore"}
    <3>1. CloseSetExitCode(t)
        BY <1>1, <2>3 DEF Dispatch
    <3>2. Len(stack'[t]) = Len(stack[t]) /\ Len(stack[t]) \in Nat
        BY <1>0, <1>3, TopIs DEF Went
    <3>3. ~ Popped(t)
        BY <3>2 DEF Popped
    <3> QED BY <2>1, <3>1, <3>3, SetExitCodeStep
  <2>4. CASE stack[t][1].at = "fail"
    <3>1. FailIfClosed(t)
        BY <1>1, <2>4 DEF Dispatch
    <3>2. Len(stack'[t]) = Len(stack[t]) /\ Len(stack[t]) \in Nat
        BY <1>0, <1>3, TopIs DEF Went
    <3>3. ~ Popped(t)
        BY <3>2 DEF Popped
    <3>4. closed[stack[t][1].m] # "open" /\ stack[t][1].m \in Modules /\ l # "delete"
        BY <1>3, <2>4, <3>1, <3>3, FailStep, MoveLabels
    <3> QED BY <2>1, <3>4
  <2>5. CASE l \notin Chain
      BY <2>1, <2>5 DEF Chain
  <2>6. l \in Chain => stack[t][1].at \in Chain \cup {"close", "closeStore", "fail"}
      BY <1>3 DEF Moves, Chain, Releases
  <2> QED BY <2>2, <2>3, <2>4, <2>5, <2>6
<1>4. ASSUME NEW l \in Labels, NEW r \in Labels, NEW m \in Modules,
             <<stack[t][1].at, l, r>> \in Calls, Called(t, l, m, r)
      PROVE  stack'[t][1].at \notin Chain \cup {"drop", "delete"}
    BY <1>4, CallLabels DEF Called, Chain, Releases
<1>5. ASSUME Popped(t)
      PROVE  /\ stack'[t][1].at \in Chain \cup {"drop"} => closed'[stack'[t][1].m] # "open"
             /\ stack'[t][1].at # "delete"
  <2>1. stack'[t][1] = stack[t][2] /\ Over(stack[t][1], stack[t][2])
    <3>1. Len(stack[t]) > 1 /\ Len(stack[t]) \in Nat
        BY <1>0, <1>5, TopIs DEF Popped
    <3> QED BY <1>0, <1>5, <3>1 DEF Popped, Shape, ShapeOf
  <2>2. stack[t][2].at \notin Chain
      BY <2>1 DEF Over, Chain, Releases
  <2>3. ASSUME stack[t][2].at = "drop"
        PROVE  closed'[stack[t][2].m] # "open"
    <3>1. stack[t][1].at \in {"close"} \cup Chain /\ stack[t][1].m = stack[t][2].m
        BY <2>1, <2>3 DEF Over
    <3>2. stack[t][1].m \in Modules
        BY <1>2, <3>1 DEF Closers, Chain, Releases
    <3>3. CASE stack[t][1].at \in Chain
        BY <1>1, <3>1, <3>2, <3>3 DEF ClosedTop
    <3>4. CASE stack[t][1].at = "close"
      <4>1. CloseSetExitCode(t)
          BY <1>1, <3>4 DEF Dispatch
      <4>2. closed'[stack[t][1].m] # "open"
          BY <3>2, <4>1, SetExitCodeStep
      <4> QED BY <3>1, <4>2
    <3> QED BY <3>1, <3>3, <3>4
  <2> QED BY <2>1, <2>2, <2>3 DEF Chain
<1> QED BY <1>3, <1>4, <1>5 DEF Moved, Chain

(* Every step keeps ClosedTop. *)
LEMMA ClosedTopNext ==
    ASSUME StackInv, ClosedTop, [Next]_vars
    PROVE  ClosedTop'
<1>0. TypeOK /\ Shape
    BY DEF StackInv
<1>1. \A m \in Modules : closed[m] # "open" => closed'[m] = closed[m]
    BY ClosedStays
<1>t. \A u \in Threads, i \in Nat : i \in 1 .. Len(stack[u]) /\ stack[u][i].at \notin Closers =>
         stack[u][i].m \in Modules
    BY <1>0, TopIs DEF Shape, ShapeOf, FrameSet
(* Stacks that do not change. *)
<1>2. ASSUME NEW u \in Threads, stack'[u] = stack[u], Len(stack[u]) > 0
      PROVE  /\ stack'[u][1].at \in Chain \cup {"drop"} => closed'[stack'[u][1].m] # "open"
             /\ stack'[u][1].at = "delete" => closed'[stack'[u][1].m] = "closed"
  <2>1. stack[u][1].at \in Chain \cup {"drop"} => stack[u][1].m \in Modules
      BY <1>0, <1>2, TopModule DEF Chain, Releases, Closers
  <2> QED BY <1>1, <1>2, <2>1 DEF ClosedTop, Chain
<1>3. ASSUME watcher' = watcher
      PROVE  \A m \in Modules : watcher'[m] = "deleting" => closed'[m] = "notClosed"
    BY <1>1, <1>3 DEF ClosedTop
<1>4. ASSUME NEW t \in Threads, Runs(t), Moved(t) PROVE ClosedTop'
  <2>1. Others(t) /\ watcher' = watcher
      BY <1>0, <1>4, RunsLabel DEF Moved, Went, Popped, Called, Effects
  <2> QED BY <1>1, <1>2, <1>3, <1>4, <2>1, ClosedTopRuns DEF ClosedTop, Others
<1>5. ASSUME NEW t \in Threads, InstantiateRegister(t), Registers(t) PROVE ClosedTop'
  <2>1. Others(t) /\ watcher' = watcher /\ stack'[t][1].at = "started"
      BY <1>5 DEF Registers, Went, InstantiateRegister
  <2> QED BY <1>2, <1>3, <2>1 DEF ClosedTop, Others, Chain, Releases
<1>6. ASSUME NEW t \in Threads, Begun(t), watcher' = watcher PROVE ClosedTop'
  <2>1. Others(t) /\ stack'[t][1].at \in {"check", "begin", "close", "snapshot"}
    <3>1. ASSUME NEW l, NEW m, Pushed(t, l, m) PROVE Others(t) /\ stack'[t][1].at = l
        BY <3>1 DEF Pushed
    <3>2. ASSUME NEW m, PushedClose(t, m) PROVE Others(t) /\ stack'[t][1].at = "close"
        BY <3>2 DEF PushedClose
    <3> QED BY <1>6, <3>1, <3>2 DEF Begun
  <2> QED BY <1>2, <1>3, <1>6, <2>1 DEF ClosedTop, Others, Chain, Releases
<1>7. ASSUME stack' = stack,
             \A m \in Modules : watcher'[m] = "deleting" => closed'[m] = "notClosed"
      PROVE  ClosedTop'
    BY <1>2, <1>7 DEF ClosedTop
<1>8. ASSUME NEW t \in Threads, NEW m \in Modules, ContextDone(t, m) PROVE ClosedTop'
  <2>1. \A x \in Modules : watcher'[x] = "deleting" => closed'[x] = "notClosed"
      BY <1>0, <1>8 DEF ContextDone, TypeOK, ClosedTop
  <2> QED BY <1>7, <1>8, <2>1 DEF ContextDone
<1>9. ASSUME NEW m \in Modules, AsyncSetExitCode(m) PROVE ClosedTop'
  <2>1. \A x \in Modules : watcher'[x] = "deleting" => closed'[x] = "notClosed"
      BY <1>0, <1>9 DEF AsyncSetExitCode, TypeOK, ClosedTop
  <2> QED BY <1>7, <1>9, <2>1 DEF AsyncSetExitCode
<1>10. ASSUME NEW m \in Modules, AsyncDelete(m) PROVE ClosedTop'
  <2>1. \A x \in Modules : watcher'[x] = "deleting" => closed'[x] = "notClosed"
      BY <1>0, <1>10 DEF AsyncDelete, TypeOK, ClosedTop
  <2> QED BY <1>7, <1>10, <2>1 DEF AsyncDelete
<1>11. CASE UNCHANGED vars
    BY <1>3, <1>7, <1>11 DEF vars
<1> QED BY <1>4, <1>5, <1>6, <1>8, <1>9, <1>10, <1>11, NextCases
    DEF StartCloseRuntime, StartInstantiate, StartCall, StartClose
----------------------------------------------------------------------------
(* At most one goroutine closes the runtime. *)

Bottom(t) == stack[t][Len(stack[t])]

IsCloser(t) == Len(stack[t]) > 0 /\ Bottom(t).at \in Closers

OneCloser ==
    /\ \A t, u \in Threads : IsCloser(t) /\ IsCloser(u) => t = u
    /\ \A t \in Threads : IsCloser(t) =>
          /\ runtimeClosed /\ ~ runtimeDone
          /\ Bottom(t).at = "snapshot" <=> ~ storeClosed
    /\ storeClosed => /\ runtimeClosed /\ moduleList = <<>>
                      /\ \A n \in Names : nameToModule[n] = NoModule
    /\ ~ storeClosed => closing = <<>>
    /\ runtimeDone => storeClosed /\ closing = <<>>

(* A frame is of the same procedure as the one it comes from. *)
Alike(f, g) ==
    /\ g.m = f.m
    /\ g.at \in Insts <=> f.at \in Insts
    /\ g.at \in Afters <=> f.at \in Afters
    /\ g.at \in Closers <=> f.at \in Closers
    /\ g.at = "returned" <=> f.at = "returned"
    /\ g.at = "closeStore" => f.at = "closeStore"

Fresh(t, f) ==
    /\ f.at \in {"close", "begin", "closeStore"} /\ f.m \in Modules /\ Callee(t, f.m)
    /\ f.at = "closeStore" <=> stack[t][1].at = "each"

(* Where a frame of t comes from. *)
Origin(t) ==
    \A i \in 1 .. Len(stack'[t]) :
        \/ \E j \in 1 .. Len(stack[t]) :
              /\ Len(stack'[t]) - i = Len(stack[t]) - j
              /\ Alike(stack[t][j], stack'[t][i])
        \/ i = 1 /\ Len(stack'[t]) = Len(stack[t]) + 1 /\ Fresh(t, stack'[t][1])

(* After a move each frame comes from one before, and others keep their    *)
(* stacks.                                                                 *)
LEMMA MovedOrigin ==
    ASSUME StackInv, NEW t \in Threads, Moved(t)
    PROVE  Origin(t) /\ Others(t)
<1>0. Len(stack[t]) \in Nat /\ Len(stack[t]) > 0
    BY TopIs DEF StackInv, Moved
<1>a. \A f : Alike(f, f)
    BY DEF Alike
<1>1. ASSUME NEW l \in Labels, <<stack[t][1].at, l>> \in Moves, Went(t, l) PROVE Origin(t)
  <2> SUFFICES ASSUME NEW i \in 1 .. Len(stack[t])
               PROVE  Alike(stack[t][i], stack'[t][i])
      BY <1>1 DEF Went, Origin
  <2>1. CASE i = 1
    <3>1. stack'[t][1].at = l /\ stack'[t][1].m = stack[t][1].m
        BY <1>1 DEF Went
    <3> QED BY <2>1, <3>1, <1>1, MoveLabels DEF Alike
  <2>2. CASE i > 1
      BY <1>0, <1>1, <1>a, <2>2 DEF Went
  <2> QED BY <1>0, <2>1, <2>2
<1>2. ASSUME Popped(t) PROVE Origin(t)
  <2>1. Len(stack'[t]) = Len(stack[t]) - 1
      BY <1>2 DEF Popped
  <2> SUFFICES ASSUME NEW i \in 1 .. Len(stack[t]) - 1
               PROVE  /\ i + 1 \in 1 .. Len(stack[t])
                      /\ Len(stack'[t]) - i = Len(stack[t]) - (i + 1)
                      /\ Alike(stack[t][i + 1], stack'[t][i])
      BY <1>0, <2>1 DEF Origin
  <2>2. stack'[t][i] = stack[t][i + 1]
      BY <1>2 DEF Popped
  <2> QED BY <1>0, <1>a, <2>1, <2>2
<1>3. ASSUME NEW l \in Labels, NEW r \in Labels, NEW m \in Modules,
             <<stack[t][1].at, l, r>> \in Calls, Callee(t, m), Called(t, l, m, r)
      PROVE  Origin(t)
  <2>1. Len(stack'[t]) = Len(stack[t]) + 1
      BY <1>3 DEF Called
  <2>2. Fresh(t, stack'[t][1])
      BY <1>3, CallLabels DEF Called, Fresh
  <2>3. ASSUME NEW i \in 2 .. Len(stack[t]) + 1
        PROVE  /\ i - 1 \in 1 .. Len(stack[t])
               /\ Len(stack'[t]) - i = Len(stack[t]) - (i - 1)
               /\ Alike(stack[t][i - 1], stack'[t][i])
    <3>1. CASE i = 2
      <4>1. stack'[t][2].at = r /\ stack'[t][2].m = stack[t][1].m
          BY <1>3 DEF Called
      <4>2. Alike(stack[t][1], stack'[t][2])
        <5>1. r # "returned" /\ r # "closeStore" /\ stack[t][1].at # "returned"
            BY <1>3 DEF Calls
        <5> QED BY <4>1, <5>1, <1>3, CallLabels DEF Alike
      <4>3. i - 1 = 1 /\ i - 1 \in 1 .. Len(stack[t])
          BY <1>0, <3>1
      <4>4. Len(stack'[t]) - i = Len(stack[t]) - (i - 1)
          BY <1>0, <2>1, <3>1
      <4>5. stack[t][i - 1] = stack[t][1] /\ stack'[t][i] = stack'[t][2]
          BY <3>1, <4>3
      <4> QED BY <4>2, <4>3, <4>4, <4>5
    <3>2. CASE i > 2
      <4>1. i - 1 \in 2 .. Len(stack[t]) /\ (i - 1) + 1 = i
          BY <1>0, <3>2
      <4>2. stack'[t][(i - 1) + 1] = stack[t][i - 1]
          BY <1>3, <4>1 DEF Called
      <4>3. stack'[t][i] = stack[t][i - 1]
          BY <4>1, <4>2
      <4>4. Alike(stack[t][i - 1], stack'[t][i])
          BY <1>a, <4>3, Zenon
      <4>5. i - 1 \in 1 .. Len(stack[t])
          BY <1>0, <4>1
      <4>6. Len(stack'[t]) - i = Len(stack[t]) - (i - 1)
          BY <1>0, <2>1
      <4> QED BY <4>4, <4>5, <4>6, Zenon
    <3> QED BY <1>0, <3>1, <3>2
  <2>4. ASSUME NEW i \in 1 .. Len(stack'[t]), i # 1
        PROVE  i \in 2 .. Len(stack[t]) + 1
      BY <1>0, <2>1, <2>4
  <2> QED BY <2>1, <2>2, <2>3, <2>4 DEF Origin
<1>4. Others(t)
    BY DEF Moved, Went, Popped, Called
<1> QED BY <1>1, <1>2, <1>3, <1>4 DEF Moved

(* A move keeps the operation at the bottom of the stack. *)
LEMMA MovedBottom ==
    ASSUME StackInv, NEW t \in Threads, Moved(t), Len(stack'[t]) > 0
    PROVE  /\ Alike(Bottom(t), Bottom(t)')
           /\ Len(stack[t]) > 1 => Bottom(t)' = Bottom(t)
<1>0. Len(stack[t]) \in Nat /\ Len(stack[t]) > 0
    BY TopIs DEF StackInv, Moved
<1>1. Len(stack'[t]) \in Nat
    BY <1>0 DEF Moved, Went, Popped, Called
<1>2. Origin(t)
    BY MovedOrigin
<1>3. Len(stack'[t]) \in 1 .. Len(stack'[t])
    BY <1>1
<1> DEFINE k == Len(stack'[t])
<1>k. \/ \E j \in 1 .. Len(stack[t]) :
              /\ Len(stack'[t]) - k = Len(stack[t]) - j
              /\ Alike(stack[t][j], stack'[t][k])
      \/ k = 1 /\ Len(stack'[t]) = Len(stack[t]) + 1 /\ Fresh(t, stack'[t][1])
    BY <1>2, <1>3 DEF Origin
<1>4. PICK j \in 1 .. Len(stack[t]) :
          /\ Len(stack'[t]) - Len(stack'[t]) = Len(stack[t]) - j
          /\ Alike(stack[t][j], stack'[t][Len(stack'[t])])
    BY <1>0, <1>1, <1>k
<1>5. j = Len(stack[t])
    BY <1>0, <1>1, <1>4
<1>6. Alike(Bottom(t), Bottom(t)')
    BY <1>4, <1>5 DEF Bottom
<1>7. ASSUME Len(stack[t]) > 1 PROVE stack'[t][Len(stack'[t])] = stack[t][Len(stack[t])]
  <2>1. ASSUME NEW l, Went(t, l) PROVE stack'[t][Len(stack'[t])] = stack[t][Len(stack[t])]
      BY <1>0, <1>7, <2>1 DEF Went
  <2>2. ASSUME Popped(t) PROVE stack'[t][Len(stack'[t])] = stack[t][Len(stack[t])]
      BY <1>0, <1>7, <2>2 DEF Popped
  <2>3. ASSUME NEW l, NEW m, NEW r, Called(t, l, m, r)
        PROVE stack'[t][Len(stack'[t])] = stack[t][Len(stack[t])]
      BY <1>0, <1>7, <2>3 DEF Called
  <2> QED BY <2>1, <2>2, <2>3 DEF Moved
<1> QED BY <1>6, <1>7 DEF Bottom

(* Others keep the operation at the bottom of their stacks. *)
LEMMA OthersBottom ==
    ASSUME NEW t \in Threads, Others(t), NEW u \in Threads, u # t
    PROVE  Bottom(u)' = Bottom(u) /\ (IsCloser(u)' <=> IsCloser(u))
<1>1. stack'[u] = stack[u]
    BY DEF Others
<1> QED BY <1>1 DEF Bottom, IsCloser

(* There is nothing to remove from an empty list. *)
LEMMA RemoveFromEmpty ==
    ASSUME NEW m
    PROVE  RemoveFirst(<<>>, m) = <<>>
<1>1. ~ Occurs(m, <<>>) /\ <<>> \in Seq({m})
    BY DEF Occurs
<1> QED BY <1>1, RemoveFirstOccurs

(* What holds of a closed store is not disturbed by deleteModule. *)
LEMMA deleteModuleClosed ==
    ASSUME TypeOK, NEW m \in Modules, deleteModule(m), storeClosed,
           moduleList = <<>>, \A n \in Names : nameToModule[n] = NoModule
    PROVE  moduleList' = <<>> /\ \A n \in Names : nameToModule'[n] = NoModule
BY RemoveFromEmpty DEF deleteModule

(* A step that is not the closer's own. *)
LEMMA OneCloserKept ==
    ASSUME OneCloser,
           \A u \in Threads : IsCloser(u)' => IsCloser(u) /\ Bottom(u)' = Bottom(u),
           UNCHANGED <<runtimeClosed, runtimeDone, storeClosed, closing>>,
           storeClosed => moduleList' = <<>> /\ \A n \in Names : nameToModule'[n] = NoModule
    PROVE  OneCloser'
<1>1. \A t \in Threads, u \in Threads : IsCloser(t)' /\ IsCloser(u)' => t = u
    BY DEF OneCloser
<1>2. \A t \in Threads : IsCloser(t)' =>
          /\ runtimeClosed' /\ ~ runtimeDone'
          /\ Bottom(t)'.at = "snapshot" <=> ~ storeClosed'
    BY DEF OneCloser
<1>3. /\ storeClosed' => /\ runtimeClosed' /\ moduleList' = <<>>
                         /\ \A n \in Names : nameToModule'[n] = NoModule
      /\ ~ storeClosed' => closing' = <<>>
      /\ runtimeDone' => storeClosed' /\ closing' = <<>>
    BY DEF OneCloser
<1> QED BY <1>1, <1>2, <1>3 DEF OneCloser

(* Running goroutines keep OneCloser: only one wins runtime.closed. *)
LEMMA OneCloserRuns ==
    ASSUME StackInv, OneCloser, NEW t \in Threads, Runs(t), Moved(t)
    PROVE  OneCloser'
<1>0. TypeOK /\ Shape /\ Len(stack[t]) \in Nat
    BY TopIs DEF StackInv
<1>1. Len(stack[t]) > 0 /\ Dispatch(t) /\ Effects(t)
    BY <1>0, RunsLabel
<1>2. Others(t) /\ \A u \in Threads : u # t => Bottom(u)' = Bottom(u) /\ (IsCloser(u)' <=> IsCloser(u))
    BY MovedOrigin, OthersBottom
<1>3. CASE stack[t][1].at \notin Closers
  <2>1. ASSUME IsCloser(t)' PROVE IsCloser(t) /\ Bottom(t)' = Bottom(t)
    <3>1. Len(stack'[t]) > 0 /\ Bottom(t)'.at \in Closers
        BY <2>1 DEF IsCloser
    <3>2. Bottom(t).at \in Closers
        BY <3>1, MovedBottom DEF Alike
    <3>3. Len(stack[t]) > 1
        BY <1>0, <1>1, <1>3, <3>2 DEF Bottom
    <3> QED BY <1>1, <3>1, <3>2, <3>3, MovedBottom DEF IsCloser
  <2>2. UNCHANGED <<runtimeClosed, runtimeDone, closing>>
      BY <1>1, <1>3 DEF Effects, Closers
  <2>3. /\ storeClosed' = storeClosed
        /\ storeClosed => moduleList' = <<>> /\ \A n \in Names : nameToModule'[n] = NoModule
    <3>1. CASE stack[t][1].at # "delete"
        BY <1>1, <1>3, <3>1 DEF Effects, Closers, storeVars, OneCloser
    <3>2. CASE stack[t][1].at = "delete"
      <4>1. Top(t) \in Modules /\ deleteModule(Top(t))
          BY <1>0, <1>1, <3>2, TopModule DEF Dispatch, CloseDelete, Closers
      <4> QED BY <1>0, <4>1, deleteModuleClosed DEF OneCloser, deleteModule
    <3> QED BY <3>1, <3>2
  <2> QED BY <1>2, <2>1, <2>2, <2>3, OneCloserKept
<1>4. CASE stack[t][1].at \in Closers
  <2>1. Len(stack[t]) = 1
      BY <1>0, <1>1, <1>4, RegisterAlone DEF Bottoms
  <2>2. IsCloser(t) /\ Bottom(t).at = stack[t][1].at
      BY <1>4, <2>1 DEF IsCloser, Bottom
  <2>3. /\ runtimeClosed /\ ~ runtimeDone /\ (stack[t][1].at = "snapshot" <=> ~ storeClosed)
        /\ \A u \in Threads : IsCloser(u)' => u = t
      BY <1>2, <2>2 DEF OneCloser
  <2>4. CASE stack[t][1].at = "snapshot"
    <3>1. StoreSnapshot(t)
        BY <1>1, <2>4 DEF Dispatch
    <3>2. Went(t, "unlock")
        BY <1>0, <1>1, <3>1, GotoFrames DEF StoreSnapshot, Labels
    <3>3. Bottom(t)'.at = "unlock"
        BY <2>1, <3>2 DEF Went, Bottom
    <3>4. /\ storeClosed' /\ moduleList' = <<>> /\ \A n \in Names : nameToModule'[n] = NoModule
          /\ UNCHANGED <<runtimeClosed, runtimeDone>>
        BY <3>1 DEF StoreSnapshot, closeStore, histVars
    <3> QED BY <2>3, <3>3, <3>4 DEF OneCloser
  <2>5. CASE stack[t][1].at = "unlock"
    <3>1. StoreUnlock(t)
        BY <1>1, <2>5 DEF Dispatch
    <3>2. Went(t, "each")
        BY <1>0, <1>1, <3>1, GotoFrames DEF StoreUnlock, Labels
    <3>3. Bottom(t)'.at = "each"
        BY <2>1, <3>2 DEF Went, Bottom
    <3>4. UNCHANGED <<runtimeClosed, runtimeDone, storeClosed, moduleList, nameToModule, closing>>
        BY <3>1 DEF StoreUnlock, histVars, storeVars
    <3> QED BY <2>3, <2>5, <3>3, <3>4 DEF OneCloser
  <2>6. CASE StoreCloseEach(t)
    <3>1. /\ Call(t, "closeStore", Head(closing), "each") /\ closing # <<>>
          /\ stack[t][1].at = "each"
          /\ UNCHANGED <<runtimeClosed, runtimeDone, storeClosed, moduleList, nameToModule>>
        BY <1>0, <2>6, TopIs DEF StoreCloseEach, histVars, storeVars
    <3>2. Called(t, "closeStore", Head(closing), "each")
      <4>1. Head(closing) \in Modules
          BY <1>0, <3>1 DEF TypeOK
      <4>2. "closeStore" \in Labels /\ "each" \in Labels
          BY DEF Labels
      <4> QED BY <1>0, <1>1, <3>1, <4>1, <4>2, CallFrames
    <3>3. Bottom(t)'.at = "each"
        BY <2>1, <3>2 DEF Called, Bottom
    <3> QED BY <2>3, <3>1, <3>3 DEF OneCloser
  <2>7. CASE StoreCloseDone(t)
    <3>1. /\ Return(t) /\ closing = <<>> /\ stack[t][1].at = "each"
          /\ UNCHANGED <<runtimeClosed, storeClosed, moduleList, nameToModule, closing>>
        BY <1>0, <2>7, TopIs DEF StoreCloseDone, storeVars
    <3>2. Popped(t)
        BY <1>0, <1>1, <3>1, ReturnFrames
    <3>3. ~ IsCloser(t)'
        BY <2>1, <3>2 DEF Popped, IsCloser
    <3> QED BY <2>3, <3>1, <3>3 DEF OneCloser
  <2> QED BY <1>1, <1>4, <2>4, <2>5, <2>6, <2>7 DEF Closers, Dispatch
<1> QED BY <1>3, <1>4

(* Every step keeps OneCloser. *)
LEMMA OneCloserNext ==
    ASSUME StackInv, OneCloser, [Next]_vars
    PROVE  OneCloser'
<1>0. TypeOK /\ Shape
    BY DEF StackInv
<1>s. ASSUME NEW m \in Modules, deleteModule(m)
      PROVE  /\ storeClosed' = storeClosed
             /\ storeClosed => moduleList' = <<>> /\ \A n \in Names : nameToModule'[n] = NoModule
    BY <1>0, <1>s, deleteModuleClosed DEF OneCloser, deleteModule
<1>k. ASSUME UNCHANGED storeVars
      PROVE  storeClosed => moduleList' = <<>> /\ \A n \in Names : nameToModule'[n] = NoModule
    BY <1>k DEF OneCloser, storeVars
<1>u. ASSUME stack' = stack
      PROVE  \A u \in Threads : IsCloser(u)' => IsCloser(u) /\ Bottom(u)' = Bottom(u)
    BY <1>u DEF IsCloser, Bottom
<1>1. ASSUME NEW t \in Threads, InstantiateRegister(t), Registrable(Top(t)), Registers(t)
      PROVE  OneCloser'
  <2>1. Len(stack[t]) = 1 /\ Others(t)
      BY <1>0, <1>1, RegisterAlone DEF Registers, Bottoms, Insts, Went
  <2>2. ~ IsCloser(t)'
      BY <1>1, <2>1 DEF Registers, Went, IsCloser, Bottom, Closers
  <2>3. ~ storeClosed /\ UNCHANGED <<runtimeClosed, runtimeDone, storeClosed, closing>>
      BY <1>1 DEF InstantiateRegister, Registrable, registerModule
  <2>4. \A u \in Threads : IsCloser(u)' => IsCloser(u) /\ Bottom(u)' = Bottom(u)
      BY <2>1, <2>2, OthersBottom
  <2> QED BY <2>3, <2>4, OneCloserKept
<1>2. ASSUME NEW t \in Threads, Begun(t), StartCloseRuntime(t)
      PROVE  OneCloser'
  <2>1. /\ ~ runtimeClosed /\ runtimeClosed'
        /\ UNCHANGED <<runtimeDone, storeClosed, closing, moduleList, nameToModule>>
      BY <1>2 DEF StartCloseRuntime, histVars, storeVars
  <2>2. Pushed(t, "snapshot", NoModule)
      BY <1>0, <1>2, StartFrames DEF StartCloseRuntime, Labels
  <2>3. Bottom(t)'.at = "snapshot" /\ Others(t)
      BY <2>2 DEF Pushed, Bottom
  <2>4. \A u \in Threads : IsCloser(u)' => u = t
      BY <2>1, <2>3, OthersBottom DEF OneCloser
  <2>5. ~ storeClosed /\ ~ runtimeDone
      BY <2>1 DEF OneCloser
  <2> QED BY <2>1, <2>3, <2>4, <2>5 DEF OneCloser
<1>3. ASSUME NEW t \in Threads, NEW m \in Modules, Begun(t),
             StartInstantiate(t, m) \/ StartCall(t, m) \/ StartClose(t, m)
      PROVE  OneCloser'
  <2>1. UNCHANGED <<runtimeClosed, runtimeDone, closing, storeVars>>
      BY <1>3 DEF StartInstantiate, StartCall, StartClose, histVars
  <2>2. Bottom(t)'.at \in {"check", "begin", "returned"} /\ Others(t)
    <3>1. CASE StartInstantiate(t, m)
      <4>1. Pushed(t, "check", m)
          BY <1>0, <3>1, StartFrames DEF StartInstantiate, Labels
      <4> QED BY <4>1 DEF Pushed, Bottom
    <3>2. CASE StartCall(t, m)
      <4>1. Pushed(t, "begin", m)
          BY <1>0, <3>2, StartFrames DEF StartCall, Labels
      <4> QED BY <4>1 DEF Pushed, Bottom
    <3>3. CASE StartClose(t, m)
      <4>1. PushedClose(t, m)
          BY <1>0, <3>3, StartCloseFrames
      <4> QED BY <4>1 DEF PushedClose, Bottom
    <3> QED BY <1>3, <3>1, <3>2, <3>3
  <2>3. ~ IsCloser(t)'
      BY <2>2 DEF IsCloser, Closers
  <2>4. \A u \in Threads : IsCloser(u)' => IsCloser(u) /\ Bottom(u)' = Bottom(u)
      BY <2>2, <2>3, OthersBottom
  <2> QED BY <1>k, <2>1, <2>4, OneCloserKept DEF storeVars
<1>4. ASSUME NEW t \in Threads, NEW m \in Modules, ContextDone(t, m)
      PROVE  OneCloser'
  <2>1. UNCHANGED <<runtimeClosed, runtimeDone, closing, storeVars, stack>>
      BY <1>4 DEF ContextDone, histVars
  <2> QED BY <1>k, <1>u, <2>1, OneCloserKept DEF storeVars
<1>5. ASSUME NEW m \in Modules, AsyncSetExitCode(m)
      PROVE  OneCloser'
  <2>1. UNCHANGED <<runtimeClosed, runtimeDone, closing, storeVars, stack>>
      BY <1>5 DEF AsyncSetExitCode, histVars
  <2> QED BY <1>k, <1>u, <2>1, OneCloserKept DEF storeVars
<1>6. ASSUME NEW m \in Modules, AsyncDelete(m)
      PROVE  OneCloser'
  <2>1. UNCHANGED <<runtimeClosed, runtimeDone, closing, stack>> /\ deleteModule(m)
      BY <1>6 DEF AsyncDelete, histVars
  <2> QED BY <1>s, <1>u, <2>1, OneCloserKept
<1>7. CASE UNCHANGED vars
  <2>1. UNCHANGED <<runtimeClosed, runtimeDone, closing, storeVars, stack>>
      BY <1>7 DEF vars, histVars
  <2> QED BY <1>k, <1>u, <2>1, OneCloserKept DEF storeVars
<1> QED BY <1>1, <1>2, <1>3, <1>4, <1>5, <1>6, <1>7, OneCloserRuns, NextCases
----------------------------------------------------------------------------
(* Who knows a module: a module that is not registered yet is in the hands *)
(* of the goroutine that instantiates it.                                  *)

KnownFrames(t) ==
    \A i \in 1 .. Len(stack[t]) :
        /\ stack[t][i].at \in Afters \cup {"returned", "closeStore"} =>
              stack[t][i].m \in registered
        /\ stack[t][i].at \in Insts => stack[t][i].m \notin registered
        /\ stack[t][i].m \in Modules \ registered =>
              Bottom(t).at \in Insts /\ Bottom(t).m = stack[t][i].m

InInst(t, m) == Len(stack[t]) > 0 /\ Bottom(t).at \in Insts /\ Bottom(t).m = m

InAfter(t, m) == Len(stack[t]) > 0 /\ Bottom(t).at \in Afters /\ Bottom(t).m = m

Known ==
    /\ visible \subseteq registered
    /\ \A m \in Modules : Occurs(m, moduleList) \/ Occurs(m, closing) => m \in registered
    /\ \A m \in registered : m \notin visible /\ closed[m] = "open" =>
          \E t \in Threads : InAfter(t, m)
    /\ \A t \in Threads : KnownFrames(t)
    /\ \A m \in Modules : \A t, u \in Threads : InInst(t, m) /\ InInst(u, m) => t = u

(* The bottom of a stack is a frame. *)
LEMMA BottomFrame ==
    ASSUME TypeOK, NEW t \in Threads, Len(stack[t]) > 0
    PROVE  /\ Len(stack[t]) \in 1 .. Len(stack[t]) /\ 1 \in 1 .. Len(stack[t])
           /\ Bottom(t) = stack[t][Len(stack[t])] /\ Bottom(t) \in FrameSet
BY TopIs DEF Bottom

(* A move keeps the frames about modules that may be used. *)
LEMMA KnownFramesMoved ==
    ASSUME StackInv, Known, NEW t \in Threads, Moved(t), registered' = registered
    PROVE  KnownFrames(t)'
<1> SUFFICES ASSUME NEW i \in 1 .. Len(stack'[t])
             PROVE  /\ stack'[t][i].at \in Afters \cup {"returned", "closeStore"} =>
                          stack'[t][i].m \in registered
                    /\ stack'[t][i].at \in Insts => stack'[t][i].m \notin registered
                    /\ stack'[t][i].m \in Modules \ registered =>
                          Bottom(t)'.at \in Insts /\ Bottom(t)'.m = stack'[t][i].m
    BY DEF KnownFrames
<1>0. TypeOK /\ Len(stack[t]) > 0 /\ Len(stack[t]) \in Nat
    BY TopIs DEF StackInv, Moved
<1>1. Len(stack'[t]) > 0
    BY <1>0 DEF Moved, Went, Popped, Called
<1>2. Alike(Bottom(t), Bottom(t)')
    BY <1>1, MovedBottom
<1>3. KnownFrames(t)
    BY DEF Known
<1>4. ASSUME NEW j \in 1 .. Len(stack[t]), Alike(stack[t][j], stack'[t][i])
      PROVE  /\ stack'[t][i].at \in Afters \cup {"returned", "closeStore"} =>
                   stack'[t][i].m \in registered
             /\ stack'[t][i].at \in Insts => stack'[t][i].m \notin registered
             /\ stack'[t][i].m \in Modules \ registered =>
                   Bottom(t)'.at \in Insts /\ Bottom(t)'.m = stack'[t][i].m
    BY <1>2, <1>3, <1>4 DEF KnownFrames, Alike
<1>5. ASSUME i = 1, Fresh(t, stack'[t][1])
      PROVE  /\ stack'[t][i].at \in Afters \cup {"returned", "closeStore"} =>
                   stack'[t][i].m \in registered
             /\ stack'[t][i].at \in Insts => stack'[t][i].m \notin registered
             /\ stack'[t][i].m \in Modules \ registered =>
                   Bottom(t)'.at \in Insts /\ Bottom(t)'.m = stack'[t][i].m
  <2> DEFINE x == stack'[t][1].m
             a == stack'[t][1].at
  <2>1. /\ a \in {"close", "begin", "closeStore"} /\ x \in Modules /\ Callee(t, x)
        /\ a = "closeStore" <=> stack[t][1].at = "each"
      BY <1>5 DEF Fresh
  <2>2. a \notin Afters \cup {"returned"} \cup Insts
      BY <2>1 DEF Afters, Insts
  <2>3. x \in registered \/ x = stack[t][1].m
    <3>1. closing # <<>> => Occurs(closing[1], closing)
        BY <1>0 DEF Occurs, TypeOK
    <3> QED BY <2>1, <3>1 DEF Callee, Known
  <2>4. a = "closeStore" => x \in registered
    <3>1. closing # <<>> => Occurs(closing[1], closing)
        BY <1>0 DEF Occurs, TypeOK
    <3> QED BY <2>1, <3>1 DEF Callee, Known
  <2>5. ASSUME x \notin registered
        PROVE  Bottom(t)'.at \in Insts /\ Bottom(t)'.m = x
    <3>1. x = stack[t][1].m /\ 1 \in 1 .. Len(stack[t])
        BY <1>0, <2>3, <2>5
    <3>2. Bottom(t).at \in Insts /\ Bottom(t).m = x
        BY <1>3, <2>1, <2>5, <3>1 DEF KnownFrames
    <3> QED BY <1>2, <3>2 DEF Alike
  <2> HIDE DEF x, a
  <2>6. stack'[t][i].at = a /\ stack'[t][i].m = x
      BY <1>5 DEF a, x
  <2> QED BY <2>1, <2>2, <2>4, <2>5, <2>6
<1>6. \/ \E j \in 1 .. Len(stack[t]) : Alike(stack[t][j], stack'[t][i])
      \/ i = 1 /\ Fresh(t, stack'[t][1])
    BY MovedOrigin DEF Origin
<1> QED BY <1>4, <1>5, <1>6

(* Others keep what they know and what they instantiate. *)
LEMMA KnownOthers ==
    ASSUME NEW t \in Threads, Others(t), NEW u \in Threads, u # t
    PROVE  /\ registered' = registered => (KnownFrames(u)' <=> KnownFrames(u))
           /\ \A m : InInst(u, m)' <=> InInst(u, m)
           /\ \A m : InAfter(u, m)' <=> InAfter(u, m)
<1>1. stack'[u] = stack[u]
    BY DEF Others
<1> QED BY <1>1 DEF KnownFrames, InInst, InAfter, Bottom

(* InstantiateModule returns a module visible, or drops it. *)
LEMMA AfterReturns ==
    ASSUME StackInv, NEW t \in Threads, Runs(t), stack[t][1].at \in Afters, Popped(t)
    PROVE  stack[t][1].m \in visible' \/ stack[t][1].at = "drop"
<1>0. TypeOK /\ Shape /\ Len(stack[t]) > 0 /\ Dispatch(t) /\ Len(stack[t]) \in Nat
    BY RunsLabel, TopIs DEF StackInv
<1>1. Top(t) = stack[t][1].m /\ Top(t) \in Modules
    BY <1>0, TopModule DEF Afters, Closers
<1>2. ASSUME NEW l \in Labels, NEW r \in Labels, Call(t, l, Top(t), r) PROVE FALSE
  <2>1. Called(t, l, Top(t), r)
      BY <1>0, <1>1, <1>2, CallFrames
  <2> QED BY <1>0, <2>1 DEF Called, Popped
<1>3. {"begin", "exported", "close", "drop"} \subseteq Labels
    BY DEF Labels
<1>4. CASE InstantiateStart(t)
    BY <1>1, <1>2, <1>3, <1>4 DEF InstantiateStart
<1>5. CASE InstantiateStarted(t)
    BY <1>1, <1>2, <1>3, <1>5 DEF InstantiateStarted
<1> QED BY <1>0, <1>4, <1>5 DEF Dispatch, Afters

(* visible, moduleList and closing in a step inside the runtime. *)
LEMMA KnownLists ==
    ASSUME StackInv, Known, NEW t \in Threads, Runs(t)
    PROVE  /\ visible' \subseteq registered /\ visible \subseteq visible'
           /\ \A m \in Modules : Occurs(m, moduleList') => Occurs(m, moduleList)
           /\ \A m \in Modules : Occurs(m, closing') => Occurs(m, moduleList) \/ Occurs(m, closing)
<1>0. TypeOK /\ Shape /\ Len(stack[t]) > 0 /\ Dispatch(t) /\ Effects(t)
    BY RunsLabel DEF StackInv
<1>1. visible' \subseteq registered /\ visible \subseteq visible'
  <2>1. CASE visible' = visible
      BY <2>1 DEF Known
  <2>2. CASE stack[t][1].at \in Afters
    <3>1. Top(t) = stack[t][1].m
        BY <1>0, TopIs
    <3>2. Top(t) \in registered
        BY <1>0, <2>2, <3>1, TopIs DEF Known, KnownFrames
    <3>3. visible' \in {visible, visible \cup {Top(t)}}
        BY <1>0, <2>2 DEF Dispatch, Afters, InstantiateStart, InstantiateStarted, InstantiateDrop
    <3> QED BY <3>2, <3>3 DEF Known
  <2> QED BY <1>0, <2>1, <2>2 DEF Effects
<1>2. \A m \in Modules : Occurs(m, moduleList') => Occurs(m, moduleList)
  <2>1. CASE stack[t][1].at = "delete"
    <3>1. moduleList' = RemoveFirst(moduleList, Top(t)) /\ moduleList \in Seq(Modules)
        BY <1>0, <2>1 DEF Dispatch, CloseDelete, deleteModule, TypeOK, StoreTypeOK
    <3> QED BY <3>1, RemoveFirstOccurs
  <2>2. CASE stack[t][1].at = "snapshot"
    <3>1. moduleList' = <<>>
        BY <1>0, <2>2 DEF Dispatch, StoreSnapshot, closeStore
    <3> QED BY <3>1 DEF Occurs
  <2>3. CASE moduleList' = moduleList
      BY <2>3
  <2> QED BY <1>0, <2>1, <2>2, <2>3 DEF Effects, storeVars
<1>3. \A m \in Modules : Occurs(m, closing') => Occurs(m, moduleList) \/ Occurs(m, closing)
  <2>1. CASE stack[t][1].at = "snapshot"
    <3>1. closing' = moduleList
        BY <1>0, <2>1 DEF Dispatch, StoreSnapshot
    <3> QED BY <3>1
  <2>2. CASE closing' = closing
      BY <2>2
  <2>3. CASE StoreCloseEach(t)
    <3>1. closing' = Tail(closing) /\ closing # <<>> /\ closing \in Seq(Modules)
        BY <1>0, <2>3 DEF StoreCloseEach, TypeOK
    <3>2. Len(closing') = Len(closing) - 1 /\ Len(closing) \in Nat
          /\ \A i \in 1 .. Len(closing) - 1 : closing'[i] = closing[i + 1]
        BY <3>1
    <3>3. \A i \in 1 .. Len(closing') : i + 1 \in 1 .. Len(closing) /\ closing'[i] = closing[i + 1]
        BY <3>2
    <3> QED BY <3>3 DEF Occurs
  <2>4. CASE StoreCloseDone(t)
      BY <2>4 DEF StoreCloseDone
  <2> QED BY <1>0, <2>1, <2>2, <2>3, <2>4 DEF Effects, Dispatch
<1> QED BY <1>1, <1>2, <1>3

(* Running goroutines keep Known. *)
LEMMA KnownRuns ==
    ASSUME StackInv, ClosedTop, Known, NEW t \in Threads, Runs(t), Moved(t),
           \A m \in Modules : closed[m] # "open" => closed'[m] = closed[m]
    PROVE  Known'
<1>0. TypeOK /\ Shape /\ Len(stack[t]) > 0 /\ Effects(t) /\ Len(stack[t]) \in Nat /\ Others(t)
    BY RunsLabel, MovedOrigin, TopIs DEF StackInv
<1>1. registered' = registered
    BY <1>0 DEF Effects
<1>2. \A u \in Threads : KnownFrames(u)'
    BY <1>0, <1>1, KnownFramesMoved, KnownOthers DEF Known
<1>3. Len(stack'[t]) > 0 => Alike(Bottom(t), Bottom(t)')
    BY MovedBottom
<1>4. \A m \in Modules : \A v, u \in Threads : InInst(v, m)' /\ InInst(u, m)' => v = u
  <2>1. \A m : InInst(t, m)' => InInst(t, m)
      BY <1>0, <1>3 DEF InInst, Alike
  <2>2. \A m : \A u \in Threads : InInst(u, m)' => InInst(u, m)
      BY <1>0, <2>1, KnownOthers
  <2> QED BY <2>2 DEF Known
<1>5. visible' \subseteq registered' /\ visible \subseteq visible'
    BY <1>1, KnownLists
<1>6. \A m \in Modules : Occurs(m, moduleList') \/ Occurs(m, closing') => m \in registered'
    BY <1>1, KnownLists DEF Known
<1>7. ASSUME NEW m \in registered, m \notin visible', closed'[m] = "open"
      PROVE  \E u \in Threads : InAfter(u, m)'
  <2>1. m \in Modules /\ closed[m] = "open" /\ m \notin visible
      BY <1>0, <1>5, <1>7 DEF TypeOK
  <2>2. PICK u \in Threads : InAfter(u, m)
      BY <2>1 DEF Known
  <2>3. CASE u # t
      BY <1>0, <2>2, <2>3, KnownOthers
  <2>4. CASE u = t /\ Len(stack'[t]) > 0
    <3>1. InAfter(t, m)'
        BY <1>3, <2>2, <2>4 DEF InAfter, Alike
    <3> QED BY <3>1
  <2>5. CASE u = t /\ ~ (Len(stack'[t]) > 0)
    <3>1. Popped(t) /\ Len(stack[t]) = 1
      <4>1. ASSUME NEW l, Went(t, l) PROVE FALSE
          BY <1>0, <2>5, <4>1 DEF Went
      <4>2. ASSUME NEW l, NEW x, NEW r, Called(t, l, x, r) PROVE FALSE
          BY <1>0, <2>5, <4>2 DEF Called
      <4>3. Popped(t)
          BY <4>1, <4>2 DEF Moved
      <4>4. Len(stack'[t]) = Len(stack[t]) - 1
          BY <4>3 DEF Popped
      <4>5. Len(stack[t]) = 1
        <5>1. ~ (Len(stack[t]) - 1 > 0)
            BY <2>5, <4>4
        <5>2. Len(stack[t]) > 0 /\ Len(stack[t]) \in Nat
            BY <1>0
        <5>3. \A k \in Nat : k > 0 /\ ~ (k - 1 > 0) => k = 1
            OBVIOUS
        <5> QED BY <5>1, <5>2, <5>3, Zenon
      <4> QED BY <4>3, <4>5
    <3>2. stack[t][1].at \in Afters /\ stack[t][1].m = m
        BY <2>2, <2>5, <3>1 DEF InAfter, Bottom
    <3>3. stack[t][1].at = "drop"
        BY <1>7, <3>1, <3>2, AfterReturns
    <3> QED BY <1>0, <2>1, <3>2, <3>3 DEF ClosedTop
  <2> QED BY <2>3, <2>4, <2>5
<1> QED BY <1>1, <1>2, <1>4, <1>5, <1>6, <1>7 DEF Known

(* The stack after an operation was started. *)
LEMMA PushedFrames ==
    ASSUME NEW t \in Threads, NEW l, NEW m, Pushed(t, l, m)
    PROVE  /\ Others(t) /\ Len(stack'[t]) = 1 /\ Bottom(t)'.at = l /\ Bottom(t)'.m = m
           /\ \A i \in 1 .. Len(stack'[t]) : stack'[t][i].at = l /\ stack'[t][i].m = m
BY DEF Pushed, Bottom

(* The stack after a close was started. *)
LEMMA PushedCloseFrames ==
    ASSUME NEW t \in Threads, NEW m, PushedClose(t, m)
    PROVE  /\ Others(t) /\ Len(stack'[t]) = 2
           /\ Bottom(t)'.at = "returned" /\ Bottom(t)'.m = m
           /\ \A i \in 1 .. Len(stack'[t]) :
                 stack'[t][i].at \in {"close", "returned"} /\ stack'[t][i].m = m
BY DEF PushedClose, Bottom

(* An instantiation starts with a module nobody knows. *)
LEMMA UntouchedUnknown ==
    ASSUME StackInv, Known, NEW m \in Modules, Untouched(m)
    PROVE  m \notin registered /\ \A t \in Threads : ~ InInst(t, m) /\ ~ InAfter(t, m)
<1>0. TypeOK
    BY DEF StackInv
<1>1. ASSUME NEW t \in Threads, Len(stack[t]) > 0, Bottom(t).m = m PROVE FALSE
  <2>1. Len(stack[t]) \in DOMAIN stack[t]
      BY <1>0, <1>1, TopIs
  <2> QED BY <1>1, <2>1 DEF Untouched, Bottom
<1>2. \A t \in Threads : ~ InInst(t, m) /\ ~ InAfter(t, m)
    BY <1>1 DEF InInst, InAfter
<1> QED BY <1>2 DEF Known, Untouched

(* Starting an operation keeps Known: embedders use modules they were      *)
(* given.                                                                  *)
LEMMA KnownBegun ==
    ASSUME StackInv, Known, NEW t \in Threads, Begun(t),
           UNCHANGED <<visible, registered, moduleList, closing>>,
           \A m \in Modules : closed[m] # "open" => closed'[m] = closed[m]
    PROVE  Known'
<1>0. TypeOK /\ Others(t) /\ Len(stack[t]) = 0
    BY DEF Begun, Pushed, PushedClose, StackInv
<1>1. KnownFrames(t)' /\ \A m : InInst(t, m)' => m \in Modules /\ Untouched(m)
  <2>1. ASSUME NEW m \in Modules, Pushed(t, "check", m), Untouched(m)
        PROVE  KnownFrames(t)' /\ \A x : InInst(t, x)' => x \in Modules /\ Untouched(x)
    <3>1. m \notin registered
        BY <2>1, UntouchedUnknown
    <3>2. KnownFrames(t)'
        BY <2>1, <3>1, PushedFrames DEF KnownFrames, Afters, Insts
    <3>3. \A x : InInst(t, x)' => x = m
        BY <2>1, PushedFrames DEF InInst
    <3> QED BY <2>1, <3>2, <3>3
  <2>2. ASSUME NEW m \in visible, Pushed(t, "begin", m)
        PROVE  KnownFrames(t)' /\ \A x : ~ InInst(t, x)'
    <3>1. m \in registered
        BY <2>2 DEF Known
    <3> QED BY <2>2, <3>1, PushedFrames DEF KnownFrames, Afters, Insts, InInst
  <2>3. ASSUME NEW m \in visible, PushedClose(t, m)
        PROVE  KnownFrames(t)' /\ \A x : ~ InInst(t, x)'
    <3>1. m \in registered
        BY <2>3 DEF Known
    <3> QED BY <2>3, <3>1, PushedCloseFrames DEF KnownFrames, Afters, Insts, InInst
  <2>4. ASSUME Pushed(t, "snapshot", NoModule)
        PROVE  KnownFrames(t)' /\ \A x : ~ InInst(t, x)'
      BY <2>4, PushedFrames, StoreAssumption DEF KnownFrames, Afters, Insts, InInst
  <2> QED BY <2>1, <2>2, <2>3, <2>4 DEF Begun
<1>2. \A u \in Threads : KnownFrames(u)'
    BY <1>0, <1>1, KnownOthers DEF Known
<1>3. \A m \in Modules : \A v, u \in Threads : InInst(v, m)' /\ InInst(u, m)' => v = u
  <2>1. \A m : \A u \in Threads : u # t => (InInst(u, m)' <=> InInst(u, m))
      BY <1>0, KnownOthers
  <2>2. \A m \in Modules : \A u \in Threads : InInst(t, m)' => ~ InInst(u, m)
      BY <1>1, UntouchedUnknown
  <2> QED BY <2>1, <2>2 DEF Known
<1>4. ASSUME NEW m \in registered, m \notin visible, closed'[m] = "open"
      PROVE  \E u \in Threads : InAfter(u, m)'
  <2>1. closed[m] = "open"
      BY <1>0, <1>4 DEF TypeOK
  <2>2. PICK u \in Threads : InAfter(u, m)
      BY <1>4, <2>1 DEF Known
  <2>3. u # t
      BY <1>0, <2>2 DEF InAfter
  <2> QED BY <1>0, <2>2, <2>3, KnownOthers
<1> QED BY <1>2, <1>3, <1>4 DEF Known

(* Registering keeps Known. *)
LEMMA KnownRegisters ==
    ASSUME StackInv, Known, NEW t \in Threads, InstantiateRegister(t), Registrable(Top(t)),
           Registers(t)
    PROVE  Known'
<1>0. /\ TypeOK /\ Shape /\ Others(t) /\ Len(stack[t]) = 1
      /\ stack[t][1].at = "register" /\ Went(t, "started")
    BY RegisterAlone DEF Registers, Went, StackInv, Bottoms, Insts
<1>m. PICK m \in Modules : m = stack[t][1].m /\ Top(t) = m
    BY <1>0, TopModule DEF Closers
<1>1. Top(t) = m /\ m \in Modules
    BY <1>m
<1>2. /\ registered' = registered \cup {m}
      /\ visible' \in {visible, visible \cup {m}}
      /\ moduleList' = <<m>> \o moduleList
      /\ UNCHANGED <<closing, closed>>
    BY <1>1 DEF InstantiateRegister, registerModule
<1>3. Len(stack'[t]) = 1 /\ stack'[t][1].at = "started" /\ stack'[t][1].m = m
    BY <1>0, <1>m DEF Went
<1>4. Bottom(t).at = "register" /\ Bottom(t).m = m
    BY <1>0, <1>m DEF Bottom
<1>5. Bottom(t)'.at = "started" /\ Bottom(t)'.m = m
    BY <1>3 DEF Bottom
<1>6. InInst(t, m) /\ InAfter(t, m)' /\ \A x : ~ InInst(t, x)'
    BY <1>0, <1>3, <1>4, <1>5 DEF InInst, InAfter, Insts, Afters
<1>7. ASSUME NEW u \in Threads, u # t PROVE KnownFrames(u)'
  <2>0. stack'[u] = stack[u] /\ Bottom(u)' = Bottom(u)
      BY <1>0, <1>7, OthersBottom DEF Others
  <2>1. KnownFrames(u)
      BY DEF Known
  <2>2. ASSUME NEW i \in 1 .. Len(stack[u]), stack[u][i].at \in Insts PROVE stack[u][i].m # m
    <3>1. i = Len(stack[u]) /\ Len(stack[u]) > 0
      <4>1. ShapeOf(stack[u]) /\ Len(stack[u]) \in Nat
          BY <1>0, TopIs DEF Shape
      <4> QED BY <2>2, <4>1 DEF ShapeOf, Bottoms
    <3>2. stack[u][i].m = m => InInst(u, m)
        BY <2>2, <3>1 DEF InInst, Bottom
    <3> QED BY <1>1, <1>6, <1>7, <3>2 DEF Known
  <2> QED BY <1>2, <2>0, <2>1, <2>2 DEF KnownFrames
<1>8. KnownFrames(t)'
    BY <1>2, <1>3 DEF KnownFrames, Insts
<1>9. \A x \in Modules : \A v, u \in Threads : InInst(v, x)' /\ InInst(u, x)' => v = u
  <2>1. \A x : \A u \in Threads : InInst(u, x)' => InInst(u, x)
      BY <1>0, <1>6, KnownOthers
  <2> QED BY <2>1 DEF Known
<1>10. \A x \in Modules : Occurs(x, moduleList') \/ Occurs(x, closing') => x \in registered'
  <2>1. \A x \in Modules : Occurs(x, moduleList') => x = m \/ Occurs(x, moduleList)
    <3>1. moduleList \in Seq(Modules) /\ Len(moduleList) \in Nat
        BY <1>0 DEF TypeOK, StoreTypeOK
    <3>2. \A i \in 1 .. Len(moduleList') :
             \/ moduleList'[i] = m
             \/ i - 1 \in 1 .. Len(moduleList) /\ moduleList'[i] = moduleList[i - 1]
        BY <1>1, <1>2, <3>1
    <3> QED BY <3>2 DEF Occurs
  <2> QED BY <1>2, <2>1 DEF Known
<1>11. ASSUME NEW x \in registered', x \notin visible', closed'[x] = "open"
       PROVE  \E u \in Threads : InAfter(u, x)'
  <2>1. CASE x = m
      BY <1>6, <2>1
  <2>2. CASE x # m
    <3>1. PICK u \in Threads : InAfter(u, x)
        BY <1>2, <1>11, <2>2 DEF Known
    <3>2. u # t
        BY <1>4, <3>1 DEF InAfter, Afters
    <3> QED BY <1>0, <3>1, <3>2, KnownOthers
  <2> QED BY <2>1, <2>2
<1>12. visible' \subseteq registered'
    BY <1>2 DEF Known
<1> QED BY <1>7, <1>8, <1>9, <1>10, <1>11, <1>12 DEF Known

(* A step that moves no goroutine and lists nothing new keeps Known. *)
LEMMA KnownKept ==
    ASSUME StackInv, Known, stack' = stack, UNCHANGED <<visible, registered, closing>>,
           \A m \in Modules : Occurs(m, moduleList') => Occurs(m, moduleList),
           \A m \in Modules : closed[m] # "open" => closed'[m] = closed[m]
    PROVE  Known'
<1>1. \A u \in Threads : /\ KnownFrames(u)' <=> KnownFrames(u)
                         /\ \A m : InInst(u, m)' <=> InInst(u, m)
                         /\ \A m : InAfter(u, m)' <=> InAfter(u, m)
    BY DEF KnownFrames, InInst, InAfter, Bottom
<1>2. \A m \in registered : closed'[m] = "open" => closed[m] = "open"
    BY DEF StackInv, TypeOK
<1> QED BY <1>1, <1>2 DEF Known

(* Every step keeps Known. *)
LEMMA KnownNext ==
    ASSUME StackInv, ClosedTop, Known, [Next]_vars
    PROVE  Known'
<1>0. TypeOK
    BY DEF StackInv
<1>1. \A m \in Modules : closed[m] # "open" => closed'[m] = closed[m]
    BY ClosedStays
<1>2. ASSUME NEW t \in Threads, Begun(t), StartCloseRuntime(t) PROVE Known'
    BY <1>1, <1>2, KnownBegun DEF StartCloseRuntime, storeVars, histVars
<1>3. ASSUME NEW t \in Threads, NEW m \in Modules, Begun(t),
             StartInstantiate(t, m) \/ StartCall(t, m) \/ StartClose(t, m)
      PROVE  Known'
    BY <1>1, <1>3, KnownBegun DEF StartInstantiate, StartCall, StartClose, storeVars, histVars
<1>4. ASSUME NEW t \in Threads, NEW m \in Modules, ContextDone(t, m) PROVE Known'
    BY <1>1, <1>4, KnownKept DEF ContextDone, storeVars, histVars
<1>5. ASSUME NEW m \in Modules, AsyncSetExitCode(m) PROVE Known'
    BY <1>1, <1>5, KnownKept DEF AsyncSetExitCode, storeVars, histVars
<1>6. ASSUME NEW m \in Modules, AsyncDelete(m) PROVE Known'
  <2>1. moduleList' = RemoveFirst(moduleList, m) /\ moduleList \in Seq(Modules)
      BY <1>0, <1>6 DEF AsyncDelete, deleteModule, TypeOK, StoreTypeOK
  <2>2. \A x \in Modules : Occurs(x, moduleList') => Occurs(x, moduleList)
      BY <2>1, RemoveFirstOccurs
  <2> QED BY <1>1, <1>6, <2>2, KnownKept DEF AsyncDelete, histVars
<1>7. CASE UNCHANGED vars
    BY <1>1, <1>7, KnownKept DEF vars, storeVars, histVars
<1> QED BY <1>1, <1>2, <1>3, <1>4, <1>5, <1>6, <1>7, KnownRuns, KnownRegisters, NextCases

KnownInv == StackInv /\ ClosedTop /\ OneCloser /\ Known

(* At first no module is known. *)
LEMMA KnownInit ==
    ASSUME Init
    PROVE  KnownInv
<1>1. StackInv
    BY StackInit
<1>2. \A t \in Threads : Len(stack[t]) = 0
    BY DEF Init
<1>3. ClosedTop
    BY <1>2 DEF Init, ClosedTop
<1>4. OneCloser
    BY <1>2 DEF Init, StoreInit, OneCloser, IsCloser
<1>5. Known
    BY <1>2 DEF Init, StoreInit, Known, KnownFrames, InInst, Occurs
<1> QED BY <1>1, <1>3, <1>4, <1>5 DEF KnownInv

(* Only one goroutine closes the runtime, only closed modules are deleted  *)
(* and released, and what is not registered only its instantiation knows.  *)
THEOREM KnownInvariance == Spec => []KnownInv
<1>1. Init => KnownInv
    BY KnownInit
<1>2. KnownInv /\ [Next]_vars => KnownInv'
    BY StackNext, ClosedTopNext, OneCloserNext, KnownNext DEF KnownInv
<1> QED BY <1>1, <1>2, PTL DEF Spec
----------------------------------------------------------------------------
(* Every open module the store accepted will be found when it closes, and  *)
(* a closed module's name is freed.                                        *)

ClosedWhen ==
    \A t \in Threads : Len(stack[t]) > 0 =>
        /\ stack[t][1].at \in {"check", "precheck", "build", "hooks", "register"} =>
              closed[stack[t][1].m] # "closed"
        /\ stack[t][1].at = "section" /\ ~ failed[t] => closed[stack[t][1].m] # "closed"
        /\ stack[t][1].at \in Releases /\ Len(stack[t]) > 1 /\ stack[t][2].at = "section" =>
              failed[t]

NameHeld ==
    \A n \in Names, m \in Modules : nameToModule[n] = m /\ closed[m] = "closed" =>
        \E t \in Threads :
            Len(stack[t]) > 0 /\ stack[t][1].at = "delete" /\ stack[t][1].m = m

Listed(m) ==
    \/ Occurs(m, moduleList) \/ Occurs(m, closing)
    \/ \E t \in Threads :
          Len(stack[t]) > 0 /\ stack[t][1].at = "closeStore" /\ stack[t][1].m = m

OpenListed == \A m \in registered : closed[m] = "open" => Listed(m)

(* Nobody but the goroutine that instantiates a module closes it before it *)
(* is registered.                                                          *)
LEMMA InstClosedAlone ==
    ASSUME StackInv, Known, NEW t \in Threads, Runs(t), NEW u \in Threads, u # t,
           Len(stack[u]) > 0, stack[u][1].at \in Insts
    PROVE  closed'[stack[u][1].m] = closed[stack[u][1].m]
<1>0. TypeOK /\ Shape /\ Len(stack[t]) > 0 /\ Dispatch(t) /\ Effects(t)
    BY RunsLabel DEF StackInv
<1>1. Len(stack[u]) = 1 /\ 1 \in 1 .. Len(stack[t]) /\ 1 \in 1 .. Len(stack[u])
    BY <1>0, RegisterAlone, TopIs DEF Bottoms
<1>2. PICK m \in Modules : m = stack[u][1].m
    BY <1>0, TopModule DEF Insts, Closers
<1>3. m \notin registered /\ InInst(u, m)
    BY <1>1, <1>2 DEF Known, KnownFrames, InInst, Bottom
<1>4. CASE CloseSetExitCode(t)
  <2>1. stack[t][1].m \in Modules /\ (closed' = closed \/ closed' = [closed EXCEPT ![stack[t][1].m] = "closed"])
      BY <1>4, SetExitCodeStep
  <2>2. stack[t][1].m # m
    <3>1. stack[t][1].m = m => InInst(t, m)
        BY <1>0, <1>1, <1>3 DEF Known, KnownFrames, InInst
    <3> QED BY <1>3, <3>1 DEF Known
  <2> QED BY <1>0, <1>2, <2>1, <2>2 DEF TypeOK
<1>5. CASE closed' = closed
    BY <1>5
<1> QED BY <1>0, <1>4, <1>5 DEF Dispatch, Effects

(* A running goroutine leaves the outcome of other calls alone. *)
LEMMA FailedOthers ==
    ASSUME StackInv, NEW t \in Threads, Runs(t), NEW u \in Threads, u # t
    PROVE  failed'[u] = failed[u]
<1>0. TypeOK /\ Dispatch(t) /\ Effects(t)
    BY RunsLabel DEF StackInv
<1>f. failed \in [Threads -> BOOLEAN]
    BY <1>0 DEF TypeOK
<1>1. CASE failed' = failed
    BY <1>1
<1>2. CASE BeginExecution(t)
    BY <1>f, <1>2 DEF BeginExecution
<1>3. CASE GuestTrap(t)
    BY <1>f, <1>3 DEF GuestTrap
<1>4. CASE FailIfClosed(t)
    BY <1>f, <1>4 DEF FailIfClosed
<1>5. CASE GuestReturn(t) \/ \E m \in Modules : HostClose(t, m)
    BY <1>5 DEF GuestReturn, HostClose
<1> QED BY <1>0, <1>1, <1>2, <1>3, <1>4, <1>5 DEF Dispatch, Effects, Execs

(* Where a Goto leads while a module is instantiated, it is not closed by  *)
(* Close.                                                                  *)
LEMMA ClosedWhenWent ==
    ASSUME StackInv, ClosedWhen, NEW t \in Threads, Runs(t), NEW l \in Labels,
           <<stack[t][1].at, l>> \in Moves, Went(t, l)
    PROVE  /\ l \in {"check", "precheck", "build", "hooks", "register"} =>
                 closed'[stack[t][1].m] # "closed"
           /\ l \in Releases /\ Len(stack[t]) > 1 /\ stack[t][2].at = "section" => failed'[t]
           /\ l # "section"
<1>0. TypeOK /\ Shape /\ Len(stack[t]) > 0 /\ Dispatch(t) /\ Effects(t) /\ Len(stack[t]) \in Nat
    BY RunsLabel, TopIs DEF StackInv
<1>w. Len(stack'[t]) = Len(stack[t]) /\ ~ Popped(t)
  <2>1. Len(stack'[t]) = Len(stack[t])
      BY DEF Went
  <2> QED BY <1>0, <2>1 DEF Popped
<1>1. ASSUME l \in {"check", "precheck", "build", "hooks", "register"}
      PROVE  closed'[stack[t][1].m] # "closed"
  <2>1. stack[t][1].at \in {"check", "precheck", "build", "section", "hooks"}
      BY <1>1 DEF Moves
  <2>2. closed' = closed
      BY <1>0, <2>1 DEF Effects
  <2>3. CASE stack[t][1].at # "section"
      BY <1>0, <2>1, <2>2, <2>3 DEF ClosedWhen
  <2>4. CASE stack[t][1].at = "section"
    <3>1. InstantiateSection(t) /\ Top(t) \in Modules
        BY <1>0, <2>4, TopModule DEF Dispatch, Closers
    <3>2. ~ Call(t, "close", Top(t), "abort")
      <4>1. ASSUME Call(t, "close", Top(t), "abort") PROVE FALSE
        <5>1. "close" \in Labels /\ "abort" \in Labels
            BY DEF Labels
        <5>2. Called(t, "close", Top(t), "abort")
            BY <1>0, <3>1, <4>1, <5>1, CallFrames
        <5>3. Len(stack'[t]) = Len(stack[t]) + 1
            BY <5>2 DEF Called
        <5> QED BY <1>0, <1>w, <5>3
      <4> QED BY <4>1
    <3>3. ~ failed[t]
        BY <3>1, <3>2 DEF InstantiateSection
    <3> QED BY <1>0, <2>2, <2>4, <3>3 DEF ClosedWhen
  <2> QED BY <2>3, <2>4
<1>2. ASSUME l \in Releases, Len(stack[t]) > 1, stack[t][2].at = "section"
      PROVE  failed'[t]
  <2>1. Over(stack[t][1], stack[t][2])
      BY <1>0, <1>2 DEF Shape, ShapeOf
  <2>2. stack[t][1].at \in Execs \cup Releases
      BY <1>2, <2>1 DEF Over
  <2>3. CASE stack[t][1].at \in Releases
      BY <1>0, <1>2, <2>3 DEF ClosedWhen, Effects, Releases, Execs
  <2>4. CASE stack[t][1].at = "fail"
    <3>1. /\ failed' = [failed EXCEPT ![t] = failed[t] \/ closed[stack[t][1].m] # "open"]
          /\ closed[stack[t][1].m] = "notClosed"
        BY <1>0, <1>w, <2>4, FailStep DEF Dispatch
    <3> QED BY <1>0, <3>1 DEF TypeOK
  <2>5. stack[t][1].at \in Releases \cup {"fail"}
      BY <1>2, <2>2 DEF Moves, Releases, Execs
  <2> QED BY <2>3, <2>4, <2>5
<1>3. l # "section"
    BY DEF Moves
<1> QED BY <1>1, <1>2, <1>3

(* A start section that returns without a failure left the module open. *)
LEMMA ClosedWhenPopped ==
    ASSUME StackInv, ClosedWhen, NEW t \in Threads, Runs(t), Popped(t), Len(stack[t]) > 1
    PROVE  /\ stack[t][2].at \notin {"check", "precheck", "build", "hooks", "register"} \cup Releases
           /\ stack[t][2].at = "section" /\ ~ failed'[t] =>
                 /\ stack[t][1].at = "fail" /\ closed' = closed
                 /\ closed[stack[t][2].m] = "open"
<1>0. TypeOK /\ Shape /\ Len(stack[t]) > 0 /\ Dispatch(t) /\ Effects(t) /\ Len(stack[t]) \in Nat
    BY RunsLabel, TopIs DEF StackInv
<1>1. Over(stack[t][1], stack[t][2])
    BY <1>0 DEF Shape, ShapeOf
<1>2. stack[t][2].at \notin {"check", "precheck", "build", "hooks", "register"} \cup Releases
    BY <1>1 DEF Over, Releases
<1>3. ASSUME stack[t][2].at = "section", ~ failed'[t]
      PROVE  /\ stack[t][1].at = "fail" /\ closed' = closed
             /\ closed[stack[t][2].m] = "open"
  <2>1. stack[t][1].at \in Execs \cup Releases /\ stack[t][1].m = stack[t][2].m
      BY <1>1, <1>3 DEF Over
  <2>2. closed' = closed
      BY <1>0, <2>1 DEF Effects, Execs, Releases
  <2>w. ASSUME NEW l \in Labels, Goto(t, l) PROVE FALSE
    <3>1. Went(t, l)
        BY <1>0, <2>w, GotoFrames
    <3>2. Len(stack'[t]) = Len(stack[t]) /\ Len(stack'[t]) = Len(stack[t]) - 1
        BY <3>1 DEF Went, Popped
    <3> QED BY <1>0, <3>2
  <2>c. ASSUME NEW m \in Modules, Call(t, "close", m, "guest") PROVE FALSE
    <3>0. "close" \in Labels /\ "guest" \in Labels
        BY DEF Labels
    <3>1. Called(t, "close", m, "guest")
        BY <1>0, <2>c, <3>0, CallFrames
    <3>2. Len(stack'[t]) = Len(stack[t]) + 1 /\ Len(stack'[t]) = Len(stack[t]) - 1
        BY <3>1 DEF Called, Popped
    <3> QED BY <1>0, <3>2
  <2>3. CASE stack[t][1].at \in Releases
      BY <1>0, <1>3, <2>3 DEF ClosedWhen, Effects, Releases, Execs
  <2>4. CASE stack[t][1].at = "begin"
    <3>1. \E l \in Labels : Goto(t, l)
        BY <1>0, <2>4 DEF Dispatch, BeginExecution, Labels
    <3> QED BY <2>w, <3>1
  <2>5. CASE stack[t][1].at = "guest"
    <3>1. CASE GuestReturn(t)
      <4>1. \E l \in Labels : Goto(t, l)
          BY <3>1 DEF GuestReturn, Labels
      <4> QED BY <2>w, <4>1
    <3>2. CASE GuestTrap(t)
        BY <1>0, <1>3, <3>2 DEF GuestTrap, TypeOK
    <3>3. CASE \E m \in Modules : HostClose(t, m)
        BY <2>c, <3>3 DEF HostClose
    <3> QED BY <1>0, <2>5, <3>1, <3>2, <3>3 DEF Dispatch
  <2>6. CASE stack[t][1].at = "fail"
    <3>1. failed' = [failed EXCEPT ![t] = failed[t] \/ closed[stack[t][1].m] # "open"]
        BY <1>0, <2>6, FailStep DEF Dispatch
    <3>2. closed[stack[t][1].m] = "open"
        BY <1>0, <1>3, <3>1 DEF TypeOK
    <3> QED BY <2>1, <2>2, <2>6, <3>2
  <2> QED BY <2>1, <2>3, <2>4, <2>5, <2>6 DEF Execs
<1> QED BY <1>2, <1>3

(* Running goroutines keep ClosedWhen. *)
LEMMA ClosedWhenRuns ==
    ASSUME StackInv, Known, ClosedWhen, NEW t \in Threads, Runs(t), Moved(t)
    PROVE  ClosedWhen'
<1>0. TypeOK /\ Shape /\ Len(stack[t]) > 0 /\ Len(stack[t]) \in Nat /\ Others(t)
    BY RunsLabel, TopIs, MovedOrigin DEF StackInv
<1>1. ASSUME NEW u \in Threads, u # t, Len(stack'[u]) > 0
      PROVE  /\ stack'[u][1].at \in {"check", "precheck", "build", "hooks", "register"} =>
                   closed'[stack'[u][1].m] # "closed"
             /\ stack'[u][1].at = "section" /\ ~ failed'[u] => closed'[stack'[u][1].m] # "closed"
             /\ stack'[u][1].at \in Releases /\ Len(stack'[u]) > 1 /\ stack'[u][2].at = "section" =>
                   failed'[u]
  <2>1. stack'[u] = stack[u] /\ failed'[u] = failed[u]
      BY <1>0, <1>1, FailedOthers DEF Others
  <2>2. stack[u][1].at \in Insts => closed'[stack[u][1].m] = closed[stack[u][1].m]
      BY <1>1, <2>1, InstClosedAlone
  <2> QED BY <1>1, <2>1, <2>2 DEF ClosedWhen, Insts
<1>2. ASSUME Len(stack'[t]) > 0
      PROVE  /\ stack'[t][1].at \in {"check", "precheck", "build", "hooks", "register"} =>
                   closed'[stack'[t][1].m] # "closed"
             /\ stack'[t][1].at = "section" /\ ~ failed'[t] => closed'[stack'[t][1].m] # "closed"
             /\ stack'[t][1].at \in Releases /\ Len(stack'[t]) > 1 /\ stack'[t][2].at = "section" =>
                   failed'[t]
  <2>1. CASE \E l \in Labels : <<stack[t][1].at, l>> \in Moves /\ Went(t, l)
    <3>1. PICK l \in Labels : <<stack[t][1].at, l>> \in Moves /\ Went(t, l)
        BY <2>1
    <3>2. /\ stack'[t][1].at = l /\ stack'[t][1].m = stack[t][1].m
          /\ Len(stack'[t]) = Len(stack[t])
          /\ Len(stack[t]) > 1 => stack'[t][2] = stack[t][2]
        BY <1>0, <3>1 DEF Went
    <3> QED BY <3>1, <3>2, ClosedWhenWent
  <2>2. CASE Popped(t)
    <3>1. Len(stack[t]) > 1 /\ stack'[t][1] = stack[t][2]
        BY <1>0, <1>2, <2>2 DEF Popped
    <3> QED BY <2>2, <3>1, ClosedWhenPopped
  <2>3. CASE \E l, r \in Labels, m \in Modules :
                <<stack[t][1].at, l, r>> \in Calls /\ Called(t, l, m, r)
    <3>1. stack'[t][1].at \in {"close", "begin", "closeStore"}
        BY <2>3, CallLabels DEF Called
    <3> QED BY <3>1 DEF Releases
  <2> QED BY <2>1, <2>2, <2>3 DEF Moved
<1> QED BY <1>1, <1>2 DEF ClosedWhen

(* Every step keeps ClosedWhen. *)
LEMMA ClosedWhenNext ==
    ASSUME StackInv, Known, ClosedWhen, [Next]_vars
    PROVE  ClosedWhen'
<1>0. TypeOK /\ Shape
    BY DEF StackInv
(* Goroutines whose stack and last error do not change. *)
<1>1. ASSUME NEW u \in Threads, stack'[u] = stack[u], failed' = failed,
             \A m \in Modules : closed'[m] = "closed" => closed[m] = "closed",
             Len(stack'[u]) > 0
      PROVE  /\ stack'[u][1].at \in {"check", "precheck", "build", "hooks", "register"} =>
                   closed'[stack'[u][1].m] # "closed"
             /\ stack'[u][1].at = "section" /\ ~ failed'[u] => closed'[stack'[u][1].m] # "closed"
             /\ stack'[u][1].at \in Releases /\ Len(stack'[u]) > 1 /\ stack'[u][2].at = "section" =>
                   failed'[u]
  <2>1. stack[u][1].at \in Insts => stack[u][1].m \in Modules
      BY <1>0, <1>1, TopModule DEF Insts, Closers
  <2> QED BY <1>1, <2>1 DEF ClosedWhen, Insts
<1>2. ASSUME NEW t \in Threads, InstantiateRegister(t), Registers(t) PROVE ClosedWhen'
  <2>1. /\ Others(t) /\ stack'[t][1].at = "started" /\ failed' = failed /\ closed' = closed
      BY <1>2 DEF Registers, Went, InstantiateRegister
  <2> QED BY <1>1, <2>1 DEF ClosedWhen, Others, Releases
<1>3. ASSUME NEW t \in Threads, Begun(t), failed' = failed, closed' = closed PROVE ClosedWhen'
  <2>1. Others(t)
      BY <1>3 DEF Begun, Pushed, PushedClose
  <2>2. ASSUME NEW m \in Modules, Pushed(t, "check", m), Untouched(m)
        PROVE  stack'[t][1].at = "check" /\ closed'[stack'[t][1].m] = "open"
    <3>1. stack'[t][1].at = "check" /\ stack'[t][1].m = m
        BY <2>2, PushedFrames
    <3> QED BY <1>3, <2>2, <3>1 DEF Untouched
  <2>3. ASSUME NEW m, NEW l \in {"begin", "snapshot"}, Pushed(t, l, m)
        PROVE  stack'[t][1].at \in {"begin", "snapshot"}
      BY <2>3, PushedFrames
  <2>4. ASSUME NEW m, PushedClose(t, m)
        PROVE  stack'[t][1].at = "close"
      BY <2>4 DEF PushedClose
  <2>5. \/ stack'[t][1].at = "check" /\ closed'[stack'[t][1].m] = "open"
        \/ stack'[t][1].at \in {"begin", "snapshot", "close"}
      BY <1>3, <2>2, <2>3, <2>4 DEF Begun
  <2> QED BY <1>1, <1>3, <2>1, <2>5 DEF ClosedWhen, Others, Releases
<1>4. ASSUME stack' = stack, failed' = failed,
             \A m \in Modules : closed'[m] = "closed" => closed[m] = "closed"
      PROVE  ClosedWhen'
    BY <1>1, <1>4 DEF ClosedWhen
<1>5. ASSUME NEW m \in Modules, AsyncSetExitCode(m) PROVE ClosedWhen'
  <2>1. \A x \in Modules : closed'[x] = "closed" => closed[x] = "closed"
      BY <1>0, <1>5 DEF AsyncSetExitCode, TypeOK
  <2> QED BY <1>4, <1>5, <2>1 DEF AsyncSetExitCode
<1>6. ASSUME NEW m \in Modules, AsyncDelete(m) PROVE ClosedWhen'
    BY <1>4, <1>6 DEF AsyncDelete
<1>7. ASSUME NEW t \in Threads, NEW m \in Modules, ContextDone(t, m) PROVE ClosedWhen'
    BY <1>4, <1>7 DEF ContextDone
<1>8. CASE UNCHANGED vars
    BY <1>4, <1>8 DEF vars
<1> QED BY <1>2, <1>3, <1>5, <1>6, <1>7, <1>8, ClosedWhenRuns, NextCases
    DEF StartCloseRuntime, StartInstantiate, StartCall, StartClose

(* The store's frame is of the one goroutine that closes it. *)
LEMMA CloseStoreFrame ==
    ASSUME StackInv, OneCloser, NEW t \in Threads, Len(stack[t]) > 0,
           stack[t][1].at = "closeStore"
    PROVE  IsCloser(t) /\ storeClosed
<1>0. TypeOK /\ ShapeOf(stack[t]) /\ Len(stack[t]) \in Nat /\ 1 \in 1 .. Len(stack[t])
    BY TopIs DEF StackInv, Shape
<1>1. Len(stack[t]) > 1
    BY <1>0 DEF ShapeOf
<1>2. Over(stack[t][1], stack[t][2])
    BY <1>0, <1>1 DEF ShapeOf
<1>3. stack[t][2].at = "each"
    BY <1>2 DEF Over, Execs, Releases, Chain
<1>4. Len(stack[t]) = 2
  <2>1. 2 \in 1 .. Len(stack[t])
      BY <1>0, <1>1
  <2> QED BY <1>0, <1>3, <2>1 DEF ShapeOf, Bottoms, Closers
<1>5. IsCloser(t) /\ Bottom(t).at = "each"
    BY <1>3, <1>4 DEF IsCloser, Bottom, Closers
<1> QED BY <1>5 DEF OneCloser

DeletedBy(t, m) == Len(stack[t]) > 0 /\ stack[t][1].at = "delete" /\ stack[t][1].m = m

StoreClosedBy(t, m) == Len(stack[t]) > 0 /\ stack[t][1].at = "closeStore" /\ stack[t][1].m = m

(* Others keep what they are about to delete. *)
LEMMA OthersTop ==
    ASSUME NEW t \in Threads, Others(t), NEW u \in Threads, u # t, NEW m
    PROVE  (DeletedBy(u, m)' <=> DeletedBy(u, m)) /\ (StoreClosedBy(u, m)' <=> StoreClosedBy(u, m))
<1>1. stack'[u] = stack[u]
    BY DEF Others
<1> QED BY <1>1 DEF DeletedBy, StoreClosedBy

(* Running goroutines keep NameHeld. *)
LEMMA NameHeldRuns ==
    ASSUME StackInv, OneCloser, NameHeld, NEW t \in Threads, Runs(t), Moved(t)
    PROVE  NameHeld'
<1>0. TypeOK /\ Shape /\ Len(stack[t]) > 0 /\ Dispatch(t) /\ Effects(t) /\ Others(t)
    BY RunsLabel, MovedOrigin DEF StackInv
<1> SUFFICES ASSUME NEW n \in Names, NEW m \in Modules, nameToModule'[n] = m, closed'[m] = "closed"
             PROVE  \E u \in Threads : DeletedBy(u, m)'
    BY DEF NameHeld, DeletedBy
<1>1. ASSUME nameToModule[n] = m, closed[m] = "closed", ~ DeletedBy(t, m)
      PROVE  \E u \in Threads : DeletedBy(u, m)'
  <2>1. PICK u \in Threads : DeletedBy(u, m)
      BY <1>1 DEF NameHeld, DeletedBy
  <2> QED BY <1>0, <1>1, <2>1, OthersTop
<1>2. CASE stack[t][1].at = "delete"
  <2>1. CloseDelete(t) /\ Top(t) = stack[t][1].m /\ closed' = closed
      BY <1>0, <1>2, TopIs DEF Dispatch, Effects
  <2>2. nameToModule'[n] = IF nameToModule[n] = Top(t) THEN NoModule ELSE nameToModule[n]
      BY <2>1 DEF CloseDelete, deleteModule
  <2>3. nameToModule[n] = m /\ m # Top(t)
      BY <2>2, StoreAssumption
  <2> QED BY <1>1, <2>1, <2>3 DEF DeletedBy
<1>3. CASE stack[t][1].at = "snapshot"
  <2>1. nameToModule'[n] = NoModule
      BY <1>0, <1>3 DEF Dispatch, StoreSnapshot, closeStore
  <2> QED BY <2>1, StoreAssumption
<1>4. CASE stack[t][1].at \in {"close", "closeStore"}
  <2>1. CloseSetExitCode(t) /\ nameToModule[n] = m /\ ~ DeletedBy(t, m)
      BY <1>0, <1>4 DEF Dispatch, Effects, storeVars, DeletedBy
  <2>2. CASE closed[m] = "closed"
      BY <1>1, <2>1, <2>2
  <2>3. CASE closed[m] # "closed"
    <3>1. /\ closed' # closed /\ closed' = [closed EXCEPT ![stack[t][1].m] = "closed"]
          /\ \/ stack[t][1].at = "close" /\ Went(t, "delete")
             \/ stack[t][1].at = "closeStore"
        BY <2>1, <2>3, SetExitCodeStep
    <3>2. m = stack[t][1].m
        BY <1>0, <2>3, <3>1 DEF TypeOK
    <3>3. stack[t][1].at # "closeStore"
      <4>1. stack[t][1].at = "closeStore" => nameToModule[n] = NoModule
          BY <1>0, CloseStoreFrame DEF OneCloser
      <4> QED BY <2>1, <4>1, StoreAssumption
    <3>4. DeletedBy(t, m)'
        BY <1>0, <3>1, <3>2, <3>3 DEF Went, DeletedBy
    <3> QED BY <3>4
  <2> QED BY <2>2, <2>3
<1>5. CASE stack[t][1].at \notin {"delete", "snapshot", "close", "closeStore"}
  <2>1. nameToModule[n] = m /\ closed[m] = "closed"
      BY <1>0, <1>5 DEF Effects, storeVars
  <2> QED BY <1>1, <1>5, <2>1 DEF DeletedBy
<1> QED BY <1>2, <1>3, <1>4, <1>5

(* Every step keeps NameHeld. *)
LEMMA NameHeldNext ==
    ASSUME StackInv, OneCloser, ClosedWhen, NameHeld, [Next]_vars
    PROVE  NameHeld'
<1>0. TypeOK /\ Shape
    BY DEF StackInv
<1>1. ASSUME NEW t \in Threads, Others(t), \A m : ~ DeletedBy(t, m),
             nameToModule' = nameToModule, closed' = closed
      PROVE  NameHeld'
  <2> SUFFICES ASSUME NEW n \in Names, NEW m \in Modules, nameToModule'[n] = m, closed'[m] = "closed"
               PROVE  \E u \in Threads : DeletedBy(u, m)'
      BY DEF NameHeld, DeletedBy
  <2>1. PICK u \in Threads : DeletedBy(u, m)
      BY <1>1 DEF NameHeld, DeletedBy
  <2> QED BY <1>1, <2>1, OthersTop
<1>2. ASSUME NEW t \in Threads, InstantiateRegister(t), Registrable(Top(t)), Registers(t)
      PROVE  NameHeld'
  <2>1. Others(t) /\ Len(stack[t]) > 0 /\ stack[t][1].at = "register" /\ Top(t) = stack[t][1].m
      BY <1>0, <1>2, TopIs DEF Registers, Went
  <2>2. /\ closed[Top(t)] # "closed" /\ closed' = closed
        /\ \A n \in Names : nameToModule'[n] = IF n = NameOf[Top(t)] THEN Top(t) ELSE nameToModule[n]
      BY <1>2, <2>1 DEF ClosedWhen, InstantiateRegister, registerModule
  <2> SUFFICES ASSUME NEW n \in Names, NEW m \in Modules, nameToModule'[n] = m, closed'[m] = "closed"
               PROVE  \E u \in Threads : DeletedBy(u, m)'
      BY DEF NameHeld, DeletedBy
  <2>3. nameToModule[n] = m /\ closed[m] = "closed"
      BY <2>2
  <2>4. PICK u \in Threads : DeletedBy(u, m)
      BY <2>3 DEF NameHeld, DeletedBy
  <2>5. u # t
      BY <2>1, <2>4 DEF DeletedBy
  <2> QED BY <2>1, <2>4, <2>5, OthersTop
<1>3. ASSUME NEW t \in Threads, Begun(t), nameToModule' = nameToModule, closed' = closed
      PROVE  NameHeld'
  <2>1. Others(t) /\ Len(stack[t]) = 0
      BY <1>3 DEF Begun, Pushed, PushedClose
  <2> QED BY <1>1, <1>3, <2>1 DEF DeletedBy
<1>4. ASSUME stack' = stack,
             \A m \in Modules : closed'[m] = "closed" => closed[m] = "closed",
             \A n \in Names, m \in Modules : nameToModule'[n] = m => nameToModule[n] = m
      PROVE  NameHeld'
    BY <1>4 DEF NameHeld
<1>5. ASSUME NEW m \in Modules, AsyncSetExitCode(m) PROVE NameHeld'
  <2>1. \A x \in Modules : closed'[x] = "closed" => closed[x] = "closed"
      BY <1>0, <1>5 DEF AsyncSetExitCode, TypeOK
  <2> QED BY <1>4, <1>5, <2>1 DEF AsyncSetExitCode, storeVars
<1>6. ASSUME NEW m \in Modules, AsyncDelete(m) PROVE NameHeld'
  <2>1. \A n \in Names, x \in Modules : nameToModule'[n] = x => nameToModule[n] = x
      BY <1>6, StoreAssumption DEF AsyncDelete, deleteModule
  <2> QED BY <1>4, <1>6, <2>1 DEF AsyncDelete
<1>7. ASSUME NEW t \in Threads, NEW m \in Modules, ContextDone(t, m) PROVE NameHeld'
    BY <1>4, <1>7 DEF ContextDone, storeVars
<1>8. CASE UNCHANGED vars
    BY <1>4, <1>8 DEF vars, storeVars
<1> QED BY <1>2, <1>3, <1>5, <1>6, <1>7, <1>8, NameHeldRuns, NextCases
    DEF StartCloseRuntime, StartInstantiate, StartCall, StartClose, storeVars

(* Running goroutines keep OpenListed. *)
LEMMA OpenListedRuns ==
    ASSUME StackInv, ClosedTop, OneCloser, OpenListed, NEW t \in Threads, Runs(t), Moved(t),
           \A m \in Modules : closed[m] # "open" => closed'[m] = closed[m]
    PROVE  OpenListed'
<1>0. /\ TypeOK /\ Shape /\ Len(stack[t]) > 0 /\ Dispatch(t) /\ Effects(t) /\ Others(t)
    BY RunsLabel, MovedOrigin DEF StackInv
<1>r. registered' = registered /\ registered \subseteq Modules
    BY <1>0 DEF Effects, TypeOK
<1> SUFFICES ASSUME NEW m \in registered, closed'[m] = "open"
             PROVE  \/ Occurs(m, moduleList') \/ Occurs(m, closing')
                    \/ \E u \in Threads : StoreClosedBy(u, m)'
    BY <1>r DEF OpenListed, Listed, StoreClosedBy
<1>1. m \in Modules /\ closed[m] = "open"
    BY <1>0, <1>r DEF TypeOK
<1>2. \/ Occurs(m, moduleList) \/ Occurs(m, closing)
      \/ \E u \in Threads : StoreClosedBy(u, m)
    BY <1>1 DEF OpenListed, Listed, StoreClosedBy
<1>3. ASSUME NEW u \in Threads, StoreClosedBy(u, m) PROVE StoreClosedBy(u, m)'
  <2>1. u # t
    <3>1. ASSUME StoreClosedBy(t, m) PROVE FALSE
      <4>1. CloseSetExitCode(t) /\ stack[t][1].m = m
          BY <1>0, <3>1 DEF StoreClosedBy, Dispatch
      <4>2. closed'[m] = "closed"
          BY <1>1, <4>1, SetExitCodeStep
      <4> QED BY <4>2
    <3> QED BY <1>3, <3>1
  <2> QED BY <1>0, <1>3, <2>1, OthersTop
<1>4. Occurs(m, moduleList) => Occurs(m, moduleList') \/ Occurs(m, closing')
  <2>1. CASE stack[t][1].at = "delete"
    <3>1. CloseDelete(t) /\ Top(t) = stack[t][1].m /\ closed[stack[t][1].m] # "open"
        BY <1>0, <2>1, TopIs DEF Dispatch, ClosedTop, Chain
    <3>2. moduleList' = RemoveFirst(moduleList, Top(t)) /\ moduleList \in Seq(Modules) /\ Top(t) # m
        BY <1>0, <1>1, <3>1 DEF CloseDelete, deleteModule, TypeOK, StoreTypeOK
    <3> QED BY <3>2, RemoveFirstOccurs
  <2>2. CASE stack[t][1].at = "snapshot"
    <3>1. closing' = moduleList
        BY <1>0, <2>2 DEF Dispatch, StoreSnapshot
    <3> QED BY <3>1
  <2>3. CASE moduleList' = moduleList
      BY <2>3
  <2> QED BY <1>0, <2>1, <2>2, <2>3 DEF Effects, storeVars
<1>5. Occurs(m, closing) => Occurs(m, closing') \/ \E u \in Threads : StoreClosedBy(u, m)'
  <2>1. CASE stack[t][1].at = "snapshot"
    <3>1. Len(stack[t]) = 1
        BY <1>0, <2>1, RegisterAlone DEF Bottoms, Closers
    <3>2. IsCloser(t) /\ Bottom(t).at = "snapshot"
        BY <2>1, <3>1 DEF IsCloser, Bottom, Closers
    <3>3. closing = <<>>
        BY <3>2 DEF OneCloser
    <3> QED BY <3>3 DEF Occurs
  <2>2. CASE closing' = closing
      BY <2>2
  <2>3. CASE StoreCloseEach(t)
    <3>1. /\ closing' = Tail(closing) /\ closing # <<>> /\ closing \in Seq(Modules)
          /\ Call(t, "closeStore", Head(closing), "each") /\ Head(closing) = closing[1]
          /\ closing[1] \in Modules
        BY <1>0, <2>3 DEF StoreCloseEach, TypeOK
    <3>2. Len(closing') = Len(closing) - 1 /\ Len(closing) \in Nat
          /\ \A i \in 1 .. Len(closing) - 1 : closing'[i] = closing[i + 1]
        BY <3>1
    <3>3. ASSUME NEW i \in 2 .. Len(closing)
          PROVE  i - 1 \in 1 .. Len(closing') /\ closing'[i - 1] = closing[i]
        BY <3>2
    <3>4. Called(t, "closeStore", closing[1], "each")
      <4>1. "closeStore" \in Labels /\ "each" \in Labels
          BY DEF Labels
      <4> QED BY <1>0, <3>1, <4>1, CallFrames
    <3>5. closing[1] = m => StoreClosedBy(t, m)'
      <4>1. Len(stack[t]) \in Nat
          BY <1>0, TopIs
      <4> QED BY <1>0, <3>4, <4>1 DEF Called, StoreClosedBy
    <3>6. ASSUME NEW i \in 1 .. Len(closing), closing[i] = m, i # 1 PROVE Occurs(m, closing')
      <4>1. i \in 2 .. Len(closing)
          BY <3>2, <3>6
      <4> QED BY <3>3, <3>6, <4>1 DEF Occurs
    <3> QED BY <3>5, <3>6 DEF Occurs
  <2>4. CASE StoreCloseDone(t)
      BY <2>4 DEF StoreCloseDone
  <2> QED BY <1>0, <2>1, <2>2, <2>3, <2>4 DEF Effects, Dispatch
<1> QED BY <1>2, <1>3, <1>4, <1>5

(* Every step keeps OpenListed. *)
LEMMA OpenListedNext ==
    ASSUME StackInv, ClosedTop, OneCloser, OpenListed, [Next]_vars
    PROVE  OpenListed'
<1>0. TypeOK /\ Shape /\ registered \subseteq Modules
    BY DEF StackInv, TypeOK
<1>c. \A m \in Modules : closed[m] # "open" => closed'[m] = closed[m]
    BY ClosedStays
<1>1. ASSUME NEW t \in Threads, Others(t), \A m : ~ StoreClosedBy(t, m),
             \A m \in Modules : Occurs(m, moduleList) => Occurs(m, moduleList'),
             closing' = closing, NEW m \in registered, closed[m] = "open"
      PROVE  \/ Occurs(m, moduleList') \/ Occurs(m, closing')
             \/ \E u \in Threads : StoreClosedBy(u, m)'
  <2>1. \/ Occurs(m, moduleList) \/ Occurs(m, closing)
        \/ \E u \in Threads : StoreClosedBy(u, m)
      BY <1>1 DEF OpenListed, Listed, StoreClosedBy
  <2> QED BY <1>0, <1>1, <2>1, OthersTop
<1>2. ASSUME NEW t \in Threads, InstantiateRegister(t), Registrable(Top(t)), Registers(t)
      PROVE  OpenListed'
  <2>1. PICK x \in Modules : x = Top(t) /\ x = stack[t][1].m
      BY <1>0, <1>2, TopModule DEF Registers, Closers
  <2>2. /\ Others(t) /\ Len(stack[t]) > 0 /\ stack[t][1].at = "register"
        /\ registered' = registered \cup {x} /\ moduleList' = <<x>> \o moduleList
        /\ closing' = closing /\ closed' = closed
      BY <1>2, <2>1 DEF Registers, Went, InstantiateRegister, registerModule
  <2>3. Occurs(x, moduleList') /\ \A m \in Modules : Occurs(m, moduleList) => Occurs(m, moduleList')
    <3>1. moduleList \in Seq(Modules) /\ Len(moduleList) \in Nat
        BY <1>0 DEF TypeOK, StoreTypeOK
    <3>2. /\ Len(moduleList') = Len(moduleList) + 1 /\ moduleList'[1] = x
          /\ \A i \in 1 .. Len(moduleList) : moduleList'[i + 1] = moduleList[i]
        BY <2>1, <2>2, <3>1
    <3>3. \A i \in 1 .. Len(moduleList) : i + 1 \in 1 .. Len(moduleList')
        BY <3>1, <3>2
    <3>4. 1 \in 1 .. Len(moduleList')
        BY <3>1, <3>2
    <3> QED BY <3>2, <3>3, <3>4 DEF Occurs
  <2>4. \A m : ~ StoreClosedBy(t, m)
      BY <2>2 DEF StoreClosedBy
  <2> SUFFICES ASSUME NEW m \in registered', closed'[m] = "open"
               PROVE  \/ Occurs(m, moduleList') \/ Occurs(m, closing')
                      \/ \E u \in Threads : StoreClosedBy(u, m)'
      BY DEF OpenListed, Listed, StoreClosedBy
  <2>5. CASE m = x
      BY <2>3, <2>5
  <2>6. CASE m # x
      BY <1>1, <2>2, <2>3, <2>4, <2>6
  <2> QED BY <2>5, <2>6
<1>3. ASSUME NEW t \in Threads, Begun(t), UNCHANGED <<moduleList, closing, registered, closed>>
      PROVE  OpenListed'
  <2>1. Others(t) /\ Len(stack[t]) = 0
      BY <1>3 DEF Begun, Pushed, PushedClose
  <2> SUFFICES ASSUME NEW m \in registered, closed[m] = "open"
               PROVE  \/ Occurs(m, moduleList') \/ Occurs(m, closing')
                      \/ \E u \in Threads : StoreClosedBy(u, m)'
      BY <1>3 DEF OpenListed, Listed, StoreClosedBy
  <2>2. \A x : ~ StoreClosedBy(t, x)
      BY <2>1 DEF StoreClosedBy
  <2> QED BY <1>1, <1>3, <2>1, <2>2
<1>4. ASSUME stack' = stack, closing' = closing, registered' = registered,
             \A m \in Modules : closed[m] = "open" /\ Occurs(m, moduleList) => Occurs(m, moduleList')
      PROVE  OpenListed'
  <2>1. \A m \in registered : closed'[m] = "open" => closed[m] = "open"
      BY <1>0, <1>c DEF TypeOK
  <2> QED BY <1>0, <1>4, <2>1 DEF OpenListed, Listed
<1>5. ASSUME NEW m \in Modules, AsyncSetExitCode(m) PROVE OpenListed'
    BY <1>4, <1>5 DEF AsyncSetExitCode, storeVars, histVars
<1>6. ASSUME NEW m \in Modules, AsyncDelete(m) PROVE OpenListed'
  <2>1. moduleList' = RemoveFirst(moduleList, m) /\ moduleList \in Seq(Modules) /\ closed[m] # "open"
      BY <1>0, <1>6 DEF AsyncDelete, deleteModule, TypeOK, StoreTypeOK, ClosedTop
  <2>2. \A x \in Modules : closed[x] = "open" /\ Occurs(x, moduleList) => Occurs(x, moduleList')
      BY <2>1, RemoveFirstOccurs
  <2> QED BY <1>4, <1>6, <2>2 DEF AsyncDelete, histVars
<1>7. ASSUME NEW t \in Threads, NEW m \in Modules, ContextDone(t, m) PROVE OpenListed'
    BY <1>4, <1>7 DEF ContextDone, storeVars, histVars
<1>8. CASE UNCHANGED vars
    BY <1>4, <1>8 DEF vars, storeVars, histVars
<1>9. ASSUME NEW t \in Threads, Begun(t), StartCloseRuntime(t) PROVE OpenListed'
    BY <1>3, <1>9 DEF StartCloseRuntime, storeVars, histVars
<1>10. ASSUME NEW t \in Threads, NEW m \in Modules, Begun(t),
              StartInstantiate(t, m) \/ StartCall(t, m) \/ StartClose(t, m)
       PROVE  OpenListed'
    BY <1>3, <1>10 DEF StartInstantiate, StartCall, StartClose, storeVars, histVars
<1> QED BY <1>c, <1>2, <1>5, <1>6, <1>7, <1>8, <1>9, <1>10, OpenListedRuns, NextCases

CloseInv == KnownInv /\ ClosedWhen /\ NameHeld /\ OpenListed

(* KnownInv, and what the store does of the modules that are closed.       *)
THEOREM CloseInvariance == Spec => []CloseInv
<1>1. Init => CloseInv
  <2> SUFFICES ASSUME Init PROVE CloseInv
      OBVIOUS
  <2>1. KnownInv /\ \A t \in Threads : Len(stack[t]) = 0
      BY KnownInit DEF Init
  <2>2. ClosedWhen
      BY <2>1 DEF ClosedWhen
  <2>3. NameHeld
      BY StoreAssumption DEF Init, StoreInit, NameHeld
  <2>4. OpenListed
      BY DEF Init, OpenListed
  <2> QED BY <2>1, <2>2, <2>3, <2>4 DEF CloseInv
<1>2. CloseInv /\ [Next]_vars => CloseInv'
    BY StackNext, ClosedTopNext, OneCloserNext, KnownNext, ClosedWhenNext, NameHeldNext,
       OpenListedNext DEF CloseInv, KnownInv
<1> QED BY <1>1, <1>2, PTL DEF Spec

(* Whatever interleaving of instantiations and closes: a module the store  *)
(* has accepted and that is open is where Store.CloseWithExitCode will     *)
(* find it.                                                                *)
THEOREM OpenModulesListed == Spec => []OpenIsListed
<1>1. CloseInv => OpenIsListed
  <2> SUFFICES ASSUME CloseInv, NEW m \in registered, closed[m] = "open"
               PROVE  \/ \E i \in DOMAIN moduleList : moduleList[i] = m
                      \/ \E i \in DOMAIN closing : closing[i] = m
                      \/ \E t \in Threads : At(t, "closeStore") /\ Top(t) = m
      BY DEF OpenIsListed
  <2>0. TypeOK
      BY DEF CloseInv, KnownInv, StackInv
  <2>1. /\ DOMAIN moduleList = 1 .. Len(moduleList) /\ DOMAIN closing = 1 .. Len(closing)
      BY <2>0 DEF TypeOK, StoreTypeOK
  <2>2. Listed(m)
      BY DEF CloseInv, OpenListed
  <2> QED BY <2>0, <2>1, <2>2, TopIs DEF Listed, Occurs
<1> QED BY <1>1, CloseInvariance, PTL

(* Closing the runtime leaves no module of it open, even one that was      *)
(* being instantiated meanwhile.                                           *)
THEOREM RuntimeLeavesNone == Spec => []RuntimeClosesAll
<1>1. CloseInv => RuntimeClosesAll
  <2> SUFFICES ASSUME CloseInv, runtimeDone, NEW m \in visible \cup registered
               PROVE  closed[m] # "open"
      BY DEF RuntimeClosesAll
  <2>0. StackInv /\ OneCloser /\ Known /\ OpenListed
      BY DEF CloseInv, KnownInv
  <2>1. m \in registered
      BY <2>0 DEF Known
  <2>2. moduleList = <<>> /\ closing = <<>> /\ \A t \in Threads : ~ IsCloser(t)
      BY <2>0 DEF OneCloser
  <2>3. ~ Occurs(m, moduleList) /\ ~ Occurs(m, closing)
      BY <2>2 DEF Occurs
  <2>4. \A t \in Threads : ~ (Len(stack[t]) > 0 /\ stack[t][1].at = "closeStore")
      BY <2>0, <2>2, CloseStoreFrame
  <2> QED BY <2>0, <2>1, <2>3, <2>4 DEF OpenListed, Listed
<1> QED BY <1>1, CloseInvariance, PTL

(* Once nothing runs, no closed module holds a name: Close frees it,       *)
(* whoever closes and whenever.                                            *)
THEOREM ClosedNamesFreed == Spec => []NameFreed
<1>1. CloseInv => NameFreed
  <2> SUFFICES ASSUME CloseInv, Quiet, NEW n \in Names, nameToModule[n] # NoModule,
                      closed[nameToModule[n]] = "closed"
               PROVE  FALSE
      BY DEF NameFreed
  <2>0. TypeOK /\ NameHeld
      BY DEF CloseInv, KnownInv, StackInv
  <2>1. nameToModule[n] \in Modules
      BY <2>0 DEF TypeOK, StoreTypeOK
  <2>2. \E t \in Threads : Len(stack[t]) > 0
      BY <2>0, <2>1 DEF NameHeld
  <2> QED BY <2>2 DEF Quiet
<1> QED BY <1>1, CloseInvariance, PTL

(* A registered module keeps its name until it is closed or the store is:  *)
(* no deletion of a duplicate and no registration takes it away.           *)
THEOREM NamesKept == Spec => NameKept
<1> DEFINE P == \A n \in Names :
                  nameToModule[n] # NoModule /\ nameToModule'[n] # nameToModule[n] =>
                      closed[nameToModule[n]] # "open" \/ storeClosed'
<1>1. KnownInv /\ [Next]_vars => [P]_vars
  <2> SUFFICES ASSUME KnownInv, [Next]_vars, NEW n \in Names,
                      nameToModule[n] # NoModule, nameToModule'[n] # nameToModule[n]
               PROVE  closed[nameToModule[n]] # "open" \/ storeClosed'
      OBVIOUS
  <2>0. StackInv /\ TypeOK /\ ClosedTop
      BY DEF KnownInv, StackInv
  <2>1. ASSUME NEW t \in Threads, Runs(t)
        PROVE  closed[nameToModule[n]] # "open" \/ storeClosed'
    <3>0. Len(stack[t]) > 0 /\ Dispatch(t) /\ Effects(t) /\ Top(t) = stack[t][1].m
        BY <2>0, <2>1, RunsLabel, TopIs
    <3>1. CASE stack[t][1].at = "delete"
      <4>1. deleteModule(Top(t))
          BY <3>0, <3>1 DEF Dispatch, CloseDelete
      <4>2. nameToModule[n] = Top(t)
          BY <4>1 DEF deleteModule
      <4> QED BY <2>0, <3>0, <3>1, <4>2 DEF ClosedTop, Chain
    <3>2. CASE stack[t][1].at = "snapshot"
        BY <3>0, <3>2 DEF Dispatch, StoreSnapshot, closeStore
    <3> QED BY <3>0, <3>1, <3>2 DEF Effects, storeVars
  <2>2. ASSUME NEW t \in Threads, InstantiateRegister(t), Registrable(Top(t)), Registers(t)
        PROVE  FALSE
    <3>1. nameToModule'[n] = IF n = NameOf[Top(t)] THEN Top(t) ELSE nameToModule[n]
        BY <2>2 DEF InstantiateRegister, registerModule
    <3> QED BY <2>2, <3>1, StoreAssumption DEF Registrable, NameFree
  <2>3. ASSUME NEW m \in Modules, AsyncDelete(m)
        PROVE  closed[nameToModule[n]] # "open"
      BY <2>0, <2>3 DEF AsyncDelete, deleteModule, ClosedTop
  <2> QED BY <2>0, <2>1, <2>2, <2>3, NextCases
      DEF StartCloseRuntime, StartInstantiate, StartCall, StartClose, ContextDone,
          AsyncSetExitCode, storeVars, vars
<1> QED BY <1>1, KnownInvariance, PTL DEF Spec, NameKept
----------------------------------------------------------------------------
(* What is held and what is released.                                      *)

Before == {"check", "precheck", "build", "hooks", "register"}

(* A module that is open holds everything from its registration on; before *)
(* that, it is being instantiated, or given up.                            *)
OpenOf(m) ==
    closed[m] = "open" =>
        /\ notified[m] = 0
        /\ m \in registered => resources[m] = Resources
        /\ m \notin registered =>
              \/ \E t \in Threads : InInst(t, m)
              \/ resources[m] = {}
              \/ runtimeClosed /\ resources[m] = {"code"}

OpenWhole == \A m \in Modules : OpenOf(m)

(* What an instantiation holds at each of its steps. *)
HoldsAt(l, R) ==
    /\ l = "check" => R = {"code"}
    /\ l \in {"precheck", "build"} => R = {"code", "sys"}
    /\ l \in {"hooks", "section"} => R = {"code", "sys", "memory"}
    /\ l = "register" => R = Resources

(* While the start section runs only a module that is open holds that: a   *)
(* host function may close it meanwhile.                                   *)
HoldsOf(t) ==
    Len(stack[t]) > 0 =>
        /\ \/ Bottom(t).at \in Before
           \/ Bottom(t).at = "section" /\ Len(stack[t]) = 1 /\ ~ failed[t]
           => HoldsAt(Bottom(t).at, resources[Bottom(t).m]) /\ notified[Bottom(t).m] = 0
        /\ Bottom(t).at = "section" /\ closed[Bottom(t).m] = "open" =>
              HoldsAt("section", resources[Bottom(t).m])
        /\ Bottom(t).at = "abort" /\ Len(stack[t]) = 1 /\ closed[Bottom(t).m] = "open" =>
              resources[Bottom(t).m] \subseteq {"sys", "code"}

InstHolds == \A t \in Threads : HoldsOf(t)

InChain(t, m) == Len(stack[t]) > 0 /\ stack[t][1].at \in Chain /\ stack[t][1].m = m

(* What is released already when the release of m is at l. *)
Released(l, m) ==
    /\ m \in registered =>
          /\ {"code", "codeCloser"} \subseteq resources[m]
          /\ l \in {"delete", "notify"} => "notifier" \in resources[m] /\ notified[m] = 0
          /\ l \notin {"delete", "notify"} => notified[m] = 1
    /\ l \in {"sys", "retire", "code"} => "notifier" \notin resources[m]
    /\ l \in {"retire", "code"} => "sys" \notin resources[m]
    /\ l = "code" => "memory" \notin resources[m]

(* One goroutine releases a closed module, and releases all of it. *)
ReleasesOf(m) ==
    closed[m] = "closed" =>
        /\ \A t, u \in Threads : InChain(t, m) /\ InChain(u, m) => t = u
        /\ \A t \in Threads : InChain(t, m) => Released(stack[t][1].at, m)
        /\ (\A t \in Threads : ~ InChain(t, m)) =>
              /\ resources[m] \subseteq {"code"}
              /\ m \in registered => resources[m] = {} /\ notified[m] = 1
              /\ resources[m] # {} => \E t \in Threads : InInst(t, m)

ClosedReleases == \A m \in Modules : ReleasesOf(m)

(* How the resources of the running frame's module change. *)
Held(t, R, S) ==
    LET l == stack[t][1].at IN
    /\ l = "forget" => S = R \ {"notifier"}
    /\ l = "sys" => S = R \ {"sys"}
    /\ l = "retire" => S = R \ {"memory"}
    /\ l = "code" => S = IF "codeCloser" \in R THEN R \ {"code", "codeCloser"} ELSE R
    /\ l = "build" => S = R \cup {"memory"}
    /\ l = "hooks" => S = R \cup {"notifier", "codeCloser"}
    /\ l = "abort" => S = R \ {"sys", "code"}
    /\ l = "drop" => S = R \ {"sys"}
    /\ l = "check" => S = R \/ S = R \cup {"sys"}
    /\ l \notin {"forget", "sys", "retire", "code", "check", "build", "hooks",
                 "abort", "drop"} => S = R

(* What a running goroutine does to the resources of the module on top,    *)
(* and to no other.                                                        *)
LEMMA HeldStep ==
    ASSUME StackInv, NEW t \in Threads, Runs(t), NEW m \in Modules, m = stack[t][1].m
    PROVE  /\ Held(t, resources[m], resources'[m])
           /\ stack[t][1].at # "notify" => notified'[m] = notified[m]
           /\ stack[t][1].at = "notify" =>
                 \/ "notifier" \in resources[m] /\ notified'[m] = notified[m] + 1 /\ Went(t, "forget")
                 \/ "notifier" \notin resources[m] /\ notified'[m] = notified[m] /\ Went(t, "sys")
           /\ stack[t][1].at = "check" =>
                 \/ runtimeClosed /\ resources' = resources /\ Popped(t)
                 \/ resources'[m] = resources[m] \cup {"sys"} /\ Went(t, "precheck")
           /\ \A x \in Modules : x # m => resources'[x] = resources[x] /\ notified'[x] = notified[x]
<1>0. TypeOK /\ Len(stack[t]) > 0 /\ Dispatch(t) /\ Effects(t) /\ Top(t) = m
    BY RunsLabel, TopIs DEF StackInv
<1>t. resources \in [Modules -> SUBSET Resources] /\ notified \in [Modules -> Nat]
    BY <1>0 DEF TypeOK
<1>l. {"forget", "sys", "precheck"} \subseteq Labels
    BY DEF Labels
<1>1. CASE stack[t][1].at = "notify"
  <2>0. EnsureNotify(t) /\ resources' = resources
      BY <1>0, <1>1 DEF Dispatch, Effects
  <2>1. CASE "notifier" \in resources[m]
    <3>1. notified' = [notified EXCEPT ![m] = notified[m] + 1] /\ Goto(t, "forget")
        BY <1>0, <2>0, <2>1 DEF EnsureNotify
    <3>2. Went(t, "forget")
        BY <1>0, <1>l, <3>1, GotoFrames
    <3> QED BY <1>1, <1>t, <2>0, <2>1, <3>1, <3>2 DEF Held
  <2>2. CASE "notifier" \notin resources[m]
    <3>1. notified' = notified /\ Goto(t, "sys")
        BY <1>0, <2>0, <2>2 DEF EnsureNotify
    <3>2. Went(t, "sys")
        BY <1>0, <1>l, <3>1, GotoFrames
    <3> QED BY <1>1, <2>0, <2>2, <3>1, <3>2 DEF Held
  <2> QED BY <2>1, <2>2
<1>2. CASE stack[t][1].at = "check"
  <2>0. InstantiateCheck(t) /\ notified' = notified
      BY <1>0, <1>2 DEF Dispatch, Effects
  <2>1. CASE runtimeClosed
    <3>1. Return(t) /\ resources' = resources
        BY <2>0, <2>1 DEF InstantiateCheck
    <3>2. Popped(t)
        BY <1>0, <3>1, ReturnFrames
    <3> QED BY <1>2, <2>0, <2>1, <3>1, <3>2 DEF Held
  <2>2. CASE ~ runtimeClosed
    <3>1. resources' = [resources EXCEPT ![m] = resources[m] \cup {"sys"}] /\ Goto(t, "precheck")
        BY <1>0, <2>0, <2>2 DEF InstantiateCheck
    <3>2. Went(t, "precheck")
        BY <1>0, <1>l, <3>1, GotoFrames
    <3>3. resources'[m] = resources[m] \cup {"sys"} /\ \A x \in Modules : x # m => resources'[x] = resources[x]
        BY <1>t, <3>1
    <3> QED BY <1>2, <2>0, <3>2, <3>3 DEF Held
  <2> QED BY <2>1, <2>2
<1>3. CASE stack[t][1].at \notin {"notify", "check"}
  <2>1. notified' = notified
      BY <1>0, <1>3 DEF Effects
  <2>2. /\ Held(t, resources[m], resources'[m])
        /\ \A x \in Modules : x # m => resources'[x] = resources[x]
    <3>1. CASE stack[t][1].at = "forget"
        BY <1>0, <1>t, <3>1 DEF Dispatch, EnsureForget, Release, Held
    <3>2. CASE stack[t][1].at = "sys"
        BY <1>0, <1>t, <3>2 DEF Dispatch, EnsureSys, Release, Held
    <3>3. CASE stack[t][1].at = "retire"
        BY <1>0, <1>t, <3>3 DEF Dispatch, EnsureRetire, Release, Held
    <3>4. CASE stack[t][1].at = "code"
        BY <1>0, <1>t, <3>4 DEF Dispatch, EnsureCode, Held
    <3>5. CASE stack[t][1].at = "build"
        BY <1>0, <1>t, <3>5 DEF Dispatch, InstantiateBuild, Held
    <3>6. CASE stack[t][1].at = "hooks"
        BY <1>0, <1>t, <3>6 DEF Dispatch, InstantiateHooks, Held
    <3>7. CASE stack[t][1].at = "abort"
        BY <1>0, <1>t, <3>7 DEF Dispatch, InstantiateAbort, Held
    <3>8. CASE stack[t][1].at = "drop"
        BY <1>0, <1>t, <3>8 DEF Dispatch, InstantiateDrop, Release, Held
    <3>9. CASE resources' = resources /\ stack[t][1].at \notin {"forget", "sys", "retire", "code",
                   "check", "build", "hooks", "abort", "drop"}
        BY <3>9 DEF Held
    <3> QED BY <1>0, <1>3, <3>1, <3>2, <3>3, <3>4, <3>5, <3>6, <3>7, <3>8, <3>9 DEF Effects
  <2> QED BY <1>3, <2>1, <2>2
<1> QED BY <1>1, <1>2, <1>3

(* The closer of the runtime itself holds no module. *)
LEMMA HeldByCloser ==
    ASSUME StackInv, NEW t \in Threads, Runs(t), stack[t][1].m \notin Modules
    PROVE  resources' = resources /\ notified' = notified
<1>0. TypeOK /\ Shape /\ Len(stack[t]) > 0 /\ Effects(t)
    BY RunsLabel DEF StackInv
<1>1. stack[t][1].at \in Closers
    BY <1>0, TopModule
<1> QED BY <1>0, <1>1 DEF Effects, Closers

(* Only the running frame's module is touched. *)
LEMMA HeldOthers ==
    ASSUME StackInv, NEW t \in Threads, Runs(t), NEW x \in Modules, x # stack[t][1].m
    PROVE  resources'[x] = resources[x] /\ notified'[x] = notified[x]
<1>1. CASE stack[t][1].m \in Modules
    BY <1>1, HeldStep
<1>2. CASE stack[t][1].m \notin Modules
    BY <1>2, HeldByCloser
<1> QED BY <1>1, <1>2

(* An instantiation touches nothing of what another goroutine instantiates. *)
LEMMA InstApart ==
    ASSUME StackInv, Known, NEW t \in Threads, Len(stack[t]) > 0, NEW u \in Threads, u # t,
           NEW x \in Modules, InInst(u, x)
    PROVE  stack[t][1].m # x /\ x \notin registered
<1>0. TypeOK /\ 1 \in 1 .. Len(stack[t])
    BY TopIs DEF StackInv
<1>1. x \notin registered
    BY <1>0, BottomFrame DEF InInst, Known, KnownFrames
<1>2. stack[t][1].m = x => InInst(t, x)
    BY <1>0, <1>1 DEF Known, KnownFrames, InInst
<1> QED BY <1>1, <1>2 DEF Known

(* A frame of an instantiation at the top is its only one. *)
LEMMA InstTop ==
    ASSUME StackInv, Known, NEW t \in Threads, Len(stack[t]) > 0, stack[t][1].at \in Insts
    PROVE  /\ Len(stack[t]) = 1 /\ Bottom(t) = stack[t][1] /\ stack[t][1].m \in Modules
           /\ InInst(t, stack[t][1].m) /\ stack[t][1].m \notin registered
<1>0. TypeOK /\ Shape
    BY DEF StackInv
<1>1. Len(stack[t]) = 1
    BY <1>0, RegisterAlone DEF Bottoms
<1>2. stack[t][1].m \in Modules
    BY <1>0, TopModule DEF Insts, Closers
<1> QED BY <1>1, <1>2 DEF Bottom, InInst, Known, KnownFrames

(* An instantiation ends by aborting, or as the runtime was closed already. *)
LEMMA InstReturns ==
    ASSUME StackInv, Known, NEW t \in Threads, Runs(t), Len(stack[t]) > 0, Popped(t),
           stack[t][1].at \in Insts
    PROVE  \/ stack[t][1].at = "abort"
           \/ stack[t][1].at = "check" /\ runtimeClosed /\ resources' = resources
<1>0. /\ TypeOK /\ Dispatch(t) /\ Len(stack[t]) \in Nat /\ stack[t][1].m \in Modules
      /\ Top(t) = stack[t][1].m /\ Len(stack'[t]) = Len(stack[t]) - 1
    BY RunsLabel, InstTop, TopIs DEF StackInv, Popped
<1>l. {"build", "abort", "section", "hooks", "register", "started", "close", "begin"} \subseteq Labels
    BY DEF Labels
<1>1. \A l \in Labels : ~ Goto(t, l)
  <2> SUFFICES ASSUME NEW l \in Labels, Goto(t, l) PROVE FALSE
      OBVIOUS
  <2>1. Went(t, l)
      BY <1>0, GotoFrames
  <2> QED BY <1>0, <2>1 DEF Went
<1>2. \A l, r \in Labels : ~ Call(t, l, Top(t), r)
  <2> SUFFICES ASSUME NEW l \in Labels, NEW r \in Labels, Call(t, l, Top(t), r) PROVE FALSE
      OBVIOUS
  <2>1. Called(t, l, Top(t), r)
      BY <1>0, CallFrames
  <2> QED BY <1>0, <2>1 DEF Called
<1>3. CASE stack[t][1].at = "check"
  <2>1. InstantiateCheck(t)
      BY <1>0, <1>3 DEF Dispatch
  <2>2. "precheck" \in Labels
      BY DEF Labels
  <2> QED BY <1>1, <1>3, <2>1, <2>2 DEF InstantiateCheck
<1>4. CASE stack[t][1].at = "precheck"
    BY <1>0, <1>l, <1>1, <1>4 DEF Dispatch, InstantiatePrecheck
<1>5. CASE stack[t][1].at = "build"
    BY <1>0, <1>l, <1>1, <1>2, <1>5 DEF Dispatch, InstantiateBuild
<1>6. CASE stack[t][1].at = "section"
    BY <1>0, <1>l, <1>1, <1>2, <1>6 DEF Dispatch, InstantiateSection
<1>7. CASE stack[t][1].at = "hooks"
    BY <1>0, <1>l, <1>1, <1>7 DEF Dispatch, InstantiateHooks
<1>8. CASE stack[t][1].at = "register"
    BY <1>0, <1>l, <1>1, <1>2, <1>8 DEF Dispatch, InstantiateRegister
<1> QED BY <1>3, <1>4, <1>5, <1>6, <1>7, <1>8 DEF Insts

(* An instantiation goes on, or ends with everything given back. *)
LEMMA InInstKept ==
    ASSUME StackInv, Known, NEW t \in Threads, Runs(t), Moved(t), NEW u \in Threads,
           NEW m \in Modules, InInst(u, m)
    PROVE  \/ InInst(u, m)'
           \/ /\ u = t /\ stack[t][1].m = m /\ Len(stack[t]) = 1 /\ Bottom(t) = stack[t][1]
              /\ \/ stack[t][1].at = "abort"
                 \/ stack[t][1].at = "check" /\ runtimeClosed /\ resources' = resources
<1>0. TypeOK /\ Len(stack[t]) > 0 /\ Others(t) /\ Len(stack[t]) \in Nat
    BY RunsLabel, MovedOrigin, TopIs DEF StackInv
<1>1. CASE u # t
    BY <1>0, <1>1, KnownOthers
<1>2. CASE u = t /\ Len(stack'[t]) > 0
  <2>1. Alike(Bottom(t), Bottom(t)')
      BY <1>2, MovedBottom
  <2> QED BY <1>2, <2>1 DEF Alike, InInst
<1>3. CASE u = t /\ ~ Len(stack'[t]) > 0
  <2>0. Popped(t) \/ Len(stack'[t]) = Len(stack[t]) \/ Len(stack'[t]) = Len(stack[t]) + 1
      BY DEF Moved, Went, Called
  <2>1. Popped(t) /\ Len(stack'[t]) = Len(stack[t]) - 1
    <3>1. Popped(t) => Len(stack'[t]) = Len(stack[t]) - 1
        BY DEF Popped
    <3> QED BY <1>0, <1>3, <2>0, <3>1
  <2>2. Len(stack[t]) = 1
    <3>1. \A n \in Nat : n > 0 /\ ~ n - 1 > 0 => n = 1
        OBVIOUS
    <3>2. ~ Len(stack[t]) - 1 > 0
        BY <1>3, <2>1
    <3> QED BY <1>0, <3>1, <3>2
  <2>3. Bottom(t) = stack[t][1] /\ stack[t][1].at \in Insts /\ stack[t][1].m = m
      BY <1>3, <2>2 DEF InInst, Bottom
  <2> QED BY <1>0, <1>3, <2>1, <2>2, <2>3, InstReturns
<1> QED BY <1>1, <1>2, <1>3

(* Running goroutines keep OpenWhole. *)
LEMMA OpenWholeRuns ==
    ASSUME StackInv, ClosedTop, Known, OpenWhole, InstHolds, NEW t \in Threads, Runs(t),
           Moved(t), \A m \in Modules : closed[m] # "open" => closed'[m] = closed[m]
    PROVE  OpenWhole'
<1>0. TypeOK /\ Len(stack[t]) > 0 /\ Effects(t) /\ Len(stack[t]) \in Nat
    BY RunsLabel, TopIs DEF StackInv
<1>r. registered' = registered /\ runtimeClosed' = runtimeClosed
    BY <1>0 DEF Effects
<1> SUFFICES ASSUME NEW m \in Modules, closed'[m] = "open" PROVE OpenOf(m)'
    BY DEF OpenWhole, OpenOf
<1>1. closed[m] = "open" /\ OpenOf(m)
    BY DEF OpenWhole
<1>2. stack[t][1].m = m => stack[t][1].at \notin Chain \cup {"drop"}
    BY <1>0, <1>1 DEF ClosedTop
<1>3. notified'[m] = 0
  <2>1. notified[m] = 0
      BY <1>1 DEF OpenOf
  <2>2. CASE stack[t][1].m # m
      BY <2>1, <2>2, HeldOthers
  <2>3. CASE stack[t][1].m = m
    <3>1. stack[t][1].at # "notify"
        BY <1>2, <2>3 DEF Chain, Releases
    <3> QED BY <2>1, <2>3, <3>1, HeldStep
  <2> QED BY <2>2, <2>3
<1>4. m \in registered => resources'[m] = Resources
  <2> SUFFICES ASSUME m \in registered PROVE resources'[m] = resources[m]
      BY <1>1 DEF OpenOf
  <2>1. CASE stack[t][1].m # m
      BY <2>1, HeldOthers
  <2>2. CASE stack[t][1].m = m
    <3>1. stack[t][1].at \notin Insts
        BY <1>0, <2>2, InstTop
    <3>2. stack[t][1].at \notin {"forget", "sys", "retire", "code", "check", "build", "hooks",
                                 "abort", "drop"}
        BY <1>2, <2>2, <3>1 DEF Insts, Chain, Releases
    <3>3. Held(t, resources[m], resources'[m])
        BY <2>2, HeldStep
    <3> QED BY <3>2, <3>3 DEF Held
  <2> QED BY <2>1, <2>2
<1>5. m \notin registered =>
          \/ \E u \in Threads : InInst(u, m)'
          \/ resources'[m] = {}
          \/ runtimeClosed /\ resources'[m] = {"code"}
  <2> SUFFICES ASSUME m \notin registered PROVE \/ \E u \in Threads : InInst(u, m)'
                                                \/ resources'[m] = {}
                                                \/ runtimeClosed /\ resources'[m] = {"code"}
      OBVIOUS
  <2>1. CASE \E u \in Threads : InInst(u, m)
    <3>1. PICK u \in Threads : InInst(u, m)
        BY <2>1
    <3>2. CASE InInst(u, m)'
        BY <3>2
    <3>3. ASSUME stack[t][1].m = m, Len(stack[t]) = 1, Bottom(t) = stack[t][1],
                 stack[t][1].at = "abort"
          PROVE  resources'[m] = {}
      <4>1. resources[m] \subseteq {"sys", "code"}
          BY <1>1, <3>3 DEF InstHolds, HoldsOf
      <4>2. resources'[m] = resources[m] \ {"sys", "code"}
          BY <3>3, HeldStep DEF Held
      <4> QED BY <4>1, <4>2
    <3>4. ASSUME stack[t][1].m = m, Len(stack[t]) = 1, Bottom(t) = stack[t][1],
                 stack[t][1].at = "check", resources' = resources
          PROVE  resources'[m] = {"code"}
        BY <3>4 DEF InstHolds, HoldsOf, HoldsAt, Before
    <3> QED BY <3>1, <3>2, <3>3, <3>4, InInstKept
  <2>2. CASE ~ \E u \in Threads : InInst(u, m)
    <3>1. stack[t][1].m # m
        BY <1>0, <2>2 DEF Known, KnownFrames, InInst
    <3>2. resources'[m] = resources[m]
        BY <3>1, HeldOthers
    <3> QED BY <1>1, <2>2, <3>2 DEF OpenOf
  <2> QED BY <2>1, <2>2
<1> QED BY <1>r, <1>3, <1>4, <1>5 DEF OpenOf

(* The other steps: nothing an open module holds is taken from it. *)
LEMMA OpenOfKept ==
    ASSUME NEW m \in Modules, OpenOf(m), closed[m] # "open" => closed'[m] = closed[m],
           resources'[m] = resources[m], notified'[m] = notified[m],
           m \in registered' <=> m \in registered, runtimeClosed => runtimeClosed',
           \A u \in Threads : InInst(u, m) => InInst(u, m)'
    PROVE  OpenOf(m)'
<1> SUFFICES ASSUME closed'[m] = "open"
             PROVE  /\ notified'[m] = 0
                    /\ m \in registered' => resources'[m] = Resources
                    /\ m \notin registered' =>
                          \/ \E u \in Threads : InInst(u, m)'
                          \/ resources'[m] = {}
                          \/ runtimeClosed' /\ resources'[m] = {"code"}
    BY DEF OpenOf
<1>1. closed[m] = "open"
    OBVIOUS
<1> QED BY <1>1 DEF OpenOf

(* With the stacks, who instantiates what stays. *)
LEMMA StackSame ==
    ASSUME stack' = stack, NEW u \in Threads
    PROVE  Bottom(u)' = Bottom(u) /\ \A m : (InInst(u, m)' <=> InInst(u, m))
    BY DEF Bottom, InInst

(* Every step keeps OpenWhole. *)
LEMMA OpenWholeNext ==
    ASSUME StackInv, ClosedTop, Known, OpenWhole, InstHolds, [Next]_vars
    PROVE  OpenWhole'
<1>0. TypeOK /\ Shape
    BY DEF StackInv
<1>c. \A m \in Modules : closed[m] # "open" => closed'[m] = closed[m]
    BY ClosedStays
<1>1. ASSUME NEW t \in Threads, InstantiateRegister(t), Registrable(Top(t)), Registers(t)
      PROVE  OpenWhole'
  <2>1. PICK x \in Modules : x = Top(t) /\ x = stack[t][1].m
      BY <1>0, <1>1, TopModule DEF Registers, Closers
  <2>2. /\ Others(t) /\ Len(stack[t]) > 0 /\ stack[t][1].at = "register"
        /\ registered' = registered \cup {x} /\ resources' = resources /\ notified' = notified
        /\ closed' = closed /\ runtimeClosed' = runtimeClosed
      BY <1>1, <2>1 DEF Registers, Went, InstantiateRegister
  <2>3. Bottom(t) = stack[t][1]
      BY <2>2, InstTop DEF Insts
  <2>4. OpenOf(x)'
    <3>1. resources[x] = Resources /\ notified[x] = 0
        BY <2>1, <2>2, <2>3 DEF InstHolds, HoldsOf, HoldsAt, Before
    <3>2. x \in registered'
        BY <2>2
    <3> QED BY <2>2, <3>1, <3>2 DEF OpenOf
  <2>5. ASSUME NEW m \in Modules, m # x PROVE OpenOf(m)'
    <3>1. \A u \in Threads : InInst(u, m) => InInst(u, m)'
      <4> SUFFICES ASSUME NEW u \in Threads, InInst(u, m) PROVE InInst(u, m)'
          OBVIOUS
      <4>1. u # t
          BY <2>1, <2>3, <2>5 DEF InInst
      <4> QED BY <2>2, <4>1, KnownOthers
    <3> QED BY <2>2, <2>5, <3>1, OpenOfKept DEF OpenWhole
  <2> QED BY <2>4, <2>5 DEF OpenWhole
<1>2. ASSUME NEW t \in Threads, Begun(t), UNCHANGED <<closed, notified, registered>>,
             runtimeClosed => runtimeClosed',
             NEW m \in Modules, resources'[m] = resources[m]
      PROVE  OpenOf(m)'
  <2>1. Others(t) /\ Len(stack[t]) = 0
      BY <1>2 DEF Begun, Pushed, PushedClose
  <2>2. \A u \in Threads : InInst(u, m) => u # t
      BY <2>1 DEF InInst
  <2>3. \A u \in Threads : InInst(u, m) => InInst(u, m)'
      BY <2>1, <2>2, KnownOthers
  <2> QED BY <1>2, <2>3, OpenOfKept DEF OpenWhole
<1>3. ASSUME NEW t \in Threads, Begun(t), NEW x \in Modules, StartInstantiate(t, x)
      PROVE  OpenWhole'
  <2>1. /\ resources' = [resources EXCEPT ![x] = {"code"}] /\ Untouched(x)
        /\ UNCHANGED <<closed, notified, registered, runtimeClosed>> /\ Start(t, "check", x)
      BY <1>3 DEF StartInstantiate, histVars
  <2>2. x \notin registered /\ notified[x] = 0
      BY <2>1, UntouchedUnknown DEF Untouched, OpenWhole, OpenOf
  <2>3. InInst(t, x)'
    <3>1. "check" \in Labels /\ "check" \in Insts
        BY DEF Labels, Insts
    <3>2. Pushed(t, "check", x)
        BY <1>0, <2>1, <3>1, StartFrames
    <3>3. Len(stack'[t]) = 1 /\ Bottom(t)'.at = "check" /\ Bottom(t)'.m = x
        BY <3>2, PushedFrames
    <3> QED BY <3>1, <3>3 DEF InInst
  <2>4. OpenOf(x)'
    <3>1. \E u \in Threads : InInst(u, x)'
        BY <2>3
    <3> QED BY <2>1, <2>2, <3>1 DEF OpenOf
  <2>5. ASSUME NEW m \in Modules, m # x PROVE OpenOf(m)'
    <3>1. resources'[m] = resources[m]
        BY <1>0, <2>1, <2>5 DEF TypeOK
    <3> QED BY <1>2, <1>3, <2>1, <3>1
  <2> QED BY <2>4, <2>5 DEF OpenWhole
<1>4. ASSUME NEW t \in Threads, Begun(t), StartCloseRuntime(t) PROVE OpenWhole'
  <2>1. UNCHANGED <<closed, notified, registered, resources>> /\ runtimeClosed'
      BY <1>4 DEF StartCloseRuntime, histVars
  <2> QED BY <1>2, <1>4, <2>1 DEF OpenWhole
<1>5. ASSUME NEW t \in Threads, Begun(t), NEW x \in Modules, StartCall(t, x) \/ StartClose(t, x)
      PROVE  OpenWhole'
  <2>1. UNCHANGED <<closed, notified, registered, resources, runtimeClosed>>
      BY <1>5 DEF StartCall, StartClose, histVars
  <2> QED BY <1>2, <1>5, <2>1 DEF OpenWhole
<1>6. ASSUME stack' = stack, UNCHANGED <<notified, registered, resources, runtimeClosed>>
      PROVE  OpenWhole'
    BY <1>c, <1>6, StackSame, OpenOfKept DEF OpenWhole
<1>7. ASSUME NEW m \in Modules, AsyncSetExitCode(m) PROVE OpenWhole'
    BY <1>6, <1>7 DEF AsyncSetExitCode, histVars
<1>8. ASSUME NEW m \in Modules, AsyncDelete(m) PROVE OpenWhole'
    BY <1>6, <1>8 DEF AsyncDelete, histVars
<1>9. ASSUME NEW t \in Threads, NEW m \in Modules, ContextDone(t, m) PROVE OpenWhole'
    BY <1>6, <1>9 DEF ContextDone, histVars
<1>10. CASE UNCHANGED vars
    BY <1>6, <1>10 DEF vars, histVars
<1> QED BY <1>c, <1>1, <1>3, <1>4, <1>5, <1>7, <1>8, <1>9, <1>10, OpenWholeRuns, NextCases

(* What another goroutine instantiates is left alone. *)
LEMMA HoldsOthers ==
    ASSUME NEW u \in Threads, NEW x, Len(stack[u]) > 0 => x = Bottom(u).m, HoldsOf(u),
           stack'[u] = stack[u], failed'[u] = failed[u],
           Len(stack[u]) > 0 /\ Bottom(u).at \in Insts =>
              /\ resources'[x] = resources[x] /\ notified'[x] = notified[x]
              /\ closed'[x] = "open" => closed[x] = "open"
    PROVE  HoldsOf(u)'
<1> SUFFICES ASSUME Len(stack[u]) > 0, Bottom(u).at \in Insts PROVE HoldsOf(u)'
    BY DEF HoldsOf, Bottom, Insts, Before
<1>1. Bottom(u)' = Bottom(u)
    BY DEF Bottom
<1> QED BY <1>1 DEF HoldsOf

(* The call that a start section made returns to it, or the close of a     *)
(* module that is given up returns.                                        *)
LEMMA HoldsCallers ==
    ASSUME StackInv, ClosedTop, Known, ClosedWhen, OpenWhole, InstHolds,
           NEW t \in Threads, Runs(t), Moved(t), Len(stack[t]) > 1,
           \A m \in Modules : closed[m] # "open" => closed'[m] = closed[m]
    PROVE  HoldsOf(t)'
<1>0. /\ TypeOK /\ Shape /\ Len(stack[t]) > 0 /\ Effects(t) /\ Dispatch(t)
      /\ Len(stack[t]) \in Nat /\ HoldsOf(t)
    BY RunsLabel, TopIs DEF StackInv, InstHolds
<1> SUFFICES ASSUME Len(stack'[t]) > 0, Bottom(t).at \in Insts PROVE HoldsOf(t)'
  <2>1. Len(stack'[t]) > 0 => Bottom(t)' = Bottom(t)
      BY MovedBottom
  <2> QED BY <2>1 DEF HoldsOf, Insts, Before
<1>1. Bottom(t)' = Bottom(t)
    BY MovedBottom
<1>2. PICK x \in Modules : x = Bottom(t).m
  <2>1. Len(stack[t]) \in 1 .. Len(stack[t]) /\ Bottom(t) = stack[t][Len(stack[t])]
        /\ Bottom(t) \in FrameSet
      BY <1>0, BottomFrame
  <2>2. Bottom(t).m # NoModule
      BY <1>0, <2>1 DEF Shape, ShapeOf, Insts, Closers
  <2> QED BY <2>1, <2>2 DEF FrameSet
<1>3. stack[t][1].at \notin Bottoms
  <2>0. \A n \in Nat : n > 1 => n # 1
      OBVIOUS
  <2>1. Len(stack[t]) # 1
      BY <1>0, <2>0
  <2> QED BY <1>0, <2>1, RegisterAlone
<1>4. Bottom(t).at \in {"section", "abort"}
  <2>1. \A n \in Nat : n > 1 => n - 1 \in 1 .. n /\ n - 1 < n /\ n - 1 + 1 = n
      OBVIOUS
  <2>2. Over(stack[t][Len(stack[t]) - 1], Bottom(t))
    <3>1. PICK i \in 1 .. Len(stack[t]) : i < Len(stack[t]) /\ i + 1 = Len(stack[t])
                                          /\ i = Len(stack[t]) - 1
        BY <1>0, <2>1
    <3>2. Over(stack[t][i], stack[t][i + 1])
        BY <1>0, <3>1 DEF Shape, ShapeOf
    <3> QED BY <3>1, <3>2 DEF Bottom
  <2> QED BY <2>2 DEF Over, Insts
<1>5. Len(stack'[t]) = 1 => /\ Popped(t) /\ Len(stack[t]) = 2 /\ Bottom(t) = stack[t][2]
                            /\ Over(stack[t][1], stack[t][2])
  <2> SUFFICES ASSUME Len(stack'[t]) = 1
               PROVE  Popped(t) /\ Len(stack[t]) = 2
    <3>1. Len(stack[t]) = 2 => Bottom(t) = stack[t][2] /\ Over(stack[t][1], stack[t][2])
        BY <1>0 DEF Bottom, Shape, ShapeOf
    <3> QED BY <3>1
  <2>0. Popped(t) \/ Len(stack'[t]) = Len(stack[t]) \/ Len(stack'[t]) = Len(stack[t]) + 1
      BY DEF Moved, Went, Called
  <2>1. Popped(t) => Len(stack'[t]) = Len(stack[t]) - 1
      BY DEF Popped
  <2>2. \A n \in Nat : n > 1 => n # 1 /\ n + 1 # 1 /\ (n - 1 = 1 => n = 2)
      OBVIOUS
  <2> QED BY <1>0, <2>0, <2>1, <2>2
<1>6. closed'[x] = "open" /\ Bottom(t).at = "section" => HoldsAt("section", resources'[x])
  <2> SUFFICES ASSUME closed'[x] = "open", Bottom(t).at = "section"
               PROVE  resources'[x] = resources[x]
      BY <1>0, <1>2 DEF HoldsOf
  <2>1. CASE stack[t][1].m # x
      BY <2>1, HeldOthers
  <2>2. CASE stack[t][1].m = x
    <3>1. stack[t][1].at \notin Chain \cup {"drop"}
        BY <1>0, <2>2 DEF ClosedTop
    <3>2. Held(t, resources[x], resources'[x])
        BY <2>2, HeldStep
    <3> QED BY <1>3, <3>1, <3>2 DEF Held, Chain, Releases, Bottoms, Insts
  <2> QED BY <2>1, <2>2
<1>7. Len(stack'[t]) = 1 /\ ~ failed'[t] /\ Bottom(t).at = "section" =>
          HoldsAt("section", resources'[x]) /\ notified'[x] = 0
  <2> SUFFICES ASSUME Len(stack'[t]) = 1, ~ failed'[t], Bottom(t).at = "section"
               PROVE  HoldsAt("section", resources'[x]) /\ notified'[x] = 0
      OBVIOUS
  <2>1. /\ stack[t][1].at = "fail" /\ closed' = closed /\ closed[x] = "open"
      BY <1>2, <1>5, ClosedWhenPopped
  <2>2. notified' = notified
      BY <1>0, <2>1 DEF Effects
  <2>3. notified[x] = 0
      BY <2>1 DEF OpenWhole, OpenOf
  <2> QED BY <1>6, <2>1, <2>2, <2>3
<1>8. Len(stack'[t]) = 1 /\ Bottom(t).at = "abort" => closed'[x] # "open"
  <2> SUFFICES ASSUME Len(stack'[t]) = 1, Bottom(t).at = "abort" PROVE closed'[x] # "open"
      OBVIOUS
  <2>1. stack[t][1].at \in {"close"} \cup Chain /\ stack[t][1].m = x
      BY <1>2, <1>5 DEF Over
  <2>2. CASE stack[t][1].at = "close"
    <3>1. CloseSetExitCode(t)
        BY <1>0, <2>2 DEF Dispatch
    <3> QED BY <2>1, <3>1, SetExitCodeStep
  <2>3. CASE stack[t][1].at \in Chain
      BY <1>0, <2>1, <2>3 DEF ClosedTop
  <2> QED BY <2>1, <2>2, <2>3
<1> QED BY <1>1, <1>2, <1>4, <1>6, <1>7, <1>8 DEF HoldsOf, Before

(* The steps of Store.Instantiate itself. *)
LEMMA HoldsSteps ==
    ASSUME StackInv, InstHolds, Known, NEW t \in Threads, Runs(t), Moved(t), Len(stack[t]) = 1
    PROVE  HoldsOf(t)'
<1>0. /\ TypeOK /\ Shape /\ Len(stack[t]) > 0 /\ Effects(t) /\ Dispatch(t) /\ HoldsOf(t)
      /\ Bottom(t) = stack[t][1]
    BY RunsLabel, TopIs DEF StackInv, InstHolds, Bottom
<1> SUFFICES ASSUME Len(stack'[t]) > 0, stack[t][1].at \in Insts PROVE HoldsOf(t)'
  <2>1. Len(stack'[t]) > 0 => Alike(Bottom(t), Bottom(t)')
      BY MovedBottom
  <2> QED BY <1>0, <2>1 DEF HoldsOf, Alike, Insts, Before
<1>1. PICK x \in Modules : x = stack[t][1].m
    BY <1>0, InstTop
<1>2. Held(t, resources[x], resources'[x]) /\ notified'[x] = notified[x]
  <2>1. stack[t][1].at # "notify"
      BY DEF Insts
  <2> QED BY <1>1, <2>1, HeldStep
<1>3. ASSUME NEW l \in Labels, <<stack[t][1].at, l>> \in Moves, Went(t, l) PROVE HoldsOf(t)'
  <2>1. /\ Len(stack'[t]) = 1 /\ Bottom(t)' = [at |-> l, m |-> x]
      BY <1>1, <1>3 DEF Went, Bottom
  <2>2. ASSUME HoldsAt(l, resources'[x]), notified'[x] = 0, l \notin {"section", "abort"}
        PROVE  HoldsOf(t)'
      BY <2>1, <2>2 DEF HoldsOf
  <2>3. CASE stack[t][1].at = "check" /\ l = "precheck"
    <3>1. resources[x] = {"code"} /\ notified[x] = 0
        BY <1>0, <1>1, <2>3 DEF HoldsOf, HoldsAt, Before
    <3>2. ~ Popped(t)
        BY <1>3, <2>1 DEF Popped
    <3>3. resources'[x] = resources[x] \cup {"sys"}
        BY <1>1, <2>3, <3>2, HeldStep
    <3>4. HoldsAt(l, resources'[x])
        BY <2>3, <3>1, <3>3 DEF HoldsAt
    <3> QED BY <1>2, <2>2, <2>3, <3>1, <3>4
  <2>4. CASE stack[t][1].at = "precheck" /\ l \in {"build", "abort"}
    <3>1. resources[x] = {"code", "sys"} /\ notified[x] = 0
        BY <1>0, <1>1, <2>4 DEF HoldsOf, HoldsAt, Before
    <3>2. resources'[x] = {"code", "sys"}
        BY <1>2, <2>4, <3>1 DEF Held
    <3> QED BY <1>2, <2>1, <2>4, <3>1, <3>2 DEF HoldsOf, HoldsAt, Before
  <2>5. CASE stack[t][1].at = "build" /\ l = "hooks"
    <3>1. resources[x] = {"code", "sys"} /\ notified[x] = 0
        BY <1>0, <1>1, <2>5 DEF HoldsOf, HoldsAt, Before
    <3>2. resources'[x] = {"code", "sys", "memory"}
        BY <1>2, <2>5, <3>1 DEF Held
    <3> QED BY <1>2, <2>1, <2>5, <3>1, <3>2 DEF HoldsOf, HoldsAt
  <2>6. CASE stack[t][1].at = "section" /\ l = "hooks"
    <3>0. ~ failed[t]
      <4> SUFFICES ASSUME failed[t] PROVE FALSE
          OBVIOUS
      <4>1. Call(t, "close", x, "abort") /\ "close" \in Labels /\ "abort" \in Labels
          BY <1>0, <1>1, <2>6, TopIs DEF Dispatch, InstantiateSection, Labels
      <4>2. Called(t, "close", x, "abort")
          BY <1>0, <4>1, CallFrames
      <4>3. Len(stack'[t]) = Len(stack[t]) + 1
          BY <4>2 DEF Called
      <4> QED BY <2>1, <4>3
    <3>1. resources[x] = {"code", "sys", "memory"} /\ notified[x] = 0
        BY <1>0, <1>1, <2>6, <3>0 DEF HoldsOf, HoldsAt
    <3>2. resources'[x] = {"code", "sys", "memory"}
        BY <1>2, <2>6, <3>1 DEF Held
    <3> QED BY <1>2, <2>1, <2>6, <3>1, <3>2 DEF HoldsOf, HoldsAt
  <2>7. CASE stack[t][1].at = "hooks" /\ l = "register"
    <3>1. resources[x] = {"code", "sys", "memory"} /\ notified[x] = 0
        BY <1>0, <1>1, <2>7 DEF HoldsOf, HoldsAt, Before
    <3>2. resources'[x] = Resources
        BY <1>2, <2>7, <3>1 DEF Held, Resources
    <3> QED BY <1>2, <2>1, <2>7, <3>1, <3>2 DEF HoldsOf, HoldsAt
  <2> QED BY <1>3, <2>3, <2>4, <2>5, <2>6, <2>7 DEF Moves, Insts
<1>4. ASSUME NEW l \in Labels, NEW r \in Labels, NEW m \in Modules,
             <<stack[t][1].at, l, r>> \in Calls, Called(t, l, m, r)
      PROVE  HoldsOf(t)'
  <2>1. Len(stack'[t]) = 2 /\ Bottom(t)' = [at |-> r, m |-> x]
      BY <1>1, <1>4 DEF Called, Bottom
  <2>2. CASE stack[t][1].at = "build" /\ r = "section"
    <3>1. resources[x] = {"code", "sys"}
        BY <1>0, <1>1, <2>2 DEF HoldsOf, HoldsAt, Before
    <3>2. resources'[x] = {"code", "sys", "memory"}
        BY <1>2, <2>2, <3>1 DEF Held
    <3> QED BY <2>1, <2>2, <3>2 DEF HoldsOf, HoldsAt, Before
  <2>3. CASE r = "abort"
      BY <2>1, <2>3 DEF HoldsOf, Before
  <2> QED BY <1>4, <2>2, <2>3 DEF Calls, Insts
<1>5. ~ Popped(t)
    BY DEF Popped
<1> QED BY <1>3, <1>4, <1>5 DEF Moved

(* Running goroutines keep InstHolds. *)
LEMMA InstHoldsRuns ==
    ASSUME StackInv, ClosedTop, Known, ClosedWhen, OpenWhole, InstHolds,
           NEW t \in Threads, Runs(t), Moved(t),
           \A m \in Modules : closed[m] # "open" => closed'[m] = closed[m]
    PROVE  InstHolds'
<1>0. TypeOK /\ Len(stack[t]) > 0 /\ Others(t) /\ Len(stack[t]) \in Nat
    BY RunsLabel, MovedOrigin, TopIs DEF StackInv
<1>1. HoldsOf(t)'
  <2>1. \A n \in Nat : n > 0 => n = 1 \/ n > 1
      OBVIOUS
  <2> QED BY <1>0, <2>1, HoldsCallers, HoldsSteps
<1>2. ASSUME NEW u \in Threads, u # t PROVE HoldsOf(u)'
  <2>1. stack'[u] = stack[u] /\ failed'[u] = failed[u]
      BY <1>0, <1>2, FailedOthers DEF Others
  <2>2. ASSUME Len(stack[u]) > 0, Bottom(u).at \in Insts, NEW x, x = Bottom(u).m
        PROVE  /\ resources'[x] = resources[x] /\ notified'[x] = notified[x]
               /\ closed'[x] = "open" => closed[x] = "open"
    <3>1. x \in Modules /\ InInst(u, x)
      <4>1. Bottom(u) \in FrameSet /\ Bottom(u).m # NoModule
          BY <1>0, <2>2, BottomFrame DEF StackInv, Shape, ShapeOf, Insts, Closers
      <4> QED BY <2>2, <4>1 DEF FrameSet, InInst
    <3>2. stack[t][1].m # x
        BY <1>0, <1>2, <3>1, InstApart
    <3> QED BY <3>1, <3>2, HeldOthers
  <2>3. PICK x : x = Bottom(u).m
      OBVIOUS
  <2> QED BY <2>1, <2>2, <2>3, HoldsOthers DEF InstHolds
<1> QED BY <1>1, <1>2 DEF InstHolds

(* Every step keeps InstHolds. *)
LEMMA InstHoldsNext ==
    ASSUME StackInv, ClosedTop, Known, ClosedWhen, OpenWhole, InstHolds, [Next]_vars
    PROVE  InstHolds'
<1>0. TypeOK /\ Shape
    BY DEF StackInv
<1>c. \A m \in Modules : closed[m] # "open" => closed'[m] = closed[m]
    BY ClosedStays
<1>f. ASSUME NEW u \in Threads, Len(stack[u]) > 0, Bottom(u).at \in Insts
      PROVE  Bottom(u).m \in Modules /\ InInst(u, Bottom(u).m)
  <2>1. Bottom(u) \in FrameSet /\ Bottom(u).m # NoModule
      BY <1>0, <1>f, BottomFrame DEF Shape, ShapeOf, Insts, Closers
  <2> QED BY <1>f, <2>1 DEF FrameSet, InInst
<1>1. ASSUME NEW u \in Threads, stack'[u] = stack[u], failed'[u] = failed[u],
             \A x \in Modules : InInst(u, x) => /\ resources'[x] = resources[x]
                                                /\ notified'[x] = notified[x]
      PROVE  HoldsOf(u)'
  <2>1. PICK x : x = Bottom(u).m
      OBVIOUS
  <2>2. Len(stack[u]) > 0 /\ Bottom(u).at \in Insts => x \in Modules /\ InInst(u, x)
      BY <1>f, <2>1
  <2> QED BY <1>c, <1>1, <2>1, <2>2, HoldsOthers DEF InstHolds
<1>2. ASSUME NEW t \in Threads, InstantiateRegister(t), Registrable(Top(t)), Registers(t)
      PROVE  InstHolds'
  <2>1. /\ Others(t) /\ UNCHANGED <<resources, notified, failed>> /\ Went(t, "started")
        /\ Len(stack[t]) > 0 /\ stack[t][1].at = "register"
      BY <1>2 DEF Registers, Went, InstantiateRegister
  <2>2. HoldsOf(t)'
    <3>1. Len(stack[t]) = 1
        BY <2>1, InstTop DEF Insts
    <3>2. Bottom(t)'.at = "started"
        BY <2>1, <3>1 DEF Went, Bottom
    <3> QED BY <3>2 DEF HoldsOf, Before
  <2> QED BY <1>1, <2>1, <2>2 DEF InstHolds, Others
<1>3. ASSUME NEW t \in Threads, NEW x \in Modules, StartInstantiate(t, x) PROVE InstHolds'
  <2>1. /\ resources' = [resources EXCEPT ![x] = {"code"}] /\ Untouched(x)
        /\ UNCHANGED <<closed, notified, failed>> /\ Start(t, "check", x)
      BY <1>3 DEF StartInstantiate
  <2>2. \A u \in Threads : ~ InInst(u, x)
      BY <2>1, UntouchedUnknown
  <2>3. \A y \in Modules : y # x => resources'[y] = resources[y]
      BY <1>0, <2>1 DEF TypeOK
  <2>4. Others(t) /\ Len(stack'[t]) = 1 /\ Bottom(t)'.at = "check" /\ Bottom(t)'.m = x
    <3>1. "check" \in Labels
        BY DEF Labels
    <3>2. Pushed(t, "check", x)
        BY <1>0, <2>1, <3>1, StartFrames
    <3> QED BY <3>2, PushedFrames
  <2>5. HoldsOf(t)'
    <3>1. notified[x] = 0
        BY <2>1 DEF Untouched, OpenWhole, OpenOf
    <3>2. resources'[x] = {"code"}
        BY <1>0, <2>1 DEF TypeOK
    <3> QED BY <2>1, <2>4, <3>1, <3>2 DEF HoldsOf, HoldsAt
  <2>6. ASSUME NEW u \in Threads, u # t PROVE HoldsOf(u)'
      BY <1>1, <2>1, <2>2, <2>3, <2>4, <2>6 DEF Others
  <2> QED BY <2>5, <2>6 DEF InstHolds
<1>4. ASSUME NEW t \in Threads, Others(t), UNCHANGED <<resources, notified, failed>>,
             Bottom(t)'.at \notin Before \cup {"section", "abort"}
      PROVE  InstHolds'
  <2>1. HoldsOf(t)'
      BY <1>4 DEF HoldsOf
  <2> QED BY <1>1, <1>4, <2>1 DEF InstHolds, Others
<1>5. ASSUME NEW t \in Threads, StartCloseRuntime(t) PROVE InstHolds'
  <2>1. UNCHANGED <<resources, notified, failed>> /\ Start(t, "snapshot", NoModule)
      BY <1>5 DEF StartCloseRuntime
  <2>2. "snapshot" \in Labels
      BY DEF Labels
  <2>3. Others(t) /\ Bottom(t)'.at = "snapshot"
      BY <1>0, <2>1, <2>2, StartFrames, PushedFrames
  <2> QED BY <1>4, <2>1, <2>3 DEF Before
<1>6. ASSUME NEW t \in Threads, NEW x \in Modules, StartCall(t, x) PROVE InstHolds'
  <2>1. UNCHANGED <<resources, notified, failed>> /\ Start(t, "begin", x)
      BY <1>6 DEF StartCall
  <2>2. "begin" \in Labels
      BY DEF Labels
  <2>3. Others(t) /\ Bottom(t)'.at = "begin"
      BY <1>0, <2>1, <2>2, StartFrames, PushedFrames
  <2> QED BY <1>4, <2>1, <2>3 DEF Before
<1>7. ASSUME NEW t \in Threads, NEW x \in Modules, StartClose(t, x) PROVE InstHolds'
  <2>1. UNCHANGED <<resources, notified, failed>>
      BY <1>7 DEF StartClose
  <2>3. Others(t) /\ Bottom(t)'.at = "returned"
      BY <1>0, <1>7, StartCloseFrames, PushedCloseFrames
  <2> QED BY <1>4, <2>1, <2>3 DEF Before
<1>8. ASSUME UNCHANGED <<stack, resources, notified, failed>> PROVE InstHolds'
    BY <1>1, <1>8 DEF InstHolds
<1>9. ASSUME NEW m \in Modules, AsyncSetExitCode(m) \/ AsyncDelete(m) PROVE InstHolds'
    BY <1>8, <1>9 DEF AsyncSetExitCode, AsyncDelete
<1>10. ASSUME NEW t \in Threads, NEW m \in Modules, ContextDone(t, m) PROVE InstHolds'
    BY <1>8, <1>10 DEF ContextDone
<1>11. CASE UNCHANGED vars
    BY <1>8, <1>11 DEF vars
<1> QED BY <1>c, <1>2, <1>3, <1>5, <1>6, <1>7, <1>9, <1>10, <1>11, InstHoldsRuns, NextCases

(* Others go on with what they release. *)
LEMMA OthersChain ==
    ASSUME NEW t \in Threads, Others(t), NEW u \in Threads, u # t, NEW m
    PROVE  (InChain(u, m)' <=> InChain(u, m)) /\ stack'[u] = stack[u]
    BY DEF InChain, Others

(* A procedure called by others never waits in its own release.            *)
LEMMA ChainNotCaller ==
    ASSUME StackInv, NEW t \in Threads, Moved(t), Len(stack'[t]) > 0,
           stack'[t][1].at \in Chain
    PROVE  \E l \in Labels : /\ <<stack[t][1].at, l>> \in Moves /\ Went(t, l)
                             /\ l = stack'[t][1].at /\ stack'[t][1].m = stack[t][1].m
<1>0. TypeOK /\ Shape /\ Len(stack[t]) \in Nat /\ Len(stack[t]) > 0
    BY TopIs DEF StackInv, Moved
<1>1. ~ Popped(t)
  <2> SUFFICES ASSUME Popped(t) PROVE FALSE
      OBVIOUS
  <2>1. Len(stack[t]) > 1 /\ stack'[t][1] = stack[t][2]
      BY <1>0 DEF Popped
  <2>2. Over(stack[t][1], stack[t][2])
      BY <1>0, <2>1 DEF Shape, ShapeOf
  <2> QED BY <2>1, <2>2 DEF Over, Chain, Releases
<1>2. ASSUME NEW l \in Labels, NEW r \in Labels, NEW m \in Modules,
             <<stack[t][1].at, l, r>> \in Calls, Called(t, l, m, r)
      PROVE  FALSE
  <2>1. l \in {"close", "begin", "closeStore"}
      BY <1>2, CallLabels
  <2> QED BY <1>2, <2>1 DEF Called, Chain, Releases
<1>3. PICK l \in Labels : <<stack[t][1].at, l>> \in Moves /\ Went(t, l)
    BY <1>1, <1>2 DEF Moved
<1>4. l = stack'[t][1].at /\ stack'[t][1].m = stack[t][1].m
    BY <1>3 DEF Went
<1> QED BY <1>3, <1>4

(* The goroutine that closes the module starts its release.                *)
LEMMA ReleaseStarts ==
    ASSUME StackInv, ClosedTop, OpenWhole, NEW t \in Threads, Runs(t), Moved(t),
           NEW m \in Modules, closed[m] = "open", closed'[m] = "closed"
    PROVE  ReleasesOf(m)'
<1>0. TypeOK /\ Len(stack[t]) > 0 /\ Others(t) /\ Dispatch(t) /\ Effects(t) /\ Len(stack[t]) \in Nat
    BY RunsLabel, MovedOrigin, TopIs DEF StackInv
<1>1. stack[t][1].at \in {"close", "closeStore"} /\ CloseSetExitCode(t)
    BY <1>0 DEF Effects, Dispatch
<1>2. stack[t][1].m = m
  <2>1. closed' # closed
      OBVIOUS
  <2>2. closed' = [closed EXCEPT ![stack[t][1].m] = "closed"]
      BY <1>1, <2>1, SetExitCodeStep
  <2> QED BY <1>0, <2>2 DEF TypeOK
<1>3. PICK l \in {"delete", "notify"} : Went(t, l)
    BY <1>1, <1>2, SetExitCodeStep
<1>4. \A u \in Threads : u # t => ~ InChain(u, m)'
  <2>1. \A u \in Threads : ~ InChain(u, m)
      BY DEF ClosedTop, InChain
  <2> QED BY <1>0, <2>1, OthersChain
<1>5. stack'[t][1].at = l /\ Len(stack'[t]) > 0 /\ InChain(t, m)'
    BY <1>0, <1>2, <1>3 DEF Went, InChain, Chain, Releases
<1>6. resources' = resources /\ notified' = notified /\ registered' = registered
    BY <1>0, <1>1 DEF Effects
<1>7. Released(l, m)'
  <2>1. m \in registered => resources[m] = Resources /\ notified[m] = 0
      BY DEF OpenWhole, OpenOf
  <2> QED BY <1>6, <2>1 DEF Released, Resources
<1>8. \A u \in Threads : InChain(u, m)' => Released(stack[u][1].at, m)'
    BY <1>4, <1>5, <1>7
<1> QED BY <1>4, <1>5, <1>8 DEF ReleasesOf

(* It goes on with it to the end.                                          *)
LEMMA ReleaseGoesOn ==
    ASSUME StackInv, Known, NEW t \in Threads, Runs(t), Moved(t), NEW m \in Modules,
           ReleasesOf(m), closed[m] = "closed", InChain(t, m)
    PROVE  ReleasesOf(m)'
<1>0. /\ TypeOK /\ Len(stack[t]) > 0 /\ Others(t) /\ Dispatch(t) /\ Effects(t)
      /\ Len(stack[t]) \in Nat /\ stack[t][1].m = m /\ stack[t][1].at \in Chain
      /\ Top(t) = m
    BY RunsLabel, MovedOrigin, TopIs DEF StackInv, InChain
<1>1. Released(stack[t][1].at, m) /\ \A u \in Threads : u # t => ~ InChain(u, m)
    BY DEF ReleasesOf
<1>2. \A u \in Threads : u # t => ~ InChain(u, m)'
    BY <1>0, <1>1, OthersChain
<1>3. registered' = registered
    BY <1>0 DEF Effects
<1>4. /\ Held(t, resources[m], resources'[m])
      /\ stack[t][1].at # "notify" => notified'[m] = notified[m]
      /\ stack[t][1].at = "notify" =>
            \/ "notifier" \in resources[m] /\ notified'[m] = notified[m] + 1 /\ Went(t, "forget")
            \/ "notifier" \notin resources[m] /\ notified'[m] = notified[m] /\ Went(t, "sys")
    BY <1>0, HeldStep
<1>5. ASSUME NEW l \in Labels, <<stack[t][1].at, l>> \in Moves, Went(t, l)
      PROVE  ReleasesOf(m)'
  <2>1. stack'[t][1].at = l /\ Len(stack'[t]) = Len(stack[t]) /\ stack'[t][1].m = m
      BY <1>0, <1>5 DEF Went
  <2>2. InChain(t, m)'
    <3>1. l \in Chain
        BY <1>0, <1>5, MoveLabels
    <3> QED BY <1>0, <2>1, <3>1 DEF InChain
  <2>3. Released(l, m)'
    <3>1. CASE stack[t][1].at = "delete"
      <4>1. l = "notify" /\ resources'[m] = resources[m] /\ notified'[m] = notified[m]
          BY <1>4, <1>5, <3>1 DEF Moves, Held
      <4> QED BY <1>1, <1>3, <3>1, <4>1 DEF Released
    <3>2. CASE stack[t][1].at = "notify" /\ "notifier" \in resources[m]
      <4>1. resources'[m] = resources[m] /\ notified'[m] = notified[m] + 1 /\ Went(t, "forget")
          BY <1>4, <3>2 DEF Held
      <4>2. l = "forget"
          BY <2>1, <4>1 DEF Went
      <4>3. m \in registered => notified[m] = 0 /\ {"code", "codeCloser"} \subseteq resources[m]
          BY <1>1, <3>2 DEF Released
      <4>4. m \in registered => notified'[m] = 1
          BY <4>1, <4>3
      <4> QED BY <1>3, <4>1, <4>2, <4>3, <4>4 DEF Released
    <3>3. CASE stack[t][1].at = "notify" /\ "notifier" \notin resources[m]
      <4>1. resources'[m] = resources[m] /\ Went(t, "sys")
          BY <1>4, <3>3 DEF Held
      <4>2. l = "sys"
          BY <2>1, <4>1 DEF Went
      <4>3. m \notin registered
          BY <1>1, <3>3 DEF Released
      <4> QED BY <1>3, <3>3, <4>1, <4>2, <4>3 DEF Released
    <3>4. CASE stack[t][1].at = "forget"
      <4>1. l = "sys" /\ resources'[m] = resources[m] \ {"notifier"} /\ notified'[m] = notified[m]
          BY <1>4, <1>5, <3>4 DEF Moves, Held
      <4> QED BY <1>1, <1>3, <3>4, <4>1 DEF Released
    <3>5. CASE stack[t][1].at = "sys"
      <4>1. l = "retire" /\ resources'[m] = resources[m] \ {"sys"} /\ notified'[m] = notified[m]
          BY <1>4, <1>5, <3>5 DEF Moves, Held
      <4> QED BY <1>1, <1>3, <3>5, <4>1 DEF Released
    <3>6. CASE stack[t][1].at = "retire"
      <4>1. l = "code" /\ resources'[m] = resources[m] \ {"memory"} /\ notified'[m] = notified[m]
          BY <1>4, <1>5, <3>6 DEF Moves, Held
      <4> QED BY <1>1, <1>3, <3>6, <4>1 DEF Released
    <3>7. stack[t][1].at # "code"
        BY <1>5 DEF Moves
    <3> QED BY <1>0, <3>1, <3>2, <3>3, <3>4, <3>5, <3>6, <3>7 DEF Chain, Releases
  <2>4. \A u \in Threads : InChain(u, m)' => Released(stack[u][1].at, m)'
      BY <1>2, <2>1, <2>3
  <2> QED BY <1>2, <2>2, <2>4 DEF ReleasesOf
<1>6. ASSUME Popped(t) PROVE ReleasesOf(m)'
  <2>1. stack[t][1].at = "code"
    <3>1. \A l \in Labels : ~ Goto(t, l)
      <4> SUFFICES ASSUME NEW l \in Labels, Goto(t, l) PROVE FALSE
          OBVIOUS
      <4>1. Len(stack'[t]) = Len(stack[t])
          BY <1>0, GotoFrames DEF Went
      <4>2. Len(stack'[t]) = Len(stack[t]) - 1
          BY <1>6 DEF Popped
      <4> QED BY <1>0, <4>1, <4>2
    <3>2. {"notify", "forget", "sys", "retire", "code"} \subseteq Labels
        BY DEF Labels
    <3>3. CASE stack[t][1].at = "delete"
        BY <1>0, <3>1, <3>2, <3>3 DEF Dispatch, CloseDelete
    <3>4. CASE stack[t][1].at = "notify"
        BY <1>0, <3>1, <3>2, <3>4 DEF Dispatch, EnsureNotify
    <3>5. CASE stack[t][1].at = "forget"
        BY <1>0, <3>1, <3>2, <3>5 DEF Dispatch, EnsureForget
    <3>6. CASE stack[t][1].at = "sys"
        BY <1>0, <3>1, <3>2, <3>6 DEF Dispatch, EnsureSys
    <3>7. CASE stack[t][1].at = "retire"
        BY <1>0, <3>1, <3>2, <3>7 DEF Dispatch, EnsureRetire
    <3> QED BY <1>0, <3>3, <3>4, <3>5, <3>6, <3>7 DEF Chain, Releases
  <2>2. \A u \in Threads : ~ InChain(u, m)'
    <3>1. ~ InChain(t, m)'
      <4> SUFFICES ASSUME InChain(t, m)' PROVE FALSE
          OBVIOUS
      <4>1. PICK l \in Labels : Went(t, l)
          BY ChainNotCaller DEF InChain
      <4>2. Len(stack'[t]) = Len(stack[t]) /\ Len(stack'[t]) = Len(stack[t]) - 1
          BY <1>6, <4>1 DEF Went, Popped
      <4> QED BY <1>0, <4>2
    <3> QED BY <1>2, <3>1
  <2>3. /\ "notifier" \notin resources[m] /\ "sys" \notin resources[m]
        /\ "memory" \notin resources[m] /\ resources[m] \subseteq Resources
        /\ m \in registered => "codeCloser" \in resources[m] /\ notified[m] = 1
      BY <1>0, <1>1, <2>1 DEF Released, TypeOK
  <2>4. /\ resources'[m] = IF "codeCloser" \in resources[m]
                           THEN resources[m] \ {"code", "codeCloser"} ELSE resources[m]
        /\ notified'[m] = notified[m]
      BY <1>4, <2>1 DEF Held
  <2>5. resources'[m] \subseteq {"code"} /\ (m \in registered => resources'[m] = {})
      BY <2>3, <2>4 DEF Resources
  <2>6. m \notin registered => \E u \in Threads : InInst(u, m)'
    <3> SUFFICES ASSUME m \notin registered PROVE InInst(t, m)'
        OBVIOUS
    <3>1. InInst(t, m)
        BY <1>0 DEF Known, KnownFrames, InInst
    <3> QED BY <2>1, <3>1, InInstKept
  <2> QED BY <1>3, <2>2, <2>3, <2>4, <2>5, <2>6 DEF ReleasesOf
<1>7. ASSUME NEW l \in Labels, NEW r \in Labels, <<stack[t][1].at, l, r>> \in Calls PROVE FALSE
    BY <1>0, <1>7 DEF Calls, Chain, Releases
<1> QED BY <1>5, <1>6, <1>7 DEF Moved

(* No other step gives a closed module anything, or takes from it what its *)
(* release looks at.                                                       *)
LEMMA ReleaseUndisturbed ==
    ASSUME NEW m \in Modules, ReleasesOf(m), closed[m] = "closed",
           \A u \in Threads : InChain(u, m)' <=> InChain(u, m),
           \A u \in Threads : InChain(u, m) => stack'[u] = stack[u],
           resources'[m] \subseteq resources[m],
           m \in registered => resources[m] \ {"sys"} \subseteq resources'[m],
           notified'[m] = notified[m], m \in registered' <=> m \in registered,
           \A u \in Threads : InInst(u, m) => InInst(u, m)' \/ "code" \notin resources'[m]
    PROVE  ReleasesOf(m)'
<1>1. /\ \A t, u \in Threads : InChain(t, m) /\ InChain(u, m) => t = u
      /\ \A t \in Threads : InChain(t, m) => Released(stack[t][1].at, m)
      /\ (\A t \in Threads : ~ InChain(t, m)) =>
            /\ resources[m] \subseteq {"code"}
            /\ m \in registered => resources[m] = {} /\ notified[m] = 1
            /\ resources[m] # {} => \E t \in Threads : InInst(t, m)
    BY DEF ReleasesOf
<1>2. \A t, u \in Threads : InChain(t, m)' /\ InChain(u, m)' => t = u
    BY <1>1
<1>3. ASSUME NEW t \in Threads, InChain(t, m)' PROVE Released(stack[t][1].at, m)'
  <2>1. Released(stack[t][1].at, m) /\ stack'[t] = stack[t]
      BY <1>1, <1>3
  <2> QED BY <2>1 DEF Released
<1>4. ASSUME \A t \in Threads : ~ InChain(t, m)'
      PROVE  /\ resources'[m] \subseteq {"code"}
             /\ m \in registered' => resources'[m] = {} /\ notified'[m] = 1
             /\ resources'[m] # {} => \E t \in Threads : InInst(t, m)'
  <2>1. /\ resources[m] \subseteq {"code"}
        /\ m \in registered => resources[m] = {} /\ notified[m] = 1
        /\ resources[m] # {} => \E t \in Threads : InInst(t, m)
      BY <1>1, <1>4
  <2>2. resources'[m] # {} => "code" \in resources'[m] /\ resources[m] # {}
      BY <2>1
  <2> QED BY <2>1, <2>2
<1> QED BY <1>2, <1>3, <1>4 DEF ReleasesOf

(* Running goroutines keep ClosedReleases. *)
LEMMA ReleasesRuns ==
    ASSUME StackInv, ClosedTop, Known, ClosedWhen, OpenWhole, ClosedReleases,
           NEW t \in Threads, Runs(t), Moved(t),
           \A m \in Modules : closed[m] # "open" => closed'[m] = closed[m]
    PROVE  ClosedReleases'
<1>0. /\ TypeOK /\ Len(stack[t]) > 0 /\ Others(t) /\ Dispatch(t) /\ Effects(t)
      /\ Len(stack[t]) \in Nat
    BY RunsLabel, MovedOrigin, TopIs DEF StackInv
<1>r. registered' = registered
    BY <1>0 DEF Effects
<1> SUFFICES ASSUME NEW m \in Modules, closed'[m] = "closed" PROVE ReleasesOf(m)'
    BY DEF ClosedReleases, ReleasesOf
<1>1. CASE closed[m] = "open"
    BY <1>1, ReleaseStarts
<1>2. CASE closed[m] # "open" /\ InChain(t, m)
    BY <1>2, ReleaseGoesOn DEF ClosedReleases
<1>3. CASE closed[m] # "open" /\ ~ InChain(t, m)
  <2>0. closed[m] = "closed" /\ ReleasesOf(m)
      BY <1>3 DEF ClosedReleases
  <2>1. ~ InChain(t, m)'
    <3> SUFFICES ASSUME InChain(t, m)' PROVE FALSE
        OBVIOUS
    <3>1. PICK l \in Labels : /\ <<stack[t][1].at, l>> \in Moves /\ Went(t, l)
                              /\ l \in Chain /\ stack[t][1].m = m
        BY ChainNotCaller DEF InChain
    <3>2. stack[t][1].at \notin Chain
        BY <1>0, <1>3, <3>1 DEF InChain
    <3>3. stack[t][1].at \in {"close", "closeStore", "fail"}
        BY <3>1, <3>2 DEF Moves, Chain, Releases
    <3>4. Len(stack'[t]) = Len(stack[t])
        BY <3>1 DEF Went
    <3>5. ~ Popped(t)
      <4>1. \A n \in Nat : n # n - 1
          OBVIOUS
      <4> QED BY <1>0, <3>4, <4>1 DEF Popped
    <3>6. CASE stack[t][1].at = "fail"
      <4>1. FailIfClosed(t)
          BY <1>0, <3>6 DEF Dispatch
      <4> QED BY <2>0, <3>1, <3>5, <4>1, FailStep
    <3>7. CASE stack[t][1].at \in {"close", "closeStore"}
      <4>1. CloseSetExitCode(t)
          BY <1>0, <3>7 DEF Dispatch
      <4> QED BY <2>0, <3>1, <3>5, <4>1, SetExitCodeStep
    <3> QED BY <3>3, <3>6, <3>7
  <2>2. \A u \in Threads : InChain(u, m)' <=> InChain(u, m)
    <3>1. \A u \in Threads : u # t => (InChain(u, m)' <=> InChain(u, m))
        BY <1>0, OthersChain
    <3> QED BY <1>3, <2>1, <3>1
  <2>3. \A u \in Threads : InChain(u, m) => stack'[u] = stack[u]
      BY <1>0, <1>3, OthersChain
  <2>4. /\ resources'[m] \subseteq resources[m] /\ notified'[m] = notified[m]
        /\ m \in registered => resources[m] \ {"sys"} \subseteq resources'[m]
        /\ stack[t][1].m = m /\ stack[t][1].at = "abort" => "code" \notin resources'[m]
    <3>1. CASE stack[t][1].m # m
        BY <3>1, HeldOthers
    <3>2. CASE stack[t][1].m = m
      <4>1. stack[t][1].at \notin Chain
          BY <1>0, <1>3, <3>2 DEF InChain
      <4>2. stack[t][1].at \notin {"check", "precheck", "build", "hooks", "register"}
          BY <1>0, <2>0, <3>2 DEF ClosedWhen
      <4>3. Held(t, resources[m], resources'[m])
            /\ (stack[t][1].at # "notify" => notified'[m] = notified[m])
          BY <3>2, HeldStep
      <4>4. stack[t][1].at = "abort" => m \notin registered
          BY <1>0, <3>2, InstTop DEF Insts
      <4> QED BY <4>1, <4>2, <4>3, <4>4 DEF Held, Chain, Releases
    <3> QED BY <3>1, <3>2
  <2>5. ASSUME NEW u \in Threads, InInst(u, m) PROVE InInst(u, m)' \/ "code" \notin resources'[m]
    <3>1. CASE stack[t][1].m = m /\ stack[t][1].at = "check"
        BY <1>0, <2>0, <3>1 DEF ClosedWhen
    <3> QED BY <2>4, <2>5, <3>1, InInstKept
  <2> QED BY <1>r, <2>0, <2>2, <2>3, <2>4, <2>5, ReleaseUndisturbed
<1> QED BY <1>1, <1>2, <1>3

(* Every step keeps ClosedReleases. *)
LEMMA ReleasesNext ==
    ASSUME StackInv, ClosedTop, Known, ClosedWhen, OpenWhole, ClosedReleases, [Next]_vars
    PROVE  ClosedReleases'
<1>0. TypeOK /\ Shape
    BY DEF StackInv
<1>c. \A m \in Modules : closed[m] # "open" => closed'[m] = closed[m]
    BY ClosedStays
<1>1. ASSUME NEW t \in Threads, InstantiateRegister(t), Registrable(Top(t)), Registers(t)
      PROVE  ClosedReleases'
  <2>1. PICK x \in Modules : x = Top(t) /\ x = stack[t][1].m
      BY <1>0, <1>1, TopModule DEF Registers, Closers
  <2>2. /\ Others(t) /\ Len(stack[t]) > 0 /\ stack[t][1].at = "register"
        /\ registered' = registered \cup {x} /\ resources' = resources /\ notified' = notified
        /\ closed' = closed /\ Went(t, "started") /\ stack'[t][1].at = "started"
      BY <1>1, <2>1 DEF Registers, Went, InstantiateRegister
  <2>3. Bottom(t) = stack[t][1]
      BY <2>2, InstTop DEF Insts
  <2> SUFFICES ASSUME NEW m \in Modules, closed[m] = "closed" PROVE ReleasesOf(m)'
      BY <2>2 DEF ClosedReleases, ReleasesOf
  <2>4. m # x
      BY <2>1, <2>2 DEF ClosedWhen
  <2>5. ~ InChain(t, m) /\ ~ InChain(t, m)'
      BY <2>2 DEF InChain, Chain, Releases
  <2>6. ~ InInst(t, m)
      BY <2>1, <2>3, <2>4 DEF InInst
  <2>7. \A u \in Threads : u # t => /\ InChain(u, m)' <=> InChain(u, m)
                                    /\ stack'[u] = stack[u]
                                    /\ InInst(u, m)' <=> InInst(u, m)
      BY <2>2, OthersChain, KnownOthers
  <2>8. ReleasesOf(m)
      BY DEF ClosedReleases
  <2> QED BY <2>2, <2>4, <2>5, <2>6, <2>7, <2>8, ReleaseUndisturbed
<1>2. ASSUME NEW t \in Threads, Begun(t), UNCHANGED <<closed, notified, registered>>,
             NEW m \in Modules, closed[m] = "closed", resources'[m] = resources[m]
      PROVE  ReleasesOf(m)'
  <2>1. Others(t) /\ Len(stack[t]) = 0
      BY <1>2 DEF Begun, Pushed, PushedClose
  <2>2. ~ InChain(t, m) /\ ~ InInst(t, m)
      BY <2>1 DEF InChain, InInst
  <2>3. ~ InChain(t, m)'
    <3>1. \A l, x : Pushed(t, l, x) => stack'[t][1].at = l
        BY DEF Pushed
    <3>2. \A x : PushedClose(t, x) => stack'[t][1].at = "close"
        BY DEF PushedClose
    <3>3. stack'[t][1].at \in {"check", "begin", "close", "snapshot"}
        BY <1>2, <3>1, <3>2 DEF Begun
    <3> QED BY <3>3 DEF InChain, Chain, Releases
  <2>4. \A u \in Threads : u # t => /\ InChain(u, m)' <=> InChain(u, m)
                                    /\ stack'[u] = stack[u]
                                    /\ InInst(u, m)' <=> InInst(u, m)
      BY <2>1, OthersChain, KnownOthers
  <2>5. ReleasesOf(m)
      BY DEF ClosedReleases
  <2> QED BY <1>2, <2>2, <2>3, <2>4, <2>5, ReleaseUndisturbed
<1>3. ASSUME NEW t \in Threads, Begun(t), NEW x \in Modules,
             StartInstantiate(t, x) \/ StartCall(t, x) \/ StartClose(t, x)
      PROVE  ClosedReleases'
  <2>1. UNCHANGED <<closed, notified, registered>>
      BY <1>3 DEF StartInstantiate, StartCall, StartClose, histVars
  <2>2. \A m \in Modules : closed[m] = "closed" => resources'[m] = resources[m]
      BY <1>0, <1>3 DEF StartInstantiate, StartCall, StartClose, Untouched, TypeOK
  <2> SUFFICES ASSUME NEW m \in Modules, closed[m] = "closed" PROVE ReleasesOf(m)'
      BY <2>1 DEF ClosedReleases, ReleasesOf
  <2> QED BY <1>2, <1>3, <2>1, <2>2
<1>4. ASSUME NEW t \in Threads, Begun(t), StartCloseRuntime(t) PROVE ClosedReleases'
  <2>1. UNCHANGED <<closed, notified, registered, resources>>
      BY <1>4 DEF StartCloseRuntime, histVars
  <2> SUFFICES ASSUME NEW m \in Modules, closed[m] = "closed" PROVE ReleasesOf(m)'
      BY <2>1 DEF ClosedReleases, ReleasesOf
  <2> QED BY <1>2, <1>4, <2>1
<1>5. ASSUME UNCHANGED <<stack, notified, registered, resources>>,
             \A m \in Modules : closed'[m] = "closed" => closed[m] = "closed"
      PROVE  ClosedReleases'
  <2> SUFFICES ASSUME NEW m \in Modules, closed[m] = "closed" PROVE ReleasesOf(m)'
      BY <1>5 DEF ClosedReleases, ReleasesOf
  <2>1. \A u \in Threads : (InChain(u, m)' <=> InChain(u, m)) /\ (InInst(u, m)' <=> InInst(u, m))
      BY <1>5, StackSame DEF InChain
  <2> QED BY <1>5, <2>1, ReleaseUndisturbed DEF ClosedReleases
<1>6. ASSUME NEW m \in Modules, AsyncSetExitCode(m) PROVE ClosedReleases'
  <2>1. UNCHANGED <<stack, notified, registered, resources>>
      BY <1>6 DEF AsyncSetExitCode, histVars
  <2>2. \A x \in Modules : closed'[x] = "closed" => closed[x] = "closed"
      BY <1>0, <1>6 DEF AsyncSetExitCode, TypeOK
  <2> QED BY <1>5, <2>1, <2>2
<1>7. ASSUME NEW m \in Modules, AsyncDelete(m) PROVE ClosedReleases'
    BY <1>5, <1>7 DEF AsyncDelete, histVars
<1>8. ASSUME NEW t \in Threads, NEW m \in Modules, ContextDone(t, m) PROVE ClosedReleases'
    BY <1>5, <1>8 DEF ContextDone, histVars
<1>9. CASE UNCHANGED vars
    BY <1>5, <1>9 DEF vars, histVars
<1> QED BY <1>c, <1>1, <1>3, <1>4, <1>6, <1>7, <1>8, <1>9, ReleasesRuns, NextCases

HoldInv == CloseInv /\ OpenWhole /\ InstHolds /\ ClosedReleases

(* CloseInv, and what each module holds: an open one everything from its   *)
(* registration on, one being instantiated what its steps have acquired,   *)
(* a closed one what the single goroutine that releases it has left.       *)
THEOREM HoldInvariance == Spec => []HoldInv
<1>1. Init => OpenWhole /\ InstHolds /\ ClosedReleases
  <2> SUFFICES ASSUME Init PROVE OpenWhole /\ InstHolds /\ ClosedReleases
      OBVIOUS
  <2>1. /\ \A t \in Threads : Len(stack[t]) = 0
        /\ \A m \in Modules : closed[m] = "open" /\ resources[m] = {} /\ notified[m] = 0
        /\ registered = {}
      BY DEF Init
  <2> QED BY <2>1 DEF OpenWhole, OpenOf, InstHolds, HoldsOf, ClosedReleases, ReleasesOf
<1>2. CloseInv /\ OpenWhole /\ InstHolds /\ ClosedReleases /\ [Next]_vars =>
          OpenWhole' /\ InstHolds' /\ ClosedReleases'
    BY OpenWholeNext, InstHoldsNext, ReleasesNext DEF CloseInv, KnownInv
<1> QED BY <1>1, <1>2, CloseInvariance, PTL DEF Spec, HoldInv

(* Whatever the interleaving of instantiations, calls, closes and done     *)
(* contexts: at rest a closed module holds nothing and was notified once,  *)
(* and whatever is still held belongs to an open module that the embedder  *)
(* and the store know, or is the code that a closed runtime refused.       *)
THEOREM NothingIsLost == Spec => []NothingLost
<1>1. HoldInv => NothingLost
  <2> SUFFICES ASSUME HoldInv, Quiet, NEW m \in Modules
               PROVE  /\ closed[m] = "closed" =>
                            resources[m] = {} /\ (m \in registered => notified[m] = 1)
                      /\ closed[m] = "open" /\ resources[m] # {} =>
                            \/ m \in visible \cap registered
                            \/ runtimeClosed /\ resources[m] = {"code"}
      BY DEF NothingLost
  <2>1. \A t \in Threads : ~ Len(stack[t]) > 0
      BY DEF Quiet
  <2>2. \A t \in Threads : ~ InChain(t, m) /\ ~ InInst(t, m) /\ ~ InAfter(t, m)
      BY <2>1 DEF InChain, InInst, InAfter
  <2>3. Known /\ OpenOf(m) /\ ReleasesOf(m)
      BY DEF HoldInv, CloseInv, KnownInv, OpenWhole, ClosedReleases
  <2>4. m \in registered /\ closed[m] = "open" => m \in visible
      BY <2>2, <2>3 DEF Known
  <2> QED BY <2>2, <2>3, <2>4 DEF OpenOf, ReleasesOf
<1> QED BY <1>1, HoldInvariance, PTL
----------------------------------------------------------------------------
(* What the lifecycle does to the store.                                   *)

(* Every step of a goroutine or of a watcher is one operation of the       *)
(* store, on a module, or leaves it alone: registerModule only where it is *)
(* accepted, deleteModule whoever closes, and one critical section that    *)
(* closes the store.  Since StoreModuleList implements StoreModules, what  *)
(* is proved here of names and lists holds for the linked list as well.    *)
THEOREM LifecycleUsesStore == Spec => StoreSpec
<1>1. Init => StoreInit
    BY DEF Init
<1>2. StackInv /\ [Next]_vars => [StoreNext]_storeVars
  <2> SUFFICES ASSUME StackInv, [Next]_vars PROVE [StoreNext]_storeVars
      OBVIOUS
  <2>0. TypeOK /\ Shape
      BY DEF StackInv
  <2>1. ASSUME NEW t \in Threads, Runs(t) PROVE [StoreNext]_storeVars
    <3>0. Len(stack[t]) > 0 /\ Dispatch(t) /\ Effects(t) /\ Top(t) = stack[t][1].m
        BY <2>0, <2>1, RunsLabel, TopIs
    <3>1. CASE stack[t][1].at = "delete"
      <4>1. deleteModule(Top(t))
          BY <3>0, <3>1 DEF Dispatch, CloseDelete
      <4>2. Top(t) \in Modules
          BY <2>0, <3>0, <3>1, TopModule DEF Closers
      <4> QED BY <4>1, <4>2 DEF StoreNext
    <3>2. CASE stack[t][1].at = "snapshot"
        BY <3>0, <3>2 DEF Dispatch, StoreSnapshot, StoreNext
    <3> QED BY <3>0, <3>1, <3>2 DEF Effects
  <2>2. ASSUME NEW t \in Threads, InstantiateRegister(t), Registrable(Top(t)), Registers(t)
        PROVE  StoreNext
    <3>1. registerModule(Top(t))
        BY <2>2 DEF InstantiateRegister
    <3>2. Top(t) \in Modules
        BY <2>0, <2>2, TopModule DEF Registers, Closers
    <3> QED BY <3>1, <3>2 DEF StoreNext
  <2>3. ASSUME NEW m \in Modules, AsyncDelete(m) PROVE StoreNext
      BY <2>3 DEF AsyncDelete, StoreNext
  <2> QED BY <2>1, <2>2, <2>3, NextCases
      DEF StartCloseRuntime, StartInstantiate, StartCall, StartClose, ContextDone,
          AsyncSetExitCode, vars
<1> QED BY <1>1, <1>2, StackInvariance, PTL DEF Spec, StoreSpec
----------------------------------------------------------------------------
(* Modules that are not closed by a context: where NotifiedOnce and        *)
(* CloseReleases, which fail for those that are, hold.                     *)

(* CloseNotify is called at most once, and not before the release gets     *)
(* there.                                                                  *)
NotifyOf(m) ==
    closed[m] = "closed" =>
        /\ notified[m] <= 1
        /\ \A t \in Threads : InChain(t, m) /\ stack[t][1].at \in {"delete", "notify"} =>
              notified[m] = 0

NotifiesOnce == \A m \in Modules : NotifyOf(m)

(* Who has returned from a Close finds the module closed. *)
ReturnedClosed ==
    /\ \A m \in closeReturned : closed[m] # "open"
    /\ \A t \in Threads : Len(stack[t]) > 0 /\ stack[t][1].at = "returned" =>
          closed[stack[t][1].m] # "open"

(* Running goroutines keep NotifiesOnce: the one that releases the module  *)
(* notifies, once.                                                         *)
LEMMA NotifyRuns ==
    ASSUME StackInv, OpenWhole, ClosedReleases, NotifiesOnce,
           NEW t \in Threads, Runs(t), Moved(t),
           \A m \in Modules : closed[m] # "open" => closed'[m] = closed[m]
    PROVE  NotifiesOnce'
<1>0. /\ TypeOK /\ Len(stack[t]) > 0 /\ Others(t) /\ Dispatch(t) /\ Effects(t)
      /\ Len(stack[t]) \in Nat /\ notified \in [Modules -> Nat]
    BY RunsLabel, MovedOrigin, TopIs DEF StackInv, TypeOK
<1> SUFFICES ASSUME NEW m \in Modules, closed'[m] = "closed" PROVE NotifyOf(m)'
    BY DEF NotifiesOnce, NotifyOf
<1>o. \A u \in Threads : u # t => (InChain(u, m)' <=> InChain(u, m)) /\ stack'[u] = stack[u]
    BY <1>0, OthersChain
<1>1. CASE closed[m] = "open"
  <2>1. notified' = notified
      BY <1>0, <1>1 DEF Effects
  <2>2. notified'[m] = 0
      BY <1>1, <2>1 DEF OpenWhole, OpenOf
  <2> QED BY <2>2 DEF NotifyOf
<1>2. CASE closed[m] # "open"
  <2>0. closed[m] = "closed" /\ NotifyOf(m) /\ ReleasesOf(m)
      BY <1>2 DEF NotifiesOnce, ClosedReleases
  <2>1. CASE stack[t][1].m = m /\ stack[t][1].at = "notify"
    <3>1. InChain(t, m) /\ notified[m] = 0
        BY <1>0, <2>0, <2>1 DEF InChain, Chain, Releases, NotifyOf
    <3>2. \A u \in Threads : u # t => ~ InChain(u, m)'
        BY <1>o, <2>0, <3>1 DEF ReleasesOf
    <3>3. /\ notified'[m] \in {0, 1}
          /\ stack'[t][1].at \in {"forget", "sys"}
      <4>1. \/ notified'[m] = notified[m] + 1 /\ Went(t, "forget")
            \/ notified'[m] = notified[m] /\ Went(t, "sys")
          BY <2>1, HeldStep
      <4> QED BY <3>1, <4>1 DEF Went
    <3> QED BY <3>2, <3>3 DEF NotifyOf
  <2>2. CASE ~ (stack[t][1].m = m /\ stack[t][1].at = "notify")
    <3>1. notified'[m] = notified[m]
        BY <2>2, HeldStep, HeldOthers
    <3>2. ASSUME InChain(t, m)', stack'[t][1].at \in {"delete", "notify"}
          PROVE  notified[m] = 0
      <4>1. PICK l \in Labels : /\ <<stack[t][1].at, l>> \in Moves /\ Went(t, l)
                                /\ l \in {"delete", "notify"} /\ stack[t][1].m = m
          BY <3>2, ChainNotCaller DEF InChain
      <4>2. stack[t][1].at \in {"close", "closeStore", "delete", "fail"}
          BY <4>1 DEF Moves
      <4>3. ~ Popped(t)
        <5>1. Len(stack'[t]) = Len(stack[t])
            BY <4>1 DEF Went
        <5>2. \A n \in Nat : n # n - 1
            OBVIOUS
        <5> QED BY <1>0, <5>1, <5>2 DEF Popped
      <4>4. stack[t][1].at # "fail"
          BY <1>0, <2>0, <4>1, <4>3, FailStep DEF Dispatch
      <4>5. stack[t][1].at \notin {"close", "closeStore"}
          BY <1>0, <2>0, <4>1, <4>3, SetExitCodeStep DEF Dispatch
      <4>6. InChain(t, m)
          BY <1>0, <4>1, <4>2, <4>4, <4>5 DEF InChain, Chain
      <4> QED BY <2>0, <4>2, <4>4, <4>5, <4>6 DEF NotifyOf
    <3> QED BY <1>o, <2>0, <3>1, <3>2 DEF NotifyOf
  <2> QED BY <2>1, <2>2
<1> QED BY <1>1, <1>2

(* Every step keeps NotifiesOnce. *)
LEMMA NotifyNext ==
    ASSUME HoldInv, NotifiesOnce, [Next]_vars
    PROVE  NotifiesOnce'
<1>0. StackInv /\ OpenWhole /\ ClosedReleases /\ TypeOK
    BY DEF HoldInv, CloseInv, KnownInv, StackInv
<1>c. \A m \in Modules : closed[m] # "open" => closed'[m] = closed[m]
    BY <1>0, ClosedStays
<1>1. ASSUME notified' = notified,
             \A m \in Modules : closed'[m] = "closed" => closed[m] = "closed",
             \A u \in Threads : \/ stack'[u] = stack[u]
                                \/ stack'[u][1].at \notin {"delete", "notify"}
      PROVE  NotifiesOnce'
    BY <1>1 DEF NotifiesOnce, NotifyOf, InChain
<1>2. ASSUME NEW t \in Threads, InstantiateRegister(t), Registrable(Top(t)), Registers(t)
      PROVE  NotifiesOnce'
  <2>1. /\ notified' = notified /\ closed' = closed /\ Others(t)
        /\ stack'[t][1].at = "started"
      BY <1>2 DEF Registers, Went, InstantiateRegister
  <2> QED BY <1>1, <2>1 DEF Others
<1>3. ASSUME NEW t \in Threads, Begun(t), notified' = notified, closed' = closed
      PROVE  NotifiesOnce'
  <2>1. Others(t) /\ stack'[t][1].at \in {"check", "begin", "close", "snapshot"}
    <3>1. ASSUME NEW l, NEW m, Pushed(t, l, m) PROVE Others(t) /\ stack'[t][1].at = l
        BY <3>1 DEF Pushed
    <3>2. ASSUME NEW m, PushedClose(t, m) PROVE Others(t) /\ stack'[t][1].at = "close"
        BY <3>2 DEF PushedClose
    <3> QED BY <1>3, <3>1, <3>2 DEF Begun
  <2> QED BY <1>1, <1>3, <2>1 DEF Others
<1>4. ASSUME NEW m \in Modules, AsyncSetExitCode(m) PROVE NotifiesOnce'
  <2>1. \A x \in Modules : closed'[x] = "closed" => closed[x] = "closed"
      BY <1>0, <1>4 DEF AsyncSetExitCode, TypeOK
  <2> QED BY <1>1, <1>4, <2>1 DEF AsyncSetExitCode
<1>5. CASE notified' = notified /\ closed' = closed /\ stack' = stack
    BY <1>1, <1>5
<1> QED BY <1>0, <1>c, <1>2, <1>3, <1>4, <1>5, NotifyRuns, NextCases
    DEF StartCloseRuntime, StartInstantiate, StartCall, StartClose, ContextDone,
        AsyncDelete, vars

(* Only the return of a Close is recorded. *)
LEMMA ReturnsRecorded ==
    ASSUME NEW t \in Threads, Runs(t)
    PROVE  CloseReturned(t) \/ closeReturned' = closeReturned
    BY DEF Runs, Step, CloseSetExitCode, CloseDelete, EnsureNotify, EnsureForget, EnsureSys,
       EnsureRetire, EnsureCode, BeginExecution, GuestReturn, GuestTrap, HostClose,
       FailIfClosed, InstantiateCheck, InstantiatePrecheck, InstantiateBuild,
       InstantiateSection, InstantiateHooks, InstantiateRegister, InstantiateStart,
       InstantiateStarted, InstantiateAbort, InstantiateDrop, StoreSnapshot, StoreUnlock,
       StoreCloseEach, StoreCloseDone, histVars

(* A goroutine gets back to where its Close returns once the module is     *)
(* closed, by itself or by another.                                        *)
LEMMA ReturnedRuns ==
    ASSUME StackInv, ClosedTop, ReturnedClosed, NEW t \in Threads, Runs(t), Moved(t),
           \A m \in Modules : closed[m] # "open" => closed'[m] = closed[m]
    PROVE  ReturnedClosed'
<1>0. /\ TypeOK /\ Shape /\ Len(stack[t]) > 0 /\ Others(t) /\ Dispatch(t) /\ Effects(t)
      /\ Len(stack[t]) \in Nat /\ Top(t) = stack[t][1].m /\ closeReturned \subseteq Modules
    BY RunsLabel, MovedOrigin, TopIs DEF StackInv, TypeOK
<1>1. ASSUME NEW m \in closeReturned' PROVE closed'[m] # "open"
  <2>1. CASE m \in closeReturned
      BY <1>0, <2>1 DEF ReturnedClosed
  <2>2. CASE m \notin closeReturned
    <3>1. CloseReturned(t)
        BY <1>1, <2>2, ReturnsRecorded
    <3>2. m = stack[t][1].m /\ stack[t][1].at = "returned"
        BY <1>0, <1>1, <2>2, <3>1, TopIs DEF CloseReturned
    <3>3. m \in Modules
        BY <1>0, <3>2, TopModule DEF Closers
    <3> QED BY <1>0, <3>2, <3>3 DEF ReturnedClosed
  <2> QED BY <2>1, <2>2
<1>2. ASSUME Len(stack'[t]) > 0, stack'[t][1].at = "returned"
      PROVE  closed'[stack'[t][1].m] # "open"
  <2>1. ASSUME NEW l \in Labels, <<stack[t][1].at, l>> \in Moves, Went(t, l) PROVE FALSE
      BY <1>2, <2>1 DEF Moves, Went
  <2>2. ASSUME NEW l \in Labels, NEW r \in Labels, NEW m \in Modules,
               <<stack[t][1].at, l, r>> \in Calls, Called(t, l, m, r)
        PROVE  FALSE
      BY <1>2, <2>2, CallLabels DEF Called
  <2>3. Popped(t)
      BY <2>1, <2>2 DEF Moved
  <2>4. Len(stack[t]) > 1 /\ stack'[t][1] = stack[t][2]
      BY <1>0, <1>2, <2>3 DEF Popped
  <2>5. Over(stack[t][1], stack[t][2])
      BY <1>0, <2>4 DEF Shape, ShapeOf
  <2>6. stack[t][1].at \in {"close"} \cup Chain /\ stack[t][1].m = stack'[t][1].m
      BY <1>2, <2>4, <2>5 DEF Over
  <2>7. stack[t][1].m \in Modules
      BY <1>0, <2>6, TopModule DEF Closers, Chain, Releases
  <2>8. closed[stack[t][1].m] # "open"
    <3>1. CASE stack[t][1].at = "close"
      <4>1. \A l : ~ Went(t, l)
        <5>1. \A n \in Nat : n # n - 1
            OBVIOUS
        <5> QED BY <1>0, <2>3, <5>1 DEF Went, Popped
      <4> QED BY <1>0, <3>1, <4>1, SetExitCodeStep DEF Dispatch
    <3>2. CASE stack[t][1].at \in Chain
        BY <1>0, <3>2 DEF ClosedTop
    <3> QED BY <2>6, <3>1, <3>2
  <2> QED BY <2>6, <2>7, <2>8
<1>3. ASSUME NEW u \in Threads, u # t, Len(stack'[u]) > 0, stack'[u][1].at = "returned"
      PROVE  closed'[stack'[u][1].m] # "open"
  <2>1. stack'[u] = stack[u]
      BY <1>0, <1>3 DEF Others
  <2>2. stack[u][1].m \in Modules
      BY <1>0, <1>3, <2>1, TopModule DEF Closers
  <2> QED BY <1>3, <2>1, <2>2 DEF ReturnedClosed
<1> QED BY <1>1, <1>2, <1>3 DEF ReturnedClosed

(* Every step keeps ReturnedClosed. *)
LEMMA ReturnedNext ==
    ASSUME KnownInv, ReturnedClosed, [Next]_vars
    PROVE  ReturnedClosed'
<1>0. StackInv /\ ClosedTop /\ TypeOK /\ Shape /\ closeReturned \subseteq Modules
    BY DEF KnownInv, StackInv, TypeOK
<1>c. \A m \in Modules : closed[m] # "open" => closed'[m] = closed[m]
    BY <1>0, ClosedStays
<1>1. ASSUME closeReturned' = closeReturned,
             \A u \in Threads : \/ stack'[u] = stack[u]
                                \/ stack'[u][1].at # "returned"
      PROVE  ReturnedClosed'
  <2>1. \A m \in closeReturned' : closed'[m] # "open"
      BY <1>0, <1>c, <1>1 DEF ReturnedClosed
  <2>2. ASSUME NEW u \in Threads, Len(stack'[u]) > 0, stack'[u][1].at = "returned"
        PROVE  closed'[stack'[u][1].m] # "open"
    <3>1. stack'[u] = stack[u] /\ stack[u][1].m \in Modules
        BY <1>0, <1>1, <2>2, TopModule DEF Closers
    <3> QED BY <1>c, <2>2, <3>1 DEF ReturnedClosed
  <2> QED BY <2>1, <2>2 DEF ReturnedClosed
<1>2. ASSUME NEW t \in Threads, InstantiateRegister(t), Registrable(Top(t)), Registers(t)
      PROVE  ReturnedClosed'
  <2>1. closeReturned' = closeReturned /\ Others(t) /\ stack'[t][1].at = "started"
      BY <1>2 DEF Registers, Went, InstantiateRegister
  <2> QED BY <1>1, <2>1 DEF Others
<1>3. ASSUME NEW t \in Threads, Begun(t), closeReturned' = closeReturned
      PROVE  ReturnedClosed'
  <2>1. Others(t) /\ stack'[t][1].at \in {"check", "begin", "close", "snapshot"}
    <3>1. ASSUME NEW l, NEW m, Pushed(t, l, m) PROVE Others(t) /\ stack'[t][1].at = l
        BY <3>1 DEF Pushed
    <3>2. ASSUME NEW m, PushedClose(t, m) PROVE Others(t) /\ stack'[t][1].at = "close"
        BY <3>2 DEF PushedClose
    <3> QED BY <1>3, <3>1, <3>2 DEF Begun
  <2> QED BY <1>1, <1>3, <2>1 DEF Others
<1>4. CASE closeReturned' = closeReturned /\ stack' = stack
    BY <1>1, <1>4
<1> QED BY <1>0, <1>c, <1>2, <1>3, <1>4, ReturnedRuns, NextCases
    DEF StartCloseRuntime, StartInstantiate, StartCall, StartClose, ContextDone,
        AsyncSetExitCode, AsyncDelete, histVars, vars

SyncInv == HoldInv /\ NotifiesOnce /\ ReturnedClosed

(* HoldInv, and of the modules closed by Close or by the store: one        *)
(* notification, and closed once a Close has returned.                     *)
THEOREM SyncInvariance == Spec => []SyncInv
<1>1. Init => NotifiesOnce /\ ReturnedClosed
    BY DEF Init, NotifiesOnce, NotifyOf, ReturnedClosed
<1>2. HoldInv /\ NotifiesOnce /\ ReturnedClosed /\ [Next]_vars =>
          NotifiesOnce' /\ ReturnedClosed'
    BY NotifyNext, ReturnedNext DEF HoldInv, CloseInv
<1> QED BY <1>1, <1>2, HoldInvariance, PTL DEF Spec, SyncInv

(* What experimental/close.go and api/wasm.go promise of module m. *)
ClosesAsPromised(m) ==
    /\ notified[m] <= 1
    /\ Quiet /\ m \in closeReturned => resources[m] = {}

(* In any interleaving CloseNotify is called at most once for a module     *)
(* and, once a Close of it has returned and nothing runs, it holds         *)
(* nothing, unless a done context closed it: NotifiedOnce and              *)
(* CloseReleases fail for no other module.                                 *)
THEOREM OnlyAsyncFails ==
    Spec => [](\A m \in Modules : closed[m] # "notClosed" => ClosesAsPromised(m))
<1>1. SyncInv => \A m \in Modules : closed[m] # "notClosed" => ClosesAsPromised(m)
  <2> SUFFICES ASSUME SyncInv, NEW m \in Modules, closed[m] # "notClosed"
               PROVE  ClosesAsPromised(m)
      OBVIOUS
  <2>0. TypeOK /\ HoldInv
      BY DEF SyncInv, HoldInv, CloseInv, KnownInv, StackInv
  <2>1. notified[m] <= 1
    <3>1. CASE closed[m] = "open"
        BY <2>0, <3>1 DEF HoldInv, OpenWhole, OpenOf
    <3>2. CASE closed[m] = "closed"
        BY <3>2 DEF SyncInv, NotifiesOnce, NotifyOf
    <3> QED BY <2>0, <3>1, <3>2 DEF TypeOK
  <2>2. ASSUME Quiet, m \in closeReturned PROVE resources[m] = {}
    <3>1. closed[m] = "closed"
        BY <2>0, <2>2 DEF SyncInv, ReturnedClosed, TypeOK
    <3>2. \A t \in Threads : ~ InChain(t, m) /\ ~ InInst(t, m)
        BY <2>2 DEF Quiet, InChain, InInst
    <3> QED BY <2>0, <3>1, <3>2 DEF HoldInv, ClosedReleases, ReleasesOf
  <2> QED BY <2>1, <2>2 DEF ClosesAsPromised
<1> QED BY <1>1, SyncInvariance, PTL

(* No context of a call is done while the call runs. *)
NeverCanceled == [][\A t \in Threads, m \in Modules : ~ ContextDone(t, m)]_vars

NoneAsync == \A m \in Modules : watcher[m] = "off" /\ closed[m] # "notClosed"

(* As long as no context closes a module, both promises of the docs hold   *)
(* for every module, whoever closes it: Close, a host function, the store  *)
(* or a failed instantiation.                                              *)
THEOREM SynchronousCloses ==
    Spec /\ NeverCanceled => [](NotifiedOnce /\ CloseReleases)
<1>1. Init => NoneAsync
    BY DEF Init, NoneAsync
<1>2. StackInv /\ NoneAsync /\ [Next]_vars
        /\ [\A t \in Threads, m \in Modules : ~ ContextDone(t, m)]_vars => NoneAsync'
  <2> SUFFICES ASSUME StackInv, NoneAsync, [Next]_vars,
                      [\A t \in Threads, m \in Modules : ~ ContextDone(t, m)]_vars
               PROVE  NoneAsync'
      OBVIOUS
  <2>0. TypeOK
      BY DEF StackInv
  <2>1. CASE watcher' = watcher /\ closed' = closed
      BY <2>1 DEF NoneAsync
  <2>2. ASSUME NEW t \in Threads, Runs(t) PROVE NoneAsync'
    <3>1. Dispatch(t) /\ Effects(t)
        BY <2>0, <2>2, RunsLabel
    <3>2. CASE CloseSetExitCode(t)
      <4>1. watcher' = watcher /\ closed \in [Modules -> {"open", "closed", "notClosed"}]
          BY <2>0, <3>2 DEF CloseSetExitCode, TypeOK
      <4>2. closed' = closed \/ closed' = [closed EXCEPT ![stack[t][1].m] = "closed"]
          BY <3>2, SetExitCodeStep
      <4> QED BY <4>1, <4>2 DEF NoneAsync
    <3> QED BY <2>1, <3>1, <3>2 DEF Effects, Dispatch
  <2>3. \A t \in Threads, m \in Modules : ContextDone(t, m) => UNCHANGED vars
      OBVIOUS
  <2>4. \A m \in Modules : ~ AsyncSetExitCode(m) /\ ~ AsyncDelete(m)
      BY DEF NoneAsync, AsyncSetExitCode, AsyncDelete
  <2> QED BY <2>1, <2>2, <2>3, <2>4, NextCases
      DEF InstantiateRegister, StartCloseRuntime, StartInstantiate, StartCall, StartClose,
          vars
<1>3. /\ TypeOK /\ NoneAsync
      /\ \A m \in Modules : closed[m] # "notClosed" => ClosesAsPromised(m)
      => NotifiedOnce /\ CloseReleases
    BY DEF NoneAsync, ClosesAsPromised, NotifiedOnce, CloseReleases, TypeOK
<1> QED BY <1>1, <1>2, <1>3, StackInvariance, LifecycleTypeCorrect, OnlyAsyncFails, PTL
    DEF Spec, NeverCanceled
============================================================================
