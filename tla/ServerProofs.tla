----------------------------- MODULE ServerProofs -----------------------------
(***************************************************************************)
(* Proofs about Server, for any number of handlers, any rows and any size  *)
(* of the pool.  A step of a handler changes the record of that handler    *)
(* only, so that most of the argument is about one record; Mine collects   *)
(* what the record has to satisfy.                                         *)
(***************************************************************************)
EXTENDS Server, FiniteSetTheorems, SequenceTheorems, TLAPS

\* A handler that asks for the database, or uses it, has a statement to make.
Mine(x) ==
    x.pc \in {"waiting", "running", "locked", "stored"} =>
        x.todo # <<>> /\ Head(x.todo) # "call"

\* Once Shutdown has begun nobody can connect any more.
Listener == ShuttingDown => listener # "open"

IInv ==
    /\ TypeOK
    /\ \A h \in Handlers : Mine(handlers[h])
    /\ Listener
    /\ ClosesAfterDrain

-----------------------------------------------------------------------------
(* Facts about the data. *)

\* Every path is a sequence of steps.
LEMMA PathType ==
    \A op \in {"probe", "plain", "issue", "read", "start", "callback",
               "exchange", "rclone"} : Path[op] \in Seq(Step)
<1>1. \A s \in Step : <<s>> \in Seq(Step)
  OBVIOUS
<1>2. \A s, t \in Step : <<s, t>> \in Seq(Step)
  OBVIOUS
<1>3. \A s, t, u \in Step : <<s, t, u>> \in Seq(Step)
  OBVIOUS
<1>4. \A s, t, u, v \in Step : <<s, t, u, v>> \in Seq(Step)
  OBVIOUS
<1>5. \A s, t, u, v, w \in Step : <<s, t, u, v, w>> \in Seq(Step)
  OBVIOUS
<1>6. <<>> \in Seq(Step)
  OBVIOUS
<1>7. {"plain", "session", "cloud", "redeem", "call"} = Step
  BY DEF Step
<1>8. Path["probe"] \in Seq(Step)
  BY <1>6, <1>7 DEF Path
<1>9. Path["plain"] \in Seq(Step)
  BY <1>1, <1>7 DEF Path
<1>10. Path["issue"] \in Seq(Step)
  BY <1>4, <1>7 DEF Path
<1>11. Path["read"] \in Seq(Step)
  BY <1>2, <1>7 DEF Path
<1>12. Path["start"] \in Seq(Step)
  BY <1>3, <1>7 DEF Path
<1>13. Path["callback"] \in Seq(Step)
  BY <1>4, <1>7 DEF Path
<1>14. Path["exchange"] \in Seq(Step)
  BY <1>2, <1>7 DEF Path
<1>15. Path["rclone"] \in Seq(Step)
  BY <1>5, <1>7 DEF Path
<1> QED
  BY <1>8, <1>9, <1>10, <1>11, <1>12, <1>13, <1>14, <1>15

LEMMA IdleType == Idle \in Handler /\ Mine(Idle) /\ Idle.pc = "idle"
BY DEF Idle, Handler, Mine

\* The handlers that hold a connection are finitely many.
LEMMA HoldersFinite == IsFiniteSet(Holders) /\ Cardinality(Holders) \in Nat
<1>1. Holders \subseteq Handlers
  BY DEF Holders
<1>2. IsFiniteSet(Handlers)
  BY PoolAssumption
<1> QED
  BY <1>1, <1>2, FS_Subset, FS_CardinalityType

\* A step that gives no connection away keeps within the size of the pool.
LEMMA NoMoreHolders ==
    ASSUME Cardinality(Holders) <= PoolSize, Holders' \subseteq Holders
    PROVE  Cardinality(Holders') <= PoolSize
<1>1. Cardinality(Holders') <= Cardinality(Holders) /\ Cardinality(Holders') \in Nat
  BY HoldersFinite, FS_Subset, FS_CardinalityType
<1> QED
  BY <1>1, HoldersFinite, PoolAssumption

\* What a step of one handler that takes no connection preserves.
LEMMA HandlerStep ==
    ASSUME IInv,
           NEW h \in Handlers,
           NEW x \in Handler,
           handlers' = [handlers EXCEPT ![h] = x],
           UNCHANGED <<phase, listener, timedOut>>,
           Mine(x),
           x.pc \in {"running", "locked", "stored"} => Holds(h),
           ~ At(h, "idle") \/ x.pc = "idle" \/ phase # "closing"
    PROVE  IInv'
<1>1. handlers' \in [Handlers -> Handler]
  BY DEF IInv, TypeOK
<1>2. \A g \in Handlers : handlers'[g] = IF g = h THEN x ELSE handlers[g]
  BY DEF IInv, TypeOK
<1>3. Holders' \subseteq Holders
  BY <1>2 DEF Holders, Holds
<1>4. Cardinality(Holders') <= PoolSize
  BY <1>3, NoMoreHolders DEF IInv, TypeOK
<1>5. TypeOK'
  BY <1>1, <1>4 DEF IInv, TypeOK
<1>6. \A g \in Handlers : Mine(handlers'[g])
  BY <1>2 DEF IInv
<1>7. Listener'
  BY DEF IInv, Listener, ShuttingDown
<1>8. ClosesAfterDrain'
  BY <1>2 DEF IInv, ClosesAfterDrain, At
<1> QED
  BY <1>5, <1>6, <1>7, <1>8 DEF IInv

\* The form most actions have: the record keeps its rows.
LEMMA MoveStep ==
    ASSUME IInv,
           NEW h \in Handlers,
           NEW pc \in {"accepted", "ready", "waiting", "locked", "stored",
                       "calling"},
           NEW todo \in Seq(Step),
           handlers' = [handlers EXCEPT ![h].pc = pc, ![h].todo = todo],
           UNCHANGED <<phase, listener, timedOut>>,
           pc \in {"waiting", "locked", "stored"} =>
               todo # <<>> /\ Head(todo) # "call",
           pc \in {"locked", "stored"} => Holds(h),
           ~ At(h, "idle") \/ phase # "closing"
    PROVE  IInv'
<1> DEFINE x == [handlers[h] EXCEPT !.pc = pc, !.todo = todo]
<1>1. handlers[h] \in Handler
  BY DEF IInv, TypeOK
<1>2. x \in Handler /\ x.pc = pc /\ x.todo = todo
  BY <1>1 DEF Handler
<1>3. handlers' = [handlers EXCEPT ![h] = x]
  BY DEF IInv, TypeOK
<1>4. Mine(x)
  BY <1>2 DEF Mine
<1> HIDE DEF x
<1> QED
  BY <1>2, <1>3, <1>4, HandlerStep

\* A step back to the client.
LEMMA FinishStep ==
    ASSUME IInv,
           NEW h \in Handlers,
           Finish(h),
           UNCHANGED <<phase, listener, timedOut>>
    PROVE  IInv'
BY HandlerStep, IdleType DEF Finish

\* What is left of a path when its first step has been done.
LEMMA TailType ==
    ASSUME NEW todo \in Seq(Step), todo # <<>>
    PROVE  Tail(todo) \in Seq(Step)
OBVIOUS

-----------------------------------------------------------------------------
(* The steps of main. *)

LEMMA InitInv == Init => IInv
<1> SUFFICES ASSUME Init PROVE IInv
  OBVIOUS
<1>1. handlers \in [Handlers -> Handler] /\ \A h \in Handlers : handlers[h] = Idle
  BY IdleType DEF Init
<1>2. Holders = {}
  BY <1>1, IdleType DEF Holders, Holds
<1>3. Cardinality(Holders) <= PoolSize
  BY <1>2, FS_EmptySet, PoolAssumption
<1> QED
  BY <1>1, <1>3, IdleType
  DEF Init, IInv, TypeOK, Listener, ShuttingDown, ClosesAfterDrain

\* The process ends and leaves nothing behind.
LEMMA GoneInv == Gone => IInv'
<1> SUFFICES ASSUME Gone PROVE IInv'
  OBVIOUS
<1>1. handlers' \in [Handlers -> Handler] /\ \A h \in Handlers : handlers'[h] = Idle
  BY IdleType DEF Gone
<1>2. Holders' = {}
  BY <1>1, IdleType DEF Holders, Holds
<1>3. Cardinality(Holders') <= PoolSize
  BY <1>2, FS_EmptySet, PoolAssumption
<1> QED
  BY <1>1, <1>3, IdleType
  DEF Gone, IInv, TypeOK, Listener, ShuttingDown, ClosesAfterDrain

LEMMA MainInv ==
    ASSUME IInv, Main
    PROVE  IInv'
<1> DEFINE Quiet == Start \/ Connected \/ Notify \/ Listen \/ Shutdown
                      \/ Drained \/ DrainTimeout
<1>1. CASE Quiet
  <2>1. UNCHANGED handlers
    BY <1>1 DEF Start, Connected, Notify, Listen, Shutdown, Drained, DrainTimeout
  <2>2. Cardinality(Holders') <= PoolSize
    BY <2>1 DEF IInv, TypeOK, Holders, Holds
  <2>3. TypeOK'
    BY <1>1, <2>1, <2>2
    DEF IInv, TypeOK, Start, Connected, Notify, Listen, Shutdown, Drained,
        DrainTimeout
  <2>4. Listener'
    BY <1>1
    DEF IInv, TypeOK, Listener, ShuttingDown, Start, Connected, Notify, Listen,
        Shutdown, Drained, DrainTimeout
  <2>5. ClosesAfterDrain'
    BY <1>1, <2>1
    DEF IInv, TypeOK, ClosesAfterDrain, At, Start, Connected, Notify, Listen,
        Shutdown, Drained, DrainTimeout
  <2> QED
    BY <2>1, <2>3, <2>4, <2>5 DEF IInv
<1>2. CASE Exit \/ ConnectFails \/ ListenFails \/ Crash
  BY <1>2, GoneInv DEF Exit, ConnectFails, ListenFails, Crash
<1> QED
  BY <1>1, <1>2 DEF Main

-----------------------------------------------------------------------------
(* The steps of a handler. *)

\* Only Acquire gives a connection away, and there is one left to give.
LEMMA AcquireInv ==
    ASSUME IInv, NEW h \in Handlers, Acquire(h)
    PROVE  IInv'
<1> DEFINE x == [handlers[h] EXCEPT !.pc = "running"]
<1>1. handlers[h] \in Handler /\ handlers' = [handlers EXCEPT ![h] = x]
  BY DEF IInv, TypeOK, Acquire, Goto
<1>2. x \in Handler /\ x.pc = "running" /\ x.todo = handlers[h].todo
  BY <1>1 DEF Handler
<1>3. Mine(x)
  BY <1>2 DEF Mine, IInv, Acquire, At
<1> HIDE DEF x
<1>4. handlers' \in [Handlers -> Handler]
  BY <1>1, <1>2 DEF IInv, TypeOK
<1>5. \A g \in Handlers : handlers'[g] = IF g = h THEN x ELSE handlers[g]
  BY <1>1 DEF IInv, TypeOK
<1>6. Holders' = Holders \cup {h} /\ h \notin Holders
  BY <1>2, <1>5 DEF Holders, Holds, Acquire, At
<1>7. Cardinality(Holders') = Cardinality(Holders) + 1
  BY <1>6, HoldersFinite, FS_AddElement
<1>8. Cardinality(Holders') <= PoolSize
  BY <1>7, HoldersFinite, PoolAssumption DEF Acquire, PoolFree
<1>9. TypeOK'
  BY <1>4, <1>8 DEF IInv, TypeOK, Acquire
<1>10. \A g \in Handlers : Mine(handlers'[g])
  BY <1>3, <1>5 DEF IInv
<1>11. Listener' /\ ClosesAfterDrain'
  BY DEF IInv, Listener, ShuttingDown, ClosesAfterDrain, Acquire, PoolOpen
<1> QED
  BY <1>9, <1>10, <1>11 DEF IInv

\* A step that has been done leaves the handler ready for the next.
LEMMA AdvanceInv ==
    ASSUME IInv, NEW h \in Handlers, Advance(h),
           ~ At(h, "idle"), handlers[h].todo # <<>>,
           UNCHANGED <<phase, listener, timedOut>>
    PROVE  IInv'
<1> DEFINE rest == Tail(handlers[h].todo)
<1>1. handlers[h].todo \in Seq(Step)
  BY DEF IInv, TypeOK, Handler
<1>2. rest \in Seq(Step)
  BY <1>1, TailType
<1>3. handlers' = [handlers EXCEPT ![h].pc = "ready", ![h].todo = rest]
  BY DEF Advance, IInv, TypeOK, Handler
<1> HIDE DEF rest
<1> QED
  BY <1>2, <1>3, MoveStep

\* A handler without a connection begins to serve a request.
LEMMA ArriveInv ==
    ASSUME IInv, NEW h \in Handlers, Arrive(h)
    PROVE  IInv'
<1>1. PICK op \in {"probe", "plain", "issue", "read", "start", "callback",
                   "exchange", "rclone"},
           s \in Sessions \cup {None}, a \in Accounts \cup {None} :
               Request(h, op, s, a)
  <2>1. \A s \in Sessions : AccountOf[s] \in Accounts
    BY AccountAssumption
  <2> QED
    BY <2>1 DEF Arrive
<1> DEFINE x == [pc |-> "ready", todo |-> Path[op], session |-> s,
                 account |-> a]
<1>2. Path[op] \in Seq(Step)
  BY PathType
<1>3. x \in Handler /\ x.pc = "ready" /\ Mine(x)
  BY <1>2 DEF Handler, Mine
<1>4. /\ handlers' = [handlers EXCEPT ![h] = x]
      /\ UNCHANGED <<phase, listener, timedOut>>
      /\ ~ At(h, "idle")
  BY <1>1 DEF Request, At
<1> HIDE DEF x
<1> QED
  BY <1>3, <1>4, HandlerStep

\* The steps in which the record keeps its path.
LEMMA GotoInv ==
    ASSUME IInv, NEW h \in Handlers,
           NEW pc \in {"accepted", "ready", "waiting", "locked", "stored",
                       "calling"},
           Goto(h, pc),
           UNCHANGED <<phase, listener, timedOut>>,
           pc \in {"waiting", "locked", "stored"} =>
               handlers[h].todo # <<>> /\ Head(handlers[h].todo) # "call",
           pc \in {"locked", "stored"} => Holds(h),
           ~ At(h, "idle") \/ phase # "closing"
    PROVE  IInv'
<1> DEFINE todo == handlers[h].todo
<1>1. todo \in Seq(Step)
  BY DEF IInv, TypeOK, Handler
<1>2. handlers' = [handlers EXCEPT ![h].pc = pc, ![h].todo = todo]
  BY DEF Goto, IInv, TypeOK, Handler
<1> QED
  BY <1>1, <1>2, MoveStep

\* The steps after which only the answer is left.
LEMMA GiveUpInv ==
    ASSUME IInv, NEW h \in Handlers, ~ At(h, "idle"),
           handlers' = [handlers EXCEPT ![h].pc = "ready", ![h].todo = <<>>],
           UNCHANGED <<phase, listener, timedOut>>
    PROVE  IInv'
<1>1. <<>> \in Seq(Step)
  OBVIOUS
<1> QED
  BY <1>1, MoveStep

\* Redeem has something to do while it has its row: that is its transaction.
LEMMA ServeInv ==
    ASSUME IInv, NEW h \in Handlers, Serve(h) \/ RedeemRollback(h)
    PROVE  IInv'
<1>1. CASE Ask(h)
  BY <1>1, GotoInv DEF Ask, At
<1>2. CASE Call(h)
  BY <1>2, GotoInv DEF Call, Doing, At
<1>3. CASE Acquire(h)
  BY <1>3, AcquireInv
<1>4. CASE Refused(h)
  BY <1>4, GiveUpInv DEF Refused, At
<1>5. CASE Execute(h)
  BY <1>5, AdvanceInv DEF Execute, CanExecute, Doing, At
<1>6. CASE RedeemLock(h)
  BY <1>6, GotoInv DEF RedeemLock, CanLock, Doing, At, Holds
<1>7. CASE RedeemStore(h)
  BY <1>7, GotoInv DEF RedeemStore, CanStore, At, Holds, IInv, Mine
<1>8. CASE RedeemCommit(h)
  BY <1>8, AdvanceInv DEF RedeemCommit, At, IInv, Mine
<1>9. CASE RedeemRollback(h)
  BY <1>9, GiveUpInv DEF RedeemRollback, At
<1>10. CASE Return(h)
  BY <1>10, FinishStep DEF Return
<1> QED
  BY <1>1, <1>2, <1>3, <1>4, <1>5, <1>6, <1>7, <1>8, <1>9, <1>10 DEF Serve

LEMMA NextInv == IInv /\ [Next]_vars => IInv'
<1> SUFFICES ASSUME IInv, [Next]_vars PROVE IInv'
  OBVIOUS
<1>1. CASE Main
  BY <1>1, MainInv
<1>2. ASSUME NEW h \in Handlers, Accept(h) PROVE IInv'
  <2>1. phase # "closing"
    BY <1>2 DEF Accept, IInv, Listener, ShuttingDown
  <2> QED
    BY <1>2, <2>1, GotoInv DEF Accept
<1>3. ASSUME NEW h \in Handlers, Arrive(h) PROVE IInv'
  BY <1>3, ArriveInv
<1>4. ASSUME NEW h \in Handlers, Serve(h) \/ RedeemRollback(h) PROVE IInv'
  BY <1>4, ServeInv
<1>5. ASSUME NEW h \in Handlers, Answer(h) PROVE IInv'
  BY <1>5, AdvanceInv DEF Answer, Doing, At
<1>6. ASSUME NEW h \in Handlers, Abort(h) PROVE IInv'
  BY <1>6, FinishStep DEF Abort
<1>7. CASE UNCHANGED vars
  BY <1>7
  DEF vars, IInv, TypeOK, Holders, Holds, Mine, Listener, ShuttingDown,
      ClosesAfterDrain, At
<1> QED
  BY <1>1, <1>2, <1>3, <1>4, <1>5, <1>6, <1>7 DEF Next

-----------------------------------------------------------------------------
(* The theorems. *)

\* The inductive invariant of the process.
THEOREM Invariance == Spec => []IInv
BY InitInv, NextInv, PTL DEF Spec

\* The records keep their shape, and the handlers never hold more connections
\* than the pool has.
THEOREM TypeCorrect == Spec => []TypeOK
<1>1. IInv => TypeOK
  BY DEF IInv
<1> QED
  BY <1>1, Invariance, PTL

\* A stop takes the pool away from a handler only when Shutdown ran out of
\* time.
THEOREM PoolOutlivesHandlers == Spec => []ClosesAfterDrain
<1>1. IInv => ClosesAfterDrain
  BY DEF IInv
<1> QED
  BY <1>1, Invariance, PTL

\* Redeem that has its session row can go on, or waits for one that can.
LEMMA LockedMoves ==
    ASSUME IInv, NEW h \in Handlers, At(h, "locked") \/ At(h, "stored")
    PROVE  \E g \in Handlers : CanMove(g)
<1>1. CASE At(h, "stored")
  BY <1>1 DEF CanMove
<1>2. CASE At(h, "locked") /\ AccountFree(handlers[h].account)
  BY <1>2 DEF CanMove, CanStore
<1>3. CASE At(h, "locked") /\ ~ AccountFree(handlers[h].account)
  <2>1. PICK g \in Handlers : At(g, "stored")
    BY <1>3 DEF AccountFree, At
  <2> QED
    BY <2>1 DEF CanMove
<1> QED
  BY <1>1, <1>2, <1>3

\* A handler with a connection can go on, or waits for one that can.
LEMMA HolderMoves ==
    ASSUME IInv, NEW h \in Handlers, Holds(h)
    PROVE  \E g \in Handlers : CanMove(g)
<1>1. CASE At(h, "locked") \/ At(h, "stored")
  BY <1>1, LockedMoves
<1>2. CASE At(h, "running")
  <2> DEFINE todo == handlers[h].todo
  <2>1. todo \in Seq(Step) /\ todo # <<>> /\ Head(todo) # "call"
    BY <1>2 DEF IInv, TypeOK, Handler, Mine, At
  <2>2. Head(todo) \in {"plain", "session", "cloud", "redeem"}
    BY <2>1 DEF Step
  <2>3. CASE Head(todo) = "plain"
    BY <1>2, <2>1, <2>3 DEF CanMove, CanExecute, Doing
  <2>4. CASE Head(todo) \in {"session", "redeem"}
    <3>1. CASE SessionFree(handlers[h].session)
      BY <1>2, <2>1, <2>4, <3>1 DEF CanMove, CanExecute, CanLock, Doing
    <3>2. CASE ~ SessionFree(handlers[h].session)
      <4>1. PICK g \in Handlers : At(g, "locked") \/ At(g, "stored")
        BY <3>2 DEF SessionFree, At
      <4> QED
        BY <4>1, LockedMoves
    <3> QED
      BY <3>1, <3>2
  <2>5. CASE Head(todo) = "cloud"
    <3>1. CASE AccountFree(handlers[h].account)
      BY <1>2, <2>1, <2>5, <3>1 DEF CanMove, CanExecute, Doing
    <3>2. CASE ~ AccountFree(handlers[h].account)
      <4>1. PICK g \in Handlers : At(g, "stored")
        BY <3>2 DEF AccountFree, At
      <4> QED
        BY <4>1, LockedMoves
    <3> QED
      BY <3>1, <3>2
  <2> QED
    BY <2>2, <2>3, <2>4, <2>5
<1> QED
  BY <1>1, <1>2 DEF Holds, At

\* The handlers never all wait for each other: the row of the account is the
\* last thing anybody takes, and the pool is empty only when somebody has a
\* connection.
THEOREM NoDeadlock == Spec => []SomeoneCanMove
<1>1. IInv => SomeoneCanMove
  <2> SUFFICES ASSUME IInv, NEW h \in Handlers, InDatabase(h)
               PROVE  \E g \in Handlers : CanMove(g)
    BY DEF SomeoneCanMove
  <2>1. CASE Holds(h)
    BY <2>1, HolderMoves
  <2>2. CASE At(h, "waiting") /\ PoolFree
    BY <2>2 DEF CanMove
  <2>3. CASE At(h, "waiting") /\ ~ PoolFree
    <3>1. Holders # {}
      BY <2>3, FS_EmptySet, PoolAssumption DEF PoolFree
    <3>2. PICK g \in Handlers : Holds(g)
      BY <3>1 DEF Holders
    <3> QED
      BY <3>2, HolderMoves
  <2> QED
    BY <2>1, <2>2, <2>3 DEF InDatabase
<1> QED
  BY <1>1, Invariance, PTL

-----------------------------------------------------------------------------
(* Requests only get closer to their end.                                  *)

\* What is left to do is part of a path, and a call is something to do.
Short(x) ==
    /\ Len(x.todo) <= 5
    /\ x.pc = "calling" => x.todo # <<>>

\* The record of a handler changes by a step of that handler, or with the process.
LEMMA OwnStep ==
    ASSUME IInv, [Next]_vars, NEW h \in Handlers, handlers'[h] # handlers[h]
    PROVE  \/ handlers'[h] = Idle
           \/ Accept(h) \/ Arrive(h) \/ Serve(h)
           \/ RedeemRollback(h) \/ Answer(h)
<1>1. CASE Main
  BY <1>1
  DEF Main, Start, Connected, Notify, Listen, Shutdown, Drained, DrainTimeout,
      Exit, ConnectFails, ListenFails, Crash, Gone
<1>2. ASSUME NEW g \in Handlers, g # h, NEW x, handlers' = [handlers EXCEPT ![g] = x]
      PROVE  handlers'[h] = handlers[h]
  BY <1>2 DEF IInv, TypeOK
<1>3. ASSUME NEW g \in Handlers, Abort(g)
      PROVE  g # h \/ handlers'[h] = Idle
  BY <1>3 DEF Abort, Finish, IInv, TypeOK
<1>4. ASSUME NEW g \in Handlers,
             Accept(g) \/ Arrive(g) \/ Serve(g) \/ RedeemRollback(g) \/ Answer(g)
             \/ Abort(g)
      PROVE  \E x : handlers' = [handlers EXCEPT ![g] = x]
  BY <1>4
  DEF Accept, Arrive, Request, Serve, Ask, Call, Acquire, Refused, Execute,
      RedeemLock, RedeemStore, RedeemCommit, Return, RedeemRollback, Answer,
      Abort, Finish, Goto, Advance
<1> QED
  BY <1>1, <1>2, <1>3, <1>4 DEF Next, vars

\* What a serving handler makes of its record: it gets to a later stage of the
\* same thing, or has fewer things to do.
LEMMA ServeStep ==
    ASSUME IInv, NEW h \in Handlers,
           Serve(h) \/ RedeemRollback(h) \/ Answer(h)
    PROVE  /\ handlers[h].pc \notin {"idle", "accepted"}
           /\ \/ handlers'[h] = Idle
              \/ \E pc \in {"waiting", "calling", "running", "locked", "stored"} :
                    /\ handlers'[h] = [handlers[h] EXCEPT !.pc = pc]
                    /\ Stage[pc] > Stage[handlers[h].pc]
                    /\ handlers[h].todo # <<>>
              \/ /\ handlers'[h] = [handlers[h] EXCEPT !.pc = "ready",
                                       !.todo = Tail(handlers[h].todo)]
                 /\ handlers[h].todo # <<>>
              \/ /\ handlers'[h] = [handlers[h] EXCEPT !.pc = "ready", !.todo = <<>>]
                 /\ handlers[h].todo # <<>>
<1> USE DEF At, Doing, Stage
<1>1. CASE Ask(h)
  BY <1>1 DEF Ask, Goto, IInv, TypeOK
<1>2. CASE Call(h)
  BY <1>2 DEF Call, Goto, IInv, TypeOK
<1>3. CASE Acquire(h)
  BY <1>3 DEF Acquire, Goto, IInv, TypeOK, Mine
<1>4. CASE Refused(h) \/ RedeemRollback(h)
  BY <1>4 DEF Refused, RedeemRollback, IInv, TypeOK, Mine
<1>5. CASE Execute(h) \/ Answer(h)
  BY <1>5 DEF Execute, CanExecute, Answer, Advance, IInv, TypeOK
<1>6. CASE RedeemLock(h)
  BY <1>6 DEF RedeemLock, CanLock, Goto, IInv, TypeOK
<1>7. CASE RedeemStore(h)
  BY <1>7 DEF RedeemStore, CanStore, Goto, IInv, TypeOK, Mine
<1>8. CASE RedeemCommit(h)
  BY <1>8 DEF RedeemCommit, Advance, IInv, TypeOK, Mine
<1>9. CASE Return(h)
  BY <1>9 DEF Return, Finish, IInv, TypeOK
<1> QED
  BY <1>1, <1>2, <1>3, <1>4, <1>5, <1>6, <1>7, <1>8, <1>9 DEF Serve

\* The number of steps left in one record.
LEMMA LeftOf ==
    ASSUME IInv, NEW h \in Handlers
    PROVE  /\ handlers[h] \in Handler
           /\ Len(handlers[h].todo) \in Nat
           /\ Stage[handlers[h].pc] \in 0..4 \/ handlers[h].pc \in {"idle", "accepted"}
           /\ handlers[h].todo # <<>> => Len(handlers[h].todo) > 0
           /\ handlers[h].todo # <<>> =>
                 Len(Tail(handlers[h].todo)) = Len(handlers[h].todo) - 1
BY DEF IInv, TypeOK, Handler, Stage

\* Every step of a handler under way takes one off at least.
LEMMA LessLeft ==
    ASSUME IInv, [Next]_vars, NEW h \in Handlers, StepsLeft(h) > 0,
           handlers'[h] # handlers[h]
    PROVE  StepsLeft(h)' < StepsLeft(h)
<1> DEFINE x == handlers[h]
<1>1. /\ x \in Handler
      /\ x.pc \notin {"idle", "accepted"}
      /\ Stage[x.pc] \in 0..4
      /\ Len(x.todo) \in Nat
      /\ StepsLeft(h) = 1 + 5 * Len(x.todo) - Stage[x.pc]
  BY LeftOf DEF StepsLeft
<1>2. CASE handlers'[h] = Idle
  BY <1>2 DEF StepsLeft, Idle
<1>3. CASE Accept(h) \/ Arrive(h)
  BY <1>1, <1>3 DEF Accept, Arrive, Request, At
<1>4. CASE Serve(h) \/ RedeemRollback(h) \/ Answer(h)
  <2>1. ASSUME NEW pc \in {"waiting", "calling", "running", "locked", "stored"},
               handlers'[h] = [x EXCEPT !.pc = pc], Stage[pc] > Stage[x.pc]
        PROVE  StepsLeft(h)' < StepsLeft(h)
    <3>1. handlers'[h].pc = pc /\ handlers'[h].todo = x.todo
      BY <1>1, <2>1 DEF Handler
    <3>2. StepsLeft(h)' = 1 + 5 * Len(x.todo) - Stage[pc] /\ Stage[pc] \in 0..4
      BY <3>1 DEF StepsLeft, Stage
    <3> DEFINE n == Len(x.todo)
               m == Stage[x.pc]
               k == Stage[pc]
    <3>3. /\ n \in Nat /\ m \in 0..4 /\ k \in 0..4 /\ k > m
          /\ StepsLeft(h) = 1 + 5 * n - m
          /\ StepsLeft(h)' = 1 + 5 * n - k
      BY <1>1, <2>1, <3>2
    <3> HIDE DEF n, m, k
    <3> QED
      BY <3>3
  <2>2. ASSUME NEW todo \in {Tail(x.todo), <<>>}, x.todo # <<>>,
               handlers'[h] = [x EXCEPT !.pc = "ready", !.todo = todo]
        PROVE  StepsLeft(h)' < StepsLeft(h)
    <3>1. handlers'[h].pc = "ready" /\ handlers'[h].todo = todo
      BY <1>1, <2>2 DEF Handler
    <3>2. StepsLeft(h)' = 1 + 5 * Len(todo)
      BY <3>1 DEF StepsLeft, Stage
    <3>3. Len(todo) <= Len(x.todo) - 1 /\ Len(todo) \in Nat
      BY <2>2, LeftOf
    <3> QED
      BY <1>1, <3>2, <3>3, LeftOf
  <2> QED
    BY <1>2, <1>4, <2>1, <2>2, ServeStep
<1> QED
  BY <1>2, <1>3, <1>4, OwnStep

\* A request only gets closer to its end, whatever the others do.
THEOREM RequestsGoForward == Spec => NeverSetBack
<1> DEFINE A ==
        \A h \in Handlers :
          StepsLeft(h) > 0 =>
              handlers'[h] = handlers[h] \/ StepsLeft(h)' < StepsLeft(h)
<1>1. IInv /\ [Next]_vars => A
  BY LessLeft
<1> HIDE DEF A
<1>2. IInv /\ [Next]_vars => [A]_vars
  BY <1>1
<1>3. Spec => [][A]_vars
  BY <1>2, Invariance, PTL DEF Spec
<1> QED
  BY <1>3 DEF NeverSetBack, A

\* Paths are short.
LEMMA PathLength ==
    \A op \in {"probe", "plain", "issue", "read", "start", "callback",
               "exchange", "rclone"} : Len(Path[op]) <= 5
<1>1. Len(Path["probe"]) <= 5
  BY DEF Path
<1>2. Len(Path["plain"]) <= 5
  BY DEF Path
<1>3. Len(Path["issue"]) <= 5
  BY DEF Path
<1>4. Len(Path["read"]) <= 5
  BY DEF Path
<1>5. Len(Path["start"]) <= 5
  BY DEF Path
<1>6. Len(Path["callback"]) <= 5
  BY DEF Path
<1>7. Len(Path["exchange"]) <= 5
  BY DEF Path
<1>8. Len(Path["rclone"]) <= 5
  BY DEF Path
<1> QED
  BY <1>1, <1>2, <1>3, <1>4, <1>5, <1>6, <1>7, <1>8

LEMMA ShortStep ==
    ASSUME IInv, [Next]_vars, NEW h \in Handlers, Short(handlers[h])
    PROVE  Short(handlers'[h])
<1> DEFINE x == handlers[h]
<1>1. x \in Handler /\ Len(x.todo) \in Nat
  BY LeftOf
<1>2. CASE handlers'[h] = Idle
  BY <1>2 DEF Short, Idle
<1>3. CASE Accept(h)
  BY <1>1, <1>3 DEF Accept, Goto, Short, IInv, TypeOK, Handler
<1>4. CASE Arrive(h)
  <2>1. PICK op \in {"probe", "plain", "issue", "read", "start", "callback",
                     "exchange", "rclone"} :
           handlers'[h].pc = "ready" /\ handlers'[h].todo = Path[op]
    BY <1>4 DEF Arrive, Request, IInv, TypeOK
  <2> QED
    BY <2>1, PathLength DEF Short
<1>5. CASE Serve(h) \/ RedeemRollback(h) \/ Answer(h)
  <2>1. ASSUME NEW pc \in {"waiting", "calling", "running", "locked", "stored"},
               handlers'[h] = [x EXCEPT !.pc = pc], x.todo # <<>>
        PROVE  Short(handlers'[h])
    <3>1. handlers'[h].pc = pc /\ handlers'[h].todo = x.todo
      BY <1>1, <2>1 DEF Handler
    <3> QED
      BY <2>1, <3>1 DEF Short
  <2>2. ASSUME NEW todo \in {Tail(x.todo), <<>>}, x.todo # <<>>,
               handlers'[h] = [x EXCEPT !.pc = "ready", !.todo = todo]
        PROVE  Short(handlers'[h])
    <3>1. handlers'[h].pc = "ready" /\ handlers'[h].todo = todo
      BY <1>1, <2>2 DEF Handler
    <3>2. Len(todo) <= Len(x.todo)
      BY <1>1, <2>2, LeftOf
    <3> QED
      BY <1>1, <2>2, <3>1, <3>2, LeftOf DEF Short
  <2> QED
    BY <1>2, <1>5, <2>1, <2>2, ServeStep
<1>6. CASE handlers'[h] = handlers[h]
  BY <1>6
<1> QED
  BY <1>2, <1>3, <1>4, <1>5, <1>6, OwnStep

\* A request has 26 steps left at most, and none exactly when there is none: with
\* RequestsGoForward every request that was read ends within 26 steps of its own,
\* and so does waiting for a connection or a row.
THEOREM RequestsAreShort ==
    Spec => [](\A h \in Handlers :
                  /\ StepsLeft(h) \in 0..26
                  /\ StepsLeft(h) = 0 <=> handlers[h].pc \in {"idle", "accepted"})
<1> DEFINE S == \A h \in Handlers : Short(handlers[h])
           L == \A h \in Handlers :
                  /\ StepsLeft(h) \in 0..26
                  /\ StepsLeft(h) = 0 <=> handlers[h].pc \in {"idle", "accepted"}
<1>1. Init => S
  BY DEF Init, Idle, Short
<1>2. IInv /\ [Next]_vars /\ S => S'
  BY ShortStep
<1>3. ASSUME IInv, S, NEW h \in Handlers
      PROVE  /\ StepsLeft(h) \in 0..26
             /\ StepsLeft(h) = 0 <=> handlers[h].pc \in {"idle", "accepted"}
  <2>1. CASE handlers[h].pc \in {"idle", "accepted"}
    BY <2>1 DEF StepsLeft
  <2>2. CASE handlers[h].pc \notin {"idle", "accepted"}
    <3>1. /\ StepsLeft(h) = 1 + 5 * Len(handlers[h].todo) - Stage[handlers[h].pc]
          /\ Stage[handlers[h].pc] \in 0..4
          /\ Len(handlers[h].todo) \in 0..5
      <4>1. StepsLeft(h) = 1 + 5 * Len(handlers[h].todo) - Stage[handlers[h].pc]
        BY <2>2 DEF StepsLeft
      <4>2. Stage[handlers[h].pc] \in 0..4
        BY <1>3, <2>2, LeftOf
      <4> DEFINE n == Len(handlers[h].todo)
      <4>3. n <= 5 /\ n \in Nat
        BY <1>3, LeftOf DEF Short
      <4> HIDE DEF n
      <4>4. n \in 0..5
        BY <4>3
      <4> QED
        BY <4>1, <4>2, <4>4 DEF n
    <3>2. CASE handlers[h].pc = "ready"
      <4>1. Stage[handlers[h].pc] = 0
        BY <3>2 DEF Stage
      <4> DEFINE n == Len(handlers[h].todo)
      <4>2. StepsLeft(h) = 1 + 5 * n /\ n \in 0..5
        BY <3>1, <4>1
      <4> HIDE DEF n
      <4>3. 1 + 5 * n \in 1..26
        BY <4>2
      <4> QED
        BY <2>2, <4>2, <4>3
    <3>3. CASE handlers[h].pc # "ready"
      <4>1. handlers[h].todo # <<>>
        BY <1>3, <2>2, <3>3, LeftOf DEF IInv, Mine, Short, Handler
      <4>2. Len(handlers[h].todo) > 0
        BY <1>3, <4>1, LeftOf
      <4> DEFINE n == Len(handlers[h].todo)
                 m == Stage[handlers[h].pc]
      <4>3. StepsLeft(h) = 1 + 5 * n - m /\ n \in 1..5 /\ m \in 0..4
        BY <3>1, <4>2
      <4> HIDE DEF n, m
      <4>4. 1 + 5 * n - m \in 1..26
        BY <4>3
      <4> QED
        BY <2>2, <4>3, <4>4
    <3> QED
      BY <3>2, <3>3
  <2> QED
    BY <2>1, <2>2
<1>4. IInv /\ S => L
  BY <1>3
<1> HIDE DEF S, L
<1>5. Spec => []L
  BY <1>1, <1>2, <1>4, Invariance, PTL DEF Spec
<1> QED
  BY <1>5 DEF L

-----------------------------------------------------------------------------
(* A stop only goes on.                                                    *)

\* Where a stop may go from here.
LEMMA StopStep ==
    ASSUME IInv, [Next]_vars, ShuttingDown
    PROVE  /\ phase' \in {phase, "closing", "down"}
           /\ \A h \in Handlers : At(h, "idle") => At(h, "idle")'
           /\ phase = "closing" => Holders' \subseteq Holders
<1>1. phase' \in {phase, "closing", "down"}
  BY DEF ShuttingDown, Next, vars, Main, Start, Connected, Notify, Listen,
         Shutdown, Drained, DrainTimeout, Exit, ConnectFails, ListenFails,
         Crash, Gone, Accept, Arrive, Request, Serve, Ask, Call, Acquire,
         Refused, Execute, RedeemLock, RedeemStore, RedeemCommit, Return,
         RedeemRollback, Answer, Abort
<1>2. ASSUME NEW h \in Handlers, At(h, "idle") PROVE At(h, "idle")'
  <2>1. ~ Accept(h)
    BY DEF Accept, IInv, Listener
  <2>2. ~ Arrive(h)
    BY <1>2 DEF Arrive, Request, At
  <2>3. ~ (Serve(h) \/ RedeemRollback(h) \/ Answer(h))
    BY <1>2, ServeStep DEF At
  <2> QED
    BY <1>2, <2>1, <2>2, <2>3, OwnStep DEF At, Idle
<1>3. ASSUME phase = "closing", NEW h \in Handlers, Holds(h)' PROVE Holds(h)
  <2>1. ~ Acquire(h)
    BY <1>3 DEF Acquire, PoolOpen
  <2>2. CASE handlers'[h] = handlers[h]
    BY <1>3, <2>2 DEF Holds
  <2>3. CASE Accept(h) \/ Arrive(h)
    BY <1>3, <2>3, LeftOf
    DEF Accept, Goto, Arrive, Request, Holds, IInv, TypeOK, Handler
  <2>4. CASE RedeemLock(h) \/ RedeemStore(h)
    BY <2>4 DEF RedeemLock, CanLock, RedeemStore, CanStore, Doing, At, Holds
  <2>5. CASE Ask(h) \/ Call(h) \/ Refused(h) \/ Execute(h) \/ RedeemCommit(h)
               \/ RedeemRollback(h) \/ Answer(h)
    BY <1>3, <2>5, LeftOf
    DEF Ask, Call, Refused, Execute, RedeemCommit, RedeemRollback, Answer, Goto,
        Advance, Holds, IInv, TypeOK, Handler
  <2>6. CASE handlers'[h] = Idle
    BY <1>3, <2>6 DEF Holds, Idle
  <2>7. CASE Return(h)
    BY <1>3, <2>7 DEF Return, Finish, Holds, Idle, IInv, TypeOK
  <2> QED
    BY <2>1, <2>2, <2>3, <2>4, <2>5, <2>6, <2>7, OwnStep DEF Serve
<1> QED
  BY <1>1, <1>2, <1>3 DEF Holders

\* A stop goes on to its end: nobody gets in, and while the pool is being closed
\* nobody takes a connection.
THEOREM StopOnlyDrains == Spec => StopDrains
<1> DEFINE A == ShuttingDown =>
                  /\ phase' \in {phase, "closing", "down"}
                  /\ \A h \in Handlers : At(h, "idle") => At(h, "idle")'
                  /\ phase = "closing" => Holders' \subseteq Holders
<1>1. IInv /\ [Next]_vars => A
  BY StopStep
<1> HIDE DEF A
<1>2. IInv /\ [Next]_vars => [A]_vars
  BY <1>1
<1>3. Spec => [][A]_vars
  BY <1>2, Invariance, PTL DEF Spec
<1> QED
  BY <1>3 DEF StopDrains, A
=============================================================================
