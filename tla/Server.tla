-------------------------------- MODULE Server --------------------------------
(***************************************************************************)
(* The broker as a process: it starts, serves its handlers from one pool   *)
(* of database connections, and stops.  What the statements read and write *)
(* is the matter of the other modules; here a statement is something that  *)
(* takes a connection, may wait for a row that a transaction has locked,   *)
(* and gives the connection back.  The questions are whether the handlers  *)
(* can wait for each other for ever, and what a stop does to them.         *)
(***************************************************************************)
EXTENDS Naturals, Sequences, FiniteSets

CONSTANTS
    Handlers,     \* connections of clients, each with one request at a time
    Sessions,     \* rows of oauth_sessions
    Accounts,     \* rows of cloud_tokens: a device and a provider each
    AccountOf,    \* the account of each session
    None,         \* the request has nothing to do with such a row
    PoolSize      \* MaxConns of pgxpool

ASSUME PoolAssumption == PoolSize \in Nat \ {0} /\ IsFiniteSet(Handlers)

ASSUME AccountAssumption == AccountOf \in [Sessions -> Accounts]

ASSUME NoneAssumption == None \notin Sessions \cup Accounts

VARIABLES
    phase,        \* how far main is
    listener,     \* the goroutine that runs ListenAndServe
    handlers,     \* the goroutines that serve the clients
    timedOut      \* Shutdown has run out of time

vars == <<phase, listener, handlers, timedOut>>

-----------------------------------------------------------------------------
(* What a request does, as far as connections and locks are concerned.     *)

\* A statement that meets no lock, one that writes a row of oauth_sessions or
\* of cloud_tokens, the transaction of Redeem, and a call of a provider.
Step == {"plain", "session", "cloud", "redeem", "call"}

\* The longest path of each kind of request; a handler may return before the
\* end of it.  Refreshing a JWT and reading a device are prefixes of issue, a
\* session that is created or a device that is registered is plain, and a
\* session that is looked at, cancelled or found expired is read.
Path ==
    [probe    |-> <<>>,
     plain    |-> <<"plain">>,
     issue    |-> <<"plain", "plain", "plain", "plain">>,
     read     |-> <<"plain", "session">>,
     start    |-> <<"plain", "plain", "session">>,
     callback |-> <<"plain", "call", "plain", "session">>,
     exchange |-> <<"redeem", "plain">>,
     rclone   |-> <<"plain", "call", "plain", "cloud", "plain">>]

Idle == [pc |-> "idle", todo |-> <<>>, session |-> None, account |-> None]

\* ready is Go code; a running statement has a connection; locked and stored
\* are the stages of Redeem, which has the same connection all along.
Handler ==
    [pc : {"idle", "accepted", "ready", "waiting", "running", "locked",
           "stored", "calling"},
     todo : Seq(Step), session : Sessions \cup {None},
     account : Accounts \cup {None}]

At(h, pc) == handlers[h].pc = pc

Doing(h, pc, step) ==
    /\ At(h, pc)
    /\ handlers[h].todo # <<>>
    /\ Head(handlers[h].todo) = step

Holds(h) == handlers[h].pc \in {"running", "locked", "stored"}

Holders == {h \in Handlers : Holds(h)}

SessionFree(s) ==
    \A h \in Handlers :
        handlers[h].session = s => handlers[h].pc \notin {"locked", "stored"}

AccountFree(a) ==
    \A h \in Handlers : handlers[h].account = a => handlers[h].pc # "stored"

ShuttingDown == phase \in {"draining", "closing"}

PoolOpen == phase # "closing"

Up == phase \in {"starting", "serving", "draining", "closing"}

Goto(h, pc) == handlers' = [handlers EXCEPT ![h].pc = pc]

Finish(h) == handlers' = [handlers EXCEPT ![h] = Idle]

-----------------------------------------------------------------------------
(* main: start.                                                            *)

Start ==
    /\ phase = "down"
    /\ phase' = "connecting"
    /\ UNCHANGED <<listener, handlers, timedOut>>

\* The pool is open and the tables are there; the goroutine that listens is
\* started, and may run at any time from now on.
Connected ==
    /\ phase = "connecting"
    /\ phase' = "starting"
    /\ UNCHANGED <<listener, handlers, timedOut>>

\* signal.Notify: from now on a signal does not kill the process.
Notify ==
    /\ phase = "starting"
    /\ phase' = "serving"
    /\ UNCHANGED <<listener, handlers, timedOut>>

\* Mutant of Listen: nobody asks whether Shutdown has begun.
ListenAlways ==
    /\ Up
    /\ listener = "unborn"
    /\ listener' = "open"
    /\ UNCHANGED <<phase, handlers, timedOut>>

\* ListenAndServe binds its port and registers the listener, unless Shutdown
\* has begun.
Listen ==
    /\ Up
    /\ listener = "unborn"
    /\ listener' = IF ShuttingDown THEN "closed" ELSE "open"
    /\ UNCHANGED <<phase, handlers, timedOut>>

-----------------------------------------------------------------------------
(* main: stop.                                                             *)

\* SIGTERM or SIGINT.  A second signal stays in the channel unread.
\* Shutdown first of all closes the listener.
Shutdown ==
    /\ phase = "serving"
    /\ phase' = "draining"
    /\ listener' = IF listener = "open" THEN "closed" ELSE listener
    /\ UNCHANGED <<handlers, timedOut>>

\* Shutdown returns when no connection of a client is in use; the deferred
\* appStore.Close begins.
Drained ==
    /\ phase = "draining"
    /\ \A h \in Handlers : At(h, "idle")
    /\ phase' = "closing"
    /\ UNCHANGED <<listener, handlers, timedOut>>

\* Mutant of DrainTimeout: the context of Shutdown has no deadline.
DrainTimeoutNever == FALSE /\ UNCHANGED vars

\* Shutdown returns because its ten seconds are over; the handlers run on.
DrainTimeout ==
    /\ phase = "draining"
    /\ phase' = "closing"
    /\ timedOut' = TRUE
    /\ UNCHANGED <<listener, handlers>>

Gone ==
    /\ phase' = "down"
    /\ listener' = "unborn"
    /\ handlers' = [h \in Handlers |-> Idle]
    /\ timedOut' = FALSE

\* pool.Close returns when every connection has been given back.  Then main
\* returns, and the goroutines that are left end where they are.
Exit ==
    /\ phase = "closing"
    /\ Holders = {}
    /\ Gone

\* log.Fatal: the database cannot be reached or migrated.
ConnectFails == phase = "connecting" /\ Gone

\* log.Fatalf in the goroutine that listens.
ListenFails == Up /\ listener # "closed" /\ Gone

\* The process is killed, the machine fails, or a signal arrives before
\* Notify.  PostgreSQL rolls back what was open.
Crash == phase # "down" /\ Gone

-----------------------------------------------------------------------------
(* The handlers. *)

Accept(h) ==
    /\ listener = "open"
    /\ At(h, "idle")
    /\ Goto(h, "accepted")
    /\ UNCHANGED <<phase, listener, timedOut>>

\* A request is read from a connection and handed to its handler, also while
\* the process is shutting down.
Request(h, op, s, a) ==
    /\ At(h, "accepted")
    /\ handlers' = [handlers EXCEPT ![h] =
          [pc |-> "ready", todo |-> Path[op], session |-> s, account |-> a]]
    /\ UNCHANGED <<phase, listener, timedOut>>

\* The next thing to do is a statement: the handler asks for a connection.
Ask(h) ==
    /\ At(h, "ready")
    /\ handlers[h].todo # <<>>
    /\ Head(handlers[h].todo) # "call"
    /\ Goto(h, "waiting")
    /\ UNCHANGED <<phase, listener, timedOut>>

Call(h) ==
    /\ Doing(h, "ready", "call")
    /\ Goto(h, "calling")
    /\ UNCHANGED <<phase, listener, timedOut>>

\* Mutant of PoolFree: the last connection is given away twice.
PoolFreeOneMore == Cardinality(Holders) <= PoolSize

PoolFree == Cardinality(Holders) < PoolSize

Acquire(h) ==
    /\ At(h, "waiting")
    /\ PoolOpen
    /\ PoolFree
    /\ Goto(h, "running")
    /\ UNCHANGED <<phase, listener, timedOut>>

\* Mutant of Refused: the handler tries the statement again.
RefusedAsksAgain(h) ==
    /\ At(h, "waiting")
    /\ ~ PoolOpen
    /\ Goto(h, "ready")
    /\ UNCHANGED <<phase, listener, timedOut>>

\* The pool has been closed.  Where the handler ignores the error of the
\* statement it goes on to statements that fail alike, or to its answer.
Refused(h) ==
    /\ At(h, "waiting")
    /\ ~ PoolOpen
    /\ handlers' = [handlers EXCEPT ![h].pc = "ready", ![h].todo = <<>>]
    /\ UNCHANGED <<phase, listener, timedOut>>

\* The first thing in todo has been done.
Advance(h) ==
    handlers' = [handlers EXCEPT ![h].pc = "ready", ![h].todo = Tail(@)]

\* A statement that commits by itself has been executed: at once, or when the
\* row it writes is free.
CanExecute(h) ==
    \/ Doing(h, "running", "plain")
    \/ Doing(h, "running", "session") /\ SessionFree(handlers[h].session)
    \/ Doing(h, "running", "cloud") /\ AccountFree(handlers[h].account)

Execute(h) ==
    /\ CanExecute(h)
    /\ Advance(h)
    /\ UNCHANGED <<phase, listener, timedOut>>

\* A call ends: the provider has answered.
Answer(h) ==
    /\ Doing(h, "calling", "call")
    /\ Advance(h)
    /\ UNCHANGED <<phase, listener, timedOut>>

\* SELECT ... FOR UPDATE
CanLock(h) ==
    Doing(h, "running", "redeem") /\ SessionFree(handlers[h].session)

RedeemLock(h) ==
    /\ CanLock(h)
    /\ Goto(h, "locked")
    /\ UNCHANGED <<phase, listener, timedOut>>

\* Mutant of CanStore: the earlier token is read with GetCloudToken, that is
\* with a connection of its own, and not inside the transaction.
CanStoreWithSecondConnection(h) ==
    At(h, "locked") /\ AccountFree(handlers[h].account) /\ PoolFree

\* getCloudTokenTx and the upsert, both on the connection of the transaction.
CanStore(h) == At(h, "locked") /\ AccountFree(handlers[h].account)

RedeemStore(h) ==
    /\ CanStore(h)
    /\ Goto(h, "stored")
    /\ UNCHANGED <<phase, listener, timedOut>>

RedeemCommit(h) ==
    /\ At(h, "stored")
    /\ Advance(h)
    /\ UNCHANGED <<phase, listener, timedOut>>

\* A check of Redeem fails, and the deferred Rollback ends the transaction.
RedeemRollback(h) ==
    /\ At(h, "locked")
    /\ handlers' = [handlers EXCEPT ![h].pc = "ready", ![h].todo = <<>>]
    /\ UNCHANGED <<phase, listener, timedOut>>

\* The answer is written, at the end of the path or before.
Return(h) ==
    /\ At(h, "ready")
    /\ Finish(h)
    /\ UNCHANGED <<phase, listener, timedOut>>

\* The client goes away, or Shutdown closes a connection without a request:
\* the context ends, and with it the wait, the statement or the call.
Abort(h) ==
    /\ ~ At(h, "idle")
    /\ Finish(h)
    /\ UNCHANGED <<phase, listener, timedOut>>

-----------------------------------------------------------------------------

Init ==
    /\ phase = "down"
    /\ listener = "unborn"
    /\ handlers = [h \in Handlers |-> Idle]
    /\ timedOut = FALSE

\* What names no row, a session with its account, or an account.
Arrive(h) ==
    \/ \E op \in {"probe", "plain", "issue"} : Request(h, op, None, None)
    \/ \E op \in {"read", "start", "callback", "exchange"}, s \in Sessions :
          Request(h, op, s, AccountOf[s])
    \/ \E a \in Accounts : Request(h, "rclone", None, a)

Serve(h) ==
    \/ Ask(h)
    \/ Call(h)
    \/ Acquire(h)
    \/ Refused(h)
    \/ Execute(h)
    \/ RedeemLock(h)
    \/ RedeemStore(h)
    \/ RedeemCommit(h)
    \/ Return(h)

Main ==
    \/ Start
    \/ Connected
    \/ Notify
    \/ Listen
    \/ Shutdown
    \/ Drained
    \/ DrainTimeout
    \/ Exit
    \/ ConnectFails
    \/ ListenFails
    \/ Crash

Next ==
    \/ Main
    \/ \E h \in Handlers :
          \/ Accept(h)
          \/ Arrive(h)
          \/ Serve(h)
          \/ RedeemRollback(h)
          \/ Answer(h)
          \/ Abort(h)

Spec == Init /\ [][Next]_vars

TypeOK ==
    /\ phase \in {"down", "connecting", "starting", "serving", "draining",
                  "closing"}
    /\ listener \in {"unborn", "open", "closed"}
    /\ handlers \in [Handlers -> Handler]
    /\ timedOut \in BOOLEAN
    /\ Cardinality(Holders) <= PoolSize

-----------------------------------------------------------------------------
(* Safety.                                                                 *)

\* The handler waits for the database, in the pool or inside it.
InDatabase(h) == At(h, "waiting") \/ Holds(h)

\* Nothing it waits for is in the hands of another handler.
CanMove(h) ==
    \/ At(h, "waiting") /\ (PoolFree \/ ~ PoolOpen)
    \/ CanExecute(h)
    \/ CanLock(h)
    \/ CanStore(h)
    \/ At(h, "stored")

\* The handlers never all wait for each other, for the connections of the pool
\* and for the rows that Redeem locks, however small the pool is: Redeem takes
\* all it needs over the one connection it has, and the row of the account after
\* the row of the session.
SomeoneCanMove ==
    (\E h \in Handlers : InDatabase(h)) => \E h \in Handlers : CanMove(h)

\* The deferred appStore.Close takes the pool away from a request that is under
\* way only when Shutdown has run out of time: no client gets in between the
\* signal, the end of the listener and the last look at the connections.
ClosesAfterDrain ==
    phase = "closing" /\ ~ timedOut => \A h \in Handlers : At(h, "idle")

\* How far a handler has got with the first thing in todo.
Stage ==
    [ready |-> 0, waiting |-> 1, calling |-> 1, running |-> 2, locked |-> 3,
     stored |-> 4]

\* An upper bound of the steps a request may still take.
StepsLeft(h) ==
    LET x == handlers[h]
    IN  IF x.pc \in {"idle", "accepted"} THEN 0
        ELSE 1 + 5 * Len(x.todo) - Stage[x.pc]

\* A request that has been read only gets closer to its end, whatever the other
\* handlers, the pool and main do: nothing is tried again, and a handler that has
\* to wait, is refused or rolls back does not begin anew.  As SomeoneCanMove says
\* that one of them can always go on, only unfair scheduling makes them wait for
\* ever.
NeverSetBack ==
    [][\A h \in Handlers :
          StepsLeft(h) > 0 =>
              handlers'[h] = handlers[h] \/ StepsLeft(h)' < StepsLeft(h)]_vars

\* Once the process has been told to stop it only ends: main does not go back to
\* serving, no client gets in, although the goroutine that listens may be late,
\* and no handler takes a connection of the pool that is being closed, so that
\* Close has ever fewer of them to wait for.
StopDrains ==
    [][ShuttingDown =>
          /\ phase' \in {phase, "closing", "down"}
          /\ \A h \in Handlers : At(h, "idle") => At(h, "idle")'
          /\ phase = "closing" => Holders' \subseteq Holders]_vars

-----------------------------------------------------------------------------
(* Liveness.                                                               *)

\* A goroutine runs on, a waiting one gets its connection or its row in turn,
\* the ten seconds of Shutdown pass, and main runs on.  No client, no provider
\* and no signal has to do anything, and no check of Redeem has to fail: a
\* handler must not owe its end to the rollback of another one, or to its own.
Fairness ==
    /\ \A h \in Handlers : SF_vars(Serve(h))
    /\ WF_vars(Drained \/ DrainTimeout)
    /\ WF_vars(Exit)

FairSpec == Spec /\ Fairness

\* A handler that needs the database gets what it needs, even with a pool of
\* one connection, and is done or gets as far as the call of its provider.
HandlersFinish ==
    \A h \in Handlers :
        handlers[h].pc \notin {"idle", "accepted", "calling"} ~>
            handlers[h].pc \in {"idle", "calling"}

\* A process that has been told to stop ends, although a provider may never
\* answer and a client may never ask.
StopEnds == phase = "draining" ~> phase = "down"
=============================================================================
