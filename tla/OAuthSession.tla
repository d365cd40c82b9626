---------------------------- MODULE OAuthSession ----------------------------
(***************************************************************************)
(* The life of an OAuth session: the table oauth_sessions and the HTTP     *)
(* handlers that read and write it, one action per SQL statement.          *)
(*                                                                         *)
(* Every handler runs in a goroutine of its own and talks to PostgreSQL    *)
(* in statements that commit one by one; only Redeem opens a transaction.  *)
(* What a handler read may therefore be out of date when it writes.  A     *)
(* request slot remembers how far its handler is (pc) and what it has read *)
(* (seen, verifier).  A slot is reused when its request has ended.         *)
(***************************************************************************)
EXTENDS Naturals

CONSTANTS
    Sessions,     \* identifiers of sessions (the state value is one-to-one)
    Devices,      \* registered NAS devices
    Providers,    \* registered providers
    Tokens,       \* token sets the providers can still issue (a bound)
    Requests,     \* slots for requests in flight at one time (a bound)
    None,         \* SQL NULL, Go nil, or a field the request does not use
    SessionTTL,   \* SESSION_TTL, in ticks of the clock
    MaxClock      \* the last tick that is modelled (a bound)

ASSUME SessionTTLAssumption == SessionTTL \in Nat \ {0}

ASSUME MaxClockAssumption == MaxClock \in Nat /\ SessionTTL <= MaxClock

ASSUME NoneAssumption ==
    None \notin Sessions \cup Devices \cup Providers \cup Tokens

VARIABLES
    sessions,     \* the table oauth_sessions
    requests,     \* the handlers in flight
    clock,        \* PostgresStore.now
    redirected,   \* sessions whose state value a browser carried to a provider
    cloudTokens,  \* the table cloud_tokens: the token set last stored
    brokerTokens, \* the table broker_refresh_tokens: a broker token is named
                  \* by the token set whose exchange made it
    granted,      \* history: the session each token set was issued for
    claims        \* history: the redemptions, a token set and a device each

tables == <<cloudTokens, brokerTokens>>

history == <<granted, claims>>

vars == <<sessions, requests, clock, redirected, tables, history>>

-----------------------------------------------------------------------------
(* Rows and request records. *)

Open == {"pending", "authorizing"}

Settled == {"used", "cancelled", "expired"}

Status == Open \cup Settled \cup {"success", "failed"}

NoRow == [status |-> "absent", device |-> None, provider |-> None,
          verifier |-> FALSE, token |-> None, expiresAt |-> 0]

Row == [status : Status \cup {"absent"}, device : Devices \cup {None},
        provider : Providers \cup {None}, verifier : BOOLEAN,
        token : Tokens \cup {None}, expiresAt : Nat]

Idle == [op |-> "none", pc |-> "idle", session |-> None, device |-> None,
         provider |-> None, seen |-> "absent", verifier |-> FALSE,
         goal |-> "absent", token |-> None]

Request ==
    [op : {"none", "start", "callback", "status", "cancel", "redeem"},
     pc : {"idle", "got", "calling", "mark", "marking", "update",
           "redeeming", "redeemed"},
     session : Sessions \cup {None}, device : Devices \cup {None},
     provider : Providers \cup {None}, seen : Status \cup {"absent"},
     verifier : BOOLEAN, goal : Status \cup {"absent"},
     token : Tokens \cup {None}]

Exists(s) == sessions[s].status # "absent"

Live(s) == clock < sessions[s].expiresAt

\* SELECT ... FOR UPDATE holds the row until the transaction ends; every
\* UPDATE of the row waits for it, a plain SELECT does not.
Unlocked(s) ==
    \A r \in Requests :
        ~ (requests[r].pc = "redeeming" /\ requests[r].session = s)

\* Mutant of Ended: the token stays in the row.
EndedKeepsToken(row, status) ==
    [row EXCEPT !.status = status, !.verifier = FALSE]

\* UPDATE ... SET status, token_json = NULL, pkce_verifier = ''
Ended(row, status) ==
    [row EXCEPT !.status = status, !.token = None, !.verifier = FALSE]

\* Mutant of Marked: every caller passes clearPKCE = false.
MarkedKeepsVerifier(row, status, token) ==
    [row EXCEPT !.status = status, !.token = token]

\* The UPDATE of updateStatus: the verifier survives only MarkAuthorizing.
Marked(row, status, token) ==
    [row EXCEPT !.status = status, !.token = token,
                !.verifier = @ /\ status = "authorizing"]

At(r, op, pc) == requests[r].op = op /\ requests[r].pc = pc

Finish(r) == requests' = [requests EXCEPT ![r] = Idle]

-----------------------------------------------------------------------------
(* Session creation, and the first read of each handler. *)

\* Mutant of CreateSession: the row is written with a status of its own.
CreateSessionOddStatus(s, d, p, then) ==
    /\ ~ Exists(s)
    /\ then <= clock
    /\ then + SessionTTL <= MaxClock
    /\ sessions' = [sessions EXCEPT ![s] =
          [NoRow EXCEPT !.status = "created", !.device = d, !.provider = p,
                        !.expiresAt = then + SessionTTL]]
    /\ UNCHANGED <<requests, clock, redirected, tables, history>>

\* The handler computes expires_at from its own reading of the clock (then)
\* before the INSERT, which may land later.  The guard on MaxClock lets
\* every session live to see its deadline.
CreateSession(s, d, p, then) ==
    /\ ~ Exists(s)
    /\ then <= clock
    /\ then + SessionTTL <= MaxClock
    /\ sessions' = [sessions EXCEPT ![s] =
          [status |-> "pending", device |-> d, provider |-> p,
           verifier |-> TRUE, token |-> None,
           expiresAt |-> then + SessionTTL]]
    /\ UNCHANGED <<requests, clock, redirected, tables, history>>

\* The SELECT of Get and GetByState.  An unknown id changes nothing.
Get(r, op, s, d, p) ==
    /\ requests[r].pc = "idle"
    /\ Exists(s)
    /\ requests' = [requests EXCEPT ![r] =
          [op |-> op, pc |-> "got", session |-> s, device |-> d,
           provider |-> p, seen |-> sessions[s].status,
           verifier |-> sessions[s].verifier,
           goal |-> "absent", token |-> None]]
    /\ UNCHANGED <<sessions, clock, redirected, tables, history>>

StartOAuth(r, s, p) == Get(r, "start", s, None, p)

CallbackOAuth(r, s, p) ==
    /\ s \in redirected
    /\ Get(r, "callback", s, None, p)

GetStatus(r, s, d) == Get(r, "status", s, d, None)

CancelSession(r, s, d) == Get(r, "cancel", s, d, None)

-----------------------------------------------------------------------------
(* What follows the read.  The deadline is compared after the SELECT has   *)
(* returned, so time may have passed in between.                           *)

\* Mutant of ExpireIfNeeded: the caller is told, the row stays as it is.
ExpireIfNeededNoUpdate(r) ==
    /\ requests[r].pc \in {"got", "marking"}
    /\ ~ Live(requests[r].session)
    /\ Finish(r)
    /\ UNCHANGED <<sessions, clock, redirected, tables, history>>

\* Mutant of ExpireIfNeeded: updateStatus tries again when its Get fails.
ExpireIfNeededRetries(r) ==
    LET s == requests[r].session
    IN  /\ requests[r].pc \in {"got", "marking"}
        /\ ~ Live(s)
        /\ \/ requests[r].seen \in Settled /\ UNCHANGED sessions
           \/ /\ requests[r].seen \notin Settled
              /\ Unlocked(s)
              /\ sessions' = [sessions EXCEPT ![s] = Ended(@, "expired")]
        /\ IF requests[r].pc = "got"
             THEN Finish(r) ELSE requests' = [requests EXCEPT ![r].pc = "mark"]
        /\ UNCHANGED <<clock, redirected, tables, history>>

\* The deadline has passed: the row is expired unless the status that was
\* read says it has ended, and the handler returns.
ExpireIfNeeded(r) ==
    LET s == requests[r].session
    IN  /\ requests[r].pc \in {"got", "marking"}
        /\ ~ Live(s)
        /\ \/ /\ requests[r].seen \in Settled
              /\ UNCHANGED sessions
           \/ /\ requests[r].seen \notin Settled
              /\ Unlocked(s)
              /\ sessions' = [sessions EXCEPT ![s] = Ended(@, "expired")]
        /\ Finish(r)
        /\ UNCHANGED <<clock, redirected, tables, history>>

\* The handler goes on to mark the session (goal), or returns.
Mark(r, goal) ==
    requests' = [requests EXCEPT ![r] =
        [@ EXCEPT !.pc = "mark", !.goal = goal,
                  !.seen = "absent", !.verifier = FALSE]]

StartChecked(r) ==
    LET q == requests[r]
    IN  /\ At(r, "start", "got")
        /\ Live(q.session)
        /\ \/ /\ sessions[q.session].provider = q.provider
              /\ q.seen \in Open
              /\ q.verifier               \* AuthURL refuses an empty verifier
              /\ Mark(r, "authorizing")
           \/ /\ \/ sessions[q.session].provider # q.provider
                 \/ q.seen \notin Open
                 \/ ~ q.verifier
              /\ Finish(r)
        /\ UNCHANGED <<sessions, clock, redirected, tables, history>>

\* A callback of the wrong provider fails the session whatever its status; a
\* callback with an error or without a code fails it when it is open; one
\* with a code goes on to call the provider.
CallbackChecked(r) ==
    LET q == requests[r]
        match == sessions[q.session].provider = q.provider
    IN  /\ At(r, "callback", "got")
        /\ Live(q.session)
        /\ \/ /\ ~ match \/ q.seen \in Open
              /\ Mark(r, "failed")
           \/ /\ match /\ q.seen \in Open
              /\ requests' = [requests EXCEPT ![r] =
                    [@ EXCEPT !.pc = "calling", !.seen = "absent"]]
           \/ /\ match /\ q.seen \notin Open
              /\ Finish(r)
        /\ UNCHANGED <<sessions, clock, redirected, tables, history>>

StatusChecked(r) ==
    /\ At(r, "status", "got")
    /\ Live(requests[r].session)
    /\ Finish(r)
    /\ UNCHANGED <<sessions, clock, redirected, tables, history>>

CancelChecked(r) ==
    LET q == requests[r]
        allowed == /\ sessions[q.session].device = q.device
                   /\ q.seen # "used"
    IN  /\ At(r, "cancel", "got")
        /\ Live(q.session)
        /\ \/ /\ allowed
              /\ requests' = [requests EXCEPT ![r] =
                    [@ EXCEPT !.pc = "update", !.goal = "cancelled"]]
           \/ ~ allowed /\ Finish(r)
        /\ UNCHANGED <<sessions, clock, redirected, tables, history>>

\* The call of the provider's token endpoint.  Without a verifier it is never
\* made; with one the provider may still refuse.
ExchangeGranted(r, t) ==
    /\ At(r, "callback", "calling")
    /\ requests[r].verifier
    /\ granted[t] = None
    /\ granted' = [granted EXCEPT ![t] = requests[r].session]
    /\ requests' = [requests EXCEPT ![r] =
          [@ EXCEPT !.pc = "mark", !.goal = "success",
                    !.token = t, !.verifier = FALSE]]
    /\ UNCHANGED <<sessions, clock, redirected, tables, claims>>

ExchangeRefused(r) ==
    /\ At(r, "callback", "calling")
    /\ Mark(r, "failed")
    /\ UNCHANGED <<sessions, clock, redirected, tables, history>>

-----------------------------------------------------------------------------
(* updateStatus: a SELECT, a check, then an UPDATE that names only the id. *)

MarkGet(r) ==
    /\ requests[r].pc = "mark"
    /\ requests' = [requests EXCEPT ![r] =
          [@ EXCEPT !.pc = "marking",
                    !.seen = sessions[requests[r].session].status]]
    /\ UNCHANGED <<sessions, clock, redirected, tables, history>>

\* Mutant of MarkChecked: statusAllowed is not asked.
MarkCheckedAnyStatus(r) ==
    /\ requests[r].pc = "marking"
    /\ Live(requests[r].session)
    /\ requests' = [requests EXCEPT ![r].pc = "update"]
    /\ UNCHANGED <<sessions, clock, redirected, tables, history>>

\* When the status is not allowed the handler returns and drops its token.
MarkChecked(r) ==
    /\ requests[r].pc = "marking"
    /\ Live(requests[r].session)
    /\ \/ /\ requests[r].seen \in Open
          /\ requests' = [requests EXCEPT ![r].pc = "update"]
       \/ requests[r].seen \notin Open /\ Finish(r)
    /\ UNCHANGED <<sessions, clock, redirected, tables, history>>

\* The UPDATE of updateStatus and of Cancel.  When it marks a session
\* authorizing the browser is redirected and the state value leaves the broker.
UpdateRow(r) ==
    LET q == requests[r]
    IN  /\ q.pc = "update"
        /\ Unlocked(q.session)
        /\ sessions' = [sessions EXCEPT ![q.session] =
                            Marked(@, q.goal, q.token)]
        /\ redirected' = IF q.goal = "authorizing"
                           THEN redirected \cup {q.session} ELSE redirected
        /\ Finish(r)
        /\ UNCHANGED <<clock, tables, history>>

-----------------------------------------------------------------------------
(* Redeem, the only transaction.  A refused redemption leaves no trace: the *)
(* UPDATE that expires the row is undone by the deferred Rollback.          *)

\* What RedeemLock does when its checks have passed.
Locked(r, s, d) ==
    /\ requests' = [requests EXCEPT ![r] =
          [Idle EXCEPT !.op = "redeem", !.pc = "redeeming", !.session = s,
                       !.device = d, !.token = sessions[s].token]]
    /\ UNCHANGED <<sessions, clock, redirected, tables, history>>

Redeemable(s) == sessions[s].status = "success" /\ sessions[s].token # None

\* Mutant of RedeemLock: SELECT without FOR UPDATE.
RedeemLockNoLock(r, s, d) ==
    /\ requests[r].pc = "idle"
    /\ sessions[s].device = d
    /\ Live(s)
    /\ Redeemable(s)
    /\ Locked(r, s, d)

\* Mutant of RedeemLock: any device may redeem.
RedeemLockAnyDevice(r, s, d) ==
    /\ requests[r].pc = "idle"
    /\ Unlocked(s)
    /\ Live(s)
    /\ Redeemable(s)
    /\ Locked(r, s, d)

\* Mutant of RedeemLock: the deadline is not compared.
RedeemLockLate(r, s, d) ==
    /\ requests[r].pc = "idle"
    /\ Unlocked(s)
    /\ sessions[s].device = d
    /\ Redeemable(s)
    /\ Locked(r, s, d)

RedeemLock(r, s, d) ==
    /\ requests[r].pc = "idle"
    /\ Unlocked(s)
    /\ sessions[s].device = d
    /\ Live(s)
    /\ Redeemable(s)
    /\ Locked(r, s, d)

\* Mutant of RedeemCommit: the token set is not stored with the session.
RedeemCommitNoStore(r) ==
    LET q == requests[r]
    IN  /\ q.pc = "redeeming"
        /\ sessions' = [sessions EXCEPT ![q.session] = Ended(@, "used")]
        /\ claims' = claims \cup {[token |-> q.token, device |-> q.device]}
        /\ requests' = [requests EXCEPT ![r] =
              [@ EXCEPT !.pc = "redeemed",
                        !.provider = sessions[q.session].provider]]
        /\ UNCHANGED <<clock, redirected, tables, granted>>

\* What the upsert of cloud_tokens keeps of the earlier row is left out here.
RedeemCommit(r) ==
    LET q == requests[r]
        provider == sessions[q.session].provider
    IN  /\ q.pc = "redeeming"
        /\ sessions' = [sessions EXCEPT ![q.session] = Ended(@, "used")]
        /\ cloudTokens' =
              [cloudTokens EXCEPT ![q.device][provider] = q.token]
        /\ claims' = claims \cup {[token |-> q.token, device |-> q.device]}
        /\ requests' = [requests EXCEPT ![r] =
              [@ EXCEPT !.pc = "redeemed", !.provider = provider]]
        /\ UNCHANGED <<clock, redirected, brokerTokens, granted>>

\* SaveBrokerRefreshToken, after the commit and outside the transaction; then
\* the response.
SaveBrokerRefreshToken(r) ==
    LET q == requests[r]
    IN  /\ q.pc = "redeemed"
        /\ brokerTokens' =
              [brokerTokens EXCEPT ![q.device][q.provider] = q.token]
        /\ Finish(r)
        /\ UNCHANGED <<sessions, clock, redirected, cloudTokens, history>>

-----------------------------------------------------------------------------
(* Failures and time. *)

\* A database error, a client that went away (the request's context is
\* cancelled and every later statement fails) or the end of the process.  An
\* open transaction rolls back.
Abort(r) ==
    /\ requests[r].pc # "idle"
    /\ Finish(r)
    /\ UNCHANGED <<sessions, clock, redirected, tables, history>>

Tick ==
    /\ clock < MaxClock
    /\ clock' = clock + 1
    /\ UNCHANGED <<sessions, requests, redirected, tables, history>>

-----------------------------------------------------------------------------
Init ==
    /\ sessions = [s \in Sessions |-> NoRow]
    /\ requests = [r \in Requests |-> Idle]
    /\ clock = 0
    /\ redirected = {}
    /\ cloudTokens = [d \in Devices |-> [p \in Providers |-> None]]
    /\ brokerTokens = [d \in Devices |-> [p \in Providers |-> None]]
    /\ granted = [t \in Tokens |-> None]
    /\ claims = {}

Arrive(r) ==
    \E s \in Sessions :
        \/ \E p \in Providers : StartOAuth(r, s, p) \/ CallbackOAuth(r, s, p)
        \/ \E d \in Devices : \/ GetStatus(r, s, d)
                              \/ CancelSession(r, s, d)
                              \/ RedeemLock(r, s, d)

Serve(r) ==
    \/ ExpireIfNeeded(r)
    \/ StartChecked(r)
    \/ CallbackChecked(r)
    \/ StatusChecked(r)
    \/ CancelChecked(r)
    \/ \E t \in Tokens : ExchangeGranted(r, t)
    \/ ExchangeRefused(r)
    \/ MarkGet(r)
    \/ MarkChecked(r)
    \/ UpdateRow(r)
    \/ RedeemCommit(r)
    \/ SaveBrokerRefreshToken(r)

Next ==
    \/ \E s \in Sessions, d \in Devices, p \in Providers, then \in 0 .. clock :
          CreateSession(s, d, p, then)
    \/ \E r \in Requests : Arrive(r) \/ Serve(r) \/ Abort(r)
    \/ Tick

Spec == Init /\ [][Next]_vars

TypeOK ==
    /\ sessions \in [Sessions -> Row]
    /\ requests \in [Requests -> Request]
    /\ clock \in 0 .. MaxClock
    /\ redirected \subseteq Sessions
    /\ granted \in [Tokens -> Sessions \cup {None}]
    /\ cloudTokens \in [Devices -> [Providers -> Tokens \cup {None}]]
    /\ brokerTokens \in [Devices -> [Providers -> Tokens \cup {None}]]
    /\ claims \subseteq [token : Tokens, device : Devices]

-----------------------------------------------------------------------------
(* Safety.                                                                 *)

\* The device that owns the session a token set was issued for.
Owner(t) == sessions[granted[t]].device

\* A callback that has the token set in hand and has not stored it yet.
Carries(r, t) == requests[r].op = "callback" /\ requests[r].token = t

\* A token set is in one place only: with one callback, in one row, or
\* redeemed by one device.  (Callbacks run in parallel, MarkSuccess overwrites
\* and Redeem moves: none of them may leave a copy behind.)
SingleCustody ==
    \A t \in Tokens :
        /\ \A r, q \in Requests : Carries(r, t) /\ Carries(q, t) => r = q
        /\ \A s, u \in Sessions :
              sessions[s].token = t /\ sessions[u].token = t => s = u
        /\ \A r \in Requests, s \in Sessions :
              ~ (Carries(r, t) /\ sessions[s].token = t)
        /\ \A c \in claims : c.token = t =>
              /\ \A r \in Requests : ~ Carries(r, t)
              /\ \A s \in Sessions : sessions[s].token # t
              /\ \A e \in claims : e.token = t => e = c

\* Wherever a token set goes, it stays with the session it was issued for, and
\* it is redeemed and stored only by the device and under the provider of that
\* session.  A broker token belongs to a redemption of the same device, and
\* the join of GetCloudTokenByBrokerRefreshToken always finds its other side.
Provenance ==
    /\ \A s \in Sessions :
          sessions[s].token # None => granted[sessions[s].token] = s
    /\ \A r \in Requests :
          requests[r].token # None =>
              granted[requests[r].token] = requests[r].session
    /\ \A c \in claims :
          granted[c.token] # None /\ Owner(c.token) = c.device
    /\ \A d \in Devices, p \in Providers :
          /\ cloudTokens[d][p] # None =>
                /\ [token |-> cloudTokens[d][p], device |-> d] \in claims
                /\ sessions[granted[cloudTokens[d][p]]].provider = p
          /\ brokerTokens[d][p] # None =>
                /\ [token |-> brokerTokens[d][p], device |-> d] \in claims
                /\ cloudTokens[d][p] # None

\* A row keeps its PKCE verifier only while the authorization can go on, and
\* its token set exactly while it can be redeemed: every status that ends a
\* session wipes both, whichever handler wrote it last.
SecretsAtRest ==
    \A s \in Sessions :
        /\ sessions[s].verifier => sessions[s].status \in Open
        /\ sessions[s].token # None <=> sessions[s].status = "success"

\* A session that says used has its token set, or a later one of the same
\* device and provider, in cloud_tokens: no failure between the statements of
\* an exchange uses up a session and stores nothing.
UsedIsStored ==
    \A s \in Sessions :
        sessions[s].status = "used" =>
            cloudTokens[sessions[s].device][sessions[s].provider] # None

-----------------------------------------------------------------------------
(* Action properties.                                                      *)

\* The statuses in the order the handlers mean them to follow.
Lifecycle ==
    {<<"absent", "pending">>, <<"pending", "authorizing">>,
     <<"success", "used">>} \cup
    (Open \X {"success", "failed"}) \cup
    ((Open \cup {"success", "failed"}) \X {"cancelled", "expired"})

\* A handler that has read the row and has not written it yet.
InFlight(r, s) ==
    requests[r].session = s /\ requests[r].pc \in {"got", "marking", "update"}

LifecycleStep(s) ==
    \/ sessions'[s].status = sessions[s].status
    \/ <<sessions[s].status, sessions'[s].status>> \in Lifecycle
    \/ \E r \in Requests :
          InFlight(r, s) /\ requests[r].seen # sessions[s].status

\* A session leaves the order of Lifecycle only by a handler that read it
\* before another handler changed it: nothing but a stale read does that.
LifecycleUnlessStale == [][\A s \in Sessions : LifecycleStep(s)]_vars

\* Requests that decided to change the row and have not done so yet.
Writers(s) ==
    {r \in Requests : /\ requests[r].session = s
                      /\ requests[r].pc \in {"update", "redeeming"}}

LapsedStep(s) ==
    Exists(s) /\ ~ Live(s) =>
        /\ Writers(s)' \subseteq Writers(s)
        /\ Writers(s) = {} =>
              sessions'[s] \in {sessions[s], Ended(sessions[s], "expired")}

\* After the deadline no request newly decides to change the session, and when
\* the ones that decided before it are done the row can only become expired.
LapsedOnlyExpires == [][\A s \in Sessions : LapsedStep(s)]_vars

\* Requests that read the row before it settled and may still write it.
Outdated(s) ==
    {r \in Requests : \/ InFlight(r, s) /\ requests[r].seen \notin Settled
                      \/ /\ requests[r].pc = "redeeming"
                         /\ requests[r].session = s}

SettledStep(s) ==
    sessions[s].status \in Settled =>
        /\ Outdated(s)' \subseteq Outdated(s)
        /\ Outdated(s) = {} =>
              sessions'[s].status \in {sessions[s].status, "cancelled"}

\* A session that has settled is disturbed only by requests that had read it
\* before: no later one joins them, whatever they make of the row, and when they
\* are done the session stays as it is, but for a device that cancels it.
SettledStays == [][\A s \in Sessions : SettledStep(s)]_vars

Claimed(t) == \E c \in claims : c.token = t

\* A redemption commits only a token set that nobody has redeemed before.
RedeemedOnce ==
    [][\A r \in Requests :
          /\ requests[r].pc = "redeeming"
          /\ requests'[r].pc = "redeemed"
          => ~ Claimed(requests[r].token)]_vars

-----------------------------------------------------------------------------
(* The sessions keep the promise of TokenCustody.                          *)

Carried(t) == \E r \in Requests : Carries(r, t)

Parked(t) == \E s \in Sessions : sessions[s].token = t

Place(t) ==
    IF granted[t] = None THEN "unissued"
    ELSE IF Claimed(t) THEN "claimed"
    ELSE IF Carried(t) THEN "inflight"
    ELSE IF Parked(t) THEN "parked"
    ELSE "dropped"

HolderSet(t) == {c.device : c \in {e \in claims : e.token = t}}

CustodyOf(t) ==
    [place |-> Place(t),
     owner |-> IF granted[t] = None THEN None ELSE Owner(t),
     holders |-> HolderSet(t)]

Abstract == INSTANCE TokenCustody WITH
                custody <- [t \in Tokens |-> CustodyOf(t)]

\* Every step of a handler moves each token set as TokenCustody allows, or
\* leaves it where it is.
CustodyKept == Abstract!Spec

-----------------------------------------------------------------------------
(* Liveness.                                                               *)

\* The goroutine of a request runs on; a statement that waits for a row lock
\* gets it in turn; time passes.  Nothing makes a provider answer: the HTTP
\* client of oauth2 has no timeout, and the context of the request ends only
\* when the browser goes away.
Fairness ==
    /\ WF_vars(Tick)
    /\ \A r \in Requests : SF_vars(requests[r].pc # "calling" /\ Serve(r))

\* No browser waits for ever: a provider answers in the end, or the user closes
\* the page and the call is given up.
Answering ==
    \A r \in Requests :
        WF_vars(requests[r].pc = "calling" /\ (Serve(r) \/ Abort(r)))

\* The device asks for the status of its session until it gets an answer.
Polling ==
    \A s \in Sessions :
        /\ SF_vars(\E r \in Requests, d \in Devices : GetStatus(r, s, d))
        /\ SF_vars(\E r \in Requests :
                      requests[r].session = s /\ ExpireIfNeeded(r))

FairSpec == Spec /\ Fairness

\* Every request ends or gets as far as the call of its provider, and after
\* that call it ends: no order of the row locks leaves one waiting for ever.
RequestsFinish ==
    \A r \in Requests :
        requests[r].pc \notin {"idle", "calling"} ~>
            requests[r].pc \in {"idle", "calling"}

\* A session that is polled, by a device and with providers that answer, comes
\* to rest: late writers may overwrite expired, but only finitely often.
EventuallySettled ==
    Answering /\ Polling =>
        \A s \in Sessions :
            Exists(s) ~> [](sessions[s].status \in Settled)

-----------------------------------------------------------------------------
(* What the repository says of the program and the program does not do.    *)

\* README.md:73, "Cancel an OAuth session owned by the device.": a session
\* that was cancelled does not end up with the user's token set after all.
CancelledNeverSucceeds ==
    [][\A s \in Sessions :
          sessions[s].status = "cancelled" =>
              sessions'[s].status # "success"]_vars

\* .env.example:18, "Interval for cleaning expired OAuth sessions": a session
\* whose deadline has passed is cleaned whether or not somebody asks for it.
ExpiredIsCleaned ==
    \A s \in Sessions :
        Exists(s) /\ ~ Live(s) ~> sessions[s].status \in Settled
=============================================================================
