# OAuth Broker in TLA+

TLA+ models of the broker under `src/`, TLC runs that check them on small
instances, and TLAPS proofs of their main properties for every instance.

Contents: [the system](#the-system) · [modules](#modules) ·
[OAuthSession](#oauthsession) · [DeviceAuth](#deviceauth) ·
[CloudTokens](#cloudtokens) · [Broker](#broker) · [Server](#server) ·
[Startup](#startup) · [runs](#runs) ·
[proofs](#proofs) · [what the code does otherwise](#what-the-code-does-otherwise) ·
[not modelled](#not-modelled) · [plan](#plan)

## The system

The broker is one Go process in front of PostgreSQL. `net/http` runs each
request in a goroutine of its own; the process keeps no state between requests
but the connections of its pool (`provider.Registry` is filled before the server
starts and constant until it stops). All lasting state is in five tables and in
what NAS devices, browsers and providers hold. Statements commit
one by one on connections of a pool; the only transaction is `Redeem`. So the
system is a set of short sequential handlers that interleave at their SQL
statements, at their readings of the clock and at the call of the provider.

| Component | State | Operations | Talks to |
| --- | --- | --- | --- |
| OAuth sessions: `handler/oauth.go`, `database/postgres.go` | `oauth_sessions` (status, PKCE verifier, token set, deadline) | CreateSession, StartOAuth, CallbackOAuth, GetStatus, Exchange, CancelSession; store: Create, Get, GetByState, Mark*, Redeem, Cancel, expireIfNeeded | providers (AuthURL, Exchange), cloud tokens (Redeem), JWT middleware |
| Cloud and broker tokens: `database/postgres.go`, `handler/auth.go` | `cloud_tokens`, `broker_refresh_tokens` | SaveCloudToken, SaveBrokerRefreshToken, GetCloudTokenByBrokerRefreshToken, RcloneToken | providers (Refresh), sessions (Redeem writes it) |
| Devices and signed requests: `handler/auth.go`, `auth/device.go` | `devices`, `device_auth_nonces` | RegisterDevice, IssueToken, GetDevice, UseAuthNonce, TouchDevice | JWTs |
| JWTs: `auth/jwt.go`, `router.requireJWT` | none; the JWTs are with the devices | Issue, Validate, RefreshJWT | devices |
| Router: `router/router.go` | the device id in the context of a request | routes, requireJWT | all handlers |
| Process: `cmd/server/main.go`, pool in `database/postgres.go` | connections of the pool, listener, signal | load, register, connect, listen, Shutdown, Close | all handlers, PostgreSQL |
| Providers: `provider/*` | registry, constant after start | Register, Get, AuthURL, Exchange, Refresh | external OAuth servers |
| Configuration: `config/*` | the environment, read once | Load and its parts, Validate | providers, process |
| Pages, health, build info, request log | none | | |

What is hard, by component, and what makes it correct:

* **Sessions.** Every write except `Redeem` is a SELECT, a check in Go and an
  UPDATE that names only the id (`postgres.go:236-265`, `333-346`, `438-449`).
  Between check and write another callback, start, cancel, redemption or expiry
  may commit. The provider's answer can take arbitrarily long. Required: a token
  set is never in two places, is claimed at most once and by the device it was
  issued for; a session that ended keeps no secret; after the deadline nothing
  new starts; whatever goes wrong with the order of the statuses is due to a
  stale read and nothing else; requests end and polled sessions come to rest.
* **Exchange** is `Redeem` (a transaction), then `SaveBrokerRefreshToken`, then
  the response. It can fail in between. Required: a used session has its token
  set stored, and both tables agree.
* **Signed requests** are read, verified against the clock, and remembered in
  separate steps, while nonces are purged by age. The network may repeat a
  message. Required: honoured once.
* **JWTs** are renewed with a JWT. Required: a device that was disabled loses its
  access in bounded time, and stays out until it is registered again; a key that
  was replaced obtains nothing for signed messages that arrive later. A JWT is not
  tied to a key: one that was obtained with a key that has been replaced since
  renews itself through `/api/auth/refresh` for as long as the device is enabled.
* **Cloud tokens.** A row is read, the provider is called, and the row is replaced
  without a look at what it holds by then, while providers rotate refresh
  tokens. Required: a refresh token stays with its device and provider, is not
  dropped for a token set without one, and is replaced by a refused one only
  through a stale write.

* **A JWT is all a protected request shows.** `requireJWT` looks at no table, and
  the request touches its session some statements later, when its device may be
  disabled or registered anew. Required: sessions belong to registered devices,
  end only on the word of their own, and a disabled device gets nothing once its
  JWTs have run out.
* **The pool is small** and a statement that waits for a row keeps its connection.
  Required: the handlers never all wait for each other.
* **A stop** has ten seconds. Handlers may wait for a provider longer than that,
  and the goroutine that listens runs when it likes. Required: the pool is not
  closed under a request before the time is over, and the process does end.
* **A restart** may bring another environment, while sessions are open and
  browsers are away. Required: whatever was configured is served, and no session
  is lost to a URL that nobody changed.

`PROJECT.json` lists these hazards at their lines with the properties that
cover them.

## Modules

| Module | What it is |
| --- | --- |
| `OAuthSession` | the sessions and every handler that touches them, one action per statement |
| `TokenCustody` | what the broker promises of one token set: abstract specification |
| `MCOAuthSession` | symmetry sets for TLC |
| `OAuthSessionProofs` | TLAPS proofs about `OAuthSession`, and that it implements `TokenCustody` |
| `DeviceAuth` | devices, nonces, JWTs and their handlers |
| `MCDeviceAuth` | symmetry sets for TLC |
| `DeviceAuthProofs` | TLAPS proofs about `DeviceAuth` |
| `CloudTokens` | refresh tokens in `cloud_tokens`, broker tokens, the rclone endpoint and the providers' rotation |
| `GrantRegister` | what the broker promises of the refresh tokens it keeps: abstract specification |
| `MCCloudTokens` | symmetry sets for TLC |
| `CloudTokensProofs` | TLAPS proofs about `CloudTokens`, and that it implements `GrantRegister` |
| `GrantRegisterProofs` | TLAPS proofs about `GrantRegister` by itself |
| `Broker` | `DeviceAuth` and `OAuthSession` composed, with `requireJWT` between them |
| `MCBroker`, `BrokerProofs` | as above |
| `Server` | the process, the pool of connections, the row locks and the handlers that share them |
| `MCServer`, `ServerProofs` | as above |
| `Startup` | the configuration and the registry of providers across restarts, and the sessions that outlive them |
| `MCStartup`, `StartupProofs` | as above |

`OAuthSession` by itself lets a protected handler run for any device at any time,
which includes whatever `DeviceAuth` lets through; `Broker` says what that is.
The constant `Devices` stands for the devices that may ever register; no code
deletes one.

`CloudTokens` looks at the last statements of an exchange from the side of the
token tables: `OAuthSession` says which session's token set is redeemed for whom,
`CloudTokens` what refresh token it carries and what becomes of it.

The modules use the same form. A *request slot* `requests[r]` is one goroutine:
how far it is (`pc`) and what it has read and still uses. A slot is reset to
`Idle` when its handler returns. `Abort(r)` ends a request anywhere: a statement
failed, the client went away and the context was cancelled, or the process died
(every request is then aborted; the tables stay). A refused request whose
refusal changes nothing is not an action. Definitions named as "Mutant of X" are
variants of X with a plausible mistake; nothing in the specification uses them.
They are there to show that the properties can fail.

## OAuthSession

| Variable | Code |
| --- | --- |
| `sessions` | `oauth_sessions`. `status = "absent"`: no row. `verifier`: `pkce_verifier <> ''`. `token`: `token_json`, as the identity of the provider's answer |
| `requests` | handlers in flight. `seen`: the status last read, `verifier`: whether the session read had one, `goal`: the status to be written, `token`: the token set in hand |
| `clock` | `PostgresStore.now` and `time.Now` |
| `redirected` | sessions whose `state` value has left the broker in a redirect; only then can a callback carry it |
| `cloudTokens`, `brokerTokens` | the tables, per device and provider; a broker token is named by the token set of its exchange |
| `granted`, `claims` | history: which session a token set was issued for, which device redeemed it |

| Action | Code |
| --- | --- |
| `CreateSession(s,d,p,then)` | `oauth.go:38-88`; `then` is the handler's `now`, read before the INSERT lands |
| `StartOAuth`, `CallbackOAuth`, `GetStatus`, `CancelSession` | route and the SELECT in `Get` / `GetByState` |
| `ExpireIfNeeded(r)` | the deadline branch of `expireIfNeeded`, both for the first read and for the one inside `updateStatus`; the handler then returns |
| `StartChecked`, `CallbackChecked`, `StatusChecked`, `CancelChecked` | the deadline has not passed; the checks of the handler up to its next statement or call |
| `ExchangeGranted(r,t)`, `ExchangeRefused(r)` | the provider's `Exchange` |
| `MarkGet`, `MarkChecked`, `UpdateRow` | `updateStatus`: SELECT; deadline and `statusAllowed`; UPDATE. `UpdateRow` is also the UPDATE of `Cancel` |
| `RedeemLock(r,s,d)` | `SELECT ... FOR UPDATE` and the checks of `Redeem` |
| `RedeemCommit(r)` | upsert of `cloud_tokens`, UPDATE to `used`, commit |
| `SaveBrokerRefreshToken(r)` | the statement after the commit, and the response |
| `Abort`, `Tick` | failures, time |

The read of the clock in `expireIfNeeded` is a step after the SELECT, so the
deadline can pass between them. A row lock of `Redeem` blocks UPDATEs
(`Unlocked`), never SELECTs. A `Redeem` that is refused has no action: its
deferred `Rollback` undoes even the UPDATE that expires the row
(`postgres.go:293`), so it changes nothing. The token set is handed out at the
commit; the response may still be lost.

Abstracted: contents of ids, tokens, error texts and pages; `state` and id name
the same session (both are random and unique); a session's provider and device
never change, so handlers look them up in the row instead of a copy; the refresh
token that `Redeem` carries over from an earlier row of `cloud_tokens`.

Properties: `TypeOK`; `SingleCustody` (a token set is in one place);
`Provenance` (it stays with its session, device and provider, also in the token
tables); `SecretsAtRest` (verifier only while open, token set exactly while
successful); `UsedIsStored`; `LifecycleUnlessStale` (the status graph is left
only by a handler whose read is out of date); `LapsedOnlyExpires` (after the
deadline no request newly decides to write, and when the ones under way are done
the row can only expire); `RedeemedOnce`; `CustodyKept` (refinement of
`TokenCustody`); `SettledStays` (once a session is used, cancelled or expired, the
requests that had read it before only get fewer, and when they are done it keeps
its status, but for a device that cancels it); `RequestsFinish` and `EventuallySettled` (liveness).

`LifecycleUnlessStale` is as strong as the code allows: the stronger claims that
documentation and pages make are refuted, see
[below](#what-the-code-does-otherwise).

**Fairness.** `Tick` is weakly fair: time passes. `Serve(r)` is strongly fair
except at the call of the provider: a goroutine runs on, and an UPDATE that waits
for a row lock gets it although other requests keep taking it, because
PostgreSQL queues waiters for a row lock. The call of the provider is made
without a deadline of its own, so nothing is assumed of it: `RequestsFinish` says
that a request ends or gets to that call, and once it has its answer ends.
Nothing is assumed of `Arrive` and `Abort` either. `EventuallySettled` has two
premises more, which nothing else uses: `Answering` (providers answer in the end)
and `Polling`: the device keeps asking for the status (README "Standard
authorization flow", `NAS -> GET /api/oauth/status/:session_id`) and, infinitely
often if it keeps asking, such an answer is not cut off before the expiry.
Without polling the property is false, which is the run `expired_is_cleaned`.

## DeviceAuth

| Variable | Code |
| --- | --- |
| `devices` | `devices`: `public_key_pem` and `disabled` |
| `nonces` | `device_auth_nonces` with `created_at` |
| `jwts` | JWTs the devices hold, by `jti`; `exp = issued + AccessTTL`; `read` is when the device row was last looked up for it |
| `requests` | `IssueToken` and `RefreshJWT` in flight |
| `accepted`, `registration`, `disabledAt` | history |

`IssueToken` is the SELECT of `GetDevice`, `VerifyDeviceSignature` compares
stamp and key, `PurgeNonces` and `InsertNonce` are the two statements of
`UseAuthNonce` (the error of the first is ignored, a unique violation of the
second is `ErrReplay`), `IssueJWT` signs. `RefreshJWT` is `requireJWT`,
`RefreshChecked` is `GetDevice`, then `IssueJWT`. `RegisterDevice` is the upsert.
`Disable` is external: no handler sets `disabled`, an operator does. Any message
any device could have signed may arrive at any time, any number of times: late,
duplicated and lost messages are all included. `TouchDevice` writes columns that
nothing reads. `Skew` is the value after the default of
`VerifyDeviceSignature`. The clocks of broker and database are taken as one.

Properties: `TypeOK`; `AcceptedOnce` (a message is granted again only by a
request that spends more than `NonceTTL - 2 * Skew` between checking the stamp
and storing the nonce; with the default of 5 minutes and 15 minutes that is
more than 5 minutes, ten times the `WriteTimeout` of the server); `KeyInForce` (a
message signed with another key than the one registered last is granted only to a
request that read the row before that registration); `DisabledCutOff` (renewing
does not prolong the access of a disabled device: it ends one JWT lifetime, plus
the time one request is under way, after the device was disabled).

## CloudTokens

| Variable | Code |
| --- | --- |
| `cloudTokens` | the refresh token in `token_json` of each row; `Bare`: a row whose token set has none |
| `brokerTokens` | `broker_refresh_tokens`, one hash per device and provider |
| `requests` | exchanges and refreshes in flight. `seen`: the row when it was read, `token`: the token set in hand |
| `revoked` | refresh tokens that their provider refuses (external) |
| `disabled` | the column of `devices` that the lookup joins |
| `account`, `made` | history: whom a refresh token was issued to, which broker tokens were made |

`RedeemRead` is the SELECT of `getCloudTokenTx`, `RedeemCommit` the merge, the
upsert and the commit, `SaveBrokerRefreshToken` the statement after it.
`RcloneToken` is the lookup and the checks of the handler; `Reused` and `Rotated`
are `Refresh` (the library reuses an access token that has not expired without
calling the provider; a provider answers with the same or a new refresh token,
and may refuse the old one from then on); `SaveCloudToken` is the upsert. `Abort`
is a provider that refuses, a failed statement, a client that goes away or the
end of the process. `Disable` is the operator's, `RegisterDevice` enables again.

Abstracted: access tokens and their expiry; the row lock on the session, which
keeps one session from being redeemed twice and is in `OAuthSession`. Which token set an exchange brings is free: with a new refresh token or without one.
Grants that a user revokes at the provider are left out; the properties speak of
tokens refused because of a rotation.

Properties: `TypeOK`; `OwnAccount` (a refresh token is stored, or about to be,
only for the device and provider it was issued for); `RefreshTokenKept` (a row
loses its refresh token only to an exchange that read the row before it had one:
`Redeem` takes no lock on `cloud_tokens`); `GrantKept` (a grant is recoverable
while the row, or a handler about to store it, has a refresh token the provider
honours; it stops being so in two ways only: a handler writes back what it knew
although the row has been replaced since it was read, or the handler that holds
the rotated token ends before it stored it). Both exceptions are reached in the
run. The first is a weakness of the code: two refreshes of one device that
overlap at a rotating provider can leave the older answer in the row, and the
device has to authorize again.
A refresh of a device that is disabled meanwhile still finishes, and no property
bounds it; what it stores is bound by `OwnAccount` and `RegisterKept`.
`BrokerTokensLead` (every stored broker token is of an account whose row is there,
and of that account only, although the exchange makes it after its transaction).

`RegisterKept` is the refinement of `GrantRegister`, which knows only one register
per account, the set of grants that requests may still write to it, and the grants
that were issued and refused. A request reads a register, comes with a new grant,
has one rotated, and writes or drops what it has: nothing else may happen to a
register. The mapping: the register is the refresh token in the row, a request
that is past `RedeemRead` or `RcloneToken` and has not stored yet (`Writers`) is
due to write `Due(r)`, which for a redemption is the merge of its token set with
the row it read, and `revoked` are the refused ones. So an overwritten grant may
come back (two exchanges that overlap, a refresh that saves late), but only while
a request still holds it; a merge that took the row of another account, or a
handler that stored what it neither read nor was given, would be no step of
`GrantRegister`.

## Broker

`Broker` instantiates `DeviceAuth` and `OAuthSession` with one clock and one set of
devices, and puts between them what the router does:

| Variable, action | Code |
| --- | --- |
| `admitted[r]` | the device id in the context of a request, with the JWT it is from and the time it was checked |
| `Admit(r,j)` | `requireJWT` (`router.go:125-142`); the device is not looked up |
| `CreateSession`, `Protected` | the routes of the protected group, for the device of the JWT |
| `Browse` | `/start` and `/callback`, which need no JWT |
| `Authenticate` | the routes of `/api/devices` and `/api/auth`, and the operator |
| `Proceed`, `Leave` | the rest of a handler; its context goes when it returns |

Properties: `TypeOK`; `SessionsOfRegistered` (the foreign key of `oauth_sessions`,
which no handler checks); `HandedOutInTime` (a token set goes to the device of the
JWT the request came with, and to a disabled device only by a request that came
within one JWT lifetime after the disabling, plus the time the request took that
issued the JWT); `BearerOnly` (a session is cancelled or used only on the word of
its own device). `DisabledStaysOut` says how the access of a disabled device ends.
A device is `ShutOut` when it is disabled, its JWTs have expired, no request of its
is behind `requireJWT`, and the only requests of its in `AuthHandler` are renewals
that have yet to look the device up. From then on, until it is registered again, it
stays shut out and creates, cancels and redeems no session; browsers that are
under way with its sessions may go on. `DisabledCutOff` bounds when that state is
reached, as far as the JWTs go.

## Server

Here a statement is something that takes a connection, may wait for a row that a
`Redeem` has locked, and gives the connection back. `Path` lists what each kind of
request needs, at the longest.

| Variable | Code |
| --- | --- |
| `phase` | how far `main` is: connecting, listening, after `signal.Notify`, in `Shutdown`, in the deferred `appStore.Close` |
| `listener` | the goroutine of `ListenAndServe`; it may run before, while and after `Shutdown` begins |
| `handlers` | goroutines of `net/http`: `waiting` for a connection of the pool, `running` a statement, `locked` and `stored` inside `Redeem`, `calling` a provider |
| `timedOut` | the ten seconds of `Shutdown` are over |

`Drained` is `Shutdown` without an open request, `DrainTimeout` its deadline;
`Exit` is `pool.Close`, which waits for the connections that are out, and the end
of `main`. `Crash` ends everything at any time, as does a signal before
`signal.Notify`. pgxpool, `net/http` and PostgreSQL are external and modelled by
what their documentation promises the code.

Properties: `TypeOK` with the bound of the pool; `SomeoneCanMove` (no deadlock over
connections and rows); `ClosesAfterDrain` (the pool is closed under a request only
when `Shutdown` has run out of time); `NeverSetBack` (a request that was read only
gets closer to its end, by the measure `StepsLeft`: no retry, no second round after
a wait, a refusal or a rollback); `StopDrains` (once told to stop, `main` does not
go back, no new client gets in, and no handler takes a connection of the pool that
is being closed); `HandlersFinish` and `StopEnds`. `NeverSetBack` with
`SomeoneCanMove`, and `StopDrains`, are what the two liveness properties need
besides fairness.

**Fairness.** A handler that can go on does, and PostgreSQL and pgxpool serve
waiters in turn (`SF` of `Serve`); the deadline of `Shutdown` passes and `main` runs
on (`WF`). No provider has to answer, no client has to ask and no check of
`Redeem` has to fail.

## Startup

| Variable | Code |
| --- | --- |
| `env` | the environment with `.env`: `PUBLIC_BASE_URL`, which client IDs, secrets and redirect URLs are set, and `bad`, a variable whose value is refused |
| `phase`, `registry` | how far `main` is, and `provider.Registry` |
| `sessions` | `oauth_sessions`: provider, status and error |
| `visits` | browsers that `AuthURL` has sent to a provider, with the redirect URL it named |

`Load` is `config.Load` and `setupLogging`, `Register` a constructor and
`mustRegister`, `Open` what follows up to the listener, `Stop` any end of the
process, `Edit` one change by the operator between two processes (an edit while
a process runs is the same: it is read at the next start). The handlers are
atomic, because the environment of a process never changes; their statements
are in `OAuthSession`. `Names` and `Normalize` are the spellings of `:provider`
and what the registry makes of them. A provider sends the browser to the
redirect URL it was given, and compares that with the one `Exchange` names
(external).

Properties: `TypeOK`; `ServesComplete` (a broker that serves has every provider
whose configuration was begun, and Google); `LostOnlyWhenMoved` (a session fails
with `provider_mismatch`, or because the redirect URL of the exchange is another
one, only if the operator set the URL or moved the broker while the browser was
away; a restart alone loses none).

## Runs

| Run | Instance | Shows |
| --- | --- | --- |
| `lifecycle` | 1 session, 2 devices, 2 providers, 2 token sets, 2 slots, clock to 2 (119,196 states) | `TypeOK`, `SecretsAtRest`, `LifecycleUnlessStale`, `LapsedOnlyExpires`, `CustodyKept`, `SettledStays` |
| `two_sessions` | 2 sessions, 2 devices, 2 token sets, 2 slots, clock to 1 (1.7 million) | `Provenance`, `UsedIsStored`, `SingleCustody`, `RedeemedOnce` |
| `settle` | 1 session, 2 slots, clock to 2, no symmetry (38,156) | `RequestsFinish`, `EventuallySettled` under `FairSpec` |
| `signed` | 1 device, 2 keys, 1 message of each, 2 JWTs, 2 slots, `Skew` 1, `NonceTTL` 3, clock to 4 (2.8 million) | `TypeOK`, `DisabledCutOff`, `KeyInForce`, `AcceptedOnce` |
| `tokens` | 2 devices, 2 providers, 2 refresh tokens, 2 broker tokens, 2 slots (669,818) | `TypeOK`, `OwnAccount`, `BrokerTokensLead`, `RefreshTokenKept`, `RegisterKept`, `GrantKept` |
| `broker` | 1 device, 1 key, 1 session, 1 slot for each kind of request, clock to 2 (265 thousand) | `TypeOK`, `SessionsOfRegistered`, `DisabledStaysOut`, `HandedOutInTime` |
| `bearers` | 2 devices, 1 session, 1 slot of each kind, clock to 1 (610 thousand) | `BearerOnly` |
| `pool` | 3 handlers, 2 connections, 2 sessions of 1 account (157,120) | `TypeOK`, `SomeoneCanMove`, `ClosesAfterDrain`, `NeverSetBack`, `StopDrains` |
| `stop` | 2 handlers, 1 connection, no symmetry (20,808) | `HandlersFinish`, `StopEnds` under `FairSpec` |
| `startup` | 2 providers, 3 spellings, 2 base URLs, 2 URLs an operator may set, 1 session (400,950) | `TypeOK`, `ServesComplete`, `LostOnlyWhenMoved` |
| `cancelled_never_succeeds`, `expired_is_cleaned` | small | refuted claims |

Bounds. Every race of the sessions is between a handler that has read a row and
handlers that change it: two slots give each pair, and a slot is reused, so any
number of requests may pass by while the other one waits. `SessionTTL = 1` with
`MaxClock = 2` lets a session be created on time or late, live, reach its
deadline and go past it; `CreateSession` is bounded so that every session sees
its deadline. Two token sets let one overwrite the other. Rows influence each
other only through the token tables; two sessions of equal and of different
devices show it. `two_sessions` has one provider, so that a token set stays with
its provider there rests on the theorem `ProvenanceHolds`. For nonces the ratio `NonceTTL = 3 * Skew` is the default one
and four ticks let the nonce of a message be purged while a request that checked
its stamp earlier is still under way: the second acceptance by a slow request,
which the property allows, is reached, and so are a grant for a replaced key and
a JWT that outlives a disabling by more than its lifetime. Two refresh tokens
are a grant and its replacement; with an answer that reuses the first one, or an
exchange that has none, they reach both exceptions of `GrantKept`, and that of
`RefreshTokenKept`. Two devices with two providers give every way to mistake a
row for another one. In `broker` one slot of each kind is enough because a slot
of `DeviceAuth` and one of `OAuthSession` interleave at every statement, and the
races inside each part are in its own runs; `bearers` adds the second device. In
`pool` three handlers on two connections give a redemption, a statement that
waits for its row with the last connection, and one that waits for the pool; in
`stop` one connection is the smallest pool there is. In `startup` one session
may have browsers away with every URL that any environment makes up; the two
URLs to set are the callback of the other provider and one with another
spelling. Bounds in the models: the constants marked "a bound" and the guards
`clock < MaxClock` and `then + SessionTTL <= MaxClock`. No action depends on
them otherwise.

## Proofs

`OAuthSessionProofs` holds for every set of sessions, devices, providers, token
sets and slots, and every `SessionTTL` and `MaxClock`; it uses only the
assumptions `SessionTTLAssumption`, `MaxClockAssumption` and `NoneAssumption` of
the module. The safety properties are not inductive by themselves. `IInv` adds
what a handler may rely on while it waits:

* `RequestsOK`: the fields a slot has at each `pc`; a token set is in hand only
  on the way from `ExchangeGranted` to `UpdateRow`, or during a redemption;
* `RowsOK`: a request under way, and a token set issued, belong to a row that
  exists, with a device and a provider;
* `DeadlinesOK`: an expired row, and a handler that saw one, lies past its
  deadline;
* `LocksOK`: one holder per row lock, and its row still has the token set and the
  device it saw;
* `ClaimsOK`: a redemption that has committed is on record and its row of
  `cloud_tokens` is there, so the broker token to come will find it;
* `SingleCustody`, `Provenance`, `SecretsAtRest`, `UsedIsStored` themselves.

One lemma per action shows that it keeps `IInv`; most are instances of
`QuietStep` (a step that writes only its slot). From `Invariance` follow
`TypeCorrect`, `CustodyIsSingle`, `ProvenanceHolds`, `SecretsAreWiped` and
`UsedStores`; the action properties `OnlyStaleReadsBreakLifecycle`,
`LapsedDrains` and `NoSecondRedemption` are proved step by step from `IInv`; and
`CustodyIsImplemented` shows with the mapping `CustodyOf` that each step moves
every token set as `TokenCustody` allows. `TokensOnlyMoveForward` says what that
means for one token set. `SettledSessionsStay` rests on `NoLateReader`: a request
that reads a settled row remembers a settled status, and only a redemption that
had the row lock before, or a handler that remembers an open one, can write
something else.

`DeviceAuthProofs` uses `TimesAssumption` (durations are natural numbers, stamps
positive) and `NoneAssumption`. Its `IInv` says that what a handler remembers was
true when it was read, that a device row holds the key registered last, and
(`NoncesOK`) that a granted message is remembered by a nonce created no earlier
than its stamp minus `Skew`, or its stamp is already out of reach. `AcceptedOnce`
follows by arithmetic for every choice of the durations, so the defaults need no
separate check: whoever raises `DEVICE_SIGNATURE_CLOCK_SKEW` above 7.5 minutes
leaves no time between the two, as `NonceTTL` is fixed in the code.

`CloudTokensProofs` uses `TokensAssumption` (no token is `Bare` or `None`). Its `IInv`
adds to the two invariants that what a request remembers is of its own account
(`RequestsOwn`), that only an issued token is refused (`RevokedIssued`), and
`FreshOnlyHere`: a token in the hand of the one handler that received it is in no
row and with no other request, so its provider cannot have replaced it.
`GrantsAreKept` needs the last part: a write that is not stale
stores either what is in the row or such a token. `BrokerTokensLead` is not
inductive either: `BrokerTokensKnown` adds that a request that has committed finds
its row (`RowStays`: rows are replaced, never removed) and that every stored
broker token has been made, so the next one is new.

`RegisterIsImplemented` shows action by action that the mapping takes a step of
`CloudTokens` to one of `GrantRegister` or to none. The set of grants due to be
written is handled by four lemmas, for a request that `Begins`, `Ends`, `Changes`
what it holds, or leaves it (`PendStep`): since another request may be due to write
the same grant, the end of one removes it or not, and both are steps of
`GrantRegister!End`. `GrantRegisterProofs` proves of the abstract specification
alone that every grant held was issued and no two accounts hold the same one
(`Invariance`), and that nobody gets a grant back that was in no register and with
no request (`GoneForGood`). `ReplacedTokensAreGone` carries both over to
`CloudTokens`; its instance of the proof module needs only that no refresh token
is `None`, which `TokensAssumption` says.

`BrokerProofs` uses the assumptions of both parts and reuses their inductive
invariants through instances of the two proof modules. The parts share `devices`
with what an admission remembers, so `IInv` adds `AdmissionsOK`: an admission is
of a registered device, was valid at its time, and whoever acts for it is in its
own slot; `NamesRegistered` (every device a JWT or a request names has a row) and
`CancelsOwn` (a cancellation under way is of the session's own device) are the
facts that the two parts contribute. By the lemma `PartsAreKept` the broker, seen
through the variables of one part, is that part. With it
`SessionsKeepTheirPromises` and `DevicesAreCutOff` carry the theorems of the parts
over to the broker, by way of instances of their proof modules. The link lemmas
`SameDevices` and `SameSessions` say that the definitions of a part and those its
proof module sees are the same. `DisabledDevicesStayOut` has two halves.
`DeviceAuthProofs!BarredStays` shows that a barred device gets no JWT: a message of
its is refused, it has no JWT to renew with, and a renewal under way ends when it
looks the device up. `ActsAdmitted` shows that whoever creates, cancels or redeems
a session has in its slot the admission of the device that owns the session, also
when the row was read some statements earlier (`CancelsOwn`, the row lock of
`Redeem`). A device that is shut out has no admission, and needs a valid JWT to be
given one.

`ServerProofs` uses that the pool is not empty and the handlers are finitely many.
`IInv` adds to `TypeOK` and `ClosesAfterDrain` that a handler which asks for the
database has a statement to make (`Mine`) and that nobody can connect once
`Shutdown` has begun (`Listener`). `NoDeadlock` is an argument over one state:
whoever waits for the pool waits for a handler that has a connection; whoever has
one and waits for a row waits for a `Redeem`; and a `Redeem` waits at most for
one that has stored and needs nothing more. `RequestsGoForward` and
`RequestsAreShort` (at most 26 steps) bound what a request can do, and
`StopOnlyDrains` what a process can after a signal.

`StartupProofs` uses `StartupAssumption` (a provider's name is its own normal form).
`IInv` adds `Loaded` (what runs is complete), `Served` and `AllSent`: each browser
was sent to its provider's own callback, or with a URL of the operator's.

Only model-checked: `RequestsFinish`, `EventuallySettled`, `HandlersFinish` and
`StopEnds`, because fairness and `ENABLED` are out of the prover's reach, and the
refuted claims. What these liveness properties rest on besides fairness is proved
where it is a safety property: `SettledStays` for `EventuallySettled`,
`SomeoneCanMove`, `NeverSetBack` and the bound of `RequestsAreShort` for
`HandlersFinish`, `StopDrains` for `StopEnds`. Every safety property of the
passing runs has a theorem.

## What the code does otherwise

* `cancelled_never_succeeds`: `updateStatus` writes by id alone
  (`postgres.go:252`). A callback that passed its check before `Cancel` wrote
  turns `cancelled` into `success`; the device can then redeem a session it
  cancelled (README.md:73). In the same way a second start or callback that read
  the session before it succeeded takes the success back, after the page has
  reported it (`oauth.go:183`): that is among what `LifecycleUnlessStale` allows.
* `expired_is_cleaned`: `SESSION_CLEANUP_INTERVAL` (`.env.example:18`) is loaded
  and validated (`config/server.go:22`) and used by nothing.

An UPDATE that also names the status it expects would make the first one hold.

## Not modelled

`buildinfo`, `/healthz`, `/version`, request log and headers, the callback page
and the release workflow keep no state. Parsing of keys, signatures
and JWTs is abstracted to whether they are valid, and a value of the environment
to whether it is refused. Access tokens, their expiry and the headers of
responses are left out. The timeouts of `http.Server` are not in the models: they
cut a connection off, which `Abort` does at any time.

## Plan

Done: `OAuthSession` with `TokenCustody`, `DeviceAuth`, `CloudTokens` with
`GrantRegister`, `Broker`, `Server` and `Startup`, each with its runs and its
proofs. To come:

1. `OAuthSession` shown to implement the exchange half of `CloudTokens`:
   `RedeemCommit` and `SaveBrokerRefreshToken` of both modules are the same
   statements.
2. `CloudTokens` in the composition: the disabled devices are those of
   `DeviceAuth`, and a bound on what a disabled device can still refresh there.
3. A measure like `StepsLeft` for the requests of `OAuthSession`, the safety half
   of `RequestsFinish`.
