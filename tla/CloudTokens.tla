---------------------------- MODULE CloudTokens ----------------------------
(***************************************************************************)
(* The refresh tokens of the providers: what Redeem and the rclone endpoint *)
(* keep in cloud_tokens, and which broker token reaches it.  A row is read  *)
(* in one statement and replaced in a later one, with a call of the         *)
(* provider in between, and a provider may rotate a refresh token: issue a  *)
(* new one and refuse the old one from then on.                             *)
(***************************************************************************)
EXTENDS Naturals

CONSTANTS
    Devices,        \* registered NAS devices
    Providers,      \* registered providers
    RefreshTokens,  \* refresh tokens the providers can still issue (a bound)
    BrokerTokens,   \* broker refresh tokens that can still be made (a bound)
    Requests,       \* slots for requests in flight at one time (a bound)
    Bare,           \* a token set without a refresh token
    None            \* no row, no token

ASSUME TokensAssumption ==
    /\ Bare # None
    /\ {Bare, None} \cap (RefreshTokens \cup BrokerTokens) = {}
    /\ None \notin Devices \cup Providers

VARIABLES
    cloudTokens,    \* the table cloud_tokens: the refresh token of each row
    brokerTokens,   \* the table broker_refresh_tokens
    requests,       \* the handlers in flight
    account,        \* history: the device and provider of a refresh token
    revoked,        \* the refresh tokens their provider refuses
    made,           \* history: the broker tokens that were made
    disabled        \* the devices that are disabled

vars == <<cloudTokens, brokerTokens, requests, account, revoked, made,
          disabled>>

-----------------------------------------------------------------------------

Account == [device : Devices, provider : Providers]

NoAccount == [device |-> None, provider |-> None]

TokenSet == RefreshTokens \cup {Bare}

Idle == [pc |-> "idle", account |-> NoAccount, seen |-> None,
         token |-> None, broker |-> None]

\* seen is the row when it was read, token the token set in hand.
Request ==
    [pc : {"idle", "redeeming", "redeemed", "refreshing", "saving"},
     account : Account \cup {NoAccount}, seen : TokenSet \cup {None},
     token : TokenSet \cup {None}, broker : BrokerTokens \cup {None}]

Finish(r) == requests' = [requests EXCEPT ![r] = Idle]

\* A refresh token that no provider has issued before.
Issue(t, a) ==
    /\ account[t] = NoAccount
    /\ account' = [account EXCEPT ![t] = a]

\* Mutant of Merge: the earlier refresh token is not kept.
MergeForgets(token, current) == token

\* A token set without a refresh token takes over the one that is stored.
Merge(token, current) ==
    IF token = Bare /\ current # None THEN current ELSE token

-----------------------------------------------------------------------------
(* Exchange: the part of Redeem that concerns cloud_tokens.  The session    *)
(* holds a token set that the provider issued for this device; a provider   *)
(* may leave the refresh token out when the user had consented before.      *)

RedeemRead(r, a, t) ==
    /\ requests[r].pc = "idle"
    /\ \/ t \in RefreshTokens /\ Issue(t, a)
       \/ t = Bare /\ UNCHANGED account
    /\ requests' = [requests EXCEPT ![r] =
          [pc |-> "redeeming", account |-> a, seen |-> cloudTokens[a],
           token |-> t, broker |-> None]]
    /\ UNCHANGED <<cloudTokens, brokerTokens, revoked, made, disabled>>

\* Mutant of RedeemCommit: the upsert stores the token set as it came.
RedeemCommitUnmerged(r) ==
    LET q == requests[r]
    IN  /\ q.pc = "redeeming"
        /\ cloudTokens' = [cloudTokens EXCEPT ![q.account] = q.token]
        /\ requests' = [requests EXCEPT ![r].pc = "redeemed"]
        /\ UNCHANGED <<brokerTokens, account, revoked, made, disabled>>

\* The upsert and the commit.
RedeemCommit(r) ==
    LET q == requests[r]
    IN  /\ q.pc = "redeeming"
        /\ cloudTokens' = [cloudTokens EXCEPT ![q.account] =
                              Merge(q.token, q.seen)]
        /\ requests' = [requests EXCEPT ![r].pc = "redeemed"]
        /\ UNCHANGED <<brokerTokens, account, revoked, made, disabled>>

\* Mutant of SaveBrokerRefreshToken: the refresh token of the provider is stored
\* where the one of the broker belongs.
SaveProviderRefreshToken(r, b) ==
    /\ requests[r].pc = "redeemed"
    /\ brokerTokens' =
          [brokerTokens EXCEPT ![requests[r].account] = requests[r].token]
    /\ Finish(r)
    /\ UNCHANGED <<cloudTokens, account, revoked, made, disabled>>

\* Mutant of SaveBrokerRefreshToken: the broker token is stored before Redeem has
\* committed.
SaveBrokerRefreshTokenFirst(r, b) ==
    LET q == requests[r]
    IN  /\ q.pc \in {"redeeming", "redeemed"}
        /\ b \notin made
        /\ made' = made \cup {b}
        /\ brokerTokens' = [brokerTokens EXCEPT ![q.account] = b]
        /\ Finish(r)
        /\ UNCHANGED <<cloudTokens, account, revoked, disabled>>

\* A new broker token replaces the one the device had for this provider.
SaveBrokerRefreshToken(r, b) ==
    LET q == requests[r]
    IN  /\ q.pc = "redeemed"
        /\ b \notin made
        /\ made' = made \cup {b}
        /\ brokerTokens' = [brokerTokens EXCEPT ![q.account] = b]
        /\ Finish(r)
        /\ UNCHANGED <<cloudTokens, account, revoked, disabled>>

-----------------------------------------------------------------------------
(* The rclone endpoint. *)

\* Mutant of RcloneToken: the provider of the path is not compared.
RcloneTokenAnyProvider(r, b, p) ==
    /\ requests[r].pc = "idle"
    /\ \E a \in Account :
          /\ brokerTokens[a] = b
          /\ cloudTokens[a] \in RefreshTokens
          /\ requests' = [requests EXCEPT ![r] =
                [pc |-> "refreshing", account |-> [a EXCEPT !.provider = p],
                 seen |-> cloudTokens[a], token |-> None, broker |-> b]]
    /\ UNCHANGED <<cloudTokens, brokerTokens, account, revoked, made, disabled>>

\* GetCloudTokenByBrokerRefreshToken.  Without a row, for a disabled device,
\* under the path of another provider or without a refresh token the request is
\* refused.
RcloneToken(r, b, p) ==
    /\ requests[r].pc = "idle"
    /\ \E a \in Account :
          /\ brokerTokens[a] = b
          /\ a.device \notin disabled
          /\ a.provider = p
          /\ cloudTokens[a] \in RefreshTokens
          /\ requests' = [requests EXCEPT ![r] =
                [pc |-> "refreshing", account |-> a, seen |-> cloudTokens[a],
                 token |-> None, broker |-> b]]
    /\ UNCHANGED <<cloudTokens, brokerTokens, account, revoked, made, disabled>>

\* The handler has token set t in hand and goes on to save it.
Answered(r, t) ==
    /\ requests[r].pc = "refreshing"
    /\ requests' = [requests EXCEPT ![r] =
                       [@ EXCEPT !.pc = "saving", !.token = t]]
    /\ UNCHANGED <<cloudTokens, brokerTokens, made, disabled>>

\* The access token has not expired and the provider is not called, or it is
\* called and answers with the refresh token it was sent.
Reused(r) ==
    /\ Answered(r, requests[r].seen)
    /\ UNCHANGED <<account, revoked>>

\* Mutant of Rotated: the refresh token that was sent is kept although the answer
\* has another one.
RotatedKeepsOld(r, t) ==
    /\ requests[r].seen \notin revoked
    /\ Issue(t, requests[r].account)
    /\ \/ revoked' = revoked \cup {requests[r].seen}
       \/ UNCHANGED revoked
    /\ Answered(r, requests[r].seen)

\* The provider issues another refresh token, and may refuse the old one from
\* now on.
Rotated(r, t) ==
    /\ requests[r].seen \notin revoked
    /\ Issue(t, requests[r].account)
    /\ \/ revoked' = revoked \cup {requests[r].seen}
       \/ UNCHANGED revoked
    /\ Answered(r, t)

\* The SELECT and the upsert.  Refresh puts the refresh token it was given into
\* a token set that comes without one, so the carry-over of SaveCloudToken finds
\* nothing to do and what its SELECT returned has no effect; when it fails the
\* request ends in Abort.
SaveCloudToken(r) ==
    /\ requests[r].pc = "saving"
    /\ cloudTokens' =
          [cloudTokens EXCEPT ![requests[r].account] = requests[r].token]
    /\ Finish(r)
    /\ UNCHANGED <<brokerTokens, account, revoked, made, disabled>>

\* The provider refuses, a statement fails, or the client goes away.
Abort(r) ==
    /\ requests[r].pc # "idle"
    /\ Finish(r)
    /\ UNCHANGED <<cloudTokens, brokerTokens, account, revoked, made, disabled>>

-----------------------------------------------------------------------------
(* The table devices. *)

\* The operator disables a device.
Disable(d) ==
    /\ disabled' = disabled \cup {d}
    /\ UNCHANGED <<cloudTokens, brokerTokens, requests, account, revoked, made>>

\* RegisterDevice enables the device again; its rows are still there.
RegisterDevice(d) ==
    /\ disabled' = disabled \ {d}
    /\ UNCHANGED <<cloudTokens, brokerTokens, requests, account, revoked, made>>

-----------------------------------------------------------------------------

Init ==
    /\ cloudTokens = [a \in Account |-> None]
    /\ brokerTokens = [a \in Account |-> None]
    /\ requests = [r \in Requests |-> Idle]
    /\ account = [t \in RefreshTokens |-> NoAccount]
    /\ revoked = {}
    /\ made = {}
    /\ disabled = {}

Handle ==
    \E r \in Requests :
        \/ \E a \in Account, t \in TokenSet : RedeemRead(r, a, t)
        \/ RedeemCommit(r)
        \/ \E b \in BrokerTokens : SaveBrokerRefreshToken(r, b)
        \/ \E b \in BrokerTokens, p \in Providers : RcloneToken(r, b, p)
        \/ Reused(r)
        \/ \E t \in RefreshTokens : Rotated(r, t)
        \/ SaveCloudToken(r)
        \/ Abort(r)

Next ==
    \/ Handle
    \/ \E d \in Devices : Disable(d) \/ RegisterDevice(d)

Spec == Init /\ [][Next]_vars

TypeOK ==
    /\ cloudTokens \in [Account -> TokenSet \cup {None}]
    /\ brokerTokens \in [Account -> BrokerTokens \cup {None}]
    /\ requests \in [Requests -> Request]
    /\ account \in [RefreshTokens -> Account \cup {NoAccount}]
    /\ revoked \subseteq RefreshTokens
    /\ made \subseteq BrokerTokens
    /\ disabled \subseteq Devices

-----------------------------------------------------------------------------
(* Properties.                                                             *)

\* A refresh token is stored, and is about to be stored, only for the device
\* and under the provider it was issued for, whatever was merged or saved late.
OwnAccount ==
    /\ \A a \in Account :
          cloudTokens[a] \in RefreshTokens => account[cloudTokens[a]] = a
    /\ \A r \in Requests :
          requests[r].token \in RefreshTokens =>
              account[requests[r].token] = requests[r].account

\* A handler that is about to replace a row it read earlier.
Replaces(r, a) ==
    /\ requests[r].account = a
    /\ requests[r].pc \in {"redeeming", "saving"}

\* A row that has a refresh token never loses it to a token set without one,
\* but for an exchange that read the row before it had one.
RefreshTokenKept ==
    [][\A a \in Account :
          cloudTokens[a] \in RefreshTokens =>
              \/ cloudTokens'[a] \in RefreshTokens
              \/ \E r \in Requests :
                    Replaces(r, a) /\ requests[r].seen \notin RefreshTokens]_vars

\* The row has a refresh token that its provider honours, or a handler has one
\* in hand and is about to store it.
Recoverable(a) ==
    \/ cloudTokens[a] \in RefreshTokens \ revoked
    \/ \E r \in Requests :
          /\ requests[r].pc = "saving"
          /\ requests[r].account = a
          /\ requests[r].token \in RefreshTokens \ revoked

\* However the providers rotate their tokens, the broker loses a grant only in
\* two ways: a handler that read the row before another one replaced it writes
\* back what it knew; or a handler that is about to store a token ends early.
GrantKept ==
    [][\A a \in Account :
          Recoverable(a) =>
              \/ Recoverable(a)'
              \/ \E r \in Requests :
                    /\ Replaces(r, a)
                    /\ requests[r].seen # cloudTokens[a] \/ Abort(r)]_vars

\* A stored broker token leads to one row of cloud_tokens, which is there: the
\* exchange commits the row before it makes the broker token, rows are replaced
\* and never removed, and every exchange makes a broker token of its own.
BrokerTokensLead ==
    \A a \in Account :
        brokerTokens[a] # None =>
            /\ cloudTokens[a] # None
            /\ \A e \in Account : brokerTokens[e] = brokerTokens[a] => e = a

-----------------------------------------------------------------------------
(* The rows keep the promise of GrantRegister.                             *)

\* The refresh token of a row or a token set; one without it is no grant.
GrantOf(v) == IF v \in RefreshTokens THEN v ELSE None

\* The requests that may still replace the row of an account.
Writers(a) ==
    {r \in Requests : /\ requests[r].account = a
                      /\ requests[r].pc \in {"redeeming", "refreshing", "saving"}}

\* What a request would store if it went on as it is.
Due(r) ==
    LET q == requests[r]
    IN  CASE q.pc = "redeeming" -> GrantOf(Merge(q.token, q.seen))
          [] q.pc = "saving" -> GrantOf(q.token)
          [] OTHER -> GrantOf(q.seen)

Register == INSTANCE GrantRegister WITH
    Accounts <- Account,
    Grants <- RefreshTokens,
    NoGrant <- None,
    register <- [a \in Account |-> GrantOf(cloudTokens[a])],
    pending <- [a \in Account |-> {Due(r) : r \in Writers(a)}],
    issued <- {t \in RefreshTokens : account[t] # NoAccount},
    refused <- revoked

\* A row of cloud_tokens holds what its last writer had read or was given,
\* however many exchanges and refreshes overlap: no step lets a grant into a
\* register that was not in it, nor brought or rotated for it.
RegisterKept == Register!Spec
=============================================================================
