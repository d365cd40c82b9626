------------------------- MODULE CloudTokensProofs --------------------------
(***************************************************************************)
(* Proofs about CloudTokens, for every number of devices, providers, tokens *)
(* and requests.                                                           *)
(***************************************************************************)
EXTENDS CloudTokens, TLAPS

\* A request in flight is for an account, and remembers a token of it.
RequestsOwn ==
    \A r \in Requests :
        /\ requests[r].pc # "idle" => requests[r].account \in Account
        /\ requests[r].pc = "idle" =>
              requests[r].token = None /\ requests[r].seen = None
        /\ requests[r].pc = "refreshing" => requests[r].seen \in RefreshTokens
        /\ requests[r].seen \in RefreshTokens =>
              account[requests[r].seen] = requests[r].account
        /\ requests[r].pc \in {"redeeming", "redeemed", "saving"} =>
              requests[r].token \in TokenSet
        /\ requests[r].pc = "saving" => requests[r].token \in RefreshTokens

\* Only a token that was issued can be refused.
RevokedIssued == \A t \in revoked : account[t] \in Account

\* A handler has a token that nobody else has got to know yet.
Fresh(r) ==
    /\ requests[r].pc \in {"redeeming", "saving"}
    /\ requests[r].token \in RefreshTokens
    /\ requests[r].token # requests[r].seen

\* Such a token is in no row and with no other request, so it was never sent
\* to its provider and cannot have been rotated.
FreshOnlyHere ==
    \A r \in Requests :
        Fresh(r) =>
            /\ requests[r].token \notin revoked
            /\ \A a \in Account : cloudTokens[a] # requests[r].token
            /\ \A q \in Requests :
                  /\ requests[q].seen # requests[r].token
                  /\ q # r => requests[q].token # requests[r].token

IInv ==
    /\ TypeOK
    /\ OwnAccount
    /\ RequestsOwn
    /\ RevokedIssued
    /\ FreshOnlyHere

-----------------------------------------------------------------------------
(* Facts about one state. *)

LEMMA NoneIsNoAccount == NoAccount \notin Account
BY TokensAssumption DEF NoAccount, Account

\* A token that nobody has issued is nowhere.
LEMMA UnissuedIsNowhere ==
    ASSUME IInv, NEW t \in RefreshTokens, account[t] = NoAccount
    PROVE  /\ t \notin revoked
           /\ \A a \in Account : cloudTokens[a] # t
           /\ \A r \in Requests : requests[r].seen # t /\ requests[r].token # t
<1>1. t \notin revoked
  BY NoneIsNoAccount DEF IInv, RevokedIssued
<1>2. ASSUME NEW a \in Account, cloudTokens[a] = t PROVE FALSE
  BY <1>2, NoneIsNoAccount DEF IInv, OwnAccount
<1>3. ASSUME NEW r \in Requests, requests[r].seen = t \/ requests[r].token = t
      PROVE  FALSE
  <2>1. requests[r].pc # "idle"
    BY <1>3, TokensAssumption DEF IInv, RequestsOwn
  <2>2. requests[r].account \in Account
    BY <2>1 DEF IInv, RequestsOwn
  <2>3. account[t] = requests[r].account
    BY <1>3 DEF IInv, RequestsOwn, OwnAccount
  <2>4. QED
    BY <2>2, <2>3, NoneIsNoAccount
<1>4. QED
  BY <1>1, <1>2, <1>3

-----------------------------------------------------------------------------
(* The invariant holds at the start and every action keeps it. *)

LEMMA IInvInit == Init => IInv
BY TokensAssumption
   DEF Init, IInv, TypeOK, OwnAccount, RequestsOwn, RevokedIssued,
       FreshOnlyHere, Fresh, Idle, Request, TokenSet, Account

\* The slot of a request that ends.
LEMMA FinishedSlot ==
    ASSUME IInv, NEW r \in Requests, Finish(r), NEW s \in Requests
    PROVE  /\ requests'[s] = IF s = r THEN Idle ELSE requests[s]
           /\ requests' \in [Requests -> Request]
BY DEF Finish, IInv, TypeOK, Idle, Request

\* Ending a request takes knowledge away and nothing else.
LEMMA FinishKeeps ==
    ASSUME IInv, NEW r \in Requests, Finish(r),
           UNCHANGED <<cloudTokens, account, revoked, disabled>>,
           brokerTokens' \in [Account -> BrokerTokens \cup {None}],
           made' \subseteq BrokerTokens
    PROVE  IInv'
<1>1. TypeOK'
  BY FinishedSlot DEF IInv, TypeOK
<1>2. OwnAccount'
  BY FinishedSlot, TokensAssumption DEF IInv, OwnAccount, Idle
<1>3. RequestsOwn'
  BY FinishedSlot, TokensAssumption DEF IInv, RequestsOwn, Idle
<1>4. RevokedIssued'
  BY DEF IInv, RevokedIssued
<1>5. FreshOnlyHere'
  BY FinishedSlot, TokensAssumption DEF IInv, FreshOnlyHere, Fresh, Idle
<1>6. QED
  BY <1>1, <1>2, <1>3, <1>4, <1>5 DEF IInv

LEMMA RedeemReadKeeps ==
    ASSUME IInv, NEW r \in Requests, NEW a \in Account, NEW t \in TokenSet,
           RedeemRead(r, a, t)
    PROVE  IInv'
<1> DEFINE q == [pc |-> "redeeming", account |-> a, seen |-> cloudTokens[a],
                 token |-> t, broker |-> None]
<1>1. \A s \in Requests : requests'[s] = IF s = r THEN q ELSE requests[s]
  BY DEF RedeemRead, IInv, TypeOK
<1>2. q \in Request
  BY DEF IInv, TypeOK, Request
<1>3. CASE t \in RefreshTokens /\ Issue(t, a)
  <2>1. account[t] = NoAccount
    BY <1>3 DEF Issue
  <2>2. \A u \in RefreshTokens :
            account'[u] = IF u = t THEN a ELSE account[u]
    BY <1>3 DEF Issue, IInv, TypeOK
  <2>3. /\ t \notin revoked
        /\ \A b \in Account : cloudTokens[b] # t
        /\ \A s \in Requests : requests[s].seen # t /\ requests[s].token # t
    BY <1>3, <2>1, UnissuedIsNowhere
  <2>4. TypeOK'
    BY <1>2, <1>3 DEF IInv, TypeOK, RedeemRead, Issue
  <2>5. OwnAccount'
    BY <1>1, <1>3, <2>2, <2>3 DEF IInv, OwnAccount, RedeemRead
  <2>6. RequestsOwn'
    BY <1>1, <1>3, <2>2, <2>3, TokensAssumption
       DEF IInv, RequestsOwn, OwnAccount, RedeemRead
  <2>7. RevokedIssued'
    BY <2>2, <2>3 DEF IInv, TypeOK, RevokedIssued, RedeemRead
  <2>8. FreshOnlyHere'
    BY <1>1, <2>3 DEF IInv, FreshOnlyHere, Fresh, RedeemRead
  <2>9. QED
    BY <2>4, <2>5, <2>6, <2>7, <2>8 DEF IInv
<1>4. CASE t = Bare /\ UNCHANGED account
  <2>1. t \notin RefreshTokens
    BY <1>4, TokensAssumption
  <2>2. TypeOK'
    BY <1>2, <1>4 DEF IInv, TypeOK, RedeemRead
  <2>3. OwnAccount'
    BY <1>1, <1>4, <2>1 DEF IInv, OwnAccount, RedeemRead
  <2>4. RequestsOwn'
    BY <1>1, <1>4, <2>1, TokensAssumption
       DEF IInv, RequestsOwn, OwnAccount, RedeemRead
  <2>5. RevokedIssued'
    BY <1>4 DEF IInv, RevokedIssued, RedeemRead
  <2>6. FreshOnlyHere'
    BY <1>1, <2>1 DEF IInv, FreshOnlyHere, Fresh, RedeemRead
  <2>7. QED
    BY <2>2, <2>3, <2>4, <2>5, <2>6 DEF IInv
<1>5. QED
  BY <1>3, <1>4 DEF RedeemRead

LEMMA RedeemCommitKeeps ==
    ASSUME IInv, NEW r \in Requests, RedeemCommit(r)
    PROVE  IInv'
<1> DEFINE a == requests[r].account
           u == Merge(requests[r].token, requests[r].seen)
<1>1. \A s \in Requests :
          requests'[s] = IF s = r THEN [requests[r] EXCEPT !.pc = "redeemed"]
                                  ELSE requests[s]
  BY DEF RedeemCommit, IInv, TypeOK
<1>2. /\ requests[r] \in Request
      /\ a \in Account
      /\ requests[r].token \in TokenSet
  BY DEF RedeemCommit, IInv, TypeOK, RequestsOwn
<1>3. \A b \in Account : cloudTokens'[b] = IF b = a THEN u ELSE cloudTokens[b]
  BY <1>2 DEF RedeemCommit, IInv, TypeOK
<1>4. u = requests[r].token \/ u = requests[r].seen
  BY DEF Merge
<1>5. u \in TokenSet
  BY <1>2 DEF Merge, Request
<1>6. TypeOK'
  BY <1>2, <1>5 DEF RedeemCommit, IInv, TypeOK, Request
<1>7. OwnAccount'
  BY <1>1, <1>2, <1>3, <1>4
     DEF RedeemCommit, IInv, OwnAccount, RequestsOwn, Request
<1>8. RequestsOwn'
  BY <1>1, <1>2 DEF RedeemCommit, IInv, RequestsOwn, Request
<1>9. RevokedIssued'
  BY DEF RedeemCommit, IInv, RevokedIssued
<1>10. FreshOnlyHere'
  <2> SUFFICES ASSUME NEW s \in Requests, Fresh(s)'
               PROVE  /\ requests[s].token \notin revoked
                      /\ \A b \in Account : cloudTokens'[b] # requests[s].token
                      /\ \A q \in Requests :
                            /\ requests'[q].seen # requests[s].token
                            /\ q # s => requests'[q].token # requests[s].token
                      /\ requests'[s].token = requests[s].token
    BY DEF RedeemCommit, FreshOnlyHere
  <2>1. s # r /\ Fresh(s)
    BY <1>1, <1>2 DEF Fresh, Request
  <2>2. /\ requests[s].token \notin revoked
        /\ \A b \in Account : cloudTokens[b] # requests[s].token
        /\ \A q \in Requests :
              /\ requests[q].seen # requests[s].token
              /\ q # s => requests[q].token # requests[s].token
    BY <2>1 DEF IInv, FreshOnlyHere
  <2>3. QED
    BY <1>1, <1>2, <1>3, <1>4, <2>1, <2>2 DEF Request
<1>11. QED
  BY <1>6, <1>7, <1>8, <1>9, <1>10 DEF IInv

LEMMA SaveBrokerRefreshTokenKeeps ==
    ASSUME IInv, NEW r \in Requests, NEW b \in BrokerTokens,
           SaveBrokerRefreshToken(r, b)
    PROVE  IInv'
<1>1. /\ brokerTokens' \in [Account -> BrokerTokens \cup {None}]
      /\ made' \subseteq BrokerTokens
  BY DEF SaveBrokerRefreshToken, IInv, TypeOK
<1>2. QED
  BY <1>1, FinishKeeps DEF SaveBrokerRefreshToken

LEMMA AbortKeeps ==
    ASSUME IInv, NEW r \in Requests, Abort(r)
    PROVE  IInv'
<1>1. /\ brokerTokens' \in [Account -> BrokerTokens \cup {None}]
      /\ made' \subseteq BrokerTokens
  BY DEF Abort, IInv, TypeOK
<1>2. QED
  BY <1>1, FinishKeeps DEF Abort

LEMMA RcloneTokenKeeps ==
    ASSUME IInv, NEW r \in Requests, NEW b \in BrokerTokens, NEW p \in Providers,
           RcloneToken(r, b, p)
    PROVE  IInv'
<1>1. PICK a \in Account :
          /\ cloudTokens[a] \in RefreshTokens
          /\ requests' = [requests EXCEPT ![r] =
                [pc |-> "refreshing", account |-> a, seen |-> cloudTokens[a],
                 token |-> None, broker |-> b]]
  BY DEF RcloneToken
<1> DEFINE q == [pc |-> "refreshing", account |-> a, seen |-> cloudTokens[a],
                 token |-> None, broker |-> b]
<1>2. \A s \in Requests : requests'[s] = IF s = r THEN q ELSE requests[s]
  BY <1>1 DEF IInv, TypeOK
<1>3. q \in Request
  BY <1>1 DEF IInv, TypeOK, Request
<1>4. TypeOK'
  BY <1>1, <1>3 DEF RcloneToken, IInv, TypeOK
<1>5. OwnAccount'
  BY <1>2, TokensAssumption DEF RcloneToken, IInv, OwnAccount
<1>6. RequestsOwn'
  BY <1>1, <1>2 DEF RcloneToken, IInv, RequestsOwn, OwnAccount
<1>7. RevokedIssued'
  BY DEF RcloneToken, IInv, RevokedIssued
<1>8. FreshOnlyHere'
  BY <1>2, TokensAssumption DEF RcloneToken, IInv, FreshOnlyHere, Fresh
<1>9. QED
  BY <1>4, <1>5, <1>6, <1>7, <1>8 DEF IInv

\* The slot of a refresh that has its answer.
LEMMA AnsweredSlot ==
    ASSUME IInv, NEW r \in Requests, NEW t \in RefreshTokens, Answered(r, t)
    PROVE  /\ \A s \in Requests :
                 /\ requests'[s].account = requests[s].account
                 /\ requests'[s].seen = requests[s].seen
                 /\ requests'[s].token = IF s = r THEN t ELSE requests[s].token
                 /\ requests'[s].pc = IF s = r THEN "saving" ELSE requests[s].pc
           /\ requests[r].seen \in RefreshTokens
           /\ requests[r].account \in Account
           /\ requests' \in [Requests -> Request]
<1> DEFINE q == [requests[r] EXCEPT !.pc = "saving", !.token = t]
<1>1. requests[r] \in Request /\ t \in TokenSet
  BY DEF IInv, TypeOK, TokenSet
<1>2. /\ q \in Request
      /\ q.account = requests[r].account /\ q.seen = requests[r].seen
      /\ q.token = t /\ q.pc = "saving"
  BY <1>1 DEF Request
<1>3. \A s \in Requests : requests'[s] = IF s = r THEN q ELSE requests[s]
  BY DEF Answered, IInv, TypeOK
<1>4. requests' \in [Requests -> Request]
  BY <1>2 DEF Answered, IInv, TypeOK
<1>5. requests[r].seen \in RefreshTokens /\ requests[r].account \in Account
  BY DEF Answered, IInv, RequestsOwn
<1> HIDE DEF q
<1>6. QED
  BY <1>2, <1>3, <1>4, <1>5

LEMMA ReusedKeeps ==
    ASSUME IInv, NEW r \in Requests, Reused(r)
    PROVE  IInv'
<1> DEFINE t == requests[r].seen
<1>1. t \in RefreshTokens /\ Answered(r, t)
  BY DEF Reused, Answered, IInv, RequestsOwn
<1>2. /\ \A s \in Requests :
            /\ requests'[s].account = requests[s].account
            /\ requests'[s].seen = requests[s].seen
            /\ requests'[s].token = IF s = r THEN t ELSE requests[s].token
            /\ requests'[s].pc = IF s = r THEN "saving" ELSE requests[s].pc
      /\ requests[r].account \in Account
      /\ requests' \in [Requests -> Request]
  BY <1>1, AnsweredSlot
<1>3. TypeOK'
  BY <1>1, <1>2 DEF Reused, Answered, IInv, TypeOK
<1>4. OwnAccount'
  BY <1>1, <1>2 DEF Reused, Answered, IInv, OwnAccount, RequestsOwn
<1>5. RequestsOwn'
  BY <1>1, <1>2 DEF Reused, Answered, IInv, RequestsOwn, TokenSet
<1>6. RevokedIssued'
  BY DEF Reused, IInv, RevokedIssued
<1>7. FreshOnlyHere'
  BY <1>1, <1>2 DEF Reused, Answered, IInv, FreshOnlyHere, Fresh
<1>8. QED
  BY <1>3, <1>4, <1>5, <1>6, <1>7 DEF IInv

LEMMA RotatedKeeps ==
    ASSUME IInv, NEW r \in Requests, NEW t \in RefreshTokens, Rotated(r, t)
    PROVE  IInv'
<1>1. Answered(r, t) /\ account[t] = NoAccount
  BY DEF Rotated, Issue
<1>2. /\ \A s \in Requests :
            /\ requests'[s].account = requests[s].account
            /\ requests'[s].seen = requests[s].seen
            /\ requests'[s].token = IF s = r THEN t ELSE requests[s].token
            /\ requests'[s].pc = IF s = r THEN "saving" ELSE requests[s].pc
      /\ requests[r].account \in Account
      /\ requests[r].seen \in RefreshTokens
      /\ requests' \in [Requests -> Request]
  BY <1>1, AnsweredSlot
<1>3. \A u \in RefreshTokens :
          account'[u] = IF u = t THEN requests[r].account ELSE account[u]
  BY DEF Rotated, Issue, IInv, TypeOK
<1>4. /\ t \notin revoked
      /\ \A b \in Account : cloudTokens[b] # t
      /\ \A s \in Requests : requests[s].seen # t /\ requests[s].token # t
  BY <1>1, UnissuedIsNowhere
<1>5. /\ \A u \in revoked' : u \in revoked \/ u = requests[r].seen
      /\ UNCHANGED <<cloudTokens, brokerTokens, made, disabled>>
  BY DEF Rotated, Answered
<1>6. TypeOK'
  BY <1>2, <1>5 DEF Rotated, Issue, IInv, TypeOK
<1>7. OwnAccount'
  BY <1>2, <1>3, <1>4, <1>5 DEF IInv, OwnAccount
<1>8. RequestsOwn'
  BY <1>2, <1>3, <1>4, <1>5 DEF IInv, RequestsOwn, TokenSet
<1>9. RevokedIssued'
  <2>1. account[requests[r].seen] = requests[r].account
    BY <1>2 DEF IInv, RequestsOwn
  <2>2. QED
    BY <1>2, <1>3, <1>4, <1>5, <2>1 DEF IInv, TypeOK, RevokedIssued
<1>10. FreshOnlyHere'
  <2> SUFFICES ASSUME NEW s \in Requests, Fresh(s)'
               PROVE  /\ requests'[s].token \notin revoked'
                      /\ \A b \in Account : cloudTokens'[b] # requests'[s].token
                      /\ \A q \in Requests :
                            /\ requests'[q].seen # requests'[s].token
                            /\ q # s => requests'[q].token # requests'[s].token
    BY DEF FreshOnlyHere
  <2>1. CASE s = r
    BY <1>2, <1>4, <1>5, <2>1
  <2>2. CASE s # r
    <3>1. Fresh(s)
      BY <1>2, <2>2 DEF Fresh
    <3>2. QED
      BY <1>2, <1>4, <1>5, <2>2, <3>1 DEF IInv, FreshOnlyHere
  <2>3. QED
    BY <2>1, <2>2
<1>11. QED
  BY <1>6, <1>7, <1>8, <1>9, <1>10 DEF IInv

LEMMA SaveCloudTokenKeeps ==
    ASSUME IInv, NEW r \in Requests, SaveCloudToken(r)
    PROVE  IInv'
<1> DEFINE a == requests[r].account
<1>1. a \in Account /\ requests[r].token \in RefreshTokens
  BY DEF SaveCloudToken, IInv, RequestsOwn
<1>2. \A b \in Account : cloudTokens'[b] = IF b = a THEN requests[r].token
                                                    ELSE cloudTokens[b]
  BY <1>1 DEF SaveCloudToken, IInv, TypeOK
<1>3. \A s \in Requests : requests'[s] = IF s = r THEN Idle ELSE requests[s]
  BY FinishedSlot DEF SaveCloudToken
<1>4. TypeOK'
  BY <1>1, FinishedSlot DEF SaveCloudToken, IInv, TypeOK, TokenSet
<1>5. OwnAccount'
  BY <1>1, <1>2, <1>3, TokensAssumption
     DEF SaveCloudToken, IInv, OwnAccount, Idle
<1>6. RequestsOwn'
  BY <1>3, TokensAssumption DEF SaveCloudToken, IInv, RequestsOwn, Idle
<1>7. RevokedIssued'
  BY DEF SaveCloudToken, IInv, RevokedIssued
<1>8. FreshOnlyHere'
  BY <1>1, <1>2, <1>3, TokensAssumption
     DEF SaveCloudToken, IInv, FreshOnlyHere, Fresh, Idle
<1>9. QED
  BY <1>4, <1>5, <1>6, <1>7, <1>8 DEF IInv

\* The operator's step, and a registration, touch nothing else.
LEMMA DeviceKeeps ==
    ASSUME IInv, NEW d \in Devices, Disable(d) \/ RegisterDevice(d)
    PROVE  IInv'
BY DEF Disable, RegisterDevice, IInv, TypeOK, OwnAccount, RequestsOwn,
       RevokedIssued, FreshOnlyHere, Fresh

LEMMA IInvStep == IInv /\ [Next]_vars => IInv'
<1> SUFFICES ASSUME IInv, [Next]_vars PROVE IInv'
  OBVIOUS
<1>1. ASSUME NEW r \in Requests, NEW a \in Account, NEW t \in TokenSet,
             RedeemRead(r, a, t)
      PROVE  IInv'
  BY <1>1, RedeemReadKeeps
<1>2. ASSUME NEW r \in Requests, RedeemCommit(r) PROVE IInv'
  BY <1>2, RedeemCommitKeeps
<1>3. ASSUME NEW r \in Requests, NEW b \in BrokerTokens,
             SaveBrokerRefreshToken(r, b)
      PROVE  IInv'
  BY <1>3, SaveBrokerRefreshTokenKeeps
<1>4. ASSUME NEW r \in Requests, NEW b \in BrokerTokens, NEW p \in Providers,
             RcloneToken(r, b, p)
      PROVE  IInv'
  BY <1>4, RcloneTokenKeeps
<1>5. ASSUME NEW r \in Requests, Reused(r) PROVE IInv'
  BY <1>5, ReusedKeeps
<1>6. ASSUME NEW r \in Requests, NEW t \in RefreshTokens, Rotated(r, t)
      PROVE  IInv'
  BY <1>6, RotatedKeeps
<1>7. ASSUME NEW r \in Requests, SaveCloudToken(r) PROVE IInv'
  BY <1>7, SaveCloudTokenKeeps
<1>8. ASSUME NEW r \in Requests, Abort(r) PROVE IInv'
  BY <1>8, AbortKeeps
<1>9. CASE UNCHANGED vars
  BY <1>9
     DEF vars, IInv, TypeOK, OwnAccount, RequestsOwn, RevokedIssued,
         FreshOnlyHere, Fresh
<1>10. ASSUME NEW d \in Devices, Disable(d) \/ RegisterDevice(d) PROVE IInv'
  BY <1>10, DeviceKeeps
<1>11. QED
  BY <1>1, <1>2, <1>3, <1>4, <1>5, <1>6, <1>7, <1>8, <1>9, <1>10
     DEF Next, Handle

-----------------------------------------------------------------------------
(* The theorems. *)

\* No interleaving of exchanges and refreshes breaks the inductive invariant.
THEOREM Invariance == Spec => []IInv
BY IInvInit, IInvStep, PTL DEF Spec

\* Both tables and every request keep their shape.
THEOREM TypeCorrect == Spec => []TypeOK
<1>1. IInv => TypeOK
  BY DEF IInv
<1>2. QED
  BY <1>1, Invariance, PTL

\* No refresh token is kept for another device or under another provider.
THEOREM TokensStayWithTheirAccount == Spec => []OwnAccount
<1>1. IInv => OwnAccount
  BY DEF IInv
<1>2. QED
  BY <1>1, Invariance, PTL

\* The two actions that replace a row.
LEMMA RowStep ==
    ASSUME IInv, [Next]_vars, NEW a \in Account, cloudTokens'[a] # cloudTokens[a]
    PROVE  \E r \in Requests :
             /\ Replaces(r, a)
             /\ \/ RedeemCommit(r) /\ cloudTokens'[a] =
                       Merge(requests[r].token, requests[r].seen)
                \/ SaveCloudToken(r) /\ cloudTokens'[a] = requests[r].token
<1>1. PICK r \in Requests : RedeemCommit(r) \/ SaveCloudToken(r)
  BY DEF Next, Handle, vars, RedeemRead, SaveBrokerRefreshToken, RcloneToken,
         Reused, Rotated, Answered, Abort, Disable, RegisterDevice
<1>2. requests[r].account \in Account
  BY <1>1 DEF RedeemCommit, SaveCloudToken, IInv, RequestsOwn
<1>3. CASE RedeemCommit(r)
  BY <1>2, <1>3 DEF RedeemCommit, Replaces, IInv, TypeOK
<1>4. CASE SaveCloudToken(r)
  BY <1>2, <1>4 DEF SaveCloudToken, Replaces, IInv, TypeOK
<1>5. QED
  BY <1>1, <1>3, <1>4

\* A write leaves a refresh token in the row, unless it was merged with a read
\* that had none.
LEMMA KeepStep ==
    ASSUME IInv, [Next]_vars, NEW a \in Account,
           cloudTokens[a] \in RefreshTokens,
           cloudTokens'[a] \notin RefreshTokens
    PROVE  \E r \in Requests :
              Replaces(r, a) /\ requests[r].seen \notin RefreshTokens
<1>1. PICK r \in Requests :
         /\ Replaces(r, a)
         /\ \/ RedeemCommit(r) /\ cloudTokens'[a] =
                   Merge(requests[r].token, requests[r].seen)
            \/ SaveCloudToken(r) /\ cloudTokens'[a] = requests[r].token
  BY RowStep
<1>2. requests[r].token \in TokenSet
  BY <1>1 DEF Replaces, IInv, RequestsOwn, TokenSet
<1>3. CASE cloudTokens'[a] = Merge(requests[r].token, requests[r].seen)
  BY <1>1, <1>2, <1>3, TokensAssumption DEF Merge, TokenSet
<1>4. CASE SaveCloudToken(r) /\ cloudTokens'[a] = requests[r].token
  BY <1>4 DEF SaveCloudToken, IInv, RequestsOwn
<1>5. QED
  BY <1>1, <1>3, <1>4

\* A stored refresh token is lost to a token set without one only if an exchange
\* read the row before it had one.
THEOREM RefreshTokensAreKept == Spec => RefreshTokenKept
<1> DEFINE A == \A a \in Account :
                  cloudTokens[a] \in RefreshTokens =>
                     \/ cloudTokens'[a] \in RefreshTokens
                     \/ \E r \in Requests :
                           Replaces(r, a) /\ requests[r].seen \notin RefreshTokens
<1>1. IInv /\ [Next]_vars => A
  BY KeepStep
<1> HIDE DEF A
<1>2. IInv /\ [Next]_vars => [A]_vars
  BY <1>1
<1>3. Spec => [][A]_vars
  BY <1>2, Invariance, PTL DEF Spec
<1>4. QED
  BY <1>3 DEF RefreshTokenKept, A

\* What a handler whose read is not stale leaves in a row is what was there, or
\* a token its provider honours.
LEMMA TimelyWrite ==
    ASSUME IInv, [Next]_vars, NEW a \in Account,
           cloudTokens'[a] # cloudTokens[a],
           \A r \in Requests : Replaces(r, a) => requests[r].seen = cloudTokens[a]
    PROVE  cloudTokens'[a] \in RefreshTokens \ revoked \/ cloudTokens'[a] = Bare
<1>1. PICK r \in Requests :
         /\ Replaces(r, a)
         /\ \/ RedeemCommit(r) /\ cloudTokens'[a] =
                   Merge(requests[r].token, requests[r].seen)
            \/ SaveCloudToken(r) /\ cloudTokens'[a] = requests[r].token
  BY RowStep
<1>2. cloudTokens'[a] = requests[r].token
  BY <1>1 DEF Merge
<1>3. requests[r].token \in TokenSet /\ requests[r].token # requests[r].seen
  BY <1>1, <1>2 DEF Replaces, IInv, RequestsOwn, TokenSet
<1>4. CASE requests[r].token \in RefreshTokens
  BY <1>1, <1>2, <1>3, <1>4 DEF Fresh, Replaces, IInv, FreshOnlyHere
<1>5. QED
  BY <1>2, <1>3, <1>4 DEF TokenSet

\* The broker loses a grant only to a stale write or to a request that ends
\* before it has stored the token in its hand.
THEOREM GrantsAreKept == Spec => GrantKept
<1> DEFINE Lost(a) == \E r \in Requests :
                        /\ Replaces(r, a)
                        /\ requests[r].seen # cloudTokens[a] \/ Abort(r)
           A == \A a \in Account :
                   Recoverable(a) =>
                      \/ Recoverable(a)'
                      \/ \E r \in Requests :
                            /\ Replaces(r, a)
                            /\ requests[r].seen # cloudTokens[a] \/ Abort(r)
<1>1. ASSUME IInv, [Next]_vars, NEW a \in Account, Recoverable(a), ~ Lost(a)
      PROVE  Recoverable(a)'
  <2>1. \A r \in Requests : Replaces(r, a) => requests[r].seen = cloudTokens[a]
    BY <1>1
  <2>2. CASE \E r \in Requests, t \in RefreshTokens : Rotated(r, t)
    <3>1. PICK r \in Requests, t \in RefreshTokens : Rotated(r, t)
      BY <2>2
    <3>2. /\ UNCHANGED cloudTokens
          /\ Answered(r, t)
          /\ \A u \in revoked' : u \in revoked \/ u = requests[r].seen
      BY <3>1 DEF Rotated, Answered
    <3>3. t \notin revoked /\ t # requests[r].seen
      BY <1>1, <3>1, UnissuedIsNowhere DEF Rotated, Issue
    <3>4. t \notin revoked'
      BY <3>2, <3>3
    <3>5. account[requests[r].seen] = requests[r].account
      BY <1>1, <3>2, AnsweredSlot DEF IInv, RequestsOwn
    <3>6. CASE requests[r].account = a
      BY <1>1, <3>2, <3>4, <3>6, AnsweredSlot DEF Recoverable
    <3>7. CASE requests[r].account # a
      <4>1. cloudTokens[a] \in RefreshTokens => cloudTokens[a] # requests[r].seen
        BY <1>1, <3>5, <3>7 DEF IInv, OwnAccount
      <4>2. \A s \in Requests :
               requests[s].account = a /\ requests[s].token \in RefreshTokens =>
                  requests[s].token # requests[r].seen
        BY <1>1, <3>5, <3>7 DEF IInv, OwnAccount
      <4>3. \A s \in Requests :
               requests[s].account = a => /\ requests'[s].account = a
                                          /\ requests'[s].pc = requests[s].pc
                                          /\ requests'[s].token = requests[s].token
        BY <1>1, <3>2, <3>7, AnsweredSlot
      <4>4. QED
        BY <1>1, <3>2, <4>1, <4>2, <4>3 DEF Recoverable
    <3>8. QED
      BY <3>6, <3>7
  <2>3. CASE ~ \E r \in Requests, t \in RefreshTokens : Rotated(r, t)
    <3>1. UNCHANGED revoked
      BY <1>1, <2>3
         DEF Next, Handle, vars, RedeemRead, RedeemCommit,
             SaveBrokerRefreshToken, RcloneToken, Reused, SaveCloudToken,
             Abort, Disable, RegisterDevice
    <3>2. CASE cloudTokens[a] \in RefreshTokens \ revoked
      <4>1. cloudTokens'[a] # Bare
        BY <1>1, <2>1, <3>2, KeepStep, TokensAssumption
      <4>2. QED
        BY <1>1, <2>1, <3>1, <3>2, <4>1, TimelyWrite DEF Recoverable
    <3>3. ASSUME NEW s \in Requests,
                 requests[s].pc = "saving", requests[s].account = a,
                 requests[s].token \in RefreshTokens \ revoked
          PROVE  Recoverable(a)'
      <4>1. CASE SaveCloudToken(s)
        <5>1. cloudTokens'[a] = requests[s].token
          BY <1>1, <3>3, <4>1 DEF SaveCloudToken, IInv, TypeOK
        <5>2. QED
          BY <3>1, <3>3, <5>1 DEF Recoverable
      <4>2. CASE ~ SaveCloudToken(s)
        <5>1. ~ Abort(s)
          BY <1>1, <3>3 DEF Replaces
        <5>2. requests'[s] = requests[s]
          BY <1>1, <2>3, <3>3, <4>2, <5>1
             DEF Next, Handle, vars, IInv, TypeOK, RedeemRead, RedeemCommit,
                 SaveBrokerRefreshToken, RcloneToken, Reused, Answered,
                 SaveCloudToken, Abort, Finish, Disable, RegisterDevice
        <5>3. QED
          BY <3>1, <3>3, <5>2 DEF Recoverable
      <4>3. QED
        BY <4>1, <4>2
    <3>4. QED
      BY <1>1, <3>2, <3>3 DEF Recoverable
  <2>4. QED
    BY <2>2, <2>3
<1>2. IInv /\ [Next]_vars => A
  BY <1>1
<1> HIDE DEF A
<1>3. IInv /\ [Next]_vars => [A]_vars
  BY <1>2
<1>4. Spec => [][A]_vars
  BY <1>3, Invariance, PTL DEF Spec
<1>5. QED
  BY <1>4 DEF GrantKept, A

-----------------------------------------------------------------------------
(* Broker tokens.                                                          *)

\* Broker tokens are stored once they were made, and what an exchange redeemed is
\* in its row.
BrokerTokensKnown ==
    /\ \A a \in Account : brokerTokens[a] \in made \cup {None}
    /\ \A r \in Requests :
          requests[r].pc = "redeemed" => cloudTokens[requests[r].account] # None
    /\ BrokerTokensLead

\* A row that is there stays.
LEMMA RowStays ==
    ASSUME IInv, [Next]_vars, NEW a \in Account, cloudTokens[a] # None
    PROVE  cloudTokens'[a] # None
<1>1. CASE cloudTokens'[a] = cloudTokens[a]
  BY <1>1
<1>2. CASE cloudTokens'[a] # cloudTokens[a]
  <2>1. PICK r \in Requests :
           /\ Replaces(r, a)
           /\ cloudTokens'[a] \in {requests[r].token,
                                   Merge(requests[r].token, requests[r].seen)}
    BY <1>2, RowStep
  <2>2. requests[r].token \in TokenSet
    BY <2>1 DEF Replaces, IInv, RequestsOwn
  <2>3. QED
    BY <2>1, <2>2, TokensAssumption DEF Merge, TokenSet
<1>3. QED
  BY <1>1, <1>2

\* The only action that stores a broker token.
LEMMA SaveBrokerStep ==
    ASSUME IInv, BrokerTokensKnown, NEW r \in Requests, NEW b \in BrokerTokens,
           SaveBrokerRefreshToken(r, b)
    PROVE  BrokerTokensKnown'
<1> DEFINE a == requests[r].account
<1>1. /\ a \in Account
      /\ cloudTokens[a] # None
      /\ b \notin made
      /\ UNCHANGED cloudTokens
      /\ made' = made \cup {b}
  BY DEF SaveBrokerRefreshToken, IInv, RequestsOwn, BrokerTokensKnown
<1>2. \A e \in Account : brokerTokens'[e] = IF e = a THEN b ELSE brokerTokens[e]
  BY DEF SaveBrokerRefreshToken, IInv, TypeOK
<1>3. \A e \in Account : brokerTokens[e] # b
  BY <1>1, TokensAssumption DEF BrokerTokensKnown
<1>4. \A s \in Requests :
          requests'[s].pc = "redeemed" => requests'[s] = requests[s]
  BY FinishedSlot DEF SaveBrokerRefreshToken, Idle
<1>5. BrokerTokensLead'
  BY <1>1, <1>2, <1>3 DEF BrokerTokensKnown, BrokerTokensLead
<1>6. QED
  BY <1>1, <1>2, <1>4, <1>5 DEF BrokerTokensKnown

\* The commit is the only step after which a request counts as redeemed.
LEMMA RedeemedStep ==
    ASSUME IInv, [Next]_vars, NEW r \in Requests, requests'[r].pc = "redeemed"
    PROVE  requests'[r] = requests[r] \/ RedeemCommit(r)
<1>1. ASSUME NEW q \in Requests, Finish(q) PROVE requests'[r] = requests[r]
  BY <1>1, FinishedSlot DEF Idle
<1>2. ASSUME NEW q \in Requests, NEW t \in RefreshTokens, Answered(q, t)
      PROVE  requests'[r] = requests[r]
  BY <1>2 DEF Answered, IInv, TypeOK, Request
<1>3. ASSUME NEW q \in Requests, Reused(q) PROVE requests'[r] = requests[r]
  BY <1>2, <1>3 DEF Reused, Answered, IInv, RequestsOwn
<1>4. ASSUME NEW q \in Requests, RedeemCommit(q)
      PROVE  requests'[r] = requests[r] \/ q = r
  BY <1>4 DEF RedeemCommit, IInv, TypeOK
<1>5. ASSUME NEW q \in Requests, NEW a \in Account, NEW t \in TokenSet,
             RedeemRead(q, a, t)
      PROVE  requests'[r] = requests[r]
  BY <1>5 DEF RedeemRead, IInv, TypeOK
<1>6. ASSUME NEW q \in Requests, NEW b \in BrokerTokens, NEW p \in Providers,
             RcloneToken(q, b, p)
      PROVE  requests'[r] = requests[r]
  BY <1>6 DEF RcloneToken, IInv, TypeOK
<1>7. QED
  BY <1>1, <1>2, <1>3, <1>4, <1>5, <1>6
     DEF Next, Handle, vars, SaveBrokerRefreshToken, Rotated, SaveCloudToken,
         Abort, Disable, RegisterDevice

\* A stored broker token leads to exactly one row, which is there.
THEOREM BrokerTokensLeadSomewhere == Spec => []BrokerTokensLead
<1>1. Init => BrokerTokensKnown
  BY TokensAssumption
     DEF Init, BrokerTokensKnown, BrokerTokensLead, Idle
<1>2. ASSUME IInv, BrokerTokensKnown, [Next]_vars PROVE BrokerTokensKnown'
  <2>1. CASE \E r \in Requests, b \in BrokerTokens : SaveBrokerRefreshToken(r, b)
    BY <1>2, <2>1, SaveBrokerStep
  <2>2. CASE UNCHANGED <<brokerTokens, made>>
    <3>1. ASSUME NEW r \in Requests, requests'[r].pc = "redeemed"
          PROVE  cloudTokens'[requests'[r].account] # None
      <4>1. CASE requests'[r] = requests[r]
        BY <1>2, <3>1, <4>1, RowStays DEF BrokerTokensKnown, IInv, RequestsOwn
      <4>2. CASE RedeemCommit(r)
        <5>1. /\ requests[r].account \in Account
              /\ requests[r].token \in TokenSet
              /\ requests'[r].account = requests[r].account
              /\ cloudTokens'[requests[r].account] =
                    Merge(requests[r].token, requests[r].seen)
          BY <1>2, <4>2 DEF RedeemCommit, IInv, TypeOK, RequestsOwn, Request
        <5>2. QED
          BY <5>1, TokensAssumption DEF Merge, TokenSet
      <4>3. QED
        BY <1>2, <3>1, <4>1, <4>2, RedeemedStep
    <3>2. BrokerTokensLead'
      BY <1>2, <2>2, RowStays DEF BrokerTokensKnown, BrokerTokensLead
    <3>3. QED
      BY <1>2, <2>2, <3>1, <3>2 DEF BrokerTokensKnown
  <2>3. QED
    BY <1>2, <2>1, <2>2
       DEF Next, Handle, vars, RedeemRead, RedeemCommit, RcloneToken, Reused,
           Rotated, Answered, SaveCloudToken, Abort, Disable, RegisterDevice
<1>3. BrokerTokensKnown => BrokerTokensLead
  BY DEF BrokerTokensKnown
<1>4. QED
  BY <1>1, <1>2, <1>3, Invariance, PTL DEF Spec

-----------------------------------------------------------------------------
(* The refinement of GrantRegister.                                        *)

\* The variables of GrantRegister in the state of this module.
Reg == [a \in Account |-> GrantOf(cloudTokens[a])]

Pend == [a \in Account |-> {Due(r) : r \in Writers(a)}]

Iss == {t \in RefreshTokens : account[t] # NoAccount}

\* What the other requests may still write.
Others(a, r) == {Due(s) : s \in Writers(a) \ {r}}

Same(r) == \A s \in Requests \ {r} : requests'[s] = requests[s]

\* A step of one request changes what is pending only by what is due from it.
LEMMA PendStep ==
    ASSUME NEW r \in Requests, Same(r), NEW a \in Account
    PROVE  /\ Pend[a] = Others(a, r) \cup
                           IF r \in Writers(a) THEN {Due(r)} ELSE {}
           /\ Pend'[a] = Others(a, r) \cup
                           IF r \in Writers(a)' THEN {Due(r)'} ELSE {}
<1>1. \A s \in Requests \ {r} : Due(s)' = Due(s)
  BY DEF Same, Due
<1>2. Writers(a)' \ {r} = Writers(a) \ {r}
  BY DEF Same, Writers
<1>3. {Due(s)' : s \in Writers(a)' \ {r}} = Others(a, r)
  BY <1>1, <1>2 DEF Others, Writers
<1>4. Pend[a] = {Due(s) : s \in Writers(a)}
  BY DEF Pend
<1>5. Pend'[a] = {Due(s)' : s \in Writers(a)'}
  BY DEF Pend
<1>6. QED
  BY <1>3, <1>4, <1>5 DEF Others

\* A request that begins to be a writer of its row.
LEMMA Begins ==
    ASSUME NEW r \in Requests, Same(r), requests[r].pc = "idle",
           NEW a \in Account, requests'[r].account = a,
           requests'[r].pc \in {"redeeming", "refreshing"}
    PROVE  Pend' = [Pend EXCEPT ![a] = @ \cup {Due(r)'}]
<1>1. \A b \in Account : /\ r \notin Writers(b)
                         /\ r \in Writers(b)' <=> b = a
  BY DEF Writers
<1>2. ASSUME NEW b \in Account
      PROVE  Pend'[b] = IF b = a THEN Pend[b] \cup {Due(r)'} ELSE Pend[b]
  <2>1. Pend[b] = Others(b, r) \cup {}
    BY <1>1, PendStep
  <2>2. Pend'[b] = Others(b, r) \cup IF b = a THEN {Due(r)'} ELSE {}
    BY <1>1, PendStep
  <2>3. QED
    BY <2>1, <2>2
<1>3. QED
  BY <1>2 DEF Pend

\* A writer that ends: what was due from it may be due from another one.
LEMMA Ends ==
    ASSUME NEW r \in Requests, Same(r),
           NEW a \in Account, r \in Writers(a),
           requests'[r].pc \in {"idle", "redeemed"}
    PROVE  /\ Due(r) \in Pend[a]
           /\ Pend' = Pend \/ Pend' = [Pend EXCEPT ![a] = @ \ {Due(r)}]
<1>1. \A b \in Account : /\ r \notin Writers(b)'
                         /\ r \in Writers(b) <=> b = a
  BY DEF Writers
<1>2. Pend[a] = Others(a, r) \cup {Due(r)}
  BY <1>1, PendStep
<1>3. ASSUME NEW b \in Account PROVE Pend'[b] = Others(b, r)
  <2>1. Pend'[b] = Others(b, r) \cup {}
    BY <1>1, PendStep
  <2>2. QED
    BY <2>1
<1>4. ASSUME NEW b \in Account, b # a PROVE Pend[b] = Others(b, r)
  <2>1. Pend[b] = Others(b, r) \cup {}
    BY <1>1, <1>4, PendStep
  <2>2. QED
    BY <2>1
<1>5. CASE Due(r) \in Others(a, r)
  <2>1. \A b \in Account : Pend'[b] = Pend[b]
    BY <1>2, <1>3, <1>4, <1>5
  <2>2. QED
    BY <1>2, <2>1 DEF Pend
<1>6. CASE Due(r) \notin Others(a, r)
  <2>1. \A b \in Account :
            Pend'[b] = IF b = a THEN Pend[b] \ {Due(r)} ELSE Pend[b]
    BY <1>2, <1>3, <1>4, <1>6
  <2>2. QED
    BY <1>2, <2>1 DEF Pend
<1>7. QED
  BY <1>5, <1>6

\* A writer that stays one, with something else in hand.
LEMMA Changes ==
    ASSUME NEW r \in Requests, Same(r),
           NEW a \in Account, r \in Writers(a), r \in Writers(a)'
    PROVE  /\ Due(r) \in Pend[a]
           /\ Due(r)' = Due(r) => Pend' = Pend
           /\ \E kept \in {Pend[a], Pend[a] \ {Due(r)}} :
                 Pend' = [Pend EXCEPT ![a] = kept \cup {Due(r)'}]
<1>1. \A b \in Account : /\ r \in Writers(b)' <=> b = a
                         /\ r \in Writers(b) <=> b = a
  BY DEF Writers
<1>2. /\ Pend[a] = Others(a, r) \cup {Due(r)}
      /\ Pend'[a] = Others(a, r) \cup {Due(r)'}
  BY <1>1, PendStep
<1>3. ASSUME NEW b \in Account, b # a PROVE Pend'[b] = Pend[b]
  BY <1>1, <1>3, PendStep
<1>4. Due(r)' = Due(r) => Pend' = Pend
  <2>1. Due(r)' = Due(r) => \A b \in Account : Pend'[b] = Pend[b]
    BY <1>2, <1>3
  <2>2. QED
    BY <2>1 DEF Pend
<1>5. PICK kept \in {Pend[a], Pend[a] \ {Due(r)}} : kept \cup {Due(r)'} = Pend'[a]
  BY <1>2
<1>6. Pend' = [Pend EXCEPT ![a] = kept \cup {Due(r)'}]
  BY <1>3, <1>5 DEF Pend
<1>7. QED
  BY <1>2, <1>4, <1>6

\* A row that is replaced.
LEMMA RegStep ==
    ASSUME NEW a \in Account, NEW v, cloudTokens \in [Account -> TokenSet \cup {None}],
           cloudTokens' = [cloudTokens EXCEPT ![a] = v]
    PROVE  Reg' = [Reg EXCEPT ![a] = GrantOf(v)]
BY DEF Reg, GrantOf

\* A grant that is issued.
LEMMA IssStep ==
    ASSUME IInv, NEW a \in Account, NEW t \in RefreshTokens, Issue(t, a)
    PROVE  t \notin Iss /\ Iss' = Iss \cup {t}
BY NoneIsNoAccount DEF Issue, Iss, IInv, TypeOK

\* The steps of GrantRegister, in these terms.
LEMMA RegisterReads ==
    ASSUME NEW a \in Account, Pend' = [Pend EXCEPT ![a] = @ \cup {Reg[a]}],
           UNCHANGED <<Reg, Iss, revoked>>
    PROVE  Register!Next
BY DEF Register!Next, Register!Read, Reg, Pend, Iss

LEMMA RegisterBrings ==
    ASSUME NEW a \in Account, NEW t \in RefreshTokens \ Iss,
           Pend' = [Pend EXCEPT ![a] = @ \cup {t}], Iss' = Iss \cup {t},
           UNCHANGED <<Reg, revoked>>
    PROVE  Register!Next
BY DEF Register!Next, Register!Bring, Reg, Pend, Iss

LEMMA RegisterRotates ==
    ASSUME NEW a \in Account, NEW old \in (Pend[a] \cap RefreshTokens) \ revoked,
           NEW t \in RefreshTokens \ Iss, Iss' = Iss \cup {t},
           NEW kept \in {Pend[a], Pend[a] \ {old}},
           Pend' = [Pend EXCEPT ![a] = kept \cup {t}],
           revoked' \in {revoked, revoked \cup {old}},
           UNCHANGED Reg
    PROVE  Register!Next
<1>1. Register!Rotate(a, old, t)
  BY DEF Register!Rotate, Reg, Pend, Iss
<1>2. QED
  BY <1>1 DEF Register!Next, Reg, Pend, Iss

LEMMA RegisterEnds ==
    ASSUME NEW a \in Account, NEW v \in Pend[a],
           Reg' = Reg \/ Reg' = [Reg EXCEPT ![a] = v],
           Pend' = Pend \/ Pend' = [Pend EXCEPT ![a] = @ \ {v}],
           UNCHANGED <<Iss, revoked>>
    PROVE  Register!Next
<1>1. Register!End(a, v)
  BY DEF Register!End, Reg, Pend, Iss
<1>2. Register!Write(a, v) \/ Register!Drop(a, v)
  BY <1>1 DEF Register!Write, Register!Drop, Reg, Pend, Iss
<1>3. QED
  BY <1>2 DEF Register!Next, Reg, Pend, Iss

LEMMA RegisterStutters ==
    ASSUME UNCHANGED <<Reg, Pend, Iss, revoked>>
    PROVE  UNCHANGED Register!vars
BY DEF Register!vars, Reg, Pend, Iss

-----------------------------------------------------------------------------
(* Every step maps to a step of GrantRegister or to a stutter.             *)

\* An exchange that comes without a grant reads the register, one that comes
\* with a new grant brings it.
LEMMA RedeemReadImplements ==
    ASSUME IInv, NEW r \in Requests, NEW a \in Account, NEW t \in TokenSet,
           RedeemRead(r, a, t)
    PROVE  Register!Next
<1>1. /\ Same(r)
      /\ requests[r].pc = "idle"
      /\ requests'[r] = [pc |-> "redeeming", account |-> a,
                         seen |-> cloudTokens[a], token |-> t, broker |-> None]
      /\ UNCHANGED <<cloudTokens, revoked>>
  BY DEF RedeemRead, Same, IInv, TypeOK
<1>2. Due(r)' = GrantOf(Merge(t, cloudTokens[a]))
  BY <1>1 DEF Due, GrantOf, Merge
<1>3. Pend' = [Pend EXCEPT ![a] = @ \cup {Due(r)'}]
  BY <1>1, Begins
<1>4. UNCHANGED Reg
  BY <1>1 DEF Reg
<1>5. CASE t \in RefreshTokens /\ Issue(t, a)
  <2>1. Due(r)' = t
    BY <1>2, <1>5, TokensAssumption DEF Merge, GrantOf
  <2>2. t \notin Iss /\ Iss' = Iss \cup {t}
    BY <1>5, IssStep
  <2>3. QED
    BY <1>1, <1>3, <1>4, <1>5, <2>1, <2>2, RegisterBrings
<1>6. CASE t = Bare /\ UNCHANGED account
  <2>1. Due(r)' = GrantOf(cloudTokens[a])
    BY <1>2, <1>6, TokensAssumption DEF Merge, GrantOf
  <2>2. Due(r)' = Reg[a]
    BY <2>1 DEF Reg
  <2>3. UNCHANGED Iss
    BY <1>6 DEF Iss
  <2>4. QED
    BY <1>1, <1>3, <1>4, <2>2, <2>3, RegisterReads
<1>7. QED
  BY <1>5, <1>6 DEF RedeemRead

\* The commit writes what was due.
LEMMA RedeemCommitImplements ==
    ASSUME IInv, NEW r \in Requests, RedeemCommit(r)
    PROVE  Register!Next
<1> DEFINE a == requests[r].account
<1>1. /\ Same(r)
      /\ requests'[r].pc = "redeemed"
      /\ UNCHANGED <<account, revoked>>
      /\ a \in Account
      /\ r \in Writers(a)
  BY DEF RedeemCommit, Same, Writers, IInv, TypeOK, RequestsOwn
<1>2. Reg' = [Reg EXCEPT ![a] = Due(r)]
  BY <1>1, RegStep DEF RedeemCommit, Due, IInv, TypeOK
<1>3. UNCHANGED Iss
  BY <1>1 DEF Iss
<1>4. /\ Due(r) \in Pend[a]
      /\ Pend' = Pend \/ Pend' = [Pend EXCEPT ![a] = @ \ {Due(r)}]
  BY <1>1, Ends
<1>5. QED
  BY <1>1, <1>2, <1>3, <1>4, RegisterEnds

\* So does SaveCloudToken.
LEMMA SaveCloudTokenImplements ==
    ASSUME IInv, NEW r \in Requests, SaveCloudToken(r)
    PROVE  Register!Next
<1> DEFINE a == requests[r].account
<1>1. /\ Same(r)
      /\ requests'[r].pc = "idle"
      /\ UNCHANGED <<account, revoked>>
      /\ a \in Account
      /\ r \in Writers(a)
  BY FinishedSlot
     DEF SaveCloudToken, Same, Writers, IInv, TypeOK, RequestsOwn, Idle
<1>2. Reg' = [Reg EXCEPT ![a] = Due(r)]
  BY <1>1, RegStep DEF SaveCloudToken, Due, IInv, TypeOK
<1>3. UNCHANGED Iss
  BY <1>1 DEF Iss
<1>4. /\ Due(r) \in Pend[a]
      /\ Pend' = Pend \/ Pend' = [Pend EXCEPT ![a] = @ \ {Due(r)}]
  BY <1>1, Ends
<1>5. QED
  BY <1>1, <1>2, <1>3, <1>4, RegisterEnds

\* A request that ends early drops what was due from it, if anything was.
LEMMA FinishImplements ==
    ASSUME IInv, NEW r \in Requests, Finish(r), requests[r].pc # "idle",
           UNCHANGED <<cloudTokens, account, revoked>>
    PROVE  Register!Next \/ UNCHANGED Register!vars
<1> DEFINE a == requests[r].account
<1>1. Same(r) /\ requests'[r].pc = "idle" /\ a \in Account
  BY FinishedSlot DEF Same, IInv, RequestsOwn, Idle
<1>2. UNCHANGED <<Reg, Iss>>
  BY DEF Reg, Iss
<1>3. CASE r \in Writers(a)
  BY <1>1, <1>2, <1>3, Ends, RegisterEnds
<1>4. CASE r \notin Writers(a)
  <2>1. \A b \in Account : r \notin Writers(b) /\ r \notin Writers(b)'
    BY <1>1, <1>4 DEF Writers
  <2>2. \A b \in Account : Pend'[b] = Pend[b]
    BY <1>1, <2>1, PendStep
  <2>3. UNCHANGED Pend
    BY <2>2 DEF Pend
  <2>4. QED
    BY <1>2, <2>3, RegisterStutters
<1>5. QED
  BY <1>3, <1>4

\* The rclone endpoint reads the register.
LEMMA RcloneTokenImplements ==
    ASSUME IInv, NEW r \in Requests, NEW b \in BrokerTokens, NEW p \in Providers,
           RcloneToken(r, b, p)
    PROVE  Register!Next
<1>1. PICK a \in Account :
          requests' = [requests EXCEPT ![r] =
             [pc |-> "refreshing", account |-> a, seen |-> cloudTokens[a],
              token |-> None, broker |-> b]]
  BY DEF RcloneToken
<1>2. /\ Same(r)
      /\ requests[r].pc = "idle"
      /\ requests'[r].pc = "refreshing"
      /\ requests'[r].account = a
      /\ requests'[r].seen = cloudTokens[a]
  BY <1>1 DEF RcloneToken, Same, IInv, TypeOK
<1>3. Due(r)' = Reg[a]
  BY <1>2 DEF Due, Reg, GrantOf
<1>4. Pend' = [Pend EXCEPT ![a] = @ \cup {Due(r)'}]
  BY <1>2, Begins
<1>5. UNCHANGED <<Reg, Iss, revoked>>
  BY DEF RcloneToken, Reg, Iss
<1>6. QED
  BY <1>3, <1>4, <1>5, RegisterReads

\* An answer of the provider stays due from the request that called it.
LEMMA AnsweredPends ==
    ASSUME IInv, NEW r \in Requests, NEW t \in RefreshTokens, Answered(r, t),
           NEW a \in Account, a = requests[r].account
    PROVE  /\ Same(r)
           /\ r \in Writers(a)
           /\ r \in Writers(a)'
           /\ Due(r) = requests[r].seen
           /\ Due(r)' = t
           /\ requests[r].seen \in RefreshTokens
           /\ UNCHANGED Reg
<1>1. Same(r) /\ UNCHANGED Reg /\ requests[r].pc = "refreshing"
  BY DEF Answered, Same, Reg, IInv, TypeOK
<1>2. /\ requests'[r].account = a
      /\ requests'[r].token = t
      /\ requests'[r].pc = "saving"
      /\ requests[r].seen \in RefreshTokens
  BY AnsweredSlot
<1>3. Due(r) = requests[r].seen /\ Due(r)' = t
  BY <1>1, <1>2 DEF Due, GrantOf
<1>4. QED
  BY <1>1, <1>2, <1>3 DEF Writers

LEMMA ReusedImplements ==
    ASSUME IInv, NEW r \in Requests, Reused(r)
    PROVE  UNCHANGED Register!vars
<1>1. /\ requests[r].seen \in RefreshTokens
      /\ Answered(r, requests[r].seen)
      /\ UNCHANGED <<account, revoked>>
  BY DEF Reused, Answered, IInv, RequestsOwn
<1>2. PICK a \in Account : a = requests[r].account
  BY <1>1, AnsweredSlot
<1>3. /\ Same(r) /\ UNCHANGED Reg
      /\ r \in Writers(a) /\ r \in Writers(a)'
      /\ Due(r)' = Due(r)
  BY <1>1, <1>2, AnsweredPends
<1>4. UNCHANGED Pend
  BY <1>3, Changes
<1>5. UNCHANGED Iss
  BY <1>1 DEF Iss
<1>6. QED
  BY <1>1, <1>3, <1>4, <1>5, RegisterStutters

LEMMA RotatedImplements ==
    ASSUME IInv, NEW r \in Requests, NEW t \in RefreshTokens, Rotated(r, t)
    PROVE  Register!Next
<1>1. /\ Answered(r, t)
      /\ requests[r].seen \notin revoked
      /\ revoked' \in {revoked, revoked \cup {requests[r].seen}}
      /\ Issue(t, requests[r].account)
  BY DEF Rotated
<1>2. PICK a \in Account : a = requests[r].account
  BY <1>1, AnsweredSlot
<1>3. /\ Same(r) /\ UNCHANGED Reg
      /\ r \in Writers(a) /\ r \in Writers(a)'
      /\ Due(r) = requests[r].seen /\ Due(r)' = t
      /\ requests[r].seen \in RefreshTokens
  BY <1>1, <1>2, AnsweredPends
<1>4. PICK old \in RefreshTokens : old = Due(r) /\ old = requests[r].seen
  BY <1>3
<1>5. /\ old \in Pend[a]
      /\ \E kept \in {Pend[a], Pend[a] \ {old}} :
            Pend' = [Pend EXCEPT ![a] = kept \cup {t}]
  BY <1>3, <1>4, Changes
<1>6. t \notin Iss /\ Iss' = Iss \cup {t}
  BY <1>1, <1>2, IssStep
<1>7. PICK kept \in {Pend[a], Pend[a] \ {old}} :
           Pend' = [Pend EXCEPT ![a] = kept \cup {t}]
  BY <1>5
<1>8. QED
  BY <1>1, <1>3, <1>4, <1>5, <1>6, <1>7, RegisterRotates

\* CloudTokens implements GrantRegister: whatever exchanges and refreshes do to
\* the rows of cloud_tokens, a register takes only what was read from it, or what
\* was brought or rotated for its account.
THEOREM RegisterIsImplemented == Spec => RegisterKept
<1>1. Init => Register!Init
  <2> SUFFICES ASSUME Init PROVE Register!Init
    OBVIOUS
  <2>1. Reg = [a \in Account |-> None]
    BY TokensAssumption DEF Init, Reg, GrantOf
  <2>2. \A a \in Account : Writers(a) = {}
    BY DEF Init, Writers, Idle
  <2>3. Pend = [a \in Account |-> {}]
    BY <2>2 DEF Pend
  <2>4. Iss = {}
    BY DEF Init, Iss
  <2>5. QED
    BY <2>1, <2>3, <2>4 DEF Register!Init, Init, Reg, Pend, Iss
<1>2. ASSUME IInv, [Next]_vars PROVE [Register!Next]_(Register!vars)
  <2>1. ASSUME NEW r \in Requests, NEW a \in Account, NEW t \in TokenSet,
               RedeemRead(r, a, t)
        PROVE  Register!Next
    BY <1>2, <2>1, RedeemReadImplements
  <2>2. ASSUME NEW r \in Requests, RedeemCommit(r) PROVE Register!Next
    BY <1>2, <2>2, RedeemCommitImplements
  <2>3. ASSUME NEW r \in Requests,
               Abort(r) \/ \E b \in BrokerTokens : SaveBrokerRefreshToken(r, b)
        PROVE  Register!Next \/ UNCHANGED Register!vars
    <3>1. /\ Finish(r)
          /\ requests[r].pc # "idle"
          /\ UNCHANGED <<cloudTokens, account, revoked>>
      BY <2>3 DEF Abort, SaveBrokerRefreshToken
    <3>2. QED
      BY <1>2, <3>1, FinishImplements
  <2>4. ASSUME NEW r \in Requests, NEW b \in BrokerTokens, NEW p \in Providers,
               RcloneToken(r, b, p)
        PROVE  Register!Next
    BY <1>2, <2>4, RcloneTokenImplements
  <2>5. ASSUME NEW r \in Requests, Reused(r) PROVE UNCHANGED Register!vars
    BY <1>2, <2>5, ReusedImplements
  <2>6. ASSUME NEW r \in Requests, NEW t \in RefreshTokens, Rotated(r, t)
        PROVE  Register!Next
    BY <1>2, <2>6, RotatedImplements
  <2>7. ASSUME NEW r \in Requests, SaveCloudToken(r) PROVE Register!Next
    BY <1>2, <2>7, SaveCloudTokenImplements
  <2>8. ASSUME UNCHANGED <<cloudTokens, requests, account, revoked>>
        PROVE  UNCHANGED Register!vars
    <3>1. UNCHANGED <<Reg, Pend, Iss>>
      BY <2>8 DEF Reg, Pend, Iss, Writers, Due
    <3>2. QED
      BY <2>8, <3>1, RegisterStutters
  <2>9. QED
    BY <1>2, <2>1, <2>2, <2>3, <2>4, <2>5, <2>6, <2>7, <2>8
       DEF Next, Handle, vars, Disable, RegisterDevice
<1>3. QED
  BY <1>1, <1>2, Invariance, PTL DEF Spec, RegisterKept, Register!Spec

-----------------------------------------------------------------------------
(* What follows for the rows from the theorems of GrantRegister.           *)

RP == INSTANCE GrantRegisterProofs WITH
    Accounts <- Account,
    Grants <- RefreshTokens,
    NoGrant <- None,
    register <- [a \in Account |-> GrantOf(cloudTokens[a])],
    pending <- [a \in Account |-> {Due(r) : r \in Writers(a)}],
    issued <- {t \in RefreshTokens : account[t] # NoAccount},
    refused <- revoked

\* The module of its proofs has the definitions of GrantRegister once more.
LEMMA SameRegister == RegisterKept <=> RP!Spec
<1>1. Register!Init <=> RP!Init
  BY DEF Register!Init, RP!Init
<1>2. Register!vars = RP!vars /\ Register!vars' = RP!vars'
  BY DEF Register!vars, RP!vars
<1>3. ASSUME NEW a, NEW v
      PROVE  (Register!Write(a, v) <=> RP!Write(a, v)) /\
             (Register!Drop(a, v) <=> RP!Drop(a, v))
  BY DEF Register!Write, RP!Write, Register!Drop, RP!Drop, Register!End, RP!End
<1>4. ASSUME NEW a, NEW old, NEW new
      PROVE  Register!Rotate(a, old, new) <=> RP!Rotate(a, old, new)
  BY DEF Register!Rotate, RP!Rotate
<1>5. ASSUME NEW a, NEW g
      PROVE  (Register!Read(a) <=> RP!Read(a)) /\
             (Register!Bring(a, g) <=> RP!Bring(a, g))
  BY DEF Register!Read, RP!Read, Register!Bring, RP!Bring
<1>6. Register!Next <=> RP!Next
  BY <1>3, <1>4, <1>5 DEF Register!Next, RP!Next
<1>7. [Register!Next]_(Register!vars) <=> [RP!Next]_(RP!vars)
  BY <1>2, <1>6
<1>8. QED
  BY <1>1, <1>7, PTL DEF RegisterKept, Register!Spec, RP!Spec

\* A refresh token that was replaced in its row and that no request under way has
\* read is gone for good: no late write of an exchange or of the rclone endpoint
\* brings it back, and none carries it to another device or provider.
THEOREM ReplacedTokensAreGone == Spec => RP!NothingReturns /\ []RP!OneAccount
<1>1. None \notin RefreshTokens
  BY TokensAssumption
<1>2. RP!Spec => RP!NothingReturns
  BY <1>1, RP!GoneForGood
<1>3. RP!Spec => []RP!IInv
  BY <1>1, RP!Invariance
<1>4. RP!IInv => RP!OneAccount
  BY DEF RP!IInv
<1>5. QED
  BY <1>2, <1>3, <1>4, RegisterIsImplemented, SameRegister, PTL
=============================================================================
