----------------------------- MODULE BrokerProofs -----------------------------
(***************************************************************************)
(* Proofs about Broker, from the theorems of its two parts.                *)
(***************************************************************************)
EXTENDS Broker, TLAPS

DP == INSTANCE DeviceAuthProofs
          WITH Requests <- AuthSlots, requests <- authRequests

OP == INSTANCE OAuthSessionProofs
          WITH Requests <- Slots, requests <- sessionRequests

-----------------------------------------------------------------------------
(* The assumptions of the parts. *)

LEMMA DTimes == DP!TimesAssumption
BY BrokerAssumption DEF DP!TimesAssumption

LEMMA DNone == DP!NoneAssumption
BY BrokerAssumption DEF DP!NoneAssumption

LEMMA OTTL == OP!SessionTTLAssumption
BY BrokerAssumption DEF OP!SessionTTLAssumption

LEMMA OClock == OP!MaxClockAssumption
BY BrokerAssumption DEF OP!MaxClockAssumption

LEMMA ONone == OP!NoneAssumption
BY BrokerAssumption DEF OP!NoneAssumption

-----------------------------------------------------------------------------
(* The module of its proofs has the definitions of a part once more; they    *)
(* are the same.                                                             *)

LEMMA SameDevices ==
    /\ D!Init <=> DP!Init
    /\ D!Next <=> DP!Next
    /\ D!vars = DP!vars /\ D!vars' = DP!vars'
<1> USE DEF D!history, DP!history, D!Idle, DP!Idle, D!Finish, DP!Finish,
            D!Enabled, DP!Enabled, D!NoJWT, DP!NoJWT
<1>1. D!Init <=> DP!Init
  BY DEF D!Init, DP!Init, D!NoDevice, DP!NoDevice
<1>2. D!vars = DP!vars /\ D!vars' = DP!vars'
  BY DEF D!vars, DP!vars
<1>3. ASSUME NEW d PROVE D!Disable(d) <=> DP!Disable(d)
  BY DEF D!Disable, DP!Disable
<1>4. ASSUME NEW d, NEW k
      PROVE  D!RegisterDevice(d, k) <=> DP!RegisterDevice(d, k)
  BY DEF D!RegisterDevice, DP!RegisterDevice, D!Registered, DP!Registered
<1>5. ASSUME NEW r, NEW m PROVE D!IssueToken(r, m) <=> DP!IssueToken(r, m)
  BY DEF D!IssueToken, DP!IssueToken
<1>6. ASSUME NEW r, NEW j PROVE D!RefreshJWT(r, j) <=> DP!RefreshJWT(r, j)
  BY DEF D!RefreshJWT, DP!RefreshJWT, D!Valid, DP!Valid
<1>7. ASSUME NEW r
      PROVE  D!VerifyDeviceSignature(r) <=> DP!VerifyDeviceSignature(r)
  BY DEF D!VerifyDeviceSignature, DP!VerifyDeviceSignature, D!InWindow,
         DP!InWindow
<1>8. ASSUME NEW r PROVE D!PurgeNonces(r) <=> DP!PurgeNonces(r)
  BY DEF D!PurgeNonces, DP!PurgeNonces
<1>9. ASSUME NEW r PROVE D!InsertNonce(r) <=> DP!InsertNonce(r)
  BY DEF D!InsertNonce, DP!InsertNonce
<1>10. ASSUME NEW r PROVE D!RefreshChecked(r) <=> DP!RefreshChecked(r)
  BY DEF D!RefreshChecked, DP!RefreshChecked
<1>11. ASSUME NEW r, NEW j PROVE D!IssueJWT(r, j) <=> DP!IssueJWT(r, j)
  BY DEF D!IssueJWT, DP!IssueJWT
<1>12. ASSUME NEW r PROVE D!Abort(r) <=> DP!Abort(r)
  BY DEF D!Abort, DP!Abort
<1>13. D!Tick <=> DP!Tick
  BY DEF D!Tick, DP!Tick
<1>14. D!Next <=> DP!Next
  BY <1>3, <1>4, <1>5, <1>6, <1>7, <1>8, <1>9, <1>10, <1>11, <1>12, <1>13
     DEF D!Next, DP!Next, D!Serve, DP!Serve, D!Message, DP!Message
<1>15. QED
  BY <1>1, <1>2, <1>14

LEMMA SameSessions ==
    /\ O!Init <=> OP!Init
    /\ O!Next <=> OP!Next
    /\ O!vars = OP!vars /\ O!vars' = OP!vars'
    /\ \A r : O!Arrive(r) <=> OP!Arrive(r)
    /\ \A r : O!Serve(r) <=> OP!Serve(r)
    /\ \A r : O!Abort(r) <=> OP!Abort(r)
<1> USE DEF O!tables, OP!tables, O!history, OP!history, O!Idle, OP!Idle,
            O!Finish, OP!Finish, O!Exists, OP!Exists, O!Live, OP!Live,
            O!Unlocked, OP!Unlocked, O!At, OP!At, O!Mark, OP!Mark,
            O!Open, OP!Open, O!Settled, OP!Settled
<1>1. O!Init <=> OP!Init
  BY DEF O!Init, OP!Init, O!NoRow, OP!NoRow
<1>2. O!vars = OP!vars /\ O!vars' = OP!vars'
  BY DEF O!vars, OP!vars
<1>3. ASSUME NEW s, NEW d, NEW p, NEW then
      PROVE  O!CreateSession(s, d, p, then) <=> OP!CreateSession(s, d, p, then)
  BY DEF O!CreateSession, OP!CreateSession
<1>4. ASSUME NEW r, NEW op, NEW s, NEW d, NEW p
      PROVE  O!Get(r, op, s, d, p) <=> OP!Get(r, op, s, d, p)
  BY DEF O!Get, OP!Get
<1>5. ASSUME NEW r PROVE O!ExpireIfNeeded(r) <=> OP!ExpireIfNeeded(r)
  BY DEF O!ExpireIfNeeded, OP!ExpireIfNeeded, O!Ended, OP!Ended
<1>6. ASSUME NEW r PROVE O!StartChecked(r) <=> OP!StartChecked(r)
  BY DEF O!StartChecked, OP!StartChecked
<1>7. ASSUME NEW r PROVE O!CallbackChecked(r) <=> OP!CallbackChecked(r)
  BY DEF O!CallbackChecked, OP!CallbackChecked
<1>8. ASSUME NEW r PROVE O!StatusChecked(r) <=> OP!StatusChecked(r)
  BY DEF O!StatusChecked, OP!StatusChecked
<1>9. ASSUME NEW r PROVE O!CancelChecked(r) <=> OP!CancelChecked(r)
  BY DEF O!CancelChecked, OP!CancelChecked
<1>10. ASSUME NEW r, NEW t
       PROVE  O!ExchangeGranted(r, t) <=> OP!ExchangeGranted(r, t)
  BY DEF O!ExchangeGranted, OP!ExchangeGranted
<1>11. ASSUME NEW r PROVE O!ExchangeRefused(r) <=> OP!ExchangeRefused(r)
  BY DEF O!ExchangeRefused, OP!ExchangeRefused
<1>12. ASSUME NEW r PROVE O!MarkGet(r) <=> OP!MarkGet(r)
  BY DEF O!MarkGet, OP!MarkGet
<1>13. ASSUME NEW r PROVE O!MarkChecked(r) <=> OP!MarkChecked(r)
  BY DEF O!MarkChecked, OP!MarkChecked
<1>14. ASSUME NEW r PROVE O!UpdateRow(r) <=> OP!UpdateRow(r)
  BY DEF O!UpdateRow, OP!UpdateRow, O!Marked, OP!Marked
<1>15. ASSUME NEW r, NEW s, NEW d
       PROVE  O!RedeemLock(r, s, d) <=> OP!RedeemLock(r, s, d)
  BY DEF O!RedeemLock, OP!RedeemLock, O!Locked, OP!Locked, O!Redeemable,
         OP!Redeemable
<1>16. ASSUME NEW r PROVE O!RedeemCommit(r) <=> OP!RedeemCommit(r)
  BY DEF O!RedeemCommit, OP!RedeemCommit, O!Ended, OP!Ended
<1>17. ASSUME NEW r
       PROVE  O!SaveBrokerRefreshToken(r) <=> OP!SaveBrokerRefreshToken(r)
  BY DEF O!SaveBrokerRefreshToken, OP!SaveBrokerRefreshToken
<1>18. ASSUME NEW r PROVE O!Abort(r) <=> OP!Abort(r)
  BY DEF O!Abort, OP!Abort
<1>19. O!Tick <=> OP!Tick
  BY DEF O!Tick, OP!Tick
<1>20. ASSUME NEW r PROVE O!Arrive(r) <=> OP!Arrive(r)
  BY <1>4, <1>15
     DEF O!Arrive, OP!Arrive, O!StartOAuth, OP!StartOAuth, O!CallbackOAuth,
         OP!CallbackOAuth, O!GetStatus, OP!GetStatus, O!CancelSession,
         OP!CancelSession
<1>21. ASSUME NEW r PROVE O!Serve(r) <=> OP!Serve(r)
  BY <1>5, <1>6, <1>7, <1>8, <1>9, <1>10, <1>11, <1>12, <1>13, <1>14, <1>16,
     <1>17 DEF O!Serve, OP!Serve
<1>22. O!Next <=> OP!Next
  BY <1>3, <1>18, <1>19, <1>20, <1>21 DEF O!Next, OP!Next
<1>23. QED
  BY <1>1, <1>2, <1>18, <1>20, <1>21, <1>22

-----------------------------------------------------------------------------
(***************************************************************************)
(* The inductive invariant: those of the parts, and that an admission is   *)
(* the word of a JWT that one of the devices holds, and was given before   *)
(* that JWT expired.                                                       *)
(***************************************************************************)
Vouched(a) ==
    /\ a.at < a.jwt.issued + AccessTTL
    /\ \E j \in JWTs : a.jwt = jwts[j] /\ jwts[j].device # None

AdmissionsOK ==
    \A r \in Slots :
        /\ admitted[r] = NotAdmitted \/ Vouched(admitted[r])
        /\ sessionRequests[r].pc = "idle" => sessionRequests[r].device = None

IInv ==
    /\ DP!IInv
    /\ DP!NamesRegistered
    /\ OP!IInv
    /\ OP!CancelsOwn
    /\ TypeOK
    /\ AdmissionsOK
    /\ SessionsOfRegistered

LEMMA DeviceKnown ==
    ASSUME IInv, NEW r \in Slots, admitted[r] # NotAdmitted
    PROVE  /\ DeviceOf(r) \in Devices
           /\ devices[DeviceOf(r)].key # None
<1>1. PICK j \in JWTs : admitted[r].jwt = jwts[j] /\ jwts[j].device # None
  BY DEF IInv, AdmissionsOK, Vouched
<1>2. jwts \in [JWTs -> DP!JWT]
  BY DEF IInv, DP!IInv, DP!TypeOK
<1>3. QED
  BY <1>1, <1>2
     DEF IInv, DP!NamesRegistered, DP!IsRegistered, DP!JWT, DeviceOf

LEMMA SessionClock ==
    ASSUME NEW r, O!Arrive(r) \/ O!Serve(r) \/ O!Abort(r)
    PROVE  UNCHANGED clock
<1>1. CASE O!Arrive(r)
  BY <1>1 DEF O!Arrive, O!StartOAuth, O!CallbackOAuth, O!GetStatus,
              O!CancelSession, O!Get, O!RedeemLock, O!Locked
<1>2. CASE O!Serve(r)
  BY <1>2 DEF O!Serve, O!ExpireIfNeeded, O!StartChecked, O!CallbackChecked,
              O!StatusChecked, O!CancelChecked, O!ExchangeGranted,
              O!ExchangeRefused, O!MarkGet, O!MarkChecked, O!UpdateRow,
              O!RedeemCommit, O!SaveBrokerRefreshToken
<1>3. CASE O!Abort(r)
  BY <1>3 DEF O!Abort
<1>4. QED
  BY <1>1, <1>2, <1>3

\* The handlers behind requireJWT and those in front of it.
LEMMA ArriveCases ==
    ASSUME IInv, NEW r \in Slots, Browse(r) \/ Protected(r)
    PROVE  O!Arrive(r)
<1>1. CASE Browse(r)
  BY <1>1 DEF Browse, O!Arrive
<1>2. CASE Protected(r)
  BY <1>2, DeviceKnown DEF Protected, O!Arrive
<1>3. QED
  BY <1>1, <1>2

\* Every step of the broker is a step of each part, or leaves it alone.
LEMMA PartsStep ==
    ASSUME IInv, [Next]_vars
    PROVE  [DP!Next]_(DP!vars) /\ [OP!Next]_(OP!vars)
<1> DEFINE Goal == [D!Next]_(D!vars) /\ [O!Next]_(O!vars)
<1> SUFFICES Goal
  BY SameDevices, SameSessions
<1> USE DEF D!vars, D!history, O!vars, O!tables, O!history, authVars,
            sessionVars
<1>1. CASE Authenticate
  BY <1>1 DEF Authenticate
<1>2. CASE Tick
  BY <1>2 DEF Tick, D!Next, O!Next
<1>3. ASSUME NEW r \in Slots, NEW j \in JWTs, Admit(r, j) PROVE Goal
  BY <1>3 DEF Admit
<1>4. ASSUME NEW r \in Slots, Leave(r) PROVE Goal
  BY <1>4 DEF Leave
<1>5. ASSUME NEW r \in Slots, NEW s \in Sessions, NEW p \in Providers,
             NEW then \in 0 .. clock, CreateSession(r, s, p, then)
      PROVE  Goal
  <2>1. O!Next
    BY <1>5, DeviceKnown DEF CreateSession, O!Next
  <2>2. UNCHANGED clock
    BY <1>5 DEF CreateSession, O!CreateSession
  <2>3. QED
    BY <1>5, <2>1, <2>2 DEF CreateSession
<1>6. ASSUME NEW r \in Slots, Browse(r) \/ Protected(r) PROVE Goal
  <2>1. O!Next /\ UNCHANGED clock
    BY <1>6, ArriveCases, SessionClock DEF O!Next
  <2>2. QED
    BY <1>6, <2>1 DEF Browse, Protected
<1>7. ASSUME NEW r \in Slots, Proceed(r) PROVE Goal
  <2>1. O!Next /\ UNCHANGED clock
    BY <1>7, SessionClock DEF Proceed, O!Next
  <2>2. QED
    BY <1>7, <2>1 DEF Proceed
<1>8. CASE UNCHANGED vars
  BY <1>8 DEF vars
<1> HIDE DEF Goal
<1>9. QED
  BY <1>1, <1>2, <1>3, <1>4, <1>5, <1>6, <1>7, <1>8 DEF Next

-----------------------------------------------------------------------------
(* The steps of the invariant.                                               *)

LEMMA IInvInit == Init => IInv
<1> SUFFICES ASSUME Init PROVE IInv
  OBVIOUS
<1>1. DP!IInv /\ DP!NamesRegistered
  BY DP!IInvInit, DP!NamesInit, DTimes, DNone, SameDevices DEF Init
<1>2. OP!IInv /\ OP!CancelsOwn
  BY OP!IInvInit, OP!CancelsInit, OTTL, OClock, ONone, SameSessions DEF Init
<1>3. \A r \in Slots : sessionRequests[r] = O!Idle /\ admitted[r] = NotAdmitted
  BY DEF Init, O!Init
<1>4. NotAdmitted \in Admission
  BY DEF NotAdmitted, Admission, D!NoJWT, D!JWT
<1>5. TypeOK /\ AdmissionsOK
  BY <1>3, <1>4 DEF Init, TypeOK, AdmissionsOK, O!Idle
<1>6. SessionsOfRegistered
  BY DEF Init, O!Init, O!NoRow, O!Exists, SessionsOfRegistered
<1>7. QED
  BY <1>1, <1>2, <1>5, <1>6 DEF IInv

LEMMA PartsKeepInv ==
    ASSUME IInv, [Next]_vars
    PROVE  DP!IInv' /\ DP!NamesRegistered' /\ OP!IInv' /\ OP!CancelsOwn'
<1>1. [DP!Next]_(DP!vars) /\ [OP!Next]_(OP!vars)
  BY PartsStep
<1>2. DP!IInv' /\ DP!NamesRegistered'
  BY <1>1, DP!IInvStep, DP!NamesStep, DTimes, DNone DEF IInv
<1>3. OP!IInv' /\ OP!CancelsOwn'
  BY <1>1, OP!IInvStep, OP!CancelsStep, OTTL, OClock, ONone DEF IInv
<1>4. QED
  BY <1>2, <1>3

\* A JWT that was issued stays, and so does what it vouches for.
LEMMA VouchedStays ==
    ASSUME IInv, [Next]_vars, NEW a, Vouched(a)
    PROVE  Vouched(a)'
<1>1. PICK j \in JWTs : a.jwt = jwts[j] /\ jwts[j].device # None
  BY DEF Vouched
<1>2. jwts'[j] = jwts[j]
  BY <1>1, PartsStep, DP!JWTChange, DTimes, DNone DEF IInv, DP!NoJWT
<1>3. QED
  BY <1>1, <1>2 DEF Vouched

\* The step of one slot; its admission was given, kept or taken back.
LEMMA SlotStep ==
    ASSUME IInv, [Next]_vars, NEW r \in Slots,
           \A x \in Slots \ {r} : /\ admitted'[x] = admitted[x]
                                  /\ sessionRequests'[x] = sessionRequests[x],
           admitted' \in [Slots -> Admission],
           admitted'[r] = NotAdmitted \/ Vouched(admitted'[r]),
           sessionRequests'[r].device \in {None, admitted'[r].jwt.device},
           sessionRequests'[r].pc = "idle" => sessionRequests'[r].device = None
    PROVE  TypeOK' /\ AdmissionsOK'
<1>1. TypeOK /\ AdmissionsOK
  BY DEF IInv
<1>2. TypeOK'
  BY <1>1 DEF TypeOK, DeviceOf
<1>3. ASSUME NEW x \in Slots
      PROVE  /\ admitted'[x] = NotAdmitted \/ Vouched(admitted'[x])
             /\ sessionRequests'[x].pc = "idle" =>
                    sessionRequests'[x].device = None
  BY <1>1 DEF AdmissionsOK
<1>4. \A a : Vouched(a) => /\ a.at < a.jwt.issued + AccessTTL
                           /\ \E j \in JWTs : a.jwt = jwts'[j] /\ jwts'[j].device # None
  BY VouchedStays DEF Vouched
<1>5. NotAdmitted' = NotAdmitted
  BY DEF NotAdmitted, D!NoJWT
<1>6. QED
  BY <1>2, <1>3, <1>4, <1>5 DEF AdmissionsOK, Vouched

LEMMA QuietSlots ==
    ASSUME IInv, [Next]_vars, UNCHANGED <<admitted, sessionRequests>>
    PROVE  TypeOK' /\ AdmissionsOK'
<1>1. TypeOK /\ AdmissionsOK
  BY DEF IInv
<1>2. TypeOK'
  BY <1>1 DEF TypeOK, DeviceOf
<1>3. \A a : Vouched(a) => /\ a.at < a.jwt.issued + AccessTTL
                           /\ \E j \in JWTs : a.jwt = jwts'[j] /\ jwts'[j].device # None
  BY VouchedStays DEF Vouched
<1>4. NotAdmitted' = NotAdmitted
  BY DEF NotAdmitted, D!NoJWT
<1>5. QED
  BY <1>1, <1>2, <1>3, <1>4 DEF AdmissionsOK, Vouched

\* A handler begins in slot r and acts for d.
Begins(r, d) ==
    /\ sessionRequests'[r].pc # "idle"
    /\ sessionRequests'[r].device = d
    /\ \A x \in Slots \ {r} : sessionRequests'[x] = sessionRequests[x]

LEMMA GetBegins ==
    ASSUME IInv, NEW r \in Slots, NEW op, NEW s, NEW d, NEW p,
           O!Get(r, op, s, d, p)
    PROVE  Begins(r, d)
<1>1. sessionRequests \in [Slots -> OP!Request]
  BY DEF IInv, OP!IInv, OP!TypeOK
<1>2. QED
  BY <1>1 DEF O!Get, Begins

LEMMA LockBegins ==
    ASSUME IInv, NEW r \in Slots, NEW s, NEW d, O!RedeemLock(r, s, d)
    PROVE  Begins(r, d)
<1>1. sessionRequests \in [Slots -> OP!Request]
  BY DEF IInv, OP!IInv, OP!TypeOK
<1>2. QED
  BY <1>1 DEF O!RedeemLock, O!Locked, O!Idle, Begins

LEMMA AdmissionsStep ==
    ASSUME IInv, [Next]_vars
    PROVE  TypeOK' /\ AdmissionsOK'
<1> DEFINE Goal == TypeOK' /\ AdmissionsOK'
<1> SUFFICES Goal
  OBVIOUS
<1>0. /\ admitted \in [Slots -> Admission]
      /\ \A r \in Slots : sessionRequests[r].device \in {None, DeviceOf(r)}
      /\ sessionRequests \in [Slots -> OP!Request]
      /\ jwts \in [JWTs -> DP!JWT]
      /\ clock \in Nat
      /\ NotAdmitted \in Admission
      /\ NotAdmitted.jwt.device = None
  BY DEF IInv, TypeOK, OP!IInv, OP!TypeOK, DP!IInv, DP!TypeOK, NotAdmitted,
         Admission, D!NoJWT, D!JWT
<1>1. CASE Authenticate \/ Tick \/ UNCHANGED vars
  BY <1>1, QuietSlots DEF Authenticate, Tick, O!Tick, vars, sessionVars
<1>2. ASSUME NEW r \in Slots, NEW j \in JWTs, Admit(r, j) PROVE Goal
  <2>1. [jwt |-> jwts[j], at |-> clock] \in Admission
    BY <1>0 DEF Admission, D!JWT, DP!JWT
  <2>2. Vouched([jwt |-> jwts[j], at |-> clock])
    BY <1>2 DEF Admit, D!Valid, Vouched
  <2>3. sessionRequests[r].device = None
    BY <1>2, <1>0 DEF Admit, Free, DeviceOf
  <2>4. QED
    BY <1>0, <1>2, <2>1, <2>2, <2>3, SlotStep DEF Admit, sessionVars
<1>3. ASSUME NEW r \in Slots, UNCHANGED sessionRequests,
             sessionRequests[r].pc = "idle",
             admitted' = [admitted EXCEPT ![r] = NotAdmitted]
      PROVE  Goal
  <2>1. sessionRequests[r].device = None
    BY <1>3 DEF IInv, AdmissionsOK
  <2>2. QED
    BY <1>0, <1>3, <2>1, SlotStep
<1>4. ASSUME NEW r \in Slots, Leave(r) PROVE Goal
  BY <1>3, <1>4 DEF Leave, sessionVars
<1>5. ASSUME NEW r \in Slots, NEW s \in Sessions, NEW p \in Providers,
             NEW then \in 0 .. clock, CreateSession(r, s, p, then)
      PROVE  Goal
  BY <1>3, <1>5 DEF CreateSession, O!CreateSession
<1>6. ASSUME NEW r \in Slots, UNCHANGED admitted,
             NEW d \in {None, DeviceOf(r)}, Begins(r, d)
      PROVE  Goal
  <2>1. admitted[r] = NotAdmitted \/ Vouched(admitted[r])
    BY DEF IInv, AdmissionsOK
  <2>2. QED
    BY <1>0, <1>6, <2>1, SlotStep DEF DeviceOf, Begins
<1>7. ASSUME NEW r \in Slots, Browse(r) PROVE Goal
  <2>1. Begins(r, None)
    BY <1>7, GetBegins DEF Browse, O!StartOAuth, O!CallbackOAuth
  <2>2. QED
    BY <1>6, <1>7, <2>1 DEF Browse
<1>8. ASSUME NEW r \in Slots, Protected(r) PROVE Goal
  <2>1. Begins(r, DeviceOf(r))
    BY <1>8, GetBegins, LockBegins
       DEF Protected, O!GetStatus, O!CancelSession
  <2>2. QED
    BY <1>6, <1>8, <2>1 DEF Protected
<1>9. ASSUME NEW r \in Slots, Proceed(r) PROVE Goal
  <2>1. /\ OP!Kept(sessionRequests[r], sessionRequests'[r])
        /\ \A x \in Slots \ {r} : sessionRequests'[x] = sessionRequests[x]
    BY <1>9, SameSessions, OP!SlotKeeps, OTTL, OClock, ONone DEF Proceed, IInv
  <2>2. admitted[r] = NotAdmitted \/ Vouched(admitted[r])
    BY DEF IInv, AdmissionsOK
  <2>3. CASE sessionRequests'[r].pc = "idle"
    <3>1. sessionRequests'[r].device = None
      BY <2>1, <2>3 DEF OP!Kept, OP!Idle
    <3>2. QED
      BY <1>0, <1>9, <2>1, <2>3, <3>1, SlotStep DEF Proceed
  <2>4. CASE sessionRequests'[r].pc # "idle"
    <3>1. sessionRequests'[r].device = sessionRequests[r].device
      BY <2>1, <2>4 DEF OP!Kept, OP!Idle
    <3>2. QED
      BY <1>0, <1>9, <2>1, <2>2, <2>4, <3>1, SlotStep DEF Proceed, DeviceOf
  <2>5. QED
    BY <2>3, <2>4
<1> HIDE DEF Goal
<1>10. QED
  BY <1>1, <1>2, <1>4, <1>5, <1>7, <1>8, <1>9 DEF Next

LEMMA RegisteredStep ==
    ASSUME IInv, [Next]_vars
    PROVE  SessionsOfRegistered'
<1> DEFINE Known(s) == sessions'[s].status # "absent" =>
                           devices'[sessions'[s].device].key # None
<1>1. \A d \in Devices : devices[d].key # None => devices'[d].key # None
  BY PartsStep, DP!RegisteredStays, DTimes, DNone
     DEF IInv, DP!IsRegistered
<1>2. ASSUME NEW s \in Sessions, O!Exists(s) PROVE Known(s)
  <2>1. sessions'[s].device = sessions[s].device
    BY <1>2, PartsStep, OP!RowKeeps, OTTL, OClock, ONone
       DEF IInv, O!Exists, OP!Exists
  <2>2. /\ sessions[s].device \in Devices
        /\ devices[sessions[s].device].key # None
    BY <1>2 DEF IInv, OP!IInv, OP!RowsOK, OP!RowOK, O!Exists,
                SessionsOfRegistered
  <2>3. QED
    BY <1>1, <2>1, <2>2
<1>3. ASSUME NEW r \in Slots, NEW u \in Sessions, NEW p \in Providers,
             NEW then \in 0 .. clock, CreateSession(r, u, p, then),
             NEW s \in Sessions
      PROVE  Known(s)
  <2>1. sessions \in [Sessions -> OP!Row]
    BY DEF IInv, OP!IInv, OP!TypeOK
  <2>2. CASE s = u
    BY <1>1, <1>3, <2>1, <2>2, DeviceKnown DEF CreateSession, O!CreateSession
  <2>3. CASE s # u
    <3>1. sessions'[s] = sessions[s]
      BY <1>3, <2>1, <2>3 DEF CreateSession, O!CreateSession
    <3>2. QED
      BY <1>2, <3>1 DEF O!Exists
  <2>4. QED
    BY <2>2, <2>3
<1>4. ASSUME NEW s \in Sessions, ~ O!Exists(s), NEW r \in Slots,
             O!Arrive(r) \/ O!Serve(r) \/ O!Abort(r)
      PROVE  sessions'[s].status = "absent"
  BY <1>4, SameSessions, OP!NoBirth, OTTL, OClock, ONone
     DEF IInv, O!Exists, OP!Exists
<1>5. ASSUME NEW s \in Sessions, ~ O!Exists(s), UNCHANGED sessions
      PROVE  sessions'[s].status = "absent"
  BY <1>5 DEF O!Exists
<1>6. ASSUME NEW s \in Sessions PROVE Known(s)
  <2>1. CASE \E r \in Slots : Browse(r) \/ Protected(r) \/ Proceed(r)
    BY <1>2, <1>4, <2>1, ArriveCases DEF Proceed
  <2>2. CASE \/ Authenticate \/ Tick \/ UNCHANGED vars
             \/ \E r \in Slots : Leave(r) \/ \E j \in JWTs : Admit(r, j)
    BY <1>2, <1>5, <2>2
       DEF Authenticate, Tick, O!Tick, vars, sessionVars, Leave, Admit
  <2>3. QED
    BY <1>3, <2>1, <2>2 DEF Next
<1>7. QED
  BY <1>6 DEF SessionsOfRegistered, O!Exists

LEMMA IInvStep == IInv /\ [Next]_vars => IInv'
BY PartsKeepInv, AdmissionsStep, RegisteredStep DEF IInv

-----------------------------------------------------------------------------
(* The theorems.                                                             *)

\* No interleaving of the two groups of routes breaks the inductive invariant.
THEOREM Invariance == Spec => []IInv
BY IInvInit, IInvStep, PTL DEF Spec

\* Each slot keeps its admission while its handler acts for a device.
THEOREM TypeCorrect == Spec => []TypeOK
<1>1. IInv => TypeOK
  BY DEF IInv
<1>2. QED
  BY <1>1, Invariance, PTL

\* No session belongs to a device that is not in the table devices.
THEOREM SessionsBelongToDevices == Spec => []SessionsOfRegistered
<1>1. IInv => SessionsOfRegistered
  BY DEF IInv
<1>2. QED
  BY <1>1, Invariance, PTL

\* The broker seen as each of its parts alone, so that the theorems about these
\* hold of it too.
PartsKept == D!Spec /\ O!Spec

LEMMA PartsAreKept == Spec => PartsKept
<1>1. Init => D!Init /\ O!Init
  BY DEF Init
<1>2. IInv /\ [Next]_vars => [D!Next]_(D!vars) /\ [O!Next]_(O!vars)
  BY PartsStep, SameDevices, SameSessions
<1>3. QED
  BY <1>1, <1>2, Invariance, PTL DEF Spec, PartsKept, D!Spec, O!Spec

\* The two specifications, as the modules of the proofs have them.
LEMMA PartsOfProofs == PartsKept => DP!Spec /\ OP!Spec
<1>1. D!Init => DP!Init
  BY SameDevices
<1>2. O!Init => OP!Init
  BY SameSessions
<1>3. [D!Next]_(D!vars) => [DP!Next]_(DP!vars)
  BY SameDevices
<1>4. [O!Next]_(O!vars) => [OP!Next]_(OP!vars)
  BY SameSessions
<1>5. QED
  BY <1>1, <1>2, <1>3, <1>4, PTL
     DEF PartsKept, D!Spec, O!Spec, DP!Spec, OP!Spec

\* What was proved of the sessions by themselves holds of the broker: while
\* devices are registered, disabled and authenticated, a token set is in one
\* place, goes to the device and the provider it was issued for, and is redeemed
\* once, and a session that has settled stays.
THEOREM SessionsKeepTheirPromises ==
    Spec => /\ []O!SingleCustody
            /\ []O!Provenance
            /\ []O!SecretsAtRest
            /\ []O!UsedIsStored
            /\ O!RedeemedOnce
            /\ O!SettledStays
<1>1. OP!Spec => /\ []OP!SingleCustody
                 /\ []OP!Provenance
                 /\ []OP!SecretsAtRest
                 /\ []OP!UsedIsStored
                 /\ OP!RedeemedOnce
                 /\ OP!SettledStays
  BY OTTL, OClock, ONone, OP!CustodyIsSingle, OP!ProvenanceHolds,
     OP!SecretsAreWiped, OP!UsedStores, OP!NoSecondRedemption,
     OP!SettledSessionsStay
<1>2. OP!SingleCustody => O!SingleCustody
  BY DEF O!SingleCustody, OP!SingleCustody, O!Carries, OP!Carries
<1>3. OP!Provenance => O!Provenance
  BY DEF O!Provenance, OP!Provenance, O!Owner, OP!Owner
<1>4. OP!SecretsAtRest => O!SecretsAtRest
  BY DEF O!SecretsAtRest, OP!SecretsAtRest, O!Open, OP!Open
<1>5. OP!UsedIsStored => O!UsedIsStored
  BY DEF O!UsedIsStored, OP!UsedIsStored
<1>6. OP!RedeemedOnce => O!RedeemedOnce
  <2>1. \A t : O!Claimed(t) <=> OP!Claimed(t)
    BY DEF O!Claimed, OP!Claimed
  <2> DEFINE A(claimed(_)) ==
                \A r \in Slots :
                   /\ sessionRequests[r].pc = "redeeming"
                   /\ sessionRequests'[r].pc = "redeemed"
                   => ~ claimed(sessionRequests[r].token)
  <2>2. [A(OP!Claimed)]_(OP!vars) => [A(O!Claimed)]_(O!vars)
    BY <2>1, SameSessions
  <2>3. QED
    BY <2>2, PTL DEF O!RedeemedOnce, OP!RedeemedOnce
<1>7. OP!SettledStays => O!SettledStays
  <2>1. \A s \in Sessions : OP!SettledStep(s) <=> O!SettledStep(s)
    BY DEF O!SettledStep, OP!SettledStep, O!Outdated, OP!Outdated,
           O!InFlight, OP!InFlight, O!Settled, OP!Settled
  <2>2. [\A s \in Sessions : OP!SettledStep(s)]_(OP!vars) =>
            [\A s \in Sessions : O!SettledStep(s)]_(O!vars)
    BY <2>1, SameSessions
  <2>3. QED
    BY <2>2, PTL DEF O!SettledStays, OP!SettledStays
<1>8. QED
  BY <1>1, <1>2, <1>3, <1>4, <1>5, <1>6, <1>7, PartsAreKept, PartsOfProofs, PTL

\* So does what was proved of the devices: while their sessions run, a device that
\* was disabled keeps its access for one lifetime of a JWT at most.
THEOREM DevicesAreCutOff == Spec => []D!DisabledCutOff
<1>1. DP!Spec => []DP!DisabledCutOff
  BY DTimes, DNone, DP!DisabledDevicesAreCutOff
<1>2. DP!DisabledCutOff => D!DisabledCutOff
  BY DEF D!DisabledCutOff, DP!DisabledCutOff, D!Valid, DP!Valid
<1>3. QED
  BY <1>1, <1>2, PartsAreKept, PartsOfProofs, PTL

\* An admission that was given to a device has a JWT that was read before that
\* device was disabled.
LEMMA VouchedInTime ==
    ASSUME IInv, NEW a \in Admission, Vouched(a)
    PROVE  InTime(a)
<1>1. PICK j \in JWTs : a.jwt = jwts[j] /\ jwts[j].device # None
  BY DEF Vouched
<1>2. /\ jwts[j] \in DP!JWT
      /\ devices[jwts[j].device].disabled =>
            jwts[j].read <= disabledAt[jwts[j].device]
      /\ disabledAt \in [Devices -> Nat]
  BY <1>1 DEF IInv, DP!IInv, DP!TypeOK, DP!JWTsOK
<1>3. a.at \in Nat /\ a.at < a.jwt.issued + AccessTTL
  BY DEF Vouched, Admission
<1>4. /\ a.jwt.device \in Devices
      /\ a.jwt.read \in Nat /\ a.jwt.issued \in Nat /\ AccessTTL \in Nat
      /\ disabledAt[a.jwt.device] \in Nat
  BY <1>1, <1>2, BrokerAssumption DEF DP!JWT
<1>5. QED
  BY <1>1, <1>2, <1>3, <1>4 DEF InTime

\* A token set goes to a request that came with a JWT of the device which owns
\* the session, and to a disabled device only within one lifetime of a JWT.
THEOREM TokensAreHandedOutInTime == Spec => HandedOutInTime
<1> DEFINE Handed(c) == \E r \in Slots :
                           /\ sessionRequests[r].pc = "redeeming"
                           /\ DeviceOf(r) = c.device
                           /\ InTime(admitted[r])
<1>1. ASSUME IInv, [Next]_vars, NEW c \in claims' \ claims
      PROVE  Handed(c)
  <2>1. PICK r \in Slots : OP!RedeemCommit(r)
    BY <1>1, PartsStep, OP!HistoryChange, OTTL, OClock, ONone
  <2>2. /\ sessionRequests[r].pc = "redeeming"
        /\ c.device = sessionRequests[r].device
    BY <1>1, <2>1 DEF OP!RedeemCommit
  <2>3. sessionRequests[r].device # None
    BY <1>1, <2>2, ONone
       DEF IInv, OP!IInv, OP!RequestsOK, OP!RequestOK, OP!Redeems,
           OP!NoneAssumption
  <2>4. DeviceOf(r) = c.device /\ admitted[r] # NotAdmitted
    BY <1>1, <2>2, <2>3 DEF IInv, TypeOK, DeviceOf, NotAdmitted, D!NoJWT
  <2>5. InTime(admitted[r])
    BY <1>1, <2>4, VouchedInTime DEF IInv, AdmissionsOK, TypeOK
  <2>6. QED
    BY <2>2, <2>4, <2>5
<1>2. IInv /\ [Next]_vars => [\A c \in claims' \ claims : Handed(c)]_vars
  BY <1>1
<1>3. QED
  BY <1>2, Invariance, PTL DEF Spec, HandedOutInTime

\* A session is ended only by a request with a JWT of its device.
THEOREM OnlyBearersEndSessions == Spec => BearerOnly
<1> DEFINE Bearer(s) == \E r \in Slots :
                           /\ sessionRequests[r].session = s
                           /\ sessionRequests[r].pc \in {"update", "redeeming"}
                           /\ DeviceOf(r) = sessions[s].device
<1>1. ASSUME IInv, NEW r \in Slots, NEW s \in Sessions,
             sessionRequests[r].session = s,
             sessionRequests[r].pc \in {"update", "redeeming"},
             sessionRequests[r].device = sessions[s].device
      PROVE  Bearer(s)
  <2>1. sessions[s].device # None
    BY <1>1, ONone DEF IInv, OP!IInv, OP!RowsOK, OP!RowOK, OP!Exists,
                       OP!NoneAssumption
  <2>2. QED
    BY <1>1, <2>1 DEF IInv, TypeOK
<1>2. ASSUME IInv, [Next]_vars, NEW s \in Sessions, Ends(s)
      PROVE  Bearer(s)
  <2>1. sessions[s] \in OP!Row
    BY <1>2 DEF IInv, OP!IInv, OP!TypeOK
  <2>2. PICK r \in Slots :
           OP!Expires(r, s) \/ OP!Updates(r, s) \/ OP!Uses(r, s)
    BY <1>2, PartsStep, OP!RowChange, OTTL, OClock, ONone
       DEF IInv, Ends, OP!Creates
  <2>3. CASE OP!Expires(r, s)
    BY <1>2, <2>1, <2>3 DEF OP!Expires, OP!Ended, OP!Row, Ends
  <2>4. CASE OP!Updates(r, s)
    <3>1. sessionRequests[r].goal \in {"cancelled", "used"}
      BY <1>2, <2>1, <2>4 DEF OP!Updates, OP!Marked, OP!Row, Ends
    <3>2. sessionRequests[r].op = "cancel"
      BY <1>2, <2>4, <3>1
         DEF IInv, OP!IInv, OP!RequestsOK, OP!RequestOK, OP!Cancels,
             OP!Marks, OP!Goals, OP!Updates
    <3>3. QED
      BY <1>1, <1>2, <2>4, <3>2
         DEF IInv, OP!CancelsOwn, OP!CancelOwn, OP!Updates
  <2>5. CASE OP!Uses(r, s)
    BY <1>1, <1>2, <2>5 DEF IInv, OP!IInv, OP!LocksOK, OP!Uses
  <2>6. QED
    BY <2>2, <2>3, <2>4, <2>5
<1>3. IInv /\ [Next]_vars => [\A s \in Sessions : Ends(s) => Bearer(s)]_vars
  BY <1>2
<1>4. QED
  BY <1>3, Invariance, PTL DEF Spec, BearerOnly

\* No request of a device that is shut out gets past requireJWT.
LEMMA ShutOutStays ==
    ASSUME IInv, [Next]_vars, NEW d \in Devices, ShutOut(d),
           devices'[d].disabled
    PROVE  ShutOut(d)'
<1>1. DP!Barred(d)
  BY DEF ShutOut, DP!Barred, D!Valid, DP!Valid
<1>2. DP!Barred(d)'
  BY <1>1, PartsStep, DP!BarredStays, DTimes, DNone DEF IInv
<1> DEFINE Goal == \A x \in Slots : admitted'[x].jwt.device # d
<1>3. /\ admitted \in [Slots -> Admission]
      /\ NotAdmitted.jwt.device # d
      /\ \A x \in Slots : admitted[x].jwt.device # d
  BY BrokerAssumption DEF IInv, TypeOK, NotAdmitted, D!NoJWT, ShutOut, DeviceOf
<1>4. ASSUME NEW r \in Slots, NEW j \in JWTs, Admit(r, j) PROVE Goal
  <2>1. jwts[j].device # d
    BY <1>4 DEF Admit, ShutOut
  <2>2. QED
    BY <1>3, <1>4, <2>1 DEF Admit
<1>5. ASSUME NEW r \in Slots,
             admitted' = [admitted EXCEPT ![r] = NotAdmitted]
      PROVE  Goal
  BY <1>3, <1>5
<1>6. ASSUME UNCHANGED admitted PROVE Goal
  BY <1>3, <1>6
<1>7. Goal
  BY <1>4, <1>5, <1>6 DEF Next, vars, Authenticate, Tick, CreateSession, Leave,
                          Browse, Protected, Proceed
<1>8. QED
  BY <1>2, <1>7 DEF ShutOut, DeviceOf, DP!Barred, D!Valid, DP!Valid

\* A session is created with the device of an admission.
LEMMA CreatedByBearer ==
    ASSUME IInv, [Next]_vars, NEW s \in Sessions, OP!Creates(s)
    PROVE  \E r \in Slots : sessions'[s].device = DeviceOf(r)
<1>1. sessions \in [Sessions -> OP!Row]
  BY DEF IInv, OP!IInv, OP!TypeOK
<1>2. sessions'[s] # sessions[s]
  BY DEF OP!Creates, OP!Exists
<1>3. ASSUME NEW r \in Slots, O!Arrive(r) \/ O!Serve(r) \/ O!Abort(r)
      PROVE  FALSE
  BY <1>2, <1>3, SameSessions, OP!NoBirth, OTTL, OClock, ONone
     DEF IInv, OP!Creates
<1>4. PICK r \in Slots, u \in Sessions, p \in Providers, then \in 0 .. clock :
         CreateSession(r, u, p, then)
  BY <1>2, <1>3, ArriveCases
     DEF Next, vars, sessionVars, Authenticate, Tick, O!Tick, Admit, Leave,
         Proceed
<1>5. s = u
  BY <1>1, <1>2, <1>4 DEF CreateSession, O!CreateSession
<1>6. QED
  BY <1>1, <1>4, <1>5 DEF CreateSession, O!CreateSession

\* Whoever creates, cancels or redeems a session was let in with a JWT of the
\* device that owns it.
LEMMA ActsAdmitted ==
    ASSUME IInv, [Next]_vars, NEW d \in Devices, NEW s \in Sessions,
           ActsOn(d, s)
    PROVE  \E r \in Slots : DeviceOf(r) = d
<1>1. sessions[s] \in OP!Row /\ d # None
  BY BrokerAssumption DEF IInv, OP!IInv, OP!TypeOK
<1>2. CASE OP!Creates(s)
  BY <1>2, CreatedByBearer DEF ActsOn
<1>3. ASSUME NEW r \in Slots, OP!Expires(r, s) PROVE FALSE
  BY <1>1, <1>3 DEF OP!Expires, OP!Ended, OP!Row, ActsOn
<1>4. ASSUME NEW r \in Slots, sessionRequests[r].device = sessions[s].device,
             sessions'[s].device = sessions[s].device
      PROVE  DeviceOf(r) = d
  BY <1>1, <1>4 DEF IInv, TypeOK, ActsOn
<1>5. ASSUME NEW r \in Slots, OP!Updates(r, s) PROVE DeviceOf(r) = d
  <2>1. /\ sessions'[s].status = sessionRequests[r].goal
        /\ sessions'[s].device = sessions[s].device
    BY <1>1, <1>5 DEF OP!Updates, OP!Marked, OP!Row
  <2>2. sessionRequests[r].op = "cancel"
    BY <1>5, <2>1
       DEF IInv, OP!IInv, OP!RequestsOK, OP!RequestOK, OP!Cancels, OP!Marks,
           OP!Goals, OP!Updates, ActsOn
  <2>3. sessionRequests[r].device = sessions[s].device
    BY <1>5, <2>2 DEF IInv, OP!CancelsOwn, OP!CancelOwn, OP!Updates
  <2>4. QED
    BY <1>4, <2>1, <2>3
<1>6. ASSUME NEW r \in Slots, OP!Uses(r, s) PROVE DeviceOf(r) = d
  <2>1. sessions'[s].device = sessions[s].device
    BY <1>1, <1>6 DEF OP!Uses, OP!Ended, OP!Row
  <2>2. sessionRequests[r].device = sessions[s].device
    BY <1>6 DEF IInv, OP!IInv, OP!LocksOK, OP!Uses
  <2>3. QED
    BY <1>4, <2>1, <2>2
<1>7. QED
  BY <1>2, <1>3, <1>5, <1>6, PartsStep, OP!RowChange, OTTL, OClock, ONone
     DEF IInv, ActsOn

\* A disabled device whose JWTs have expired, and that has nothing under way,
\* gets neither a JWT nor past requireJWT, and does nothing to a session, until it
\* is registered again.
THEOREM DisabledDevicesStayOut == Spec => DisabledStaysOut
<1>1. ASSUME IInv, [Next]_vars, NEW d \in Devices, ShutOut(d),
             devices'[d].disabled
      PROVE  /\ ShutOut(d)'
             /\ \A s \in Sessions : ~ ActsOn(d, s)
  BY <1>1, ShutOutStays, ActsAdmitted DEF ShutOut
<1>2. IInv /\ [Next]_vars =>
        [\A d \in Devices :
            ShutOut(d) /\ devices'[d].disabled =>
                /\ ShutOut(d)'
                /\ \A s \in Sessions : ~ ActsOn(d, s)]_vars
  BY <1>1
<1>3. QED
  BY <1>2, Invariance, PTL DEF Spec, DisabledStaysOut
=============================================================================
