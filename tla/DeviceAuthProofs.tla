-------------------------- MODULE DeviceAuthProofs --------------------------
(***************************************************************************)
(* Proofs about DeviceAuth, for every number of devices, keys, nonces,     *)
(* JWTs and requests, and for every choice of the three durations.         *)
(***************************************************************************)
EXTENDS DeviceAuth, TLAPS

-----------------------------------------------------------------------------
(* The inductive invariant. *)

\* What a handler remembers: no time lies in the future; the message in hand
\* names the device; past the signature check its stamp was in the window and
\* its key is the one that was read; that key, and that the device was enabled,
\* were true when they were read.
RequestOK(q) ==
    /\ q.pc # "idle" => q.device \in Devices
    /\ q.read <= clock
    /\ q.pc \in {"verify", "purge", "insert"} =>
          /\ q.msg \in Message
          /\ q.device = q.msg.device
          /\ \/ q.key = registration[q.device].key
             \/ q.read <= registration[q.device].since
    /\ q.pc \in {"purge", "insert"} =>
          /\ q.key = q.msg.key
          /\ q.verified <= clock
          /\ q.verified <= q.msg.stamp + Skew
          /\ q.msg.stamp <= q.verified + Skew
    /\ /\ q.pc \in {"verify", "purge", "insert", "issue"}
       /\ devices[q.device].disabled
       => q.read <= disabledAt[q.device]

RequestsOK == \A r \in Requests : RequestOK(requests[r])

DevicesOK == \A d \in Devices : devices[d].key = registration[d].key

JWTsOK ==
    \A j \in JWTs :
        /\ jwts[j].read <= clock
        /\ jwts[j].device # None /\ devices[jwts[j].device].disabled =>
              jwts[j].read <= disabledAt[jwts[j].device]

\* The row that keeps a granted message from being granted again.
Remembered(m) ==
    \E n \in nonces :
        n.device = m.device /\ n.nonce = m.nonce /\ m.stamp <= n.created + Skew

\* A granted message is remembered until its nonce could have turned 15 minutes
\* old; from then on its stamp is out of the window by NonceTTL - 2 * Skew.
NoncesOK ==
    \A m \in accepted : Remembered(m) \/ m.stamp + NonceTTL < clock + Skew

IInv == TypeOK /\ RequestsOK /\ DevicesOK /\ JWTsOK /\ NoncesOK

-----------------------------------------------------------------------------

LEMMA IInvInit == Init => IInv
BY TimesAssumption, NoneAssumption
   DEF Init, IInv, TypeOK, RequestsOK, RequestOK, DevicesOK, JWTsOK, NoncesOK,
       Idle, NoJWT, NoDevice, Request, DeviceRow, JWT, history

\* A step that writes one request slot and leaves the tables alone.
LEMMA SlotStep ==
    ASSUME IInv, NEW r \in Requests, NEW q \in Request, RequestOK(q),
           requests' = [requests EXCEPT ![r] = q],
           UNCHANGED <<devices, nonces, jwts, clock, history>>
    PROVE  IInv'
<1>1. TypeOK'
  BY DEF IInv, TypeOK, history
<1>2. RequestsOK'
  <2> SUFFICES ASSUME NEW s \in Requests PROVE RequestOK(requests[s])'
    BY DEF RequestsOK
  <2>1. requests'[s] = IF s = r THEN q ELSE requests[s]
    BY DEF IInv, TypeOK
  <2>2. RequestOK(requests[s])
    BY DEF IInv, RequestsOK
  <2>3. QED
    BY <2>1, <2>2 DEF RequestOK, history
<1>3. DevicesOK' /\ JWTsOK' /\ NoncesOK'
  BY DEF IInv, DevicesOK, JWTsOK, NoncesOK, Remembered, history
<1>4. QED
  BY <1>1, <1>2, <1>3 DEF IInv

LEMMA IdleOK == IInv => Idle \in Request /\ RequestOK(Idle)
BY NoneAssumption DEF IInv, TypeOK, Idle, Request, RequestOK

LEMMA RegisterStep ==
    ASSUME IInv, NEW d \in Devices, NEW k \in Keys, RegisterDevice(d, k)
    PROVE  IInv'
<1> USE DEF RegisterDevice, Registered
<1>1. TypeOK'
  BY DEF IInv, TypeOK, DeviceRow
<1>2. RequestsOK'
  <2> SUFFICES ASSUME NEW r \in Requests PROVE RequestOK(requests[r])'
    BY DEF RequestsOK
  <2>1. RequestOK(requests[r]) /\ requests[r] \in Request
    BY DEF IInv, RequestsOK, TypeOK
  <2>2. \A e \in Devices :
           /\ registration'[e] = IF e = d THEN [key |-> k, since |-> clock]
                                          ELSE registration[e]
           /\ devices'[e] = IF e = d THEN [key |-> k, disabled |-> FALSE]
                                     ELSE devices[e]
           /\ e # d => disabledAt'[e] = disabledAt[e]
    BY DEF IInv, TypeOK
  <2>3. QED
    BY <2>1, <2>2 DEF RequestOK, Request
<1>3. DevicesOK'
  BY DEF IInv, TypeOK, DevicesOK
<1>4. JWTsOK'
  BY DEF IInv, TypeOK, JWTsOK, JWT
<1>5. NoncesOK'
  BY DEF IInv, NoncesOK, Remembered
<1>6. QED
  BY <1>1, <1>2, <1>3, <1>4, <1>5 DEF IInv

LEMMA DisableStep ==
    ASSUME IInv, NEW d \in Devices, Disable(d)
    PROVE  IInv'
<1> USE DEF Disable
<1>0. \A e \in Devices :
         /\ devices'[e].key = devices[e].key
         /\ e # d => /\ devices'[e] = devices[e]
                     /\ disabledAt'[e] = disabledAt[e]
         /\ disabledAt'[d] = clock
  BY DEF IInv, TypeOK, DeviceRow
<1>1. TypeOK'
  BY DEF IInv, TypeOK, DeviceRow
<1>2. RequestsOK'
  <2> SUFFICES ASSUME NEW r \in Requests PROVE RequestOK(requests[r])'
    BY DEF RequestsOK
  <2>1. RequestOK(requests[r]) /\ requests[r] \in Request
    BY DEF IInv, RequestsOK, TypeOK
  <2>2. QED
    BY <1>0, <2>1 DEF RequestOK, Request
<1>3. DevicesOK'
  BY <1>0 DEF IInv, DevicesOK
<1>4. JWTsOK'
  BY <1>0 DEF IInv, TypeOK, JWTsOK, JWT
<1>5. NoncesOK'
  BY DEF IInv, NoncesOK, Remembered
<1>6. QED
  BY <1>1, <1>2, <1>3, <1>4, <1>5 DEF IInv

LEMMA IssueTokenStep ==
    ASSUME IInv, NEW r \in Requests, NEW m \in Message, IssueToken(r, m)
    PROVE  IInv'
<1> USE DEF IssueToken
<1> DEFINE q == [pc |-> "verify", device |-> m.device, msg |-> m,
                 key |-> devices[m.device].key, read |-> clock, verified |-> 0]
<1>1. m.device \in Devices /\ devices[m.device] \in DeviceRow
  BY DEF Message, IInv, TypeOK
<1>2. q \in Request
  BY <1>1 DEF IInv, TypeOK, Request, DeviceRow
<1>3. RequestOK(q)
  BY <1>1 DEF IInv, TypeOK, DevicesOK, RequestOK, Enabled
<1>4. QED
  BY <1>2, <1>3, SlotStep

LEMMA VerifyStep ==
    ASSUME IInv, NEW r \in Requests, VerifyDeviceSignature(r)
    PROVE  IInv'
<1> DEFINE old == requests[r]
           q == [old EXCEPT !.pc = "purge", !.verified = clock]
<1>1. old \in Request /\ RequestOK(old) /\ old.pc = "verify" /\ clock \in Nat
  BY DEF IInv, TypeOK, RequestsOK, VerifyDeviceSignature
<1>2. CASE Finish(r)
  BY <1>2, IdleOK, SlotStep DEF Finish, VerifyDeviceSignature
<1>3. CASE ~ Finish(r)
  <2>1. /\ InWindow(old.msg.stamp) /\ old.msg.key = old.key
        /\ requests' = [requests EXCEPT ![r] = q]
        /\ UNCHANGED <<devices, nonces, jwts, clock, history>>
    BY <1>3 DEF VerifyDeviceSignature
  <2>2. q \in Request
    BY <1>1 DEF Request
  <2>3. RequestOK(q)
    BY <1>1, <2>1 DEF Request, RequestOK, InWindow
  <2>4. QED
    BY <2>1, <2>2, <2>3, SlotStep
<1>4. QED
  BY <1>2, <1>3

LEMMA PurgeStep ==
    ASSUME IInv, NEW r \in Requests, PurgeNonces(r)
    PROVE  IInv'
<1> USE DEF PurgeNonces
<1>1. requests[r] \in Request /\ RequestOK(requests[r])
  BY DEF IInv, TypeOK, RequestsOK
<1>2. TypeOK'
  BY <1>1 DEF IInv, TypeOK, Request, history
<1>3. RequestsOK'
  <2> SUFFICES ASSUME NEW s \in Requests PROVE RequestOK(requests[s])'
    BY DEF RequestsOK
  <2>1. RequestOK(requests[s]) /\ requests[s] \in Request
    BY DEF IInv, RequestsOK, TypeOK
  <2>2. requests'[s] = IF s = r THEN [requests[r] EXCEPT !.pc = "insert"]
                                ELSE requests[s]
    BY DEF IInv, TypeOK
  <2>3. QED
    BY <2>1, <2>2 DEF RequestOK, Request, history
<1>4. DevicesOK' /\ JWTsOK'
  BY DEF IInv, DevicesOK, JWTsOK, history
<1>5. NoncesOK'
  <2> SUFFICES ASSUME NEW m \in accepted, Remembered(m),
                      ~ (m.stamp + NonceTTL < clock + Skew)
               PROVE  Remembered(m)'
    BY DEF IInv, NoncesOK, history
  <2>1. PICK n \in nonces : /\ n.device = m.device /\ n.nonce = m.nonce
                            /\ m.stamp <= n.created + Skew
    BY DEF Remembered
  <2>2. n.created \in Nat /\ m.stamp \in Nat /\ clock \in Nat
    BY TimesAssumption DEF IInv, TypeOK, NonceRow, Message
  <2>3. clock <= n.created + NonceTTL
    BY <2>1, <2>2, TimesAssumption
  <2>4. QED
    BY <2>1, <2>3 DEF Remembered
<1>6. QED
  BY <1>2, <1>3, <1>4, <1>5 DEF IInv

LEMMA InsertStep ==
    ASSUME IInv, NEW r \in Requests, InsertNonce(r)
    PROVE  IInv'
<1> DEFINE m == requests[r].msg
           row == [device |-> m.device, nonce |-> m.nonce, created |-> clock]
<1>1. /\ requests[r] \in Request /\ RequestOK(requests[r])
      /\ requests[r].pc = "insert"
  BY DEF IInv, TypeOK, RequestsOK, InsertNonce
<1>2. m \in Message /\ clock \in Nat
  BY <1>1 DEF IInv, TypeOK, RequestOK
<1>3. CASE Finish(r) /\ UNCHANGED <<nonces, accepted>>
  BY <1>3, IdleOK, SlotStep DEF Finish, InsertNonce, history
<1>4. CASE /\ nonces' = nonces \cup {row}
           /\ accepted' = accepted \cup {m}
           /\ requests' = [requests EXCEPT ![r].pc = "issue"]
  <2> USE <1>4 DEF InsertNonce
  <2>1. TypeOK'
    BY <1>1, <1>2 DEF IInv, TypeOK, Request, NonceRow, Message
  <2>2. RequestsOK'
    <3> SUFFICES ASSUME NEW s \in Requests PROVE RequestOK(requests[s])'
      BY DEF RequestsOK
    <3>1. RequestOK(requests[s]) /\ requests[s] \in Request
      BY DEF IInv, RequestsOK, TypeOK
    <3>2. requests'[s] = IF s = r THEN [requests[r] EXCEPT !.pc = "issue"]
                                  ELSE requests[s]
      BY DEF IInv, TypeOK
    <3>3. QED
      BY <1>1, <3>1, <3>2 DEF RequestOK, Request
  <2>3. DevicesOK' /\ JWTsOK'
    BY DEF IInv, DevicesOK, JWTsOK
  <2>4. NoncesOK'
    <3> SUFFICES ASSUME NEW a \in accepted'
                 PROVE  Remembered(a)' \/ a.stamp + NonceTTL < clock + Skew
      BY DEF NoncesOK
    <3>1. CASE a = m
      <4>1. m.stamp \in Nat /\ requests[r].verified \in Nat
        BY <1>1, <1>2, TimesAssumption DEF Message, Request
      <4>2. m.stamp <= row.created + Skew
        BY <1>1, <1>2, <4>1, TimesAssumption DEF RequestOK
      <4>3. row \in nonces'
        OBVIOUS
      <4>4. QED
        BY <3>1, <4>2, <4>3 DEF Remembered
    <3>2. CASE a # m
      BY <3>2 DEF IInv, NoncesOK, Remembered
    <3>3. QED
      BY <3>1, <3>2
  <2>5. QED
    BY <2>1, <2>2, <2>3, <2>4 DEF IInv
<1>5. QED
  BY <1>3, <1>4 DEF InsertNonce

LEMMA RefreshStep ==
    ASSUME IInv, NEW r \in Requests, NEW j \in JWTs, RefreshJWT(r, j)
    PROVE  IInv'
<1> DEFINE q == [Idle EXCEPT !.pc = "authenticated", !.device = jwts[j].device]
<1>1. /\ jwts[j].device \in Devices /\ clock \in Nat
      /\ requests' = [requests EXCEPT ![r] = q]
      /\ UNCHANGED <<devices, nonces, jwts, clock, history>>
  BY DEF IInv, TypeOK, JWT, RefreshJWT, Valid
<1>2. q \in Request
  BY <1>1 DEF Idle, Request
<1>3. RequestOK(q)
  BY <1>1 DEF Idle, RequestOK
<1>4. QED
  BY <1>1, <1>2, <1>3, SlotStep

LEMMA RefreshCheckedStep ==
    ASSUME IInv, NEW r \in Requests, RefreshChecked(r)
    PROVE  IInv'
<1> DEFINE old == requests[r]
           q == [old EXCEPT !.pc = "issue", !.read = clock]
<1>1. /\ old \in Request /\ RequestOK(old) /\ old.pc = "authenticated"
      /\ clock \in Nat
  BY DEF IInv, TypeOK, RequestsOK, RefreshChecked
<1>2. CASE Finish(r)
  BY <1>2, IdleOK, SlotStep DEF Finish, RefreshChecked
<1>3. CASE ~ Finish(r)
  <2>1. /\ ~ devices[old.device].disabled
        /\ requests' = [requests EXCEPT ![r] = q]
        /\ UNCHANGED <<devices, nonces, jwts, clock, history>>
    BY <1>3 DEF RefreshChecked, Enabled
  <2>2. q \in Request
    BY <1>1 DEF Request
  <2>3. RequestOK(q)
    BY <1>1, <2>1 DEF Request, RequestOK
  <2>4. QED
    BY <2>1, <2>2, <2>3, SlotStep
<1>4. QED
  BY <1>2, <1>3

LEMMA IssueJWTStep ==
    ASSUME IInv, NEW r \in Requests, NEW j \in JWTs, IssueJWT(r, j)
    PROVE  IInv'
<1> USE DEF IssueJWT, Finish
<1>1. requests[r] \in Request /\ RequestOK(requests[r])
  BY DEF IInv, TypeOK, RequestsOK
<1>2. TypeOK'
  BY <1>1, IdleOK DEF IInv, TypeOK, Request, JWT, history
<1>3. RequestsOK'
  <2> SUFFICES ASSUME NEW s \in Requests PROVE RequestOK(requests[s])'
    BY DEF RequestsOK
  <2>1. requests'[s] = IF s = r THEN Idle ELSE requests[s]
    BY DEF IInv, TypeOK
  <2>2. RequestOK(requests[s]) /\ RequestOK(Idle)
    BY IdleOK DEF IInv, RequestsOK
  <2>3. QED
    BY <2>1, <2>2 DEF RequestOK, history
<1>4. JWTsOK'
  <2> SUFFICES ASSUME NEW i \in JWTs
               PROVE  /\ jwts'[i].read <= clock
                      /\ jwts'[i].device # None
                            /\ devices[jwts'[i].device].disabled =>
                         jwts'[i].read <= disabledAt[jwts'[i].device]
    BY DEF JWTsOK, history
  <2>1. CASE i = j
    BY <1>1, <2>1 DEF IInv, TypeOK, RequestOK
  <2>2. CASE i # j
    BY <2>2 DEF IInv, TypeOK, JWTsOK
  <2>3. QED
    BY <2>1, <2>2
<1>5. DevicesOK' /\ NoncesOK'
  BY DEF IInv, DevicesOK, NoncesOK, Remembered, history
<1>6. QED
  BY <1>2, <1>3, <1>4, <1>5 DEF IInv

LEMMA AbortStep ==
    ASSUME IInv, NEW r \in Requests, Abort(r)
    PROVE  IInv'
BY IdleOK, SlotStep DEF Abort, Finish

LEMMA TickStep == IInv /\ Tick => IInv'
<1> SUFFICES ASSUME IInv, Tick PROVE IInv'
  OBVIOUS
<1> USE DEF Tick
<1>1. clock \in Nat /\ clock' = clock + 1
  BY DEF IInv, TypeOK
<1>2. TypeOK'
  BY TimesAssumption DEF IInv, TypeOK, history
<1>3. RequestsOK'
  <2> SUFFICES ASSUME NEW r \in Requests PROVE RequestOK(requests[r])'
    BY DEF RequestsOK
  <2>1. RequestOK(requests[r]) /\ requests[r] \in Request
    BY DEF IInv, RequestsOK, TypeOK
  <2>2. QED
    BY <1>1, <2>1 DEF RequestOK, Request, history
<1>4. JWTsOK'
  BY <1>1 DEF IInv, TypeOK, JWT, JWTsOK, history
<1>5. DevicesOK'
  BY DEF IInv, DevicesOK, history
<1>6. NoncesOK'
  <2> SUFFICES ASSUME NEW m \in accepted, m.stamp + NonceTTL < clock + Skew
               PROVE  m.stamp + NonceTTL < clock' + Skew
    BY DEF IInv, NoncesOK, Remembered, history
  <2>1. m.stamp \in Nat
    BY TimesAssumption DEF IInv, TypeOK, Message
  <2>2. QED
    BY <1>1, <2>1, TimesAssumption
<1>7. QED
  BY <1>2, <1>3, <1>4, <1>5, <1>6 DEF IInv

LEMMA IInvStep == IInv /\ [Next]_vars => IInv'
<1> SUFFICES ASSUME IInv, [Next]_vars PROVE IInv'
  OBVIOUS
<1>1. CASE UNCHANGED vars
  BY <1>1 DEF vars, history, IInv, TypeOK, RequestsOK, RequestOK, DevicesOK,
              JWTsOK, NoncesOK, Remembered
<1>2. ASSUME NEW d \in Devices, Disable(d) PROVE IInv'
  BY <1>2, DisableStep
<1>3. ASSUME NEW d \in Devices, NEW k \in Keys, RegisterDevice(d, k)
      PROVE  IInv'
  BY <1>3, RegisterStep
<1>4. ASSUME NEW r \in Requests, NEW m \in Message, IssueToken(r, m)
      PROVE  IInv'
  BY <1>4, IssueTokenStep
<1>5. ASSUME NEW r \in Requests, NEW j \in JWTs, RefreshJWT(r, j)
      PROVE  IInv'
  BY <1>5, RefreshStep
<1>6. ASSUME NEW r \in Requests, Serve(r) PROVE IInv'
  BY <1>6, VerifyStep, PurgeStep, InsertStep, RefreshCheckedStep, IssueJWTStep
     DEF Serve
<1>7. ASSUME NEW r \in Requests, Abort(r) PROVE IInv'
  BY <1>7, AbortStep
<1>8. QED
  BY <1>1, <1>2, <1>3, <1>4, <1>5, <1>6, <1>7, TickStep DEF Next

\* Only the INSERT of a nonce that is not in the table grants a message.
LEMMA GrantStep ==
    ASSUME IInv, [Next]_vars, NEW r \in Requests, Accepts(r)
    PROVE  ~ Remembered(requests[r].msg)
<1> USE DEF Accepts
<1>1. requests' # requests /\ requests \in [Requests -> Request]
  BY DEF IInv, TypeOK
<1>2. PICK x \in Requests :
         \/ \E m \in Message : IssueToken(x, m)
         \/ \E j \in JWTs : RefreshJWT(x, j)
         \/ Serve(x)
         \/ Abort(x)
  BY <1>1 DEF Next, vars, Disable, RegisterDevice, Tick
<1>3. x = r
  <2>1. \E q : requests' = [requests EXCEPT ![x] = q]
    BY <1>2
       DEF IssueToken, RefreshJWT, Serve, Abort, VerifyDeviceSignature,
           PurgeNonces, InsertNonce, RefreshChecked, IssueJWT, Finish
  <2>2. QED
    BY <1>1, <2>1
<1>4. InsertNonce(r)
  <2>1. ~ Abort(r)
    BY <1>1 DEF Abort, Finish, Idle
  <2>2. /\ \A m \in Message : ~ IssueToken(r, m)
        /\ \A j \in JWTs : ~ RefreshJWT(r, j) /\ ~ IssueJWT(r, j)
    BY DEF IssueToken, RefreshJWT, IssueJWT
  <2>3. /\ ~ VerifyDeviceSignature(r)
        /\ ~ PurgeNonces(r)
        /\ ~ RefreshChecked(r)
    BY DEF VerifyDeviceSignature, PurgeNonces, RefreshChecked
  <2>4. QED
    BY <1>2, <1>3, <2>1, <2>2, <2>3 DEF Serve
<1>5. QED
  BY <1>1, <1>4 DEF InsertNonce, Finish, Idle, Remembered

-----------------------------------------------------------------------------
(* The theorems. *)

\* No interleaving of registrations, operators, messages and renewals breaks
\* the inductive invariant.
THEOREM Invariance == Spec => []IInv
BY IInvInit, IInvStep, PTL DEF Spec

\* Every table, request and JWT keeps its shape.
THEOREM TypeCorrect == Spec => []TypeOK
<1>1. IInv => TypeOK
  BY DEF IInv
<1>2. QED
  BY <1>1, Invariance, PTL

\* A disabled device loses its access one lifetime of a JWT after it was
\* disabled, whatever its renewals did; only the time a request is under way
\* can be added.
THEOREM DisabledDevicesAreCutOff == Spec => []DisabledCutOff
<1>1. IInv => DisabledCutOff
  <2> SUFFICES ASSUME IInv, NEW j \in JWTs, Valid(jwts[j]),
                      devices[jwts[j].device].disabled
               PROVE  clock < disabledAt[jwts[j].device] + AccessTTL
                                + (jwts[j].issued - jwts[j].read)
    BY DEF DisabledCutOff
  <2>1. /\ jwts[j] \in JWT /\ jwts[j].device \in Devices
        /\ jwts[j].read <= disabledAt[jwts[j].device]
    BY DEF IInv, TypeOK, JWTsOK, Valid, JWT
  <2>2. /\ jwts[j].read \in Nat /\ jwts[j].issued \in Nat /\ clock \in Nat
        /\ disabledAt[jwts[j].device] \in Nat
    BY <2>1 DEF IInv, TypeOK, JWT
  <2>3. QED
    BY <2>1, <2>2, TimesAssumption DEF Valid
<1>2. QED
  BY <1>1, Invariance, PTL

\* A signed message that is delivered again is refused, unless its request
\* outlives NonceTTL - 2 * Skew between its two checks.
THEOREM AcceptedOnlyOnce == Spec => AcceptedOnce
<1>1. ASSUME IInv, [Next]_vars, NEW r \in Requests, Accepts(r),
             requests[r].msg \in accepted
      PROVE  clock - requests[r].verified > NonceTTL - 2 * Skew
  <2> DEFINE m == requests[r].msg
  <2>1. ~ Remembered(m)
    BY <1>1, GrantStep
  <2>3. m.stamp + NonceTTL < clock + Skew
    BY <1>1, <2>1 DEF IInv, NoncesOK
  <2>4. /\ requests[r] \in Request /\ RequestOK(requests[r])
        /\ clock \in Nat /\ requests[r].pc = "insert"
    BY <1>1 DEF IInv, TypeOK, RequestsOK, Accepts
  <2>5. /\ requests[r].verified \in Nat /\ m.stamp \in Nat
        /\ requests[r].verified <= m.stamp + Skew
    BY <2>4, TimesAssumption DEF RequestOK, Request, Message
  <2>6. QED
    BY <2>3, <2>4, <2>5, TimesAssumption
<1>2. IInv /\ [Next]_vars =>
        [\A r \in Requests :
            Accepts(r) /\ requests[r].msg \in accepted =>
                clock - requests[r].verified > NonceTTL - 2 * Skew]_vars
  BY <1>1
<1>3. QED
  BY <1>2, Invariance, PTL DEF Spec, AcceptedOnce

\* A key that was replaced grants nothing to requests that begin later.
THEOREM OnlyTheKeyInForce == Spec => KeyInForce
<1>1. ASSUME IInv, NEW r \in Requests, Accepts(r)
      PROVE  \/ requests[r].msg.key = registration[requests[r].device].key
             \/ requests[r].read <= registration[requests[r].device].since
  BY <1>1 DEF IInv, RequestsOK, RequestOK, Accepts
<1>2. IInv /\ [Next]_vars =>
        [\A r \in Requests :
            LET g == registration[requests[r].device]
            IN  Accepts(r) =>
                  \/ requests[r].msg.key = g.key
                  \/ requests[r].read <= g.since]_vars
  BY <1>1
<1>3. QED
  BY <1>2, Invariance, PTL DEF Spec, KeyInForce

-----------------------------------------------------------------------------
(* What the sessions rely on: a JWT, and a request that will be given one,   *)
(* names a device that is in the table; a row and a JWT stay.                *)

IsRegistered(d) == devices[d].key # None

NamesRegistered ==
    /\ \A j \in JWTs : jwts[j].device # None => IsRegistered(jwts[j].device)
    /\ \A r \in Requests :
          requests[r].pc # "idle" => IsRegistered(requests[r].device)

LEMMA NamesInit == Init => NamesRegistered
BY DEF Init, NamesRegistered, NoJWT, Idle

LEMMA RegisteredStays ==
    ASSUME IInv, [Next]_vars
    PROVE  \A d \in Devices : IsRegistered(d) => IsRegistered(d)'
<1>1. ASSUME NEW e \in Devices, NEW k \in Keys, RegisterDevice(e, k)
      PROVE  \A d \in Devices : IsRegistered(d) => IsRegistered(d)'
  BY <1>1, NoneAssumption DEF RegisterDevice, IsRegistered, IInv, TypeOK
<1>2. ASSUME NEW e \in Devices, Disable(e)
      PROVE  \A d \in Devices : IsRegistered(d) => IsRegistered(d)'
  BY <1>2 DEF Disable, IsRegistered, IInv, TypeOK
<1>3. CASE UNCHANGED devices
  BY <1>3 DEF IsRegistered
<1>4. QED
  BY <1>1, <1>2, <1>3
     DEF Next, vars, Serve, IssueToken, VerifyDeviceSignature, PurgeNonces,
         InsertNonce, RefreshJWT, RefreshChecked, IssueJWT, Abort, Tick

\* A JWT is written once.
LEMMA JWTChange ==
    ASSUME IInv, [Next]_vars, NEW j \in JWTs, jwts'[j] # jwts[j]
    PROVE  /\ jwts[j] = NoJWT
           /\ \E r \in Requests :
                 requests[r].pc = "issue" /\ jwts'[j].device = requests[r].device
<1>1. PICK r \in Requests, i \in JWTs : IssueJWT(r, i)
  BY DEF Next, vars, Serve, IssueToken, VerifyDeviceSignature, PurgeNonces,
         InsertNonce, RefreshJWT, RefreshChecked, Abort, Tick, Disable,
         RegisterDevice
<1>2. QED
  BY <1>1 DEF IssueJWT, IInv, TypeOK

\* A request keeps its device while it is under way.
LEMMA RequestChange ==
    ASSUME IInv, [Next]_vars, NEW r \in Requests, requests'[r].pc # "idle"
    PROVE  \/ requests[r].pc # "idle"
              /\ requests'[r].device = requests[r].device
           \/ \E m \in Message :
                 Enabled(m.device) /\ requests'[r].device = m.device
           \/ \E j \in JWTs :
                 jwts[j].device # None /\ requests'[r].device = jwts[j].device
<1> DEFINE Goal ==
      \/ requests[r].pc # "idle" /\ requests'[r].device = requests[r].device
      \/ \E m \in Message :
            Enabled(m.device) /\ requests'[r].device = m.device
      \/ \E j \in JWTs :
            jwts[j].device # None /\ requests'[r].device = jwts[j].device
<1>1. requests \in [Requests -> Request]
  BY DEF IInv, TypeOK
<1>2. ASSUME NEW x \in Requests, Finish(x) PROVE Goal
  BY <1>1, <1>2 DEF Finish, Idle
<1>3. ASSUME NEW x \in Requests, NEW m \in Message, IssueToken(x, m)
      PROVE  Goal
  BY <1>1, <1>3 DEF IssueToken
<1>4. ASSUME NEW x \in Requests, NEW j \in JWTs, RefreshJWT(x, j) PROVE Goal
  BY <1>1, <1>4 DEF RefreshJWT, Valid, Idle
<1>5. ASSUME NEW x \in Requests, VerifyDeviceSignature(x) PROVE Goal
  <2>1. CASE requests' = [requests EXCEPT ![x] =
               [@ EXCEPT !.pc = "purge", !.verified = clock]]
    BY <1>1, <1>5, <2>1 DEF VerifyDeviceSignature, Request
  <2>2. QED
    BY <1>2, <1>5, <2>1 DEF VerifyDeviceSignature
<1>6. ASSUME NEW x \in Requests, PurgeNonces(x) PROVE Goal
  BY <1>1, <1>6 DEF PurgeNonces, Request
<1>7. ASSUME NEW x \in Requests, InsertNonce(x) PROVE Goal
  BY <1>1, <1>2, <1>7 DEF InsertNonce, Request
<1>8. ASSUME NEW x \in Requests, RefreshChecked(x) PROVE Goal
  <2>1. CASE requests' = [requests EXCEPT ![x] =
               [@ EXCEPT !.pc = "issue", !.read = clock]]
    BY <1>1, <1>8, <2>1 DEF RefreshChecked, Request
  <2>2. QED
    BY <1>2, <1>8, <2>1 DEF RefreshChecked
<1>9. CASE UNCHANGED requests
  BY <1>9
<1>10. QED
  BY <1>2, <1>3, <1>4, <1>5, <1>6, <1>7, <1>8, <1>9
     DEF Next, vars, Serve, IssueJWT, Abort, Tick, Disable, RegisterDevice

LEMMA NamesStep ==
    IInv /\ NamesRegistered /\ [Next]_vars => NamesRegistered'
<1> SUFFICES ASSUME IInv, NamesRegistered, [Next]_vars
             PROVE  NamesRegistered'
  OBVIOUS
<1>1. ASSUME NEW j \in JWTs, jwts'[j].device # None
      PROVE  devices'[jwts'[j].device].key # None
  <2>1. CASE jwts'[j] = jwts[j]
    BY <1>1, <2>1, RegisteredStays DEF NamesRegistered, IsRegistered, IInv, TypeOK, JWT
  <2>2. CASE jwts'[j] # jwts[j]
    BY <2>2, JWTChange, RegisteredStays
       DEF NamesRegistered, IsRegistered, IInv, RequestsOK, RequestOK
  <2>3. QED
    BY <2>1, <2>2
<1>2. ASSUME NEW r \in Requests, requests'[r].pc # "idle"
      PROVE  devices'[requests'[r].device].key # None
  <2>1. ASSUME NEW d \in Devices, IsRegistered(d), requests'[r].device = d
        PROVE  devices'[requests'[r].device].key # None
    BY <2>1, RegisteredStays DEF IsRegistered
  <2>2. CASE /\ requests[r].pc # "idle"
             /\ requests'[r].device = requests[r].device
    BY <2>1, <2>2 DEF NamesRegistered, IInv, RequestsOK, RequestOK
  <2>3. ASSUME NEW m \in Message, Enabled(m.device),
               requests'[r].device = m.device
        PROVE  devices'[requests'[r].device].key # None
    BY <2>1, <2>3 DEF Enabled, IsRegistered, Message
  <2>4. ASSUME NEW j \in JWTs, jwts[j].device # None,
               requests'[r].device = jwts[j].device
        PROVE  devices'[requests'[r].device].key # None
    BY <2>1, <2>4 DEF NamesRegistered, IInv, TypeOK, JWT
  <2>5. QED
    BY <1>2, <2>2, <2>3, <2>4, RequestChange
<1>3. QED
  BY <1>1, <1>2 DEF NamesRegistered, IsRegistered

-----------------------------------------------------------------------------
(* A device without a valid JWT, and with no handler on the way to one.      *)

Barred(d) ==
    /\ devices[d].disabled
    /\ \A j \in JWTs : jwts[j].device = d => ~ Valid(jwts[j])
    /\ \A r \in Requests :
          requests[r].device = d => requests[r].pc = "authenticated"

\* A disabled device that is barred stays barred: a message of its is refused,
\* it has nothing to renew, and a renewal under way ends at the look at its row.
LEMMA BarredStays ==
    ASSUME IInv, [Next]_vars, NEW d \in Devices, Barred(d),
           devices'[d].disabled
    PROVE  Barred(d)'
<1>1. requests \in [Requests -> Request] /\ Idle.device # d
  BY NoneAssumption DEF IInv, TypeOK, Idle
<1>2. ASSUME NEW j \in JWTs, jwts'[j].device = d
      PROVE  ~ clock' < jwts'[j].issued + AccessTTL
  <2>1. jwts'[j] = jwts[j]
    BY <1>2, JWTChange DEF Barred
  <2>2. UNCHANGED clock \/ clock' = clock + 1
    BY DEF Next, vars, Serve, IssueToken, VerifyDeviceSignature,
           PurgeNonces, InsertNonce, RefreshJWT, RefreshChecked, IssueJWT,
           Abort, Tick, Disable, RegisterDevice
  <2>3. jwts[j].issued \in Nat /\ clock \in Nat
    BY DEF IInv, TypeOK, JWT
  <2>4. ~ clock < jwts[j].issued + AccessTTL
    BY <1>2, <2>1, NoneAssumption DEF Barred, Valid
  <2>5. QED
    BY <2>1, <2>2, <2>3, <2>4, TimesAssumption
<1> DEFINE Goal == \A r \in Requests : requests'[r].device = d =>
                       requests'[r].pc = "authenticated"
<1>3. ASSUME NEW x \in Requests, Finish(x) PROVE Goal
  BY <1>1, <1>3 DEF Finish, Barred
<1>4. ASSUME NEW x \in Requests, NEW m \in Message, IssueToken(x, m)
      PROVE  Goal
  BY <1>1, <1>4 DEF IssueToken, Enabled, Barred
<1>5. ASSUME NEW x \in Requests, NEW j \in JWTs, RefreshJWT(x, j) PROVE Goal
  BY <1>1, <1>5 DEF RefreshJWT, Idle, Barred
<1>6. ASSUME NEW x \in Requests, VerifyDeviceSignature(x) PROVE Goal
  <2>1. requests[x].device # d
    BY <1>6 DEF VerifyDeviceSignature, Barred
  <2>2. CASE requests' = [requests EXCEPT ![x] =
               [@ EXCEPT !.pc = "purge", !.verified = clock]]
    BY <1>1, <2>1, <2>2 DEF Request, Barred
  <2>3. QED
    BY <1>3, <1>6, <2>2 DEF VerifyDeviceSignature
<1>7. ASSUME NEW x \in Requests, PurgeNonces(x) PROVE Goal
  BY <1>1, <1>7 DEF PurgeNonces, Request, Barred
<1>8. ASSUME NEW x \in Requests, InsertNonce(x) PROVE Goal
  BY <1>1, <1>3, <1>8 DEF InsertNonce, Request, Barred
<1>9. ASSUME NEW x \in Requests, RefreshChecked(x) PROVE Goal
  <2>1. CASE /\ Enabled(requests[x].device)
             /\ requests' = [requests EXCEPT ![x] =
                   [@ EXCEPT !.pc = "issue", !.read = clock]]
    BY <1>1, <2>1 DEF Enabled, Request, Barred
  <2>2. QED
    BY <1>3, <1>9, <2>1 DEF RefreshChecked
<1>10. ASSUME UNCHANGED requests PROVE Goal
  BY <1>10 DEF Barred
<1>11. Goal
  BY <1>3, <1>4, <1>5, <1>6, <1>7, <1>8, <1>9, <1>10
     DEF Next, vars, Serve, IssueJWT, Abort, Tick, Disable, RegisterDevice
<1>12. QED
  BY <1>2, <1>11 DEF Barred, Valid
=============================================================================
