----------------------------- MODULE DeviceAuth -----------------------------
(***************************************************************************)
(* How a NAS device gets and renews its broker JWT: the tables devices and *)
(* device_auth_nonces, the JWTs in the hands of the devices, and the       *)
(* handlers RegisterDevice, IssueToken and RefreshJWT, one action per SQL  *)
(* statement or reading of the clock.  The network may deliver a signed    *)
(* message late, twice or not at all, so any message may arrive at any     *)
(* time and any number of times.                                           *)
(***************************************************************************)
EXTENDS Integers

CONSTANTS
    Devices,      \* device identifiers
    Keys,         \* public keys
    Nonces,       \* nonces the devices draw (a bound)
    Stamps,       \* timestamps the devices write into messages (a bound)
    JWTs,         \* jti values: the JWTs that can still be issued (a bound)
    Requests,     \* slots for requests in flight at one time (a bound)
    None,         \* no key, no device
    Skew,         \* DEVICE_SIGNATURE_CLOCK_SKEW, once the default is applied
    NonceTTL,     \* the 15 minutes of UseAuthNonce
    AccessTTL,    \* JWT_ACCESS_TOKEN_TTL
    MaxClock      \* the last tick that is modelled (a bound)

ASSUME TimesAssumption ==
    /\ Skew \in Nat /\ NonceTTL \in Nat /\ AccessTTL \in Nat
    /\ MaxClock \in Nat /\ Stamps \subseteq Nat \ {0}

ASSUME NoneAssumption == None \notin Devices \cup Keys

VARIABLES
    devices,      \* the table devices
    nonces,       \* the table device_auth_nonces
    jwts,         \* the JWTs the devices hold
    requests,     \* the handlers in flight
    clock,        \* time.Now() of the broker and now() of PostgreSQL
    accepted,     \* history: the signed messages a JWT was granted for
    registration, \* history: the last registration of each device
    disabledAt    \* history: when a device that is disabled was disabled

history == <<accepted, registration, disabledAt>>

vars == <<devices, nonces, jwts, requests, clock, history>>

-----------------------------------------------------------------------------

\* What a device signs (with the private half of key).
Message == [device : Devices, key : Keys, nonce : Nonces, stamp : Stamps]

NoDevice == [key |-> None, disabled |-> FALSE]

DeviceRow == [key : Keys \cup {None}, disabled : BOOLEAN]

NonceRow == [device : Devices, nonce : Nonces, created : Nat]

\* A JWT, with the time at which its device was last looked up for it.
JWT == [device : Devices \cup {None}, read : Nat, issued : Nat]

NoJWT == [device |-> None, read |-> 0, issued |-> 0]

Idle == [pc |-> "idle", device |-> None, msg |-> None, key |-> None,
         read |-> 0, verified |-> 0]

Request ==
    [pc : {"idle", "verify", "purge", "insert", "authenticated", "issue"},
     device : Devices \cup {None}, msg : Message \cup {None},
     key : Keys \cup {None}, read : Nat, verified : Nat]

Enabled(d) == devices[d].key # None /\ ~ devices[d].disabled

\* JWTService.Validate
Valid(j) == j.device # None /\ clock < j.issued + AccessTTL

\* VerifyDeviceSignature compares with an inclusive window on both sides.
InWindow(stamp) == clock <= stamp + Skew /\ stamp <= clock + Skew

Finish(r) == requests' = [requests EXCEPT ![r] = Idle]

-----------------------------------------------------------------------------
(* Devices. *)

\* What the history keeps of a registration.
Registered(d, k) ==
    /\ registration' = [registration EXCEPT ![d] = [key |-> k, since |-> clock]]
    /\ disabledAt' = [disabledAt EXCEPT ![d] = 0]

\* Mutant of RegisterDevice: the upsert keeps the key of an earlier row.
RegisterDeviceKeepsKey(d, k) ==
    /\ devices' = [devices EXCEPT ![d] =
          [key |-> IF @.key = None THEN k ELSE @.key, disabled |-> FALSE]]
    /\ Registered(d, k)
    /\ UNCHANGED <<nonces, jwts, requests, clock, accepted>>

\* The upsert replaces the key and enables a device that was disabled.
RegisterDevice(d, k) ==
    /\ devices' = [devices EXCEPT ![d] = [key |-> k, disabled |-> FALSE]]
    /\ Registered(d, k)
    /\ UNCHANGED <<nonces, jwts, requests, clock, accepted>>

\* The operator sets the column disabled; no handler of the broker does.
Disable(d) ==
    /\ Enabled(d)
    /\ devices' = [devices EXCEPT ![d] = [key |-> @.key, disabled |-> TRUE]]
    /\ disabledAt' = [disabledAt EXCEPT ![d] = clock]
    /\ UNCHANGED <<nonces, jwts, requests, clock, accepted, registration>>

-----------------------------------------------------------------------------
(* IssueToken: GetDevice, VerifyDeviceSignature, the two statements of      *)
(* UseAuthNonce, issueJWT.                                                  *)

\* An unknown or a disabled device is refused and nothing changes.
IssueToken(r, m) ==
    /\ requests[r].pc = "idle"
    /\ Enabled(m.device)
    /\ requests' = [requests EXCEPT ![r] =
          [pc |-> "verify", device |-> m.device, msg |-> m,
           key |-> devices[m.device].key, read |-> clock, verified |-> 0]]
    /\ UNCHANGED <<devices, nonces, jwts, clock, history>>

VerifyDeviceSignature(r) ==
    LET m == requests[r].msg
    IN  /\ requests[r].pc = "verify"
        /\ IF InWindow(m.stamp) /\ m.key = requests[r].key
             THEN requests' = [requests EXCEPT ![r] =
                      [@ EXCEPT !.pc = "purge", !.verified = clock]]
             ELSE Finish(r)
        /\ UNCHANGED <<devices, nonces, jwts, clock, history>>

\* Mutant of PurgeNonces: a nonce goes in the very minute it turns 15.
PurgeNoncesEarly(r) ==
    /\ requests[r].pc = "purge"
    /\ nonces' = {n \in nonces : clock < n.created + NonceTTL}
    /\ requests' = [requests EXCEPT ![r].pc = "insert"]
    /\ UNCHANGED <<devices, jwts, clock, history>>

\* The DELETE of UseAuthNonce; its error is ignored.
PurgeNonces(r) ==
    /\ requests[r].pc = "purge"
    /\ \/ nonces' = {n \in nonces : clock <= n.created + NonceTTL}
       \/ UNCHANGED nonces
    /\ requests' = [requests EXCEPT ![r].pc = "insert"]
    /\ UNCHANGED <<devices, jwts, clock, history>>

\* The INSERT; a unique violation is ErrReplay.
InsertNonce(r) ==
    LET m == requests[r].msg
        duplicate == \E n \in nonces : n.device = m.device /\ n.nonce = m.nonce
    IN  /\ requests[r].pc = "insert"
        /\ \/ /\ ~ duplicate
              /\ nonces' = nonces \cup
                    {[device |-> m.device, nonce |-> m.nonce,
                      created |-> clock]}
              /\ accepted' = accepted \cup {m}
              /\ requests' = [requests EXCEPT ![r].pc = "issue"]
           \/ duplicate /\ Finish(r) /\ UNCHANGED <<nonces, accepted>>
        /\ UNCHANGED <<devices, jwts, clock, registration, disabledAt>>

-----------------------------------------------------------------------------
(* RefreshJWT: requireJWT, GetDevice, issueJWT.                             *)

RefreshJWT(r, j) ==
    /\ requests[r].pc = "idle"
    /\ Valid(jwts[j])
    /\ requests' = [requests EXCEPT ![r] =
          [Idle EXCEPT !.pc = "authenticated", !.device = jwts[j].device]]
    /\ UNCHANGED <<devices, nonces, jwts, clock, history>>

\* Mutant of RefreshChecked: the device is not looked up again.
RefreshUnchecked(r) ==
    /\ requests[r].pc = "authenticated"
    /\ requests' = [requests EXCEPT ![r] =
           [@ EXCEPT !.pc = "issue", !.read = clock]]
    /\ UNCHANGED <<devices, nonces, jwts, clock, history>>

RefreshChecked(r) ==
    /\ requests[r].pc = "authenticated"
    /\ IF Enabled(requests[r].device)
         THEN requests' = [requests EXCEPT ![r] =
                  [@ EXCEPT !.pc = "issue", !.read = clock]]
         ELSE Finish(r)
    /\ UNCHANGED <<devices, nonces, jwts, clock, history>>

\* Mutant of IssueJWT: the lifetime is counted back from now.
IssueJWTBackwards(r, j) ==
    /\ requests[r].pc = "issue"
    /\ jwts[j] = NoJWT
    /\ jwts' = [jwts EXCEPT ![j] =
          [device |-> requests[r].device, read |-> requests[r].read,
           issued |-> clock - AccessTTL]]
    /\ Finish(r)
    /\ UNCHANGED <<devices, nonces, clock, history>>

\* TouchDevice, which the handlers call first, writes no modelled column.
IssueJWT(r, j) ==
    /\ requests[r].pc = "issue"
    /\ jwts[j] = NoJWT
    /\ jwts' = [jwts EXCEPT ![j] =
          [device |-> requests[r].device, read |-> requests[r].read,
           issued |-> clock]]
    /\ Finish(r)
    /\ UNCHANGED <<devices, nonces, clock, history>>

\* A statement fails, or the client goes away: what was committed stays.
Abort(r) ==
    /\ requests[r].pc # "idle"
    /\ Finish(r)
    /\ UNCHANGED <<devices, nonces, jwts, clock, history>>

Tick ==
    /\ clock < MaxClock
    /\ clock' = clock + 1
    /\ UNCHANGED <<devices, nonces, jwts, requests, history>>

-----------------------------------------------------------------------------

Init ==
    /\ devices = [d \in Devices |-> NoDevice]
    /\ nonces = {}
    /\ jwts = [j \in JWTs |-> NoJWT]
    /\ requests = [r \in Requests |-> Idle]
    /\ clock = 0
    /\ accepted = {}
    /\ registration = [d \in Devices |-> [key |-> None, since |-> 0]]
    /\ disabledAt = [d \in Devices |-> 0]

Serve(r) ==
    \/ VerifyDeviceSignature(r)
    \/ PurgeNonces(r)
    \/ InsertNonce(r)
    \/ RefreshChecked(r)
    \/ \E j \in JWTs : IssueJWT(r, j)

Next ==
    \/ \E d \in Devices : Disable(d) \/ \E k \in Keys : RegisterDevice(d, k)
    \/ \E r \in Requests :
          \/ \E m \in Message : IssueToken(r, m)
          \/ \E j \in JWTs : RefreshJWT(r, j)
          \/ Serve(r)
          \/ Abort(r)
    \/ Tick

Spec == Init /\ [][Next]_vars

TypeOK ==
    /\ devices \in [Devices -> DeviceRow]
    /\ nonces \subseteq NonceRow
    /\ jwts \in [JWTs -> JWT]
    /\ requests \in [Requests -> Request]
    /\ clock \in 0 .. MaxClock
    /\ accepted \subseteq Message
    /\ registration \in [Devices -> [key : Keys \cup {None}, since : Nat]]
    /\ disabledAt \in [Devices -> Nat]

-----------------------------------------------------------------------------
(* Properties.                                                             *)

\* The step in which IssueToken grants a JWT for its message.
Accepts(r) == requests[r].pc = "insert" /\ requests'[r].pc = "issue"

\* A signed message is honoured once, however often it is delivered, also when
\* its deliveries race and nonces are purged meanwhile.  A second acceptance
\* takes a request that sat between checking the timestamp and storing the
\* nonce for longer than the nonces outlive the window of the timestamps.
AcceptedOnce ==
    [][\A r \in Requests :
          Accepts(r) /\ requests[r].msg \in accepted =>
              clock - requests[r].verified > NonceTTL - 2 * Skew]_vars

\* A message that is not signed with the key registered last is honoured only
\* by a request that looked its device up before that registration: a key
\* that was replaced is of no use to later requests.
KeyInForce ==
    [][\A r \in Requests :
          LET g == registration[requests[r].device]
          IN  Accepts(r) =>
                \/ requests[r].msg.key = g.key
                \/ requests[r].read <= g.since]_vars

\* A device that was disabled keeps its access for one lifetime of a JWT, and
\* the time the request that issued it was under way, at most: renewing does
\* not prolong it.
DisabledCutOff ==
    \A j \in JWTs :
        LET jwt == jwts[j]
        IN  Valid(jwt) /\ devices[jwt.device].disabled =>
                clock < disabledAt[jwt.device] + AccessTTL
                            + (jwt.issued - jwt.read)
=============================================================================
