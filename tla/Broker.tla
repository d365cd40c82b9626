-------------------------------- MODULE Broker --------------------------------
(***************************************************************************)
(* Devices with their JWTs, and OAuth sessions, together: the two groups   *)
(* of routes share the clock and the table devices, and requireJWT stands  *)
(* between them.  A request of a device is admitted on the word of a JWT   *)
(* alone, at one moment, and touches its session at later ones; meanwhile  *)
(* the device may be disabled, or register again.                          *)
(***************************************************************************)
EXTENDS Integers

CONSTANTS
    Devices, Keys, Nonces, Stamps, JWTs, Sessions, Providers, Tokens, None,
    AuthSlots,    \* slots for requests of AuthHandler (a bound)
    Slots,        \* slots for requests of OAuthHandler (a bound)
    Skew, NonceTTL, AccessTTL, SessionTTL,
    MaxClock      \* the last tick that is modelled (a bound)

ASSUME BrokerAssumption ==
    /\ Skew \in Nat /\ NonceTTL \in Nat /\ AccessTTL \in Nat
    /\ SessionTTL \in Nat \ {0} /\ MaxClock \in Nat /\ SessionTTL <= MaxClock
    /\ Stamps \subseteq Nat \ {0}
    /\ None \notin Devices \cup Keys \cup Sessions \cup Providers \cup Tokens

VARIABLES
    clock,
    devices, nonces, jwts, authRequests, accepted, registration, disabledAt,
    sessions, sessionRequests, redirected, cloudTokens, brokerTokens, granted,
    claims,
    admitted      \* what requireJWT has let into each slot

authVars == <<devices, nonces, jwts, authRequests, accepted, registration,
              disabledAt>>

sessionVars == <<sessions, sessionRequests, redirected, cloudTokens,
                 brokerTokens, granted, claims>>

vars == <<clock, authVars, sessionVars, admitted>>

D == INSTANCE DeviceAuth WITH Requests <- AuthSlots, requests <- authRequests

O == INSTANCE OAuthSession WITH Requests <- Slots, requests <- sessionRequests

-----------------------------------------------------------------------------

\* The claims of the JWT, and the time at which they were checked.
Admission == [jwt : D!JWT, at : Nat]

NotAdmitted == [jwt |-> D!NoJWT, at |-> 0]

DeviceOf(r) == admitted[r].jwt.device

Free(r) == sessionRequests[r].pc = "idle" /\ admitted[r] = NotAdmitted

\* Mutant of Admit: the expiry of the JWT is not checked.
AdmitExpired(r, j) ==
    /\ Free(r)
    /\ jwts[j] # D!NoJWT
    /\ admitted' = [admitted EXCEPT ![r] = [jwt |-> jwts[j], at |-> clock]]
    /\ UNCHANGED <<clock, authVars, sessionVars>>

\* requireJWT.  The device is not looked up.
Admit(r, j) ==
    /\ Free(r)
    /\ D!Valid(jwts[j])
    /\ admitted' = [admitted EXCEPT ![r] = [jwt |-> jwts[j], at |-> clock]]
    /\ UNCHANGED <<clock, authVars, sessionVars>>

\* Mutant of Leave: the context of a request is given to another one while its
\* handler still runs.
LeaveInFlight(r) ==
    /\ admitted[r] # NotAdmitted
    /\ admitted' = [admitted EXCEPT ![r] = NotAdmitted]
    /\ UNCHANGED <<clock, authVars, sessionVars>>

\* An admitted request ends before it has touched a session.
Leave(r) ==
    /\ admitted[r] # NotAdmitted
    /\ sessionRequests[r].pc = "idle"
    /\ admitted' = [admitted EXCEPT ![r] = NotAdmitted]
    /\ UNCHANGED <<clock, authVars, sessionVars>>

\* Mutant of CreateSession: the route is not in the protected group.
CreateSessionUnprotected(r, s, p, then) ==
    /\ Free(r)
    /\ \E d \in Devices : O!CreateSession(s, d, p, then)
    /\ UNCHANGED <<authVars, admitted>>

\* The handler reads its clock after requireJWT has let it in.
CreateSession(r, s, p, then) ==
    /\ sessionRequests[r].pc = "idle"
    /\ admitted[r] # NotAdmitted
    /\ admitted[r].at <= then
    /\ O!CreateSession(s, DeviceOf(r), p, then)
    /\ admitted' = [admitted EXCEPT ![r] = NotAdmitted]
    /\ UNCHANGED authVars

\* The browser's requests need no JWT.
Browse(r) ==
    /\ Free(r)
    /\ \E s \in Sessions, p \in Providers :
          O!StartOAuth(r, s, p) \/ O!CallbackOAuth(r, s, p)
    /\ UNCHANGED <<authVars, admitted>>

\* Mutant of Protected: the device of the request is not the one of the JWT.
ProtectedAnyDevice(r) ==
    /\ admitted[r] # NotAdmitted
    /\ \E s \in Sessions, d \in Devices : \/ O!GetStatus(r, s, d)
                                          \/ O!CancelSession(r, s, d)
                                          \/ O!RedeemLock(r, s, d)
    /\ UNCHANGED <<authVars, admitted>>

\* GetStatus, CancelSession and Exchange act for the device of the JWT.
Protected(r) ==
    /\ admitted[r] # NotAdmitted
    /\ \E s \in Sessions : \/ O!GetStatus(r, s, DeviceOf(r))
                           \/ O!CancelSession(r, s, DeviceOf(r))
                           \/ O!RedeemLock(r, s, DeviceOf(r))
    /\ UNCHANGED <<authVars, admitted>>

\* What follows the first statement of a handler, up to its end.
Proceed(r) ==
    /\ O!Serve(r) \/ O!Abort(r)
    /\ admitted' = IF sessionRequests'[r].pc = "idle"
                     THEN [admitted EXCEPT ![r] = NotAdmitted] ELSE admitted
    /\ UNCHANGED authVars

\* A step of AuthHandler, or of the operator.
Authenticate ==
    /\ UNCHANGED <<clock, sessionVars, admitted>>
    /\ D!Next

Tick == D!Tick /\ O!Tick /\ UNCHANGED admitted

-----------------------------------------------------------------------------

Init == D!Init /\ O!Init /\ admitted = [r \in Slots |-> NotAdmitted]

Next ==
    \/ Authenticate
    \/ Tick
    \/ \E r \in Slots :
          \/ \E j \in JWTs : Admit(r, j)
          \/ \E s \in Sessions, p \in Providers, then \in 0 .. clock :
                CreateSession(r, s, p, then)
          \/ Leave(r)
          \/ Browse(r)
          \/ Protected(r)
          \/ Proceed(r)

Spec == Init /\ [][Next]_vars

\* The shape of what this module adds; the components have their own.  A
\* handler that acts for a device has the admission of that device.
TypeOK ==
    /\ admitted \in [Slots -> Admission]
    /\ \A r \in Slots :
          sessionRequests[r].device \in {None, DeviceOf(r)}

-----------------------------------------------------------------------------
(* Properties.                                                             *)

\* A session belongs to a device that is in the table devices, as its foreign
\* key demands, although CreateSession never looks: the JWT says so.
SessionsOfRegistered ==
    \A s \in Sessions :
        O!Exists(s) => devices[sessions[s].device].key # None

\* How long a request admitted on a JWT may come after its device was
\* disabled: one lifetime of a JWT, and what the request that issued it took.
InTime(a) ==
    devices[a.jwt.device].disabled =>
        a.at < disabledAt[a.jwt.device] + AccessTTL
                   + (a.jwt.issued - a.jwt.read)

\* A token set is handed out only to a request that came with a JWT of the
\* device that owns the session; and a device that was disabled gets none but
\* by a request that came within one lifetime of a JWT, however often it has
\* renewed that and however long its sessions last.
HandedOutInTime ==
    [][\A c \in claims' \ claims :
          \E r \in Slots :
              /\ sessionRequests[r].pc = "redeeming"
              /\ DeviceOf(r) = c.device
              /\ InTime(admitted[r])]_vars

Ends(s) ==
    /\ sessions'[s].status # sessions[s].status
    /\ sessions'[s].status \in {"cancelled", "used"}

\* A session is cancelled or used up only by a request that came with a JWT of
\* the device it belongs to, also when the row has been read and found to be of
\* that device some statements earlier.
BearerOnly ==
    [][\A s \in Sessions :
          Ends(s) =>
              \E r \in Slots : /\ sessionRequests[r].session = s
                               /\ sessionRequests[r].pc \in
                                     {"update", "redeeming"}
                               /\ DeviceOf(r) = sessions[s].device]_vars

-----------------------------------------------------------------------------

\* A device that is disabled and has nothing left to act with: its JWTs have
\* expired, nothing of its is under way behind requireJWT, and no handler is on
\* its way to a JWT for it but one that will look the device up first.
ShutOut(d) ==
    /\ devices[d].disabled
    /\ \A j \in JWTs : jwts[j].device = d => ~ D!Valid(jwts[j])
    /\ \A q \in AuthSlots :
          authRequests[q].device = d => authRequests[q].pc = "authenticated"
    /\ \A r \in Slots : DeviceOf(r) # d

\* What a device does to its sessions: it creates, cancels and redeems them.
ActsOn(d, s) ==
    /\ sessions'[s] # sessions[s]
    /\ sessions'[s].device = d
    /\ sessions'[s].status \in {"pending", "cancelled", "used"}

\* The check of a JWT is remote from the look at its device: RefreshJWT looks
\* after requireJWT, IssueToken before it signs, and the handlers of the sessions
\* never do.  Still a disabled device that is shut out stays so until it is
\* registered again, however the requests of its last minutes ended, and no
\* session of its is created, cancelled or redeemed; its browsers may go on.
DisabledStaysOut ==
    [][\A d \in Devices :
          ShutOut(d) /\ devices'[d].disabled =>
              /\ ShutOut(d)'
              /\ \A s \in Sessions : ~ ActsOn(d, s)]_vars
=============================================================================
