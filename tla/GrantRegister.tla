--------------------------- MODULE GrantRegister ----------------------------
(***************************************************************************)
(* What the broker promises of the grants it keeps, one register for each   *)
(* account (a device and a provider).  Requests read a register and write   *)
(* it later, so a register may be set back to an earlier grant, but only to  *)
(* one that a request under way still has: what is in no register and with  *)
(* no request is gone for good, and no grant changes its account.           *)
(***************************************************************************)
CONSTANTS
    Accounts,     \* the registers
    Grants,       \* the refresh tokens a provider can issue
    NoGrant       \* the register is empty

VARIABLES
    register,     \* the grant in each register
    pending,      \* what the requests under way may still write to it
    issued,       \* the grants that were issued
    refused       \* the grants their provider does not honour any more

vars == <<register, pending, issued, refused>>

Init ==
    /\ register = [a \in Accounts |-> NoGrant]
    /\ pending = [a \in Accounts |-> {}]
    /\ issued = {}
    /\ refused = {}

\* A request reads the register: it may write the same value back.
Read(a) ==
    /\ UNCHANGED <<register, issued, refused>>
    /\ pending' = [pending EXCEPT ![a] = @ \cup {register[a]}]

\* A request comes with a new grant: the user gave consent.
Bring(a, g) ==
    /\ issued' = issued \cup {g}
    /\ pending' = [pending EXCEPT ![a] = @ \cup {g}]
    /\ UNCHANGED <<register, refused>>

\* The provider gives a new grant for one it still honours.
Rotate(a, old, new) ==
    /\ issued' = issued \cup {new}
    /\ \E kept \in {pending[a], pending[a] \ {old}} :
          pending' = [pending EXCEPT ![a] = kept \cup {new}]
    /\ refused' \in {refused, refused \cup {old}}
    /\ UNCHANGED register

\* A request ends; another one may have the same value in hand.
End(a, v) ==
    /\ UNCHANGED <<issued, refused>>
    /\ \/ UNCHANGED pending
       \/ pending' = [pending EXCEPT ![a] = @ \ {v}]

\* It writes before it ends, or it does not.
Write(a, v) ==
    /\ register' = [register EXCEPT ![a] = v]
    /\ End(a, v)

Drop(a, v) ==
    /\ UNCHANGED register
    /\ End(a, v)

Next ==
    \E a \in Accounts :
        \/ Read(a)
        \/ \E g \in Grants \ issued : Bring(a, g)
        \/ \E old \in (pending[a] \cap Grants) \ refused, new \in Grants \ issued :
              Rotate(a, old, new)
        \/ \E v \in pending[a] : Write(a, v) \/ Drop(a, v)

Spec == Init /\ [][Next]_vars

-----------------------------------------------------------------------------

\* The grants that are in the register of an account or may still get there.
Held(a) == ({register[a]} \cup pending[a]) \ {NoGrant}
=============================================================================
