---------------------------- MODULE TokenCustody ----------------------------
(***************************************************************************)
(* What the broker promises of a token set that a provider issued: it is   *)
(* meant for one device, it is in one place at a time, it only moves       *)
(* forward, and only that device can claim it, once.  A token set may be   *)
(* dropped before it is claimed and never comes back.                      *)
(*                                                                         *)
(*   unissued --> inflight --> parked --> claimed                          *)
(*                    \-----------\----> dropped                           *)
(***************************************************************************)
CONSTANTS
    Tokens,       \* the token sets
    Devices,      \* the devices
    None          \* no device yet

VARIABLE custody  \* where each token set is, whose it is, who has claimed it

Place == {"unissued", "inflight", "parked", "claimed", "dropped"}

Custody ==
    [place : Place, owner : Devices \cup {None}, holders : SUBSET Devices]

Unissued == [place |-> "unissued", owner |-> None, holders |-> {}]

\* A provider answers a callback of a session of the device.
Issue(old, new) ==
    /\ old = Unissued
    /\ \E d \in Devices :
          new = [place |-> "inflight", owner |-> d, holders |-> {}]

\* The session is marked successful.
Park(old, new) ==
    old.place = "inflight" /\ new = [old EXCEPT !.place = "parked"]

\* The session is redeemed.
Claim(old, new) ==
    /\ old.place = "parked"
    /\ new = [place |-> "claimed", owner |-> old.owner, holders |-> {old.owner}]

\* The session was not marked, or was overwritten before it was redeemed.
Drop(old, new) ==
    /\ old.place \in {"inflight", "parked"}
    /\ new = [old EXCEPT !.place = "dropped"]

Moves(old, new) ==
    \/ new = old
    \/ Issue(old, new)
    \/ Park(old, new)
    \/ Claim(old, new)
    \/ Drop(old, new)

Init == custody = [t \in Tokens |-> Unissued]

\* One step of the broker may move several token sets: storing one in a row
\* drops the one that was there.
Next ==
    /\ custody' \in [Tokens -> Custody]
    /\ \A t \in Tokens : Moves(custody[t], custody'[t])

Spec == Init /\ [][Next]_custody
=============================================================================
