------------------------- MODULE OAuthSessionProofs -------------------------
(***************************************************************************)
(* Theorems about OAuthSession, for every set of sessions, devices,        *)
(* providers, token sets and request slots, every SessionTTL and MaxClock. *)
(***************************************************************************)
EXTENDS OAuthSession, TLAPS

(***************************************************************************)
(* The inductive invariant.  What a request may look like at each pc:      *)
(***************************************************************************)
Goals == {"authorizing", "success", "failed"}

\* A call of updateStatus: only MarkSuccess, called by a callback, brings a
\* token set.
Marks(q) ==
    /\ q.op \in {"start", "callback"}
    /\ q.goal \in Goals
    /\ q.token # None <=> q.goal = "success"
    /\ q.goal = "success" => q.op = "callback"

Cancels(q) ==
    /\ q.op = "cancel"
    /\ q.goal = "cancelled"
    /\ q.token = None
    /\ q.seen \in Open \cup {"success", "failed", "cancelled"}

Redeems(q) ==
    q.op = "redeem" /\ q.device \in Devices /\ q.token \in Tokens

RequestOK(q) ==
    /\ q.pc = "idle" => q.op = "none"
    /\ q.pc # "idle" => q.session \in Sessions
    /\ q.pc \in {"idle", "got", "calling"} => q.token = None
    /\ q.pc = "got" => /\ q.op \in {"start", "callback", "status", "cancel"}
                       /\ q.seen # "absent"
    /\ q.pc = "calling" => q.op = "callback"
    /\ q.pc \in {"mark", "marking"} => Marks(q)
    /\ q.pc = "update" => Cancels(q) \/ (Marks(q) /\ q.seen \in Open)
    /\ q.pc \in {"redeeming", "redeemed"} => Redeems(q)
    /\ q.pc = "redeemed" => q.provider \in Providers

RequestsOK == \A r \in Requests : RequestOK(requests[r])

\* Rows, and what refers to them.
RowOK(row) ==
    /\ row.status = "absent" => ~ row.verifier
    /\ row.status # "absent" =>
          row.device \in Devices /\ row.provider \in Providers

RowsOK ==
    /\ \A s \in Sessions : RowOK(sessions[s])
    /\ \A r \in Requests :
          requests[r].pc # "idle" => Exists(requests[r].session)
    /\ \A t \in Tokens : granted[t] # None => Exists(granted[t])

\* A session is expired, or was seen so, only after its deadline.
DeadlinesOK ==
    /\ \A s \in Sessions : sessions[s].status = "expired" => ~ Live(s)
    /\ \A r \in Requests :
          requests[r].pc \in {"got", "marking"} /\ requests[r].seen = "expired"
              => ~ Live(requests[r].session)

\* A transaction that holds a row read what the row still says, and is the
\* only one that holds it.
LocksOK ==
    /\ \A r \in Requests :
          requests[r].pc = "redeeming" =>
              /\ sessions[requests[r].session].token = requests[r].token
              /\ sessions[requests[r].session].device = requests[r].device
    /\ \A r, q \in Requests :
          /\ requests[r].pc = "redeeming"
          /\ requests[q].pc = "redeeming"
          /\ requests[r].session = requests[q].session
          => r = q

\* A redemption that has committed left its traces.
ClaimsOK ==
    \A r \in Requests :
        LET q == requests[r]
        IN  q.pc = "redeemed" =>
                /\ [token |-> q.token, device |-> q.device] \in claims
                /\ q.provider = sessions[q.session].provider
                /\ cloudTokens[q.device][q.provider] # None

IInv ==
    /\ TypeOK
    /\ RequestsOK
    /\ RowsOK
    /\ DeadlinesOK
    /\ LocksOK
    /\ ClaimsOK
    /\ SingleCustody
    /\ Provenance
    /\ SecretsAtRest
    /\ UsedIsStored

(***************************************************************************)
(* The record of one request is replaced, the others stay.                 *)
(***************************************************************************)
LEMMA PutRequest ==
    ASSUME requests \in [Requests -> Request], RequestsOK,
           NEW r \in Requests, NEW q \in Request, RequestOK(q),
           requests' = [requests EXCEPT ![r] = q]
    PROVE  /\ requests' \in [Requests -> Request]
           /\ RequestsOK'
           /\ requests'[r] = q
           /\ \A x \in Requests \ {r} : requests'[x] = requests[x]
BY DEF RequestsOK

LEMMA IdleOK == Idle \in Request /\ RequestOK(Idle)
BY DEF Idle, Request, RequestOK

LEMMA StatusValues ==
    Status = {"pending", "authorizing", "success", "failed", "used",
              "cancelled", "expired"}
BY DEF Status, Open, Settled

(***************************************************************************)
(* A step of request r that writes no table, takes no lock and picks up no *)
(* token set keeps the invariant.                                          *)
(***************************************************************************)
Quiet(r, q) ==
    /\ requests' = [requests EXCEPT ![r] = q]
    /\ UNCHANGED <<sessions, clock, redirected, tables, history>>
    /\ q.pc \notin {"redeeming", "redeemed"}
    /\ q.pc # "idle" => Exists(q.session)
    /\ q.pc \in {"got", "marking"} /\ q.seen = "expired" => ~ Live(q.session)
    /\ q.token # None => /\ q.token = requests[r].token
                         /\ q.op = requests[r].op
                         /\ q.session = requests[r].session

LEMMA QuietStep ==
    ASSUME IInv, NEW r \in Requests, NEW q \in Request, RequestOK(q),
           Quiet(r, q)
    PROVE  IInv'
<1> USE DEF tables, history
<1>0. /\ requests' \in [Requests -> Request]
      /\ RequestsOK'
      /\ requests'[r] = q
      /\ \A x \in Requests \ {r} : requests'[x] = requests[x]
  BY PutRequest DEF IInv, TypeOK, Quiet
<1>1. TypeOK'
  BY <1>0 DEF IInv, TypeOK, Quiet
<1>2. RowsOK'
  BY <1>0 DEF IInv, RowsOK, Quiet, Exists
<1>3. DeadlinesOK'
  BY <1>0 DEF IInv, DeadlinesOK, Quiet, Live
<1>4. LocksOK'
  BY <1>0 DEF IInv, LocksOK, Quiet
<1>5. ClaimsOK'
  BY <1>0 DEF IInv, ClaimsOK, Quiet
<1>6. SingleCustody'
  <2>1. \A x \in Requests, t \in Tokens : Carries(x, t)' => Carries(x, t)
    BY <1>0, NoneAssumption DEF Carries, Quiet
  <2>2. QED
    BY <2>1 DEF IInv, SingleCustody, Quiet
<1>7. Provenance'
  <2>1. \A x \in Requests :
           requests'[x].token # None =>
               granted[requests'[x].token] = requests'[x].session
    BY <1>0 DEF IInv, Provenance, Quiet
  <2>2. QED
    BY <2>1 DEF IInv, Provenance, Quiet, Owner
<1>8. SecretsAtRest' /\ UsedIsStored'
  BY DEF IInv, SecretsAtRest, UsedIsStored, Quiet
<1>9. QED
  BY <1>0, <1>1, <1>2, <1>3, <1>4, <1>5, <1>6, <1>7, <1>8 DEF IInv

LEMMA FinishStep ==
    ASSUME IInv, NEW r \in Requests, Finish(r),
           UNCHANGED <<sessions, clock, redirected, tables, history>>
    PROVE  IInv'
<1>1. Quiet(r, Idle)
  BY DEF Finish, Quiet, Idle
<1>2. QED
  BY <1>1, IdleOK, QuietStep

(***************************************************************************)
(* The steps that leave the tables alone.                                  *)
(***************************************************************************)
LEMMA GetStep ==
    ASSUME IInv, NEW r \in Requests, NEW s \in Sessions,
           NEW op \in {"start", "callback", "status", "cancel"},
           NEW d \in Devices \cup {None}, NEW p \in Providers \cup {None},
           Get(r, op, s, d, p)
    PROVE  IInv'
<1> DEFINE q == [op |-> op, pc |-> "got", session |-> s, device |-> d,
                 provider |-> p, seen |-> sessions[s].status,
                 verifier |-> sessions[s].verifier,
                 goal |-> "absent", token |-> None]
<1>1. sessions[s] \in Row
  BY DEF IInv, TypeOK
<1>2. q \in Request
  BY <1>1 DEF Row, Request
<1>3. RequestOK(q)
  BY DEF RequestOK, Get, Exists
<1>4. Quiet(r, q)
  BY DEF IInv, DeadlinesOK, Get, Quiet
<1>5. QED
  BY <1>2, <1>3, <1>4, QuietStep

LEMMA MarkStep ==
    ASSUME IInv, NEW r \in Requests, NEW goal \in {"authorizing", "failed"},
           Mark(r, goal), requests[r].pc \in {"got", "calling"},
           requests[r].op \in {"start", "callback"},
           UNCHANGED <<sessions, clock, redirected, tables, history>>
    PROVE  IInv'
<1> DEFINE old == requests[r]
           q == [old EXCEPT !.pc = "mark", !.goal = goal, !.seen = "absent",
                            !.verifier = FALSE]
<1>1. old \in Request /\ RequestOK(old) /\ Exists(old.session)
  BY DEF IInv, TypeOK, RequestsOK, RowsOK
<1>2. q \in Request
  <2>1. goal \in Status
    BY StatusValues
  <2>2. QED
    BY <1>1, <2>1 DEF Request
<1>3. RequestOK(q)
  BY <1>1 DEF RequestOK, Marks, Goals, Request
<1>4. Quiet(r, q)
  BY <1>1 DEF Mark, Quiet, RequestOK, Request
<1>5. QED
  BY <1>2, <1>3, <1>4, QuietStep

LEMMA CallingStep ==
    ASSUME IInv, NEW r \in Requests, At(r, "callback", "got"),
           requests' = [requests EXCEPT ![r] =
               [@ EXCEPT !.pc = "calling", !.seen = "absent"]],
           UNCHANGED <<sessions, clock, redirected, tables, history>>
    PROVE  IInv'
<1> DEFINE old == requests[r]
           q == [old EXCEPT !.pc = "calling", !.seen = "absent"]
<1>1. old \in Request /\ RequestOK(old) /\ Exists(old.session)
  BY DEF IInv, TypeOK, RequestsOK, RowsOK, At
<1>2. q \in Request
  BY <1>1 DEF Request
<1>3. RequestOK(q)
  BY <1>1 DEF RequestOK, Request, At
<1>4. Quiet(r, q)
  BY <1>1 DEF Quiet, RequestOK, Request, At
<1>5. QED
  BY <1>2, <1>3, <1>4, QuietStep

LEMMA CancellingStep ==
    ASSUME IInv, NEW r \in Requests, At(r, "cancel", "got"),
           Live(requests[r].session), requests[r].seen # "used",
           requests' = [requests EXCEPT ![r] =
               [@ EXCEPT !.pc = "update", !.goal = "cancelled"]],
           UNCHANGED <<sessions, clock, redirected, tables, history>>
    PROVE  IInv'
<1> DEFINE old == requests[r]
           q == [old EXCEPT !.pc = "update", !.goal = "cancelled"]
<1>1. old \in Request /\ RequestOK(old) /\ Exists(old.session)
  BY DEF IInv, TypeOK, RequestsOK, RowsOK, At
<1>2. q \in Request
  <2>1. "cancelled" \in Status
    BY StatusValues
  <2>2. QED
    BY <1>1, <2>1 DEF Request
<1>3. old.seen \in Open \cup {"success", "failed", "cancelled"}
  BY <1>1, StatusValues
     DEF IInv, DeadlinesOK, At, RequestOK, Request, Open
<1>4. RequestOK(q)
  BY <1>1, <1>3 DEF RequestOK, Cancels, Request, At
<1>5. Quiet(r, q)
  BY <1>1 DEF Quiet, RequestOK, Request, At
<1>6. QED
  BY <1>2, <1>4, <1>5, QuietStep

LEMMA MarkGetStep ==
    ASSUME IInv, NEW r \in Requests, MarkGet(r)
    PROVE  IInv'
<1> DEFINE old == requests[r]
           q == [old EXCEPT !.pc = "marking",
                            !.seen = sessions[old.session].status]
<1>1. old \in Request /\ RequestOK(old) /\ Exists(old.session)
  BY DEF IInv, TypeOK, RequestsOK, RowsOK, MarkGet
<1>2. old.session \in Sessions /\ sessions[old.session] \in Row
  BY <1>1 DEF IInv, TypeOK, RequestOK, MarkGet
<1>3. q \in Request
  BY <1>1, <1>2 DEF Request, Row
<1>4. RequestOK(q)
  BY <1>1 DEF RequestOK, Marks, Request, MarkGet
<1>5. Quiet(r, q)
  BY <1>1, <1>2 DEF IInv, DeadlinesOK, Quiet, Request, MarkGet
<1>6. QED
  BY <1>3, <1>4, <1>5, QuietStep

LEMMA UpdatingStep ==
    ASSUME IInv, NEW r \in Requests, requests[r].pc = "marking",
           requests[r].seen \in Open,
           requests' = [requests EXCEPT ![r].pc = "update"],
           UNCHANGED <<sessions, clock, redirected, tables, history>>
    PROVE  IInv'
<1> DEFINE old == requests[r]
           q == [old EXCEPT !.pc = "update"]
<1>1. old \in Request /\ RequestOK(old) /\ Exists(old.session)
  BY DEF IInv, TypeOK, RequestsOK, RowsOK
<1>2. q \in Request
  BY <1>1 DEF Request
<1>3. RequestOK(q)
  BY <1>1 DEF RequestOK, Marks, Request
<1>4. Quiet(r, q)
  BY <1>1 DEF Quiet, Request
<1>5. QED
  BY <1>2, <1>3, <1>4, QuietStep

(***************************************************************************)
(* The steps that write a row: the UPDATE of expireIfNeeded, updateStatus  *)
(* and Cancel.                                                             *)
(***************************************************************************)
LEMMA OverwriteStep ==
    ASSUME IInv, NEW r \in Requests, NEW s \in Sessions, NEW row \in Row,
           requests[r].session = s,
           requests[r].pc \in {"got", "marking", "update"},
           Unlocked(s),
           row.status \notin {"absent", "used"},
           row.status = "expired" => ~ Live(s),
           row.device = sessions[s].device,
           row.provider = sessions[s].provider,
           row.expiresAt = sessions[s].expiresAt,
           row.verifier => row.status \in Open,
           row.token # None <=> row.status = "success",
           row.token # None => Carries(r, row.token),
           sessions' = [sessions EXCEPT ![s] = row],
           Finish(r),
           redirected' \subseteq Sessions,
           UNCHANGED <<clock, tables, history>>
    PROVE  IInv'
<1> USE DEF tables, history
<1>0. /\ requests' \in [Requests -> Request]
      /\ RequestsOK'
      /\ requests'[r] = Idle
      /\ \A x \in Requests \ {r} : requests'[x] = requests[x]
  BY PutRequest, IdleOK DEF IInv, TypeOK, Finish
<1>1. /\ sessions' \in [Sessions -> Row]
      /\ sessions'[s] = row
      /\ \A u \in Sessions \ {s} : sessions'[u] = sessions[u]
      /\ \A u \in Sessions : /\ sessions'[u].device = sessions[u].device
                             /\ sessions'[u].provider = sessions[u].provider
                             /\ Live(u)' <=> Live(u)
                             /\ Exists(u) => Exists(u)'
      /\ Exists(s)
  BY DEF IInv, TypeOK, Live, Exists, RowsOK
<1>2. /\ requests'[r].pc = "idle"
      /\ requests'[r].token = None
      /\ requests'[r].op = "none"
  BY <1>0 DEF Idle
<1>3. TypeOK'
  BY <1>0, <1>1 DEF IInv, TypeOK
<1>4. RowsOK'
  <2>1. \A x \in Requests \ {r} :
           requests[x].pc # "idle" => requests[x].session \in Sessions
    BY DEF IInv, RequestsOK, RequestOK
  <2>2. \A t \in Tokens : granted[t] # None => granted[t] \in Sessions
    BY DEF IInv, TypeOK
  <2>3. \A u \in Sessions : RowOK(sessions'[u])
    <3>1. RowOK(sessions[s]) /\ sessions[s].status # "absent"
      BY <1>1 DEF IInv, RowsOK, Exists
    <3>2. RowOK(row)
      BY <3>1 DEF RowOK
    <3>3. QED
      BY <1>1, <3>2 DEF IInv, RowsOK
  <2>4. \A x \in Requests :
           (requests[x].pc # "idle" => Exists(requests[x].session))'
    BY <1>0, <1>1, <1>2, <2>1 DEF IInv, RowsOK
  <2>5. \A t \in Tokens : (granted[t] # None => Exists(granted[t]))'
    BY <1>1, <2>2 DEF IInv, RowsOK
  <2>6. QED
    BY <2>3, <2>4, <2>5 DEF RowsOK
<1>5. DeadlinesOK'
  <2>1. \A x \in Requests \ {r} :
           requests[x].pc # "idle" => requests[x].session \in Sessions
    BY DEF IInv, RequestsOK, RequestOK
  <2>2. QED
    BY <1>0, <1>1, <1>2, <2>1 DEF IInv, DeadlinesOK
<1>6. LocksOK'
  <2>1. \A x \in Requests :
           requests[x].pc = "redeeming" =>
               requests[x].session \in Sessions /\ requests[x].session # s
    BY DEF IInv, RequestsOK, RequestOK, Unlocked
  <2>2. QED
    BY <1>0, <1>1, <1>2, <2>1 DEF IInv, LocksOK
<1>7. ClaimsOK'
  <2>1. \A x \in Requests :
           requests[x].pc = "redeemed" => requests[x].session \in Sessions
    BY DEF IInv, RequestsOK, RequestOK
  <2>2. QED
    BY <1>0, <1>1, <1>2, <2>1 DEF IInv, ClaimsOK
<1>8. SingleCustody'
  <2>1. \A x \in Requests, t \in Tokens : Carries(x, t)' => Carries(x, t) /\ x # r
    BY <1>0, <1>2 DEF Carries
  <2>2. \A u \in Sessions, t \in Tokens :
           sessions'[u].token = t =>
               \/ sessions[u].token = t /\ u # s
               \/ u = s /\ Carries(r, t)
    BY <1>1, NoneAssumption
  <2>3. QED
    BY <2>1, <2>2 DEF IInv, SingleCustody
<1>9. Provenance'
  <2>1. row.token # None => granted[row.token] = s
    BY DEF IInv, Provenance, Carries
  <2>2. \A u \in Sessions :
           sessions'[u].token # None => granted[sessions'[u].token] = u
    BY <1>1, <2>1 DEF IInv, Provenance
  <2>3. \A x \in Requests :
           requests'[x].token # None =>
               granted[requests'[x].token] = requests'[x].session
    BY <1>0, <1>2 DEF IInv, Provenance
  <2>4. \A t \in Tokens : granted[t] # None => granted[t] \in Sessions
    BY DEF IInv, TypeOK
  <2>5. \A c \in claims : c.token \in Tokens
    BY DEF IInv, TypeOK
  <2>6. \A c \in claims :
           granted'[c.token] # None /\ Owner(c.token)' = c.device
    BY <1>1, <2>4, <2>5 DEF IInv, Provenance, Owner
  <2>7. \A d \in Devices, p \in Providers :
           cloudTokens[d][p] \in Tokens \cup {None}
    BY DEF IInv, TypeOK
  <2>8. \A d \in Devices, p \in Providers :
           cloudTokens[d][p] # None =>
               /\ [token |-> cloudTokens[d][p], device |-> d] \in claims
               /\ granted[cloudTokens[d][p]] \in Sessions
               /\ sessions[granted[cloudTokens[d][p]]].provider = p
    BY <2>4, <2>6, <2>7 DEF IInv, Provenance
  <2>9. QED
    BY <1>1, <2>2, <2>3, <2>6, <2>8 DEF IInv, Provenance
<1>10. SecretsAtRest' /\ UsedIsStored'
  BY <1>1 DEF IInv, SecretsAtRest, UsedIsStored
<1>11. QED
  BY <1>0, <1>3, <1>4, <1>5, <1>6, <1>7, <1>8, <1>9, <1>10 DEF IInv

LEMMA ExpireStep ==
    ASSUME IInv, NEW r \in Requests, ExpireIfNeeded(r)
    PROVE  IInv'
<1> DEFINE s == requests[r].session
<1>1. CASE requests[r].seen \in Settled
  BY <1>1, FinishStep DEF ExpireIfNeeded, tables, history
<1>2. CASE requests[r].seen \notin Settled
  <2> DEFINE row == Ended(sessions[s], "expired")
  <2>1. s \in Sessions /\ sessions[s] \in Row
    BY DEF IInv, TypeOK, RequestsOK, RequestOK, ExpireIfNeeded
  <2>2. "expired" \in Status
    BY StatusValues
  <2>3. row \in Row
    BY <2>1, <2>2 DEF Ended, Row
  <2>4. /\ row.status = "expired" /\ row.token = None /\ ~ row.verifier
        /\ row.device = sessions[s].device
        /\ row.provider = sessions[s].provider
        /\ row.expiresAt = sessions[s].expiresAt
    BY <2>1 DEF Ended, Row
  <2>5. redirected \subseteq Sessions
    BY DEF IInv, TypeOK
  <2>6. QED
    BY <1>2, <2>1, <2>3, <2>4, <2>5, OverwriteStep DEF ExpireIfNeeded
<1>3. QED
  BY <1>1, <1>2

LEMMA UpdateStep ==
    ASSUME IInv, NEW r \in Requests, UpdateRow(r)
    PROVE  IInv'
<1> DEFINE q == requests[r]
           s == q.session
           row == Marked(sessions[s], q.goal, q.token)
<1>1. q \in Request /\ RequestOK(q) /\ s \in Sessions
  BY DEF IInv, TypeOK, RequestsOK, RequestOK, UpdateRow
<1>2. /\ sessions[s] \in Row
      /\ sessions[s].verifier => sessions[s].status \in Open
  BY <1>1 DEF IInv, TypeOK, SecretsAtRest
<1>3. q.goal \in {"authorizing", "success", "failed", "cancelled"}
  BY <1>1 DEF RequestOK, Cancels, Marks, Goals, UpdateRow
<1>4. q.token # None <=> q.goal = "success"
  BY <1>1 DEF RequestOK, Cancels, Marks, UpdateRow
<1>5. q.token # None => Carries(r, q.token)
  BY <1>1 DEF RequestOK, Cancels, Marks, UpdateRow, Carries
<1>6. q.goal \in Status
  BY <1>3, StatusValues
<1>7. row \in Row
  BY <1>1, <1>2, <1>6 DEF Marked, Row, Request
<1>8. /\ row.status = q.goal /\ row.token = q.token
      /\ row.verifier => q.goal = "authorizing"
      /\ row.device = sessions[s].device
      /\ row.provider = sessions[s].provider
      /\ row.expiresAt = sessions[s].expiresAt
  BY <1>2 DEF Marked, Row
<1>9. redirected' \subseteq Sessions
  BY <1>1 DEF IInv, TypeOK, UpdateRow
<1>10. row.verifier => row.status \in Open
  BY <1>8 DEF Open
<1>11. QED
  BY <1>1, <1>3, <1>4, <1>5, <1>7, <1>8, <1>9, <1>10, OverwriteStep
     DEF UpdateRow

(***************************************************************************)
(* The other steps: a session is created, a provider answers, a session is *)
(* redeemed, time passes.                                                  *)
(***************************************************************************)
LEMMA CreateStep ==
    ASSUME IInv, NEW s \in Sessions, NEW d \in Devices, NEW p \in Providers,
           NEW then \in 0 .. clock, CreateSession(s, d, p, then)
    PROVE  IInv'
<1> USE DEF tables, history
<1> DEFINE row == [status |-> "pending", device |-> d, provider |-> p,
                   verifier |-> TRUE, token |-> None,
                   expiresAt |-> then + SessionTTL]
<1>1. row \in Row
  BY SessionTTLAssumption, StatusValues DEF Row, IInv, TypeOK
<1>2. /\ sessions' \in [Sessions -> Row]
      /\ sessions'[s] = row
      /\ \A u \in Sessions \ {s} : sessions'[u] = sessions[u]
      /\ \A u \in Sessions \ {s} : Live(u)' <=> Live(u)
      /\ \A u \in Sessions : Exists(u) => Exists(u)' /\ u # s
      /\ ~ Exists(s)
      /\ UNCHANGED <<requests, clock, redirected, tables, history>>
  BY <1>1 DEF CreateSession, IInv, TypeOK, Exists, Live
<1>3. /\ \A x \in Requests : requests[x].pc # "idle" =>
                requests[x].session \in Sessions \ {s}
      /\ \A t \in Tokens : granted[t] # None => granted[t] \in Sessions \ {s}
  BY <1>2 DEF IInv, RowsOK, RequestsOK, RequestOK, TypeOK
<1>4. TypeOK'
  BY <1>2 DEF IInv, TypeOK
<1>5. RequestsOK'
  BY <1>2 DEF IInv, RequestsOK
<1>6. RowsOK'
  <2>1. RowOK(row)
    BY DEF RowOK
  <2>2. \A u \in Sessions : RowOK(sessions'[u])
    BY <1>2, <2>1 DEF IInv, RowsOK
  <2>3. /\ \A x \in Requests :
              (requests[x].pc # "idle" => Exists(requests[x].session))'
        /\ \A t \in Tokens : (granted[t] # None => Exists(granted[t]))'
    BY <1>2, <1>3 DEF IInv, RowsOK
  <2>4. QED
    BY <2>2, <2>3 DEF RowsOK
<1>7. DeadlinesOK'
  BY <1>2, <1>3 DEF IInv, DeadlinesOK
<1>8. LocksOK'
  BY <1>2, <1>3 DEF IInv, LocksOK
<1>9. ClaimsOK'
  BY <1>2, <1>3 DEF IInv, ClaimsOK
<1>10. SingleCustody'
  <2>1. \A u \in Sessions, t \in Tokens :
           sessions'[u].token = t => sessions[u].token = t /\ u # s
    BY <1>2, NoneAssumption
  <2>2. QED
    BY <1>2, <2>1 DEF IInv, SingleCustody, Carries
<1>11. Provenance'
  <2>1. \A u \in Sessions :
           sessions'[u].token # None => granted[sessions'[u].token] = u
    BY <1>2 DEF IInv, Provenance
  <2>2. \A c \in claims :
           c.token \in Tokens /\ granted[c.token] \in Sessions \ {s}
    BY <1>3 DEF IInv, TypeOK, Provenance
  <2>3. \A c \in claims :
           granted'[c.token] # None /\ Owner(c.token)' = c.device
    BY <1>2, <2>2 DEF IInv, Provenance, Owner
  <2>4. \A e \in Devices, g \in Providers :
           cloudTokens[e][g] # None =>
               /\ [token |-> cloudTokens[e][g], device |-> e] \in claims
               /\ granted[cloudTokens[e][g]] \in Sessions \ {s}
               /\ sessions[granted[cloudTokens[e][g]]].provider = g
    BY <2>2 DEF IInv, Provenance
  <2>5. QED
    BY <1>2, <2>1, <2>3, <2>4 DEF IInv, Provenance
<1>12. SecretsAtRest' /\ UsedIsStored'
  BY <1>2 DEF IInv, SecretsAtRest, UsedIsStored, Open
<1>13. QED
  BY <1>4, <1>5, <1>6, <1>7, <1>8, <1>9, <1>10, <1>11, <1>12 DEF IInv

LEMMA GrantStep ==
    ASSUME IInv, NEW r \in Requests, NEW t \in Tokens, ExchangeGranted(r, t)
    PROVE  IInv'
<1> USE DEF tables, history
<1> DEFINE old == requests[r]
           q == [old EXCEPT !.pc = "mark", !.goal = "success",
                            !.token = t, !.verifier = FALSE]
<1>1. /\ old \in Request /\ RequestOK(old) /\ Exists(old.session)
      /\ old.pc = "calling" /\ old.op = "callback"
      /\ old.session \in Sessions
  BY DEF IInv, TypeOK, RequestsOK, RowsOK, ExchangeGranted, At, RequestOK
<1>2. q \in Request
  <2>1. "success" \in Status
    BY StatusValues
  <2>2. QED
    BY <1>1, <2>1 DEF Request
<1>3. /\ q.pc = "mark" /\ q.token = t /\ q.session = old.session
      /\ q.op = "callback" /\ q.goal = "success"
  BY <1>1 DEF Request
<1>4. RequestOK(q)
  BY <1>1, <1>3, NoneAssumption DEF RequestOK, Marks, Goals
<1>5. /\ requests' \in [Requests -> Request]
      /\ RequestsOK'
      /\ requests'[r] = q
      /\ \A x \in Requests \ {r} : requests'[x] = requests[x]
  BY <1>2, <1>4, PutRequest DEF IInv, TypeOK, ExchangeGranted
<1> HIDE DEF q
<1>6. /\ granted[t] = None
      /\ granted' \in [Tokens -> Sessions \cup {None}]
      /\ granted'[t] = old.session
      /\ \A u \in Tokens \ {t} : granted'[u] = granted[u]
      /\ UNCHANGED <<sessions, clock, redirected, tables, claims>>
  BY <1>1 DEF IInv, TypeOK, ExchangeGranted
<1>7. /\ \A x \in Requests : requests[x].token # t
      /\ \A s \in Sessions : sessions[s].token # t
      /\ \A c \in claims : c.token # t /\ c.token \in Tokens
  <2>1. t # None /\ \A s \in Sessions : s # None
    BY NoneAssumption
  <2>2. \A x \in Requests : requests[x].token # None => requests[x].session \in Sessions
    BY DEF IInv, TypeOK, Request, RequestsOK, RequestOK
  <2>3. \A c \in claims : c.token \in Tokens
    BY DEF IInv, TypeOK
  <2>4. \A c \in claims : c.token # t
    BY <1>6 DEF IInv, Provenance
  <2>5. \A x \in Requests : requests[x].token # t
    BY <1>6, <2>1, <2>2 DEF IInv, Provenance
  <2>6. \A s \in Sessions : sessions[s].token # t
    BY <1>6, <2>1 DEF IInv, Provenance
  <2>7. QED
    BY <2>3, <2>4, <2>5, <2>6
<1>8. TypeOK'
  BY <1>5, <1>6 DEF IInv, TypeOK
<1>9. RowsOK'
  BY <1>1, <1>3, <1>5, <1>6 DEF IInv, RowsOK, Exists
<1>10. DeadlinesOK' /\ LocksOK' /\ ClaimsOK'
  <2>1. DeadlinesOK'
    BY <1>3, <1>5, <1>6 DEF IInv, DeadlinesOK, Live
  <2>2. LocksOK'
    BY <1>3, <1>5, <1>6 DEF IInv, LocksOK
  <2>3. ClaimsOK'
    BY <1>3, <1>5, <1>6 DEF IInv, ClaimsOK
  <2>4. QED
    BY <2>1, <2>2, <2>3
<1>11. SingleCustody'
  <2>1. \A x \in Requests, u \in Tokens :
           Carries(x, u)' => \/ Carries(x, u) /\ x # r /\ u # t
                             \/ x = r /\ u = t
    BY <1>1, <1>3, <1>5, <1>7, NoneAssumption DEF Carries, RequestOK
  <2>2. QED
    BY <1>6, <1>7, <2>1 DEF IInv, SingleCustody
<1>12. Provenance'
  <2>1. \A x \in Requests : requests[x].token \in Tokens \cup {None}
    BY DEF IInv, TypeOK, Request
  <2>2. \A x \in Requests :
           requests'[x].token # None =>
               granted'[requests'[x].token] = requests'[x].session
    BY <1>3, <1>5, <1>6, <1>7, <2>1 DEF IInv, Provenance
  <2>3. \A s \in Sessions : sessions[s].token \in Tokens \cup {None}
    BY DEF IInv, TypeOK, Row
  <2>4. \A c \in claims :
           granted'[c.token] # None /\ Owner(c.token)' = c.device
    BY <1>6, <1>7 DEF IInv, Provenance, Owner
  <2>5. \A e \in Devices, g \in Providers :
           cloudTokens[e][g] # None =>
               /\ [token |-> cloudTokens[e][g], device |-> e] \in claims
               /\ cloudTokens[e][g] \in Tokens \ {t}
    BY <1>7 DEF IInv, Provenance, TypeOK
  <2>6. QED
    BY <1>6, <1>7, <2>2, <2>3, <2>4, <2>5 DEF IInv, Provenance
<1>13. SecretsAtRest' /\ UsedIsStored'
  BY <1>6 DEF IInv, SecretsAtRest, UsedIsStored
<1>14. QED
  BY <1>5, <1>8, <1>9, <1>10, <1>11, <1>12, <1>13 DEF IInv

LEMMA LockStep ==
    ASSUME IInv, NEW r \in Requests, NEW s \in Sessions, NEW d \in Devices,
           RedeemLock(r, s, d)
    PROVE  IInv'
<1> USE DEF tables, history
<1> DEFINE q == [Idle EXCEPT !.op = "redeem", !.pc = "redeeming",
                             !.session = s, !.device = d,
                             !.token = sessions[s].token]
<1>1. /\ sessions[s] \in Row
      /\ Exists(s)
      /\ Unlocked(s)
      /\ sessions[s].device = d
      /\ sessions[s].token \in Tokens
      /\ granted[sessions[s].token] = s
      /\ UNCHANGED <<sessions, clock, redirected, tables, history>>
  BY DEF RedeemLock, Redeemable, Locked, IInv, TypeOK, Row, Exists, Provenance
<1>2. q \in Request
  BY <1>1 DEF Idle, Request
<1>3. /\ q.op = "redeem" /\ q.pc = "redeeming" /\ q.session = s
      /\ q.device = d /\ q.token = sessions[s].token
  BY DEF Idle
<1>4. RequestOK(q)
  BY <1>1, <1>3 DEF RequestOK, Redeems
<1>5. /\ requests' \in [Requests -> Request]
      /\ RequestsOK'
      /\ requests'[r] = q
      /\ \A x \in Requests \ {r} : requests'[x] = requests[x]
  BY <1>2, <1>4, PutRequest DEF IInv, TypeOK, RedeemLock, Locked
<1> HIDE DEF q
<1>6. TypeOK'
  BY <1>1, <1>5 DEF IInv, TypeOK
<1>7. RowsOK'
  BY <1>1, <1>3, <1>5 DEF IInv, RowsOK, Exists
<1>8. DeadlinesOK'
  BY <1>1, <1>3, <1>5 DEF IInv, DeadlinesOK, Live
<1>9. LocksOK'
  BY <1>1, <1>3, <1>5 DEF IInv, LocksOK, Unlocked
<1>10. ClaimsOK'
  BY <1>1, <1>3, <1>5 DEF IInv, ClaimsOK
<1>11. SingleCustody'
  <2>1. \A x \in Requests, t \in Tokens : Carries(x, t)' => Carries(x, t)
    BY <1>3, <1>5 DEF Carries
  <2>2. QED
    BY <1>1, <2>1 DEF IInv, SingleCustody
<1>12. Provenance'
  <2>1. \A x \in Requests :
           requests'[x].token # None =>
               granted[requests'[x].token] = requests'[x].session
    BY <1>1, <1>3, <1>5 DEF IInv, Provenance
  <2>2. QED
    BY <1>1, <2>1 DEF IInv, Provenance, Owner
<1>13. SecretsAtRest' /\ UsedIsStored'
  BY <1>1 DEF IInv, SecretsAtRest, UsedIsStored
<1>14. QED
  BY <1>5, <1>6, <1>7, <1>8, <1>9, <1>10, <1>11, <1>12, <1>13 DEF IInv

\* What RedeemCommit changes, given the invariant.
LEMMA CommitEffect ==
    ASSUME IInv, NEW r \in Requests, RedeemCommit(r),
           NEW s \in Sessions, requests[r].session = s
    PROVE  LET row == sessions[s]
               q == requests[r]
           IN  /\ row \in Row /\ Exists(s)
               /\ q \in Request /\ RequestOK(q) /\ q.pc = "redeeming"
               /\ q.device \in Devices /\ q.token \in Tokens
               /\ row.device = q.device /\ row.token = q.token
               /\ row.provider \in Providers
               /\ granted[q.token] = s
               /\ row.status = "success"
BY NoneAssumption
   DEF RedeemCommit, IInv, TypeOK, RequestsOK, RequestOK, Redeems, LocksOK,
       RowsOK, RowOK, Exists, Provenance, SecretsAtRest

LEMMA CommitStep ==
    ASSUME IInv, NEW r \in Requests, RedeemCommit(r)
    PROVE  IInv'
<1> USE DEF tables, history
<1> DEFINE old == requests[r]
           s == old.session
           p == sessions[s].provider
           row == Ended(sessions[s], "used")
           q == [old EXCEPT !.pc = "redeemed", !.provider = p]
           c == [token |-> old.token, device |-> old.device]
<1>1. s \in Sessions
  BY DEF IInv, RequestsOK, RequestOK, RedeemCommit
<1>2. /\ sessions[s] \in Row /\ Exists(s)
      /\ old \in Request /\ RequestOK(old) /\ old.pc = "redeeming"
      /\ old.device \in Devices /\ old.token \in Tokens
      /\ sessions[s].device = old.device /\ sessions[s].token = old.token
      /\ p \in Providers
      /\ granted[old.token] = s
  BY <1>1, CommitEffect
<1>3. /\ row \in Row
      /\ row.status = "used" /\ row.token = None /\ ~ row.verifier
      /\ row.device = old.device /\ row.provider = p
      /\ row.expiresAt = sessions[s].expiresAt
  <2>1. "used" \in Status
    BY StatusValues
  <2>2. QED
    BY <1>2, <2>1 DEF Ended, Row
<1>4. /\ q \in Request
      /\ q.pc = "redeemed" /\ q.op = "redeem" /\ q.session = s
      /\ q.token = old.token /\ q.device = old.device /\ q.provider = p
  BY <1>2 DEF Request, RequestOK, Redeems
<1>5. RequestOK(q)
  BY <1>1, <1>2, <1>4 DEF RequestOK, Redeems
<1>6. /\ requests' \in [Requests -> Request]
      /\ RequestsOK'
      /\ requests'[r] = q
      /\ \A x \in Requests \ {r} : requests'[x] = requests[x]
  BY <1>4, <1>5, PutRequest DEF IInv, TypeOK, RedeemCommit
<1>7. /\ sessions' \in [Sessions -> Row]
      /\ sessions'[s] = row
      /\ \A u \in Sessions \ {s} : sessions'[u] = sessions[u]
  BY <1>1, <1>3 DEF RedeemCommit, IInv, TypeOK
<1>8. /\ cloudTokens' \in [Devices -> [Providers -> Tokens \cup {None}]]
      /\ cloudTokens'[old.device][p] = old.token
      /\ \A e \in Devices, g \in Providers :
            \/ cloudTokens'[e][g] = cloudTokens[e][g]
            \/ e = old.device /\ g = p /\ cloudTokens'[e][g] = old.token
  BY <1>2 DEF RedeemCommit, IInv, TypeOK
<1>9. /\ claims' = claims \cup {c}
      /\ UNCHANGED <<clock, redirected, brokerTokens, granted>>
  BY DEF RedeemCommit
<1> HIDE DEF q, row
<1>10. TypeOK'
  BY <1>2, <1>6, <1>7, <1>8, <1>9 DEF IInv, TypeOK
<1>11. \A u \in Sessions : /\ sessions'[u].device = sessions[u].device
                           /\ sessions'[u].provider = sessions[u].provider
                           /\ Live(u)' <=> Live(u)
                           /\ Exists(u) => Exists(u)'
  BY <1>2, <1>3, <1>7, <1>9 DEF Live, Exists
<1>12. \A x \in Requests :
          requests[x].pc # "idle" => requests[x].session \in Sessions
  BY DEF IInv, RequestsOK, RequestOK
<1>13. \A t \in Tokens : granted[t] # None => granted[t] \in Sessions
  BY DEF IInv, TypeOK
<1>14. RowsOK'
  <2>1. RowOK(row)
    BY <1>2, <1>3 DEF RowOK
  <2>2. \A u \in Sessions : RowOK(sessions'[u])
    BY <1>7, <2>1 DEF IInv, RowsOK
  <2>3. \A x \in Requests :
           (requests[x].pc # "idle" => Exists(requests[x].session))'
    BY <1>1, <1>2, <1>4, <1>6, <1>11, <1>12 DEF IInv, RowsOK
  <2>4. \A t \in Tokens : (granted[t] # None => Exists(granted[t]))'
    BY <1>9, <1>11, <1>13 DEF IInv, RowsOK
  <2>5. QED
    BY <2>2, <2>3, <2>4 DEF RowsOK
<1>15. DeadlinesOK'
  BY <1>3, <1>4, <1>6, <1>7, <1>11, <1>12 DEF IInv, DeadlinesOK
<1>16. LocksOK'
  <2>1. \A x \in Requests \ {r} :
           requests[x].pc = "redeeming" => requests[x].session # s
    BY <1>2 DEF IInv, LocksOK
  <2>2. QED
    BY <1>4, <1>6, <1>7, <1>12, <2>1 DEF IInv, LocksOK
<1>17. ClaimsOK'
  <2>1. \A x \in Requests \ {r} :
           requests[x].pc = "redeemed" =>
               /\ [token |-> requests[x].token,
                   device |-> requests[x].device] \in claims
               /\ requests[x].provider = sessions[requests[x].session].provider
               /\ cloudTokens[requests[x].device][requests[x].provider] # None
               /\ requests[x].device \in Devices
               /\ requests[x].provider \in Providers
               /\ requests[x].session \in Sessions
    BY <1>12 DEF IInv, ClaimsOK, RequestsOK, RequestOK, Redeems
  <2>2. old.token # None
    BY <1>2, NoneAssumption
  <2>3. \A x \in Requests \ {r} :
           requests[x].pc = "redeemed" =>
               cloudTokens'[requests[x].device][requests[x].provider] # None
    BY <1>8, <2>1, <2>2
  <2>4. \A x \in Requests \ {r} :
           requests[x].pc = "redeemed" =>
               /\ [token |-> requests[x].token,
                   device |-> requests[x].device] \in claims'
               /\ requests[x].provider = sessions'[requests[x].session].provider
    BY <1>9, <1>11, <2>1
  <2>5. /\ [token |-> q.token, device |-> q.device] \in claims'
        /\ q.provider = sessions'[q.session].provider
        /\ cloudTokens'[q.device][q.provider] # None
    BY <1>1, <1>4, <1>8, <1>9, <1>11, <2>2
  <2>6. QED
    BY <1>6, <2>3, <2>4, <2>5 DEF ClaimsOK
<1>18. SingleCustody'
  <2>1. \A x \in Requests, t \in Tokens : Carries(x, t)' => Carries(x, t)
    BY <1>4, <1>6 DEF Carries
  <2>2. \A u \in Sessions, t \in Tokens :
           sessions'[u].token = t => sessions[u].token = t /\ u # s
    BY <1>3, <1>7, NoneAssumption
  <2>3. /\ \A x \in Requests : ~ Carries(x, old.token)
        /\ \A u \in Sessions \ {s} : sessions[u].token # old.token
        /\ \A e \in claims : e.token # old.token
    BY <1>1, <1>2 DEF IInv, SingleCustody
  <2>4. c.token = old.token
    OBVIOUS
  <2>5. QED
    BY <1>9, <2>1, <2>2, <2>3, <2>4 DEF IInv, SingleCustody
<1>19. Provenance'
  <2>1. \A u \in Sessions :
           sessions'[u].token # None => granted[sessions'[u].token] = u
    BY <1>3, <1>7 DEF IInv, Provenance
  <2>2. \A x \in Requests :
           requests'[x].token # None =>
               granted[requests'[x].token] = requests'[x].session
    BY <1>2, <1>4, <1>6 DEF IInv, Provenance
  <2>3. \A e \in claims' :
           granted[e.token] \in Sessions /\ sessions[granted[e.token]].device = e.device
    BY <1>1, <1>2, <1>9, <1>13 DEF IInv, Provenance, Owner, TypeOK
  <2>4. \A e \in Devices, g \in Providers :
           cloudTokens'[e][g] # None =>
               /\ [token |-> cloudTokens'[e][g], device |-> e] \in claims'
               /\ sessions[granted[cloudTokens'[e][g]]].provider = g
    <3> SUFFICES ASSUME NEW e \in Devices, NEW g \in Providers,
                        cloudTokens'[e][g] # None
                 PROVE  /\ [token |-> cloudTokens'[e][g], device |-> e]
                              \in claims'
                        /\ sessions[granted[cloudTokens'[e][g]]].provider = g
      OBVIOUS
    <3>1. CASE cloudTokens'[e][g] = cloudTokens[e][g]
      <4>1. claims \subseteq claims'
        BY <1>9
      <4>2. /\ [token |-> cloudTokens[e][g], device |-> e] \in claims
            /\ sessions[granted[cloudTokens[e][g]]].provider = g
        BY <3>1 DEF IInv, Provenance
      <4>3. QED
        BY <3>1, <4>1, <4>2
    <3>2. CASE e = old.device /\ g = p /\ cloudTokens'[e][g] = old.token
      BY <1>2, <1>9, <3>2
    <3>3. QED
      BY <1>8, <3>1, <3>2
  <2>5. \A e \in Devices, g \in Providers :
           cloudTokens'[e][g] # None => granted[cloudTokens'[e][g]] \in Sessions
    BY <2>3, <2>4
  <2>6. \A e \in Devices, g \in Providers :
           brokerTokens[e][g] # None =>
               /\ [token |-> brokerTokens[e][g], device |-> e] \in claims'
               /\ cloudTokens'[e][g] # None
    <3>1. \A e \in Devices, g \in Providers :
             cloudTokens[e][g] # None => cloudTokens'[e][g] # None
      BY <1>2, <1>8, NoneAssumption
    <3>2. QED
      BY <1>9, <3>1 DEF IInv, Provenance
  <2>7. \A e \in claims' : granted'[e.token] # None /\ Owner(e.token)' = e.device
    BY <1>9, <1>11, <2>3, NoneAssumption DEF Owner
  <2>8. QED
    BY <1>9, <1>11, <2>1, <2>2, <2>4, <2>5, <2>6, <2>7 DEF Provenance
<1>20. SecretsAtRest'
  BY <1>3, <1>7 DEF IInv, SecretsAtRest
<1>21. UsedIsStored'
  <2>1. \A u \in Sessions : sessions[u].status = "used" =>
           sessions[u].device \in Devices /\ sessions[u].provider \in Providers
    BY DEF IInv, RowsOK, RowOK
  <2>2. QED
    BY <1>2, <1>3, <1>7, <1>8, <2>1, NoneAssumption DEF IInv, UsedIsStored
<1>22. QED
  BY <1>6, <1>10, <1>14, <1>15, <1>16, <1>17, <1>18, <1>19, <1>20, <1>21
     DEF IInv

LEMMA SaveStep ==
    ASSUME IInv, NEW r \in Requests, SaveBrokerRefreshToken(r)
    PROVE  IInv'
<1> USE DEF tables, history
<1> DEFINE q == requests[r]
<1>1. /\ q.pc = "redeemed"
      /\ q.device \in Devices /\ q.provider \in Providers /\ q.token \in Tokens
      /\ q.session \in Sessions
  BY DEF IInv, RequestsOK, RequestOK, Redeems, SaveBrokerRefreshToken
<1>2. /\ [token |-> q.token, device |-> q.device] \in claims
      /\ cloudTokens[q.device][q.provider] # None
  BY <1>1 DEF IInv, ClaimsOK
<1>3. /\ requests' \in [Requests -> Request]
      /\ RequestsOK'
      /\ requests'[r] = Idle
      /\ \A x \in Requests \ {r} : requests'[x] = requests[x]
  BY PutRequest, IdleOK DEF IInv, TypeOK, Finish, SaveBrokerRefreshToken
<1>4. /\ brokerTokens' \in [Devices -> [Providers -> Tokens \cup {None}]]
      /\ \A e \in Devices, g \in Providers :
            \/ brokerTokens'[e][g] = brokerTokens[e][g]
            \/ e = q.device /\ g = q.provider /\ brokerTokens'[e][g] = q.token
      /\ UNCHANGED <<sessions, clock, redirected, cloudTokens, history>>
  BY <1>1 DEF IInv, TypeOK, SaveBrokerRefreshToken
<1>5. Idle.pc = "idle" /\ Idle.op = "none" /\ Idle.token = None
  BY DEF Idle
<1> HIDE DEF q
<1>6. TypeOK'
  BY <1>3, <1>4 DEF IInv, TypeOK
<1>7. RowsOK' /\ DeadlinesOK'
  BY <1>3, <1>4, <1>5 DEF IInv, RowsOK, DeadlinesOK, Live, Exists
<1>8. LocksOK' /\ ClaimsOK'
  <2>1. LocksOK'
    BY <1>3, <1>4, <1>5 DEF IInv, LocksOK
  <2>2. ClaimsOK'
    BY <1>3, <1>4, <1>5 DEF IInv, ClaimsOK
  <2>3. QED
    BY <2>1, <2>2
<1>9. SingleCustody'
  <2>1. \A x \in Requests, t \in Tokens : Carries(x, t)' => Carries(x, t)
    BY <1>3, <1>5 DEF Carries
  <2>2. QED
    BY <1>4, <2>1 DEF IInv, SingleCustody
<1>10. Provenance'
  <2>1. \A x \in Requests :
           requests'[x].token # None =>
               granted[requests'[x].token] = requests'[x].session
    BY <1>3, <1>5 DEF IInv, Provenance
  <2>2. \A e \in Devices, g \in Providers :
           brokerTokens'[e][g] # None =>
               /\ [token |-> brokerTokens'[e][g], device |-> e] \in claims
               /\ cloudTokens[e][g] # None
    <3> SUFFICES ASSUME NEW e \in Devices, NEW g \in Providers,
                        brokerTokens'[e][g] # None
                 PROVE  /\ [token |-> brokerTokens'[e][g], device |-> e]
                              \in claims
                        /\ cloudTokens[e][g] # None
      OBVIOUS
    <3>1. CASE brokerTokens'[e][g] = brokerTokens[e][g]
      BY <3>1 DEF IInv, Provenance
    <3>2. CASE e = q.device /\ g = q.provider /\ brokerTokens'[e][g] = q.token
      BY <1>2, <3>2
    <3>3. QED
      BY <1>4, <3>1, <3>2
  <2>3. QED
    BY <1>4, <2>1, <2>2 DEF IInv, Provenance, Owner
<1>11. SecretsAtRest' /\ UsedIsStored'
  BY <1>4 DEF IInv, SecretsAtRest, UsedIsStored
<1>12. QED
  BY <1>3, <1>6, <1>7, <1>8, <1>9, <1>10, <1>11 DEF IInv

LEMMA TickStep ==
    ASSUME IInv, Tick
    PROVE  IInv'
<1> USE DEF tables, history
<1>1. /\ clock \in Nat /\ clock' = clock + 1 /\ clock' \in 0 .. MaxClock
      /\ \A s \in Sessions : sessions[s].expiresAt \in Nat
      /\ UNCHANGED <<sessions, requests, redirected, tables, history>>
  BY MaxClockAssumption DEF IInv, TypeOK, Tick, Row
<1>2. TypeOK'
  BY <1>1 DEF IInv, TypeOK
<1>3. DeadlinesOK'
  <2>1. \A s \in Sessions : ~ Live(s) => ~ Live(s)'
    BY <1>1 DEF Live
  <2>2. \A r \in Requests :
           requests[r].pc # "idle" => requests[r].session \in Sessions
    BY DEF IInv, RequestsOK, RequestOK
  <2>3. QED
    BY <1>1, <2>1, <2>2 DEF IInv, DeadlinesOK
<1>4. RequestsOK' /\ RowsOK' /\ LocksOK' /\ ClaimsOK'
  BY <1>1 DEF IInv, RequestsOK, RowsOK, Exists, LocksOK, ClaimsOK
<1>5. SingleCustody' /\ SecretsAtRest' /\ UsedIsStored'
  BY <1>1 DEF IInv, SingleCustody, Carries, SecretsAtRest, UsedIsStored
<1>6. Provenance'
  BY <1>1 DEF IInv, Provenance, Owner
<1>7. QED
  BY <1>2, <1>3, <1>4, <1>5, <1>6 DEF IInv

-----------------------------------------------------------------------------
(***************************************************************************)
(* The invariant holds at the start and is kept by every step.             *)
(***************************************************************************)
LEMMA IInvInit == Init => IInv
<1> SUFFICES ASSUME Init PROVE IInv
  OBVIOUS
<1>1. TypeOK
  BY SessionTTLAssumption, MaxClockAssumption
     DEF Init, TypeOK, NoRow, Row, Idle, Request
<1>2. RequestsOK
  BY IdleOK DEF Init, RequestsOK
<1>3. /\ \A r \in Requests : /\ requests[r].pc = "idle"
                             /\ requests[r].token = None
      /\ \A s \in Sessions : /\ sessions[s].status = "absent"
                             /\ sessions[s].token = None
                             /\ ~ sessions[s].verifier
      /\ \A t \in Tokens : granted[t] = None
      /\ claims = {}
      /\ \A d \in Devices, p \in Providers :
            cloudTokens[d][p] = None /\ brokerTokens[d][p] = None
  BY DEF Init, Idle, NoRow
<1>4. RowsOK /\ DeadlinesOK /\ LocksOK /\ ClaimsOK
  BY <1>3 DEF RowsOK, RowOK, DeadlinesOK, LocksOK, ClaimsOK
<1>5. SingleCustody
  BY <1>3, NoneAssumption DEF SingleCustody, Carries
<1>6. Provenance /\ SecretsAtRest /\ UsedIsStored
  BY <1>3 DEF Provenance, SecretsAtRest, UsedIsStored
<1>7. QED
  BY <1>1, <1>2, <1>4, <1>5, <1>6 DEF IInv

LEMMA IInvStep == IInv /\ [Next]_vars => IInv'
<1> SUFFICES ASSUME IInv, [Next]_vars PROVE IInv'
  OBVIOUS
<1>1. ASSUME NEW r \in Requests, StartChecked(r) PROVE IInv'
  BY <1>1, FinishStep, MarkStep DEF StartChecked, At, tables, history
<1>2. ASSUME NEW r \in Requests, CallbackChecked(r) PROVE IInv'
  BY <1>2, FinishStep, MarkStep, CallingStep
     DEF CallbackChecked, At, tables, history
<1>3. ASSUME NEW r \in Requests, StatusChecked(r) PROVE IInv'
  BY <1>3, FinishStep DEF StatusChecked, tables, history
<1>4. ASSUME NEW r \in Requests, CancelChecked(r) PROVE IInv'
  BY <1>4, FinishStep, CancellingStep DEF CancelChecked, tables, history
<1>5. ASSUME NEW r \in Requests, ExchangeRefused(r) PROVE IInv'
  BY <1>5, MarkStep DEF ExchangeRefused, At, tables, history
<1>6. ASSUME NEW r \in Requests, MarkChecked(r) PROVE IInv'
  BY <1>6, FinishStep, UpdatingStep DEF MarkChecked, tables, history
<1>7. ASSUME NEW r \in Requests, Abort(r) PROVE IInv'
  BY <1>7, FinishStep DEF Abort, tables, history
<1>8. ASSUME NEW r \in Requests, Arrive(r) PROVE IInv'
  BY <1>8, GetStep, LockStep
     DEF Arrive, StartOAuth, CallbackOAuth, GetStatus, CancelSession
<1>9. ASSUME NEW r \in Requests, Serve(r) PROVE IInv'
  BY <1>1, <1>2, <1>3, <1>4, <1>5, <1>6, <1>9, ExpireStep, GrantStep,
     MarkGetStep, UpdateStep, CommitStep, SaveStep DEF Serve
<1>10. CASE UNCHANGED vars
  <2> USE <1>10 DEF vars, tables, history
  <2>1. TypeOK' /\ RequestsOK' /\ RowsOK' /\ DeadlinesOK'
    BY DEF IInv, TypeOK, RequestsOK, RowsOK, DeadlinesOK, Exists, Live
  <2>2. LocksOK' /\ ClaimsOK' /\ SingleCustody'
    BY DEF IInv, LocksOK, ClaimsOK, SingleCustody, Carries
  <2>3. Provenance' /\ SecretsAtRest' /\ UsedIsStored'
    BY DEF IInv, Provenance, SecretsAtRest, UsedIsStored, Owner
  <2>4. QED
    BY <2>1, <2>2, <2>3 DEF IInv
<1>11. QED
  BY <1>7, <1>8, <1>9, <1>10, CreateStep, TickStep DEF Next

\* Nothing any interleaving of the requests does breaks the inductive
\* invariant: types, who holds which row lock, where each token set is.
THEOREM Invariance == Spec => []IInv
BY IInvInit, IInvStep, PTL DEF Spec

(***************************************************************************)
(* The state properties that the runs check, for every instance.           *)
(***************************************************************************)

\* Rows, requests and histories stay within their types.
THEOREM TypeCorrect == Spec => []TypeOK
<1>1. IInv => TypeOK
  BY DEF IInv
<1>2. QED
  BY <1>1, Invariance, PTL

\* A token set is never in two places, however requests interleave.
THEOREM CustodyIsSingle == Spec => []SingleCustody
<1>1. IInv => SingleCustody
  BY DEF IInv
<1>2. QED
  BY <1>1, Invariance, PTL

\* A token set is redeemed and stored only for the device of its session.
THEOREM ProvenanceHolds == Spec => []Provenance
<1>1. IInv => Provenance
  BY DEF IInv
<1>2. QED
  BY <1>1, Invariance, PTL

\* Verifier and token set are wiped from a row whose session has ended.
THEOREM SecretsAreWiped == Spec => []SecretsAtRest
<1>1. IInv => SecretsAtRest
  BY DEF IInv
<1>2. QED
  BY <1>1, Invariance, PTL

\* A used session has left a token set in cloud_tokens.
THEOREM UsedStores == Spec => []UsedIsStored
<1>1. IInv => UsedIsStored
  BY DEF IInv
<1>2. QED
  BY <1>1, Invariance, PTL

-----------------------------------------------------------------------------
(***************************************************************************)
(* What a step does to one row: the four statements that write it.         *)
(***************************************************************************)
Expires(r, s) ==
    /\ requests[r].session = s
    /\ requests[r].pc \in {"got", "marking"}
    /\ requests[r].seen \notin Settled
    /\ sessions'[s] = Ended(sessions[s], "expired")

Updates(r, s) ==
    /\ requests[r].session = s
    /\ requests[r].pc = "update"
    /\ sessions'[s] = Marked(sessions[s], requests[r].goal, requests[r].token)

Uses(r, s) ==
    /\ requests[r].session = s
    /\ requests[r].pc = "redeeming"
    /\ sessions'[s] = Ended(sessions[s], "used")

Creates(s) ==
    ~ Exists(s) /\ sessions'[s].status = "pending" /\ sessions'[s].token = None

LEMMA RowChange ==
    ASSUME IInv, [Next]_vars, NEW s \in Sessions
    PROVE  \/ sessions'[s] = sessions[s]
           \/ Creates(s)
           \/ \E r \in Requests : Expires(r, s) \/ Updates(r, s) \/ Uses(r, s)
<1> DEFINE Goal == \/ sessions'[s] = sessions[s]
                   \/ Creates(s)
                   \/ \E r \in Requests :
                         Expires(r, s) \/ Updates(r, s) \/ Uses(r, s)
<1>1. ASSUME NEW u \in Sessions, NEW d \in Devices, NEW p \in Providers,
             NEW then \in 0 .. clock, CreateSession(u, d, p, then)
      PROVE  Goal
  BY <1>1 DEF CreateSession, Creates, IInv, TypeOK
<1>2. ASSUME NEW r \in Requests, ExpireIfNeeded(r) PROVE Goal
  BY <1>2 DEF ExpireIfNeeded, Expires, IInv, TypeOK
<1>3. ASSUME NEW r \in Requests, UpdateRow(r) PROVE Goal
  BY <1>3 DEF UpdateRow, Updates, IInv, TypeOK
<1>4. ASSUME NEW r \in Requests, RedeemCommit(r) PROVE Goal
  BY <1>4 DEF RedeemCommit, Uses, IInv, TypeOK
<1>5. ASSUME NEW r \in Requests, Arrive(r) PROVE Goal
  BY <1>5 DEF Arrive, StartOAuth, CallbackOAuth, GetStatus, CancelSession,
              Get, RedeemLock, Locked
<1>6. ASSUME NEW r \in Requests, Serve(r) PROVE Goal
  BY <1>2, <1>3, <1>4, <1>6
     DEF Serve, StartChecked, CallbackChecked, StatusChecked, CancelChecked,
         ExchangeGranted, ExchangeRefused, MarkGet, MarkChecked,
         SaveBrokerRefreshToken
<1>7. ASSUME NEW r \in Requests, Abort(r) PROVE Goal
  BY <1>7 DEF Abort
<1>8. CASE Tick \/ UNCHANGED vars
  BY <1>8 DEF Tick, vars
<1>9. QED
  BY <1>1, <1>5, <1>6, <1>7, <1>8 DEF Next

\* The device of a row never changes, and only an UPDATE of updateStatus
\* brings a token set into it.
LEMMA RowKeeps ==
    ASSUME IInv, [Next]_vars, NEW s \in Sessions
    PROVE  /\ Exists(s) => sessions'[s].device = sessions[s].device
           /\ \/ sessions'[s].token \in {None, sessions[s].token}
              \/ \E r \in Requests :
                    Updates(r, s) /\ sessions'[s].token = requests[r].token
<1>1. sessions[s] \in Row
  BY DEF IInv, TypeOK
<1>2. \A status : /\ Ended(sessions[s], status).device = sessions[s].device
                  /\ Ended(sessions[s], status).token = None
  BY <1>1 DEF Ended, Row
<1>3. \A status, t : /\ Marked(sessions[s], status, t).device = sessions[s].device
                     /\ Marked(sessions[s], status, t).token = t
  BY <1>1 DEF Marked, Row
<1>4. ASSUME NEW r \in Requests, Expires(r, s) \/ Uses(r, s)
      PROVE  /\ sessions'[s].device = sessions[s].device
             /\ sessions'[s].token = None
  BY <1>2, <1>4 DEF Expires, Uses
<1>5. ASSUME NEW r \in Requests, Updates(r, s)
      PROVE  /\ sessions'[s].device = sessions[s].device
             /\ sessions'[s].token = requests[r].token
  BY <1>3, <1>5 DEF Updates
<1>6. QED
  BY <1>4, <1>5, RowChange DEF Creates

LEMMA ExistingStatuses ==
    ASSUME IInv, NEW s \in Sessions, Exists(s)
    PROVE  sessions[s].status \in Open \cup Settled \cup {"success", "failed"}
BY DEF IInv, TypeOK, Row, Status, Exists

LEMMA LifecycleStepHolds ==
    ASSUME IInv, [Next]_vars, NEW s \in Sessions
    PROVE  LifecycleStep(s)
<1>1. sessions[s] \in Row
  BY DEF IInv, TypeOK
<1>2. CASE Creates(s)
  BY <1>2 DEF Creates, Exists, LifecycleStep, Lifecycle
<1>3. ASSUME NEW r \in Requests, Expires(r, s) PROVE LifecycleStep(s)
  <2>1. CASE requests[r].seen # sessions[s].status
    BY <1>3, <2>1 DEF Expires, LifecycleStep, InFlight
  <2>2. CASE requests[r].seen = sessions[s].status
    <3>1. Exists(s)
      BY <1>3 DEF Expires, IInv, RowsOK
    <3>2. sessions[s].status \in Open \cup {"success", "failed"}
      BY <1>3, <2>2, <3>1, ExistingStatuses DEF Expires
    <3>3. sessions'[s].status = "expired"
      BY <1>1, <1>3 DEF Expires, Ended, Row
    <3>4. QED
      BY <3>2, <3>3 DEF LifecycleStep, Lifecycle
  <2>3. QED
    BY <2>1, <2>2
<1>4. ASSUME NEW r \in Requests, Updates(r, s) PROVE LifecycleStep(s)
  <2>1. CASE requests[r].seen # sessions[s].status
    BY <1>4, <2>1 DEF Updates, LifecycleStep, InFlight
  <2>2. CASE requests[r].seen = sessions[s].status
    <3>1. RequestOK(requests[r])
      BY DEF IInv, RequestsOK
    <3>2. sessions'[s].status = requests[r].goal
      BY <1>1, <1>4 DEF Updates, Marked, Row
    <3>3. \/ /\ requests[r].goal = "cancelled"
             /\ sessions[s].status \in Open \cup {"success", "failed", "cancelled"}
          \/ /\ requests[r].goal \in Goals
             /\ sessions[s].status \in Open
      BY <1>4, <2>2, <3>1 DEF Updates, RequestOK, Cancels, Marks
    <3>4. QED
      BY <3>2, <3>3 DEF LifecycleStep, Lifecycle, Open, Goals
  <2>3. QED
    BY <2>1, <2>2
<1>5. ASSUME NEW r \in Requests, Uses(r, s) PROVE LifecycleStep(s)
  <2>1. sessions[s].status = "success"
    BY <1>5, NoneAssumption
       DEF Uses, IInv, LocksOK, SecretsAtRest, RequestsOK, RequestOK, Redeems
  <2>2. sessions'[s].status = "used"
    BY <1>1, <1>5 DEF Uses, Ended, Row
  <2>3. QED
    BY <2>1, <2>2 DEF LifecycleStep, Lifecycle
<1>6. CASE sessions'[s] = sessions[s]
  BY <1>6 DEF LifecycleStep
<1>7. QED
  BY <1>2, <1>3, <1>4, <1>5, <1>6, RowChange

\* No order of statements takes a session out of its life cycle, except a
\* handler that acts on a status it read too early.
THEOREM OnlyStaleReadsBreakLifecycle == Spec => LifecycleUnlessStale
<1>1. IInv /\ [Next]_vars => [\A s \in Sessions : LifecycleStep(s)]_vars
  BY LifecycleStepHolds
<1>2. QED
  BY <1>1, Invariance, PTL DEF Spec, LifecycleUnlessStale

\* A request that newly decides to write has just compared the deadline.
LEMMA NewWriter ==
    ASSUME IInv, [Next]_vars, NEW s \in Sessions, NEW r \in Requests,
           r \in Writers(s)', r \notin Writers(s)
    PROVE  Live(s)
<1> DEFINE Writes(q) == q.session = s /\ q.pc \in {"update", "redeeming"}
<1>0. Writes(requests'[r]) /\ ~ Writes(requests[r])
  BY DEF Writers
<1>1. requests[r] \in Request /\ requests \in [Requests -> Request]
  BY DEF IInv, TypeOK
<1>2. ~ Writes(Idle)
  BY DEF Idle
<1>3. ASSUME NEW x \in Requests, Finish(x) PROVE FALSE
  BY <1>0, <1>1, <1>2, <1>3 DEF Finish
<1>4. ASSUME NEW x \in Requests, NEW goal, Mark(x, goal) PROVE FALSE
  BY <1>0, <1>1, <1>4 DEF Mark, Request
<1>5. ASSUME NEW x \in Requests, StartChecked(x) PROVE FALSE
  BY <1>3, <1>4, <1>5 DEF StartChecked
<1>6. ASSUME NEW x \in Requests, CallbackChecked(x) PROVE FALSE
  <2>1. CASE requests' = [requests EXCEPT ![x] =
               [@ EXCEPT !.pc = "calling", !.seen = "absent"]]
    BY <1>0, <1>1, <2>1 DEF Request
  <2>2. QED
    BY <1>3, <1>4, <1>6, <2>1 DEF CallbackChecked
<1>7. ASSUME NEW x \in Requests, CancelChecked(x) PROVE Live(s)
  <2>1. CASE requests' = [requests EXCEPT ![x] =
               [@ EXCEPT !.pc = "update", !.goal = "cancelled"]]
    <3>1. requests[x].session = s
      BY <1>0, <1>1, <2>1 DEF Request
    <3>2. QED
      BY <1>7, <3>1 DEF CancelChecked
  <2>2. QED
    BY <1>3, <1>7, <2>1 DEF CancelChecked
<1>8. ASSUME NEW x \in Requests, NEW t \in Tokens, ExchangeGranted(x, t)
      PROVE  FALSE
  BY <1>0, <1>1, <1>8 DEF ExchangeGranted, Request
<1>9. ASSUME NEW x \in Requests, MarkGet(x) PROVE FALSE
  BY <1>0, <1>1, <1>9 DEF MarkGet, Request
<1>10. ASSUME NEW x \in Requests, MarkChecked(x) PROVE Live(s)
  BY <1>0, <1>1, <1>3, <1>10 DEF MarkChecked, Request
<1>11. ASSUME NEW x \in Requests, RedeemCommit(x) PROVE FALSE
  BY <1>0, <1>1, <1>11 DEF RedeemCommit, Request
<1>12. ASSUME NEW x \in Requests, Serve(x) PROVE Live(s)
  BY <1>3, <1>4, <1>5, <1>6, <1>7, <1>8, <1>9, <1>10, <1>11, <1>12
     DEF Serve, ExpireIfNeeded, StatusChecked, ExchangeRefused, UpdateRow,
         SaveBrokerRefreshToken
<1>13. ASSUME NEW x \in Requests, NEW u \in Sessions, NEW op, NEW d, NEW p,
              Get(x, op, u, d, p)
       PROVE  FALSE
  BY <1>0, <1>1, <1>13 DEF Get
<1>14. ASSUME NEW x \in Requests, NEW u \in Sessions, NEW d \in Devices,
              RedeemLock(x, u, d)
       PROVE  Live(s)
  BY <1>0, <1>1, <1>14 DEF RedeemLock, Locked, Idle
<1>15. ASSUME NEW x \in Requests, Arrive(x) PROVE Live(s)
  BY <1>13, <1>14, <1>15
     DEF Arrive, StartOAuth, CallbackOAuth, GetStatus, CancelSession
<1>16. ASSUME NEW x \in Requests, Abort(x) PROVE FALSE
  BY <1>3, <1>16 DEF Abort
<1>17. CASE \E u \in Sessions, d \in Devices, p \in Providers,
               then \in 0 .. clock : CreateSession(u, d, p, then)
  BY <1>0, <1>17 DEF CreateSession
<1>18. CASE Tick \/ UNCHANGED vars
  BY <1>0, <1>18 DEF Tick, vars
<1>19. QED
  BY <1>12, <1>15, <1>16, <1>17, <1>18 DEF Next

LEMMA LapsedStepHolds ==
    ASSUME IInv, [Next]_vars, NEW s \in Sessions
    PROVE  LapsedStep(s)
<1> SUFFICES ASSUME Exists(s), ~ Live(s)
             PROVE  /\ Writers(s)' \subseteq Writers(s)
                    /\ Writers(s) = {} =>
                          sessions'[s] \in
                              {sessions[s], Ended(sessions[s], "expired")}
  BY DEF LapsedStep
<1>1. Writers(s)' \subseteq Writers(s)
  <2>1. \A r \in Writers(s)' : r \in Requests
    BY DEF Writers
  <2>2. QED
    BY <2>1, NewWriter
<1>2. ASSUME Writers(s) = {}
      PROVE  sessions'[s] \in {sessions[s], Ended(sessions[s], "expired")}
  BY <1>2, RowChange DEF Writers, Creates, Expires, Updates, Uses
<1>3. QED
  BY <1>1, <1>2

\* After the deadline the writers of a session only drain away, and then it
\* can only become expired.
THEOREM LapsedDrains == Spec => LapsedOnlyExpires
<1>1. IInv /\ [Next]_vars => [\A s \in Sessions : LapsedStep(s)]_vars
  BY LapsedStepHolds
<1>2. QED
  BY <1>1, Invariance, PTL DEF Spec, LapsedOnlyExpires

\* A request that reads a settled session may not write it any more, whatever it
\* goes on to do.
LEMMA NoLateReader ==
    ASSUME IInv, [Next]_vars, NEW s \in Sessions, NEW r \in Requests,
           sessions[s].status \in Settled,
           r \in Outdated(s)', r \notin Outdated(s)
    PROVE  FALSE
<1> DEFINE Late(q) ==
        /\ q.session = s
        /\ \/ q.pc \in {"got", "marking", "update"} /\ q.seen \notin Settled
           \/ q.pc = "redeeming"
<1>0. Late(requests'[r]) /\ ~ Late(requests[r])
  BY DEF Outdated, InFlight
<1>1. requests[r] \in Request /\ requests \in [Requests -> Request]
  BY DEF IInv, TypeOK
<1>2. ~ Late(Idle)
  BY DEF Idle
<1>3. ASSUME NEW x \in Requests, Finish(x) PROVE FALSE
  BY <1>0, <1>1, <1>2, <1>3 DEF Finish
<1>4. ASSUME NEW x \in Requests, NEW goal, Mark(x, goal) PROVE FALSE
  BY <1>0, <1>1, <1>4 DEF Mark, Request
<1>5. ASSUME NEW x \in Requests, StartChecked(x) PROVE FALSE
  BY <1>3, <1>4, <1>5 DEF StartChecked
<1>6. ASSUME NEW x \in Requests, CallbackChecked(x) PROVE FALSE
  <2>1. CASE requests' = [requests EXCEPT ![x] =
               [@ EXCEPT !.pc = "calling", !.seen = "absent"]]
    BY <1>0, <1>1, <2>1 DEF Request
  <2>2. QED
    BY <1>3, <1>4, <1>6, <2>1 DEF CallbackChecked
<1>7. ASSUME NEW x \in Requests, CancelChecked(x) PROVE FALSE
  <2>1. CASE requests' = [requests EXCEPT ![x] =
               [@ EXCEPT !.pc = "update", !.goal = "cancelled"]]
    BY <1>0, <1>1, <1>7, <2>1 DEF CancelChecked, At, Request
  <2>2. QED
    BY <1>3, <1>7, <2>1 DEF CancelChecked
<1>8. ASSUME NEW x \in Requests, NEW t \in Tokens, ExchangeGranted(x, t)
      PROVE  FALSE
  BY <1>0, <1>1, <1>8 DEF ExchangeGranted, Request
<1>9. ASSUME NEW x \in Requests, MarkGet(x) PROVE FALSE
  BY <1>0, <1>1, <1>9 DEF MarkGet, Request
<1>10. ASSUME NEW x \in Requests, MarkChecked(x) PROVE FALSE
  BY <1>0, <1>1, <1>3, <1>10 DEF MarkChecked, Request
<1>11. ASSUME NEW x \in Requests, RedeemCommit(x) PROVE FALSE
  BY <1>0, <1>1, <1>11 DEF RedeemCommit, Request
<1>12. ASSUME NEW x \in Requests, Serve(x) PROVE FALSE
  BY <1>3, <1>4, <1>5, <1>6, <1>7, <1>8, <1>9, <1>10, <1>11, <1>12
     DEF Serve, ExpireIfNeeded, StatusChecked, ExchangeRefused, UpdateRow,
         SaveBrokerRefreshToken
<1>13. ASSUME NEW x \in Requests, NEW u \in Sessions, NEW op, NEW d, NEW p,
              Get(x, op, u, d, p)
       PROVE  FALSE
  BY <1>0, <1>1, <1>13 DEF Get
<1>14. ASSUME NEW x \in Requests, NEW u \in Sessions, NEW d \in Devices,
              RedeemLock(x, u, d)
       PROVE  FALSE
  BY <1>0, <1>1, <1>14 DEF RedeemLock, Redeemable, Locked, Idle, Settled
<1>15. ASSUME NEW x \in Requests, Arrive(x) PROVE FALSE
  BY <1>13, <1>14, <1>15
     DEF Arrive, StartOAuth, CallbackOAuth, GetStatus, CancelSession
<1>16. ASSUME NEW x \in Requests, Abort(x) PROVE FALSE
  BY <1>3, <1>16 DEF Abort
<1>17. CASE \E u \in Sessions, d \in Devices, p \in Providers,
               then \in 0 .. clock : CreateSession(u, d, p, then)
  BY <1>0, <1>17 DEF CreateSession
<1>18. CASE Tick \/ UNCHANGED vars
  BY <1>0, <1>18 DEF Tick, vars
<1>19. QED
  BY <1>12, <1>15, <1>16, <1>17, <1>18 DEF Next

LEMMA SettledStepHolds ==
    ASSUME IInv, [Next]_vars, NEW s \in Sessions
    PROVE  SettledStep(s)
<1> SUFFICES ASSUME sessions[s].status \in Settled
             PROVE  /\ Outdated(s)' \subseteq Outdated(s)
                    /\ Outdated(s) = {} =>
                          sessions'[s].status \in
                              {sessions[s].status, "cancelled"}
  BY DEF SettledStep
<1>1. Outdated(s)' \subseteq Outdated(s)
  <2>1. \A r \in Outdated(s)' : r \in Requests
    BY DEF Outdated
  <2>2. QED
    BY <2>1, NoLateReader
<1>2. ASSUME Outdated(s) = {}
      PROVE  sessions'[s].status \in {sessions[s].status, "cancelled"}
  <2>1. ASSUME NEW r \in Requests
        PROVE  ~ Expires(r, s) /\ ~ Uses(r, s)
    BY <1>2 DEF Outdated, InFlight, Expires, Uses
  <2>2. ~ Creates(s)
    BY DEF Creates, Exists, Settled
  <2>3. ASSUME NEW r \in Requests, Updates(r, s)
        PROVE  sessions'[s].status = "cancelled"
    <3>1. requests[r].seen \in Settled
      BY <1>2, <2>3 DEF Outdated, InFlight, Updates
    <3>2. RequestOK(requests[r]) /\ requests[r].pc = "update"
      BY <2>3 DEF IInv, RequestsOK, Updates
    <3>3. requests[r].goal = "cancelled"
      BY <3>1, <3>2 DEF RequestOK, Cancels, Settled, Open
    <3>4. QED
      BY <2>3, <3>3 DEF Updates, Marked, IInv, TypeOK, Row
  <2>4. QED
    BY <2>1, <2>2, <2>3, RowChange
<1>3. QED
  BY <1>1, <1>2

\* Only requests that had read a session before it settled disturb it, and they
\* drain away.
THEOREM SettledSessionsStay == Spec => SettledStays
<1>1. IInv /\ [Next]_vars => [\A s \in Sessions : SettledStep(s)]_vars
  BY SettledStepHolds
<1>2. QED
  BY <1>1, Invariance, PTL DEF Spec, SettledStays

\* No token set is redeemed twice.
THEOREM NoSecondRedemption == Spec => RedeemedOnce
<1> DEFINE Fresh ==
        \A r \in Requests :
            /\ requests[r].pc = "redeeming"
            /\ requests'[r].pc = "redeemed"
            => ~ Claimed(requests[r].token)
<1>1. IInv => [Fresh]_vars
  <2> SUFFICES ASSUME IInv, NEW r \in Requests, requests[r].pc = "redeeming"
               PROVE  ~ Claimed(requests[r].token)
    OBVIOUS
  <2>1. /\ requests[r].session \in Sessions
        /\ requests[r].token \in Tokens
        /\ sessions[requests[r].session].token = requests[r].token
    BY DEF IInv, RequestsOK, RequestOK, Redeems, LocksOK
  <2>2. QED
    BY <2>1 DEF IInv, SingleCustody, Claimed
<1>2. QED
  BY <1>1, Invariance, PTL DEF RedeemedOnce

-----------------------------------------------------------------------------
(***************************************************************************)
(* OAuthSession implements TokenCustody.                                   *)
(***************************************************************************)
LEMMA CarriesChange ==
    ASSUME IInv, [Next]_vars, NEW x \in Requests, NEW t \in Tokens,
           Carries(x, t)', ~ Carries(x, t)
    PROVE  ExchangeGranted(x, t)
<1> DEFINE C(q) == q.op = "callback" /\ q.token = t
<1>0. C(requests'[x]) /\ ~ C(requests[x]) /\ t # None
  BY NoneAssumption DEF Carries
<1>1. requests \in [Requests -> Request]
  BY DEF IInv, TypeOK
<1>2. ASSUME NEW r \in Requests, Finish(r) PROVE FALSE
  BY <1>0, <1>1, <1>2 DEF Finish, Idle
<1>3. ASSUME NEW r \in Requests, NEW goal, Mark(r, goal) PROVE FALSE
  BY <1>0, <1>1, <1>3 DEF Mark, Request
<1>4. ASSUME NEW r \in Requests, CallbackChecked(r) PROVE FALSE
  <2>1. CASE requests' = [requests EXCEPT ![r] =
               [@ EXCEPT !.pc = "calling", !.seen = "absent"]]
    BY <1>0, <1>1, <2>1 DEF Request
  <2>2. QED
    BY <1>2, <1>3, <1>4, <2>1 DEF CallbackChecked
<1>5. ASSUME NEW r \in Requests, CancelChecked(r) PROVE FALSE
  <2>1. CASE requests' = [requests EXCEPT ![r] =
               [@ EXCEPT !.pc = "update", !.goal = "cancelled"]]
    BY <1>0, <1>1, <2>1 DEF Request
  <2>2. QED
    BY <1>2, <1>5, <2>1 DEF CancelChecked
<1>6. ASSUME NEW r \in Requests, NEW u \in Tokens, ExchangeGranted(r, u)
      PROVE  ExchangeGranted(x, t)
  <2>1. requests' = [requests EXCEPT ![r] =
            [@ EXCEPT !.pc = "mark", !.goal = "success",
                      !.token = u, !.verifier = FALSE]]
    BY <1>6 DEF ExchangeGranted
  <2>2. x = r /\ u = t
    BY <1>0, <1>1, <2>1 DEF Request
  <2>3. QED
    BY <1>6, <2>2
<1>7. ASSUME NEW r \in Requests, MarkGet(r) \/ MarkChecked(r) PROVE FALSE
  <2>1. CASE MarkGet(r)
    BY <1>0, <1>1, <2>1 DEF MarkGet, Request
  <2>2. CASE requests' = [requests EXCEPT ![r].pc = "update"]
    BY <1>0, <1>1, <2>2 DEF Request
  <2>3. QED
    BY <1>2, <1>7, <2>1, <2>2 DEF MarkChecked
<1>8. ASSUME NEW r \in Requests, RedeemCommit(r) PROVE FALSE
  BY <1>0, <1>1, <1>8 DEF RedeemCommit, Request
<1>9. ASSUME NEW r \in Requests, Serve(r) PROVE ExchangeGranted(x, t)
  BY <1>2, <1>3, <1>4, <1>5, <1>6, <1>7, <1>8, <1>9
     DEF Serve, ExpireIfNeeded, StartChecked, StatusChecked,
         ExchangeRefused, UpdateRow, SaveBrokerRefreshToken
<1>10. ASSUME NEW r \in Requests, Arrive(r) PROVE FALSE
  <2>1. ASSUME NEW u \in Sessions, NEW op, NEW d, NEW p, Get(r, op, u, d, p)
        PROVE  FALSE
    BY <1>0, <1>1, <2>1 DEF Get
  <2>2. ASSUME NEW u \in Sessions, NEW d \in Devices, RedeemLock(r, u, d)
        PROVE  FALSE
    BY <1>0, <1>1, <2>2 DEF RedeemLock, Locked, Idle
  <2>3. QED
    BY <1>10, <2>1, <2>2
       DEF Arrive, StartOAuth, CallbackOAuth, GetStatus, CancelSession
<1>11. CASE \/ \E u \in Sessions, d \in Devices, p \in Providers,
                  then \in 0 .. clock : CreateSession(u, d, p, then)
            \/ Tick
            \/ UNCHANGED vars
  BY <1>0, <1>11 DEF CreateSession, Tick, vars
<1>12. QED
  BY <1>2, <1>9, <1>10, <1>11 DEF Next, Abort

LEMMA HistoryChange ==
    ASSUME [Next]_vars
    PROVE  /\ \/ granted' = granted
              \/ \E r \in Requests, t \in Tokens : ExchangeGranted(r, t)
           /\ \/ claims' = claims
              \/ \E r \in Requests : RedeemCommit(r)
<1> USE DEF history
<1>1. ASSUME NEW r \in Requests, Arrive(r) PROVE UNCHANGED history
  BY <1>1 DEF Arrive, StartOAuth, CallbackOAuth, GetStatus, CancelSession,
              Get, RedeemLock, Locked
<1>2. ASSUME NEW r \in Requests, Serve(r)
      PROVE  \/ UNCHANGED history
             \/ UNCHANGED claims /\ \E t \in Tokens : ExchangeGranted(r, t)
             \/ UNCHANGED granted /\ RedeemCommit(r)
  <2>1. CASE \E t \in Tokens : ExchangeGranted(r, t)
    BY <2>1 DEF ExchangeGranted
  <2>2. CASE RedeemCommit(r)
    BY <2>2 DEF RedeemCommit
  <2>3. QED
    BY <1>2, <2>1, <2>2
       DEF Serve, ExpireIfNeeded, StartChecked, CallbackChecked,
           StatusChecked, CancelChecked, ExchangeRefused, MarkGet,
           MarkChecked, UpdateRow, SaveBrokerRefreshToken
<1>3. CASE \/ \E u \in Sessions, d \in Devices, p \in Providers,
                 then \in 0 .. clock : CreateSession(u, d, p, then)
           \/ \E r \in Requests : Abort(r)
           \/ Tick
           \/ UNCHANGED vars
  BY <1>3 DEF CreateSession, Abort, Tick, vars
<1>4. QED
  BY <1>1, <1>2, <1>3 DEF Next

\* The place of a token set is decided by these facts.
PlaceOK(t) ==
    /\ granted[t] = None => ~ Claimed(t) /\ ~ Carried(t) /\ ~ Parked(t)
    /\ Claimed(t) => ~ Carried(t) /\ ~ Parked(t)
    /\ ~ (Carried(t) /\ Parked(t))
    /\ granted[t] # None => Owner(t) \in Devices
    /\ HolderSet(t) \subseteq Devices
    /\ ~ Claimed(t) => HolderSet(t) = {}
    /\ Claimed(t) => HolderSet(t) = {Owner(t)}

PlacesOK == \A t \in Tokens : PlaceOK(t)

LEMMA PlaceFacts == IInv => PlacesOK
<1> SUFFICES ASSUME IInv, NEW t \in Tokens PROVE PlaceOK(t)
  BY DEF PlacesOK
<1>1. t # None /\ (granted[t] # None => granted[t] \in Sessions)
  BY NoneAssumption DEF IInv, TypeOK
<1>2. \A x \in Requests : Carries(x, t) =>
         granted[t] = requests[x].session /\ requests[x].session \in Sessions
  BY <1>1 DEF IInv, Provenance, Carries, RequestsOK, RequestOK
<1>3. \A s \in Sessions : sessions[s].token = t => granted[t] = s
  BY <1>1 DEF IInv, Provenance
<1>4. \A c \in claims : /\ c.token \in Tokens /\ c.device \in Devices
                        /\ c.token = t => granted[t] # None /\ c.device = Owner(t)
  BY DEF IInv, TypeOK, Provenance
<1>5. None \notin Sessions
  BY NoneAssumption
<1>6. granted[t] = None => ~ Claimed(t) /\ ~ Carried(t) /\ ~ Parked(t)
  BY <1>2, <1>3, <1>4, <1>5 DEF Claimed, Carried, Parked
<1>7. /\ Claimed(t) => ~ Carried(t) /\ ~ Parked(t)
      /\ ~ (Carried(t) /\ Parked(t))
  BY DEF IInv, SingleCustody, Claimed, Carried, Parked
<1>8. granted[t] # None => Owner(t) \in Devices
  BY <1>1 DEF IInv, RowsOK, RowOK, Exists, Owner
<1>9. /\ HolderSet(t) \subseteq Devices
      /\ ~ Claimed(t) => HolderSet(t) = {}
      /\ Claimed(t) => HolderSet(t) = {Owner(t)}
  BY <1>4 DEF HolderSet, Claimed
<1>10. QED
  BY <1>6, <1>7, <1>8, <1>9 DEF PlaceOK

\* How one step moves one token set.
LEMMA TokenChange ==
    ASSUME IInv, [Next]_vars, NEW t \in Tokens
    PROVE  /\ granted[t] # None => granted'[t] = granted[t] /\ Owner(t)' = Owner(t)
           /\ granted[t] = None /\ granted'[t] # None => Carried(t)'
           /\ Claimed(t) => Claimed(t)'
           /\ ~ Claimed(t) /\ Claimed(t)' => Parked(t)
           /\ ~ Carried(t) /\ Carried(t)' => granted[t] = None
           /\ ~ Parked(t) /\ Parked(t)' => Carried(t)
<1>1. ASSUME NEW r \in Requests, NEW u \in Tokens, ExchangeGranted(r, u)
      PROVE  /\ granted[u] = None
             /\ \A v \in Tokens \ {u} : granted'[v] = granted[v]
             /\ Carries(r, u)'
  <2>1. requests'[r].token = u /\ requests'[r].op = requests[r].op
    BY <1>1 DEF ExchangeGranted, IInv, TypeOK, Request
  <2>2. QED
    BY <1>1, <2>1 DEF ExchangeGranted, At, IInv, TypeOK, Carries
<1>2. ASSUME NEW r \in Requests, RedeemCommit(r)
      PROVE  \E s \in Sessions :
                /\ sessions[s].token = requests[r].token
                /\ claims' = claims \cup {[token |-> requests[r].token,
                                           device |-> requests[r].device]}
  <2>1. requests[r].session \in Sessions
    BY <1>2 DEF RedeemCommit, IInv, RequestsOK, RequestOK
  <2>2. QED
    BY <1>2, <2>1, CommitEffect DEF RedeemCommit
<1>3. granted[t] # None => granted'[t] = granted[t]
  BY <1>1, HistoryChange
<1>4. granted[t] # None => Owner(t)' = Owner(t)
  <2> SUFFICES ASSUME granted[t] # None PROVE Owner(t)' = Owner(t)
    OBVIOUS
  <2> DEFINE s == granted[t]
  <2>1. s \in Sessions /\ Exists(s) /\ sessions[s] \in Row
    BY DEF IInv, TypeOK, RowsOK
  <2>2. sessions'[s].device = sessions[s].device
    BY <2>1, RowKeeps
  <2>3. QED
    BY <1>3, <2>2 DEF Owner
<1>5. granted[t] = None /\ granted'[t] # None => Carried(t)'
  BY <1>1, HistoryChange DEF Carried
<1>6. /\ Claimed(t) => Claimed(t)'
      /\ ~ Claimed(t) /\ Claimed(t)' => Parked(t)
  BY <1>2, HistoryChange DEF Claimed, Parked
<1>7. ~ Carried(t) /\ Carried(t)' => granted[t] = None
  BY <1>1, CarriesChange DEF Carried
<1>8. ~ Parked(t) /\ Parked(t)' => Carried(t)
  <2> SUFFICES ASSUME NEW s \in Sessions, sessions'[s].token = t,
                      sessions[s].token # t
               PROVE  Carried(t)
    BY DEF Parked
  <2>1. t # None /\ sessions[s] \in Row
    BY NoneAssumption DEF IInv, TypeOK
  <2>2. PICK r \in Requests : Updates(r, s) /\ requests[r].token = t
    BY <2>1, RowKeeps
  <2>4. Carries(r, t)
    BY <2>1, <2>2
       DEF Updates, IInv, RequestsOK, RequestOK, Cancels, Marks, Carries
  <2>5. QED
    BY <2>4 DEF Carried
<1>9. QED
  BY <1>3, <1>4, <1>5, <1>6, <1>7, <1>8

LEMMA CustodyInit == IInv /\ Init => Abstract!Init
<1> SUFFICES ASSUME IInv, Init PROVE Abstract!Init
  OBVIOUS
<1>1. ASSUME NEW t \in Tokens PROVE CustodyOf(t) = Abstract!Unissued
  <2>1. granted[t] = None /\ ~ Claimed(t)
    BY DEF Init, Claimed
  <2>2. HolderSet(t) = {}
    BY <2>1, PlaceFacts DEF PlacesOK, PlaceOK
  <2>3. QED
    BY <2>1, <2>2 DEF CustodyOf, Place, Abstract!Unissued
<1>2. QED
  BY <1>1 DEF Abstract!Init

LEMMA CustodyMoves ==
    ASSUME IInv, [Next]_vars, NEW t \in Tokens, PlaceOK(t), PlaceOK(t)'
    PROVE  /\ Abstract!Moves(CustodyOf(t), CustodyOf(t)')
           /\ CustodyOf(t)' \in Abstract!Custody
<1> USE DEF PlaceOK
<1> DEFINE old == CustodyOf(t)
           new == CustodyOf(t)'
<1>1. /\ granted[t] # None => granted'[t] = granted[t] /\ Owner(t)' = Owner(t)
      /\ granted[t] = None /\ granted'[t] # None => Carried(t)'
      /\ Claimed(t) => Claimed(t)'
      /\ ~ Claimed(t) /\ Claimed(t)' => Parked(t)
      /\ ~ Carried(t) /\ Carried(t)' => granted[t] = None
      /\ ~ Parked(t) /\ Parked(t)' => Carried(t)
  BY TokenChange
<1>2. new \in Abstract!Custody
  BY DEF CustodyOf, Place, Abstract!Custody, Abstract!Place
<1>3. Abstract!Moves(old, new)
  <2> USE <1>1 DEF CustodyOf, Place
  <2>1. CASE granted[t] = None /\ granted'[t] = None
    BY <2>1 DEF Abstract!Moves
  <2>2. CASE granted[t] = None /\ granted'[t] # None
    <3>1. old = Abstract!Unissued
      BY <2>2 DEF Abstract!Unissued
    <3>2. new = [place |-> "inflight", owner |-> Owner(t)', holders |-> {}]
      BY <2>2
    <3>3. Owner(t)' \in Devices
      BY <2>2
    <3>4. QED
      BY <3>1, <3>2, <3>3 DEF Abstract!Moves, Abstract!Issue
  <2>3. CASE granted[t] # None /\ Claimed(t)
    BY <2>3 DEF Abstract!Moves
  <2>4. CASE granted[t] # None /\ Carried(t) /\ ~ Claimed(t)
    BY <2>4 DEF Abstract!Moves, Abstract!Park, Abstract!Drop
  <2>5. CASE granted[t] # None /\ Parked(t) /\ ~ Claimed(t) /\ ~ Carried(t)
    <3>1. old = [place |-> "parked", owner |-> Owner(t), holders |-> {}]
      BY <2>5
    <3>2. CASE Claimed(t)'
      <4>1. new = [place |-> "claimed", owner |-> Owner(t),
                   holders |-> {Owner(t)}]
        BY <2>5, <3>2
      <4>2. Abstract!Claim(old, new)
        BY <3>1, <4>1, <1>1, <2>5 DEF Abstract!Claim
      <4>3. QED
        BY <4>2 DEF Abstract!Moves
    <3>3. CASE ~ Claimed(t)'
      BY <2>5, <3>3 DEF Abstract!Moves, Abstract!Drop
    <3>4. QED
      BY <3>2, <3>3
  <2>6. CASE granted[t] # None /\ ~ Parked(t) /\ ~ Claimed(t) /\ ~ Carried(t)
    BY <2>6 DEF Abstract!Moves
  <2>7. QED
    BY <2>1, <2>2, <2>3, <2>4, <2>5, <2>6
<1>4. QED
  BY <1>2, <1>3

LEMMA CustodyStep == IInv /\ PlacesOK /\ PlacesOK' /\ [Next]_vars => Abstract!Next
<1> SUFFICES ASSUME IInv, PlacesOK, PlacesOK', [Next]_vars PROVE Abstract!Next
  OBVIOUS
<1>1. ASSUME NEW t \in Tokens
      PROVE  /\ Abstract!Moves(CustodyOf(t), CustodyOf(t)')
             /\ CustodyOf(t)' \in Abstract!Custody
  BY CustodyMoves DEF PlacesOK
<1>2. QED
  BY <1>1 DEF Abstract!Next

\* The sessions, with all their races, keep the promise made for a token set:
\* it is claimed at most once, by the device it was issued for, and a token
\* set that was dropped never comes back.
THEOREM CustodyIsImplemented == Spec => CustodyKept
<1>1. IInv /\ Init => Abstract!Init
  BY CustodyInit
<1>2. IInv /\ PlacesOK /\ PlacesOK' /\ [Next]_vars => Abstract!Next
  BY CustodyStep
<1>3. Spec => [](IInv /\ PlacesOK)
  BY Invariance, PlaceFacts, PTL
<1>4. QED
  BY <1>1, <1>2, <1>3, PTL DEF Spec, CustodyKept, Abstract!Spec

\* What that says of one token set: it comes to a row only from the callback that
\* was given it and is claimed only from a row, nobody claims it a second time,
\* and one that was dropped stays dropped.
Forward(t) ==
    /\ Place(t) = "dropped" => Place(t)' = "dropped"
    /\ Place(t) = "claimed" =>
           Place(t)' = "claimed" /\ HolderSet(t)' = HolderSet(t)
    /\ Place(t)' = "parked" => Place(t) \in {"inflight", "parked"}
    /\ Place(t)' = "claimed" =>
           \/ Place(t) = "claimed"
           \/ Place(t) = "parked" /\ HolderSet(t)' = {Owner(t)}

LEMMA ForwardStep ==
    ASSUME NEW t \in Tokens, Abstract!Moves(CustodyOf(t), CustodyOf(t)'),
           IInv
    PROVE  Forward(t)
<1> DEFINE old == CustodyOf(t)
           new == CustodyOf(t)'
<1>1. /\ old.place = Place(t) /\ new.place = Place(t)'
      /\ old.holders = HolderSet(t) /\ new.holders = HolderSet(t)'
      /\ old.owner = IF granted[t] = None THEN None ELSE Owner(t)
      /\ Place(t) # "unissued" => granted[t] # None
  BY DEF CustodyOf, Place
<1>2. Abstract!Moves(old, new)
  OBVIOUS
<1>3. PICK place, owner, holders :
         old = [place |-> place, owner |-> owner, holders |-> holders]
  BY DEF CustodyOf
<1> HIDE DEF old, new
<1>4. CASE new = old
  BY <1>1, <1>4 DEF Forward
<1>5. CASE Abstract!Issue(old, new)
  BY <1>1, <1>5 DEF Forward, Abstract!Issue, Abstract!Unissued
<1>6. CASE Abstract!Park(old, new)
  BY <1>1, <1>3, <1>6 DEF Forward, Abstract!Park
<1>7. CASE Abstract!Claim(old, new)
  BY <1>1, <1>7 DEF Forward, Abstract!Claim
<1>8. CASE Abstract!Drop(old, new)
  BY <1>1, <1>3, <1>8 DEF Forward, Abstract!Drop
<1>9. QED
  BY <1>2, <1>4, <1>5, <1>6, <1>7, <1>8 DEF Abstract!Moves

\* Token sets only move forward, and a claim is for the device of the session
\* whose callback was given the token set.
THEOREM TokensOnlyMoveForward == Spec => [][\A t \in Tokens : Forward(t)]_vars
<1> DEFINE A == \A t \in Tokens : Forward(t)
<1>1. IInv /\ PlacesOK /\ PlacesOK' /\ [Next]_vars => A
  <2> SUFFICES ASSUME IInv, PlacesOK, PlacesOK', [Next]_vars PROVE A
    OBVIOUS
  <2>1. QED
    BY CustodyMoves, ForwardStep DEF PlacesOK
<1>2. Spec => [](IInv /\ PlacesOK)
  BY Invariance, PlaceFacts, PTL
<1> HIDE DEF A
<1>3. Spec => [][A]_vars
  BY <1>1, <1>2, PTL DEF Spec
<1>4. QED
  BY <1>3 DEF A

-----------------------------------------------------------------------------
(***************************************************************************)
(* What a composition with the devices relies on.  A handler that has      *)
(* begun keeps its session and its device until it ends.                   *)
(***************************************************************************)
Kept(x, q) ==
    \/ q = Idle
    \/ /\ q.pc # "idle"
       /\ q.op = x.op
       /\ q.session = x.session
       /\ q.device = x.device

LEMMA SlotKeeps ==
    ASSUME IInv, NEW r \in Requests, Serve(r) \/ Abort(r)
    PROVE  /\ Kept(requests[r], requests'[r])
           /\ \A x \in Requests \ {r} : requests'[x] = requests[x]
<1> DEFINE Goal == /\ Kept(requests[r], requests'[r])
                   /\ \A x \in Requests \ {r} : requests'[x] = requests[x]
<1>1. requests \in [Requests -> Request] /\ requests[r] \in Request
  BY DEF IInv, TypeOK
<1>2. ASSUME Finish(r) PROVE Goal
  BY <1>1, <1>2 DEF Finish, Kept
<1>3. ASSUME NEW goal, Mark(r, goal) PROVE Goal
  BY <1>1, <1>3 DEF Mark, Kept, Request
<1>4. ASSUME StartChecked(r) PROVE Goal
  BY <1>2, <1>3, <1>4 DEF StartChecked
<1>5. ASSUME CallbackChecked(r) PROVE Goal
  <2>1. CASE requests' = [requests EXCEPT ![r] =
               [@ EXCEPT !.pc = "calling", !.seen = "absent"]]
    BY <1>1, <2>1 DEF Kept, Request
  <2>2. QED
    BY <1>2, <1>3, <1>5, <2>1 DEF CallbackChecked
<1>6. ASSUME CancelChecked(r) PROVE Goal
  <2>1. CASE requests' = [requests EXCEPT ![r] =
               [@ EXCEPT !.pc = "update", !.goal = "cancelled"]]
    BY <1>1, <2>1 DEF Kept, Request
  <2>2. QED
    BY <1>2, <1>6, <2>1 DEF CancelChecked
<1>7. ASSUME NEW t \in Tokens, ExchangeGranted(r, t) PROVE Goal
  BY <1>1, <1>7 DEF ExchangeGranted, Kept, Request
<1>8. ASSUME MarkGet(r) PROVE Goal
  BY <1>1, <1>8 DEF MarkGet, Kept, Request
<1>9. ASSUME MarkChecked(r) PROVE Goal
  <2>1. CASE requests' = [requests EXCEPT ![r].pc = "update"]
    BY <1>1, <2>1 DEF Kept, Request
  <2>2. QED
    BY <1>2, <1>9, <2>1 DEF MarkChecked
<1>10. ASSUME RedeemCommit(r) PROVE Goal
  BY <1>1, <1>10 DEF RedeemCommit, Kept, Request
<1>11. CASE Serve(r)
  BY <1>2, <1>3, <1>4, <1>5, <1>6, <1>7, <1>8, <1>9, <1>10, <1>11
     DEF Serve, ExpireIfNeeded, StatusChecked, ExchangeRefused, UpdateRow,
         SaveBrokerRefreshToken
<1>12. CASE Abort(r)
  BY <1>2, <1>12 DEF Abort
<1>13. QED
  BY <1>11, <1>12

\* A cancellation that is about to be written is for the device of the row.
CancelOwn(r) ==
    requests[r].op = "cancel" /\ requests[r].pc = "update" =>
        requests[r].device = sessions[requests[r].session].device

CancelsOwn == \A r \in Requests : CancelOwn(r)

LEMMA CancelsInit == Init => CancelsOwn
BY DEF Init, CancelsOwn, CancelOwn, Idle

\* A request decides to write a cancellation in CancelChecked.
LEMMA NewCancel ==
    ASSUME IInv, [Next]_vars, NEW r \in Requests,
           requests'[r].op = "cancel", requests'[r].pc = "update"
    PROVE  \/ requests'[r] = requests[r]
           \/ CancelChecked(r) /\ requests[r].device =
                                      sessions[requests[r].session].device
<1> DEFINE Goal == \/ requests'[r] = requests[r]
                   \/ CancelChecked(r) /\ requests[r].device =
                          sessions[requests[r].session].device
<1>1. requests \in [Requests -> Request] /\ requests[r] \in Request
  BY DEF IInv, TypeOK
<1>2. ASSUME NEW x \in Requests, Finish(x) PROVE Goal
  BY <1>1, <1>2 DEF Finish, Idle
<1>3. ASSUME NEW x \in Requests, NEW goal, Mark(x, goal) PROVE Goal
  BY <1>1, <1>3 DEF Mark, Request
<1>4. ASSUME NEW x \in Requests, StartChecked(x) \/ StatusChecked(x)
                                    \/ ExchangeRefused(x) PROVE Goal
  BY <1>2, <1>3, <1>4 DEF StartChecked, StatusChecked, ExchangeRefused
<1>5. ASSUME NEW x \in Requests, CallbackChecked(x) PROVE Goal
  <2>1. CASE requests' = [requests EXCEPT ![x] =
               [@ EXCEPT !.pc = "calling", !.seen = "absent"]]
    BY <1>1, <2>1 DEF Request
  <2>2. QED
    BY <1>2, <1>3, <1>5, <2>1 DEF CallbackChecked
<1>6. ASSUME NEW x \in Requests, CancelChecked(x) PROVE Goal
  <2>1. CASE /\ requests[x].device = sessions[requests[x].session].device
             /\ requests' = [requests EXCEPT ![x] =
                   [@ EXCEPT !.pc = "update", !.goal = "cancelled"]]
    BY <1>1, <1>6, <2>1
  <2>2. QED
    BY <1>2, <1>6, <2>1 DEF CancelChecked
<1>7. ASSUME NEW x \in Requests, NEW t \in Tokens, ExchangeGranted(x, t)
      PROVE  Goal
  BY <1>1, <1>7 DEF ExchangeGranted, Request
<1>8. ASSUME NEW x \in Requests, MarkGet(x) PROVE Goal
  BY <1>1, <1>8 DEF MarkGet, Request
<1>9. ASSUME NEW x \in Requests, MarkChecked(x) PROVE Goal
  <2>1. CASE requests' = [requests EXCEPT ![x].pc = "update"]
    <3>1. requests[x] \in Request /\ requests[x].op # "cancel"
      BY <1>1, <1>9 DEF IInv, RequestsOK, RequestOK, Marks, MarkChecked
    <3>2. QED
      BY <1>1, <2>1, <3>1 DEF Request
  <2>2. QED
    BY <1>2, <1>9, <2>1 DEF MarkChecked
<1>10. ASSUME NEW x \in Requests, RedeemCommit(x) PROVE Goal
  BY <1>1, <1>10 DEF RedeemCommit, Request
<1>11. ASSUME NEW x \in Requests, Serve(x) \/ Abort(x) PROVE Goal
  BY <1>2, <1>4, <1>5, <1>6, <1>7, <1>8, <1>9, <1>10, <1>11
     DEF Serve, ExpireIfNeeded, UpdateRow, SaveBrokerRefreshToken, Abort
<1>12. ASSUME NEW x \in Requests, Arrive(x) PROVE Goal
  <2>1. ASSUME NEW s \in Sessions, NEW op, NEW d, NEW p, Get(x, op, s, d, p)
        PROVE  Goal
    BY <1>1, <2>1 DEF Get
  <2>2. ASSUME NEW s \in Sessions, NEW d \in Devices, RedeemLock(x, s, d)
        PROVE  Goal
    BY <1>1, <2>2 DEF RedeemLock, Locked, Idle
  <2>3. QED
    BY <1>12, <2>1, <2>2
       DEF Arrive, StartOAuth, CallbackOAuth, GetStatus, CancelSession
<1>13. CASE \/ \E s \in Sessions, d \in Devices, p \in Providers,
                  then \in 0 .. clock : CreateSession(s, d, p, then)
            \/ Tick
            \/ UNCHANGED vars
  BY <1>13 DEF CreateSession, Tick, vars
<1>14. QED
  BY <1>11, <1>12, <1>13 DEF Next

LEMMA CancelsStep == IInv /\ CancelsOwn /\ [Next]_vars => CancelsOwn'
<1> SUFFICES ASSUME IInv, CancelsOwn, [Next]_vars, NEW r \in Requests,
                    requests'[r].op = "cancel", requests'[r].pc = "update"
             PROVE  requests'[r].device =
                        sessions'[requests'[r].session].device
  BY DEF CancelsOwn, CancelOwn
<1>1. requests[r] \in Request
  BY DEF IInv, TypeOK
<1>2. /\ requests[r].pc # "idle"
      /\ requests'[r].session = requests[r].session
      /\ requests'[r].device = requests[r].device
      /\ requests[r].device = sessions[requests[r].session].device
  <2>1. CASE requests'[r] = requests[r]
    BY <2>1 DEF CancelsOwn, CancelOwn
  <2>2. CASE /\ CancelChecked(r)
             /\ requests[r].device = sessions[requests[r].session].device
    <3>1. Kept(requests[r], requests'[r]) /\ requests'[r] # Idle
      BY <2>2, SlotKeeps DEF Serve, Idle
    <3>2. QED
      BY <2>2, <3>1 DEF Kept, CancelChecked, At
  <2>3. QED
    BY <2>1, <2>2, NewCancel
<1>3. requests[r].session \in Sessions /\ Exists(requests[r].session)
  BY <1>2 DEF IInv, RequestsOK, RequestOK, RowsOK
<1>4. QED
  BY <1>2, <1>3, RowKeeps

\* Only CreateSession makes a row.
LEMMA NoBirth ==
    ASSUME IInv, NEW s \in Sessions, ~ Exists(s),
           NEW r \in Requests, Arrive(r) \/ Serve(r) \/ Abort(r)
    PROVE  sessions'[s] = sessions[s]
<1>1. requests[r].pc # "idle" => requests[r].session # s
  BY DEF IInv, RowsOK
<1>2. ASSUME NEW row, requests[r].pc # "idle",
             sessions' = [sessions EXCEPT ![requests[r].session] = row]
      PROVE  sessions'[s] = sessions[s]
  BY <1>1, <1>2 DEF IInv, TypeOK
<1>3. CASE ExpireIfNeeded(r) \/ UpdateRow(r) \/ RedeemCommit(r)
  BY <1>2, <1>3 DEF ExpireIfNeeded, UpdateRow, RedeemCommit
<1>4. CASE Arrive(r) \/ Abort(r)
  BY <1>4 DEF Arrive, StartOAuth, CallbackOAuth, GetStatus, CancelSession,
              Get, RedeemLock, Locked, Abort
<1>5. CASE Serve(r)
  BY <1>3, <1>5
     DEF Serve, StartChecked, CallbackChecked, StatusChecked, CancelChecked,
         ExchangeGranted, ExchangeRefused, MarkGet, MarkChecked,
         SaveBrokerRefreshToken
<1>6. QED
  BY <1>4, <1>5
=============================================================================
