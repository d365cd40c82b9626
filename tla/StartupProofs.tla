----------------------------- MODULE StartupProofs -----------------------------
(***************************************************************************)
(* Proofs about Startup, for any providers, spellings and URLs.            *)
(***************************************************************************)
EXTENDS Startup, TLAPS

\* What has been loaded is complete, and stays so while the process runs.
Loaded == phase # "down" => \A p \in Enabled : Complete(p)

\* The providers that are found in the environment have been registered.
Served == phase = "serving" => Enabled \subseteq registry

\* A browser was sent away for a session of a provider, with the operator's URL
\* or with one that leads to the callback of that provider.
Sent(v) ==
    /\ sessions[v.session].provider \in Providers
    /\ v.chosen \/ v.url.name = sessions[v.session].provider

AllSent == \A v \in visits : Sent(v)

IInv == TypeOK /\ Loaded /\ Served /\ AllSent

\* The redirect URL of a provider is one the operator has set, or leads to the
\* provider itself.
LEMMA RedirectType ==
    ASSUME TypeOK, NEW p \in Providers
    PROVE  /\ Redirect(p) \in URL
           /\ env.redirect[p] # None \/ Redirect(p).name = p
<1>1. env.redirect[p] \in Chosen \cup {None} /\ env.base \in Bases
  BY DEF TypeOK, Environment
<1>2. DefaultRedirect(p) \in URL /\ DefaultRedirect(p).name = p
  BY <1>1, StartupAssumption DEF DefaultRedirect, URL
<1>3. QED
  BY <1>1, <1>2, StartupAssumption DEF Redirect

LEMMA InitInv == Init => IInv
BY DEF Init, IInv, TypeOK, Loaded, Served, AllSent, Session, NoSession

\* The steps of main and of the operator.
LEMMA MainInv == IInv /\ Main => IInv'
<1> SUFFICES ASSUME IInv, Main PROVE IInv'
  OBVIOUS
<1> USE DEF IInv
<1>1. CASE Load
  BY <1>1 DEF Load, TypeOK, Loaded, Served, AllSent, Sent, Enabled, Complete
<1>2. ASSUME NEW p \in Providers, Register(p) PROVE IInv'
  BY <1>2 DEF Register, TypeOK, Loaded, Served, AllSent, Sent, Enabled, Complete
<1>3. CASE Open
  BY <1>3 DEF Open, TypeOK, Loaded, Served, AllSent, Sent, Enabled, Complete
<1>4. CASE Stop
  BY <1>4 DEF Stop, TypeOK, Loaded, Served, AllSent, Sent
<1>5. CASE Edit
  <2>1. env' \in Environment
    BY <1>5 DEF Edit, TypeOK, Environment
  <2>2. QED
    BY <1>5, <2>1 DEF Edit, TypeOK, Loaded, Served, AllSent, Sent
<1>6. QED
  BY <1>1, <1>2, <1>3, <1>4, <1>5 DEF Main

\* What a step of a handler may do to the sessions without disturbing the
\* browsers that are away: it may begin one, but not give it to another
\* provider.
KeepsProviders ==
    \A s \in Sessions :
        sessions[s].provider # None =>
            sessions'[s].provider = sessions[s].provider

LEMMA SameVisits ==
    ASSUME IInv, KeepsProviders, sessions' \in [Sessions -> Session],
           UNCHANGED <<env, phase, registry, visits>>
    PROVE  IInv'
<1>1. None \notin Providers
  BY StartupAssumption
<1>2. AllSent'
  BY <1>1 DEF IInv, TypeOK, AllSent, Sent, KeepsProviders, Visit
<1>3. QED
  BY <1>2 DEF IInv, TypeOK, Loaded, Served, Enabled, Complete

LEMMA CreateSessionInv ==
    ASSUME IInv, NEW s \in Sessions, NEW name \in Names, CreateSession(s, name)
    PROVE  IInv'
<1>1. sessions' \in [Sessions -> Session]
  BY DEF CreateSession, Known, IInv, TypeOK, Session
<1>2. KeepsProviders
  BY DEF CreateSession, KeepsProviders, NoSession, IInv, TypeOK
<1>3. QED
  BY <1>1, <1>2, SameVisits DEF CreateSession

LEMMA StartOAuthInv ==
    ASSUME IInv, NEW s \in Sessions, NEW name \in Names, StartOAuth(s, name)
    PROVE  IInv'
<1> DEFINE p == sessions[s].provider
<1>1. p \in Providers
  BY DEF StartOAuth, Known, IInv, TypeOK
<1>2. /\ Redirect(p) \in URL
      /\ env.redirect[p] # None \/ Redirect(p).name = p
  BY <1>1, RedirectType DEF IInv
<1>3. SentTo(s) \in Visit
  BY <1>2 DEF SentTo, Visit
<1>4. /\ sessions' \in [Sessions -> Session]
      /\ \A t \in Sessions : sessions'[t].provider = sessions[t].provider
  BY DEF StartOAuth, IInv, TypeOK, Session
<1>5. TypeOK'
  BY <1>3, <1>4 DEF StartOAuth, IInv, TypeOK
<1>6. ASSUME NEW v \in visits' PROVE Sent(v)'
  <2>1. CASE v \in visits
    BY <2>1, <1>4 DEF IInv, TypeOK, AllSent, Sent, Visit
  <2>2. CASE v = SentTo(s)
    <3>1. v.session = s /\ v.url = Redirect(p)
      BY <2>2 DEF SentTo
    <3>2. v.chosen = (env.redirect[p] # None)
      BY <2>2 DEF SentTo
    <3>3. v.chosen \/ v.url.name = p
      BY <3>1, <3>2, <1>2
    <3>4. QED
      BY <3>1, <3>3, <1>1, <1>4 DEF Sent
  <2>3. QED
    BY <2>1, <2>2 DEF StartOAuth
<1>7. AllSent'
  BY <1>6 DEF AllSent
<1>8. QED
  BY <1>5, <1>7 DEF StartOAuth, IInv, Loaded, Served, Enabled, Complete

LEMMA CallbackOAuthInv ==
    ASSUME IInv, NEW v \in visits, CallbackOAuth(v)
    PROVE  IInv'
<1>1. v.session \in Sessions
  BY DEF IInv, TypeOK, Visit
<1>2. sessions' \in [Sessions -> Session] /\ KeepsProviders
  BY <1>1 DEF CallbackOAuth, Fail, KeepsProviders, IInv, TypeOK, Session, Errors
<1>3. QED
  BY <1>2, SameVisits DEF CallbackOAuth

LEMMA EndInv == ASSUME IInv, NEW s \in Sessions, End(s) PROVE IInv'
<1>1. sessions' \in [Sessions -> Session] /\ KeepsProviders
  BY DEF End, KeepsProviders, IInv, TypeOK, Session
<1>2. QED
  BY <1>1, SameVisits DEF End

LEMMA NextInv == IInv /\ [Next]_vars => IInv'
<1>1. ASSUME IInv, UNCHANGED vars PROVE IInv'
  BY <1>1 DEF vars, IInv, TypeOK, Loaded, Served, AllSent, Sent, Enabled,
              Complete
<1>2. QED
  BY <1>1, MainInv, CreateSessionInv, StartOAuthInv, CallbackOAuthInv, EndInv
     DEF Next

\* The inductive invariant holds throughout.
THEOREM Invariance == Spec => []IInv
BY InitInv, NextInv, PTL DEF Spec

-----------------------------------------------------------------------------

\* Type correctness: the environment, the registry, the sessions and the
\* browsers keep their shape through every restart.
THEOREM TypeCorrect == Spec => []TypeOK
<1>1. IInv => TypeOK
  BY DEF IInv
<1>2. QED
  BY <1>1, Invariance, PTL

\* Every provider that an operator has begun to configure is served, and
\* complete, by a broker that has started: main and Load.
THEOREM StartsComplete == Spec => []ServesComplete
<1>1. IInv => ServesComplete
  BY DEF IInv, Loaded, Served, ServesComplete, Enabled
<1>2. QED
  BY <1>1, Invariance, PTL

\* A session is lost to the place its browser comes back to only if the operator
\* had set the URL, or has moved the broker meanwhile: StartOAuth, CallbackOAuth
\* and the redirect URLs that Load makes up.
THEOREM LosesNoBrowser == Spec => LostOnlyWhenMoved
<1> DEFINE Lost(s) ==
      /\ sessions'[s].error # sessions[s].error
      /\ sessions'[s].error \in {"provider_mismatch", "redirect_uri_mismatch"}
    Moved(s) ==
      \E v \in visits : /\ v.session = s
                        /\ v.chosen \/ v.url # Redirect(sessions[s].provider)
    Goal == \A s \in Sessions : Lost(s) => Moved(s)
<1>1. ASSUME IInv, NEW v \in visits, CallbackOAuth(v), NEW s \in Sessions,
             Lost(s)
      PROVE  Moved(s)
  <2>1. s = v.session
    BY <1>1 DEF CallbackOAuth, Fail, IInv, TypeOK
  <2>2. CASE sessions[s].provider # Normalize[v.url.name]
    <3>1. v.chosen \/ v.url.name = sessions[s].provider
      BY <1>1, <2>1 DEF IInv, AllSent, Sent
    <3>2. sessions[s].provider \in Providers
      BY <1>1, <2>1 DEF IInv, AllSent, Sent
    <3>3. v.chosen
      BY <2>2, <3>1, <3>2, StartupAssumption
    <3>4. QED
      BY <2>1, <3>3
  <2>3. CASE sessions[s].provider = Normalize[v.url.name]
    <3>1. CASE Fail(v.session, "other")
      BY <1>1, <2>1, <3>1 DEF Fail, IInv, TypeOK, Session
    <3>2. CASE ~ SameURL(v)
      BY <2>1, <3>2 DEF SameURL
    <3>3. CASE sessions' = [sessions EXCEPT ![v.session].status = "success"]
      BY <1>1, <2>1, <3>3 DEF IInv, TypeOK, Session
    <3>4. QED
      BY <1>1, <2>1, <2>3, <3>1, <3>2, <3>3 DEF CallbackOAuth
  <2>4. QED
    BY <2>2, <2>3
<1>2. ASSUME IInv, NEW s \in Sessions,
             \E t \in Sessions, name \in Names :
                CreateSession(t, name) \/ StartOAuth(t, name) \/ End(t)
      PROVE  ~ Lost(s)
  <2>1. PICK t \in Sessions, name \in Names :
           CreateSession(t, name) \/ StartOAuth(t, name) \/ End(t)
    BY <1>2
  <2>2. sessions'[s].error = sessions[s].error
    BY <1>2, <2>1 DEF CreateSession, StartOAuth, End, IInv, TypeOK, Session,
                      NoSession
  <2>3. QED
    BY <2>2
<1>3. ASSUME UNCHANGED sessions, NEW s \in Sessions PROVE ~ Lost(s)
  BY <1>3
<1>4. IInv /\ [Next]_vars => Goal
  <2> SUFFICES ASSUME IInv, [Next]_vars, NEW s \in Sessions, Lost(s)
               PROVE  Moved(s)
    OBVIOUS
  <2>1. CASE Main
    BY <2>1, <1>3 DEF Main, Load, Register, Open, Stop, Edit
  <2>2. CASE UNCHANGED vars
    BY <2>2, <1>3 DEF vars
  <2>3. CASE \E t \in Sessions, name \in Names :
                CreateSession(t, name) \/ StartOAuth(t, name)
    BY <2>3, <1>2
  <2>4. CASE \E v \in visits : CallbackOAuth(v)
    BY <2>4, <1>1
  <2>5. CASE \E t \in Sessions : End(t)
    BY <2>5, <1>2, StartupAssumption
  <2>6. QED
    BY <2>1, <2>2, <2>3, <2>4, <2>5 DEF Next
<1>5. IInv /\ [Next]_vars => [Goal]_vars
  BY <1>4
<1>6. QED
  BY <1>5, Invariance, PTL DEF Spec, LostOnlyWhenMoved
=============================================================================
