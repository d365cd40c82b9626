-------------------------------- MODULE Startup --------------------------------
(***************************************************************************)
(* The configuration of the broker across restarts.  A process reads its   *)
(* environment once, registers the providers it finds there and serves     *)
(* with them until it ends; the sessions, and the browsers that are with a *)
(* provider, outlive it and may meet a process with another environment.   *)
(*                                                                         *)
(* A process has one environment for all of its life, so within one        *)
(* handler nothing this module is about can change: its handlers are       *)
(* atomic.  What the statements of two handlers do to each other is the    *)
(* matter of OAuthSession.                                                 *)
(***************************************************************************)
EXTENDS Integers

CONSTANTS
    Providers,    \* Name() of the providers that are compiled in
    Google,       \* the one that has to be configured
    Names,        \* the spellings of the parameter :provider
    Normalize,    \* what strings.ToLower and strings.TrimSpace make of them
    Bases,        \* values of PUBLIC_BASE_URL
    Chosen,       \* redirect URLs that an operator may set
    Sessions,     \* identifiers of sessions, and their states
    None          \* no value

URL == [base : Bases, name : Names]

ASSUME StartupAssumption ==
    /\ Google \in Providers
    /\ Providers \subseteq Names
    /\ Normalize \in [Names -> Names]
    /\ \A p \in Providers : Normalize[p] = p
    /\ Chosen \subseteq URL
    /\ None \notin Names \cup Chosen

VARIABLES
    env,          \* the environment of the process, with its .env file
    phase,        \* how far main is
    registry,     \* the providers that have been registered
    sessions,     \* the table oauth_sessions
    visits        \* the browsers that have been sent to a provider

vars == <<env, phase, registry, sessions, visits>>

-----------------------------------------------------------------------------
(* The environment.                                                        *)

ServerVars == {"PUBLIC_BASE_URL", "SESSION_TTL", "SESSION_CLEANUP_INTERVAL"}

DatabaseVars == {"DATABASE_URL"}

AuthVars == {"JWT_ACCESS_TOKEN_TTL", "DEVICE_SIGNATURE_CLOCK_SKEW"}

LogVars == {"LOG_FILE"}

\* bad is a variable whose value the broker refuses: one is enough to keep it
\* from starting.  id and secret are the providers with a client ID, and with a
\* client secret; redirect is the redirect URL, if it is set.
Environment ==
    [base : Bases, id : SUBSET Providers, secret : SUBSET Providers,
     redirect : [Providers -> Chosen \cup {None}],
     bad : ServerVars \cup DatabaseVars \cup AuthVars \cup LogVars \cup {None}]

LoadServer == env.bad \notin ServerVars

LoadDatabase == env.bad \notin DatabaseVars

LoadAuth == env.bad \notin AuthVars

SetupLogging == env.bad \notin LogVars

\* Mutant of Enabled: an optional provider takes both of them to be enabled.
EnabledWithBoth ==
    {Google} \cup (env.id \cap env.secret)

\* The client ID or the client secret is enough for an optional provider.
Enabled == {Google} \cup env.id \cup env.secret

\* Validate.
Complete(p) == p \in env.id /\ p \in env.secret

\* The constructor of a provider validates once more.
New(p) == Complete(p)

\* Mutant of DefaultRedirect: the path has been copied from LoadGoogle.
DefaultRedirectOfGoogle(p) == [base |-> env.base, name |-> Google]

DefaultRedirect(p) == [base |-> env.base, name |-> p]

Redirect(p) ==
    IF env.redirect[p] # None THEN env.redirect[p] ELSE DefaultRedirect(p)

-----------------------------------------------------------------------------
(* main.                                                                   *)

\* Load and setupLogging; whatever fails, the process ends before it has done
\* anything.
Load ==
    /\ phase = "down"
    /\ LoadServer /\ LoadDatabase /\ LoadAuth
    /\ \A p \in Enabled : Complete(p)
    /\ SetupLogging
    /\ phase' = "registering"
    /\ UNCHANGED <<env, registry, sessions, visits>>

\* The constructor of a provider, and mustRegister; Google comes first.
Register(p) ==
    /\ phase = "registering"
    /\ p \in Enabled \ registry
    /\ New(p)
    /\ p = Google \/ Google \in registry
    /\ registry' = registry \cup {p}
    /\ UNCHANGED <<env, phase, sessions, visits>>

\* NewPostgresStore has succeeded, and the listener is there.
Open ==
    /\ phase = "registering"
    /\ Enabled \subseteq registry
    /\ phase' = "serving"
    /\ UNCHANGED <<env, registry, sessions, visits>>

\* A stop, a crash, or log.Fatal.
Stop ==
    /\ phase # "down"
    /\ phase' = "down"
    /\ registry' = {}
    /\ UNCHANGED <<env, sessions, visits>>

\* The operator sets or unsets a variable.  What is edited while a process runs
\* is not seen before the next one.
Edit ==
    /\ phase = "down"
    /\ \/ \E b \in Bases : env' = [env EXCEPT !.base = b]
       \/ \E p \in Providers :
             \/ env' = [env EXCEPT !.id = @ \cup {p}]
             \/ env' = [env EXCEPT !.id = @ \ {p}]
             \/ env' = [env EXCEPT !.secret = @ \cup {p}]
             \/ env' = [env EXCEPT !.secret = @ \ {p}]
             \/ \E u \in Chosen \cup {None} :
                   env' = [env EXCEPT !.redirect[p] = u]
       \/ \E x \in ServerVars \cup DatabaseVars \cup AuthVars \cup LogVars
                     \cup {None} :
             env' = [env EXCEPT !.bad = x]
    /\ UNCHANGED <<phase, registry, sessions, visits>>

-----------------------------------------------------------------------------
(* The handlers.                                                           *)

Errors == {"provider_mismatch", "redirect_uri_mismatch", "other"}

Session ==
    [provider : Providers \cup {None},
     status : {"absent", "pending", "authorizing", "success", "failed",
               "ended"},
     error : Errors \cup {None}]

NoSession == [provider |-> None, status |-> "absent", error |-> None]

\* chosen: the operator had set the URL.
Visit == [session : Sessions, url : URL, chosen : BOOLEAN]

IsOpen(s) == sessions[s].status \in {"pending", "authorizing"}

\* Registry.Get: the name is known, however it is spelled.
Known(name) == Normalize[name] \in registry

\* Mutant of CreateSession: the row has the provider as the client spelled it.
CreateSessionAsSpelled(s, name) ==
    /\ phase = "serving"
    /\ Known(name)
    /\ sessions[s] = NoSession
    /\ sessions' = [sessions EXCEPT ![s] =
          [provider |-> name, status |-> "pending", error |-> None]]
    /\ UNCHANGED <<env, phase, registry, visits>>

CreateSession(s, name) ==
    /\ phase = "serving"
    /\ Known(name)
    /\ sessions[s] = NoSession
    /\ sessions' = [sessions EXCEPT ![s] =
          [provider |-> Normalize[name], status |-> "pending", error |-> None]]
    /\ UNCHANGED <<env, phase, registry, visits>>

\* AuthURL: where the provider is asked to send the browser afterwards.
SentTo(s) ==
    [session |-> s, url |-> Redirect(sessions[s].provider),
     chosen |-> env.redirect[sessions[s].provider] # None]

StartOAuth(s, name) ==
    /\ phase = "serving"
    /\ Known(name)
    /\ sessions[s].provider = Normalize[name]
    /\ IsOpen(s)
    /\ visits' = visits \cup {SentTo(s)}
    /\ sessions' = [sessions EXCEPT ![s].status = "authorizing"]
    /\ UNCHANGED <<env, phase, registry>>

Fail(s, error) ==
    sessions' = [sessions EXCEPT ![s].status = "failed", ![s].error = error]

\* An Exchange names the redirect URL again, and the provider compares it with
\* the one it had in the authorization request.
SameURL(v) == v.url = Redirect(sessions[v.session].provider)

\* A browser comes back, to the URL it was given.  A session that has ended, or
\* a provider that is not registered, gets an answer and nothing else.
CallbackOAuth(v) ==
    /\ phase = "serving"
    /\ Known(v.url.name)
    /\ IsOpen(v.session)
    /\ IF sessions[v.session].provider # Normalize[v.url.name]
         THEN Fail(v.session, "provider_mismatch")
         ELSE \/ Fail(v.session, "other")
              \/ ~ SameURL(v) /\ Fail(v.session, "redirect_uri_mismatch")
              \/ SameURL(v)
                    /\ sessions' = [sessions EXCEPT ![v.session].status =
                                       "success"]
    /\ UNCHANGED <<env, phase, registry, visits>>

\* A session is cancelled, or found to be expired.
End(s) ==
    /\ phase = "serving"
    /\ IsOpen(s)
    /\ sessions' = [sessions EXCEPT ![s].status = "ended"]
    /\ UNCHANGED <<env, phase, registry, visits>>

-----------------------------------------------------------------------------

Init ==
    /\ env \in Environment
    /\ phase = "down"
    /\ registry = {}
    /\ sessions = [s \in Sessions |-> NoSession]
    /\ visits = {}

Main ==
    \/ Load
    \/ \E p \in Providers : Register(p)
    \/ Open
    \/ Stop
    \/ Edit

Next ==
    \/ Main
    \/ \E s \in Sessions, name \in Names :
          CreateSession(s, name) \/ StartOAuth(s, name)
    \/ \E v \in visits : CallbackOAuth(v)
    \/ \E s \in Sessions : End(s)

Spec == Init /\ [][Next]_vars

TypeOK ==
    /\ env \in Environment
    /\ phase \in {"down", "registering", "serving"}
    /\ registry \subseteq Providers
    /\ sessions \in [Sessions -> Session]
    /\ visits \subseteq Visit

-----------------------------------------------------------------------------
(* Properties.                                                             *)

\* A broker that serves has every provider its operator has begun to configure,
\* and Google in any case, each with a client ID and a secret: half of a
\* configuration stops the start, and is not quietly left out.
ServesComplete ==
    phase = "serving" =>
        \A p \in {Google} \cup env.id \cup env.secret :
            p \in registry /\ Complete(p)

\* A browser comes back in vain, because of the place it comes back to, only if
\* the operator had set that URL, or has moved the broker to another one while
\* the browser was away.  The URLs that Load makes up lead each provider to its
\* own callback, and a restart alone costs no session.
LostOnlyWhenMoved ==
    [][\A s \in Sessions :
          /\ sessions'[s].error # sessions[s].error
          /\ sessions'[s].error \in
                {"provider_mismatch", "redirect_uri_mismatch"}
          => \E v \in visits :
                /\ v.session = s
                /\ v.chosen \/ v.url # Redirect(sessions[s].provider)]_vars
=============================================================================
