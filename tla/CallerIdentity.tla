----------------------------- MODULE CallerIdentity -----------------------------
(***************************************************************************)
(* adapters/identity/sessions.py, api/http/identity.py and                 *)
(* api/http/middleware.py: who is calling, and for which tenant.  The      *)
(* sessions are the login service's hashes in Redis, one per token, each   *)
(* with its remaining life; reading one slides its expiry.                 *)
(***************************************************************************)
EXTENDS Integers

CONSTANTS
    Token, Tenant,
    SessionOf,      \* token -> [user, tenant], the hash the login service wrote
    Member,         \* user -> tenant or None: the membership resolver
    DefaultTenant,  \* of a deployment whose logins all belong to one tenant, or None
    SoloTenant,     \* of a solo deployment, None in a hosted one
    ServiceChannel, \* whether a service secret is configured
    Life            \* ttl_minutes, in ticks

VARIABLE session    \* token -> ticks left, 0 when there is no such key

Nobody == "none"

IdentityAssumption ==
    /\ Nobody \notin Tenant /\ Nobody \notin Token
    /\ \A k \in Token : SessionOf[k].tenant \in Tenant \cup {Nobody}
    /\ \A k \in Token : Member[SessionOf[k].user] \in Tenant \cup {Nobody}
    /\ {DefaultTenant, SoloTenant} \subseteq Tenant \cup {Nobody}
    /\ ServiceChannel \in BOOLEAN /\ Life \in Nat \ {0}
ASSUME IdentityAssumption

\* The headers read: a service secret, right or wrong, whom it acts for, and
\* the Authorization header's scheme and token.
Headers ==
    [service : {Nobody, "right", "wrong"}, acting : Tenant \cup {Nobody},
     scheme : {Nobody, "raw", "bearer", "basic"}, token : Token \cup {Nobody}]

SessionsInit == session = [k \in Token |-> 0]

\* A login writes a new session; its token is a fresh one.
Login(k) ==
    /\ session[k] = 0
    /\ session' = [session EXCEPT ![k] = Life]

Tick == session' = [k \in Token |-> IF session[k] > 0 THEN session[k] - 1 ELSE 0]

\* refresh: EXPIRE does nothing to a key that is gone.
Refresh(k) == session' = [session EXCEPT ![k] = IF @ > 0 THEN Life ELSE 0]

-----------------------------------------------------------------------------
(* The three routes in.  Each answers with the tenant the request acts for, or *)
(* Nobody: AuthenticationError, a 401.                                         *)

\* A service names the tenant, and is refused where no channel is configured.
FromServiceToken(h) ==
    IF ServiceChannel /\ h.service = "right" THEN h.acting ELSE Nobody

\* bare_token: with or without Bearer in front of it; no other scheme.
BareToken(h) == IF h.scheme \in {"raw", "bearer"} THEN h.token ELSE Nobody

\* Whether the answer depends on a session.
NeedsSession(h) == h.service = Nobody /\ SoloTenant = Nobody /\ BareToken(h) # Nobody

\* SessionVerifier and ClaimsMapper: the session's tenant, the default one, or
\* the user's membership.
ToScope(k) ==
    LET s == SessionOf[k]
    IN  IF s.tenant # Nobody THEN s.tenant
        ELSE IF DefaultTenant # Nobody THEN DefaultTenant
        ELSE Member[s.user]

\* IdentityResolver.resolve, where no session is needed.
WithoutSession(h) ==
    IF h.service # Nobody THEN FromServiceToken(h) ELSE SoloTenant
=============================================================================
