------------------------------ MODULE ModelSettings ------------------------------
(***************************************************************************)
(* api/http/configuration.py over adapters/persistence/repositories.py:    *)
(* a tenant points roles at models, and asks what serves one.  Requests    *)
(* come from anyone, run concurrently, each in a transaction of its own    *)
(* (runtime/container.py), and may outlive the process's deployment: a     *)
(* later one offers another catalogue.                                     *)
(***************************************************************************)
EXTENDS CallerIdentity, ModelCatalog

CONSTANTS
    Request,
    Presented,      \* the headers requests come with
    Asks,           \* what they ask for: [op, role, model]
    Offers,         \* catalogues somebody may try to deploy
    Before,         \* preferences a tenant may have from before
    KeyRings,       \* what tenants may have stored: tenant -> provider id -> see Resolution
    Variables,      \* the variables platform keys are found in
    KeyManagement   \* whether a decryption of stored keys is wired

VARIABLES
    catalog,    \* what new requests are offered
    preference, \* the rows: [id, tenant, role, model, under], the last for the
                \* catalogue it was checked against
    keys, platform,
    request,
    outcome     \* the values a tenant was told a role has, since it was last set alone

settings == <<catalog, preference, keys, platform, request, outcome>>
allVars == <<session, settings>>

\* (mutant) the role's needs are not looked at.
AcceptableAnywhere(c, role, model) ==
    HasModel(c, model) /\ Model(c, model).selectable

\* What a tenant may choose for a role.
Acceptable(c, role, model) ==
    /\ HasModel(c, model)
    /\ Model(c, model).selectable
    /\ Supports(Model(c, model), Requires(role))

\* What the database holds from before was set by processes like this one, with a
\* unique key for a tenant's role.
KeptRows(rows) ==
    /\ \A p \in rows : /\ DOMAIN p = {"id", "tenant", "role", "model", "under"}
                       /\ p.id \notin Request /\ p.tenant \in Tenant /\ p.role \in Role
                       /\ IsCatalog(p.under) /\ Acceptable(p.under, p.role, p.model)
    /\ \A p, q \in rows : p.id = q.id \/ <<p.tenant, p.role>> = <<q.tenant, q.role>> => p = q

SettingsAssumption ==
    /\ Presented \subseteq Headers
    /\ \A a \in Asks : /\ a.op \in {"set", "clear", "read", "browse"}
                       /\ a.op = "read" => a.role \in Role
    /\ \A c \in Offers : /\ c.models \in Seq(ToSet(c.models))
                         /\ \A m \in ToSet(c.models) : m.context \in Nat
                         /\ \A p \in ToSet(c.providers) : p.id \in Nat
    /\ \A rows \in Before : KeptRows(rows)
    /\ KeyManagement \in BOOLEAN
ASSUME SettingsAssumption

At(r, step) == request[r].at = step

\* _select: only the caller's rows.
Scoped(tenant) == {p \in preference : p.tenant = tenant}
Existing(tenant, role) == {p \in Scoped(tenant) : p.role = role}

\* as_mapping
AsMapping(tenant) ==
    [role \in Role |->
        IF Existing(tenant, role) = {} THEN None
        ELSE (CHOOSE p \in Existing(tenant, role) : TRUE).model]

SettingsInit ==
    /\ SessionsInit
    /\ catalog \in {c \in Offers : IsCatalog(c)}
    /\ preference \in Before
    /\ keys \in KeyRings
    /\ platform \in SUBSET Variables
    /\ request = [r \in Request |-> [at |-> "nowhere"]]
    /\ outcome = [k \in Tenant \X Role |->
                     LET rows == {p \in preference : <<p.tenant, p.role>> = k}
                     IN  IF rows = {} THEN {None} ELSE {p.model : p \in rows}]

Answer(r, step) == request' = [request EXCEPT ![r] = [at |-> step]]
Handled(r, tenant) ==
    request' = [request EXCEPT ![r] =
        [at |-> "handling", tenant |-> tenant, ask |-> @.ask, offer |-> @.offer]]

-----------------------------------------------------------------------------
(* Who is calling *)

Arrive(r, h, ask) ==
    /\ At(r, "nowhere")
    /\ request' = [request EXCEPT ![r] =
           IF NeedsSession(h)
           THEN [at |-> "looking", token |-> BareToken(h), ask |-> ask, offer |-> catalog]
           ELSE IF WithoutSession(h) = Nobody THEN [at |-> "unauthenticated"]
           ELSE [at |-> "handling", tenant |-> WithoutSession(h), ask |-> ask, offer |-> catalog]]
    /\ UNCHANGED <<session, catalog, preference, keys, platform, outcome>>

\* lookup: no such hash is a 401.
Lookup(r) ==
    /\ At(r, "looking")
    /\ request' = [request EXCEPT ![r] =
           IF session[@.token] = 0 THEN [at |-> "unauthenticated"]
           ELSE [@ EXCEPT !.at = "sliding"]]
    /\ UNCHANGED <<session, catalog, preference, keys, platform, outcome>>

\* The session is slid before the request is served, though it may be gone by then.
Slide(r) ==
    /\ At(r, "sliding")
    /\ Refresh(request[r].token)
    /\ LET tenant == ToScope(request[r].token)
       IN  IF tenant = Nobody THEN Answer(r, "unauthenticated") ELSE Handled(r, tenant)
    /\ UNCHANGED <<catalog, preference, keys, platform, outcome>>

-----------------------------------------------------------------------------
(* Setting and clearing *)

Writes == {"set", "clear"}

\* _require_role
KnownRole(q) == q.ask.role \in Role

\* The three refusals of set_preference, the first of them clear_preference's too.
Refusal(q) ==
    IF ~KnownRole(q) THEN "unknown role"
    ELSE IF q.ask.op = "set" /\ ~Acceptable(q.offer, q.ask.role, q.ask.model)
    THEN "unprocessable" ELSE None

Refuse(r) ==
    /\ At(r, "handling") /\ request[r].ask.op \in Writes /\ Refusal(request[r]) # None
    /\ request' = [request EXCEPT ![r] =
           [at |-> Refusal(@), ask |-> @.ask, offer |-> @.offer]]
    /\ UNCHANGED <<session, catalog, preference, keys, platform, outcome>>

\* Others at work on the same setting.
Rivals(r) ==
    {s \in Request \ {r} :
        At(s, "writing") /\ request[s].tenant = request[r].tenant
                         /\ request[s].ask.role = request[r].ask.role}

\* set_role and clear_role read the row that is there.
ReadRow(r) ==
    /\ At(r, "handling") /\ request[r].ask.op \in Writes /\ Refusal(request[r]) = None
    /\ request' = [s \in Request |->
           IF s = r
           THEN [at |-> "writing", tenant |-> request[r].tenant, ask |-> request[r].ask,
                 offer |-> request[r].offer, alone |-> Rivals(r) = {},
                 found |-> Existing(request[r].tenant, request[r].ask.role)]
           ELSE IF s \in Rivals(r) THEN [request[s] EXCEPT !.alone = FALSE]
           ELSE request[s]]
    /\ UNCHANGED <<session, catalog, preference, keys, platform, outcome>>

Gone(p) == \A q \in preference : q.id # p.id

Row(r) == [id |-> r, tenant |-> request[r].tenant, role |-> request[r].ask.role,
           model |-> request[r].ask.model, under |-> request[r].offer]

\* (mutant) the key is not unique.
InsertAnother(r) == preference' = preference \cup {Row(r)}

\* add: the row is stamped with the tenant; a second one breaks the unique key.
Insert(r) ==
    /\ \A p \in preference : p.tenant # Row(r).tenant \/ p.role # Row(r).role
    /\ preference' = preference \cup {Row(r)}

\* An UPDATE by id of the row that was read, when its model is another: it fails
\* if the row is gone.
Update(r, p) ==
    LET q == request[r]
    IN  IF p.model = q.ask.model THEN UNCHANGED preference
        ELSE /\ ~Gone(p)
             /\ preference' = {x \in preference : x.id # p.id} \cup
                    {[p EXCEPT !.model = q.ask.model, !.under = q.offer]}

Write(r) ==
    LET q == request[r]
    IN  IF q.ask.op = "clear"
        THEN preference' = {x \in preference : \A p \in q.found : x.id # p.id}
        ELSE \/ q.found = {} /\ Insert(r)
             \/ \E p \in q.found : Update(r, p)

Told(r) ==
    LET q == request[r]
        value == IF q.ask.op = "clear" THEN None ELSE q.ask.model
    IN  outcome' = [outcome EXCEPT ![<<q.tenant, q.ask.role>>] =
                       IF q.alone THEN {value} ELSE @ \cup {value}]

Commit(r) ==
    /\ At(r, "writing")
    /\ Write(r) /\ Told(r) /\ Answer(r, "done")
    /\ UNCHANGED <<session, catalog, keys, platform>>

\* The statement, or the commit, fails, and all is rolled back.
Fail(r) ==
    /\ At(r, "writing")
    /\ Answer(r, "failed")
    /\ UNCHANGED <<session, catalog, preference, keys, platform, outcome>>

-----------------------------------------------------------------------------
(* Reading: list_models shows the menu; list_preferences resolves every role,  *)
(* select_model one, which the request may name a model for.                   *)

Browse(r) ==
    /\ At(r, "handling") /\ request[r].ask.op = "browse"
    /\ request' = [request EXCEPT ![r] = [at |-> "shown", menu |-> Menu(@.offer)]]
    /\ UNCHANGED <<session, catalog, preference, keys, platform, outcome>>

\* The tenant's preferences are read on this request, whatever it was offered.
Choice(q) == ResolveModel(q.offer, q.ask.role, q.ask.model, AsMapping(q.tenant))

\* A stored key has to be decrypted.
Readable(credential) == KeyManagement \/ credential.payer # "tenant"

Read(r) ==
    /\ At(r, "handling") /\ request[r].ask.op = "read"
    /\ LET q == request[r]
           choice == Choice(q)
           credential == Resolution(q.offer, Model(q.offer, choice.model).provider,
                                    keys[q.tenant], platform)
       IN  IF choice = NoChoice THEN Answer(r, "no model")
           ELSE IF ~HasModel(q.offer, choice.model) THEN Answer(r, "unknown model")
           ELSE IF ~Readable(credential) THEN Answer(r, "failed")
           ELSE request' = [request EXCEPT ![r] =
                    [at |-> "served", tenant |-> q.tenant, role |-> q.ask.role,
                     offer |-> q.offer, choice |-> choice, credential |-> credential,
                     rows |-> Existing(q.tenant, q.ask.role)]]
    /\ UNCHANGED <<session, catalog, preference, keys, platform, outcome>>

-----------------------------------------------------------------------------
\* A process comes up with the catalogue it is given, if that can be one.
Deploy(c) ==
    /\ IsCatalog(c)
    /\ catalog' = c
    /\ UNCHANGED <<session, preference, keys, platform, request, outcome>>

LogIn(k) == Login(k) /\ UNCHANGED settings
SessionsAge == Tick /\ UNCHANGED settings

SettingsNext ==
    \/ \E r \in Request, h \in Presented, ask \in Asks : Arrive(r, h, ask)
    \/ \E r \in Request : \/ Lookup(r) \/ Slide(r) \/ Refuse(r)
                          \/ ReadRow(r) \/ Commit(r) \/ Fail(r)
                          \/ Browse(r) \/ Read(r)
    \/ \E c \in Offers : Deploy(c)
    \/ \E k \in Token : LogIn(k)
    \/ SessionsAge

SettingsSpec == SettingsInit /\ [][SettingsNext]_allVars
=============================================================================
