------------------------------ MODULE ModelCatalog ------------------------------
(***************************************************************************)
(* core/catalog, the baseline of runtime/container.py, and                 *)
(* adapters/llm/credentials.py: what a deployment offers, which model      *)
(* serves a role, and whose key pays for it.  Nothing here has state.  A   *)
(* catalogue is a record of two sequences, in the order it was written in; *)
(* the ids of providers are numbers, because their order decides; a        *)
(* family of 0 is none.                                                    *)
(***************************************************************************)
EXTENDS Integers, Sequences, SequencesExt, FiniteSetsExt

None == "none"

-----------------------------------------------------------------------------
(* Descriptors *)

BaselineCapabilities == {"text", "tool_calling", "streaming"}
Access == {"api_key", "oauth", "subscription", "local"}

\* Endpoint: one that takes a key says where the platform's is found.
CredentialsAreReachable(p) == p.access \in {"api_key", "subscription"} => p.variable # None

\* ModelDescriptor: one that tenants may choose can drive a turn.
MeetsBaseline(m) == m.selectable => BaselineCapabilities \subseteq m.capabilities

Supports(m, required) == required \subseteq m.capabilities

Role == {"primary", "swift", "condense", "extract"}
Requires(role) == BaselineCapabilities \cup IF role = "primary" THEN {"vision"} ELSE {}

Root(p) == IF p.family = 0 THEN p.id ELSE p.family

-----------------------------------------------------------------------------
(* The catalogue *)

Ids(descriptors) == {d.id : d \in ToSet(descriptors)}
Distinct(descriptors) ==
    \A i, j \in DOMAIN descriptors : descriptors[i].id = descriptors[j].id => i = j
Named(descriptors, id) == CHOOSE d \in ToSet(descriptors) : d.id = id

\* What the constructor lets through.
IsCatalog(c) ==
    /\ Distinct(c.providers) /\ Distinct(c.models)
    /\ \A p \in ToSet(c.providers) :
           /\ p.access \in Access /\ CredentialsAreReachable(p)
           /\ p.family # 0 => p.family # p.id /\ p.family \in Ids(c.providers)
    /\ \A m \in ToSet(c.models) : MeetsBaseline(m) /\ m.provider \in Ids(c.providers)

HasModel(c, id) == id \in Ids(c.models)
Model(c, id) == Named(c.models, id)
Provider(c, id) == Named(c.providers, id)

\* selectable: where they are in the catalogue.
Selectable(c) == {i \in DOMAIN c.models : c.models[i].selectable}

\* render_model: what is shown to a tenant, with the roles each can fill.
Fills(m) == {role \in Role : Supports(m, Requires(role))}
Menu(c) == UNION {{c.models[i].id} \X Fills(c.models[i]) : i \in Selectable(c)}

\* family_of: the endpoint and its siblings.
FamilyOf(c, id) == {p.id : p \in {q \in ToSet(c.providers) : Root(q) = Root(Provider(c, id))}}

-----------------------------------------------------------------------------
(* Resolution: who says which model serves a role *)

\* The first of the selectable models with the least context.
Cheapest(c) ==
    Min({i \in Selectable(c) :
            \A j \in Selectable(c) : c.models[i].context <= c.models[j].context})

\* Container.baseline
Baseline(c) ==
    [role \in Role |->
        IF Selectable(c) = {} THEN None
        ELSE c.models[IF role = "primary" THEN Min(Selectable(c)) ELSE Cheapest(c)].id]

\* The chain: the first level that names a model.  No caller passes workspace
\* defaults.
Levels(c, role, explicit, preferences) ==
    << [by |-> "explicit-request", model |-> IF role = "primary" THEN explicit ELSE None],
       [by |-> "tenant-preference", model |-> preferences[role]],
       [by |-> "workspace-default", model |-> None],
       [by |-> "system-baseline", model |-> Baseline(c)[role]] >>

\* NoModelAvailable is no choice.
NoChoice == [by |-> None, model |-> None]

ResolveModel(c, role, explicit, preferences) ==
    LET levels == Levels(c, role, explicit, preferences)
        naming == {i \in DOMAIN levels : levels[i].model # None}
    IN  IF naming = {} THEN NoChoice ELSE levels[Min(naming)]

-----------------------------------------------------------------------------
(* Credentials: keys is what a tenant has stored, per endpoint "absent", None or  *)
(* a URL of its own; platform is the set of variables the deployment has set.     *)

Interchangeable(p, sibling) == sibling.access = p.access /\ sibling.variable = p.variable

\* (mutant) a brand's key serves all its endpoints.
CandidatesOfFamily(c, id) == FamilyOf(c, id)

\* _candidates: endpoints whose key might serve this one.
Candidates(c, id) ==
    {s \in FamilyOf(c, id) : s = id \/ Interchangeable(Provider(c, id), Provider(c, s))}

\* The order they are asked in: the endpoint itself, then its siblings by id.
Nearest(id, candidates) == IF id \in candidates THEN id ELSE Min(candidates)

Unresolved == [payer |-> None, holder |-> None, url |-> None]

\* _build
Built(c, id, holder, url) ==
    [payer |-> "tenant", holder |-> holder,
     url |-> IF url # None THEN url ELSE Provider(c, id).url]

\* _from_platform: a local runtime needs no key, an OAuth endpoint has none.
FromPlatform(c, id, platform) ==
    LET p == Provider(c, id)
    IN  IF p.access = "local" \/ (p.access # "oauth" /\ p.variable \in platform)
        THEN [payer |-> "platform", holder |-> id, url |-> p.url]
        ELSE Unresolved

\* What is found where some of the candidates have a key.
Found(c, id, stored, keys, platform) ==
    IF stored = {} THEN FromPlatform(c, id, platform)
    ELSE LET holder == Nearest(id, stored) IN Built(c, id, holder, keys[holder])

\* resolve: the candidates are asked for one by one.
Resolution(c, id, keys, platform) ==
    Found(c, id, {s \in Candidates(c, id) : keys[s] # "absent"}, keys, platform)

\* resolve_many: the candidates of all of them are fetched together.
ResolveMany(c, ids, keys, platform) ==
    LET candidates == UNION {Candidates(c, id) : id \in ids}
        prefetched == {s \in candidates : keys[s] # "absent"}
    IN  [id \in ids |-> Found(c, id, Candidates(c, id) \cap prefetched, keys, platform)]
=============================================================================
