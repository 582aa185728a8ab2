----------------------------- MODULE MCModelSettings -----------------------------
(* Instances of the settings for TLC. *)
EXTENDS ModelSettingsProperties, TLC

CONSTANTS r1, r2, k1, acme, bolt

Sessions == k1 :> [user |-> "ann", tenant |-> "none"]
Members == "ann" :> acme

Bearing(scheme, token) ==
    [service |-> "none", acting |-> "none", scheme |-> scheme, token |-> token]
ServiceFor(secret, tenant) ==
    [service |-> secret, acting |-> tenant, scheme |-> "none", token |-> "none"]

Callers == {Bearing("bearer", k1), Bearing("basic", k1), ServiceFor("right", bolt),
            ServiceFor("right", "none")}

Ask(op, role, model) == [op |-> op, role |-> role, model |-> model]
Wanted ==
    {Ask("set", "primary", "flagship"), Ask("set", "primary", "cheap"),
     Ask("set", "swift", "flagship"), Ask("clear", "primary", "none"),
     Ask("clear", "architect", "none"), Ask("read", "primary", "none"),
     Ask("read", "primary", "retired"), Ask("read", "swift", "none"),
     Ask("browse", "none", "none")}

Endpoint(id, family, access, variable, url) ==
    [id |-> id, family |-> family, access |-> access, variable |-> variable, url |-> url]
Endpoints ==
    << Endpoint(1, 0, "api_key", "AI_KEY", "https://metered"),
       Endpoint(2, 1, "api_key", "AI_KEY", "https://regional"),
       Endpoint(3, 1, "subscription", "PLAN_KEY", "https://plan"),
       Endpoint(4, 0, "local", "none", "http://local"),
       Endpoint(5, 1, "oauth", "none", "https://signed-in") >>

Entry(id, provider, extra, selectable, context) ==
    [id |-> id, provider |-> provider, selectable |-> selectable, context |-> context,
     capabilities |-> BaselineCapabilities \cup extra]

Wide == [providers |-> Endpoints,
         models |-> <<Entry("flagship", 2, {"vision"}, TRUE, 3), Entry("cheap", 3, {}, TRUE, 1)>>]
\* The flagship loses its sight, and is not the first any more.
Blind == [providers |-> Endpoints,
          models |-> <<Entry("cheap", 3, {}, TRUE, 1), Entry("flagship", 2, {}, TRUE, 3)>>]
Hidden == [providers |-> Endpoints,
           models |-> <<Entry("flagship", 4, {"vision"}, FALSE, 3)>>]
\* Two that no process starts with.
Twice == [providers |-> Endpoints, models |-> Wide.models \o Wide.models]
Orphan == [providers |-> <<Endpoints[4]>>, models |-> Wide.models]

Catalogues == {Wide, Blind, Hidden, Twice, Orphan}

Standing == {{}, {[id |-> "before", tenant |-> acme, role |-> "primary",
                   model |-> "flagship", under |-> Wide]}}

Ring(some) == [id \in 1..5 |-> IF id \in DOMAIN some THEN some[id] ELSE "absent"]
Rings ==
    {acme :> Ring(3 :> "none") @@ bolt :> Ring(<<>>),
     acme :> Ring(2 :> "https://mine" @@ 1 :> "none") @@ bolt :> Ring(1 :> "none")}

Symmetric == Permutations({r1, r2})
=============================================================================
