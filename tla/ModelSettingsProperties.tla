------------------------- MODULE ModelSettingsProperties -------------------------
(* What a tenant can rely on when it chooses models and stores keys. *)
EXTENDS ModelSettings

\* A role has one of the values its own tenant was told it has: the last one, when
\* requests to set or clear it came one after the other, and one of those told
\* since when they ran into each other.  There is never a second row.
SettingsAreWhatWasAsked ==
    \A t \in Tenant, role \in Role :
        LET rows == {p \in preference : p.tenant = t /\ p.role = role}
        IN  \/ rows = {} /\ None \in outcome[<<t, role>>]
            \/ \E p \in rows : rows = {p} /\ p.model \in outcome[<<t, role>>]

\* A model that is served is one a tenant may choose, with all that the role needs,
\* but for three excuses: the request named it, the preference was set when another
\* catalogue was offered, or it is the first of the catalogue, for the primary role.
\* What is refused for a role is not on the menu for it.
CapableUnlessExcused ==
    /\ \A r \in Request : At(r, "unprocessable") =>
           <<request[r].ask.model, request[r].ask.role>> \notin Menu(request[r].offer)
    /\ \A r \in Request : At(r, "served") =>
        LET q == request[r]
            model == Model(q.offer, q.choice.model)
        IN  \/ model.selectable /\ Supports(model, Requires(q.role))
            \/ q.choice.by = "explicit-request"
            \/ q.choice.by = "tenant-preference" /\ \A p \in q.rows : p.under # q.offer
            \/ q.choice.by = "system-baseline" /\ q.role = "primary"

Usable(c, mine, id, s) ==
    /\ mine[s] # "absent"
    /\ \/ s = id
       \/ /\ Root(Provider(c, s)) = Root(Provider(c, id))
          /\ Interchangeable(Provider(c, id), Provider(c, s))

\* The tenant pays when it has a key that fits: the endpoint's own, or else that of a
\* sibling that takes the same kind of key.  The platform pays only when it has
\* none, and never for an endpoint that is signed in to.  Asking for several at a
\* time gives what asking one by one does, which is what the request got.
KeysGoWhereTheyBelong ==
    \A r \in Request : At(r, "served") =>
        LET q == request[r]
            mine == keys[q.tenant]
            all == ResolveMany(q.offer, Ids(q.offer.providers), mine, platform)
        IN  /\ q.credential = all[Model(q.offer, q.choice.model).provider]
            /\ \A id \in Ids(q.offer.providers) :
                   LET one == Resolution(q.offer, id, mine, platform)
                   IN  /\ one = all[id]
                       /\ one.payer = "tenant" =>
                              /\ Usable(q.offer, mine, id, one.holder)
                              /\ mine[id] # "absent" => one.holder = id
                              /\ one.url \in {mine[one.holder], Provider(q.offer, id).url}
                       /\ one.payer # "tenant" =>
                              \A s \in Ids(q.offer.providers) : ~Usable(q.offer, mine, id, s)
                       /\ one.payer = "platform" => Provider(q.offer, id).access # "oauth"
=============================================================================
