------------------------------- MODULE Catalog -------------------------------
(***************************************************************************)
(* What an agent refers to, and the requests that change it: provider      *)
(* connections with their keys, user models (single ones and routers over  *)
(* several connections), model policies, container profiles, skills and    *)
(* tools, and the agents' rows (api/src/routes).  The model router reads   *)
(* the same tables when an agent asks for a model (ai/app/models.py).  It   *)
(* knows the agent by its name, which can be used again, and keeps for a   *)
(* while whose agent that is.                                              *)
(*                                                                         *)
(* A handler looks, awaits and writes; each statement is a step.  Two who  *)
(* have agents, a user u and an admin a, one model name of each, and the   *)
(* platform p, whose rows have created_by NULL; the policy is u's.  Ids    *)
(* are never used again.  Left out: an agent's own list of names (a policy *)
(* only it uses), the merged tools_config, aliases, and what no other      *)
(* statement looks at: a connection's name, key and address, and is_valid. *)
(***************************************************************************)
EXTENDS Integers

CONSTANTS
    Conns,       \* ids of connections
    Slots,       \* requests at once
    Ttl,         \* _OWNER_CACHE_TTL, in ticks
    MaxCalls,    \* bound: requests
    MaxFaults    \* bound: failed queries

ASSUME CatalogAssumption ==
    Conns # {} /\ Slots # {} /\ Ttl \in Nat \ {0} /\ MaxCalls \in Nat /\ MaxFaults \in Nat

VARIABLES conn, model, row, allowed, agent, slug, refs, req, used
vars == <<conn, model, row, allowed, agent, slug, refs, req, used>>
-----------------------------------------------------------------------------
People == {"u", "a"}
Owners == People \cup {"p"}
Kinds == {"policy", "profile", "skill", "tool"}
Agents == {"x", "y"}
Holders == Agents \cup {"skill"}
Life == {"new", "live", "gone"}

\* user_models, by owner: a single model has one connection and no routes, a
\* router has routes (one for each connection) and a default one
Models == [id: 0..(MaxCalls + 1), type: {"none", "single", "router"}, active: BOOLEAN,
           conns: SUBSET Conns, default: Conns \cup {"none"}]
NoModel == [id |-> 0, type |-> "none", active |-> FALSE, conns |-> {}, default |-> "none"]
\* Of one agent_id: the row that has it; what _owner_cache says of its owner, and
\* the time since the lookup of it began; and, as history, how long it is since
\* an agent of each had it.
Ages == 0..Ttl
Slugs == [at: Agents \cup {"none"}, known: People \cup {"none"}, age: Ages, ago: [People -> Ages]]
Idle == [op |-> "idle"]
Ops == {"idle", "drop", "model", "scrub", "policy", "remove", "create", "update", "clone", "skills",
        "asks", "owner", "found", "single", "router", "route", "platform", "call"}

TypeOK ==
    /\ conn \in [Conns -> Owners \cup {"new", "gone"}]      \* whose a connection is
    /\ model \in [Owners -> Models]
    /\ row \in [Kinds -> Life]
    /\ allowed \in BOOLEAN                      \* the policy allows the model
    /\ agent \in [Agents -> People \cup {"new", "gone"}]
    /\ slug \in Slugs
    /\ refs \in [Holders -> SUBSET Kinds]       \* foreign keys, agent_skills, skill_tools
    /\ \A r \in Slots : req[r].op \in Ops
    /\ used \in [calls: 0..MaxCalls, faults: 0..MaxFaults]

\* a user who has set up an agent with a policy, which may have asked for a model
\* just now; or nothing but connections
Init ==
    /\ conn \in [Conns -> Owners \cup {"new"}]
    /\ \E up, asked \in BOOLEAN, d \in Conns, t \in {"single", "router"} :
          LET mine == {c \in Conns : conn[c] = "u"} IN
          /\ (up => d \in mine) /\ (asked => up)
          /\ model = [o \in Owners |->
                        IF up /\ o = "u"
                        THEN [id |-> 1, type |-> t, active |-> TRUE,
                              conns |-> IF t = "single" THEN {d} ELSE mine, default |-> d]
                        ELSE NoModel]
          /\ row = [k \in Kinds |-> IF up THEN "live" ELSE "new"]
          /\ allowed = up
          /\ agent = [h \in Agents |-> IF up /\ h = "x" THEN "u" ELSE "new"]
          /\ slug = [at |-> IF up THEN "x" ELSE "none", known |-> IF asked THEN "u" ELSE "none",
                     age |-> IF asked THEN 0 ELSE Ttl,
                     ago |-> [o \in People |-> IF up /\ o = "u" THEN 0 ELSE Ttl]]
          /\ refs = [h \in Holders |-> IF up /\ h = "x" THEN {"policy"} ELSE {}]
    /\ req = [r \in Slots |-> Idle]
    /\ used = [calls |-> 0, faults |-> 0]

Fault == used.faults < MaxFaults /\ used' = [used EXCEPT !.faults = @ + 1]
Call == used.calls < MaxCalls /\ used' = [used EXCEPT !.calls = @ + 1]
MayBegin(r) == req[r] = Idle /\ used.calls < MaxCalls
Begins(r, q) == Call /\ req' = [req EXCEPT ![r] = q]
Ends(r) == req' = [req EXCEPT ![r] = Idle]
Is(r, op) == req[r].op = op
-----------------------------------------------------------------------------
(* Provider connections.                                                    *)

Live(c) == conn[c] \in Owners
CreateConnection(c, o) ==
    /\ conn[c] = "new" /\ Call
    /\ conn' = [conn EXCEPT ![c] = o]
    /\ UNCHANGED <<model, row, allowed, agent, slug, refs, req>>

\* DELETE, in a transaction: the row is locked, and the routers of its owner are
\* read; a platform connection has no cascade
Routers(c) == IF conn[c] # "p" /\ model[conn[c]].type = "router" /\ c \in model[conn[c]].conns
              THEN model[conn[c]] ELSE NoModel
Locked(c) == \E o \in Slots : Is(o, "drop") /\ req[o].c = c
DropBegin(r, c) ==
    /\ Live(c) /\ ~Locked(c)
    /\ Begins(r, [op |-> "drop", c |-> c, snap |-> Routers(c)])
    /\ UNCHANGED <<conn, model, row, allowed, agent, slug, refs>>
\* ON DELETE CASCADE for single models; the router as it was read, without the
\* routes of c; if the default route was one of them it is switched off
Filtered(m, s, c) ==
    IF s.type = "none" \/ s.id # m.id THEN m
    ELSE IF s.conns = {c} THEN NoModel
    ELSE [m EXCEPT !.conns = s.conns \ {c}, !.default = s.default, !.active = @ /\ s.default # c /\ s.default \in s.conns]
Cascaded(o, s, c) ==
    LET m == Filtered(model[o], IF o = conn[c] THEN s ELSE NoModel, c) IN
    IF m.type = "single" /\ m.conns = {c} THEN NoModel ELSE m
\* chk_model_type_fields: a router that became a single model takes no routes
Clash(s, c) == s.type = "router" /\ s.conns # {c} /\ model[conn[c]].id = s.id /\ model[conn[c]].type = "single"
DropCommit(r) ==
    LET q == req[r] IN
    /\ Is(r, "drop") /\ Ends(r)
    /\ \/ /\ ~Clash(q.snap, q.c) /\ UNCHANGED used
          /\ conn' = [conn EXCEPT ![q.c] = "gone"]
          /\ model' = [o \in Owners |-> Cascaded(o, q.snap, q.c)]
       \/ Clash(q.snap, q.c) /\ UNCHANGED <<conn, model, used>>
       \/ Fault /\ UNCHANGED <<conn, model>>
    /\ UNCHANGED <<row, allowed, agent, slug, refs>>
-----------------------------------------------------------------------------
(* User models.                                                             *)

\* singleModelConnectionOwned, validateRouteConnectionOwnership
Owned(cs, o, by) == \A c \in cs : conn[c] = IF o = "p" THEN "p" ELSE by
ModelBegin(r, q) ==
    /\ q.d \in q.cs /\ (q.t = "single" => q.cs = {q.d})      \* validateRoutingConfig
    /\ Begins(r, q)
    /\ UNCHANGED <<conn, model, row, allowed, agent, slug, refs>>
\* POST: the caller's own model, or the platform's if an admin asks
ModelCreate(r, o, t, cs, d) ==
    /\ Owned(cs, o, o)
    /\ ModelBegin(r, [op |-> "model", o |-> o, new |-> TRUE, id |-> used.calls + 2, t |-> t, cs |-> cs, d |-> d])
\* PUT: the caller's own, or any if an admin asks; the connections are then the
\* admin's own too
ModelUpdate(r, o, by, t, cs, d) ==
    /\ model[o].type # "none" /\ (by = "a" \/ o = by) /\ Owned(cs, o, by)
    /\ ModelBegin(r, [op |-> "model", o |-> o, new |-> FALSE, id |-> model[o].id, t |-> t, cs |-> cs, d |-> d])
\* the foreign key of a single model waits for a DELETE, and may fail then
ForeignKey(q) == q.t = "single" => Live(q.d)
Put(m, q) == [m EXCEPT !.type = q.t, !.conns = q.cs, !.default = q.d]
ModelWrite(r) ==
    LET q == req[r]  m == model[q.o] IN
    /\ Is(r, "model") /\ (q.t = "single" => ~Locked(q.d)) /\ Ends(r)
    /\ model' = IF ~ForeignKey(q) THEN model
                ELSE CASE q.new /\ m.type = "none" -> [model EXCEPT ![q.o] = [Put(NoModel, q) EXCEPT !.id = q.id, !.active = TRUE]]
                       [] ~q.new /\ m.id = q.id -> [model EXCEPT ![q.o] = Put(@, q)]
                       [] OTHER -> model
    /\ UNCHANGED <<conn, row, allowed, agent, slug, refs, used>>
\* PUT with is_active alone
ModelToggle(o) ==
    /\ model[o].type # "none" /\ Call
    /\ model' = [model EXCEPT ![o].active = ~@]
    /\ UNCHANGED <<conn, row, allowed, agent, slug, refs, req>>
\* DELETE, and then its name leaves the owner's policies, best effort
ModelDelete(r, o) ==
    /\ model[o].type # "none"
    /\ Begins(r, IF o = "u" THEN [op |-> "scrub"] ELSE Idle)
    /\ model' = [model EXCEPT ![o] = NoModel]
    /\ UNCHANGED <<conn, row, allowed, agent, slug, refs>>
ModelScrub(r) ==
    /\ Is(r, "scrub") /\ Ends(r)
    /\ \/ allowed' = FALSE /\ UNCHANGED used
       \/ UNCHANGED allowed /\ Fault
    /\ UNCHANGED <<conn, model, row, agent, slug, refs>>
-----------------------------------------------------------------------------
(* Policies, profiles, skills and tools.                                    *)

Known(o) == model[o].active \/ model["p"].active
ValidateAllowedModels(names) == names => Known("u")
PolicyCreate(r, names) ==
    /\ row["policy"] = "new" /\ ValidateAllowedModels(names)
    /\ Begins(r, [op |-> "policy", new |-> TRUE, names |-> names])
    /\ UNCHANGED <<conn, model, row, allowed, agent, slug, refs>>
PolicyUpdate(r, names) ==
    /\ row["policy"] = "live" /\ ValidateAllowedModels(names)
    /\ Begins(r, [op |-> "policy", new |-> FALSE, names |-> names])
    /\ UNCHANGED <<conn, model, row, allowed, agent, slug, refs>>
PolicyWrite(r) ==
    LET q == req[r]  there == row["policy"] = (IF q.new THEN "new" ELSE "live") IN
    /\ Is(r, "policy") /\ Ends(r)
    /\ row' = IF there THEN [row EXCEPT !["policy"] = "live"] ELSE row
    /\ allowed' = IF there THEN q.names ELSE allowed
    /\ UNCHANGED <<conn, model, agent, slug, refs, used>>
RowCreate(k) ==
    /\ row[k] = "new" /\ Call
    /\ row' = [row EXCEPT ![k] = "live"]
    /\ UNCHANGED <<conn, model, allowed, agent, slug, refs, req>>
ProfileCreate == RowCreate("profile")
ToolCreate == RowCreate("tool")
\* DELETE: who uses it is asked first, except for a tool
Users(k) == {h \in Holders : k \in refs[h]}
RemoveBegin(r, k) ==
    /\ row[k] = "live" /\ Begins(r, [op |-> "remove", k |-> k])
    /\ UNCHANGED <<conn, model, row, allowed, agent, slug, refs>>
PolicyDelete(r) == Users("policy") = {} /\ RemoveBegin(r, "policy")
ProfileDelete(r) == Users("profile") = {} /\ RemoveBegin(r, "profile")
SkillDelete(r) == Users("skill") = {} /\ RemoveBegin(r, "skill")
ToolDelete(r) == RemoveBegin(r, "tool")
\* the foreign keys: ON DELETE RESTRICT, for a profile SET NULL; the tools of a
\* skill go with it
\* Mut: what was asked first is enough
MutAskedFirst(k) == TRUE
Deletable(k) == k = "profile" \/ Users(k) = {}
Left(h, k) == IF h = k THEN {} ELSE IF k = "profile" THEN refs[h] \ {k} ELSE refs[h]
RemoveWrite(r) ==
    LET k == req[r].k IN
    /\ Is(r, "remove") /\ Ends(r)
    /\ IF row[k] = "live" /\ Deletable(k)
       THEN /\ row' = [row EXCEPT ![k] = "gone"]
            /\ refs' = [h \in Holders |-> Left(h, k)]
       ELSE UNCHANGED <<row, refs>>
    /\ UNCHANGED <<conn, model, allowed, agent, slug, used>>
-----------------------------------------------------------------------------
(* The rows that refer to them: agents, and skills to their tools.          *)

LifeOf(h) == IF h = "skill" THEN row["skill"] ELSE IF agent[h] \in People THEN "live" ELSE agent[h]
Holdable(h) == IF h = "skill" THEN {"tool"} ELSE Kinds \ {"tool"}
Few(ks) == {{}} \cup {{k} : k \in ks}       \* bound: rows a write adds, and drops
AllLive(ks) == \A k \in ks : row[k] = "live"
Write(r, op, h, by, add, drop) ==
    /\ Begins(r, [op |-> op, h |-> h, by |-> by, add |-> add, drop |-> drop])
    /\ UNCHANGED <<conn, model, row, allowed, agent, slug, refs>>
\* the policy is u's, and nobody else's to assign
ValidatePolicyEligibility(add, o) == "policy" \in add => o = "u" /\ (allowed => Known(o))
\* POST and PUT of an agent: everything it is to refer to is looked up
AgentCreate(r, h, by, add) ==
    /\ agent[h] = "new" /\ AllLive(add) /\ ValidatePolicyEligibility(add, by)
    /\ Write(r, "create", h, by, add, {})
AgentUpdate(r, h, add, drop) ==
    /\ agent[h] \in People /\ AllLive(add) /\ ValidatePolicyEligibility(add, agent[h])
    /\ Write(r, "update", h, agent[h], add, drop)
\* import: what is not there is left out; there is no policy but the default one
AgentImport(r, h, by, add) ==
    /\ agent[h] = "new" /\ "policy" \notin add
    /\ Write(r, "create", h, by, {k \in add : row[k] = "live"}, {})
SkillAssign(r, h) ==
    /\ agent[h] \in People /\ row["skill"] = "live" /\ Write(r, "update", h, agent[h], {"skill"}, {})
SkillUnassign(r, h) ==
    /\ agent[h] \in People /\ row["skill"] = "live" /\ Write(r, "update", h, agent[h], {}, {"skill"})
\* POST and PUT of a skill: setSkillTools looks in the transaction, and keeps the
\* tools when none is given
SkillCreate(r, add) == row["skill"] = "new" /\ Write(r, "create", "skill", "a", add, {})
SkillUpdate(r, add) == row["skill"] = "live" /\ Write(r, "update", "skill", "a", add, {})
\* one transaction: all of it, or nothing
Writable(q) == LifeOf(q.h) = (IF q.op = "create" THEN "new" ELSE "live") /\ AllLive(q.add)
Linked(q) == refs' = [refs EXCEPT ![q.h] = (@ \ q.drop) \cup q.add]
\* bound: an agent is given the one name if no agent has it
Named(h, by) == IF slug.at = "none" THEN [slug EXCEPT !.at = h, !.ago[by] = 0] ELSE slug
AgentInsert(r) ==
    LET q == req[r] IN
    /\ Is(r, "create") /\ q.h \in Agents /\ Ends(r)
    /\ \/ /\ Writable(q) /\ Linked(q) /\ UNCHANGED used
          /\ agent' = [agent EXCEPT ![q.h] = q.by] /\ slug' = Named(q.h, q.by)
       \/ ~Writable(q) /\ UNCHANGED <<agent, slug, refs, used>>
       \/ Fault /\ UNCHANGED <<agent, slug, refs>>
    /\ UNCHANGED <<conn, model, row, allowed>>
AgentWrite(r) ==
    LET q == req[r] IN
    /\ Is(r, "update") /\ q.h \in Agents /\ Ends(r)
    /\ \/ Writable(q) /\ Linked(q) /\ UNCHANGED used
       \/ ~Writable(q) /\ UNCHANGED <<refs, used>>
       \/ Fault /\ UNCHANGED refs
    /\ UNCHANGED <<conn, model, row, allowed, agent, slug>>
SetSkillTools(r) ==
    LET q == req[r] IN
    /\ req[r].op \in {"create", "update"} /\ q.h = "skill" /\ Ends(r)
    /\ \/ Writable(q) /\ Linked(q) /\ row' = [row EXCEPT !["skill"] = "live"] /\ UNCHANGED used
       \/ ~Writable(q) /\ UNCHANGED <<row, refs, used>>
       \/ Fault /\ UNCHANGED <<row, refs>>
    /\ UNCHANGED <<conn, model, allowed, agent, slug>>

\* clone, not in a transaction: the source is read, the clone's row written, and
\* then its skills; the clone has a name of its own, and no policy of another user
CloneBegin(r, by) ==
    LET copied == refs["x"] \ IF by = "u" THEN {"skill"} ELSE {"skill", "policy"} IN
    /\ agent["x"] \in People /\ by \in {agent["x"], "a"} /\ agent["y"] = "new"
    /\ Begins(r, [op |-> "clone", by |-> by, add |-> copied])
    /\ UNCHANGED <<conn, model, row, allowed, agent, slug, refs>>
CloneInsert(r) ==
    LET q == req[r] IN
    /\ Is(r, "clone")
    /\ \/ /\ AllLive(q.add) /\ agent["y"] = "new" /\ UNCHANGED used
          /\ agent' = [agent EXCEPT !["y"] = q.by]
          /\ refs' = [refs EXCEPT !["y"] = q.add]
          /\ req' = [req EXCEPT ![r] = [op |-> "skills", add |-> refs["x"] \cap {"skill"}]]
       \/ /\ ~(AllLive(q.add) /\ agent["y"] = "new") /\ Ends(r)
          /\ UNCHANGED <<agent, refs, used>>
    /\ UNCHANGED <<conn, model, row, allowed, slug>>
CloneSkills(r) ==
    LET q == req[r]  ok == AllLive(q.add) /\ agent["y"] \in People IN
    /\ Is(r, "skills") /\ Ends(r)
    /\ \/ ok /\ refs' = [refs EXCEPT !["y"] = @ \cup q.add] /\ UNCHANGED used
       \/ ~ok /\ UNCHANGED <<refs, used>>
       \/ Fault /\ UNCHANGED refs
    /\ UNCHANGED <<conn, model, row, allowed, agent, slug>>
AgentDelete(h) ==
    /\ agent[h] \in People /\ Call
    /\ agent' = [agent EXCEPT ![h] = "gone"]
    /\ slug' = IF slug.at = h THEN [slug EXCEPT !.at = "none"] ELSE slug
    /\ refs' = [refs EXCEPT ![h] = {}]
    /\ UNCHANGED <<conn, model, row, allowed, req>>
-----------------------------------------------------------------------------
(* The model router, asked by the agent of the name: its policy, its owner,  *)
(* the owner's single model, the owner's router, the platform's single model.*)

Older(n) == IF n < Ttl THEN n + 1 ELSE n
Has(o) == slug.at # "none" /\ agent[slug.at] = o
\* time passes: for the cache, for a lookup under way, and for who had the name
Tick ==
    /\ slug' = [slug EXCEPT !.age = Older(@), !.ago = [o \in People |-> IF Has(o) THEN 0 ELSE Older(slug.ago[o])]]
    /\ req' = [r \in Slots |-> IF req[r].op \in {"owner", "found"} THEN [req[r] EXCEPT !.age = Older(@)] ELSE req[r]]
    /\ UNCHANGED <<conn, model, row, allowed, agent, refs, used>>

\* with a token that is still taken; an agent without a policy, or that is gone,
\* has the platform's default one, which allows the name
AskBegin(r) ==
    /\ (slug.at # "none" /\ "policy" \in refs[slug.at]) => allowed
    /\ Begins(r, [op |-> "asks"])
    /\ UNCHANGED <<conn, model, row, allowed, agent, slug, refs>>
Asks(r, q) == /\ req' = [req EXCEPT ![r] = q]
              /\ UNCHANGED <<conn, model, row, allowed, agent, refs, used>>
Asked(r, q) == Asks(r, q) /\ UNCHANGED slug
\* get_agent_owner: kept, or read and then kept from when the lookup began
\* Mut: it is kept for good
MutKept(s) == s.known # "none"
Kept(s) == s.known # "none" /\ s.age < Ttl
OwnedBy(o, ago) == [op |-> "single", by |-> o, ago |-> ago]
LookupOwner(r) ==
    /\ Is(r, "asks")
    /\ Asked(r, IF Kept(slug) THEN OwnedBy(slug.known, slug.ago[slug.known]) ELSE [op |-> "owner", age |-> 0])
ReadOwner(r) ==
    /\ Is(r, "owner")
    /\ Asked(r, IF slug.at = "none" THEN Idle ELSE [op |-> "found", by |-> agent[slug.at], age |-> req[r].age])
KeepOwner(r) ==
    /\ Is(r, "found") /\ Asks(r, OwnedBy(req[r].by, 0))
    /\ slug' = [slug EXCEPT !.known = req[r].by, !.age = req[r].age]
Offers(o, t) == model[o].type = t /\ model[o].active
On(q, op) == [op |-> op, by |-> q.by, ago |-> q.ago]
KeyOf(q, via, c) == [op |-> "call", by |-> q.by, ago |-> q.ago, via |-> via, owner |-> conn[c]]
ResolveUserModel(r) ==
    LET q == req[r] IN
    /\ Is(r, "single")
    /\ Asked(r, IF Offers(q.by, "single") THEN KeyOf(q, "single", model[q.by].default) ELSE On(q, "router"))
\* select_route: by the kind of task, or the default one, or the first
ResolveRouterModel(r) ==
    LET q == req[r] IN
    /\ Is(r, "router")
    /\ \/ /\ Offers(q.by, "router")
          /\ \E c \in model[q.by].conns : Asked(r, [op |-> "route", by |-> q.by, ago |-> q.ago, c |-> c])
       \/ ~Offers(q.by, "router") /\ Asked(r, On(q, "platform"))
ResolveRouteCredentials(r) ==
    LET q == req[r] IN
    /\ Is(r, "route")
    /\ Asked(r, IF conn[q.c] = q.by THEN KeyOf(q, "router", q.c) ELSE Idle)
ResolvePlatformModel(r) ==
    LET q == req[r] IN
    /\ Is(r, "platform")
    /\ Asked(r, IF Offers("p", "single") THEN KeyOf(q, "platform", model["p"].default) ELSE Idle)
CallEnds(r) == Is(r, "call") /\ Asked(r, Idle)
Resolves(r) == \/ LookupOwner(r) \/ ReadOwner(r) \/ KeepOwner(r) \/ ResolveUserModel(r) \/ ResolveRouterModel(r)
               \/ ResolveRouteCredentials(r) \/ ResolvePlatformModel(r) \/ CallEnds(r)
-----------------------------------------------------------------------------
Begin(r) ==
    \/ \E c \in Conns : DropBegin(r, c)
    \/ \E o \in Owners, t \in {"single", "router"}, cs \in SUBSET Conns : \E d \in cs :
          ModelCreate(r, o, t, cs, d) \/ \E by \in People : ModelUpdate(r, o, by, t, cs, d)
    \/ \E o \in Owners : ModelDelete(r, o)
    \/ \E names \in BOOLEAN : PolicyCreate(r, names) \/ PolicyUpdate(r, names)
    \/ PolicyDelete(r) \/ ProfileDelete(r) \/ SkillDelete(r) \/ ToolDelete(r)
    \/ \E h \in Agents : \E add \in Few(Holdable(h)) :
          \/ \E by \in People : AgentCreate(r, h, by, add) \/ AgentImport(r, h, by, add)
          \/ \E drop \in Few(refs[h] \ add) : AgentUpdate(r, h, add, drop)
    \/ \E h \in Agents : SkillAssign(r, h) \/ SkillUnassign(r, h)
    \/ \E add \in Few(Holdable("skill")) : SkillCreate(r, add) \/ SkillUpdate(r, add)
    \/ \E by \in People : CloneBegin(r, by)
    \/ AskBegin(r)
Next ==
    \/ \E c \in Conns, o \in Owners : CreateConnection(c, o)
    \/ \E o \in Owners : ModelToggle(o)
    \/ ProfileCreate \/ ToolCreate \/ Tick
    \/ \E h \in Agents : AgentDelete(h)
    \/ \E r \in Slots :
          \/ MayBegin(r) /\ Begin(r)
          \/ DropCommit(r) \/ ModelWrite(r) \/ ModelScrub(r) \/ PolicyWrite(r)
          \/ RemoveWrite(r) \/ AgentInsert(r) \/ AgentWrite(r) \/ SetSkillTools(r)
          \/ CloneInsert(r) \/ CloneSkills(r) \/ Resolves(r)
Spec == Init /\ [][Next]_vars
-----------------------------------------------------------------------------
\* Whatever is changed between the lookups of a resolution, also who has the
\* agent's name: the key it is answered with is the platform's, for a platform
\* model; or that of somebody whose agent had the name when it was looked up, or
\* less than a lifetime of the cache before; or, for a user's single model, the
\* admin's, who may have put it there (ai/app/models.py:38-64, main.py:543).
KeysStayApart ==
    \A r \in Slots : Is(r, "call") =>
        LET q == req[r] IN
        \/ q.via = "platform" /\ q.owner = "p"
        \/ q.via = "router" /\ q.owner = q.by /\ q.ago < Ttl
        \/ q.via = "single" /\ q.owner \in {q.by, "a"} /\ q.ago < Ttl

\* No agent or skill refers to a policy, profile, skill or tool that is gone, in
\* whatever order its deletion and the assignment look and write (the 409s of
\* the DELETE handlers and the foreign keys behind them).
AssignedExists == \A h \in Holders : AllLive(refs[h])
=============================================================================
