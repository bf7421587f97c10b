---------------------------- MODULE CatalogProofs ----------------------------
(***************************************************************************)
(* Proofs about Catalog, for any number of connections, of requests at     *)
(* once, of calls and of faults, and for any lifetime of the owner cache:  *)
(* nobody refers to what is gone, and keys stay apart.                     *)
(***************************************************************************)
EXTENDS Catalog, TLAPS

USE CatalogAssumption
-----------------------------------------------------------------------------
(* The inductive invariant.                                                 *)

Bounds == [calls: 0..MaxCalls, faults: 0..MaxFaults]
Of(o) == IF o = "p" THEN {"p"} ELSE {o, "a"}
Whose == Owners \cup {"new", "gone"}

ConnInv == conn \in [Conns -> Whose]

\* A single model has its connection, the foreign key, and this is of an owner
\* that was looked up when the request began: an owner never changes but to gone.
Backed(m, o, cn) ==
    m.type = "single" => m.conns = {m.default} /\ m.default \in Conns /\ cn[m.default] \in Of(o)
ModelInv ==
    /\ model \in [Owners -> Models]
    /\ \A o \in Owners : Backed(model[o], o, conn)

RowInv ==
    /\ row \in [Kinds -> Life] /\ allowed \in BOOLEAN
    /\ agent \in [Agents -> People \cup {"new", "gone"}] /\ refs \in [Holders -> SUBSET Kinds]
    /\ AssignedExists

\* Whose models are looked up: of one whose agent had the name not long before.
Asking(q) == q.by \in People /\ q.ago \in Ages /\ q.ago < Ttl
Answered(q) == \/ q.via = "platform" /\ q.owner = "p"
               \/ q.via = "router" /\ q.owner = q.by /\ q.ago < Ttl
               \/ q.via = "single" /\ q.owner \in {q.by, "a"} /\ q.ago < Ttl

\* What a request knows when it comes to write.
Knows(q, cn) ==
    /\ q.op \in Ops
    /\ q.op = "drop" => q.c \in Conns /\ q.snap \in Models /\ q.snap.type # "single"
    /\ q.op = "model" =>
          /\ q.o \in Owners /\ q.id \in 0..(MaxCalls + 1) /\ q.t \in {"single", "router"}
          /\ q.cs \subseteq Conns /\ q.d \in Conns /\ (q.t = "single" => q.cs = {q.d})
          /\ cn[q.d] \in Of(q.o) \cup {"gone"}
    /\ q.op = "policy" => q.names \in BOOLEAN
    /\ q.op \in {"create", "update"} => q.h \in Holders
    /\ q.op \in {"create", "update", "clone", "skills"} => q.add \subseteq Kinds
    /\ q.op \in {"create", "update", "clone"} => q.by \in People
    /\ q.op \in {"single", "router", "route", "platform"} => Asking(q)
    /\ q.op = "route" => q.c \in Conns
    /\ q.op = "call" => Answered(q)
ReqInv ==
    /\ req = [r \in Slots |-> req[r]]
    /\ \A r \in Slots : Knows(req[r], conn)

CatalogInv == ConnInv /\ ModelInv /\ RowInv /\ ReqInv /\ used \in Bounds

\* Of the name: an agent that has it is there; and nobody in the cache, or being
\* looked up, is older than their entry says.
Timed(q, s) ==
    /\ q.op = "owner" => q = [op |-> "owner", age |-> q.age] /\ q.age \in Ages
    /\ q.op = "found" => /\ q = [op |-> "found", by |-> q.by, age |-> q.age]
                         /\ q.by \in People /\ q.age \in Ages /\ s.ago[q.by] <= q.age
HeldBy(s, ag) == s.at # "none" => ag[s.at] \in People /\ s.ago[ag[s.at]] = 0
Fresh(s) == s.known # "none" => s.ago[s.known] <= s.age
SlugInv ==
    /\ slug \in Slugs /\ HeldBy(slug, agent) /\ Fresh(slug)
    /\ \A r \in Slots : Timed(req[r], slug)
-----------------------------------------------------------------------------
(* What steps have in common.                                               *)

\* Owners of connections change only to gone, or from new.
Stays(c) == conn'[c] \in {conn[c], "gone"} \/ conn[c] = "new"

\* The bounds are kept.
LEMMA UsedSteps ==
    ASSUME used \in Bounds, Call \/ Fault \/ UNCHANGED used PROVE used' \in Bounds
  <1>1. used.calls \in 0..MaxCalls /\ used.faults \in 0..MaxFaults
    BY DEF Bounds
  <1>2. CASE Call
    BY <1>1, <1>2 DEF Call, Bounds
  <1>3. CASE Fault
    BY <1>1, <1>3 DEF Fault, Bounds
  <1> QED
    BY <1>2, <1>3

\* What a request knows outlives what others do to the connections.
LEMMA KnowsStays ==
    ASSUME NEW q, Knows(q, conn), \A c \in Conns : Stays(c) PROVE Knows(q, conn')
  <1>1. CASE q.op = "model"
    <2>1. q.d \in Conns /\ conn[q.d] \in Of(q.o) \cup {"gone"} /\ Stays(q.d)
      BY <1>1 DEF Knows
    <2>2. conn[q.d] # "new"
      BY <1>1, <2>1 DEF Of, Knows, Owners, People
    <2>3. conn'[q.d] \in Of(q.o) \cup {"gone"}
      BY <2>1, <2>2 DEF Stays
    <2> QED
      BY <1>1, <2>3 DEF Knows
  <1>2. CASE q.op # "model"
    BY <1>2 DEF Knows
  <1> QED
    BY <1>1, <1>2

\* A request goes on, while the connections stay.
LEMMA ReqMoves ==
    ASSUME ReqInv, NEW r \in Slots, NEW q, Knows(q, conn'), req' = [req EXCEPT ![r] = q],
           \A c \in Conns : Stays(c)
    PROVE  ReqInv'
  <1>1. \A o \in Slots : req'[o] = IF o = r THEN q ELSE req[o]
    BY DEF ReqInv
  <1>2. req' = [o \in Slots |-> req'[o]]
    BY DEF ReqInv
  <1>3. \A o \in Slots : Knows(req'[o], conn')
    BY <1>1, KnowsStays DEF ReqInv
  <1> QED
    BY <1>2, <1>3 DEF ReqInv

\* No request moves.
LEMMA ReqRests == ASSUME ReqInv, UNCHANGED req, \A c \in Conns : Stays(c) PROVE ReqInv'
  BY KnowsStays DEF ReqInv

\* A request that is over.
LEMMA IdleKnows == \A cn : Knows(Idle, cn)
  BY DEF Knows, Idle, Ops

\* Connections are left alone.
LEMMA ConnRests == ASSUME CatalogInv, UNCHANGED conn PROVE ConnInv' /\ \A c \in Conns : Stays(c)
  BY DEF CatalogInv, ConnInv, Stays

\* Models and connections are left alone.
LEMMA ModelRests == ASSUME CatalogInv, UNCHANGED <<conn, model>> PROVE ModelInv'
  BY DEF CatalogInv, ModelInv

\* The rows are left alone.
LEMMA RowRests == ASSUME CatalogInv, UNCHANGED <<row, allowed, agent, refs>> PROVE RowInv'
  BY DEF CatalogInv, RowInv, AssignedExists, AllLive

\* A step of one request that writes nothing.
LEMMA OnlyRequest ==
    ASSUME CatalogInv, NEW r \in Slots, NEW q, Knows(q, conn), req' = [req EXCEPT ![r] = q],
           UNCHANGED <<conn, model, row, allowed, agent, refs>>, Call \/ Fault \/ UNCHANGED used
    PROVE  CatalogInv'
  <1>1. ConnInv' /\ \A c \in Conns : Stays(c)
    BY ConnRests
  <1>2. ModelInv' /\ RowInv'
    BY ModelRests, RowRests
  <1>3. ReqInv'
    <2>1. Knows(q, conn') /\ ReqInv
      BY DEF CatalogInv
    <2> QED
      BY <1>1, <2>1, ReqMoves
  <1>4. used' \in Bounds
    BY UsedSteps DEF CatalogInv
  <1> QED
    BY <1>1, <1>2, <1>3, <1>4 DEF CatalogInv

\* A request that only looks, and is to write later.
LEMMA BeginStep ==
    ASSUME CatalogInv, NEW r \in Slots, NEW q, Begins(r, q), Knows(q, conn),
           UNCHANGED <<conn, model, row, allowed, agent, slug, refs>>
    PROVE  CatalogInv'
  BY OnlyRequest DEF Begins
-----------------------------------------------------------------------------
(* Requests begin.                                                          *)

\* A connection that is to go takes a copy of the router along.
LEMMA DropBegins == ASSUME CatalogInv, NEW r \in Slots, NEW c \in Conns, DropBegin(r, c) PROVE CatalogInv'
  <1> DEFINE s == Routers(c)
             q == [op |-> "drop", c |-> c, snap |-> s]
  <1>1. NoModel \in Models /\ NoModel.type = "none"
    BY DEF NoModel, Models
  <1>2. conn[c] \in Owners /\ model[conn[c]] \in Models
    BY DEF DropBegin, Live, CatalogInv, ModelInv
  <1>3. s \in Models /\ s.type # "single"
    BY <1>1, <1>2 DEF Routers
  <1> HIDE DEF s
  <1>4. Knows(q, conn)
    BY <1>3 DEF Knows, Ops
  <1> QED
    BY <1>4, BeginStep DEF DropBegin, s

\* A model that is to be written has connections of the right owner.
LEMMA ModelBegins ==
    ASSUME CatalogInv, NEW r \in Slots, NEW o \in Owners, NEW by \in {o, "a"},
           NEW t \in {"single", "router"}, NEW cs \in SUBSET Conns, NEW d \in cs, NEW id \in 0..(MaxCalls + 1),
           NEW new \in BOOLEAN,
           Owned(cs, o, by),
           ModelBegin(r, [op |-> "model", o |-> o, new |-> new, id |-> id, t |-> t, cs |-> cs, d |-> d])
    PROVE  CatalogInv'
  <1> DEFINE q == [op |-> "model", o |-> o, new |-> new, id |-> id, t |-> t, cs |-> cs, d |-> d]
  <1>1. conn[d] \in Of(o)
    BY DEF Owned, Of
  <1>2. Begins(r, q) /\ UNCHANGED <<conn, model, row, allowed, agent, slug, refs>> /\ (t = "single" => cs = {d})
    BY DEF ModelBegin
  <1>3. Knows(q, conn)
    BY <1>1, <1>2 DEF Knows, Ops
  <1> QED
    BY <1>2, <1>3, BeginStep

\* Everything a request can begin with.
LEMMA BeginSteps == ASSUME CatalogInv, NEW r \in Slots, MayBegin(r), Begin(r) PROVE CatalogInv'
  <1>2. CASE \E c \in Conns : DropBegin(r, c)
    BY <1>2, DropBegins
  <1>3. ASSUME NEW o \in Owners, NEW t \in {"single", "router"}, NEW cs \in SUBSET Conns, NEW d \in cs,
               ModelCreate(r, o, t, cs, d)
        PROVE  CatalogInv'
    <2>1. used.calls \in 0..MaxCalls /\ used.calls < MaxCalls
      BY DEF CatalogInv, Bounds, MayBegin
    <2>2. used.calls + 2 \in 0..(MaxCalls + 1) /\ o \in {o, "a"} /\ TRUE \in BOOLEAN
      BY <2>1
    <2> QED
      BY <1>3, <2>2, ModelBegins, Zenon DEF ModelCreate
  <1>4. ASSUME NEW o \in Owners, NEW t \in {"single", "router"}, NEW cs \in SUBSET Conns, NEW d \in cs,
               NEW by \in People, ModelUpdate(r, o, by, t, cs, d)
        PROVE  CatalogInv'
    <2>1. model[o].id \in 0..(MaxCalls + 1) /\ FALSE \in BOOLEAN
      BY DEF CatalogInv, ModelInv, Models
    <2>2. by \in {o, "a"}
      BY <1>4 DEF ModelUpdate
    <2> QED
      BY <1>4, <2>1, <2>2, ModelBegins, Zenon DEF ModelUpdate
  <1>5. CASE \E names \in BOOLEAN : PolicyCreate(r, names) \/ PolicyUpdate(r, names)
    <2>1. \A names, new \in BOOLEAN : Knows([op |-> "policy", new |-> new, names |-> names], conn)
      BY DEF Knows, Ops
    <2> QED
      BY <1>5, <2>1, BeginStep, Zenon DEF PolicyCreate, PolicyUpdate
  <1>6. CASE PolicyDelete(r) \/ ProfileDelete(r) \/ SkillDelete(r) \/ ToolDelete(r)
    <2>1. \A k : Knows([op |-> "remove", k |-> k], conn)
      BY DEF Knows, Ops
    <2> QED
      BY <1>6, <2>1, BeginStep DEF PolicyDelete, ProfileDelete, SkillDelete, ToolDelete, RemoveBegin
  <1>w. ASSUME NEW op \in {"create", "update"}, NEW h \in Holders, NEW by \in People, NEW add \in SUBSET Kinds,
               NEW drop, Write(r, op, h, by, add, drop)
        PROVE  CatalogInv'
    <2>1. Knows([op |-> op, h |-> h, by |-> by, add |-> add, drop |-> drop], conn)
      BY DEF Knows, Ops
    <2> QED
      BY <1>w, <2>1, BeginStep DEF Write
  <1>h. /\ \A h \in Agents : h \in Holders /\ \A add \in Few(Holdable(h)) : add \in SUBSET Kinds
        /\ "skill" \in Holders /\ \A add \in Few(Holdable("skill")) : add \in SUBSET Kinds
        /\ "a" \in People
    BY DEF Holders, Agents, Few, Holdable, Kinds, People
  <1>7. CASE \E h \in Agents : \E add \in Few(Holdable(h)) :
                \/ \E by \in People : AgentCreate(r, h, by, add) \/ AgentImport(r, h, by, add)
                \/ \E drop \in Few(refs[h] \ add) : AgentUpdate(r, h, add, drop)
    <2>h. PICK h \in Agents : \E add \in Few(Holdable(h)) :
             \/ \E by \in People : AgentCreate(r, h, by, add) \/ AgentImport(r, h, by, add)
             \/ \E drop \in Few(refs[h] \ add) : AgentUpdate(r, h, add, drop)
      BY <1>7
    <2>1. PICK add \in Few(Holdable(h)), by \in People :
             \/ Write(r, "create", h, by, add, {}) \/ Write(r, "create", h, by, {k \in add : row[k] = "live"}, {})
             \/ \E drop : Write(r, "update", h, by, add, drop)
      BY <2>h DEF AgentCreate, AgentImport, AgentUpdate
    <2>2. add \in SUBSET Kinds /\ {k \in add : row[k] = "live"} \in SUBSET Kinds /\ h \in Holders
      BY <1>h
    <2> QED
      BY <1>w, <2>1, <2>2
  <1>8. CASE \E h \in Agents : SkillAssign(r, h) \/ SkillUnassign(r, h)
    <2>1. {"skill"} \in SUBSET Kinds /\ {} \in SUBSET Kinds
      BY DEF Kinds
    <2> QED
      BY <1>8, <1>h, <1>w, <2>1 DEF SkillAssign, SkillUnassign
  <1>9. CASE AskBegin(r)
    <2>1. Knows([op |-> "asks"], conn)
      BY DEF Knows, Ops
    <2> QED
      BY <1>9, <2>1, BeginStep DEF AskBegin
  <1>10. CASE \E add \in Few(Holdable("skill")) : SkillCreate(r, add) \/ SkillUpdate(r, add)
    BY <1>10, <1>h, <1>w DEF SkillCreate, SkillUpdate
  <1>11. CASE \E by \in People : CloneBegin(r, by)
    <2>1. PICK by \in People : CloneBegin(r, by)
      BY <1>11
    <2> DEFINE add == refs["x"] \ IF by = "u" THEN {"skill"} ELSE {"skill", "policy"}
    <2>2. add \subseteq Kinds
      BY DEF CatalogInv, RowInv, Holders, Agents
    <2>3. Begins(r, [op |-> "clone", by |-> by, add |-> add]) /\ UNCHANGED <<conn, model, row, allowed, agent, slug, refs>>
      BY <2>1 DEF CloneBegin
    <2> HIDE DEF add
    <2>4. Knows([op |-> "clone", by |-> by, add |-> add], conn)
      BY <2>2 DEF Knows, Ops
    <2> QED
      BY <2>3, <2>4, BeginStep
  <1>12. CASE \E o \in Owners : ModelDelete(r, o)
    <2>1. PICK o \in Owners : ModelDelete(r, o)
      BY <1>12
    <2> DEFINE q == IF o = "u" THEN [op |-> "scrub"] ELSE Idle
    <2>2. Knows(q, conn) /\ Knows(q, conn')
      BY IdleKnows DEF Knows, Ops
    <2>3. /\ req' = [req EXCEPT ![r] = q] /\ Call /\ UNCHANGED <<conn, row, allowed, agent, refs>>
          /\ model' = [model EXCEPT ![o] = NoModel]
      BY <2>1 DEF ModelDelete, Begins
    <2> HIDE DEF q
    <2>4. NoModel \in Models /\ \A p : Backed(NoModel, p, conn)
      BY DEF NoModel, Models, Backed
    <2>5. ModelInv'
      BY <2>3, <2>4 DEF CatalogInv, ModelInv
    <2>6. ConnInv' /\ (\A c \in Conns : Stays(c)) /\ RowInv'
      BY <2>3, ConnRests, RowRests
    <2>7. ReqInv'
      BY <2>2, <2>3, <2>6, ReqMoves DEF CatalogInv
    <2>8. used' \in Bounds
      BY <2>3, UsedSteps DEF CatalogInv
    <2> QED
      BY <2>5, <2>6, <2>7, <2>8 DEF CatalogInv
  <1>13. CASE \E o \in Owners, t \in {"single", "router"}, cs \in SUBSET Conns : \E d \in cs :
                ModelCreate(r, o, t, cs, d) \/ \E by \in People : ModelUpdate(r, o, by, t, cs, d)
    BY <1>3, <1>4, <1>13
  <1> HIDE DEF CatalogInv
  <1> QED
    BY <1>2, <1>5, <1>6, <1>7, <1>8, <1>9, <1>10, <1>11, <1>12, <1>13, Zenon DEF Begin
-----------------------------------------------------------------------------
(* Connections.                                                             *)

\* A connection is created.
LEMMA ConnectionSteps ==
    ASSUME CatalogInv, NEW c \in Conns, NEW o \in Owners, CreateConnection(c, o) PROVE CatalogInv'
  <1>1. conn' = [conn EXCEPT ![c] = o] /\ conn[c] = "new" /\ UNCHANGED <<model, row, allowed, agent, refs, req>> /\ Call
    BY DEF CreateConnection
  <1>2. conn \in [Conns -> Whose] /\ o \in Whose /\ \A k \in Conns : conn'[k] = IF k = c THEN o ELSE conn[k]
    BY <1>1 DEF CatalogInv, ConnInv, Whose
  <1>3. ConnInv' /\ \A k \in Conns : Stays(k)
    BY <1>1, <1>2 DEF ConnInv, Stays
  <1>4. ASSUME NEW p \in Owners, model[p].type = "single" PROVE conn'[model[p].default] \in Of(p)
    <2>1. model[p].default \in Conns /\ conn[model[p].default] \in Of(p)
      BY <1>4 DEF CatalogInv, ModelInv, Backed
    <2>2. conn[model[p].default] # "new"
      BY <2>1 DEF Of, Owners, People
    <2> QED
      BY <1>1, <1>2, <2>1, <2>2
  <1>5. ModelInv'
    BY <1>1, <1>4 DEF CatalogInv, ModelInv, Backed
  <1>6. RowInv' /\ ReqInv' /\ used' \in Bounds
    BY <1>1, <1>3, RowRests, ReqRests, UsedSteps DEF CatalogInv
  <1> QED
    BY <1>3, <1>5, <1>6 DEF CatalogInv
-----------------------------------------------------------------------------
(* Models.                                                                  *)

\* A model that is not there.
LEMMA NoModelTypes == NoModel \in Models /\ NoModel.type = "none" /\ \A o, cn : Backed(NoModel, o, cn)
  BY DEF NoModel, Models, Backed

\* The router as it was read replaces the router as it is, without the routes of
\* the connection, and never a single model.
LEMMA FilterKeeps ==
    ASSUME NEW m \in Models, NEW s \in Models, NEW c \in Conns, s.type # "single",
           ~(s.type = "router" /\ s.conns # {c} /\ m.id = s.id /\ m.type = "single")
    PROVE  Filtered(m, s, c) \in Models /\ (Filtered(m, s, c).type = "single" => Filtered(m, s, c) = m)
  <1> DEFINE on == m.active /\ s.default # c /\ s.default \in s.conns
             f == [m EXCEPT !.conns = s.conns \ {c}, !.default = s.default, !.active = on]
  <1>1. CASE s.type = "none" \/ s.id # m.id
    BY <1>1 DEF Filtered
  <1>2. CASE ~(s.type = "none" \/ s.id # m.id) /\ s.conns = {c}
    BY <1>2, NoModelTypes DEF Filtered
  <1>3. CASE ~(s.type = "none" \/ s.id # m.id) /\ s.conns # {c}
    <2>1. Filtered(m, s, c) = f
      BY <1>3 DEF Filtered
    <2>2. on \in BOOLEAN /\ s.conns \ {c} \in SUBSET Conns /\ s.default \in Conns \cup {"none"} /\ s.type \in {"none", "single", "router"}
      BY DEF Models
    <2>3. m.type # "single"
      BY <1>3, <2>2
    <2> HIDE DEF on
    <2>4. f \in Models /\ f.type = m.type
      BY <2>2 DEF Models
    <2> QED
      BY <2>1, <2>3, <2>4
  <1> QED
    BY <1>1, <1>2, <1>3

\* A connection goes, and with it what has no other.
LEMMA DropCommits == ASSUME CatalogInv, NEW r \in Slots, DropCommit(r) PROVE CatalogInv'
  <1> DEFINE q == req[r]
             s == q.snap
             c == q.c
  <1>1. /\ q.op = "drop" /\ req' = [req EXCEPT ![r] = Idle] /\ UNCHANGED <<row, allowed, agent, refs>>
        /\ Fault \/ UNCHANGED used
    BY DEF DropCommit, Is, Ends
  <1>2. \/ /\ ~Clash(s, c) /\ conn' = [conn EXCEPT ![c] = "gone"]
           /\ model' = [o \in Owners |-> Cascaded(o, s, c)]
        \/ UNCHANGED <<conn, model>>
    BY DEF DropCommit
  <1>3. c \in Conns /\ s \in Models /\ s.type # "single"
    BY <1>1 DEF CatalogInv, ReqInv, Knows
  <1>4. RowInv' /\ used' \in Bounds
    BY <1>1, RowRests, UsedSteps DEF CatalogInv
  <1>5. ConnInv' /\ ModelInv' /\ \A k \in Conns : Stays(k)
    <2>1. CASE UNCHANGED <<conn, model>>
      BY <2>1, ConnRests, ModelRests
    <2>2. CASE /\ ~Clash(s, c) /\ conn' = [conn EXCEPT ![c] = "gone"]
               /\ model' = [o \in Owners |-> Cascaded(o, s, c)]
      <3> HIDE DEF q, s, c
      <3>1. conn \in [Conns -> Whose]
        BY DEF CatalogInv, ConnInv
      <3>5. \A k \in Conns : conn'[k] = IF k = c THEN "gone" ELSE conn[k]
        BY <2>2, <3>1
      <3>6. ConnInv'
        BY <2>2, <3>1 DEF ConnInv, Whose
      <3>7. \A k \in Conns : Stays(k)
        BY <3>5 DEF Stays
      <3>8. ASSUME NEW o \in Owners PROVE model'[o] \in Models /\ Backed(model'[o], o, conn')
        <4> DEFINE z == IF o = conn[c] THEN s ELSE NoModel
                   m == model[o]
                   f == Filtered(m, z, c)
        <4>1. m \in Models /\ Backed(m, o, conn)
          BY DEF CatalogInv, ModelInv
        <4>2. z \in Models /\ z.type # "single" /\ ~(z.type = "router" /\ z.conns # {c} /\ m.id = z.id /\ m.type = "single")
          BY <1>3, <2>2, NoModelTypes DEF Clash
        <4> HIDE DEF z, m
        <4>3. f \in Models /\ (f.type = "single" => f = m)
          BY <1>3, <4>1, <4>2, FilterKeeps
        <4>4. model'[o] = IF f.type = "single" /\ f.conns = {c} THEN NoModel ELSE f
          BY <2>2 DEF Cascaded, m, z
        <4> HIDE DEF f
        <4>5. CASE f.type = "single" /\ f.conns # {c}
          <5>1. f = m /\ f.conns = {f.default} /\ f.default \in Conns /\ conn[f.default] \in Of(o)
            BY <4>1, <4>3, <4>5 DEF Backed
          <5>2. f.default # c
            BY <4>5, <5>1
          <5>3. conn'[f.default] \in Of(o)
            BY <3>5, <5>1, <5>2
          <5> QED
            BY <4>3, <4>4, <4>5, <5>1, <5>3 DEF Backed
        <4>6. CASE f.type # "single"
          BY <4>3, <4>4, <4>6 DEF Backed
        <4>7. CASE f.type = "single" /\ f.conns = {c}
          BY <4>4, <4>7, NoModelTypes
        <4> QED
          BY <4>5, <4>6, <4>7
      <3>9. ModelInv'
        BY <2>2, <3>8 DEF ModelInv
      <3> QED
        BY <3>6, <3>7, <3>9
    <2> QED
      BY <1>2, <2>1, <2>2
  <1>6. ReqInv'
    BY <1>1, <1>5, IdleKnows, ReqMoves DEF CatalogInv
  <1> QED
    BY <1>4, <1>5, <1>6 DEF CatalogInv

\* One model changes.
LEMMA ModelStep ==
    ASSUME CatalogInv, NEW o \in Owners, NEW m \in Models, model' = [model EXCEPT ![o] = m],
           Backed(m, o, conn), UNCHANGED conn
    PROVE  ModelInv'
  <1>1. model \in [Owners -> Models] /\ \A p \in Owners : Backed(model[p], p, conn)
    BY DEF CatalogInv, ModelInv
  <1>2. \A p \in Owners : model'[p] = IF p = o THEN m ELSE model[p]
    BY <1>1
  <1>3. \A p \in Owners : Backed(model'[p], p, conn)
    BY <1>1, <1>2
  <1>4. model' \in [Owners -> Models]
    BY <1>1, <1>2
  <1> QED
    BY <1>3, <1>4 DEF ModelInv

\* A model is written as its request said, if its connection is still there.
LEMMA ModelWrites == ASSUME CatalogInv, NEW r \in Slots, ModelWrite(r) PROVE CatalogInv'
  <1> DEFINE q == req[r]
             m == model[q.o]
             put == Put(m, q)
             new == [Put(NoModel, q) EXCEPT !.id = q.id, !.active = TRUE]
  <1>1. /\ q.op = "model" /\ req' = [req EXCEPT ![r] = Idle]
        /\ UNCHANGED <<conn, row, allowed, agent, refs, used>>
    BY DEF ModelWrite, Is, Ends
  <1>2. /\ q.o \in Owners /\ q.id \in 0..(MaxCalls + 1) /\ q.t \in {"single", "router"}
        /\ q.cs \in SUBSET Conns /\ q.d \in Conns /\ (q.t = "single" => q.cs = {q.d})
        /\ conn[q.d] \in Of(q.o) \cup {"gone"}
    BY <1>1 DEF CatalogInv, ReqInv, Knows
  <1>3. \/ model' = model
        \/ ForeignKey(q) /\ (model' = [model EXCEPT ![q.o] = new] \/ model' = [model EXCEPT ![q.o] = put])
    BY DEF ModelWrite
  <1>4. m \in Models
    BY <1>2 DEF CatalogInv, ModelInv
  <1> HIDE DEF q, m
  <1>5. put \in Models /\ put.type = q.t /\ put.conns = q.cs /\ put.default = q.d
    BY <1>2, <1>4 DEF Put, Models
  <1>6. new \in Models /\ new.type = q.t /\ new.conns = q.cs /\ new.default = q.d
    <2> DEFINE p == Put(NoModel, q)
    <2>1. p \in Models /\ p.type = q.t /\ p.conns = q.cs /\ p.default = q.d
      BY <1>2, NoModelTypes DEF Put, Models
    <2> HIDE DEF p
    <2>2. ASSUME NEW b \in BOOLEAN
          PROVE  /\ [p EXCEPT !.id = q.id, !.active = b] \in Models
                 /\ [p EXCEPT !.id = q.id, !.active = b].type = p.type
                 /\ [p EXCEPT !.id = q.id, !.active = b].conns = p.conns
                 /\ [p EXCEPT !.id = q.id, !.active = b].default = p.default
      BY <1>2, <2>1 DEF Models
    <2>3. TRUE \in BOOLEAN
      OBVIOUS
    <2>4. /\ [p EXCEPT !.id = q.id, !.active = TRUE] \in Models
          /\ [p EXCEPT !.id = q.id, !.active = TRUE].type = p.type
          /\ [p EXCEPT !.id = q.id, !.active = TRUE].conns = p.conns
          /\ [p EXCEPT !.id = q.id, !.active = TRUE].default = p.default
      BY <2>2, <2>3, Zenon
    <2> QED
      BY <2>1, <2>4, Zenon DEF p
  <1> HIDE DEF put, new
  <1>7. ForeignKey(q) /\ q.t = "single" => q.cs = {q.d} /\ conn[q.d] \in Of(q.o)
    BY <1>2 DEF ForeignKey, Live, Owners, People
  <1>8. ForeignKey(q) => Backed(put, q.o, conn) /\ Backed(new, q.o, conn)
    BY <1>2, <1>5, <1>6, <1>7 DEF Backed
  <1>9. ModelInv'
    BY <1>1, <1>2, <1>3, <1>5, <1>6, <1>8, ModelRests, ModelStep
  <1>10. ConnInv' /\ RowInv' /\ \A c \in Conns : Stays(c)
    BY <1>1, ConnRests, RowRests
  <1>11. ReqInv' /\ used' \in Bounds
    BY <1>1, <1>10, IdleKnows, ReqMoves DEF CatalogInv
  <1> QED
    BY <1>9, <1>10, <1>11 DEF CatalogInv

\* A model is switched on or off.
LEMMA ModelToggles == ASSUME CatalogInv, NEW o \in Owners, ModelToggle(o) PROVE CatalogInv'
  <1> DEFINE m == model[o]
             f == [m EXCEPT !.active = ~m.active]
  <1>1. /\ model' = [model EXCEPT ![o] = f] /\ Call
        /\ UNCHANGED <<conn, row, allowed, agent, refs, req>>
    BY DEF ModelToggle
  <1>2. m \in Models /\ Backed(m, o, conn)
    BY DEF CatalogInv, ModelInv
  <1>3. f \in Models /\ f.type = m.type /\ f.conns = m.conns /\ f.default = m.default
    <2> HIDE DEF m
    <2> QED
      BY <1>2 DEF Models
  <1> HIDE DEF f
  <1>4. Backed(f, o, conn)
    BY <1>2, <1>3 DEF Backed
  <1>5. ModelInv' /\ ConnInv' /\ RowInv' /\ \A c \in Conns : Stays(c)
    BY <1>1, <1>3, <1>4, ModelStep, ConnRests, RowRests
  <1>6. ReqInv' /\ used' \in Bounds
    BY <1>1, <1>5, ReqRests, UsedSteps DEF CatalogInv
  <1> QED
    BY <1>5, <1>6 DEF CatalogInv
-----------------------------------------------------------------------------
(* Rows, and those that refer to them.                                      *)

\* A request ends by writing rows and references.
LEMMA RowStep ==
    ASSUME CatalogInv, RowInv', UNCHANGED <<conn, model>>, Call \/ Fault \/ UNCHANGED used,
           \/ UNCHANGED req
           \/ \E r \in Slots : req' = [req EXCEPT ![r] = Idle]
    PROVE  CatalogInv'
  <1>1. ConnInv' /\ ModelInv' /\ (\A c \in Conns : Stays(c)) /\ used' \in Bounds
    BY ConnRests, ModelRests, UsedSteps DEF CatalogInv
  <1>2. ReqInv'
    BY <1>1, IdleKnows, ReqMoves, ReqRests DEF CatalogInv
  <1> QED
    BY <1>1, <1>2 DEF CatalogInv

\* A row comes to live, and nothing refers to more than before.
LEMMA RowAppears ==
    ASSUME RowInv, NEW k \in Kinds, row' = [row EXCEPT ![k] = "live"], UNCHANGED <<agent, refs>>,
           allowed' \in BOOLEAN
    PROVE  RowInv'
  <1>1. row' \in [Kinds -> Life] /\ \A j \in Kinds : row[j] = "live" => row'[j] = "live"
    BY DEF RowInv, Life
  <1>2. AssignedExists'
    BY <1>1 DEF RowInv, AssignedExists, AllLive
  <1> QED
    BY <1>1, <1>2 DEF RowInv

\* A policy is written, or its allowance is taken back; a row is created.
LEMMA PolicySteps ==
    ASSUME CatalogInv, NEW r \in Slots, PolicyWrite(r) \/ ModelScrub(r) \/ ProfileCreate \/ ToolCreate
    PROVE  CatalogInv'
  <1>i. RowInv
    BY DEF CatalogInv
  <1>1. CASE PolicyWrite(r)
    <2> DEFINE there == row["policy"] = (IF req[r].new THEN "new" ELSE "live")
    <2>1. /\ req[r].op = "policy" /\ req' = [req EXCEPT ![r] = Idle] /\ UNCHANGED <<conn, model, agent, refs, used>>
          /\ row' = IF there THEN [row EXCEPT !["policy"] = "live"] ELSE row
          /\ allowed' = IF there THEN req[r].names ELSE allowed
      BY <1>1 DEF PolicyWrite, Is, Ends
    <2>2. req[r].names \in BOOLEAN /\ "policy" \in Kinds /\ allowed \in BOOLEAN
      BY <1>i, <2>1 DEF CatalogInv, ReqInv, Knows, RowInv, Kinds
    <2> HIDE DEF there
    <2>3. RowInv'
      <3>1. CASE there
        BY <1>i, <2>1, <2>2, <3>1, RowAppears
      <3>2. CASE ~there
        BY <2>1, <3>2, RowRests
      <3> QED
        BY <3>1, <3>2
    <2> QED
      BY <2>1, <2>3, RowStep
  <1>2. CASE ModelScrub(r)
    <2>1. /\ req' = [req EXCEPT ![r] = Idle] /\ UNCHANGED <<conn, model, row, agent, refs>>
          /\ Fault \/ UNCHANGED used
          /\ allowed' = FALSE \/ allowed' = allowed
      BY <1>2 DEF ModelScrub, Ends
    <2>2. RowInv'
      BY <1>i, <2>1 DEF RowInv, AssignedExists, AllLive
    <2> QED
      BY <2>1, <2>2, RowStep
  <1>3. CASE ProfileCreate \/ ToolCreate
    <2>1. PICK k \in Kinds : /\ row' = [row EXCEPT ![k] = "live"] /\ Call
                             /\ UNCHANGED <<conn, model, allowed, agent, refs, req>>
      BY <1>3 DEF ProfileCreate, ToolCreate, RowCreate, Kinds
    <2>2. RowInv'
      <3>1. allowed' \in BOOLEAN
        BY <1>i, <2>1 DEF RowInv
      <3> QED
        BY <1>i, <2>1, <3>1, RowAppears
    <2> QED
      BY <2>1, <2>2, RowStep
  <1> QED
    BY <1>1, <1>2, <1>3

\* A row goes only when nobody refers to it by then, or with the references.
LEMMA RemoveWrites == ASSUME CatalogInv, NEW r \in Slots, RemoveWrite(r) PROVE CatalogInv'
  <1> DEFINE k == req[r].k
  <1>i. RowInv
    BY DEF CatalogInv
  <1>1. /\ req' = [req EXCEPT ![r] = Idle] /\ UNCHANGED <<conn, model, allowed, agent, used>>
        /\ \/ Deletable(k) /\ row' = [row EXCEPT ![k] = "gone"] /\ refs' = [h \in Holders |-> Left(h, k)]
           \/ UNCHANGED <<row, refs>>
    BY DEF RemoveWrite, Is, Ends
  <1> HIDE DEF k
  <1>2. CASE Deletable(k) /\ row' = [row EXCEPT ![k] = "gone"] /\ refs' = [h \in Holders |-> Left(h, k)]
    <2>1. row' \in [Kinds -> Life] /\ \A j \in Kinds : j # k => row'[j] = row[j]
      BY <1>i, <1>2 DEF RowInv, Life
    <2>2. \A h \in Holders : Left(h, k) \subseteq refs[h] /\ k \notin Left(h, k)
      BY <1>2 DEF Deletable, Users, Left
    <2>3. refs' \in [Holders -> SUBSET Kinds]
      BY <1>i, <1>2, <2>2 DEF RowInv
    <2>4. AssignedExists'
      <3> SUFFICES ASSUME NEW h \in Holders, NEW j \in refs'[h] PROVE row'[j] = "live"
        BY DEF AssignedExists, AllLive
      <3>1. j \in refs[h] /\ j # k
        BY <1>2, <2>2
      <3>2. j \in Kinds /\ row[j] = "live"
        BY <1>i, <3>1 DEF RowInv, AssignedExists, AllLive
      <3> QED
        BY <2>1, <3>1, <3>2
    <2>5. RowInv'
      BY <1>i, <1>1, <2>1, <2>3, <2>4 DEF RowInv
    <2> QED
      BY <1>1, <2>5, RowStep
  <1>3. CASE UNCHANGED <<row, refs>>
    BY <1>1, <1>3, RowRests, RowStep
  <1> QED
    BY <1>1, <1>2, <1>3

\* A holder comes to refer to rows that are there as it does.
LEMMA Links ==
    ASSUME RowInv, NEW h \in Holders, NEW ks \in SUBSET Kinds, AllLive(ks),
           refs' = [refs EXCEPT ![h] = ks], agent' \in [Agents -> People \cup {"new", "gone"}],
           row' = row \/ row' = [row EXCEPT !["skill"] = "live"], UNCHANGED allowed
    PROVE  RowInv'
  <1>1. row' \in [Kinds -> Life] /\ \A j \in Kinds : row[j] = "live" => row'[j] = "live"
    BY DEF RowInv, Life, Kinds
  <1>2. refs' \in [Holders -> SUBSET Kinds] /\ \A g \in Holders : refs'[g] = IF g = h THEN ks ELSE refs[g]
    BY DEF RowInv
  <1>3. AssignedExists'
    <2> SUFFICES ASSUME NEW g \in Holders, NEW j \in refs'[g] PROVE row'[j] = "live"
      BY DEF AssignedExists, AllLive
    <2>1. j \in Kinds /\ row[j] = "live"
      BY <1>2 DEF RowInv, AssignedExists, AllLive
    <2> QED
      BY <1>1, <2>1
  <1> QED
    BY <1>1, <1>2, <1>3 DEF RowInv

\* What is kept and what is added is there.
LEMMA LinkedLive ==
    ASSUME RowInv, NEW h \in Holders, NEW add \in SUBSET Kinds, NEW drop, AllLive(add)
    PROVE  (refs[h] \ drop) \cup add \in SUBSET Kinds /\ AllLive((refs[h] \ drop) \cup add)
  BY DEF RowInv, AssignedExists, AllLive

\* Agents and skills are written in one transaction.
LEMMA HolderWrites ==
    ASSUME CatalogInv, NEW r \in Slots, AgentInsert(r) \/ AgentWrite(r) \/ SetSkillTools(r)
    PROVE  CatalogInv'
  <1> DEFINE q == req[r]
             ks == (refs[q.h] \ q.drop) \cup q.add
  <1>i. RowInv
    BY DEF CatalogInv
  <1>1. /\ q.op \in {"create", "update"} /\ req' = [req EXCEPT ![r] = Idle] /\ UNCHANGED <<conn, model, allowed>>
        /\ Fault \/ UNCHANGED used
    BY DEF AgentInsert, AgentWrite, SetSkillTools, Is, Ends
  <1>2. q.h \in Holders /\ q.add \in SUBSET Kinds /\ q.by \in People
    BY <1>1 DEF CatalogInv, ReqInv, Knows
  <1>3. \/ UNCHANGED <<row, agent, refs>>
        \/ /\ AllLive(q.add) /\ refs' = [refs EXCEPT ![q.h] = ks]
           /\ \/ agent' = [agent EXCEPT ![q.h] = q.by] /\ row' = row
              \/ agent' = agent /\ (row' = row \/ row' = [row EXCEPT !["skill"] = "live"])
    BY DEF AgentInsert, AgentWrite, SetSkillTools, Writable, Linked
  <1> HIDE DEF q
  <1>4. CASE UNCHANGED <<row, agent, refs>>
    BY <1>1, <1>4, RowRests, RowStep
  <1>5. CASE /\ AllLive(q.add) /\ refs' = [refs EXCEPT ![q.h] = ks]
             /\ \/ agent' = [agent EXCEPT ![q.h] = q.by] /\ row' = row
                \/ agent' = agent /\ (row' = row \/ row' = [row EXCEPT !["skill"] = "live"])
    <2>1. ks \in SUBSET Kinds /\ AllLive(ks)
      BY <1>i, <1>2, <1>5, LinkedLive
    <2>2. agent' \in [Agents -> People \cup {"new", "gone"}]
      BY <1>i, <1>2, <1>5 DEF RowInv
    <2> HIDE DEF ks
    <2>3. RowInv'
      BY <1>i, <1>1, <1>2, <1>5, <2>1, <2>2, Links
    <2> QED
      BY <1>1, <2>3, RowStep
  <1> QED
    BY <1>3, <1>4, <1>5

\* The clone's row is written, and then its skills, by which time the source or
\* the skills may have gone.
LEMMA CloneSteps == ASSUME CatalogInv, NEW r \in Slots, CloneInsert(r) \/ CloneSkills(r) PROVE CatalogInv'
  <1> DEFINE q == req[r]
  <1>i. RowInv /\ "y" \in Holders /\ "x" \in Holders
    BY DEF CatalogInv, Holders, Agents
  <1>1. UNCHANGED <<conn, model, row, allowed>> /\ (Fault \/ UNCHANGED used) /\ q.op \in {"clone", "skills"}
    BY DEF CloneInsert, CloneSkills, Is
  <1>2. q.add \in SUBSET Kinds
    BY <1>1 DEF CatalogInv, ReqInv, Knows
  <1>3. CASE CloneInsert(r)
    <2> DEFINE z == refs["x"] \cap {"skill"}
               p == [op |-> "skills", add |-> z]
    <2>1. CASE /\ AllLive(q.add) /\ UNCHANGED used
               /\ agent' = [agent EXCEPT !["y"] = q.by] /\ refs' = [refs EXCEPT !["y"] = q.add]
               /\ req' = [req EXCEPT ![r] = p]
      <3>1. agent' \in [Agents -> People \cup {"new", "gone"}]
        <4>1. q.by \in People
          BY <1>3 DEF CloneInsert, Is, CatalogInv, ReqInv, Knows
        <4> QED
          BY <1>i, <2>1, <4>1 DEF RowInv
      <3>2. RowInv'
        BY <1>i, <1>1, <1>2, <2>1, <3>1, Links
      <3>3. z \subseteq Kinds
        BY <1>i DEF RowInv
      <3> HIDE DEF z
      <3>4. Knows(p, conn')
        BY <3>3 DEF Knows, Ops
      <3> HIDE DEF p
      <3>5. ConnInv' /\ ModelInv' /\ \A c \in Conns : Stays(c)
        BY <1>1, ConnRests, ModelRests
      <3>6. ReqInv' /\ used' \in Bounds
        BY <2>1, <3>4, <3>5, ReqMoves DEF CatalogInv
      <3> QED
        BY <3>2, <3>5, <3>6 DEF CatalogInv
    <2>2. CASE UNCHANGED <<agent, refs, used>> /\ req' = [req EXCEPT ![r] = Idle]
      BY <1>1, <2>2, RowRests, RowStep
    <2> QED
      BY <1>3, <2>1, <2>2 DEF CloneInsert, Ends
  <1>4. CASE CloneSkills(r)
    <2> DEFINE ks == (refs["y"] \ {}) \cup q.add
    <2>1. /\ req' = [req EXCEPT ![r] = Idle] /\ agent' = agent
          /\ \/ AllLive(q.add) /\ refs' = [refs EXCEPT !["y"] = ks]
             \/ UNCHANGED refs
      BY <1>4 DEF CloneSkills, Ends
    <2> HIDE DEF q
    <2>2. CASE AllLive(q.add) /\ refs' = [refs EXCEPT !["y"] = ks]
      <3>1. ks \in SUBSET Kinds /\ AllLive(ks)
        BY <1>i, <1>2, <2>2, LinkedLive
      <3>2. agent' \in [Agents -> People \cup {"new", "gone"}]
        BY <1>i, <2>1 DEF RowInv
      <3> HIDE DEF ks
      <3>3. RowInv'
        BY <1>i, <1>1, <2>2, <3>1, <3>2, Links
      <3> QED
        BY <1>1, <2>1, <3>3, RowStep
    <2>3. CASE UNCHANGED refs
      BY <1>1, <2>1, <2>3, RowRests, RowStep
    <2> QED
      BY <2>1, <2>2, <2>3
  <1> QED
    BY <1>3, <1>4

\* An agent goes with its references.
LEMMA AgentGoes == ASSUME CatalogInv, NEW h \in Agents, AgentDelete(h) PROVE CatalogInv'
  <1>1. /\ agent' = [agent EXCEPT ![h] = "gone"] /\ refs' = [refs EXCEPT ![h] = {}] /\ Call
        /\ UNCHANGED <<conn, model, row, allowed, req>>
    BY DEF AgentDelete
  <1>2. RowInv /\ h \in Holders /\ AllLive({}) /\ {} \in SUBSET Kinds
    BY DEF CatalogInv, Holders, AllLive
  <1>3. agent' \in [Agents -> People \cup {"new", "gone"}]
    BY <1>1, <1>2 DEF RowInv
  <1>4. RowInv'
    BY <1>1, <1>2, <1>3, Links
  <1> QED
    BY <1>1, <1>4, RowStep
-----------------------------------------------------------------------------
(* The model router asks.                                                   *)

\* A resolution goes on from lookup to lookup, each on its own; whose models they
\* are comes from the cache or from the agent's row.
LEMMA Resolutions == ASSUME CatalogInv, SlugInv, NEW r \in Slots, Resolves(r) PROVE CatalogInv'
  <1> DEFINE q == req[r]
  <1>a. ASSUME NEW p, Knows(p, conn), Asks(r, p) PROVE CatalogInv'
    BY <1>a, OnlyRequest DEF Asks
  <1>m. \A o \in Owners : model[o] \in Models /\ Backed(model[o], o, conn)
    BY DEF CatalogInv, ModelInv
  <1>q. /\ q.op \in {"single", "router", "route", "platform"} => Asking(q)
        /\ q.op = "route" => q.c \in Conns
    BY DEF CatalogInv, ReqInv, Knows
  <1>s. slug.age \in Ages /\ slug.ago \in [People -> Ages] /\ slug.known \in People \cup {"none"} /\ Fresh(slug)
    BY DEF SlugInv, Slugs
  <1>t. Timed(q, slug) /\ Ttl \in Nat /\ 0 < Ttl /\ 0 \in Ages
    BY DEF SlugInv, Ages
  <1>o. ASSUME NEW o \in People, NEW n \in Ages, n < Ttl PROVE Knows(OwnedBy(o, n), conn)
    BY <1>o DEF Knows, Ops, OwnedBy, Asking
  <1>n. ASSUME NEW op \in {"router", "platform"}, Asking(q) PROVE Knows(On(q, op), conn)
    BY <1>n DEF Knows, Ops, On, Asking
  <1>k. ASSUME NEW via, NEW c, Asking(q),
               \/ via = "platform" /\ conn[c] = "p"
               \/ via = "router" /\ conn[c] = q.by
               \/ via = "single" /\ conn[c] \in {q.by, "a"}
        PROVE  Knows(KeyOf(q, via, c), conn)
    BY <1>k DEF Knows, Ops, KeyOf, Asking, Answered
  <1>1. CASE LookupOwner(r)
    <2>1. CASE Kept(slug)
      <3>1. slug.known \in People /\ slug.ago[slug.known] \in Ages /\ slug.ago[slug.known] <= slug.age /\ slug.age < Ttl
        BY <1>s, <2>1 DEF Kept, Fresh
      <3>2. slug.ago[slug.known] < Ttl
        BY <1>t, <1>s, <3>1 DEF Ages
      <3>3. Asks(r, OwnedBy(slug.known, slug.ago[slug.known]))
        BY <1>1, <2>1 DEF LookupOwner, Asked
      <3> QED
        BY <1>a, <1>o, <3>1, <3>2, <3>3
    <2>2. CASE ~Kept(slug)
      <3>1. Asks(r, [op |-> "owner", age |-> 0])
        BY <1>1, <2>2 DEF LookupOwner, Asked
      <3>2. Knows([op |-> "owner", age |-> 0], conn)
        BY DEF Knows, Ops
      <3> QED
        BY <1>a, <3>1, <3>2
    <2> QED
      BY <2>1, <2>2
  <1>2. CASE ReadOwner(r)
    <2>1. \A by, n : Knows([op |-> "found", by |-> by, age |-> n], conn)
      BY DEF Knows, Ops
    <2>2. CASE slug.at = "none"
      BY <1>2, <1>a, <2>2, IdleKnows DEF ReadOwner, Asked
    <2>3. CASE slug.at # "none"
      <3>1. Asks(r, [op |-> "found", by |-> agent[slug.at], age |-> req[r].age])
        BY <1>2, <2>3 DEF ReadOwner, Asked
      <3> QED
        BY <1>a, <2>1, <3>1
    <2> QED
      BY <2>2, <2>3
  <1>3. CASE KeepOwner(r)
    <2>1. q.by \in People /\ Asks(r, OwnedBy(q.by, 0))
      BY <1>3, <1>t DEF KeepOwner, Is, Timed
    <2> QED
      BY <1>a, <1>o, <1>t, <2>1
  <1>4. CASE ResolveUserModel(r)
    <2>1. Asking(q) /\ q.by \in Owners /\ q.by # "p"
      BY <1>4, <1>q DEF ResolveUserModel, Is, Asking, Owners, People
    <2>2. CASE Offers(q.by, "single")
      <3>1. conn[model[q.by].default] \in {q.by, "a"}
        BY <1>m, <2>1, <2>2 DEF Offers, Backed, Of
      <3>2. Asks(r, KeyOf(q, "single", model[q.by].default))
        BY <1>4, <2>2 DEF ResolveUserModel, Asked
      <3> QED
        BY <1>a, <1>k, <2>1, <3>1, <3>2
    <2>3. CASE ~Offers(q.by, "single")
      <3>1. Asks(r, On(q, "router"))
        BY <1>4, <2>3 DEF ResolveUserModel, Asked
      <3> QED
        BY <1>a, <1>n, <2>1, <3>1
    <2> QED
      BY <2>2, <2>3
  <1>5. CASE ResolveRouterModel(r)
    <2>1. Asking(q) /\ q.by \in Owners
      BY <1>5, <1>q DEF ResolveRouterModel, Is, Asking, Owners
    <2>2. ASSUME NEW c \in model[q.by].conns PROVE Knows([op |-> "route", by |-> q.by, ago |-> q.ago, c |-> c], conn)
      <3>1. c \in Conns
        BY <1>m, <2>1 DEF Models
      <3> QED
        BY <2>1, <3>1 DEF Knows, Ops, Asking
    <2>3. \/ \E c \in model[q.by].conns : Asks(r, [op |-> "route", by |-> q.by, ago |-> q.ago, c |-> c])
          \/ Asks(r, On(q, "platform"))
      BY <1>5 DEF ResolveRouterModel, Asked
    <2> QED
      BY <1>a, <1>n, <2>1, <2>2, <2>3
  <1>6. CASE ResolveRouteCredentials(r)
    <2>1. Asking(q)
      BY <1>6, <1>q DEF ResolveRouteCredentials, Is
    <2>2. CASE conn[q.c] = q.by
      <3>1. Asks(r, KeyOf(q, "router", q.c))
        BY <1>6, <2>2 DEF ResolveRouteCredentials, Asked
      <3> QED
        BY <1>a, <1>k, <2>1, <2>2, <3>1
    <2>3. CASE conn[q.c] # q.by
      BY <1>6, <1>a, <2>3, IdleKnows DEF ResolveRouteCredentials, Asked
    <2> QED
      BY <2>2, <2>3
  <1>7. CASE ResolvePlatformModel(r)
    <2>1. Asking(q) /\ "p" \in Owners
      BY <1>7, <1>q DEF ResolvePlatformModel, Is, Owners
    <2>2. CASE Offers("p", "single")
      <3>1. conn[model["p"].default] = "p"
        BY <1>m, <2>1, <2>2 DEF Offers, Backed, Of
      <3>2. Asks(r, KeyOf(q, "platform", model["p"].default))
        BY <1>7, <2>2 DEF ResolvePlatformModel, Asked
      <3> QED
        BY <1>a, <1>k, <2>1, <3>1, <3>2
    <2>3. CASE ~Offers("p", "single")
      BY <1>7, <1>a, <2>3, IdleKnows DEF ResolvePlatformModel, Asked
    <2> QED
      BY <2>2, <2>3
  <1>8. CASE CallEnds(r)
    BY <1>8, <1>a, IdleKnows DEF CallEnds, Asked
  <1> QED
    BY <1>1, <1>2, <1>3, <1>4, <1>5, <1>6, <1>7, <1>8 DEF Resolves

\* Time passes, and the requests that look an owner up grow older with it.
LEMMA TickGrows ==
    ASSUME SlugInv, ReqInv, Tick, NEW r \in Slots
    PROVE  req'[r].op = req[r].op /\ (req[r].op \notin {"owner", "found"} => req'[r] = req[r])
  <1>1. req' = [o \in Slots |-> IF req[o].op \in {"owner", "found"} THEN [req[o] EXCEPT !.age = Older(@)] ELSE req[o]]
    BY DEF Tick
  <1>2. Timed(req[r], slug)
    BY DEF SlugInv
  <1>3. CASE req[r].op = "owner"
    BY <1>1, <1>2, <1>3 DEF Timed
  <1>4. CASE req[r].op = "found"
    BY <1>1, <1>2, <1>4 DEF Timed
  <1>5. CASE req[r].op \notin {"owner", "found"}
    BY <1>1, <1>5
  <1> QED
    BY <1>3, <1>4, <1>5

\* Time changes nothing that is written.
LEMMA Ticks == ASSUME CatalogInv, SlugInv, Tick PROVE CatalogInv'
  <1>1. UNCHANGED <<conn, model, row, allowed, agent, refs, used>>
        /\ req' = [o \in Slots |-> IF req[o].op \in {"owner", "found"} THEN [req[o] EXCEPT !.age = Older(@)] ELSE req[o]]
    BY DEF Tick
  <1>2. ConnInv' /\ ModelInv' /\ RowInv' /\ \A c \in Conns : Stays(c)
    BY <1>1, ConnRests, ModelRests, RowRests
  <1>3. ASSUME NEW r \in Slots PROVE Knows(req'[r], conn')
    <2>1. Knows(req[r], conn) /\ ReqInv
      BY DEF CatalogInv, ReqInv
    <2>2. CASE req[r].op \in {"owner", "found"}
      <3>1. req'[r].op \in {"owner", "found"}
        BY <2>1, <2>2, TickGrows
      <3> QED
        BY <3>1 DEF Knows, Ops
    <2>3. CASE req[r].op \notin {"owner", "found"}
      <3>1. req'[r] = req[r]
        BY <2>1, <2>3, TickGrows
      <3> QED
        BY <1>2, <2>1, <3>1, KnowsStays
    <2> QED
      BY <2>2, <2>3
  <1>4. req' = [r \in Slots |-> req'[r]]
    BY <1>1
  <1>5. ReqInv'
    BY <1>3, <1>4 DEF ReqInv
  <1> QED
    BY <1>1, <1>2, <1>5 DEF CatalogInv
-----------------------------------------------------------------------------
(* The name and the cache.                                                  *)

Untimed(q) == q.op \notin {"owner", "found"}

\* A step that leaves the name and the agent that has it alone.
LEMMA SlugRests ==
    ASSUME SlugInv, ReqInv, UNCHANGED slug, HeldBy(slug, agent'),
           \/ UNCHANGED req
           \/ \E r \in Slots : \E q : req' = [req EXCEPT ![r] = q] /\ Untimed(q)
    PROVE  SlugInv'
  <1>1. ASSUME NEW o \in Slots PROVE Timed(req'[o], slug)
    <2>1. Timed(req[o], slug)
      BY DEF SlugInv
    <2>2. CASE UNCHANGED req
      BY <2>1, <2>2
    <2>3. ASSUME NEW r \in Slots, NEW q, req' = [req EXCEPT ![r] = q], Untimed(q) PROVE Timed(req'[o], slug)
      <3>1. req'[o] = IF o = r THEN q ELSE req[o]
        BY <2>3 DEF ReqInv
      <3>2. Timed(q, slug)
        BY <2>3 DEF Timed, Untimed
      <3> QED
        BY <2>1, <3>1, <3>2
    <2> QED
      BY <2>2, <2>3
  <1> QED
    BY <1>1 DEF SlugInv

\* Most steps are of this kind, and leave every agent where it is.
Quiet ==
    /\ UNCHANGED <<slug, agent>>
    /\ \/ UNCHANGED req
       \/ \E r \in Slots : \E q : req' = [req EXCEPT ![r] = q] /\ Untimed(q)

\* And these keep what the cache says true.
LEMMA QuietKeeps == ASSUME CatalogInv, SlugInv, Quiet PROVE SlugInv'
  <1>1. ReqInv /\ HeldBy(slug, agent')
    BY DEF CatalogInv, SlugInv, Quiet
  <1> QED
    BY <1>1, SlugRests DEF Quiet

\* Requests begin quietly.
LEMMA BeginIsQuiet == ASSUME NEW r \in Slots, Begin(r) PROVE Quiet
  <1>a. ASSUME NEW q, Begins(r, q), Untimed(q), UNCHANGED <<slug, agent>> PROVE Quiet
    BY <1>a DEF Begins, Quiet
  <1>b. ASSUME NEW op, NEW h, NEW by, NEW add, NEW drop, Write(r, op, h, by, add, drop), op \in {"create", "update"}
        PROVE  Quiet
    BY <1>a, <1>b DEF Write, Untimed
  <1>c. ASSUME NEW k, RemoveBegin(r, k) PROVE Quiet
    BY <1>a, <1>c DEF RemoveBegin, Untimed
  <1>d. ASSUME NEW q, ModelBegin(r, q), q.op = "model" PROVE Quiet
    BY <1>a, <1>d DEF ModelBegin, Untimed
  <1>1. ASSUME NEW c, DropBegin(r, c) PROVE Quiet
    BY <1>1, <1>a DEF DropBegin, Untimed
  <1>2. ASSUME NEW o, NEW t, NEW cs, NEW d, ModelCreate(r, o, t, cs, d) PROVE Quiet
    BY <1>2, <1>d DEF ModelCreate
  <1>3. ASSUME NEW o, NEW by, NEW t, NEW cs, NEW d, ModelUpdate(r, o, by, t, cs, d) PROVE Quiet
    BY <1>3, <1>d DEF ModelUpdate
  <1>4. ASSUME NEW o, ModelDelete(r, o) PROVE Quiet
    <2> DEFINE q == IF o = "u" THEN [op |-> "scrub"] ELSE Idle
    <2>1. Untimed(q)
      BY DEF Untimed, Idle
    <2>2. Begins(r, q) /\ UNCHANGED <<slug, agent>>
      BY <1>4 DEF ModelDelete
    <2> HIDE DEF q
    <2> QED
      BY <1>a, <2>1, <2>2
  <1>5. ASSUME NEW names, PolicyCreate(r, names) \/ PolicyUpdate(r, names) PROVE Quiet
    BY <1>5, <1>a DEF PolicyCreate, PolicyUpdate, Untimed
  <1>6. ASSUME PolicyDelete(r) \/ ProfileDelete(r) \/ SkillDelete(r) \/ ToolDelete(r) PROVE Quiet
    BY <1>6, <1>c DEF PolicyDelete, ProfileDelete, SkillDelete, ToolDelete
  <1>7. ASSUME NEW h, NEW by, NEW add, AgentCreate(r, h, by, add) \/ AgentImport(r, h, by, add) PROVE Quiet
    BY <1>7, <1>b DEF AgentCreate, AgentImport
  <1>8. ASSUME NEW h, NEW add, NEW drop, AgentUpdate(r, h, add, drop) PROVE Quiet
    BY <1>8, <1>b DEF AgentUpdate
  <1>9. ASSUME NEW h, SkillAssign(r, h) \/ SkillUnassign(r, h) PROVE Quiet
    BY <1>9, <1>b DEF SkillAssign, SkillUnassign
  <1>10. ASSUME NEW add, SkillCreate(r, add) \/ SkillUpdate(r, add) PROVE Quiet
    BY <1>10, <1>b DEF SkillCreate, SkillUpdate
  <1>11. ASSUME NEW by, CloneBegin(r, by) PROVE Quiet
    BY <1>11, <1>a DEF CloneBegin, Untimed
  <1>12. ASSUME AskBegin(r) PROVE Quiet
    BY <1>12, <1>a DEF AskBegin, Untimed
  <1>13. CASE \E o \in Owners, t \in {"single", "router"}, cs \in SUBSET Conns : \E d \in cs :
                ModelCreate(r, o, t, cs, d) \/ \E by \in People : ModelUpdate(r, o, by, t, cs, d)
    BY <1>2, <1>3, <1>13
  <1>14. CASE \E h \in Agents : \E add \in Few(Holdable(h)) :
                \/ \E by \in People : AgentCreate(r, h, by, add) \/ AgentImport(r, h, by, add)
                \/ \E drop \in Few(refs[h] \ add) : AgentUpdate(r, h, add, drop)
    BY <1>7, <1>8, <1>14
  <1>15. CASE \/ \E c \in Conns : DropBegin(r, c)
              \/ \E o \in Owners : ModelDelete(r, o)
              \/ \E names \in BOOLEAN : PolicyCreate(r, names) \/ PolicyUpdate(r, names)
    BY <1>1, <1>4, <1>5, <1>15
  <1>16. CASE \/ \E h \in Agents : SkillAssign(r, h) \/ SkillUnassign(r, h)
              \/ \E add \in Few(Holdable("skill")) : SkillCreate(r, add) \/ SkillUpdate(r, add)
              \/ \E by \in People : CloneBegin(r, by)
    BY <1>9, <1>10, <1>11, <1>16
  <1> HIDE DEF Quiet
  <1> QED
    BY <1>6, <1>12, <1>13, <1>14, <1>15, <1>16 DEF Begin

\* So do writes that touch no agent's row, and what needs no request.
LEMMA WritesAreQuiet ==
    ASSUME \/ \E c \in Conns, o \in Owners : CreateConnection(c, o)
           \/ \E o \in Owners : ModelToggle(o)
           \/ ProfileCreate \/ ToolCreate
           \/ \E r \in Slots : \/ DropCommit(r) \/ ModelWrite(r) \/ ModelScrub(r) \/ PolicyWrite(r)
                               \/ RemoveWrite(r) \/ AgentWrite(r) \/ SetSkillTools(r) \/ CloneSkills(r)
           \/ UNCHANGED vars
    PROVE  Quiet
  <1>e. ASSUME NEW r \in Slots, Ends(r), UNCHANGED <<slug, agent>> PROVE Quiet
    <2>1. req' = [req EXCEPT ![r] = Idle] /\ Untimed(Idle)
      BY <1>e DEF Ends, Untimed, Idle
    <2> QED
      BY <1>e, <2>1 DEF Quiet
  <1>1. CASE \/ \E c \in Conns, o \in Owners : CreateConnection(c, o)
             \/ \E o \in Owners : ModelToggle(o)
             \/ ProfileCreate \/ ToolCreate \/ UNCHANGED vars
    BY <1>1 DEF CreateConnection, ModelToggle, ProfileCreate, ToolCreate, RowCreate, Quiet, vars
  <1>2. ASSUME NEW r \in Slots, DropCommit(r) \/ ModelWrite(r) \/ ModelScrub(r) \/ PolicyWrite(r) PROVE Quiet
    BY <1>2, <1>e DEF DropCommit, ModelWrite, ModelScrub, PolicyWrite
  <1>3. ASSUME NEW r \in Slots, RemoveWrite(r) \/ AgentWrite(r) \/ SetSkillTools(r) \/ CloneSkills(r) PROVE Quiet
    BY <1>3, <1>e DEF RemoveWrite, AgentWrite, SetSkillTools, CloneSkills
  <1> QED
    BY <1>1, <1>2, <1>3

\* An agent is written, with the name if nobody has it; it was not there before,
\* so it is not the one that has the name.
LEMMA InsertKeepsSlug == ASSUME CatalogInv, SlugInv, NEW r \in Slots, AgentInsert(r) PROVE SlugInv'
  <1> DEFINE h == req[r].h
             by == req[r].by
             new == [slug EXCEPT !.at = h, !.ago[by] = 0]
  <1>1. ReqInv /\ req' = [req EXCEPT ![r] = Idle] /\ Untimed(Idle)
    BY DEF AgentInsert, Ends, Untimed, Idle, CatalogInv
  <1>2. h \in Agents /\ by \in People
    BY DEF AgentInsert, Is, CatalogInv, ReqInv, Knows
  <1>3. slug \in Slugs /\ HeldBy(slug, agent) /\ Fresh(slug) /\ agent \in [Agents -> People \cup {"new", "gone"}]
    BY DEF SlugInv, CatalogInv, RowInv
  <1>4. \/ UNCHANGED <<agent, slug>>
        \/ agent[h] = "new" /\ agent' = [agent EXCEPT ![h] = by] /\ slug' = IF slug.at = "none" THEN new ELSE slug
    <2>1. "skill" \notin Agents
      BY DEF Agents
    <2>2. agent[h] \in People => agent[h] # "new"
      BY DEF People
    <2>3. AgentInsert(r) => \/ UNCHANGED <<agent, slug>>
                            \/ /\ LifeOf(h) = "new" /\ agent' = [agent EXCEPT ![h] = by]
                               /\ slug' = IF slug.at = "none" THEN new ELSE slug
      BY DEF AgentInsert, Writable, Named, Is
    <2>4. LifeOf(h) = "new" => agent[h] = "new"
      BY <1>2, <2>1 DEF LifeOf
    <2> QED
      BY <2>3, <2>4
  <1> HIDE DEF h, by
  <1>5. CASE UNCHANGED <<agent, slug>>
    BY <1>1, <1>3, <1>5, SlugRests DEF HeldBy
  <1>6. CASE agent[h] = "new" /\ agent' = [agent EXCEPT ![h] = by] /\ slug' = slug /\ slug.at # "none"
    <2>1. slug.at \in Agents /\ agent[slug.at] # "new"
      BY <1>3, <1>6 DEF Slugs, HeldBy, People
    <2>2. agent'[slug.at] = agent[slug.at]
      BY <1>3, <1>6, <2>1
    <2>3. HeldBy(slug, agent')
      BY <1>3, <2>2 DEF HeldBy
    <2> QED
      BY <1>1, <1>6, <2>3, SlugRests
  <1>7. CASE agent[h] = "new" /\ agent' = [agent EXCEPT ![h] = by] /\ slug' = new /\ slug.at = "none"
    <2> DEFINE ago == [slug.ago EXCEPT ![by] = 0]
    <2>1. ago \in [People -> Ages] /\ \A o \in People : ago[o] = IF o = by THEN 0 ELSE slug.ago[o]
      BY <1>2, <1>3 DEF Slugs, Ages
    <2>2. new = [slug EXCEPT !.at = h, !.ago = ago]
      BY <1>3 DEF Slugs
    <2> HIDE DEF ago
    <2>3. new \in Slugs /\ new.at = h /\ new.ago = ago /\ new.known = slug.known /\ new.age = slug.age
      BY <1>2, <1>3, <2>1, <2>2 DEF Slugs
    <2> HIDE DEF new
    <2>a. slug.age \in Nat /\ \A o \in People : slug.ago[o] \in Nat /\ ago[o] <= slug.ago[o]
      BY <1>3, <2>1 DEF Slugs, Ages
    <2>4. HeldBy(new, agent')
      BY <1>2, <1>3, <1>7, <2>1, <2>3 DEF HeldBy
    <2>5. Fresh(new)
      <3>1. ASSUME slug.known # "none" PROVE ago[slug.known] <= slug.age
        <4>1. slug.known \in People /\ slug.ago[slug.known] <= slug.age
          BY <1>3, <3>1 DEF Slugs, Fresh
        <4>2. ago[slug.known] \in Nat
          BY <2>1, <4>1 DEF Ages
        <4> QED
          BY <2>a, <4>1, <4>2
      <3> QED
        BY <2>3, <3>1 DEF Fresh
    <2>6. ASSUME NEW o \in Slots PROVE Timed(req'[o], new)
      <3>1. Timed(req[o], slug) /\ req'[o] = IF o = r THEN Idle ELSE req[o]
        BY <1>1 DEF SlugInv, ReqInv
      <3>2. CASE req'[o].op = "found"
        <4>1. req'[o] = req[o] /\ req[o].op = "found"
          BY <1>1, <3>1, <3>2 DEF Untimed
        <4>2. req[o].by \in People /\ req[o].age \in Nat /\ slug.ago[req[o].by] <= req[o].age
          BY <3>1, <4>1 DEF Timed, Ages
        <4>3. ago[req[o].by] \in Nat
          BY <2>1, <4>2 DEF Ages
        <4>4. ago[req[o].by] <= req[o].age
          BY <2>a, <4>2, <4>3
        <4> QED
          BY <2>3, <3>1, <3>2, <4>1, <4>4 DEF Timed
      <3>3. CASE req'[o].op # "found"
        BY <1>1, <3>1, <3>3 DEF Timed, Untimed
      <3> QED
        BY <3>2, <3>3
    <2> QED
      BY <1>7, <2>3, <2>4, <2>5, <2>6 DEF SlugInv
  <1> QED
    BY <1>4, <1>5, <1>6, <1>7

\* A clone has a name of its own.
LEMMA CloneKeepsSlug == ASSUME CatalogInv, SlugInv, NEW r \in Slots, CloneInsert(r) PROVE SlugInv'
  <1>1. ReqInv /\ slug \in Slugs /\ HeldBy(slug, agent) /\ agent \in [Agents -> People \cup {"new", "gone"}] /\ slug' = slug
    BY DEF SlugInv, CatalogInv, RowInv, CloneInsert
  <1>2. \E q : req' = [req EXCEPT ![r] = q] /\ Untimed(q)
    <2>1. Untimed(Idle) /\ \A z : Untimed([op |-> "skills", add |-> z])
      BY DEF Untimed, Idle
    <2> QED
      BY <2>1, Zenon DEF CloneInsert, Ends
  <1>3. \/ agent' = agent
        \/ agent["y"] = "new" /\ agent' = [agent EXCEPT !["y"] = req[r].by]
    BY DEF CloneInsert
  <1>4. HeldBy(slug, agent')
    <2>1. CASE slug.at # "none"
      <3>1. slug.at \in Agents /\ agent[slug.at] # "new"
        BY <1>1, <2>1 DEF Slugs, HeldBy, People
      <3>2. agent'[slug.at] = agent[slug.at]
        BY <1>1, <1>3, <3>1
      <3> QED
        BY <1>1, <3>2 DEF HeldBy
    <2>2. CASE slug.at = "none"
      BY <2>2 DEF HeldBy
    <2> QED
      BY <2>1, <2>2
  <1> QED
    BY <1>1, <1>2, <1>4, SlugRests

\* When the agent that has the name goes, nobody has it.
LEMMA DeleteKeepsSlug == ASSUME CatalogInv, SlugInv, NEW h \in Agents, AgentDelete(h) PROVE SlugInv'
  <1> DEFINE new == [slug EXCEPT !.at = "none"]
  <1>1. slug \in Slugs /\ HeldBy(slug, agent) /\ Fresh(slug) /\ agent \in [Agents -> People \cup {"new", "gone"}]
    BY DEF SlugInv, CatalogInv, RowInv
  <1>2. /\ agent' = [agent EXCEPT ![h] = "gone"] /\ req' = req
        /\ slug' = IF slug.at = h THEN new ELSE slug
    BY DEF AgentDelete
  <1>3. new \in Slugs /\ new.at = "none" /\ new.ago = slug.ago /\ new.known = slug.known /\ new.age = slug.age
    BY <1>1 DEF Slugs
  <1> HIDE DEF new
  <1>4. HeldBy(slug', agent')
    <2>1. CASE slug.at = h
      BY <1>2, <1>3, <2>1 DEF HeldBy
    <2>2. CASE slug.at # h
      <3>1. slug.at # "none" => slug.at \in Agents /\ agent'[slug.at] = agent[slug.at]
        BY <1>1, <1>2, <2>2 DEF Slugs
      <3> QED
        BY <1>1, <1>2, <2>2, <3>1 DEF HeldBy
    <2> QED
      BY <2>1, <2>2
  <1>5. slug' \in Slugs /\ Fresh(slug') /\ slug'.ago = slug.ago
    BY <1>1, <1>2, <1>3 DEF Fresh
  <1>6. \A r \in Slots : Timed(req'[r], slug')
    BY <1>2, <1>5 DEF SlugInv, Timed
  <1> QED
    BY <1>4, <1>5, <1>6 DEF SlugInv

\* Growing older keeps what is older older.
LEMMA OlderGrows ==
    /\ \A n \in Ages : Older(n) \in Ages
    /\ \A n, k \in Ages : n <= k => Older(n) <= Older(k)
    /\ 0 \in Ages /\ \A n \in Ages : 0 <= n
  BY DEF Ages, Older

\* Time passes alike for the cache, for the lookups and for who had the name.
LEMMA TickKeepsSlug == ASSUME CatalogInv, SlugInv, Tick PROVE SlugInv'
  <1> DEFINE ago == [o \in People |-> IF Has(o) THEN 0 ELSE Older(slug.ago[o])]
             age == Older(slug.age)
             new == [slug EXCEPT !.age = age, !.ago = ago]
  <1>1. slug \in Slugs /\ HeldBy(slug, agent) /\ Fresh(slug) /\ ReqInv
    BY DEF SlugInv, CatalogInv
  <1>2. /\ slug' = [slug EXCEPT !.age = Older(@), !.ago = ago] /\ agent' = agent
        /\ req' = [r \in Slots |-> IF req[r].op \in {"owner", "found"} THEN [req[r] EXCEPT !.age = Older(@)] ELSE req[r]]
    BY DEF Tick
  <1>3. slug.age \in Ages /\ slug.ago \in [People -> Ages]
    BY <1>1 DEF Slugs
  <1>4. age \in Ages /\ ago \in [People -> Ages]
    BY <1>3, OlderGrows
  <1>5. \A o \in People : ago[o] \in {0, Older(slug.ago[o])} /\ (Has(o) => ago[o] = 0)
    OBVIOUS
  <1>6. slug' = new
    BY <1>2
  <1> HIDE DEF ago, age
  <1>7. /\ slug' \in Slugs /\ slug'.at = slug.at /\ slug'.known = slug.known
        /\ slug'.age = age /\ slug'.ago = ago
    BY <1>1, <1>4, <1>6 DEF Slugs
  <1>8. HeldBy(slug', agent')
    <2>1. ASSUME slug.at # "none" PROVE agent[slug.at] \in People /\ ago[agent[slug.at]] = 0
      <3>1. agent[slug.at] \in People /\ Has(agent[slug.at])
        BY <1>1, <2>1 DEF HeldBy, Has
      <3> QED
        BY <1>5, <3>1
    <2> QED
      BY <1>2, <1>7, <2>1 DEF HeldBy
  <1>9. \A o \in People, n \in Ages : slug.ago[o] <= n => ago[o] <= Older(n)
    <2> SUFFICES ASSUME NEW o \in People, NEW n \in Ages, slug.ago[o] <= n PROVE ago[o] <= Older(n)
      OBVIOUS
    <2>1. slug.ago[o] \in Ages /\ Older(n) \in Ages
      BY <1>3, OlderGrows
    <2>2. Older(slug.ago[o]) <= Older(n) /\ 0 <= Older(n)
      BY <2>1, OlderGrows
    <2> QED
      BY <1>5, <2>2
  <1>10. Fresh(slug')
    <2>1. ASSUME slug.known # "none" PROVE ago[slug.known] <= age
      <3>1. slug.known \in People /\ slug.ago[slug.known] <= slug.age
        BY <1>1, <2>1 DEF Slugs, Fresh
      <3> QED
        BY <1>3, <1>9, <3>1 DEF age
    <2> QED
      BY <1>7, <2>1 DEF Fresh
  <1>11. ASSUME NEW r \in Slots PROVE Timed(req'[r], slug')
    <2>1. Timed(req[r], slug)
      BY DEF SlugInv
    <2>2. CASE req[r].op = "owner"
      <3>1. req[r] = [op |-> "owner", age |-> req[r].age] /\ req[r].age \in Ages
        BY <2>1, <2>2 DEF Timed
      <3>2. req'[r] = [op |-> "owner", age |-> Older(req[r].age)]
        BY <1>2, <2>2, <3>1
      <3> QED
        BY <3>1, <3>2, OlderGrows DEF Timed
    <2>3. CASE req[r].op = "found"
      <3>1. /\ req[r] = [op |-> "found", by |-> req[r].by, age |-> req[r].age]
            /\ req[r].by \in People /\ req[r].age \in Ages /\ slug.ago[req[r].by] <= req[r].age
        BY <2>1, <2>3 DEF Timed
      <3>2. req'[r] = [op |-> "found", by |-> req[r].by, age |-> Older(req[r].age)]
        BY <1>2, <2>3, <3>1
      <3>3. ago[req[r].by] <= Older(req[r].age)
        BY <1>9, <3>1
      <3> QED
        BY <1>7, <3>1, <3>2, <3>3, OlderGrows DEF Timed
    <2>4. CASE req[r].op \notin {"owner", "found"}
      <3>1. req'[r] = req[r]
        BY <1>1, <2>4, TickGrows
      <3> QED
        BY <2>4, <3>1 DEF Timed
    <2> QED
      BY <2>2, <2>3, <2>4
  <1> QED
    BY <1>7, <1>8, <1>10, <1>11 DEF SlugInv

\* An owner is kept with the age of the lookup, so what the cache says is never
\* older than its entry.
LEMMA ResolveKeepsSlug == ASSUME CatalogInv, SlugInv, NEW r \in Slots, Resolves(r) PROVE SlugInv'
  <1> DEFINE q == req[r]
  <1>a. ASSUME NEW p, Asked(r, p), Untimed(p) PROVE SlugInv'
    <2>1. Quiet
      BY <1>a DEF Asked, Asks, Quiet
    <2> QED
      BY <2>1, QuietKeeps
  <1>b. /\ Untimed(Idle) /\ \A o, n : Untimed(OwnedBy(o, n))
        /\ \A p, via, c : Untimed(KeyOf(p, via, c))
        /\ \A p : Untimed(On(p, "router")) /\ Untimed(On(p, "platform"))
    BY DEF Untimed, Idle, OwnedBy, KeyOf, On
  <1>s. slug \in Slugs /\ HeldBy(slug, agent) /\ Fresh(slug) /\ ReqInv /\ Timed(q, slug)
    BY DEF SlugInv, CatalogInv
  <1>d. ASSUME NEW p, Asked(r, p), Timed(p, slug) PROVE SlugInv'
    <2>1. \A o \in Slots : req'[o] = IF o = r THEN p ELSE req[o]
      BY <1>d, <1>s DEF Asked, Asks, ReqInv
    <2>2. slug' = slug /\ agent' = agent
      BY <1>d DEF Asked, Asks
    <2> QED
      BY <1>d, <2>1, <2>2 DEF SlugInv
  <1>1. CASE LookupOwner(r)
    <2>1. CASE Kept(slug)
      BY <1>1, <1>a, <1>b, <2>1 DEF LookupOwner
    <2>2. CASE ~Kept(slug)
      <3>1. Asked(r, [op |-> "owner", age |-> 0])
        BY <1>1, <2>2 DEF LookupOwner
      <3>2. Timed([op |-> "owner", age |-> 0], slug)
        BY OlderGrows DEF Timed
      <3> QED
        BY <1>d, <3>1, <3>2
    <2> QED
      BY <2>1, <2>2
  <1>2. CASE ReadOwner(r)
    <2>1. CASE slug.at = "none"
      BY <1>2, <1>a, <1>b, <2>1 DEF ReadOwner
    <2>2. CASE slug.at # "none"
      <3> DEFINE by == agent[slug.at]
                 n == req[r].age
      <3>1. Asked(r, [op |-> "found", by |-> by, age |-> n])
        BY <1>2, <2>2 DEF ReadOwner
      <3>2. n \in Ages /\ by \in People /\ slug.ago[by] = 0
        BY <1>2, <1>s, <2>2 DEF ReadOwner, Is, Timed, HeldBy
      <3>3. slug.ago[by] <= n
        BY <3>2 DEF Ages
      <3> HIDE DEF by, n
      <3>4. Timed([op |-> "found", by |-> by, age |-> n], slug)
        BY <3>2, <3>3 DEF Timed
      <3> QED
        BY <1>d, <3>1, <3>4
    <2> QED
      BY <2>1, <2>2
  <1>3. CASE KeepOwner(r)
    <2> DEFINE p == OwnedBy(q.by, 0)
               new == [slug EXCEPT !.known = q.by, !.age = q.age]
    <2>1. req' = [req EXCEPT ![r] = p] /\ slug' = new /\ agent' = agent /\ q.op = "found"
      BY <1>3 DEF KeepOwner, Asks, Is
    <2>2. q.by \in People /\ q.age \in Ages /\ slug.ago[q.by] <= q.age
      BY <1>s, <2>1 DEF Timed
    <2> HIDE DEF q
    <2>3. new \in Slugs /\ new.at = slug.at /\ new.ago = slug.ago /\ new.known = q.by /\ new.age = q.age
      BY <1>s, <2>2 DEF Slugs
    <2>4. Untimed(p)
      BY <1>b
    <2> HIDE DEF new, p
    <2>5. HeldBy(new, agent') /\ Fresh(new)
      BY <1>s, <2>1, <2>2, <2>3 DEF HeldBy, Fresh
    <2>6. ASSUME NEW o \in Slots PROVE Timed(req'[o], new)
      <3>1. Timed(req[o], slug) /\ req'[o] = IF o = r THEN p ELSE req[o]
        BY <1>s, <2>1 DEF SlugInv, ReqInv
      <3> QED
        BY <2>3, <2>4, <3>1 DEF Timed, Untimed
    <2> QED
      BY <2>1, <2>3, <2>5, <2>6 DEF SlugInv
  <1>4. CASE ResolveUserModel(r)
    BY <1>4, <1>a, <1>b DEF ResolveUserModel
  <1>5. CASE ResolveRouterModel(r)
    <2>1. \A c : Untimed([op |-> "route", by |-> q.by, ago |-> q.ago, c |-> c])
      BY DEF Untimed
    <2> QED
      BY <1>5, <1>a, <1>b, <2>1 DEF ResolveRouterModel
  <1>6. CASE ResolveRouteCredentials(r) \/ ResolvePlatformModel(r) \/ CallEnds(r)
    BY <1>6, <1>a, <1>b DEF ResolveRouteCredentials, ResolvePlatformModel, CallEnds
  <1> QED
    BY <1>1, <1>2, <1>3, <1>4, <1>5, <1>6 DEF Resolves
-----------------------------------------------------------------------------
(* The theorems.                                                            *)

\* It holds of a user who has set up an agent, and of one who has not.
LEMMA InitCatalog == Init => CatalogInv /\ SlugInv
  <1> SUFFICES ASSUME Init PROVE CatalogInv /\ SlugInv
    OBVIOUS
  <1>1. conn \in [Conns -> Owners \cup {"new"}]
    BY DEF Init
  <1>2. ConnInv
    BY <1>1 DEF ConnInv, Whose
  <1>4. PICK up, asked \in BOOLEAN, d \in Conns, t \in {"single", "router"} :
          LET mine == {c \in Conns : conn[c] = "u"} IN
          /\ (up => d \in mine) /\ (asked => up)
          /\ model = [o \in Owners |->
                        IF up /\ o = "u"
                        THEN [id |-> 1, type |-> t, active |-> TRUE,
                              conns |-> IF t = "single" THEN {d} ELSE mine, default |-> d]
                        ELSE NoModel]
          /\ row = [k \in Kinds |-> IF up THEN "live" ELSE "new"]
          /\ allowed = up
          /\ agent = [h \in Agents |-> IF up /\ h = "x" THEN "u" ELSE "new"]
          /\ slug = [at |-> IF up THEN "x" ELSE "none", known |-> IF asked THEN "u" ELSE "none",
                     age |-> IF asked THEN 0 ELSE Ttl,
                     ago |-> [o \in People |-> IF up /\ o = "u" THEN 0 ELSE Ttl]]
          /\ refs = [h \in Holders |-> IF up /\ h = "x" THEN {"policy"} ELSE {}]
    BY Zenon DEF Init
  <1>5. ModelInv
    <2> DEFINE mine == {c \in Conns : conn[c] = "u"}
               cs == IF t = "single" THEN {d} ELSE mine
               m == [id |-> 1, type |-> t, active |-> TRUE, conns |-> cs, default |-> d]
    <2>1. cs \in SUBSET Conns /\ 1 \in 0..(MaxCalls + 1) /\ (t = "single" => cs = {d})
      OBVIOUS
    <2> HIDE DEF cs
    <2>2. \A b \in BOOLEAN : [id |-> 1, type |-> t, active |-> b, conns |-> cs, default |-> d] \in Models
      BY <2>1 DEF Models
    <2>3. TRUE \in BOOLEAN
      OBVIOUS
    <2>4. m \in Models
      BY <2>2, <2>3, Zenon
    <2>5. m.type = t /\ m.conns = cs /\ m.default = d
      OBVIOUS
    <2>6. up => conn[d] = "u"
      BY <1>4
    <2>7. model = [o \in Owners |-> IF up /\ o = "u" THEN m ELSE NoModel]
      BY <1>4 DEF cs
    <2> HIDE DEF m
    <2>8. up => Backed(m, "u", conn)
      BY <2>1, <2>5, <2>6 DEF Backed, Of
    <2> QED
      BY <2>4, <2>7, <2>8, NoModelTypes DEF ModelInv
  <1>6. RowInv
    <2>1. row \in [Kinds -> Life] /\ agent \in [Agents -> People \cup {"new", "gone"}] /\ allowed \in BOOLEAN
      BY <1>4 DEF Life, People
    <2>2. refs \in [Holders -> SUBSET Kinds]
      BY <1>4 DEF Kinds
    <2>3. AssignedExists
      BY <1>4 DEF AssignedExists, AllLive, Kinds
    <2> QED
      BY <2>1, <2>2, <2>3 DEF RowInv
  <1>7. ReqInv
    BY IdleKnows DEF Init, ReqInv
  <1>8. used \in Bounds
    BY DEF Init, Bounds
  <1>9. SlugInv
    <2>1. 0 \in Ages /\ Ttl \in Ages /\ 0 <= Ttl
      BY DEF Ages
    <2> DEFINE at == IF up THEN "x" ELSE "none"
               known == IF asked THEN "u" ELSE "none"
               age == IF asked THEN 0 ELSE Ttl
               ago == [o \in People |-> IF up /\ o = "u" THEN 0 ELSE Ttl]
    <2>2. /\ at \in Agents \cup {"none"} /\ known \in People \cup {"none"}
          /\ age \in Ages /\ ago \in [People -> Ages]
      BY <2>1 DEF Agents, People
    <2>3. (at # "none" => up /\ at = "x" /\ ago["u"] = 0) /\ (known # "none" => up /\ known = "u" /\ ago["u"] = 0 /\ age = 0)
      BY <1>4 DEF People
    <2>4. slug = [at |-> at, known |-> known, age |-> age, ago |-> ago]
      BY <1>4
    <2> HIDE DEF at, known, age, ago
    <2>5. slug \in Slugs
      BY <2>2, <2>4 DEF Slugs
    <2>6. HeldBy(slug, agent) /\ Fresh(slug)
      BY <1>4, <2>1, <2>3, <2>4 DEF HeldBy, Fresh, Agents, People
    <2>7. \A r \in Slots : Timed(req[r], slug)
      BY DEF Init, Timed, Idle
    <2> QED
      BY <2>5, <2>6, <2>7 DEF SlugInv
  <1> QED
    BY <1>2, <1>5, <1>6, <1>7, <1>8, <1>9 DEF CatalogInv

\* And every step keeps both.
LEMMA NextCatalog == CatalogInv /\ SlugInv /\ [Next]_vars => CatalogInv' /\ SlugInv'
  <1> SUFFICES ASSUME CatalogInv, SlugInv, [Next]_vars PROVE CatalogInv' /\ SlugInv'
    OBVIOUS
  <1>q. Quiet => SlugInv'
    BY QuietKeeps
  <1>1. ASSUME NEW c \in Conns, NEW o \in Owners, CreateConnection(c, o) PROVE CatalogInv' /\ Quiet
    BY <1>1, ConnectionSteps, WritesAreQuiet
  <1>2. ASSUME NEW o \in Owners, ModelToggle(o) PROVE CatalogInv' /\ Quiet
    BY <1>2, ModelToggles, WritesAreQuiet
  <1>4. ASSUME NEW h \in Agents, AgentDelete(h) PROVE CatalogInv' /\ SlugInv'
    BY <1>4, AgentGoes, DeleteKeepsSlug
  <1>5. ASSUME NEW r \in Slots, MayBegin(r) /\ Begin(r) PROVE CatalogInv' /\ Quiet
    BY <1>5, BeginSteps, BeginIsQuiet
  <1>6. ASSUME NEW r \in Slots, DropCommit(r) \/ ModelWrite(r) PROVE CatalogInv' /\ Quiet
    BY <1>6, DropCommits, ModelWrites, WritesAreQuiet
  <1>7. ASSUME NEW r \in Slots, ModelScrub(r) \/ PolicyWrite(r) \/ RemoveWrite(r) PROVE CatalogInv' /\ Quiet
    BY <1>7, PolicySteps, RemoveWrites, WritesAreQuiet
  <1>8. ASSUME NEW r \in Slots, AgentWrite(r) \/ SetSkillTools(r) \/ CloneSkills(r) PROVE CatalogInv' /\ Quiet
    BY <1>8, HolderWrites, CloneSteps, WritesAreQuiet
  <1>9. ASSUME NEW r \in Slots, AgentInsert(r) \/ CloneInsert(r) PROVE CatalogInv' /\ SlugInv'
    BY <1>9, HolderWrites, CloneSteps, InsertKeepsSlug, CloneKeepsSlug
  <1>10. ASSUME NEW r \in Slots, Resolves(r) PROVE CatalogInv' /\ SlugInv'
    BY <1>10, Resolutions, ResolveKeepsSlug
  <1>11. CASE UNCHANGED vars
    <2>1. Quiet
      BY <1>11, WritesAreQuiet
    <2> QED
      BY <1>11, <1>q, <2>1, RowRests, RowStep DEF vars
  <1>12. CASE Tick
    BY <1>12, Ticks, TickKeepsSlug
  <1>13. CASE ProfileCreate \/ ToolCreate
    <2>1. Quiet
      BY <1>13, WritesAreQuiet
    <2>2. PICK k \in Kinds : RowCreate(k)
      BY <1>13 DEF ProfileCreate, ToolCreate, Kinds
    <2>3. RowInv'
      <3>1. allowed' \in BOOLEAN /\ RowInv
        BY <2>2 DEF RowCreate, CatalogInv, RowInv
      <3> QED
        BY <2>2, <3>1, RowAppears DEF RowCreate
    <2> QED
      BY <1>q, <2>1, <2>2, <2>3, RowStep DEF RowCreate
  <1> HIDE DEF Quiet
  <1> QED
    BY <1>q, <1>1, <1>2, <1>4, <1>5, <1>6, <1>7, <1>8, <1>9, <1>10, <1>11, <1>12, <1>13 DEF Next

\* Type correctness of the catalog.
THEOREM CatalogTypeCorrect == Spec => []TypeOK
  <1>1. CatalogInv /\ SlugInv => TypeOK
    BY DEF CatalogInv, SlugInv, ConnInv, ModelInv, RowInv, ReqInv, Knows, Whose, Bounds, TypeOK
  <1> QED
    BY <1>1, InitCatalog, NextCatalog, PTL DEF Spec

\* In whatever order deletions and assignments look and write, on any number of
\* requests at once, no agent or skill refers to a policy, profile, skill or
\* tool that is gone (the DELETE handlers and the foreign keys behind them).
THEOREM NobodyRefersToTheGone == Spec => []AssignedExists
  <1>1. CatalogInv => AssignedExists
    BY DEF CatalogInv, RowInv
  <1> QED
    BY <1>1, InitCatalog, NextCatalog, PTL DEF Spec

\* However models, connections and the holder of the name change between the
\* lookups of a resolution, for any lifetime of the cache: the key is of somebody
\* whose agent had the name less than that before, or the platform's for a
\* platform model, or for a single model an admin's (ai/app/models.py:38-64).
THEOREM KeysNeverMix == Spec => []KeysStayApart
  <1>1. CatalogInv => KeysStayApart
    BY DEF CatalogInv, ReqInv, Knows, Answered, KeysStayApart, Is
  <1> QED
    BY <1>1, InitCatalog, NextCatalog, PTL DEF Spec
=============================================================================
