--------------------------- MODULE AgentLifecycle ---------------------------
(***************************************************************************)
(* The agent life cycle of the API service: the start, stop, delete and    *)
(* create routes of routes/agents.ts, the container operations they use    *)
(* (services/docker.ts), the periodic reconciler that compares the rows    *)
(* with the containers (services/agent-reconciler.ts) and the record of    *)
(* what may be reported as fact (services/agent-status-verification.ts).   *)
(*                                                                         *)
(* A route handler runs from one await to the next, so every handler is a  *)
(* sequence of steps, kept in req[r].pc, and the steps of several handlers *)
(* and of several reconcile passes interleave.  Container calls and        *)
(* queries may fail; a failure is charged to the bound MaxFaults.          *)
(***************************************************************************)
EXTENDS Naturals, FiniteSets

CONSTANTS
    Agents,       \* agents; an agent has one row and one container name
    Reqs,         \* slots for requests being served at the same time
    Passes,       \* slots for reconcile passes (setInterval has no guard)
    MaxCalls,     \* bound: requests accepted
    MaxRuns,      \* bound: times any container is created or revived
    MaxUpsets,    \* bound: failed calls to docker or the database, containers
                  \* that die or are removed, restarts of the API, together
    MaxOverlaps,  \* bound: passes that begin while another is in progress
    MaxEvents     \* bound: requests, upsets and overlaps together

ASSUME SlotsAssumption == /\ Agents # {} /\ IsFiniteSet(Agents)
                          /\ Reqs # {} /\ Passes # {}
ASSUME BoundsAssumption ==
    /\ MaxCalls \in Nat /\ MaxRuns \in Nat /\ MaxUpsets \in Nat /\ MaxOverlaps \in Nat
    /\ MaxEvents \in Nat

VARIABLES
    row,       \* agents table: the columns these routes decide on
    box,       \* the container that has the agent's name
    sess,      \* agent_sessions of each agent
    req,       \* the requests being served
    pass,      \* the reconcile passes in progress
    up,        \* the API accepts requests (index.ts: after the first pass)
    verified,  \* agent-status-verification.ts: defaultVerified and explicit
    blind,     \* history: the latest look at the agent's container failed
    crossed,   \* history: the pass that ended last overlapped another one
    used       \* how much of each bound is spent

vars == <<row, box, sess, req, pass, up, verified, blind, crossed, used>>
-----------------------------------------------------------------------------
Null == 0                       \* SQL NULL of work_token, container_finished_at
Runs == 1..MaxRuns              \* runs of containers, in the order they began
Statuses == {"stopped", "running", "error"}
BoxStates == {"absent", "created", "running", "exited"}

Rows == [exists: BOOLEAN, gen: 0..MaxCalls,    \* gen: the row's primary key
         status: Statuses,
         cstate: BoxStates \cup {"null"},      \* container_state
         wt: Runs \cup {Null},                 \* work_token
         fin: Runs \cup {Null}]                \* container_finished_at
\* held: stopped by a docker stop, which "unless-stopped" does not undo
Boxes == [st: BoxStates, tok: Runs \cup {Null}, run: Runs \cup {Null},
          held: BOOLEAN]
\* tok: the start that opened it; run: the measured started_at, or Null;
\* end: the run whose finish is stopped_at when the close is an exact one
Sessions == [tok: Runs, run: Runs \cup {Null}, end: Runs \cup {Null},
             how: {"open", "stop", "exact", "estimated"}]
Steps == {"idle", "halt", "remove", "create", "boot", "measure", "tools",
          "commit", "session", "close", "settle", "fail", "drop"}
Requests == [pc: Steps, op: {"none", "start", "undo", "stop", "delete"},
             a: Agents, gen: 0..MaxCalls, tok: Runs \cup {Null}, run: Runs \cup {Null}]
PatchKinds == {"unseen", "promote", "demote", "firstSight", "observe"}
\* the columns of the pass's SELECT, and what its inspect returns
Snaps == [gen: 0..MaxCalls, status: Statuses, cstate: BoxStates \cup {"null"}]
Looks == [st: BoxStates, run: Runs \cup {Null}]
PassRecs == [pc: {"idle", "scan", "patch", "record"}, snap: [Agents -> Snaps],
             todo: SUBSET Agents, unver: SUBSET Agents, alone: BOOLEAN,
             a: Agents, kind: PatchKinds, seen: Looks]
Bounds == [calls: 0..MaxCalls, runs: 0..MaxRuns, upsets: 0..MaxUpsets,
           overlaps: 0..MaxOverlaps]

NewRow(id) == [exists |-> TRUE, gen |-> id, status |-> "stopped", cstate |-> "null",
             wt |-> Null, fin |-> Null]
NoRow == [NewRow(0) EXCEPT !.exists = FALSE]
NoBox == [st |-> "absent", tok |-> Null, run |-> Null, held |-> FALSE]
AnyAgent == CHOOSE a \in Agents : TRUE
IdleReq == [pc |-> "idle", op |-> "none", a |-> AnyAgent, gen |-> 0,
            tok |-> Null, run |-> Null]
Snap(r) == [gen |-> r.gen, status |-> r.status, cstate |-> r.cstate]
Look(b) == [st |-> b.st, run |-> b.run]
\* alone: no other pass has been in progress at any time of this one
IdlePass == [pc |-> "idle", snap |-> [a \in Agents |-> Snap(NoRow)], todo |-> {},
             unver |-> {}, alone |-> FALSE, a |-> AnyAgent, kind |-> "observe",
             seen |-> Look(NoBox)]

TypeOK ==
    /\ row \in [Agents -> Rows]
    /\ box \in [Agents -> Boxes]
    /\ sess \in [Agents -> SUBSET Sessions]
    /\ req \in [Reqs -> Requests]
    /\ pass \in [Passes -> PassRecs]
    /\ up \in BOOLEAN
    /\ verified \in [dflt: BOOLEAN, yes: SUBSET Agents, no: SUBSET Agents]
    /\ blind \in [Agents -> BOOLEAN]
    /\ crossed \in BOOLEAN
    /\ used \in Bounds

Init ==
    /\ row = [a \in Agents |-> NewRow(0)]
    /\ box = [a \in Agents |-> NoBox]
    /\ sess = [a \in Agents |-> {}]
    /\ req = [r \in Reqs |-> IdleReq]
    /\ pass = [p \in Passes |-> IdlePass]
    /\ up = FALSE
    /\ verified = [dflt |-> TRUE, yes |-> {}, no |-> {}]
    /\ blind = [a \in Agents |-> FALSE]
    /\ crossed = FALSE
    /\ used = [calls |-> 0, runs |-> 0, upsets |-> 0, overlaps |-> 0]
-----------------------------------------------------------------------------
Room == used.calls + used.upsets + used.overlaps < MaxEvents
Spend(field) == used' = [used EXCEPT ![field] = @ + 1]
CountFault == used.upsets < MaxUpsets /\ Room /\ Spend("upsets")
Goto(r, pc) == req' = [req EXCEPT ![r] = [@ EXCEPT !.pc = pc]]
Done(r) == req' = [req EXCEPT ![r] = IdleReq]
\* WHERE id = $n finds a row: not after a delete, nor in a namesake's row
Named(a, id) == row[a].exists /\ row[a].gen = id
At(r, pc) == up /\ req[r].pc = pc
\* the slots are alike: a request takes the first that is free
FirstFree == CHOOSE q \in Reqs : req[q].pc = "idle"

(* agent-status-verification.ts *)
IsStatusVerified(a) == IF a \in verified.yes \cup verified.no
                       THEN a \in verified.yes ELSE verified.dflt
RecordReconcilePass(unver) == verified' = [dflt |-> TRUE, yes |-> {}, no |-> unver]
\* Mut: a failed pass that forgets explicit.clear()
MutKeepExplicit == verified' = [verified EXCEPT !.dflt = FALSE]
RecordReconcileFailure == verified' = [dflt |-> FALSE, yes |-> {}, no |-> {}]
MarkStatusVerified(a) == verified' = [verified EXCEPT !.yes = @ \cup {a}, !.no = @ \ {a}]
-----------------------------------------------------------------------------
(* Requests arrive.  Each route first reads the row; with no row it answers *)
(* 404 and changes nothing.  Start has no guard on the status it reads.     *)

Accept(r, op, a, pc) ==
    /\ At(r, "idle") /\ r = FirstFree
    /\ row[a].exists
    /\ used.calls < MaxCalls /\ Room
    /\ Spend("calls")
    /\ req' = [req EXCEPT ![r] = [IdleReq EXCEPT !.pc = pc, !.op = op, !.a = a,
                                                 !.gen = row[a].gen]]
    /\ UNCHANGED <<row, box, sess, pass, up, verified, blind, crossed>>

StartAgent(r, a) == Accept(r, "start", a, "halt")
StopAgent(r, a) == Accept(r, "stop", a, "halt")
DeleteAgent(r, a) ==
    Accept(r, "delete", a, IF row[a].status = "running" THEN "halt" ELSE "drop")

\* POST /agents inserts the row; it may reuse the name of a deleted agent.
CreateAgent(a) ==
    /\ up
    /\ ~row[a].exists
    /\ used.calls < MaxCalls /\ Room
    /\ Spend("calls")
    /\ row' = [row EXCEPT ![a] = NewRow(used.calls + 1)]
    /\ blind' = [blind EXCEPT ![a] = FALSE]
    /\ UNCHANGED <<box, sess, req, pass, up, verified, crossed>>
-----------------------------------------------------------------------------
(* Removing a container: stopAndRemoveContainer, and the same calls at the  *)
(* head of createAndStartContainer, which lets a 404 pass.                  *)

BoxError(r, missing) ==
    LET op == req[r].op
    IN  /\ Goto(r, IF op = "delete" THEN "drop"
                   ELSE IF op = "start" /\ missing THEN "create" ELSE "fail")
        /\ UNCHANGED box

Stopped(b) == [b EXCEPT !.held = TRUE, !.st = IF @ = "running" THEN "exited" ELSE @]

\* inspect, then stop; a failed stop is swallowed and removal goes ahead
Halt(r) ==
    LET a == req[r].a IN
    /\ At(r, "halt")
    /\ \/ /\ box[a].st = "absent"
          /\ BoxError(r, TRUE)
          /\ UNCHANGED used
       \/ /\ BoxError(r, FALSE)
          /\ CountFault
       \/ /\ box[a].st # "absent"
          /\ Goto(r, "remove")
          /\ box' = [box EXCEPT ![a] = Stopped(@)]
          /\ UNCHANGED used
       \/ /\ box[a].st # "absent"
          /\ Goto(r, "remove")
          /\ CountFault
          /\ UNCHANGED <<box>>
    /\ UNCHANGED <<row, sess, pass, up, verified, blind, crossed>>

\* remove({force: true}) works by name, on whatever container has it now
Remove(r) ==
    LET a == req[r].a
        op == req[r].op
    IN
    /\ At(r, "remove")
    /\ \/ /\ box[a].st = "absent"
          /\ BoxError(r, TRUE)
          /\ UNCHANGED used
       \/ /\ BoxError(r, FALSE)
          /\ CountFault
       \/ /\ box[a].st # "absent"
          /\ box' = [box EXCEPT ![a] = NoBox]
          /\ Goto(r, CASE op = "start" -> "create"
                       [] op = "undo" -> "fail"
                       [] op = "stop" -> "close"
                       [] OTHER -> "drop")
          /\ UNCHANGED used
    /\ UNCHANGED <<row, sess, pass, up, verified, blind, crossed>>
-----------------------------------------------------------------------------
(* The rest of POST /:id/start.                                             *)

\* docker.createContainer; the name may be taken by then (409)
CreateBox(r) ==
    LET a == req[r].a IN
    /\ At(r, "create")
    /\ \/ /\ box[a].st = "absent"
          /\ used.runs < MaxRuns
          /\ Spend("runs")
          /\ box' = [box EXCEPT ![a] = [st |-> "created", tok |-> used.runs + 1,
                                        run |-> Null, held |-> FALSE]]
          /\ req' = [req EXCEPT ![r] = [@ EXCEPT !.pc = "boot", !.tok = used.runs + 1]]
       \/ /\ box[a].st # "absent"
          /\ Goto(r, "fail")
          /\ UNCHANGED <<box, used>>
       \/ /\ CountFault
          /\ Goto(r, "fail")
          /\ UNCHANGED box
       \/ /\ used.runs = MaxRuns            \* bound: no further container
          /\ Goto(r, "fail")
          /\ UNCHANGED <<box, used>>
    /\ UNCHANGED <<row, sess, pass, up, verified, blind, crossed>>

Started(b, n) == [b EXCEPT !.st = "running", !.held = FALSE, !.run = n]

\* container.start() on the handle that createContainer returned
StartBox(r) ==
    LET a == req[r].a
        mine == box[a].st # "absent" /\ box[a].tok = req[r].tok
    IN
    /\ At(r, "boot")
    /\ \/ /\ mine
          /\ Goto(r, "measure")
          /\ box' = [box EXCEPT ![a] = Started(@, req[r].tok)]
          /\ UNCHANGED used
       \/ /\ ~mine
          /\ Goto(r, "fail")
          /\ UNCHANGED <<box, used>>
       \/ /\ CountFault
          /\ Goto(r, "fail")
          /\ UNCHANGED box
       \/ /\ mine                           \* started, but its inspect throws
          /\ CountFault
          /\ Goto(r, "fail")
          /\ box' = [box EXCEPT ![a] = Started(@, req[r].tok)]
    /\ UNCHANGED <<row, sess, pass, up, verified, blind, crossed>>

\* inspectContainer for State.StartedAt, by name and best effort
Measure(r) ==
    LET b == box[req[r].a] IN
    /\ At(r, "measure")
    /\ \/ req' = [req EXCEPT ![r] = [@ EXCEPT !.pc = "tools", !.run = b.run]] /\ UNCHANGED used
       \/ Goto(r, "tools") /\ CountFault
    /\ UNCHANGED <<row, box, sess, pass, up, verified, blind, crossed>>

\* ensureRequiredToolsInstalled; a failure removes the container again
InstallTools(r) ==
    /\ At(r, "tools")
    /\ \/ Goto(r, "commit") /\ UNCHANGED used
       \/ req' = [req EXCEPT ![r] = [@ EXCEPT !.pc = "halt", !.op = "undo"]] /\ CountFault
    /\ UNCHANGED <<row, box, sess, pass, up, verified, blind, crossed>>

\* UPDATE ... SET status = 'running' (no row is no error), markStatusVerified
StartCommit(r) ==
    LET a == req[r].a IN
    /\ At(r, "commit")
    /\ \/ /\ row' = IF Named(a, req[r].gen)
                    THEN [row EXCEPT ![a] = [@ EXCEPT !.status = "running", !.wt = req[r].tok,
                                                      !.cstate = "running", !.fin = Null]]
                    ELSE row
          /\ MarkStatusVerified(a)
          /\ blind' = [blind EXCEPT ![a] = FALSE]
          /\ Goto(r, "session")
          /\ UNCHANGED used
       \/ /\ CountFault
          /\ Goto(r, "fail")
          /\ UNCHANGED <<row, verified, blind, crossed>>
    /\ UNCHANGED <<box, sess, pass, up, crossed>>

\* INSERT INTO agent_sessions, best effort; the foreign key needs the row
OpenSession(r) ==
    LET a == req[r].a IN
    /\ At(r, "session")
    /\ \/ /\ sess' = IF Named(a, req[r].gen)
                     THEN [sess EXCEPT ![a] = @ \cup {[tok |-> req[r].tok, run |-> req[r].run,
                                                       end |-> Null, how |-> "open"]}]
                     ELSE sess
          /\ UNCHANGED used
       \/ /\ CountFault
          /\ UNCHANGED sess
    /\ Done(r)
    /\ UNCHANGED <<row, box, pass, up, verified, blind, crossed>>

\* the catch of start, and of the container removal in stop
Fail(r) ==
    LET a == req[r].a IN
    /\ At(r, "fail")
    /\ \/ /\ row' = IF Named(a, req[r].gen) THEN [row EXCEPT ![a].status = "error"] ELSE row
          /\ UNCHANGED used
       \/ /\ CountFault
          /\ UNCHANGED row
    /\ Done(r)
    /\ UNCHANGED <<box, sess, pass, up, verified, blind, crossed>>
-----------------------------------------------------------------------------
(* The rest of POST /:id/stop and of DELETE /:id.                           *)

\* Mut: the close without its "stopped_at IS NULL"
MutCloseAgain(s, how, end) == [s EXCEPT !.how = how, !.end = end]
Closed(s, how, end) == IF s.how = "open" THEN [s EXCEPT !.how = how, !.end = end] ELSE s

CloseSessions(r) ==
    LET a == req[r].a IN
    /\ At(r, "close")
    /\ Goto(r, "settle")
    /\ \/ sess' = [sess EXCEPT ![a] = {Closed(s, "stop", Null) : s \in @}] /\ UNCHANGED used
       \/ CountFault /\ UNCHANGED sess
    /\ UNCHANGED <<row, box, pass, up, verified, blind, crossed>>

\* the final UPDATE of stop; when it throws the route answers 500
StopCommit(r) ==
    LET a == req[r].a IN
    /\ At(r, "settle")
    /\ Done(r)
    /\ \/ /\ row' = IF Named(a, req[r].gen)
                    THEN [row EXCEPT ![a] = [@ EXCEPT !.status = "stopped", !.wt = Null,
                                                      !.cstate = "absent"]]
                    ELSE row
          /\ UNCHANGED used
       \/ CountFault /\ UNCHANGED row
    /\ UNCHANGED <<box, sess, pass, up, verified, blind, crossed>>

\* DELETE FROM agents; agent_sessions go with the row (ON DELETE CASCADE)
DropRow(r) ==
    LET a == req[r].a IN
    /\ At(r, "drop")
    /\ Done(r)
    /\ \/ /\ IF Named(a, req[r].gen)
             THEN /\ row' = [row EXCEPT ![a] = NoRow]
                  /\ sess' = [sess EXCEPT ![a] = {}]
             ELSE UNCHANGED <<row, sess>>
          /\ UNCHANGED used
       \/ CountFault /\ UNCHANGED <<row, sess>>
    /\ UNCHANGED <<box, pass, up, verified, blind, crossed>>

ReqStep(r) ==
    \/ Halt(r) \/ Remove(r) \/ CreateBox(r) \/ StartBox(r) \/ Measure(r)
    \/ InstallTools(r) \/ StartCommit(r) \/ OpenSession(r) \/ Fail(r)
    \/ CloseSessions(r) \/ StopCommit(r) \/ DropRow(r)
-----------------------------------------------------------------------------
(* The reconciler.  A pass reads all rows once, then inspects each agent's  *)
(* container and writes a patch decided from the row as it was read.        *)

\* index.ts awaits one pass before it listens; later ones come from a timer
\* (the timer looks at nothing, so a pass may begin while others go on)
Others(p) == \E q \in Passes \ {p} : pass[q].pc # "idle"
Joined(p, t) == [q \in Passes |-> IF q = p THEN t ELSE [pass[q] EXCEPT !.alone = FALSE]]
FirstIdle == CHOOSE q \in Passes : pass[q].pc = "idle"

PassBegin(p) ==
    /\ pass[p].pc = "idle" /\ p = FirstIdle
    /\ IF Others(p) THEN /\ up
                         /\ used.overlaps < MaxOverlaps /\ Room
                         /\ Spend("overlaps")
       ELSE UNCHANGED used
    /\ pass' = Joined(p, [IdlePass EXCEPT !.pc = "scan", !.alone = ~Others(p),
                    !.snap = [a \in Agents |-> Snap(row[a])],
                    !.todo = {a \in Agents : row[a].exists}])
    /\ UNCHANGED <<row, box, sess, req, up, verified, blind, crossed>>

\* the catch of runReconcilePass: a failed SELECT or a patch that throws
PassFailed(p) ==
    /\ pass[p].pc = "patch" \/ (pass[p].pc = "idle" /\ p = FirstIdle)
    /\ up \/ ~Others(p)
    /\ CountFault
    /\ RecordReconcileFailure
    /\ blind' = [a \in Agents |-> TRUE]
    /\ pass' = Joined(p, IdlePass)
    /\ up' = TRUE
    /\ crossed' = FALSE
    /\ UNCHANGED <<row, box, sess, req>>

\* what reconcileAgentStatuses does about row r when docker reports box b
Running(b) == b.st = "running"
ConfirmedDown(r, b) == b.st = "absent" \/ r.cstate \notin {"null", "running"}
\* Mut: before #239 a pass looked only at rows marked running
MutDemoteOnly(r, b) ==
    IF r.status = "running" /\ ~Running(b) /\ ConfirmedDown(r, b) THEN "demote"
    ELSE IF r.status = "running" /\ r.cstate # b.st THEN "observe" ELSE "none"
PatchFor(r, b) ==
    CASE Running(b) /\ r.status # "running" -> "promote"
      [] ~Running(b) /\ r.status = "running" /\ ConfirmedDown(r, b) -> "demote"
      [] ~Running(b) /\ r.status = "running" /\ ~ConfirmedDown(r, b) -> "firstSight"
      [] ~Running(b) /\ r.status # "running" /\ r.cstate # b.st -> "observe"
      [] Running(b) /\ r.status = "running" /\ r.cstate # b.st -> "observe"
      [] OTHER -> "none"
UnseenPatch(r) == IF r.cstate = "null" THEN "none" ELSE "unseen"

\* pass t has looked at agent a; it may have a patch to write
Looked(t, a, kind) ==
    LET rest == [t EXCEPT !.todo = @ \ {a}]
    IN  IF kind = "none" THEN [rest EXCEPT !.snap[a] = Snap(NoRow)]
        ELSE [rest EXCEPT !.pc = "patch", !.a = a, !.kind = kind, !.seen = Look(box[a])]

Inspect(p, a) ==
    LET r == pass[p].snap[a] IN
    /\ pass[p].pc = "scan"
    /\ a \in pass[p].todo
    /\ \/ /\ pass' = [pass EXCEPT ![p] = Looked(pass[p], a, PatchFor(r, box[a]))]
          /\ blind' = [blind EXCEPT ![a] = FALSE]
          /\ UNCHANGED used
       \/ /\ CountFault
          /\ blind' = [blind EXCEPT ![a] = TRUE]
          /\ pass' = [pass EXCEPT ![p] = [Looked(pass[p], a, UnseenPatch(r)) EXCEPT !.unver = @ \cup {a}]]
    /\ UNCHANGED <<row, box, sess, req, up, verified, crossed>>

\* Mut: docker's zero time kept as a date instead of NULL
MutZeroTime(b) == IF b.st = "exited" THEN b.run ELSE MaxRuns + 1
FinishedAt(b) == IF b.st = "exited" THEN b.run ELSE Null

\* the row after the UPDATE; status is the one of the snapshot unless changed
Patched(old, snap, kind, seen) ==
    CASE kind = "promote" -> [old EXCEPT !.status = "running", !.cstate = seen.st, !.fin = Null]
      [] kind = "demote" -> [old EXCEPT !.status = "stopped", !.cstate = seen.st,
                                        !.fin = FinishedAt(seen)]
      [] kind = "unseen" -> [old EXCEPT !.status = snap.status, !.cstate = "null"]
      [] OTHER -> [old EXCEPT !.status = snap.status, !.cstate = seen.st]

ApplyPatch(p) ==
    LET t == pass[p] IN
    /\ t.pc = "patch"
    /\ row' = IF Named(t.a, t.snap[t.a].gen)
              THEN [row EXCEPT ![t.a] = Patched(@, t.snap[t.a], t.kind, t.seen)]
              ELSE row
    /\ pass' = [pass EXCEPT ![p] = [t EXCEPT !.pc = "scan", !.snap[t.a] = Snap(NoRow),
                    !.a = AnyAgent, !.kind = "observe", !.seen = Look(NoBox)]]
    /\ UNCHANGED <<box, sess, req, up, verified, blind, crossed, used>>

\* closeSessionsForStoppedAgents
\* Mut: sessions closed only where docker told when
MutSweepExact(a) ==
    IF row[a].status = "running" \/ row[a].fin = Null THEN sess[a]
    ELSE {Closed(s, "exact", row[a].fin) : s \in sess[a]}
Swept(a) ==
    IF row[a].status = "running" THEN sess[a]
    ELSE {Closed(s, IF row[a].fin = Null THEN "estimated" ELSE "exact", row[a].fin) : s \in sess[a]}

SweepSessions(p) ==
    /\ pass[p].pc = "scan"
    /\ pass[p].todo = {}
    /\ pass' = [pass EXCEPT ![p] = [@ EXCEPT !.pc = "record"]]
    /\ \/ sess' = [a \in Agents |-> Swept(a)] /\ UNCHANGED used
       \/ CountFault /\ UNCHANGED sess
    /\ UNCHANGED <<row, box, req, up, verified, blind, crossed>>

PassEnd(p) ==
    /\ pass[p].pc = "record"
    /\ RecordReconcilePass(pass[p].unver)
    /\ pass' = [pass EXCEPT ![p] = IdlePass]
    /\ up' = TRUE
    /\ crossed' = ~pass[p].alone
    /\ UNCHANGED <<row, box, sess, req, blind, used>>

PassStep(p) ==
    \/ PassBegin(p) \/ (\E a \in Agents : Inspect(p, a)) \/ ApplyPatch(p)
    \/ SweepSessions(p) \/ PassEnd(p) \/ PassFailed(p)
-----------------------------------------------------------------------------
(* What happens around the API: containers die and are revived by their     *)
(* restart policy, someone removes one, the API process restarts.           *)

BoxExits(a) ==
    /\ box[a].st = "running"
    /\ CountFault
    /\ box' = [box EXCEPT ![a].st = "exited"]
    /\ UNCHANGED <<row, sess, req, pass, up, verified, blind, crossed>>

BoxRevived(a) ==
    /\ box[a].st = "exited" /\ ~box[a].held
    /\ used.runs < MaxRuns
    /\ Spend("runs")
    /\ box' = [box EXCEPT ![a] = Started(@, used.runs + 1)]
    /\ UNCHANGED <<row, sess, req, pass, up, verified, blind, crossed>>

BoxDeleted(a) ==
    /\ box[a].st # "absent"
    /\ CountFault
    /\ box' = [box EXCEPT ![a] = NoBox]
    /\ UNCHANGED <<row, sess, req, pass, up, verified, blind, crossed>>

\* handlers and passes in progress are lost, and so is what is kept in memory
ApiRestart ==
    /\ CountFault
    /\ up' = FALSE
    /\ req' = [r \in Reqs |-> IdleReq]
    /\ pass' = [p \in Passes |-> IdlePass]
    /\ verified' = [dflt |-> TRUE, yes |-> {}, no |-> {}]
    /\ crossed' = FALSE
    /\ UNCHANGED <<row, box, sess, blind>>

Environment ==
    \/ \E a \in Agents : BoxExits(a) \/ BoxRevived(a) \/ BoxDeleted(a)
    \/ ApiRestart

Next ==
    \/ \E r \in Reqs, a \in Agents : StartAgent(r, a) \/ StopAgent(r, a) \/ DeleteAgent(r, a)
    \/ \E a \in Agents : CreateAgent(a)
    \/ \E r \in Reqs : ReqStep(r)
    \/ \E p \in Passes : PassStep(p)
    \/ Environment

\* A handler that has begun goes on (Node resumes it), and the timer keeps
\* starting passes.  Nothing is assumed of callers, docker or containers.
Spec == /\ Init /\ [][Next]_vars
        /\ \A r \in Reqs : WF_vars(ReqStep(r))
        /\ \A p \in Passes : WF_vars(PassStep(p))
-----------------------------------------------------------------------------
(* Properties.                                                              *)

\* agent-status-verification.ts: between passes, a status is reported as
\* fact only if the last look at the agent's container succeeded (a look is
\* an inspect of a pass, or a start of the API's own).  Of two passes that
\* overlap, the older may end last and put what it saw over the failure the
\* newer one met; that lasts, at most, until a pass ends that ran alone, or
\* a pass fails, whatever crossings, failures and restarts went before.
KnownMeansSeen ==
    \A a \in Agents :
        (/\ up /\ row[a].exists /\ IsStatusVerified(a)
         /\ ~crossed /\ \A p \in Passes : pass[p].pc = "idle") => ~blind[a]

\* Whoever closes a session first decides when it ended: stop, the sweep of
\* a pass and a second stop all leave a closed session as it is, and a
\* session goes away only with its agent.
SessionCloseIsFinal ==
    [][\A a \in Agents : \A s \in sess[a] :
         s.how # "open" => s \in sess'[a] \/ (row[a].exists /\ ~row'[a].exists)]_vars

\* The bounds run out, so requests, faults and container events cease.  From
\* then on every row that is left agrees with its container: whatever a
\* crash, a failed call or a stale patch left behind, the reconciler repairs.
StatusConverges ==
    <>[](\A a \in Agents : row[a].exists =>
            (row[a].status = "running" <=> box[a].st = "running"))

\* closeSessionsForStoppedAgents: likewise no agent that is not running keeps
\* an open session, which would accrue uptime for ever.
SessionsConverge ==
    <>[](\A a \in Agents : row[a].exists /\ row[a].status # "running" =>
            \A s \in sess[a] : s.how # "open")
=============================================================================
