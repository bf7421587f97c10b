------------------------ MODULE AgentLifecycleProofs ------------------------
(***************************************************************************)
(* Theorems about AgentLifecycle, for every set of agents, every number of *)
(* concurrent requests and every bound.                                    *)
(***************************************************************************)
EXTENDS AgentLifecycle, TLAPS

(***************************************************************************)
(* Types of the records that actions build.                                *)
(***************************************************************************)
LEMMA IdleTypes ==
    /\ AnyAgent \in Agents
    /\ \A id \in 0..MaxCalls : NewRow(id) \in Rows
    /\ NoRow \in Rows
    /\ NoBox \in Boxes
    /\ IdleReq \in Requests
    /\ IdlePass \in PassRecs
    /\ \A r \in Rows : Snap(r) \in Snaps
    /\ \A b \in Boxes : Look(b) \in Looks
<1>1. AnyAgent \in Agents
  BY SlotsAssumption DEF AnyAgent
<1>2. \A id \in 0..MaxCalls : NewRow(id) \in Rows
  BY BoundsAssumption DEF NewRow, Rows, Statuses, BoxStates, Null, Runs
<1>3. 0 \in 0..MaxCalls
  BY BoundsAssumption
<1>4. NoRow \in Rows
  BY <1>2, <1>3 DEF NoRow, NewRow, Rows
<1>5. NoBox \in Boxes
  BY DEF NoBox, Boxes, BoxStates, Null
<1>6. IdleReq \in Requests
  BY <1>1, <1>3 DEF IdleReq, Requests, Steps, Null
<1>7. \A r \in Rows : Snap(r) \in Snaps
  BY DEF Rows, Snaps, Snap
<1>8. \A b \in Boxes : Look(b) \in Looks
  BY DEF Boxes, Looks, Look
<1>9. Snap(NoRow) \in Snaps /\ Look(NoBox) \in Looks
  BY <1>4, <1>5, <1>7, <1>8
<1>10. IdlePass \in PassRecs
  BY <1>1, <1>9 DEF IdlePass, PassRecs, PatchKinds
<1> QED
  BY <1>1, <1>2, <1>4, <1>5, <1>6, <1>7, <1>8, <1>10

\* The initial state is well typed.
LEMMA InitType == Init => TypeOK
<1> SUFFICES ASSUME Init PROVE TypeOK
  OBVIOUS
<1>1. row \in [Agents -> Rows] /\ box \in [Agents -> Boxes]
  BY IdleTypes, BoundsAssumption DEF Init
<1>2. req \in [Reqs -> Requests] /\ pass \in [Passes -> PassRecs]
  BY IdleTypes DEF Init
<1>3. used \in Bounds
  BY BoundsAssumption DEF Init, Bounds
<1> QED
  BY <1>1, <1>2, <1>3 DEF Init, TypeOK

\* Spending one of a bound keeps the counters within the bounds.
LEMMA SpendType ==
    ASSUME TypeOK, NEW f \in {"calls", "runs", "upsets", "overlaps"}, Spend(f),
           f = "calls" => used.calls < MaxCalls, f = "runs" => used.runs < MaxRuns,
           f = "upsets" => used.upsets < MaxUpsets,
           f = "overlaps" => used.overlaps < MaxOverlaps
    PROVE  used' \in Bounds
  BY BoundsAssumption DEF TypeOK, Bounds, Spend

\* The same for what goes wrong.
LEMMA FaultType == ASSUME TypeOK, CountFault PROVE used' \in Bounds
  BY SpendType DEF CountFault

\* A container that stops or starts is a container.
LEMMA BoxTypes ==
    ASSUME NEW b \in Boxes, NEW n \in Runs \cup {Null}
    PROVE  Stopped(b) \in Boxes /\ Started(b, n) \in Boxes
  BY DEF Stopped, Started, Boxes, BoxStates

\* What a request becomes when it moves on or ends is a request.
LEMMA RequestTypes ==
    ASSUME NEW q \in Requests, NEW pc \in Steps, NEW n \in Runs \cup {Null},
           NEW op \in {"none", "start", "undo", "stop", "delete"}
    PROVE  /\ [q EXCEPT !.pc = pc, !.tok = n] \in Requests
           /\ [q EXCEPT !.pc = pc, !.run = n] \in Requests
           /\ [q EXCEPT !.pc = pc, !.op = op] \in Requests
  BY DEF Requests

\* The next run number is within its bound.
LEMMA NextRun == ASSUME TypeOK, used.runs < MaxRuns PROVE used.runs + 1 \in Runs
  BY BoundsAssumption DEF TypeOK, Bounds, Runs

\* The row a start or a stop commits is a row.
LEMMA CommitRowType ==
    ASSUME NEW o \in Rows, NEW w \in Runs \cup {Null}
    PROVE  /\ [o EXCEPT !.status = "running", !.wt = w, !.cstate = "running", !.fin = Null] \in Rows
           /\ [o EXCEPT !.status = "stopped", !.wt = Null, !.cstate = "absent"] \in Rows
           /\ [o EXCEPT !.status = "stopped", !.wt = Null, !.cstate = "absent"].exists = o.exists
           /\ [o EXCEPT !.status = "error"] \in Rows
  BY DEF Rows, Statuses, BoxStates

\* A patched row is a row.
LEMMA PatchedType ==
    ASSUME NEW o \in Rows, NEW s \in Snaps, NEW k \in PatchKinds, NEW b \in Looks
    PROVE  Patched(o, s, k, b) \in Rows
<1>1. FinishedAt(b) \in Runs \cup {Null}
  BY DEF FinishedAt, Looks
<1>2. CASE k = "promote"
  BY <1>2 DEF Patched, Rows, Snaps, Looks, Statuses, BoxStates
<1>3. CASE k = "demote"
  BY <1>1, <1>3 DEF Patched, Rows, Snaps, Looks, Statuses, BoxStates
<1>4. CASE k = "unseen"
  BY <1>4 DEF Patched, Rows, Snaps, Looks, Statuses, BoxStates
<1>5. CASE k \in {"firstSight", "observe"}
  BY <1>5 DEF Patched, Rows, Snaps, Looks, Statuses, BoxStates
<1> QED
  BY <1>2, <1>3, <1>4, <1>5 DEF PatchKinds

\* A closed session is a session.
LEMMA ClosedType ==
    ASSUME NEW s \in Sessions, NEW how \in {"stop", "exact", "estimated"},
           NEW end \in Runs \cup {Null}
    PROVE  Closed(s, how, end) \in Sessions
  BY DEF Closed, Sessions

(***************************************************************************)
(* The type invariant is not inductive alone: a session records the token  *)
(* of its start, so a start must have made its container by then.          *)
(***************************************************************************)
Needs(q) == q.pc \in {"boot", "measure", "tools", "commit", "session"}
TokenMinted == \A r \in Reqs : Needs(req[r]) => req[r].tok \in Runs

TypeInv == TypeOK /\ TokenMinted

(***************************************************************************)
(* A request that moves on: its record keeps its type, and its token is    *)
(* minted where the next step needs it.                                    *)
(***************************************************************************)
LEMMA MoveInv ==
    ASSUME TypeInv, NEW r \in Reqs, NEW q \in Requests, Needs(q) => q.tok \in Runs,
           req' = [req EXCEPT ![r] = q]
    PROVE  req' \in [Reqs -> Requests] /\ TokenMinted'
  BY DEF TypeInv, TypeOK, TokenMinted, Needs

\* A request that goes to its next step keeps the types.
LEMMA GotoInv ==
    ASSUME TypeInv, NEW r \in Reqs, NEW pc \in Steps, Goto(r, pc),
           \/ pc \notin {"boot", "measure", "tools", "session", "commit"}
           \/ req[r].tok \in Runs
    PROVE  req' \in [Reqs -> Requests] /\ TokenMinted'
<1>0. req[r] \in Requests
  BY DEF TypeInv, TypeOK
<1>1. [req[r] EXCEPT !.pc = pc] \in Requests
  BY <1>0 DEF Requests
<1>2. Needs([req[r] EXCEPT !.pc = pc]) => [req[r] EXCEPT !.pc = pc].tok \in Runs
  BY <1>0 DEF Requests, Needs
<1> QED
  BY <1>1, <1>2, MoveInv DEF Goto

\* A request that ends keeps the types.
LEMMA DoneInv ==
    ASSUME TypeInv, NEW r \in Reqs, Done(r)
    PROVE  req' \in [Reqs -> Requests] /\ TokenMinted'
<1>1. IdleReq \in Requests /\ ~Needs(IdleReq)
  BY IdleTypes DEF IdleReq, Needs
<1> QED
  BY <1>1, MoveInv DEF Done

\* A pass that begins, or fails, leaves passes passes.
LEMMA JoinedType ==
    ASSUME TypeOK, NEW p \in Passes, NEW t \in PassRecs
    PROVE  Joined(p, t) \in [Passes -> PassRecs]
<1>1. \A q \in Passes : [pass[q] EXCEPT !.alone = FALSE] \in PassRecs
  BY DEF TypeOK, PassRecs
<1> QED
  BY <1>1 DEF Joined

\* Every step keeps the types.
LEMMA TypeStep == TypeInv /\ [Next]_vars => TypeInv'
<1> SUFFICES ASSUME TypeInv, [Next]_vars PROVE TypeOK' /\ TokenMinted'
  BY DEF TypeInv
<1> TypeOK /\ TokenMinted
  BY DEF TypeInv
<1>1. ASSUME NEW r \in Reqs, NEW a \in Agents, NEW op \in {"start", "stop", "delete"},
             NEW pc \in {"halt", "drop"}, Accept(r, op, a, pc)
      PROVE  TypeOK' /\ TokenMinted'
  <2>1. [IdleReq EXCEPT !.pc = pc, !.op = op, !.a = a, !.gen = row[a].gen] \in Requests
    BY IdleTypes DEF Requests, Steps, TypeOK, Rows
  <2>2. req' \in [Reqs -> Requests] /\ TokenMinted'
    BY <1>1, <2>1 DEF Accept, TypeOK, TokenMinted, Needs, Requests
  <2>3. used' \in Bounds
    BY <1>1, SpendType DEF Accept
  <2> QED
    BY <1>1, <2>2, <2>3 DEF Accept, TypeOK
<1>2. ASSUME NEW a \in Agents, CreateAgent(a) PROVE TypeOK' /\ TokenMinted'
  <2>1. used' \in Bounds /\ used.calls + 1 \in 0..MaxCalls
    BY <1>2, SpendType, BoundsAssumption DEF CreateAgent, TypeOK, Bounds
  <2>2. row' \in [Agents -> Rows]
    BY <1>2, <2>1, IdleTypes DEF CreateAgent, TypeOK
  <2> QED
    BY <1>2, <2>1, <2>2 DEF CreateAgent, TypeOK, TokenMinted
<1>3. ASSUME NEW r \in Reqs, Halt(r) PROVE TypeOK' /\ TokenMinted'
  <2>1. PICK pc \in {"remove", "drop", "create", "fail"} : Goto(r, pc)
    BY <1>3 DEF Halt, BoxError
  <2>2. req' \in [Reqs -> Requests] /\ TokenMinted'
    BY <2>1, GotoInv DEF Steps
  <2>3. used' \in Bounds
    BY <1>3, FaultType DEF Halt, TypeOK
  <2>4. box' \in [Agents -> Boxes]
    BY <1>3, BoxTypes DEF Halt, BoxError, TypeOK, Null
  <2> QED
    BY <1>3, <2>2, <2>3, <2>4 DEF Halt, TypeOK
<1>4. ASSUME NEW r \in Reqs, Remove(r) PROVE TypeOK' /\ TokenMinted'
  <2>1. PICK pc \in {"close", "drop", "create", "fail"} : Goto(r, pc)
    BY <1>4 DEF Remove, BoxError
  <2>2. req' \in [Reqs -> Requests] /\ TokenMinted'
    BY <2>1, GotoInv DEF Steps
  <2>3. used' \in Bounds
    BY <1>4, FaultType DEF Remove, TypeOK
  <2>4. box' \in [Agents -> Boxes]
    BY <1>4, IdleTypes DEF Remove, BoxError, TypeOK
  <2> QED
    BY <1>4, <2>2, <2>3, <2>4 DEF Remove, TypeOK
<1>5. ASSUME NEW r \in Reqs, CreateBox(r) PROVE TypeOK' /\ TokenMinted'
  <2>1. CASE Goto(r, "fail") /\ UNCHANGED box
    <3>1. req' \in [Reqs -> Requests] /\ TokenMinted'
      BY <2>1, GotoInv DEF Steps
    <3>2. used' \in Bounds
      BY <1>5, FaultType, SpendType DEF CreateBox, TypeOK
    <3> QED
      BY <1>5, <2>1, <3>1, <3>2 DEF CreateBox, TypeOK
  <2>2. CASE /\ used.runs < MaxRuns
             /\ Spend("runs")
             /\ box' = [box EXCEPT ![req[r].a] = [st |-> "created", tok |-> used.runs + 1,
                                      run |-> Null, held |-> FALSE]]
             /\ req' = [req EXCEPT ![r] = [@ EXCEPT !.pc = "boot", !.tok = used.runs + 1]]
    <3>1. used.runs + 1 \in Runs /\ used' \in Bounds
      BY <2>2, NextRun, SpendType
    <3>2. [st |-> "created", tok |-> used.runs + 1, run |-> Null, held |-> FALSE] \in Boxes
      BY <3>1 DEF Boxes, BoxStates
    <3>3. box' \in [Agents -> Boxes]
      BY <2>2, <3>2 DEF TypeOK
    <3>4. [req[r] EXCEPT !.pc = "boot", !.tok = used.runs + 1] \in Requests
      BY <3>1, RequestTypes DEF TypeOK, Steps
    <3>5. [req[r] EXCEPT !.pc = "boot", !.tok = used.runs + 1].tok \in Runs
      BY <3>1 DEF TypeOK, Requests
    <3>6. req' \in [Reqs -> Requests] /\ TokenMinted'
      BY <2>2, <3>4, <3>5, MoveInv
    <3> QED
      BY <1>5, <3>1, <3>3, <3>6 DEF CreateBox, TypeOK
  <2> QED
    BY <1>5, <2>1, <2>2 DEF CreateBox
<1>6. ASSUME NEW r \in Reqs, StartBox(r) PROVE TypeOK' /\ TokenMinted'
  <2>1. PICK pc \in {"measure", "fail"} : Goto(r, pc)
    BY <1>6 DEF StartBox
  <2>2. req' \in [Reqs -> Requests] /\ TokenMinted'
    BY <1>6, <2>1, GotoInv DEF StartBox, At, Steps, TokenMinted, Needs
  <2>3. used' \in Bounds
    BY <1>6, FaultType DEF StartBox, TypeOK
  <2>4. box' \in [Agents -> Boxes]
    <3>1. req[r].a \in Agents /\ box[req[r].a] \in Boxes /\ req[r].tok \in Runs \cup {Null}
      BY DEF TypeOK, Requests
    <3>2. Started(box[req[r].a], req[r].tok) \in Boxes
      BY <3>1, BoxTypes
    <3> QED
      BY <1>6, <3>1, <3>2 DEF StartBox, TypeOK
  <2> QED
    BY <1>6, <2>2, <2>3, <2>4 DEF StartBox, TypeOK
<1>7. ASSUME NEW r \in Reqs, Measure(r) PROVE TypeOK' /\ TokenMinted'
  <2>1. used' \in Bounds
    BY <1>7, FaultType DEF Measure, TypeOK
  <2>2. req' \in [Reqs -> Requests] /\ TokenMinted'
    <3>1. CASE Goto(r, "tools")
      BY <1>7, <3>1, GotoInv DEF Measure, At, Steps, TokenMinted, Needs
    <3>2. CASE req' = [req EXCEPT ![r] = [@ EXCEPT !.pc = "tools", !.run = box[req[r].a].run]]
      <4>1. [req[r] EXCEPT !.pc = "tools", !.run = box[req[r].a].run] \in Requests
        <5>1. req[r] \in Requests /\ box[req[r].a].run \in Runs \cup {Null}
          BY DEF TypeOK, Requests, Boxes
        <5> QED
          BY <5>1, RequestTypes DEF Steps
      <4>2. [req[r] EXCEPT !.pc = "tools", !.run = box[req[r].a].run].tok \in Runs
        BY <1>7 DEF Measure, At, TokenMinted, Needs, TypeOK, Requests
      <4> QED
        BY <3>2, <4>1, <4>2, MoveInv
    <3> QED
      BY <1>7, <3>1, <3>2 DEF Measure
  <2> QED
    BY <1>7, <2>1, <2>2 DEF Measure, TypeOK
<1>8. ASSUME NEW r \in Reqs, InstallTools(r) PROVE TypeOK' /\ TokenMinted'
  <2>1. used' \in Bounds
    BY <1>8, FaultType DEF InstallTools, TypeOK
  <2>2. req' \in [Reqs -> Requests] /\ TokenMinted'
    <3>1. CASE Goto(r, "commit")
      BY <1>8, <3>1, GotoInv DEF InstallTools, At, Steps, TokenMinted, Needs
    <3>2. CASE req' = [req EXCEPT ![r] = [@ EXCEPT !.pc = "halt", !.op = "undo"]]
      <4>1. [req[r] EXCEPT !.pc = "halt", !.op = "undo"] \in Requests
        BY RequestTypes DEF TypeOK, Steps
      <4>2. ~Needs([req[r] EXCEPT !.pc = "halt", !.op = "undo"])
        BY DEF Needs, TypeOK, Requests
      <4> QED
        BY <3>2, <4>1, <4>2, MoveInv
    <3> QED
      BY <1>8, <3>1, <3>2 DEF InstallTools
  <2> QED
    BY <1>8, <2>1, <2>2 DEF InstallTools, TypeOK
<1>9. ASSUME NEW r \in Reqs, StartCommit(r) PROVE TypeOK' /\ TokenMinted'
  <2>1. PICK pc \in {"session", "fail"} : Goto(r, pc)
    BY <1>9 DEF StartCommit
  <2>2. req' \in [Reqs -> Requests] /\ TokenMinted'
    BY <1>9, <2>1, GotoInv DEF StartCommit, At, Steps, TokenMinted, Needs
  <2>3. used' \in Bounds
    BY <1>9, FaultType DEF StartCommit, TypeOK
  <2>4. req[r].a \in Agents /\ row[req[r].a] \in Rows /\ req[r].tok \in Runs \cup {Null}
    BY DEF TypeOK, Requests
  <2>5. row' \in [Agents -> Rows]
    <3>1. [row[req[r].a] EXCEPT !.status = "running", !.wt = req[r].tok, !.cstate = "running",
                                !.fin = Null] \in Rows
      BY <2>4, CommitRowType
    <3> QED
      BY <1>9, <2>4, <3>1 DEF StartCommit, TypeOK
  <2>6. /\ verified' \in [dflt: BOOLEAN, yes: SUBSET Agents, no: SUBSET Agents]
        /\ blind' \in [Agents -> BOOLEAN]
    <3>1. [verified EXCEPT !.yes = @ \cup {req[r].a}, !.no = @ \ {req[r].a}]
             \in [dflt: BOOLEAN, yes: SUBSET Agents, no: SUBSET Agents]
      BY <2>4 DEF TypeOK
    <3> QED
      BY <1>9, <2>4, <3>1 DEF StartCommit, MarkStatusVerified, TypeOK
  <2> QED
    BY <1>9, <2>2, <2>3, <2>5, <2>6 DEF StartCommit, TypeOK
<1>10. ASSUME NEW r \in Reqs, OpenSession(r) PROVE TypeOK' /\ TokenMinted'
  <2>1. req[r].a \in Agents /\ req[r].tok \in Runs /\ req[r].run \in Runs \cup {Null}
    BY <1>10 DEF OpenSession, At, TokenMinted, Needs, TypeOK, Requests
  <2>2. [tok |-> req[r].tok, run |-> req[r].run, end |-> Null, how |-> "open"] \in Sessions
    BY <2>1 DEF Sessions
  <2>3. sess' \in [Agents -> SUBSET Sessions]
    BY <1>10, <2>1, <2>2 DEF OpenSession, TypeOK
  <2>4. used' \in Bounds
    BY <1>10, FaultType DEF OpenSession, TypeOK
  <2> QED
    BY <1>10, <2>3, <2>4, DoneInv DEF OpenSession, TypeOK
<1>11. ASSUME NEW r \in Reqs, Fail(r) PROVE TypeOK' /\ TokenMinted'
  <2>1. req[r].a \in Agents /\ row[req[r].a] \in Rows
    BY DEF TypeOK, Requests
  <2>2. row' \in [Agents -> Rows]
    BY <1>11, <2>1, CommitRowType DEF Fail, TypeOK
  <2>3. used' \in Bounds
    BY <1>11, FaultType DEF Fail, TypeOK
  <2> QED
    BY <1>11, <2>2, <2>3, DoneInv DEF Fail, TypeOK
<1>12. ASSUME NEW r \in Reqs, CloseSessions(r) PROVE TypeOK' /\ TokenMinted'
  <2>1. req[r].a \in Agents
    BY DEF TypeOK, Requests
  <2>2. \A s \in sess[req[r].a] : Closed(s, "stop", Null) \in Sessions
    BY <2>1, ClosedType DEF TypeOK
  <2>3. sess' \in [Agents -> SUBSET Sessions]
    BY <1>12, <2>1, <2>2 DEF CloseSessions, TypeOK
  <2>4. used' \in Bounds
    BY <1>12, FaultType DEF CloseSessions, TypeOK
  <2>5. req' \in [Reqs -> Requests] /\ TokenMinted'
    BY <1>12, GotoInv DEF CloseSessions, At, Steps
  <2> QED
    BY <1>12, <2>3, <2>4, <2>5 DEF CloseSessions, TypeOK
<1>13. ASSUME NEW r \in Reqs, StopCommit(r) PROVE TypeOK' /\ TokenMinted'
  <2>1. req[r].a \in Agents /\ row[req[r].a] \in Rows
    BY DEF TypeOK, Requests
  <2>2. row' \in [Agents -> Rows]
    BY <1>13, <2>1, CommitRowType DEF StopCommit, TypeOK
  <2>3. used' \in Bounds
    BY <1>13, FaultType DEF StopCommit, TypeOK
  <2> QED
    BY <1>13, <2>2, <2>3, DoneInv DEF StopCommit, TypeOK
<1>14. ASSUME NEW r \in Reqs, DropRow(r) PROVE TypeOK' /\ TokenMinted'
  <2>1. row' \in [Agents -> Rows] /\ sess' \in [Agents -> SUBSET Sessions]
    BY <1>14, IdleTypes DEF DropRow, TypeOK
  <2>2. used' \in Bounds
    BY <1>14, FaultType DEF DropRow, TypeOK
  <2> QED
    BY <1>14, <2>1, <2>2, DoneInv DEF DropRow, TypeOK
<1>15. ASSUME NEW p \in Passes, PassBegin(p) PROVE TypeOK' /\ TokenMinted'
  <2> DEFINE t == [IdlePass EXCEPT !.pc = "scan", !.alone = ~Others(p),
                       !.snap = [a \in Agents |-> Snap(row[a])],
                       !.todo = {a \in Agents : row[a].exists}]
  <2>1. t \in PassRecs
    <3>1. [a \in Agents |-> Snap(row[a])] \in [Agents -> Snaps]
      BY IdleTypes DEF TypeOK
    <3>2. Others(p) \in BOOLEAN
      BY DEF Others
    <3> QED
      BY <3>1, <3>2, IdleTypes DEF PassRecs
  <2>2. pass' = Joined(p, t)
    BY <1>15 DEF PassBegin
  <2> HIDE DEF t
  <2>3. pass' \in [Passes -> PassRecs]
    BY <2>1, <2>2, JoinedType
  <2>4. used' \in Bounds
    BY <1>15, SpendType DEF PassBegin, TypeOK
  <2> QED
    BY <1>15, <2>3, <2>4 DEF PassBegin, TypeOK, TokenMinted
<1>16. ASSUME NEW p \in Passes, PassFailed(p) PROVE TypeOK' /\ TokenMinted'
  <2>1. used' \in Bounds
    BY <1>16, FaultType DEF PassFailed
  <2>2. pass' \in [Passes -> PassRecs]
    BY <1>16, IdleTypes, JoinedType DEF PassFailed
  <2> QED
    BY <1>16, <2>1, <2>2 DEF PassFailed, RecordReconcileFailure, TypeOK, TokenMinted
<1>17. ASSUME NEW p \in Passes, NEW a \in Agents, Inspect(p, a) PROVE TypeOK' /\ TokenMinted'
  <2>1. pass[p] \in PassRecs /\ box[a] \in Boxes
    BY DEF TypeOK
  <2> DEFINE k == PatchFor(pass[p].snap[a], box[a])
             u == UnseenPatch(pass[p].snap[a])
  <2>2. k \in PatchKinds \cup {"none"} /\ u \in PatchKinds \cup {"none"}
    BY DEF PatchFor, UnseenPatch, PatchKinds
  <2>3. \/ pass' = [pass EXCEPT ![p] = Looked(pass[p], a, k)]
        \/ pass' = [pass EXCEPT ![p] = [Looked(pass[p], a, u) EXCEPT !.unver = @ \cup {a}]]
    BY <1>17 DEF Inspect
  <2> HIDE DEF k, u
  <2>4. pass' \in [Passes -> PassRecs]
    <3>0. Look(box[a]) \in Looks /\ Snap(NoRow) \in Snaps
      BY <2>1, IdleTypes
    <3>1. Looked(pass[p], a, k) \in PassRecs
      BY <2>1, <2>2, <3>0 DEF PassRecs, Looked
    <3>2. Looked(pass[p], a, u) \in PassRecs
      BY <2>1, <2>2, <3>0 DEF PassRecs, Looked
    <3>3. [Looked(pass[p], a, u) EXCEPT !.unver = @ \cup {a}] \in PassRecs
      BY <3>2 DEF PassRecs
    <3> QED
      BY <2>3, <3>1, <3>3 DEF TypeOK
  <2>5. used' \in Bounds
    BY <1>17, FaultType DEF Inspect, TypeOK
  <2>6. blind' \in [Agents -> BOOLEAN]
    BY <1>17 DEF Inspect, TypeOK
  <2> QED
    BY <1>17, <2>4, <2>5, <2>6 DEF Inspect, TypeOK, TokenMinted
<1>18. ASSUME NEW p \in Passes, ApplyPatch(p) PROVE TypeOK' /\ TokenMinted'
  <2>1. /\ pass[p] \in PassRecs /\ pass[p].a \in Agents /\ pass[p].kind \in PatchKinds
        /\ pass[p].seen \in Looks /\ pass[p].snap[pass[p].a] \in Snaps
        /\ row[pass[p].a] \in Rows
    BY DEF TypeOK, PassRecs
  <2>2. row' \in [Agents -> Rows]
    BY <1>18, <2>1, PatchedType DEF ApplyPatch, TypeOK
  <2>3. [pass[p] EXCEPT !.pc = "scan", !.snap[pass[p].a] = Snap(NoRow), !.a = AnyAgent,
                        !.kind = "observe", !.seen = Look(NoBox)] \in PassRecs
    <3>1. Snap(NoRow) \in Snaps /\ Look(NoBox) \in Looks /\ AnyAgent \in Agents
      BY IdleTypes
    <3> QED
      BY <2>1, <3>1 DEF PassRecs, PatchKinds
  <2> QED
    BY <1>18, <2>1, <2>2, <2>3 DEF ApplyPatch, TypeOK, TokenMinted
<1>19. ASSUME NEW p \in Passes, SweepSessions(p) PROVE TypeOK' /\ TokenMinted'
  <2>1. \A a \in Agents : Swept(a) \in SUBSET Sessions
    BY ClosedType DEF Swept, TypeOK, Rows
  <2>2. sess' \in [Agents -> SUBSET Sessions]
    BY <1>19, <2>1 DEF SweepSessions, TypeOK
  <2>3. used' \in Bounds
    BY <1>19, FaultType DEF SweepSessions, TypeOK
  <2>4. [pass[p] EXCEPT !.pc = "record"] \in PassRecs
    <3>1. pass[p] \in PassRecs
      BY DEF TypeOK
    <3> QED
      BY <3>1 DEF PassRecs
  <2> QED
    BY <1>19, <2>2, <2>3, <2>4 DEF SweepSessions, TypeOK, TokenMinted
<1>26. ASSUME NEW p \in Passes, PassEnd(p) PROVE TypeOK' /\ TokenMinted'
  <2>1. pass[p].unver \in SUBSET Agents
    BY DEF TypeOK, PassRecs
  <2> QED
    BY <1>26, <2>1, IdleTypes DEF PassEnd, RecordReconcilePass, TypeOK, TokenMinted
<1>20. ASSUME NEW a \in Agents, BoxExits(a) \/ BoxRevived(a) \/ BoxDeleted(a)
       PROVE  TypeOK' /\ TokenMinted'
  <2>1. used' \in Bounds
    BY <1>20, SpendType, FaultType DEF BoxExits, BoxRevived, BoxDeleted
  <2>2. box[a] \in Boxes
    BY DEF TypeOK
  <2>3. [box[a] EXCEPT !.st = "exited"] \in Boxes
    BY <2>2 DEF Boxes, BoxStates
  <2>4. CASE BoxRevived(a)
    <3>1. Started(box[a], used.runs + 1) \in Boxes
      BY <2>2, <2>4, NextRun, BoxTypes DEF BoxRevived
    <3> QED
      BY <2>1, <2>4, <3>1 DEF BoxRevived, TypeOK, TokenMinted
  <2>5. CASE BoxExits(a) \/ BoxDeleted(a)
    BY <2>1, <2>3, <2>5, IdleTypes DEF BoxExits, BoxDeleted, TypeOK, TokenMinted
  <2> QED
    BY <1>20, <2>4, <2>5
<1>21. ASSUME ApiRestart PROVE TypeOK' /\ TokenMinted'
  <2>1. used' \in Bounds
    BY <1>21, FaultType DEF ApiRestart
  <2>2. req' \in [Reqs -> Requests] /\ TokenMinted'
    BY <1>21, IdleTypes DEF ApiRestart, TokenMinted, Needs, IdleReq
  <2> QED
    BY <1>21, <2>1, <2>2, IdleTypes DEF ApiRestart, TypeOK
<1>22. CASE UNCHANGED vars
  BY <1>22 DEF vars, TypeOK, TypeInv, TokenMinted
<1>23. CASE \E r \in Reqs, a \in Agents : StartAgent(r, a) \/ StopAgent(r, a) \/ DeleteAgent(r, a)
  BY <1>1, <1>23 DEF StartAgent, StopAgent, DeleteAgent
<1>24. CASE \E r \in Reqs : ReqStep(r)
  BY <1>3, <1>4, <1>5, <1>6, <1>7, <1>8, <1>9, <1>10, <1>11, <1>12, <1>13, <1>14, <1>24 DEF ReqStep
<1>25. CASE \E p \in Passes : PassStep(p)
  BY <1>15, <1>16, <1>17, <1>18, <1>19, <1>25, <1>26 DEF PassStep
<1> QED
  BY <1>2, <1>20, <1>21, <1>22, <1>23, <1>24, <1>25 DEF Next, Environment

(***************************************************************************)
(* Every reachable state is well typed.                                    *)
(***************************************************************************)
THEOREM TypeCorrect == Spec => []TypeOK
<1>1. Init => TypeInv
  BY InitType DEF TypeInv, TokenMinted, Needs, Init, IdleReq
<1>2. TypeInv => TypeOK
  BY DEF TypeInv
<1> QED
  BY <1>1, <1>2, TypeStep, PTL DEF Spec

(***************************************************************************)
(* What is reported as fact has been looked at, once the pass that ended   *)
(* last ran alone.  KnownMeansSeen speaks of the moments between passes.   *)
(* While a pass is at work by itself (Solitary), the agents it could not   *)
(* inspect are still on its list (Known), and every agent it is done with, *)
(* or that came later, was seen (SeenByPass).  A pass that another joins   *)
(* loses both claims, and with them the verdict it will record.            *)
(***************************************************************************)
Solitary == \A p \in Passes : pass[p].alone =>
                pass[p].pc # "idle" /\ \A q \in Passes \ {p} : pass[q].pc = "idle"
Known ==
    \A a \in Agents :
        (/\ up /\ row[a].exists /\ IsStatusVerified(a) /\ ~crossed
         /\ \A p \in Passes : pass[p].pc # "idle" => pass[p].alone /\ a \notin pass[p].unver)
            => ~blind[a]
SeenByPass ==
    \A p \in Passes, a \in Agents :
        pass[p].alone /\ row[a].exists /\ a \notin pass[p].todo /\ a \notin pass[p].unver
            => ~blind[a]
AllSeen == \A p \in Passes : pass[p].pc = "record" => pass[p].todo = {}

SeenInv == TypeOK /\ Solitary /\ Known /\ SeenByPass /\ AllSeen

\* What the invariant says of one pass record.
SameClaims(t, u) == /\ t.alone = u.alone /\ t.todo = u.todo /\ t.unver = u.unver
                    /\ (t.pc = "idle" <=> u.pc = "idle") /\ (t.pc = "record" => u.todo = {})

\* A step that takes no look, and gives no row, keeps the invariant.
LEMMA SeenQuiet ==
    ASSUME SeenInv, TypeOK', UNCHANGED <<up, verified, blind, crossed>>,
           \A a \in Agents : row'[a].exists => row[a].exists,
           \A q \in Passes : SameClaims(pass'[q], pass[q])
    PROVE  SeenInv'
<1> USE DEF SeenInv, SameClaims
<1>1. Solitary'
  BY DEF Solitary
<1>2. Known'
  BY DEF Known, IsStatusVerified
<1>3. SeenByPass'
  BY DEF SeenByPass
<1>4. AllSeen'
  BY DEF AllSeen
<1> QED
  BY <1>1, <1>2, <1>3, <1>4

\* A step of the handlers and the environment.
LEMMA SeenOutside ==
    ASSUME SeenInv, TypeOK', UNCHANGED <<pass, up, verified, blind, crossed>>,
           \A a \in Agents : row'[a].exists => row[a].exists
    PROVE  SeenInv'
<1>1. \A q \in Passes : SameClaims(pass'[q], pass[q])
  BY DEF SameClaims, SeenInv, AllSeen
<1> QED
  BY <1>1, SeenQuiet

\* A pass that begins.
LEMMA SeenBegin ==
    ASSUME SeenInv, TypeOK', NEW p \in Passes, PassBegin(p)
    PROVE  SeenInv'
<1> USE DEF SeenInv
<1>1. pass[p].pc = "idle" /\ UNCHANGED <<row, up, verified, blind, crossed>>
  BY DEF PassBegin
<1>2. /\ pass'[p].pc = "scan" /\ pass'[p].alone = ~Others(p) /\ pass'[p].unver = {}
      /\ pass'[p].todo = {a \in Agents : row[a].exists}
  BY IdleTypes DEF PassBegin, Joined, TypeOK, IdlePass
<1>3. \A q \in Passes \ {p} : /\ pass'[q].alone = FALSE /\ pass'[q].pc = pass[q].pc
                              /\ pass'[q].todo = pass[q].todo
  <2>1. \A q \in Passes \ {p} : pass'[q] = [pass[q] EXCEPT !.alone = FALSE]
    BY DEF PassBegin, Joined
  <2>2. \A q \in Passes : pass[q] \in PassRecs
    BY DEF TypeOK
  <2> QED
    BY <2>1, <2>2 DEF PassRecs
<1>4. Solitary'
  BY <1>2, <1>3 DEF Solitary, Others
<1>5. Known'
  <2> SUFFICES ASSUME NEW a \in Agents, up', row'[a].exists, IsStatusVerified(a)', ~crossed',
                      \A q \in Passes : pass'[q].pc # "idle" => pass'[q].alone
               PROVE  ~blind'[a]
    BY DEF Known
  <2>1. \A q \in Passes : pass[q].pc = "idle"
    BY <1>1, <1>3
  <2> QED
    BY <1>1, <2>1 DEF Known, IsStatusVerified
<1>6. SeenByPass'
  BY <1>1, <1>2, <1>3 DEF SeenByPass
<1>7. AllSeen'
  BY <1>2, <1>3 DEF AllSeen
<1> QED
  BY <1>4, <1>5, <1>6, <1>7

\* A look at one container.
LEMMA SeenInspect ==
    ASSUME SeenInv, TypeOK', NEW p \in Passes, NEW a \in Agents, Inspect(p, a)
    PROVE  SeenInv'
<1> USE DEF SeenInv
<1>1. pass[p] \in PassRecs
  BY DEF TypeOK
<1>2. pass[p].pc = "scan" /\ UNCHANGED <<row, up, verified, crossed>>
  BY DEF Inspect
<1>3. /\ pass'[p].todo = pass[p].todo \ {a}
      /\ pass'[p].pc \notin {"idle", "record"}
      /\ pass'[p].alone = pass[p].alone
      /\ \/ pass'[p].unver = pass[p].unver /\ blind' = [blind EXCEPT ![a] = FALSE]
         \/ pass'[p].unver = pass[p].unver \cup {a} /\ blind' = [blind EXCEPT ![a] = TRUE]
  <2> DEFINE Fine(t, w) == /\ t.todo = pass[p].todo \ {a} /\ t.unver = w
                           /\ t.alone = pass[p].alone /\ t.pc \notin {"idle", "record"}
             k == PatchFor(pass[p].snap[a], box[a])
             u == UnseenPatch(pass[p].snap[a])
  <2>1. \/ pass'[p] = Looked(pass[p], a, k) /\ blind' = [blind EXCEPT ![a] = FALSE]
        \/ /\ pass'[p] = [Looked(pass[p], a, u) EXCEPT !.unver = @ \cup {a}]
           /\ blind' = [blind EXCEPT ![a] = TRUE]
    BY DEF Inspect, TypeOK
  <2> HIDE DEF k, u
  <2>2. /\ Fine(Looked(pass[p], a, k), pass[p].unver)
        /\ Fine([Looked(pass[p], a, u) EXCEPT !.unver = @ \cup {a}], pass[p].unver \cup {a})
    BY <1>1, <1>2 DEF PassRecs, Looked
  <2> QED
    BY <2>1, <2>2
<1>4. \A q \in Passes \ {p} : pass'[q] = pass[q] /\ ~pass[q].alone
  BY <1>2 DEF Inspect, TypeOK, Solitary
<1>5. blind \in [Agents -> BOOLEAN]
  BY DEF TypeOK
<1>6. Solitary'
  BY <1>2, <1>3, <1>4 DEF Solitary
<1>7. Known'
  BY <1>2, <1>3, <1>4, <1>5 DEF Known, IsStatusVerified
<1>8. SeenByPass'
  BY <1>2, <1>3, <1>4, <1>5 DEF SeenByPass
<1>9. AllSeen'
  BY <1>3, <1>4 DEF AllSeen
<1> QED
  BY <1>6, <1>7, <1>8, <1>9

\* A pass that records what it could verify.
LEMMA SeenEnd ==
    ASSUME SeenInv, TypeOK', NEW p \in Passes, PassEnd(p)
    PROVE  SeenInv'
<1> USE DEF SeenInv
<1>1. /\ pass[p].pc = "record" /\ UNCHANGED <<row, blind>> /\ crossed' = ~pass[p].alone
      /\ RecordReconcilePass(pass[p].unver)
  BY DEF PassEnd
<1>2. pass'[p].pc = "idle" /\ ~pass'[p].alone /\ \A q \in Passes \ {p} : pass'[q] = pass[q]
  BY DEF PassEnd, TypeOK, IdlePass
<1>3. \A a \in Agents : IsStatusVerified(a)' => a \notin pass[p].unver
  BY <1>1 DEF RecordReconcilePass, IsStatusVerified
<1>4. Solitary'
  BY <1>2 DEF Solitary
<1>5. Known'
  BY <1>1, <1>3 DEF Known, SeenByPass, AllSeen
<1>6. SeenByPass' /\ AllSeen'
  BY <1>1, <1>2 DEF SeenByPass, AllSeen
<1> QED
  BY <1>4, <1>5, <1>6

\* A pass that fails vouches for nobody.
LEMMA SeenFailed ==
    ASSUME SeenInv, TypeOK', NEW p \in Passes, PassFailed(p)
    PROVE  SeenInv'
<1> USE DEF SeenInv
<1>1. \A q \in Passes : ~pass'[q].alone /\ (pass'[q].pc = "record" => pass'[q].todo = {})
  BY DEF PassFailed, Joined, TypeOK, PassRecs, IdlePass, AllSeen
<1>2. \A a \in Agents : ~IsStatusVerified(a)'
  BY DEF PassFailed, RecordReconcileFailure, IsStatusVerified
<1> QED
  BY <1>1, <1>2 DEF Solitary, Known, SeenByPass, AllSeen

\* A start that has succeeded vouches for its own agent.
LEMMA SeenStart ==
    ASSUME SeenInv, TypeOK', NEW r \in Reqs, StartCommit(r)
    PROVE  SeenInv'
<1> USE DEF SeenInv
<1>0. req[r].a \in Agents /\ row[req[r].a] \in Rows
  BY DEF TypeOK, Requests
<1>1. CASE UNCHANGED <<row, verified, blind>>
  BY <1>1, SeenOutside DEF StartCommit
<1>2. CASE MarkStatusVerified(req[r].a) /\ blind' = [blind EXCEPT ![req[r].a] = FALSE]
  <2>1. UNCHANGED <<pass, up, crossed>>
    BY DEF StartCommit
  <2>2. \A a \in Agents : row'[a].exists => row[a].exists
    BY <1>0 DEF StartCommit, Named, TypeOK, Rows
  <2>3. \A a \in Agents \ {req[r].a} : IsStatusVerified(a)' => IsStatusVerified(a)
    BY <1>0, <1>2 DEF MarkStatusVerified, IsStatusVerified, TypeOK
  <2>4. \A a \in Agents : blind'[a] => blind[a] /\ a # req[r].a
    BY <1>0, <1>2 DEF TypeOK
  <2>5. Known'
    BY <2>1, <2>2, <2>3, <2>4 DEF Known
  <2>6. SeenByPass' /\ Solitary' /\ AllSeen'
    BY <2>1, <2>2, <2>4 DEF SeenByPass, Solitary, AllSeen
  <2> QED
    BY <2>5, <2>6
<1> QED
  BY <1>1, <1>2 DEF StartCommit

\* Every step keeps the invariant, however many passes are in progress.
LEMMA SeenStep == ASSUME SeenInv, TypeOK', [Next]_vars PROVE SeenInv'
<1>1. CASE UNCHANGED <<row, pass, up, verified, blind, crossed>>
  BY <1>1, SeenOutside
<1>2. ASSUME NEW a \in Agents, CreateAgent(a) PROVE SeenInv'
  <2>1. UNCHANGED <<pass, up, verified, crossed>>
    BY <1>2 DEF CreateAgent
  <2>2. \A b \in Agents : /\ blind'[b] => blind[b] /\ b # a
                          /\ b # a => row'[b] = row[b]
    BY <1>2 DEF CreateAgent, TypeOK, SeenInv
  <2> QED
    BY <2>1, <2>2 DEF SeenInv, Known, SeenByPass, Solitary, AllSeen, IsStatusVerified
<1>3. ASSUME NEW r \in Reqs, Fail(r) \/ StopCommit(r) \/ DropRow(r) PROVE SeenInv'
  <2>1. req[r].a \in Agents /\ row[req[r].a] \in Rows
    BY DEF TypeOK, Requests, SeenInv
  <2>2. \A a \in Agents : row'[a].exists => row[a].exists
    <3>1. CASE Fail(r)
      BY <2>1, <3>1 DEF Fail, TypeOK, Rows, SeenInv
    <3>2. CASE StopCommit(r)
      <4>1. [row[req[r].a] EXCEPT !.status = "stopped", !.wt = Null, !.cstate = "absent"].exists
              = row[req[r].a].exists
        BY <2>1, CommitRowType
      <4> QED
        BY <2>1, <3>2, <4>1 DEF StopCommit, TypeOK, SeenInv
    <3>3. CASE DropRow(r)
      BY <2>1, <3>3 DEF DropRow, Named, TypeOK, SeenInv
    <3> QED
      BY <1>3, <3>1, <3>2, <3>3
  <2>3. UNCHANGED <<pass, up, verified, blind, crossed>>
    BY <1>3 DEF Fail, StopCommit, DropRow
  <2> QED
    BY <2>2, <2>3, SeenOutside
<1>4. ASSUME NEW p \in Passes, ApplyPatch(p) PROVE SeenInv'
  <2>1. /\ pass[p] \in PassRecs /\ pass[p].a \in Agents /\ row[pass[p].a] \in Rows
        /\ pass[p].pc = "patch"
    BY <1>4 DEF TypeOK, PassRecs, SeenInv, ApplyPatch
  <2>2. SameClaims(pass'[p], pass[p])
    <3>1. pass'[p] = [pass[p] EXCEPT !.pc = "scan", !.snap[pass[p].a] = Snap(NoRow),
                        !.a = AnyAgent, !.kind = "observe", !.seen = Look(NoBox)]
      BY <1>4 DEF ApplyPatch, TypeOK, SeenInv
    <3> QED
      BY <2>1, <3>1 DEF SameClaims, PassRecs
  <2>3. \A q \in Passes \ {p} : pass'[q] = pass[q]
    BY <1>4 DEF ApplyPatch, TypeOK, SeenInv
  <2>4. \A q \in Passes : SameClaims(pass'[q], pass[q])
    BY <2>2, <2>3 DEF SameClaims, SeenInv, AllSeen
  <2>5. \A a \in Agents : row'[a].exists => row[a].exists
    BY <1>4, <2>1 DEF ApplyPatch, Patched, Named, Rows, TypeOK, SeenInv
  <2>6. UNCHANGED <<up, verified, blind, crossed>>
    BY <1>4 DEF ApplyPatch
  <2> QED
    BY <2>4, <2>5, <2>6, SeenQuiet
<1>5. ASSUME NEW p \in Passes, SweepSessions(p) PROVE SeenInv'
  <2>1. pass[p] \in PassRecs /\ pass[p].pc = "scan" /\ pass[p].todo = {}
    BY <1>5 DEF TypeOK, SeenInv, SweepSessions
  <2>2. \A q \in Passes : SameClaims(pass'[q], pass[q])
    BY <1>5, <2>1 DEF SweepSessions, SameClaims, TypeOK, PassRecs, SeenInv, AllSeen
  <2>3. UNCHANGED <<row, up, verified, blind, crossed>>
    BY <1>5 DEF SweepSessions
  <2> QED
    BY <2>2, <2>3, SeenQuiet
<1>6. CASE ApiRestart
  BY <1>6 DEF ApiRestart, SeenInv, Solitary, Known, SeenByPass, AllSeen, IdlePass
<1>7. CASE \/ \E r \in Reqs, a \in Agents : StartAgent(r, a) \/ StopAgent(r, a) \/ DeleteAgent(r, a)
           \/ \E r \in Reqs : \/ Halt(r) \/ Remove(r) \/ CreateBox(r) \/ StartBox(r) \/ Measure(r)
                              \/ InstallTools(r) \/ OpenSession(r) \/ CloseSessions(r)
           \/ \E a \in Agents : BoxExits(a) \/ BoxRevived(a) \/ BoxDeleted(a)
           \/ UNCHANGED vars
  BY <1>1, <1>7 DEF StartAgent, StopAgent, DeleteAgent, Accept, Halt, Remove, CreateBox, StartBox,
     Measure, InstallTools, OpenSession, CloseSessions, BoxExits, BoxRevived, BoxDeleted, vars
<1> QED
  BY <1>2, <1>3, <1>4, <1>5, <1>6, <1>7, SeenStart, SeenBegin, SeenInspect, SeenEnd, SeenFailed
     DEF Next, ReqStep, PassStep, Environment

(***************************************************************************)
(* agent-status-verification.ts: between passes no agent is reported with  *)
(* a status that the last look at its container did not back, whatever     *)
(* requests, faults and restarts happen and however many passes overlap,   *)
(* unless the pass that recorded the verdict was itself overlapped.        *)
(***************************************************************************)
THEOREM ReportedStatusIsBacked == Spec => []KnownMeansSeen
<1>1. Init => SeenInv
  BY InitType DEF Init, SeenInv, Solitary, Known, SeenByPass, AllSeen, IdlePass
<1>2. SeenInv /\ TypeOK' /\ [Next]_vars => SeenInv'
  BY SeenStep
<1>3. SeenInv => KnownMeansSeen
  BY DEF SeenInv, Known, KnownMeansSeen
<1> QED
  BY <1>1, <1>2, <1>3, TypeCorrect, PTL DEF Spec

(***************************************************************************)
(* Who closes a session first decides when it ended.                       *)
(***************************************************************************)
EndStays == \A a \in Agents : \A s \in sess[a] :
                s.how # "open" => s \in sess'[a] \/ (row[a].exists /\ ~row'[a].exists)

\* Both closing statements pass over what is closed already, and only the
\* deletion of the agent takes sessions away.
LEMMA EndStep == ASSUME TypeOK, [Next]_vars PROVE EndStays
<1>q. ASSUME UNCHANGED sess PROVE EndStays
  BY <1>q DEF EndStays
<1>a. \A r \in Reqs : req[r].a \in Agents
  BY DEF TypeOK, Requests
<1>1. CASE UNCHANGED vars
  BY <1>1, <1>q DEF vars
<1>2. CASE \E r \in Reqs, a \in Agents : StartAgent(r, a) \/ StopAgent(r, a) \/ DeleteAgent(r, a)
  BY <1>2, <1>q DEF StartAgent, StopAgent, DeleteAgent, Accept
<1>3. CASE \E a \in Agents : CreateAgent(a)
  BY <1>3, <1>q DEF CreateAgent
<1>4. ASSUME NEW r \in Reqs, OpenSession(r) PROVE EndStays
  BY <1>4, <1>a DEF OpenSession, EndStays, TypeOK
<1>5. ASSUME NEW r \in Reqs, CloseSessions(r) PROVE EndStays
  <2>1. CASE UNCHANGED sess
    BY <2>1, <1>q
  <2>2. CASE sess' = [sess EXCEPT ![req[r].a] = {Closed(s, "stop", Null) : s \in @}]
    <3> SUFFICES ASSUME NEW a \in Agents, NEW s \in sess[a], s.how # "open" PROVE s \in sess'[a]
      BY DEF EndStays
    <3>1. Closed(s, "stop", Null) = s
      BY DEF Closed
    <3>2. QED
      BY <1>a, <2>2, <3>1 DEF TypeOK
  <2>3. QED
    BY <1>5, <2>1, <2>2 DEF CloseSessions
<1>6. ASSUME NEW r \in Reqs, DropRow(r) PROVE EndStays
  <2>1. CASE UNCHANGED sess
    BY <2>1, <1>q
  <2>2. CASE /\ Named(req[r].a, req[r].gen) /\ row' = [row EXCEPT ![req[r].a] = NoRow]
             /\ sess' = [sess EXCEPT ![req[r].a] = {}]
    <3>1. ~NoRow.exists
      BY DEF NoRow, NewRow
    <3>2. QED
      BY <1>a, <2>2, <3>1 DEF EndStays, Named, TypeOK
  <2>3. QED
    BY <1>6, <2>1, <2>2 DEF DropRow
<1>7. ASSUME NEW r \in Reqs, ReqStep(r) PROVE EndStays
  <2>1. CASE OpenSession(r) \/ CloseSessions(r) \/ DropRow(r)
    BY <1>4, <1>5, <1>6, <2>1
  <2>2. CASE UNCHANGED sess
    BY <2>2, <1>q
  <2>3. QED
    BY <1>7, <2>1, <2>2 DEF ReqStep, Halt, Remove, CreateBox, StartBox, Measure, InstallTools, StartCommit,
       Fail, StopCommit
<1>8. ASSUME NEW p \in Passes, PassStep(p) PROVE EndStays
  <2>1. CASE sess' = [a \in Agents |-> Swept(a)]
    <3> SUFFICES ASSUME NEW a \in Agents, NEW s \in sess[a], s.how # "open" PROVE s \in Swept(a)
      BY <2>1 DEF EndStays
    <3>1. \A how, end : Closed(s, how, end) = s
      BY DEF Closed
    <3>2. QED
      BY <3>1 DEF Swept
  <2>2. CASE UNCHANGED sess
    BY <2>2, <1>q
  <2>3. QED
    BY <1>8, <2>1, <2>2 DEF PassStep, PassBegin, Inspect, ApplyPatch, SweepSessions, PassEnd, PassFailed
<1>9. CASE Environment
  BY <1>9, <1>q DEF Environment, BoxExits, BoxRevived, BoxDeleted, ApiRestart
<1>10. QED
  BY <1>1, <1>2, <1>3, <1>7, <1>8, <1>9 DEF Next

(***************************************************************************)
(* Stops, deletions and sweeps of passes that meet at a session leave it    *)
(* as the first of them closed it.                                         *)
(***************************************************************************)
THEOREM FirstCloseDecides == Spec => SessionCloseIsFinal
<1>1. TypeOK /\ [Next]_vars =>
        [\A a \in Agents : \A s \in sess[a] :
            s.how # "open" => s \in sess'[a] \/ (row[a].exists /\ ~row'[a].exists)]_vars
  BY EndStep DEF EndStays
<1> QED
  BY <1>1, TypeCorrect, PTL DEF Spec, SessionCloseIsFinal
=============================================================================
