------------------------- MODULE WorkflowScheduler --------------------------
(***************************************************************************)
(* Scheduled work: the tick of services/workflow-scheduler.ts, the routes  *)
(* that edit a workflow and start it by hand (routes/workflows.ts) or from *)
(* outside (routes/workflows-webhook.ts), on several API instances that    *)
(* share one database.  A query of a handler is one step.                  *)
(*                                                                         *)
(* The tick takes a session-level advisory lock through a connection pool: *)
(* each query runs on any connection of the pool, the lock belongs to the  *)
(* connection that took it, and a connection left idle is closed.          *)
(*                                                                         *)
(* A cron expression is its period: it fires at the multiples of it.  The  *)
(* rows that only report a failed tick, and the wording of prompts and     *)
(* errors, are left out.                                                   *)
(***************************************************************************)
EXTENDS Naturals, Sequences

CONSTANTS
    Flows,        \* workflow ids (never reused)
    Insts,        \* API instances; each serves one request at a time here
    Web,          \* the instances that are sent requests
    Conns,        \* connections of an instance's pool
    Crons,        \* periods
    MaxTime,      \* bound: the clock
    MaxCalls,     \* bound: requests, those that start or stop an agent too
    MaxFaults,    \* bound: failed queries, failed dispatches, restarts, lost locks
    MaxHolds      \* bound: how often one session has taken the lock

ASSUME ScheduleAssumption ==
    /\ Flows # {} /\ Insts # {} /\ Web \subseteq Insts /\ Conns # {}
    /\ Crons # {} /\ Crons \subseteq Nat \ {0}
    /\ MaxTime \in Nat /\ MaxCalls \in Nat /\ MaxFaults \in Nat
    /\ MaxHolds \in Nat

VARIABLES
    now,       \* the clock of the database and of the instances
    wf,        \* workflows
    agentUp,   \* agents.status = 'running', for the agent of each workflow
    run,       \* workflow_runs, in the order they are inserted
    lock,      \* the advisory lock
    tick,      \* the scheduler of each instance
    hand,      \* the request each instance is serving
    used       \* how much of each bound is spent

vars == <<now, wf, agentUp, run, lock, tick, hand, used>>
-----------------------------------------------------------------------------
Null == 0                                  \* SQL NULL of a time or a cron
Horizon == MaxTime + MaxTime + 4           \* no next run lies beyond it
Times == 0..Horizon
Workflows == [st: {"new", "live", "gone"}, on: BOOLEAN, cron: Crons \cup {Null},
              hook: BOOLEAN,               \* trigger_type = 'webhook'
              next: Times]                 \* next_run_at
\* due: the next_run_at that a tick fires for, Null when started by a request;
\* sent: a dispatch that nobody awaits is under way;
\* slip: history, the tick lost its lock or did not move next_run_at, or an edit
\* put it back;
\* lost: history, the write that labels the run 'error' failed, or the process died
RunRecs == [w: Flows, st: {"running", "error"}, thread: BOOLEAN, due: Times,
            sent: BOOLEAN, slip: BOOLEAN, lost: BOOLEAN]
Locks == [i: Insts, c: Conns, n: 0..MaxHolds]   \* n: how often its session took it
TickPcs == {"boot", "init", "idle", "read", "pick", "insert", "thread", "dispatch",
            "link", "label", "advance", "unlock"}
TickRecs == [pc: TickPcs, todo: SUBSET Flows, ups: SUBSET Flows, snap: [Flows -> Workflows],
             w: Flows, k: Nat, refused: BOOLEAN,
             bare: BOOLEAN]                \* history: its lock is gone
HandPcs == {"idle", "put", "insert", "thread", "link", "dispatch", "stamp", "label"}
Handlers == [pc: HandPcs, w: Flows, k: Nat,
             cron: Crons \cup {Null}, on: {"keep", "yes", "no"}, next: Times]
Bounds == [calls: 0..MaxCalls, faults: 0..MaxFaults]

NewFlow == [st |-> "new", on |-> FALSE, cron |-> Null, hook |-> FALSE, next |-> Null]
AnyFlow == CHOOSE w \in Flows : TRUE
FreeLock == [i |-> CHOOSE i \in Insts : TRUE, c |-> CHOOSE c \in Conns : TRUE, n |-> 0]
IdleTick == [pc |-> "idle", todo |-> {}, ups |-> {}, snap |-> [w \in Flows |-> NewFlow],
             w |-> AnyFlow, k |-> 0, refused |-> FALSE, bare |-> FALSE]
IdleHand == [pc |-> "idle", w |-> AnyFlow, k |-> 0, cron |-> Null, on |-> "keep",
             next |-> Null]

TypeOK ==
    /\ now \in 0..MaxTime
    /\ wf \in [Flows -> Workflows]
    /\ agentUp \in [Flows -> BOOLEAN]
    /\ run \in Seq(RunRecs)
    /\ lock \in Locks
    /\ tick \in [Insts -> TickRecs]
    /\ hand \in [Insts -> Handlers]
    /\ used \in Bounds

Init ==
    /\ now = 0
    /\ wf = [w \in Flows |-> NewFlow]
    /\ agentUp = [w \in Flows |-> TRUE]
    /\ run = <<>>
    /\ lock = FreeLock
    /\ tick = [i \in Insts |-> IdleTick]
    /\ hand = [i \in Insts |-> IdleHand]
    /\ used = [calls |-> 0, faults |-> 0]
-----------------------------------------------------------------------------
Spend(field) == used' = [used EXCEPT ![field] = @ + 1]
CountFault == used.faults < MaxFaults /\ Spend("faults")
Call == used.calls < MaxCalls /\ Spend("calls")
Live(w) == wf[w].st = "live"
TickAt(i, pc) == tick[i].pc = pc
TickTo(i, pc) == tick' = [tick EXCEPT ![i].pc = pc]
HandAt(i, pc) == hand[i].pc = pc
HandTo(i, pc) == hand' = [hand EXCEPT ![i].pc = pc]
Answer(i) == hand' = [hand EXCEPT ![i] = IdleHand]

\* helpers/cron.ts: the first firing after now; no cron, no firing
\* Mut: the firing of this very minute counts as the next one
MutThisMinute(cron) == IF cron = Null THEN Null ELSE ((now + cron - 1) \div cron) * cron
ComputeNextRun(cron) == IF cron = Null THEN Null ELSE (now \div cron + 1) * cron
-----------------------------------------------------------------------------
(* Routes that edit workflows.                                              *)

\* POST /workflows: a webhook workflow stores no cron and no next run
CreateFlow(w, cron, hook, on) ==
    /\ wf[w].st = "new"
    /\ Call
    /\ wf' = [wf EXCEPT ![w] = [st |-> "live", on |-> on, hook |-> hook,
                                cron |-> IF hook THEN Null ELSE cron,
                                next |-> IF hook THEN Null ELSE ComputeNextRun(cron)]]
    /\ UNCHANGED <<now, agentUp, run, lock, tick, hand>>

\* DELETE /workflows/:id; its runs go with it (ON DELETE CASCADE)
DeleteFlow(w) ==
    /\ Live(w)
    /\ Call
    /\ wf' = [wf EXCEPT ![w].st = "gone"]
    /\ UNCHANGED <<now, agentUp, run, lock, tick, hand>>

\* PUT /workflows/:id reads the row and decides whether next_run_at is stale...
Enabling(old, on) == ~old.on /\ on = "yes"
PutRead(i, w, cron, on) ==
    LET old == wf[w]
        changed == cron # Null /\ cron # old.cron
        renew == ~old.hook /\ (changed \/ Enabling(old, on))
    IN
    /\ HandAt(i, "idle")
    /\ Live(w)
    /\ Call
    /\ hand' = [hand EXCEPT ![i] = [IdleHand EXCEPT !.pc = "put", !.w = w, !.cron = cron, !.on = on,
                    !.next = IF renew THEN ComputeNextRun(IF cron = Null THEN old.cron ELSE cron)
                             ELSE Null]]
    /\ UNCHANGED <<now, wf, agentUp, run, lock, tick>>

\* ... and updates it: COALESCE keeps a column that is not provided.  A time
\* computed before a firing and written after it makes that firing due again.
Coalesce(new, old) == IF new = Null THEN old ELSE new
Rearmed(w, due) == [k \in DOMAIN run |->
                       IF run[k].w = w /\ run[k].due = due /\ due # Null
                       THEN [run[k] EXCEPT !.slip = TRUE] ELSE run[k]]
PutWrite(i) ==
    LET h == hand[i]
        old == wf[h.w]
    IN
    /\ HandAt(i, "put")
    /\ \/ /\ wf' = [wf EXCEPT ![h.w] = IF old.st # "live" THEN old ELSE
                        [old EXCEPT !.cron = Coalesce(h.cron, @), !.next = Coalesce(h.next, @),
                                    !.on = IF h.on = "keep" THEN @ ELSE h.on = "yes"]]
          /\ run' = Rearmed(h.w, h.next)
          /\ UNCHANGED used
       \/ CountFault /\ UNCHANGED <<wf, run>>
    /\ Answer(i)
    /\ UNCHANGED <<now, agentUp, lock, tick>>
-----------------------------------------------------------------------------
(* POST /workflows/:id/run and POST /workflows/webhook/:token.              *)

NewRun(w, due, bare) == [w |-> w, st |-> "running", thread |-> FALSE, due |-> due,
                         sent |-> FALSE, slip |-> bare, lost |-> FALSE]

RunFlow(i, w) ==
    /\ HandAt(i, "idle")
    /\ Live(w)
    /\ agentUp[w]
    /\ Call
    /\ hand' = [hand EXCEPT ![i] = [IdleHand EXCEPT !.pc = "insert", !.w = w]]
    /\ UNCHANGED <<now, wf, agentUp, run, lock, tick>>

\* the webhook finds a workflow by its token, and only an enabled one
HookFlow(i, w) == wf[w].hook /\ wf[w].on /\ RunFlow(i, w)

\* INSERT INTO workflow_runs: with no run to label a failure just answers 500
RunInsert(i) ==
    /\ HandAt(i, "insert")
    /\ \/ /\ Live(hand[i].w)
          /\ run' = Append(run, NewRun(hand[i].w, Null, FALSE))
          /\ hand' = [hand EXCEPT ![i].pc = "thread", ![i].k = Len(run) + 1]
          /\ UNCHANGED used
       \/ /\ \/ CountFault
             \/ ~Live(hand[i].w) /\ UNCHANGED used      \* the foreign key
          /\ Answer(i)
          /\ UNCHANGED run
    /\ UNCHANGED <<now, wf, agentUp, lock, tick>>

\* Mut: the catch that only answers, and does not reach the run
MutOnlyAnswer(i) == CountFault /\ Answer(i) /\ UNCHANGED run
\* the outer catch, from any of the queries after the INSERT
RunThrows(i) == CountFault /\ HandTo(i, "label") /\ UNCHANGED run

RunThread(i) ==
    /\ HandAt(i, "thread")
    /\ \/ HandTo(i, "link") /\ UNCHANGED <<run, used>>
       \/ RunThrows(i)
    /\ UNCHANGED <<now, wf, agentUp, lock, tick>>

RunLink(i) ==
    /\ HandAt(i, "link")
    /\ \/ /\ run' = [run EXCEPT ![hand[i].k].thread = TRUE]
          /\ HandTo(i, "dispatch")
          /\ UNCHANGED used
       \/ RunThrows(i)
    /\ UNCHANGED <<now, wf, agentUp, lock, tick>>

\* participants, message and policy; then the dispatch that nobody awaits
RunDispatch(i) ==
    /\ HandAt(i, "dispatch")
    /\ \/ /\ run' = [run EXCEPT ![hand[i].k].sent = TRUE]
          /\ HandTo(i, "stamp")
          /\ UNCHANGED used
       \/ RunThrows(i)
    /\ UNCHANGED <<now, wf, agentUp, lock, tick>>

\* last_run_at; the dispatch goes on even when this throws
RunStamp(i) ==
    /\ HandAt(i, "stamp")
    /\ \/ Answer(i) /\ UNCHANGED <<run, used>>
       \/ RunThrows(i)
    /\ UNCHANGED <<now, wf, agentUp, lock, tick>>

RunLabel(i) ==
    LET k == hand[i].k IN
    /\ HandAt(i, "label")
    /\ \/ run' = [run EXCEPT ![k].st = "error"] /\ UNCHANGED used
       \/ run' = [run EXCEPT ![k].lost = TRUE] /\ CountFault
    /\ Answer(i)
    /\ UNCHANGED <<now, wf, agentUp, lock, tick>>

\* dispatchChatWork of a request: an answer, refusal included, changes nothing;
\* a rejection is recorded, unless that fails as well
DispatchSettles(k) ==
    /\ run[k].sent
    /\ \/ run' = [run EXCEPT ![k].sent = FALSE] /\ UNCHANGED used
       \/ run' = [run EXCEPT ![k].sent = FALSE, ![k].st = "error"] /\ CountFault
       \/ run' = [run EXCEPT ![k].sent = FALSE, ![k].lost = TRUE] /\ CountFault
    /\ UNCHANGED <<now, wf, agentUp, lock, tick, hand>>

HandStep(i) ==
    \/ PutWrite(i) \/ RunInsert(i) \/ RunThread(i) \/ RunLink(i)
    \/ RunDispatch(i) \/ RunStamp(i) \/ RunLabel(i)
-----------------------------------------------------------------------------
(* The scheduler of an instance.                                            *)

\* initializeNextRuns: enabled workflows without a next run, read once...
BootRead(i) ==
    /\ TickAt(i, "boot")
    /\ \/ /\ tick' = [tick EXCEPT ![i] = [IdleTick EXCEPT !.pc = "init", !.snap = wf,
                         !.todo = {w \in Flows : Live(w) /\ wf[w].on /\ wf[w].next = Null}]]
          /\ UNCHANGED used
       \/ CountFault /\ TickTo(i, "idle")
    /\ UNCHANGED <<now, wf, agentUp, run, lock, hand>>

\* ... and written one by one, by the cron that was read; a failure ends it
BootWrite(i) ==
    /\ TickAt(i, "init")
    /\ \/ /\ tick[i].todo = {}
          /\ tick' = [tick EXCEPT ![i] = IdleTick]
          /\ UNCHANGED <<wf, used>>
       \/ \E w \in tick[i].todo :
             LET next == ComputeNextRun(tick[i].snap[w].cron) IN
             /\ tick' = [tick EXCEPT ![i].todo = @ \ {w}]
             /\ wf' = IF next = Null \/ ~Live(w) THEN wf ELSE [wf EXCEPT ![w].next = next]
             /\ UNCHANGED used
       \/ CountFault /\ tick' = [tick EXCEPT ![i] = IdleTick] /\ UNCHANGED wf
    /\ UNCHANGED <<now, agentUp, run, lock, hand>>

\* pg_try_advisory_lock on whatever connection the pool hands out; a session
\* that has the lock gets it again, any other one gets "no" and the tick ends
CanLock(i, c) == lock.n = 0 \/ (lock.i = i /\ lock.c = c)
TickLock(i, c) ==
    /\ TickAt(i, "idle")
    /\ CanLock(i, c)
    /\ lock.n < MaxHolds
    /\ lock' = [i |-> i, c |-> c, n |-> lock.n + 1]
    /\ TickTo(i, "read")
    /\ UNCHANGED <<now, wf, agentUp, run, hand, used>>

Due(w) == Live(w) /\ wf[w].on /\ wf[w].next # Null /\ wf[w].next <= now
TickRead(i) ==
    /\ TickAt(i, "read")
    /\ \/ /\ tick' = [tick EXCEPT ![i].pc = "pick", ![i].snap = wf, ![i].todo = {w \in Flows : Due(w)},
                                   ![i].ups = {w \in Flows : agentUp[w]}]
          /\ UNCHANGED used
       \/ CountFault /\ TickTo(i, "unlock")
    /\ UNCHANGED <<now, wf, agentUp, run, lock, hand>>

\* the next of the due workflows, in no particular order; one whose agent was
\* not running when the tick read it is only moved to its next time
TickPick(i) ==
    /\ TickAt(i, "pick")
    /\ \/ tick[i].todo = {} /\ TickTo(i, "unlock")
       \/ \E w \in tick[i].todo :
             tick' = [tick EXCEPT ![i] = [tick[i] EXCEPT !.w = w, !.todo = @ \ {w},
                         !.pc = IF w \in tick[i].ups THEN "insert" ELSE "advance"]]
    /\ UNCHANGED <<now, wf, agentUp, run, lock, hand, used>>

TickInsert(i) ==
    LET t == tick[i] IN
    /\ TickAt(i, "insert")
    /\ \/ /\ Live(t.w)
          /\ run' = Append(run, NewRun(t.w, t.snap[t.w].next, t.bare))
          /\ tick' = [tick EXCEPT ![i].pc = "thread", ![i].k = Len(run) + 1]
          /\ UNCHANGED used
       \/ /\ CountFault \/ (~Live(t.w) /\ UNCHANGED used)
          /\ TickTo(i, "pick")
          /\ UNCHANGED run
    /\ UNCHANGED <<now, wf, agentUp, lock, hand>>

\* thread, participants and message of the run
TickThread(i) ==
    /\ TickAt(i, "thread")
    /\ \/ TickTo(i, "dispatch") /\ UNCHANGED used
       \/ TickTo(i, "label") /\ CountFault
    /\ UNCHANGED <<now, wf, agentUp, run, lock, hand>>

\* awaited here: accepted, refused, or rejected
TickDispatch(i) ==
    /\ TickAt(i, "dispatch")
    /\ \/ \E no \in BOOLEAN : tick' = [tick EXCEPT ![i].pc = "link", ![i].refused = no] /\ UNCHANGED used
       \/ TickTo(i, "label") /\ CountFault
    /\ UNCHANGED <<now, wf, agentUp, run, lock, hand>>

TickLink(i) ==
    /\ TickAt(i, "link")
    /\ \/ /\ run' = [run EXCEPT ![tick[i].k].thread = TRUE]
          /\ TickTo(i, IF tick[i].refused THEN "label" ELSE "advance")
          /\ UNCHANGED used
       \/ CountFault /\ TickTo(i, "label") /\ UNCHANGED run
    /\ UNCHANGED <<now, wf, agentUp, lock, hand>>

TickLabel(i) ==
    /\ TickAt(i, "label")
    /\ \/ run' = [run EXCEPT ![tick[i].k].st = "error"] /\ UNCHANGED used
       \/ run' = [run EXCEPT ![tick[i].k].lost = TRUE] /\ CountFault
    /\ TickTo(i, "advance")
    /\ UNCHANGED <<now, wf, agentUp, lock, hand>>

\* UPDATE workflows SET next_run_at, by the cron read at the head of the tick
Slip(k) == IF k = 0 THEN run ELSE [run EXCEPT ![k].slip = TRUE]
\* Mut: a workflow that is skipped keeps its time
MutSkipStays(i) ==
    LET t == tick[i] IN
    /\ TickAt(i, "advance")
    /\ wf' = IF Live(t.w) /\ t.k # 0
             THEN [wf EXCEPT ![t.w].next = ComputeNextRun(t.snap[t.w].cron)] ELSE wf
    /\ tick' = [tick EXCEPT ![i].pc = "pick", ![i].k = 0, ![i].refused = FALSE]
    /\ UNCHANGED <<now, agentUp, run, lock, hand, used>>
TickAdvance(i) ==
    LET t == tick[i] IN
    /\ TickAt(i, "advance")
    /\ \/ /\ wf' = IF Live(t.w)
                   THEN [wf EXCEPT ![t.w].next = ComputeNextRun(t.snap[t.w].cron)] ELSE wf
          /\ UNCHANGED <<run, used>>
       \/ CountFault /\ run' = Slip(t.k) /\ UNCHANGED wf
    /\ tick' = [tick EXCEPT ![i].pc = "pick", ![i].k = 0, ![i].refused = FALSE]
    /\ UNCHANGED <<now, agentUp, lock, hand>>

Released == IF lock.n > 1 THEN [lock EXCEPT !.n = @ - 1] ELSE FreeLock
\* pg_advisory_unlock, again on any connection: a session without the lock
\* gets a warning, and the lock stays
TickUnlock(i) ==
    /\ TickAt(i, "unlock")
    /\ \/ /\ \E c \in Conns : lock' = IF lock.i = i /\ lock.c = c THEN Released ELSE lock
          /\ UNCHANGED used
       \/ CountFault /\ UNCHANGED lock
    /\ tick' = [tick EXCEPT ![i] = IdleTick]
    /\ UNCHANGED <<now, wf, agentUp, run, hand>>

TickStep(i) ==
    \/ BootRead(i) \/ BootWrite(i) \/ (\E c \in Conns : TickLock(i, c)) \/ TickRead(i)
    \/ TickPick(i) \/ TickInsert(i) \/ TickThread(i) \/ TickDispatch(i) \/ TickLink(i)
    \/ TickLabel(i) \/ TickAdvance(i) \/ TickUnlock(i)
-----------------------------------------------------------------------------
(* Around the instances.                                                    *)

Clock ==
    /\ now < MaxTime
    /\ now' = now + 1
    /\ UNCHANGED <<wf, agentUp, run, lock, tick, hand, used>>

\* an agent starts or stops (AgentLifecycle)
AgentFlips(w) ==
    /\ Call
    /\ agentUp' = [agentUp EXCEPT ![w] = ~@]
    /\ UNCHANGED <<now, wf, run, lock, tick, hand>>

\* idleTimeoutMillis: the pool closes the connection that has the lock, after
\* the tick (which left it locked) or, a disruption, in the middle of it
Ticking(i) == tick[i].pc \notin {"boot", "init", "idle"}
IdleCloses ==
    /\ lock.n > 0 /\ ~Ticking(lock.i)
    /\ lock' = FreeLock
    /\ UNCHANGED <<now, wf, agentUp, run, tick, hand, used>>
LockLost ==
    /\ lock.n > 0 /\ Ticking(lock.i)
    /\ CountFault
    /\ lock' = FreeLock
    /\ tick' = [tick EXCEPT ![lock.i].bare = TRUE]
    /\ run' = Slip(tick[lock.i].k)
    /\ UNCHANGED <<now, wf, agentUp, hand>>

\* an instance dies with its tick, its request and its connections
Orphans(i) == {tick[i].k, hand[i].k} \ {0}
InstRestarts(i) ==
    /\ CountFault
    /\ tick' = [tick EXCEPT ![i] = [IdleTick EXCEPT !.pc = "boot"]]
    /\ hand' = [hand EXCEPT ![i] = IdleHand]
    /\ lock' = IF lock.i = i THEN FreeLock ELSE lock
    /\ run' = [k \in DOMAIN run |-> IF k \in Orphans(i)
                  THEN [run[k] EXCEPT !.slip = TRUE, !.lost = TRUE] ELSE run[k]]
    /\ UNCHANGED <<now, wf, agentUp>>

Next ==
    \/ \E w \in Flows, cron \in Crons, hook, on \in BOOLEAN : CreateFlow(w, cron, hook, on)
    \/ \E w \in Flows : DeleteFlow(w)
    \/ \E i \in Web, w \in Flows, cron \in Crons \cup {Null}, on \in {"keep", "yes", "no"} :
          PutRead(i, w, cron, on)
    \/ \E i \in Web, w \in Flows : RunFlow(i, w) \/ HookFlow(i, w)
    \/ \E i \in Insts : HandStep(i) \/ TickStep(i)
    \/ \E k \in DOMAIN run : DispatchSettles(k)
    \/ Clock
    \/ \E w \in Flows : AgentFlips(w)
    \/ IdleCloses \/ LockLost
    \/ \E i \in Insts : InstRestarts(i)

\* The timer of an instance keeps ticking, and the pool closes a connection
\* that has been idle.  Nothing is assumed of requests or of the clock.
Spec == /\ Init /\ [][Next]_vars
        /\ \A i \in Insts : WF_vars(TickStep(i))
        /\ WF_vars(IdleCloses)
-----------------------------------------------------------------------------
(* Properties.                                                              *)

\* workflow-scheduler.ts: a due time is fired once, whatever edits, requests,
\* restarts and other instances do in between; it is fired again only after a
\* tick that failed to move next_run_at, or died, or lost its lock half-way, or
\* an edit that computed that time before it came and wrote it afterwards.
FiredOnce ==
    \A k, l \in DOMAIN run :
        (k < l /\ run[k].w = run[l].w /\ run[k].due = run[l].due /\ run[k].due # Null)
            => run[k].slip \/ run[l].slip

\* routes/workflows.ts, "self-identifying": a run that says 'running' and has
\* no thread is one that a handler or a tick is still working on, unless the
\* process died or the very write that labels it failed.
Working(k) == \/ \E i \in Insts : tick[i].k = k
              \/ \E i \in Insts : hand[i].k = k
UnfinishedIsAttended ==
    \A k \in DOMAIN run :
        run[k].st = "running" /\ ~run[k].thread /\ ~run[k].lost => Working(k)

\* workflow-scheduler.ts: a workflow that is due is dealt with, even when the
\* lock was left behind on another connection of the pool.
DueIsServed == \A w \in Flows : Due(w) ~> ~Due(w)
=============================================================================
