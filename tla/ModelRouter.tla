----------------------------- MODULE ModelRouter -----------------------------
(***************************************************************************)
(* The model router, services/ai: requests of one agent, of the child of    *)
(* its delegation and of the platform itself ("internal"), from the token   *)
(* through policy, limits and credentials to the provider and the usage     *)
(* table; usage rows that could not be written (usage_gaps.py); the         *)
(* denylist of tokens (revocation.py) and delegations (delegation.py).      *)
(*                                                                         *)
(* An await is a step boundary.  Models, prompts and answers are left out.  *)
(***************************************************************************)
EXTENDS Integers, Sequences, FiniteSets

CONSTANTS
    Slots,       \* requests at once
    Rpm,         \* requests per minute, of everybody
    MaxCalls,    \* bound: requests
    MaxFaults    \* bound: failed queries and calls

ASSUME RouterAssumption ==
    /\ Slots # {} /\ IsFiniteSet(Slots) /\ Rpm \in Nat \ {0}
    /\ MaxCalls \in Nat /\ MaxFaults \in Nat

VARIABLES req, rate, gap, deny, load, d, exp, hist, used
vars == <<req, rate, gap, deny, load, d, exp, hist, used>>
-----------------------------------------------------------------------------
Callers == {"own", "child", "internal"}
Names == {"parent", "child"}            \* the tokens that are revoked by name
\* of a usage row: "counted" is success or error, which the rate limit counts;
\* "other" is a refusal by a limit, or a client that left
Status == {"none", "counted", "other"}
Counted == {"counted"}
Reqs == [pc: {"idle", "deleg", "check", "resolve", "call", "stream", "log", "flush"},
         who: Callers, i: 1..2, status: Status,
         sent: BOOLEAN,                 \* the provider was called
         val: 0..MaxFaults,             \* missed_count, as read by flush_pending_gap
         late: BOOLEAN]                 \* history: begun after the revocation
Idle == [pc |-> "idle", who |-> "own", i |-> 1, status |-> "none", sent |-> FALSE, val |-> 0, late |-> FALSE]

TypeOK ==
    /\ req \in [Slots -> Reqs]
    /\ rate \in [Callers -> 0..MaxCalls]
    /\ gap \in 0..MaxFaults             \* _pending.missed_count, 0 for None
    /\ deny \in [table: SUBSET Names, mem: SUBSET Names]
    /\ load \in [on: BOOLEAN, snap: SUBSET Names]
    /\ d \in [pc: {"none", "inserted", "done", "gone"}, revoked: BOOLEAN,
              denying: BOOLEAN]         \* a revoke handler has not denied the name yet
    /\ exp \in SUBSET Names
    /\ hist \in [due: 0..MaxCalls,          \* calls without a row, written or missed
                 dropped: 0..MaxFaults,     \* calls for whose row there was no connection
                 off: Int,                  \* missed rows less recorded ones
                 met: 0..MaxFaults,         \* rows missed while a gap was being recorded
                 twice: BOOLEAN,            \* a flush began while another was under way
                 minute: [Callers -> 0..MaxCalls]]           \* counted calls of this minute
    /\ used \in [calls: 0..MaxCalls, faults: 0..MaxFaults]

Init ==
    /\ req = [r \in Slots |-> Idle]
    /\ rate = [w \in Callers |-> 0] /\ gap = 0
    /\ deny = [table |-> {}, mem |-> {}] /\ load = [on |-> FALSE, snap |-> {}]
    /\ d = [pc |-> "none", revoked |-> FALSE, denying |-> FALSE] /\ exp = {}
    /\ hist = [due |-> 0, dropped |-> 0, off |-> 0, met |-> 0, twice |-> FALSE,
               minute |-> [w \in Callers |-> 0]]
    /\ used = [calls |-> 0, faults |-> 0]

Fault == used.faults < MaxFaults /\ used' = [used EXCEPT !.faults = @ + 1]
Tokens == UNCHANGED <<deny, load, d, exp>>
Books == UNCHANGED <<rate, gap, hist>>
-----------------------------------------------------------------------------
(* A request.                                                               *)

\* verify_model_router_token: the child's token, and the one it was made with
Verifies == /\ d.pc = "done" /\ Names \cap (exp \cup deny.mem) = {}
FreeSlot == CHOOSE r \in Slots : \A o \in Slots : req[r].pc = "idle" \/ req[o].pc # "idle"
\* where resolve_agent_policy leads: the policy is read and nothing is written; an
\* agent's own model that is not allowed is a 403 that leaves nothing
AfterPolicy(w) == IF w = "child" THEN "deleg" ELSE "check"
Begin(r, w) ==
    /\ r = FreeSlot /\ req[r].pc = "idle" /\ used.calls < MaxCalls
    /\ w = "child" => Verifies
    /\ req' = [req EXCEPT ![r] = [Idle EXCEPT !.pc = AfterPolicy(w), !.who = w,
                                              !.late = w = "child" /\ d.revoked]]
    /\ used' = [used EXCEPT !.calls = @ + 1]
    /\ Tokens /\ Books

\* lookup_delegation_by_id; here a model that is not allowed leaves a counted error
\* Mut: revoked_at is not looked at, the denylist being there for that
MutDenylistOnly == d.pc # "gone" /\ exp = {}
DelegationStands == d.pc # "gone" /\ ~d.revoked /\ exp = {}
Delegation(r) ==
    /\ req[r].pc = "deleg"
    /\ req' \in IF DelegationStands
                THEN {[req EXCEPT ![r].pc = "check"], [req EXCEPT ![r].pc = "log", ![r].status = "counted"]}
                ELSE {[req EXCEPT ![r] = Idle]}
    /\ Tokens /\ Books /\ UNCHANGED used

\* check_rate_limit and check_token_budget: of a delegation, then of the agent,
\* whose count has its children's calls; what was spent today is left out
Limits(w) == IF w = "child" THEN <<"child", "own">> ELSE <<w>>
\* Mut: count <= max_rpm
MutOneMore(n) == n <= Rpm
Below(n) == n < Rpm
Check(r) ==
    LET q == req[r]  w == Limits(q.who)[q.i] IN
    /\ q.pc = "check"
    /\ \/ /\ Below(rate[w])
          /\ req' = IF q.i < Len(Limits(q.who)) THEN [req EXCEPT ![r].i = @ + 1]
                    ELSE [req EXCEPT ![r].pc = IF q.who = "internal" THEN "call" ELSE "resolve"]
       \/ req' = [req EXCEPT ![r].pc = "log", ![r].status = "other"]
    /\ Tokens /\ Books /\ UNCHANGED used

\* _resolve_byok: the owner's model, a router model, a platform model, or 403;
\* a key that cannot be decrypted is a 500; none of the two is recorded
Resolve(r) ==
    /\ req[r].pc = "resolve"
    /\ \/ req' = [req EXCEPT ![r].pc = "call"] /\ UNCHANGED used
       \/ req' = [req EXCEPT ![r] = Idle] /\ Fault
    /\ Tokens /\ Books

\* the provider answered 200, answered otherwise, or could not be asked
Answered(q) == {[q EXCEPT !.pc = "log", !.status = "counted", !.sent = TRUE]}
\* the stream is open, was refused, or could not be opened
Opened(q) == {[q EXCEPT !.pc = "stream", !.sent = TRUE]} \cup Answered(q)
Calls(r, qs) ==
    /\ req[r].pc = "call"
    /\ \E q \in qs : req' = [req EXCEPT ![r] = q]
    /\ hist' = [hist EXCEPT !.due = @ + 1]
    /\ Tokens /\ UNCHANGED <<rate, gap, used>>
ChatCompletions(r) == req[r].who # "internal" /\ Calls(r, Opened(req[r]))
Embeddings(r) == req[r].who # "internal" /\ Calls(r, Answered(req[r]))
InternalEmbeddings(r) == req[r].who = "internal" /\ Calls(r, Answered(req[r]))
\* POST /internal/usage: a call the knowledge service made itself ("success" is
\* what it reports); nothing is checked
LogUsageEndpoint(r) ==
    /\ r = FreeSlot /\ req[r].pc = "idle" /\ used.calls < MaxCalls
    /\ req' = [req EXCEPT ![r] = [Idle EXCEPT !.pc = "log", !.who = "internal", !.status = "counted"]]
    /\ used' = [used EXCEPT !.calls = @ + 1]
    /\ Tokens /\ Books

\* _stream_and_log: its finally is shielded from the client's leaving
\* Mut: it is not
MutUnshielded(q) == Idle
Shielded(q) == [q EXCEPT !.pc = "log", !.status = "other"]
StreamEnds(r) ==
    /\ req[r].pc = "stream"
    /\ req' \in {[req EXCEPT ![r].pc = "log", ![r].status = "counted"],
                 [req EXCEPT ![r] = Shielded(@)]}
    /\ Tokens /\ Books /\ UNCHANGED used
-----------------------------------------------------------------------------
(* log_usage and the gaps.                                                  *)

AlsoFor(w) == IF w = "child" THEN {"child", "own"} ELSE {w}
Others(r) == {o \in Slots \ {r} : req[o].pc = "flush"}
LogRow(r) ==
    LET q == req[r]
        add(f, n) == [w \in Callers |-> IF w \in AlsoFor(q.who) THEN f[w] + n ELSE f[w]] IN
    /\ q.pc = "log"
    /\ rate' = IF q.status \in Counted THEN add(rate, 1) ELSE rate
    /\ hist' = [hist EXCEPT !.due = IF q.sent THEN @ - 1 ELSE @, !.twice = @ \/ (gap # 0 /\ Others(r) # {}),
                            !.minute = IF q.sent /\ q.status \in Counted THEN add(@, 1) ELSE @]
    /\ req' = IF gap = 0 THEN [req EXCEPT ![r] = Idle]
              ELSE [req EXCEPT ![r] = [Idle EXCEPT !.pc = "flush", !.val = gap]]
    /\ Tokens /\ UNCHANGED <<gap, used>>
\* record_failed_write: a new gap of one, or one more
Missed(n) == n + 1
LogFails(r) ==
    /\ req[r].pc = "log" /\ Fault
    /\ gap' = Missed(gap)
    /\ hist' = [hist EXCEPT !.off = @ + 1, !.due = IF req[r].sent THEN @ - 1 ELSE @,
                            !.met = IF Others(r) # {} THEN @ + 1 ELSE @]
    /\ req' = [req EXCEPT ![r] = Idle]
    /\ Tokens /\ UNCHANGED <<rate>>
\* the pool gives no connection: log_usage is not reached, so that neither the
\* row nor the gap is written; the caller logs it and goes on
NoConnection(r) ==
    /\ req[r].pc = "log" /\ Fault
    /\ hist' = [hist EXCEPT !.dropped = IF req[r].sent THEN @ + 1 ELSE @]
    /\ req' = [req EXCEPT ![r] = Idle]
    /\ Tokens /\ UNCHANGED <<rate, gap>>
\* flush_pending_gap, once its INSERT is through: what it read is recorded, and
\* what is pending by now is forgotten; a failure leaves the gap
Recorded(n) == 0
Flush(r) ==
    /\ req[r].pc = "flush"
    /\ \/ gap' = Recorded(gap) /\ hist' = [hist EXCEPT !.off = @ - req[r].val]
       \/ UNCHANGED <<gap, hist>>
    /\ req' = [req EXCEPT ![r] = Idle]
    /\ Tokens /\ UNCHANGED <<rate, used>>
MinutePasses ==
    /\ \E w \in Callers : rate[w] > 0
    /\ rate' = [w \in Callers |-> 0] /\ hist' = [hist EXCEPT !.minute = rate']
    /\ Tokens /\ UNCHANGED <<req, gap, used>>
-----------------------------------------------------------------------------
(* Delegations and the denylist.                                            *)

Requests == UNCHANGED <<req, rate, gap, hist>>
\* revocation_manager.revoke: the table, then memory
Denied(n) == [deny EXCEPT !.table = @ \cup {n}, !.mem = @ \cup {n}]
DelegateInsert ==
    /\ d.pc = "none" /\ "parent" \notin exp \cup deny.mem
    /\ d' = [d EXCEPT !.pc = "inserted"]
    /\ Requests /\ UNCHANGED <<deny, load, exp, used>>
\* the API signs the child's token; update_child_jti; or the row is deleted
DelegateSigned ==
    /\ d.pc = "inserted"
    /\ \/ d' = [d EXCEPT !.pc = "done"] /\ UNCHANGED used
       \/ d' = [d EXCEPT !.pc = "gone"] /\ Fault
    /\ Requests /\ UNCHANGED <<deny, load, exp>>
\* revoke_delegation_endpoint: revoked_at; then, on a connection of its own, the
\* name that was in the row is denied: until it is signed, a placeholder
DelegateRevoke ==
    /\ d.pc \in {"inserted", "done"} /\ ~d.revoked
    /\ d' = [d EXCEPT !.revoked = TRUE, !.denying = d.pc = "done"]
    /\ Requests /\ UNCHANGED <<deny, load, exp, used>>
DelegateDeny ==
    /\ d.denying
    /\ d' = [d EXCEPT !.denying = FALSE]
    /\ \/ deny' = (IF exp = {} THEN Denied("child") ELSE deny) /\ UNCHANGED used
       \/ Fault /\ UNCHANGED deny
    /\ Requests /\ UNCHANGED <<load, exp>>
\* the API: the agent stopped, or its token was replaced
ParentRevoked ==
    /\ "parent" \notin exp \cup deny.table /\ d.pc # "none"
    /\ deny' = Denied("parent")
    /\ Requests /\ UNCHANGED <<load, d, exp, used>>
\* a child's token ends with its parent's, or before: then it may as well be both;
\* what the denylist says of them matters no more, and its next clean-up drops it
Expires ==
    /\ d.pc = "done" /\ exp = {}
    /\ exp' = Names /\ deny' = [table |-> {}, mem |-> {}] /\ load' = [on |-> FALSE, snap |-> {}]
    /\ Requests /\ UNCHANGED <<d, used>>

\* cleanup_expired: the rows that have not expired, then the set is replaced
LoadRead ==
    /\ ~load.on /\ exp = {}
    /\ load' = [on |-> TRUE, snap |-> deny.table]
    /\ Requests /\ UNCHANGED <<deny, d, exp, used>>
\* Mut: what was read can only shrink the set
MutShrink(snap) == snap \cap deny.mem
Loaded(snap) == snap
LoadApply ==
    /\ load.on
    /\ deny' = [deny EXCEPT !.mem = Loaded(load.snap)]
    /\ load' = [on |-> FALSE, snap |-> {}]
    /\ Requests /\ UNCHANGED <<d, exp, used>>
\* lifespan: preload; requests, the pending gap and the open delegation are lost
Restart ==
    /\ Fault
    /\ req' = [r \in Slots |-> Idle] /\ gap' = 0
    /\ hist' = [hist EXCEPT !.due = 0, !.dropped = 0, !.off = 0, !.met = 0]
    /\ deny' = [deny EXCEPT !.mem = deny.table] /\ load' = [on |-> FALSE, snap |-> {}]
    /\ d' = [d EXCEPT !.denying = FALSE]
    /\ UNCHANGED <<rate, exp>>
-----------------------------------------------------------------------------
Next ==
    \/ \E r \in Slots : \/ \E w \in Callers : Begin(r, w)
                        \/ Delegation(r) \/ Check(r) \/ Resolve(r)
                        \/ ChatCompletions(r) \/ Embeddings(r) \/ InternalEmbeddings(r)
                        \/ LogUsageEndpoint(r)
                        \/ StreamEnds(r) \/ LogRow(r) \/ LogFails(r) \/ NoConnection(r) \/ Flush(r)
    \/ MinutePasses \/ DelegateInsert \/ DelegateSigned \/ DelegateRevoke \/ DelegateDeny \/ ParentRevoked
    \/ Expires
    \/ LoadRead \/ LoadApply \/ Restart

\* The clean-up loop is a timer.
Spec == Init /\ [][Next]_vars /\ WF_vars(LoadRead) /\ WF_vars(LoadApply)
-----------------------------------------------------------------------------
(* Properties.                                                              *)

Flying == {r \in Slots : req[r].sent}

\* main.py: every call to the provider ends in a usage row or in the count of
\* missed rows, also when the client leaves a stream, until the process ends;
\* unless the pool had no connection for its row, which nothing counts.
CallsAreAccounted == hist.due = Cardinality(Flying) + hist.dropped

\* usage_gaps.py says that the gap converges.  What is pending and what is
\* recorded falls short of the missed rows by no more than those missed while a
\* gap was being recorded, and never exceeds them unless two flushes met.
GapsAddUp ==
    /\ hist.off - gap <= hist.met
    /\ ~hist.twice => hist.off >= gap

\* main.py, usage_gaps.py: what is known of the calls (the two parts above).
UsageIsAccounted == CallsAreAccounted /\ GapsAddUp

\* limits.py: checking and counting are apart, yet a minute sees no more counted
\* calls than the limit and one for each other request that was under way.
Past(w) == {r \in Slots : w \in AlsoFor(req[r].who) /\ (req[r].sent \/ req[r].pc \in {"resolve", "call"})}
RateIsBounded == \A w \in Callers : hist.minute[w] + Cardinality(Past(w)) < Rpm + Cardinality(Slots)

\* delegation.py: a request that comes after a delegation was revoked reaches no
\* provider, also if it was revoked before its token had a name to deny, and if
\* a reload dropped that name from memory.
RevokedIsRefused == \A r \in Slots : req[r].late => req[r].pc = "deleg"

\* revocation.py: what the table denies is in memory in the end, whatever a
\* reload that was under way overwrote.
DenylistCatchesUp == \A n \in Names : (n \in deny.table) ~> (n \in deny.mem \/ n \in exp)
=============================================================================
