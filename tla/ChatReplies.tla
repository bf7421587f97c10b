---------------------------- MODULE ChatReplies ----------------------------
(***************************************************************************)
(* The replies of agents in one chat thread (routes/chat.ts).  A message   *)
(* of the user, or an answer that mentions other agents, is dispatched: a  *)
(* placeholder is inserted for every agent asked, then the work is posted  *)
(* to the agents, and each agent calls back.  The callback ends the        *)
(* placeholder, decides whether its batch is complete, and may dispatch    *)
(* the next hop of a chain.  Cancelling, removing or stopping an agent,    *)
(* loading the thread and the stale sweeper end placeholders too.          *)
(*                                                                         *)
(* Every query of a handler is a step of its own (hand[h].pc), so the      *)
(* steps of several handlers interleave.                                   *)
(***************************************************************************)
EXTENDS Naturals, FiniteSets

CONSTANTS
    Agents,       \* the agents that may take part in the thread
    Elevated,     \* the agents with an elevated skill scope
    Resting,      \* the agents that may be stopped at first
    Lead,         \* lead_agent_id: an agent, or NoLead
    NoLead,       \* the thread has no lead
    Slots,        \* slots for handlers being served at the same time
    MaxGroup,     \* MAX_AGENTS_PER_GROUP
    MaxHops,      \* MAX_CHAIN_HOPS
    MaxMsgs,      \* bound: messages of the thread
    MaxAsks,      \* bound: messages posted by the user
    MaxThinks,    \* bound: thinking callbacks
    MaxEdits,     \* bound: cancels and changes of the participants
    MaxDowns,     \* bound: agents that stop or die
    MaxFaults,    \* bound: failed queries and undelivered posts
    MaxRestarts,  \* bound: restarts of the API process
    MaxUpsets     \* bound: edits, downs, faults and restarts together

ASSUME AgentsAssumption == /\ Agents # {} /\ IsFiniteSet(Agents) /\ Slots # {}
                           /\ Elevated \subseteq Agents
                           /\ Lead \in Agents \cup {NoLead} /\ NoLead \notin Agents
ASSUME LimitsAssumption ==
    /\ MaxGroup \in Nat /\ MaxHops \in Nat /\ MaxMsgs \in Nat /\ MaxAsks \in Nat
    /\ MaxThinks \in Nat /\ MaxEdits \in Nat /\ MaxDowns \in Nat
    /\ MaxFaults \in Nat /\ MaxRestarts \in Nat /\ MaxUpsets \in Nat

VARIABLES
    msg,      \* chat_messages of the thread
    last,     \* the number of messages inserted so far
    hand,     \* the handlers being served by the API
    work,     \* what the agents are doing about each placeholder
    members,  \* agents of chat_participants with left_at IS NULL
    group,    \* chat_threads.type = 'group'
    agent,    \* each agent: its row in agents and its container
    used      \* how much of each bound is spent

vars == <<msg, last, hand, work, members, group, agent, used>>
-----------------------------------------------------------------------------
Ids == 1..MaxMsgs
Null == 0
Open == {"pending", "thinking"}
Terminal == {"complete", "error"}

\* A message of the user has no reply_to here and is 'complete' at once.
\* stale: updated_at is more than two minutes ago
Messages == [st: Open \cup Terminal \cup {"none"}, author: Agents, reply: 0..MaxMsgs,
             chain: 0..MaxMsgs, hop: 0..MaxHops, batch: BOOLEAN, stale: BOOLEAN]
\* me: the message answered; todo, ok: agents to look at, agents found fit;
\* say: agents mentioned; unsent, failed: placeholders of this dispatch
Handlers == [pc: {"idle", "check", "place", "send", "batch", "flag", "chain", "cycle", "leave"},
             me: 0..MaxMsgs, todo: SUBSET Agents, ok: SUBSET Agents, say: SUBSET Agents,
             chain: 0..MaxMsgs, hop: 0..MaxHops, unsent: SUBSET Ids, failed: SUBSET Ids]
\* told: the callback was sent once, and is sent again after a timeout
Works == [st: {"idle", "busy", "told"}, res: Terminal, say: SUBSET Agents]

Bounds == [asks: 0..MaxAsks, thinks: 0..MaxThinks, edits: 0..MaxEdits,
           downs: 0..MaxDowns, faults: 0..MaxFaults, restarts: 0..MaxRestarts]

AnyAgent == CHOOSE a \in Agents : TRUE
NoMsg == [st |-> "none", author |-> AnyAgent, reply |-> Null, chain |-> Null,
          hop |-> 0, batch |-> FALSE, stale |-> FALSE]
Idle == [pc |-> "idle", me |-> Null, todo |-> {}, ok |-> {}, say |-> {},
         chain |-> Null, hop |-> 0, unsent |-> {}, failed |-> {}]
NoWork == [st |-> "idle", res |-> "error", say |-> {}]
Busy == [NoWork EXCEPT !.st = "busy"]

TypeOK ==
    /\ msg \in [Ids -> Messages]
    /\ last \in 0..MaxMsgs
    /\ hand \in [Slots -> Handlers]
    /\ work \in [Ids -> Works]
    /\ members \in SUBSET Agents
    /\ group \in BOOLEAN
    /\ agent \in [Agents -> {"up", "down", "off"}]
    /\ used \in Bounds

Init ==
    /\ msg = [i \in Ids |-> NoMsg]
    /\ last = 0
    /\ hand = [h \in Slots |-> Idle]
    /\ work = [i \in Ids |-> NoWork]
    /\ members \in SUBSET Agents \ {{}}
    /\ Cardinality(members) <= MaxGroup
    /\ group = (Cardinality(members) > 1)
    /\ agent \in [Agents -> {"up", "off"}]
    /\ \A a \in Agents \ Resting : agent[a] = "up"
    /\ used = [asks |-> 0, thinks |-> 0, edits |-> 0, downs |-> 0, faults |-> 0, restarts |-> 0]
-----------------------------------------------------------------------------
Spend(field, bound) == used[field] < bound /\ used' = [used EXCEPT ![field] = @ + 1]
Upsets == used.edits + used.downs + used.faults + used.restarts
Upset(field, bound) == Upsets < MaxUpsets /\ Spend(field, bound)
CountFault == Upset("faults", MaxFaults)
At(h, pc) == hand[h].pc = pc
\* the slots are alike: a handler takes the first that is free
FirstFree == CHOOSE k \in Slots : At(k, "idle")
Goto(h, pc) == hand' = [hand EXCEPT ![h] = [@ EXCEPT !.pc = pc]]
Done(h) == hand' = [hand EXCEPT ![h] = Idle]

Placeholder(i) == msg[i].st # "none" /\ msg[i].reply # Null
Siblings(r) == {i \in Ids : Placeholder(i) /\ msg[i].reply = r}
HasPending(a) == \E i \in Ids : msg[i].st = "pending" /\ msg[i].author = a

\* UPDATE ... SET status = 'error' WHERE ... AND status = 'pending'
\* Mut: the same without its guard on the status
MutErrorAlways(m) == [m EXCEPT !.st = "error"]
ErrorIfPending(m) == IF m.st = "pending" THEN [m EXCEPT !.st = "error"] ELSE m
ErrorPendingOf(a) ==
    msg' = [i \in Ids |-> IF msg[i].author = a THEN ErrorIfPending(msg[i]) ELSE msg[i]]
-----------------------------------------------------------------------------
(* POST /threads and POST /threads/:id/messages.                            *)

\* the agents mentioned, or all; a 4xx answer changes nothing
PostMessage(h, targets) ==
    /\ At(h, "idle") /\ h = FirstFree
    /\ targets # {} /\ targets \subseteq members
    /\ Spend("asks", MaxAsks)
    /\ hand' = [hand EXCEPT ![h] = [Idle EXCEPT !.pc = "check", !.todo = targets]]
    /\ UNCHANGED <<msg, last, work, members, group, agent>>

\* one turn of the loop over the targets.  The route for users has refused
\* elevated agents to users who are not admins; a chain never reaches them.
Fit(h, a) == /\ agent[a] \in {"up", "down"}
             /\ ~HasPending(a)
             /\ hand[h].me # Null => a \notin Elevated
CheckAgent(h, a) ==
    /\ At(h, "check")
    /\ a \in hand[h].todo
    /\ hand' = [hand EXCEPT ![h] = [hand[h] EXCEPT !.todo = @ \ {a},
                   !.ok = IF Fit(h, a) THEN @ \cup {a} ELSE @]]
    /\ UNCHANGED <<msg, last, work, members, group, agent, used>>

Checked(h) == At(h, "check") /\ hand[h].todo = {}
Insert(m) == last' = last + 1 /\ msg' = [msg EXCEPT ![last + 1] = m]
\* the INSERT throws, or the bound on messages is reached: the handler ends
CannotInsert(h) == /\ \/ last = MaxMsgs /\ UNCHANGED used
                      \/ CountFault
                   /\ Done(h)
                   /\ UNCHANGED <<msg, last>>

\* the transaction that inserts the user's message (it fails on a repeated
\* idempotency key too); only then the filter for the lead, which may leave
\* nobody to ask
ToAsk(ok) == IF Lead \in Agents THEN ok \cap {Lead} ELSE ok
InsertUserMessage(h) ==
    LET ok == hand[h].ok IN
    /\ Checked(h)
    /\ hand[h].me = Null
    /\ \/ /\ ok = {}
          /\ Done(h)
          /\ UNCHANGED <<msg, last, used>>
       \/ /\ ok # {} /\ last < MaxMsgs
          /\ Insert([NoMsg EXCEPT !.st = "complete"])
          /\ hand' = [hand EXCEPT ![h] = IF ToAsk(ok) = {} THEN Idle ELSE
                [@ EXCEPT !.pc = "place", !.me = last + 1, !.todo = ToAsk(ok), !.ok = {}]]
          /\ UNCHANGED used
       \/ ok # {} /\ CannotInsert(h)
    /\ UNCHANGED <<work, members, group, agent>>
-----------------------------------------------------------------------------
(* dispatchToAgents: all placeholders first, then all posts at once, then   *)
(* an error for every post that failed.                                     *)

InsertPlaceholder(h, a) ==
    LET left == hand[h].todo \ {a} IN
    /\ At(h, "place")
    /\ a \in hand[h].todo
    /\ \/ /\ last < MaxMsgs
          /\ Insert([NoMsg EXCEPT !.st = "pending", !.author = a, !.reply = hand[h].me,
                                  !.chain = hand[h].chain, !.hop = hand[h].hop])
          /\ hand' = [hand EXCEPT ![h] = [hand[h] EXCEPT !.todo = left,
                         !.unsent = @ \cup {last + 1}, !.pc = IF left = {} THEN "send" ELSE @]]
          /\ UNCHANGED used
       \/ CannotInsert(h)
    /\ UNCHANGED <<work, members, group, agent>>

Settled(t) == IF t.unsent = {} /\ t.failed = {} THEN Idle ELSE t

\* dispatchChatWork.  Nothing is sent when no callback token is configured.
PostWork(h, i) ==
    LET a == msg[i].author
        sent == [hand[h] EXCEPT !.unsent = @ \ {i}]
        lost == [sent EXCEPT !.failed = @ \cup {i}]
    IN
    /\ At(h, "send")
    /\ i \in hand[h].unsent
    /\ \/ /\ agent[a] = "up"                \* accepted
          /\ work' = [work EXCEPT ![i] = Busy]
          /\ hand' = [hand EXCEPT ![h] = Settled(sent)]
          /\ UNCHANGED used
       \/ /\ agent[a] = "up"                \* accepted, but the answer is late
          /\ work' = [work EXCEPT ![i] = Busy]
          /\ hand' = [hand EXCEPT ![h] = lost]
          /\ CountFault
       \/ /\ agent[a] # "up" /\ UNCHANGED used
          /\ hand' = [hand EXCEPT ![h] = lost]
          /\ UNCHANGED work
       \/ /\ CountFault
          /\ hand' = [hand EXCEPT ![h] = lost]
          /\ UNCHANGED work
    /\ UNCHANGED <<msg, last, members, group, agent>>

MarkFailed(h, i) ==
    /\ At(h, "send")
    /\ hand[h].unsent = {} /\ i \in hand[h].failed
    /\ hand' = [hand EXCEPT ![h] = Settled([hand[h] EXCEPT !.failed = @ \ {i}])]
    /\ \/ msg' = [msg EXCEPT ![i] = ErrorIfPending(@)] /\ UNCHANGED used
       \/ CountFault /\ UNCHANGED msg
    /\ UNCHANGED <<last, work, members, group, agent>>
-----------------------------------------------------------------------------
(* The agent at work (agentbox: chat.py).  A terminal callback is tried a   *)
(* second time when the first attempt gets no answer, so it may be lost, or *)
(* arrive twice.                                                            *)

\* a thinking callback: one guarded UPDATE, which also refreshes updated_at
Thinking(m) == IF m.st \in Open THEN [m EXCEPT !.st = "thinking", !.stale = FALSE] ELSE m
Think(i) ==
    /\ work[i].st = "busy"
    /\ Spend("thinks", MaxThinks)
    /\ msg' = [msg EXCEPT ![i] = Thinking(@)]
    /\ UNCHANGED <<last, hand, work, members, group, agent>>

LoseCallback(i) ==
    /\ work[i].st # "idle"
    /\ CountFault
    /\ work' = [work EXCEPT ![i] = NoWork]
    /\ UNCHANGED <<msg, last, hand, members, group, agent>>

\* WHERE id = $1 AND status IN ('pending', 'thinking'): only the callback
\* that ends the message goes on
\* Mut: no guard on the status, so every callback goes on
MutEveryCallback(i) == TRUE
EndsMessage(i) == msg[i].st \in Open
TerminalCallback(h, i, res, say) ==
    /\ At(h, "idle") /\ h = FirstFree
    /\ IF EndsMessage(i)
       THEN /\ msg' = [msg EXCEPT ![i] = [@ EXCEPT !.st = res, !.stale = FALSE]]
            /\ hand' = [hand EXCEPT ![h] = [Idle EXCEPT !.pc = "batch", !.me = i,
                                              !.say = IF res = "complete" THEN say ELSE {}]]
       ELSE UNCHANGED <<msg, hand>>
    /\ UNCHANGED <<last, members, group, agent>>

Answer(h, i, res, say) ==
    /\ work[i].st = "busy"
    /\ TerminalCallback(h, i, res, say)
    /\ \/ work' = [work EXCEPT ![i] = NoWork] /\ UNCHANGED used
       \/ CountFault                        \* the agent waits no longer
          /\ work' = [work EXCEPT ![i] = [st |-> "told", res |-> res, say |-> say]]

AnswerAgain(h, i) ==
    /\ work[i].st = "told"
    /\ TerminalCallback(h, i, work[i].res, work[i].say)
    /\ work' = [work EXCEPT ![i] = NoWork]
    /\ UNCHANGED used
-----------------------------------------------------------------------------
(* The rest of chatCallbackHandler, after the guarded UPDATE.               *)

\* Mut: a sibling that is thinking is counted as terminal
MutNotPending(r) == \A i \in Siblings(r) : msg[i].st # "pending"
AllTerminal(r) == \A i \in Siblings(r) : msg[i].st \in Terminal

CountBatch(h) ==
    /\ At(h, "batch")
    /\ \/ /\ Goto(h, IF group /\ AllTerminal(msg[hand[h].me].reply) THEN "flag" ELSE "chain")
          /\ UNCHANGED used
       \/ Goto(h, "chain") /\ CountFault    \* the count throws: caught
       \/ Done(h) /\ CountFault             \* the UPDATE of the thread throws
    /\ UNCHANGED <<msg, last, work, members, group, agent>>

FlagBatch(h) ==
    /\ At(h, "flag")
    /\ Goto(h, "chain")
    /\ \/ msg' = [msg EXCEPT ![hand[h].me] = [@ EXCEPT !.batch = TRUE]] /\ UNCHANGED used
       \/ CountFault /\ UNCHANGED msg
    /\ UNCHANGED <<last, work, members, group, agent>>

\* mentions of members other than the author; the first hop names the chain
ChainTargets(h) == (hand[h].say \cap members) \ {msg[hand[h].me].author}
HopAllowed(hop) == hop <= MaxHops
\* Mut: a chain of its own for every hop
MutNewChain(i) == i
ChainOf(i) == IF msg[i].chain = Null THEN i ELSE msg[i].chain
BeginChain(h) ==
    LET me == hand[h].me
        m == msg[me]
        id == ChainOf(me)
    IN
    /\ At(h, "chain")
    /\ \/ /\ ChainTargets(h) = {}
          /\ Done(h)
          /\ UNCHANGED <<msg, used>>
       \/ /\ ChainTargets(h) # {}
          /\ msg' = [msg EXCEPT ![me] = [@ EXCEPT !.chain = id]]
          /\ hand' = [hand EXCEPT ![h] = IF HopAllowed(m.hop + 1)
                THEN [@ EXCEPT !.pc = "cycle", !.todo = ChainTargets(h), !.say = {},
                               !.chain = id, !.hop = m.hop + 1]
                ELSE Idle]
          /\ UNCHANGED used
       \/ Done(h) /\ CountFault /\ UNCHANGED msg
    /\ UNCHANGED <<last, work, members, group, agent>>

\* the time budget, then the agents already in the chain
InChain(c) == {msg[i].author : i \in {j \in Ids : Placeholder(j) /\ msg[j].chain = c
                                                  /\ msg[j].st \in {"complete", "pending"}}}
FilterChain(h) ==
    LET fresh == hand[h].todo \ InChain(hand[h].chain) IN
    /\ At(h, "cycle")
    /\ \/ hand' = [hand EXCEPT ![h] = IF fresh = {} THEN Idle
                                      ELSE [@ EXCEPT !.pc = "check", !.todo = fresh]]
       \/ Done(h)                           \* elapsed > MAX_CHAIN_DURATION_MS
    /\ UNCHANGED <<msg, last, work, members, group, agent, used>>

DispatchChain(h) ==
    LET ok == hand[h].ok IN
    /\ Checked(h)
    /\ hand[h].me # Null
    /\ hand' = [hand EXCEPT ![h] = IF ok = {} THEN Idle
                                   ELSE [@ EXCEPT !.pc = "place", !.todo = ok, !.ok = {}]]
    /\ UNCHANGED <<msg, last, work, members, group, agent, used>>
-----------------------------------------------------------------------------
(* The other ways a placeholder ends.                                       *)

Cancel ==
    /\ Upset("edits", MaxEdits)
    /\ msg' = [i \in Ids |-> ErrorIfPending(msg[i])]
    /\ UNCHANGED <<last, hand, work, members, group, agent>>

\* PUT /threads/:id/participants
AddAgent(a) ==
    /\ a \notin members
    /\ Cardinality(members) < MaxGroup
    /\ Upset("edits", MaxEdits)
    /\ members' = members \cup {a}
    /\ group' = (group \/ Cardinality(members \cup {a}) > 1)
    /\ UNCHANGED <<msg, last, hand, work, agent>>

RemoveAgent(h, a) ==
    /\ At(h, "idle") /\ h = FirstFree
    /\ a \in members
    /\ Upset("edits", MaxEdits)
    /\ ErrorPendingOf(a)
    /\ hand' = [hand EXCEPT ![h] = [Idle EXCEPT !.pc = "leave", !.todo = {a}]]
    /\ UNCHANGED <<last, work, members, group, agent>>

Leave(h) ==
    /\ At(h, "leave")
    /\ members' = members \ hand[h].todo
    /\ Done(h)
    /\ UNCHANGED <<msg, last, work, group, agent, used>>

\* time passes; the sweeper, and a load of the thread (for 'pending' only)
GrowStale(i) ==
    /\ msg[i].st \in Open
    /\ msg' = [msg EXCEPT ![i] = [@ EXCEPT !.stale = TRUE]]
    /\ UNCHANGED <<last, hand, work, members, group, agent, used>>

\* Mut: the sweeper before it looked at 'thinking'
MutSweepPending(m) == m.st = "pending" /\ m.stale
Sweepable(m) == m.st \in Open /\ m.stale
Swept(m) == IF Sweepable(m) THEN [m EXCEPT !.st = "error", !.stale = FALSE] ELSE m
SweepStale ==
    /\ msg' = [i \in Ids |-> Swept(msg[i])]
    /\ UNCHANGED <<last, hand, work, members, group, agent, used>>

LoadThread ==
    /\ msg' = [i \in Ids |-> IF msg[i].stale THEN ErrorIfPending(msg[i]) ELSE msg[i]]
    /\ UNCHANGED <<last, hand, work, members, group, agent, used>>

\* an agent's container goes away with the work it holds; stop ends the
\* pending placeholders; the row is 'stopped' only later
AgentDown(a) ==
    /\ agent[a] = "up"
    /\ Upset("downs", MaxDowns)
    /\ agent' = [agent EXCEPT ![a] = "down"]
    /\ work' = [i \in Ids |-> IF msg[i].author = a THEN NoWork ELSE work[i]]
    /\ UNCHANGED <<msg, last, hand, members, group>>

StopCleanup(a) ==
    /\ agent[a] = "down"
    /\ ErrorPendingOf(a)
    /\ UNCHANGED <<last, hand, work, members, group, agent, used>>

AgentOff(a) ==
    /\ agent[a] = "down"
    /\ agent' = [agent EXCEPT ![a] = "off"]
    /\ UNCHANGED <<msg, last, hand, work, members, group, used>>

AgentUp(a) ==
    /\ agent[a] = "off"
    /\ agent' = [agent EXCEPT ![a] = "up"]
    /\ UNCHANGED <<msg, last, hand, work, members, group, used>>

ApiRestart ==
    /\ Upset("restarts", MaxRestarts)
    /\ hand' = [h \in Slots |-> Idle]
    /\ UNCHANGED <<msg, last, work, members, group, agent>>
-----------------------------------------------------------------------------
Dispatch(h) ==
    \/ \E a \in Agents : CheckAgent(h, a) \/ InsertPlaceholder(h, a)
    \/ InsertUserMessage(h)
    \/ \E i \in Ids : PostWork(h, i) \/ MarkFailed(h, i)

Callback(h) ==
    \/ \E i \in Ids, res \in Terminal :
          \E say \in SUBSET (Agents \ {msg[i].author}) : Answer(h, i, res, say)
    \/ \E i \in Ids : AnswerAgain(h, i)
    \/ CountBatch(h) \/ FlagBatch(h) \/ BeginChain(h) \/ FilterChain(h) \/ DispatchChain(h)

Edit ==
    \/ Cancel
    \/ \E a \in Agents : AddAgent(a) \/ \E h \in Slots : RemoveAgent(h, a)
    \/ \E h \in Slots : Leave(h)

Around ==
    \/ \E i \in Ids : Think(i) \/ LoseCallback(i) \/ GrowStale(i)
    \/ \E a \in Agents : AgentDown(a) \/ StopCleanup(a) \/ AgentOff(a) \/ AgentUp(a)
    \/ SweepStale \/ LoadThread \/ ApiRestart

Next ==
    \/ \E h \in Slots, targets \in SUBSET Agents : PostMessage(h, targets)
    \/ \E h \in Slots : Dispatch(h) \/ Callback(h)
    \/ Edit \/ Around

\* Time passes and the sweeper's timer keeps firing; nothing is assumed of
\* agents, callers or handlers, which a restart may drop at any step.
Spec == /\ Init /\ [][Next]_vars
        /\ \A i \in Ids : WF_vars(GrowStale(i))
        /\ WF_vars(SweepStale)
-----------------------------------------------------------------------------
(* Properties.                                                              *)

\* Once a message is complete or an error it stays so: of a late callback, a
\* failed dispatch, a cancel, a stop and the sweeper, the first decides.
TerminalIsFinal ==
    [][\A i \in Ids : msg[i].st \in Terminal => msg'[i].st = msg[i].st]_vars

\* batch_complete is never early: when a message carries it, every agent that
\* was or will be asked in the same batch has come to an end.
BatchFlagIsTrue ==
    \A i, j \in Ids : msg[i].batch /\ Placeholder(j) /\ msg[j].reply = msg[i].reply
                         => msg[j].st \in Terminal

\* A message is dispatched at most once: nobody is asked twice in a batch,
\* although the callback that dispatches it may arrive twice.
AskedOnce ==
    \A i, j \in Ids :
        Placeholder(i) /\ Placeholder(j) /\ msg[i].reply = msg[j].reply
            /\ msg[i].author = msg[j].author => i = j

\* A chain is a tree of bounded depth: a message of hop n > 0 answers a
\* complete message of hop n - 1 of its chain, written by another agent.
ChainIsTree ==
    \A i \in Ids : msg[i].hop > 0 =>
        LET p == msg[msg[i].reply] IN
        /\ msg[i].hop <= MaxHops /\ p.hop + 1 = msg[i].hop
        /\ p.st = "complete" /\ p.chain = msg[i].chain /\ p.chain # Null
        /\ p.author # msg[i].author
-----------------------------------------------------------------------------
(* The abstract thread (module Replies) that this one implements.           *)

Thread == INSTANCE Replies WITH
    User <- NoLead, Size <- MaxMsgs,
    st <- [i \in Ids |-> IF msg[i].st \in Open THEN "open" ELSE msg[i].st],
    by <- [i \in Ids |-> IF msg[i].reply = Null THEN NoLead ELSE msg[i].author],
    to <- [i \in Ids |-> msg[i].reply]

\* The handlers of chat.ts, interleaved query by query and with whatever is
\* lost, repeated or restarted, implement the abstract thread: every step is
\* one of its steps or none, and every placeholder comes to an end whatever is
\* lost: the post, the callback, the agent, or the API between two steps.
ImplementsThread == Thread!Spec
=============================================================================
